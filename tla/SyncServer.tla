----------------------------- MODULE SyncServer -----------------------------
(***************************************************************************)
(* The sync part of the API (apps/api/src/sync): the tables sync.stores    *)
(* and sync.events of PostgreSQL, and the request handlers of              *)
(* POST /sync/push, GET /sync/pull and POST /sync/dev/reset.               *)
(*                                                                         *)
(* A handler is a sequence of database transactions with other handlers    *)
(* running in between, so every transaction (and, inside appendBatch and   *)
(* resetStore, every statement that other transactions can interleave      *)
(* with) is an action of its own.  Uncommitted writes live in tx[r] and    *)
(* are invisible to the others (READ COMMITTED); appendBatch holds the row *)
(* lock of its store (SELECT ... FOR UPDATE) from its first statement to   *)
(* its commit.                                                             *)
(*                                                                         *)
(* A push is checked against the sharing tables (apps/api/src/sharing).    *)
(* One scope and one resource are kept, as counters: scope states          *)
(* 1..scopeHead exist and the last one is the head; grants 1..grantHead    *)
(* exist and activeGrant is the one resource_grant_heads names, 0 for none.*)
(***************************************************************************)
EXTENDS Naturals, Sequences, FiniteSets

CONSTANTS
  Stores,        \* sync store ids
  Identities,    \* authenticated identities
  NoOwner,       \* sync.stores has no row for the store
  EventIds,      \* event ids generated by clients
  Records,       \* values of recordJson
  Requests,      \* concurrently running request handlers
  Batches,       \* the event batches clients push
  Production,    \* NODE_ENV === 'production': dev/reset is refused
  PullLimit,     \* page size of a pull (dto.limit)
  MissingLimit,  \* cap on the `missing` events of a conflict (1_000)
  MaxHead,       \* bound: expectedHead and since are drawn from 0..MaxHead
  MaxBase        \* bound: scope states and grants that are ever created

\* What an event cites: scopeStateRef and grantId (0: none), and whether it has a
\* resourceId.  A grant stands for its grantId and its resourceKeyId.
Base == [ref : Nat, grant : Nat, res : BOOLEAN]
NoBase == [ref |-> 0, grant |-> 0, res |-> FALSE]
Cites(b) == b.ref # 0 /\ b.grant # 0

Event == [id : EventIds, rec : Records, base : Base]
Row == [seq : Nat, id : EventIds, rec : Records, base : Base, owner : Identities]

ASSUME ServerConstants ==
  /\ Stores # {} /\ Identities # {} /\ NoOwner \notin Identities
  /\ Batches \subseteq Seq(Event)
  /\ Production \in BOOLEAN
  /\ PullLimit \in Nat \ {0}
  /\ MissingLimit \in Nat \ {0}
  /\ MaxHead \in Nat
  /\ MaxBase \in Nat

VARIABLES
  owner,        \* sync.stores.owner_identity_id
  head,         \* sync.stores.head
  events,       \* committed rows of sync.events, per store
  lock,         \* lock[s]: the handlers (at most one) holding the row lock of s
  scopeHead, grantHead, activeGrant,   \* the tables of the sharing schema
  pc,           \* where each handler is
  call,         \* its request
  tx,           \* its open transaction, or what it has read so far
  reply,        \* its answer
  inForce       \* history: the scope state and the grant that were in force since it began
                \* to check its batch

storeVars == <<owner, head, events, lock>>
sharingVars == <<scopeHead, grantHead, activeGrant>>
handlerVars == <<pc, call, tx, reply, inForce>>
vars == <<owner, head, events, lock, scopeHead, grantHead, activeGrant,
          pc, call, tx, reply, inForce>>

Call == [kind : {"push", "pull", "reset"}, actor : Identities, store : Stores,
         at : Nat, batch : Seq(Event)]
Assignment == [id : EventIds, seq : Nat]
Tx == [head : Nat, rows : SUBSET Row, todo : Seq(Event), assigned : SUBSET Assignment]
Outcomes == {"ok", "denied", "error", "server_ahead", "server_behind",
             "missing_deps", "stale_scope_state", "stale_grant"}
Reply == [is : Outcomes, head : Nat, rows : SUBSET Row,
          assigned : SUBSET Assignment, hasMore : BOOLEAN]

\* A handler that has not been given a request yet.
NoCall == [kind |-> "pull", actor |-> CHOOSE a \in Identities : TRUE,
           store |-> CHOOSE s \in Stores : TRUE, at |-> 0, batch |-> <<>>]
NoTx == [head |-> 0, rows |-> {}, todo |-> <<>>, assigned |-> {}]
NoReply == [is |-> "error", head |-> 0, rows |-> {}, assigned |-> {}, hasMore |-> FALSE]

-----------------------------------------------------------------------------
(* Queries *)

StoreOf(r) == call[r].store

\* Mistake: the number before the head.
HeadBefore(r) == IF owner[StoreOf(r)] = call[r].actor THEN head[StoreOf(r)] - 1 ELSE 0

\* getHeadSequence: the head of a store that belongs to the caller, else 0.
HeadSeenBy(r) == IF owner[StoreOf(r)] = call[r].actor THEN head[StoreOf(r)] ELSE 0

\* The rows of the caller in its store.
RowsSeenBy(r) == {x \in events[StoreOf(r)] : x.owner = call[r].actor}

\* Mistake: `since` is included.
LoadFrom(r, since, limit) ==
  LET after == {x \in RowsSeenBy(r) : x.seq >= since}
  IN  {x \in after : Cardinality({y \in after : y.seq < x.seq}) < limit}

\* loadSince: the first `limit` rows after `since` in global order.
LoadSince(r, since, limit) ==
  LET after == {x \in RowsSeenBy(r) : x.seq > since}
  IN  {x \in after : Cardinality({y \in after : y.seq < x.seq}) < limit}

\* The rows that make an event of an open append known: the existing rows the
\* append has read, and the rows it has inserted itself (ON CONFLICT (event_id)).
\* Mistake: without its own rows.
KnownStored(r, id) == {x \in RowsSeenBy(r) : x.id = id}
Known(r, id) == {x \in RowsSeenBy(r) \cup tx[r].rows : x.id = id}

\* SELECT ... FOR UPDATE gets the store row.  Mistake: a plain SELECT.
NoLockNeeded(s) == TRUE
CanLock(s) == lock[s] = {}

\* The owner of s after an INSERT ... ON CONFLICT (store_id) DO NOTHING by a.
\* Mistake: DO UPDATE.
OwnedByLast(s, a) == a
Owned(s, a) == IF owner[s] = NoOwner THEN a ELSE owner[s]

\* dev/reset is refused in production.  Mistake: it is not.
NeverForbidden(kind) == FALSE
Forbidden(kind) == kind = "reset" /\ Production

\* Mistake: any scope state will do.
ExistenceVerdict(b) ==
  IF ~Cites(b) THEN "ok"
  ELSE IF b.ref > scopeHead \/ b.grant > grantHead THEN "missing_deps"
  ELSE "ok"

\* validateSharingDependencies for one event, up to the active grant: what the server
\* answers, or "ok".  An event that lacks a reference is not checked.  Nothing is ever
\* removed, so the two look-ups and the head's count as one query.
DependencyVerdict(b) ==
  IF ~Cites(b) THEN "ok"
  ELSE IF b.ref > scopeHead \/ b.grant > grantHead THEN "missing_deps"
  ELSE IF b.ref # scopeHead THEN "stale_scope_state"
  ELSE "ok"

-----------------------------------------------------------------------------
(* Steps every handler shares *)

InForce == [scope |-> scopeHead, grant |-> activeGrant]

Goto(r, label) == pc' = [pc EXCEPT ![r] = label]

Answer(r, a) ==
  /\ Goto(r, "done")
  /\ reply' = [reply EXCEPT ![r] = a]
  /\ tx' = [tx EXCEPT ![r] = NoTx]
  /\ inForce' = [inForce EXCEPT ![r] = {}]
  /\ UNCHANGED call

Init ==
  /\ owner = [s \in Stores |-> NoOwner]
  /\ head = [s \in Stores |-> 0]
  /\ events = [s \in Stores |-> {}]
  /\ lock = [s \in Stores |-> {}]
  /\ scopeHead = 0 /\ grantHead = 0 /\ activeGrant = 0
  /\ pc = [r \in Requests |-> "idle"]
  /\ call = [r \in Requests |-> NoCall]
  /\ tx = [r \in Requests |-> NoTx]
  /\ reply = [r \in Requests |-> NoReply]
  /\ inForce = [r \in Requests |-> {}]

\* A request arrives: any identity may name any store, any position and any
\* batch.  `at` is expectedHead of a push and since of a pull.
Receive(r) ==
  /\ pc[r] \in {"idle", "done"}
  /\ \E k \in {"push", "pull", "reset"}, a \in Identities, s \in Stores,
        n \in 0..MaxHead, b \in Batches :
       /\ k # "push" => b = <<>>
       /\ k = "reset" => n = 0
       /\ call' = [call EXCEPT ![r] =
                     [kind |-> k, actor |-> a, store |-> s, at |-> n, batch |-> b]]
       /\ IF Forbidden(k)
          THEN /\ Goto(r, "done")
               /\ reply' = [reply EXCEPT ![r] = [NoReply EXCEPT !.is = "denied"]]
          ELSE Goto(r, "owner") /\ reply' = [reply EXCEPT ![r] = NoReply]
  /\ UNCHANGED <<owner, head, events, lock, scopeHead, grantHead, activeGrant, tx, inForce>>

\* ensureStoreOwner, one transaction: the first identity to name a store owns
\* it; anybody else is refused.
EnsureStoreOwner(r) ==
  LET s == StoreOf(r)
      o == Owned(s, call[r].actor)
  IN  /\ pc[r] = "owner"
      /\ owner' = [owner EXCEPT ![s] = o]
      /\ IF o # call[r].actor
         THEN Answer(r, [NoReply EXCEPT !.is = "denied"])
         ELSE /\ Goto(r, CASE call[r].kind = "push"  -> "verify"
                           [] call[r].kind = "pull"  -> "load"
                           [] call[r].kind = "reset" -> "delete")
              /\ tx' = [tx EXCEPT ![r] = [NoTx EXCEPT !.todo = call[r].batch]]
              /\ inForce' = [inForce EXCEPT ![r] =
                               IF call[r].kind = "push" THEN {InForce} ELSE {}]
              /\ UNCHANGED <<call, reply>>
      /\ UNCHANGED <<head, events, lock, scopeHead, grantHead, activeGrant>>

-----------------------------------------------------------------------------
(* POST /sync/push *)

\* validateSharingDependencies, the next event: its references do not hold now, or its
\* grant is looked up, or it is the next event's turn.  Every query is awaited.
VerifyEvent(r) ==
  LET b == Head(tx[r].todo).base
      verdict == DependencyVerdict(b)
  IN  /\ pc[r] = "verify" /\ tx[r].todo # <<>>
      /\ IF verdict # "ok"
         THEN Answer(r, [NoReply EXCEPT !.is = verdict, !.head = HeadSeenBy(r)])
         ELSE IF Cites(b) /\ b.res
         THEN Goto(r, "grant") /\ UNCHANGED <<call, tx, reply, inForce>>
         ELSE tx' = [tx EXCEPT ![r].todo = Tail(@)] /\ UNCHANGED <<pc, call, reply, inForce>>
      /\ UNCHANGED <<owner, head, events, lock, scopeHead, grantHead, activeGrant>>

\* The active grant of an event with a resource.
VerifyGrant(r) ==
  /\ pc[r] = "grant" /\ tx[r].todo # <<>>
  /\ IF Head(tx[r].todo).base.grant # activeGrant
     THEN Answer(r, [NoReply EXCEPT !.is = "stale_grant", !.head = HeadSeenBy(r)])
     ELSE /\ Goto(r, "verify")
          /\ tx' = [tx EXCEPT ![r].todo = Tail(@)]
          /\ UNCHANGED <<call, reply, inForce>>
  /\ UNCHANGED <<owner, head, events, lock, scopeHead, grantHead, activeGrant>>

\* pushEvents: an empty batch is answered with the head; one that passed goes to
\* appendBatch.
VerifyBatch(r) ==
  /\ pc[r] = "verify" /\ tx[r].todo = <<>>
  /\ IF call[r].batch = <<>>
     THEN Answer(r, [NoReply EXCEPT !.is = "ok", !.head = HeadSeenBy(r)])
     ELSE Goto(r, "begin") /\ UNCHANGED <<call, tx, reply, inForce>>
  /\ UNCHANGED <<owner, head, events, lock, scopeHead, grantHead, activeGrant>>

\* appendBatch: lock the store row and compare its head with expectedHead.
BeginAppend(r) ==
  LET s == StoreOf(r) IN
  /\ pc[r] = "begin"
  /\ CanLock(s)
  /\ IF head[s] = call[r].at
     THEN /\ lock' = [lock EXCEPT ![s] = {r}]
          /\ tx' = [tx EXCEPT ![r] = [NoTx EXCEPT !.head = head[s], !.todo = call[r].batch]]
          /\ Goto(r, "insert")
          /\ UNCHANGED <<call, reply, inForce>>
     ELSE IF head[s] < call[r].at
     THEN /\ Answer(r, [NoReply EXCEPT !.is = "server_behind", !.head = head[s]])
          /\ UNCHANGED lock
     ELSE /\ Goto(r, "missing")
          /\ tx' = [tx EXCEPT ![r] = [NoTx EXCEPT !.head = head[s]]]
          /\ inForce' = [inForce EXCEPT ![r] = {}]
          /\ UNCHANGED <<lock, call, reply>>
  /\ UNCHANGED <<owner, head, events, scopeHead, grantHead, activeGrant>>

\* appendBatch, the next event of the batch.  An id that is already in the
\* store keeps its sequence number and its record; a new one gets the next
\* number.  A row that already has that number (only possible after a reset
\* that raced with an append) breaks the unique index: the transaction is
\* rolled back and the request fails.
InsertEvent(r) ==
  LET s == StoreOf(r)
      e == Head(tx[r].todo)
      rows == RowsSeenBy(r) \cup tx[r].rows
      known == Known(r, e.id)
      next == tx[r].head + 1
      row == [seq |-> next, id |-> e.id, rec |-> e.rec, base |-> e.base,
              owner |-> call[r].actor]
  IN  /\ pc[r] = "insert"
      /\ tx[r].todo # <<>>
      /\ \/ /\ known # {}
            /\ \E x \in known :
                 tx' = [tx EXCEPT ![r].todo = Tail(@),
                                  ![r].assigned = @ \cup {[id |-> x.id, seq |-> x.seq]}]
            /\ UNCHANGED <<lock, pc, call, reply, inForce>>
         \/ /\ known = {}
            /\ \A x \in rows : x.seq # next
            /\ tx' = [tx EXCEPT ![r] =
                 [head |-> next, rows |-> tx[r].rows \cup {row}, todo |-> Tail(tx[r].todo),
                  assigned |-> tx[r].assigned \cup {[id |-> e.id, seq |-> next]}]]
            /\ UNCHANGED <<lock, pc, call, reply, inForce>>
         \/ /\ known = {}
            /\ \E x \in rows : x.seq = next
            /\ lock' = [lock EXCEPT ![s] = {}]
            /\ Answer(r, NoReply)
      /\ UNCHANGED <<owner, head, events, scopeHead, grantHead, activeGrant>>

\* appendBatch: update the head and commit.
CommitAppend(r) ==
  LET s == StoreOf(r) IN
  /\ pc[r] = "insert"
  /\ tx[r].todo = <<>>
  /\ events' = [events EXCEPT ![s] = @ \cup tx[r].rows]
  /\ head' = [head EXCEPT ![s] = tx[r].head]
  /\ lock' = [lock EXCEPT ![s] = {}]
  /\ Answer(r, [NoReply EXCEPT !.is = "ok", !.head = tx[r].head,
                               !.assigned = tx[r].assigned])
  /\ UNCHANGED <<owner, scopeHead, grantHead, activeGrant>>

\* pushEvents, head mismatch with the server ahead: the missing events are read
\* after the transaction that found the mismatch has ended.
LoadMissing(r) ==
  /\ pc[r] = "missing"
  /\ Answer(r, [NoReply EXCEPT !.is = "server_ahead", !.head = tx[r].head,
                               !.rows = LoadSince(r, call[r].at, MissingLimit)])
  /\ UNCHANGED <<owner, head, events, lock, scopeHead, grantHead, activeGrant>>

-----------------------------------------------------------------------------
(* GET /sync/pull *)

\* loadEvents, first query.
LoadEvents(r) ==
  /\ pc[r] = "load"
  /\ tx' = [tx EXCEPT ![r] = [NoTx EXCEPT !.rows = LoadSince(r, call[r].at, PullLimit)]]
  /\ Goto(r, "head")
  /\ UNCHANGED <<owner, head, events, lock, scopeHead, grantHead, activeGrant, call, reply, inForce>>

LastSeq(rows, since) ==
  IF rows = {} THEN since ELSE (CHOOSE x \in rows : \A y \in rows : y.seq <= x.seq).seq

\* Mistake: the long poll has no deadline.
LoadHeadOfPage(r) ==
  /\ pc[r] = "head"
  /\ tx[r].rows # {}
  /\ Answer(r, [NoReply EXCEPT !.is = "ok", !.head = HeadSeenBy(r), !.rows = tx[r].rows])
  /\ UNCHANGED <<owner, head, events, lock, scopeHead, grantHead, activeGrant>>

\* loadEvents, second query, and the answer.
LoadHead(r) ==
  LET rows == tx[r].rows
      h == HeadSeenBy(r)
  IN  /\ pc[r] = "head"
      /\ Answer(r, [NoReply EXCEPT !.is = "ok", !.head = h, !.rows = rows,
                      !.hasMore = /\ rows # {}
                                  /\ Cardinality(rows) = PullLimit
                                  /\ h > LastSeq(rows, call[r].at)])
      /\ UNCHANGED <<owner, head, events, lock, scopeHead, grantHead, activeGrant>>

\* A long poll that found nothing and whose deadline has not passed calls
\* pullEvents again.
PollAgain(r) ==
  /\ pc[r] = "head"
  /\ tx[r].rows = {}
  /\ Goto(r, "owner")
  /\ tx' = [tx EXCEPT ![r] = NoTx]
  /\ UNCHANGED <<owner, head, events, lock, scopeHead, grantHead, activeGrant, call, reply, inForce>>

-----------------------------------------------------------------------------
(* POST /sync/dev/reset: delete the rows the first statement sees, then set *)
(* the head once no append holds the store row, and commit both.            *)

DeleteEvents(r) ==
  /\ pc[r] = "delete"
  /\ tx' = [tx EXCEPT ![r] = [NoTx EXCEPT !.rows = RowsSeenBy(r)]]
  /\ Goto(r, "resetHead")
  /\ UNCHANGED <<owner, head, events, lock, scopeHead, grantHead, activeGrant, call, reply, inForce>>

CommitReset(r) ==
  LET s == StoreOf(r) IN
  /\ pc[r] = "resetHead"
  /\ CanLock(s)
  /\ events' = [events EXCEPT ![s] = @ \ tx[r].rows]
  /\ head' = [head EXCEPT ![s] = 0]
  /\ Answer(r, [NoReply EXCEPT !.is = "ok"])
  /\ UNCHANGED <<owner, lock, scopeHead, grantHead, activeGrant>>

-----------------------------------------------------------------------------
(* The sharing tables grow (apps/api/src/sharing).  An append compares the  *)
(* expected head and the previous hash with the head it has locked, so that *)
(* an append that is not refused adds the next record of the chain; one     *)
(* that is refused changes nothing.                                         *)

\* Pushes that check their batch, or are about to store it, when the heads change.
Witness ==
  inForce' = [r \in Requests |->
                IF inForce[r] = {} THEN {}
                ELSE inForce[r] \cup {[scope |-> scopeHead', grant |-> activeGrant']}]

\* ScopeStateRepository.appendState: the new state becomes the head.
AdvanceScope ==
  /\ scopeHead < MaxBase
  /\ scopeHead' = scopeHead + 1
  /\ UNCHANGED activeGrant /\ Witness
  /\ UNCHANGED <<owner, head, events, lock, grantHead, pc, call, tx, reply>>

\* ResourceGrantRepository.appendGrant of an active grant: resource_grant_heads
\* names it from now on.
IssueGrant ==
  /\ grantHead < MaxBase
  /\ grantHead' = grantHead + 1
  /\ activeGrant' = grantHead + 1
  /\ UNCHANGED scopeHead /\ Witness
  /\ UNCHANGED <<owner, head, events, lock, pc, call, tx, reply>>

\* appendGrant of a grant with another status ('revoked'): a row is added, and
\* resource_grant_heads goes on naming the grant it named.
RevokeGrant ==
  /\ grantHead < MaxBase
  /\ grantHead' = grantHead + 1
  /\ UNCHANGED <<owner, head, events, lock, scopeHead, activeGrant, pc, call, tx, reply, inForce>>

Sharing == AdvanceScope \/ IssueGrant \/ RevokeGrant

-----------------------------------------------------------------------------
Handle(r) ==
  \/ EnsureStoreOwner(r)
  \/ VerifyEvent(r) \/ VerifyGrant(r) \/ VerifyBatch(r)
  \/ BeginAppend(r) \/ InsertEvent(r) \/ CommitAppend(r) \/ LoadMissing(r)
  \/ LoadEvents(r) \/ LoadHead(r) \/ PollAgain(r)
  \/ DeleteEvents(r) \/ CommitReset(r)

Next == (\E r \in Requests : Receive(r) \/ Handle(r)) \/ Sharing

Spec == Init /\ [][Next]_vars

\* Handlers run to their end: PostgreSQL serves the waiters of a row lock in
\* order (strong fairness of the two steps that need it), and a long poll
\* ends at its deadline (strong fairness of its answer).  Clients and the
\* sharing service owe nothing.
Fairness == \A r \in Requests :
  /\ WF_vars(EnsureStoreOwner(r)) /\ WF_vars(VerifyEvent(r)) /\ WF_vars(VerifyGrant(r))
  /\ WF_vars(VerifyBatch(r)) /\ WF_vars(InsertEvent(r))
  /\ WF_vars(CommitAppend(r)) /\ WF_vars(LoadMissing(r)) /\ WF_vars(LoadEvents(r))
  /\ WF_vars(DeleteEvents(r))
  /\ SF_vars(BeginAppend(r)) /\ SF_vars(CommitReset(r)) /\ SF_vars(LoadHead(r))

FairSpec == Spec /\ Fairness

-----------------------------------------------------------------------------
(* Properties *)

Labels == {"idle", "owner", "verify", "grant", "begin", "insert", "missing", "load",
           "head", "delete", "resetHead", "done"}

\* Every table and handler variable has the type the code gives it.
TypeOK ==
  /\ owner \in [Stores -> Identities \cup {NoOwner}]
  /\ head \in [Stores -> Nat]
  /\ events \in [Stores -> SUBSET Row]
  /\ lock \in [Stores -> SUBSET Requests]
  /\ scopeHead \in Nat /\ grantHead \in Nat /\ activeGrant \in Nat
  /\ pc \in [Requests -> Labels]
  /\ call \in [Requests -> Call]
  /\ tx \in [Requests -> Tx]
  /\ reply \in [Requests -> Reply]
  /\ inForce \in [Requests -> SUBSET [scope : Nat, grant : Nat]]

\* In production the rows of a store carry the global sequence numbers
\* 1..head, each exactly once (sync.stores.head and sync.events are written by
\* different statements of appendBatch, under a lock that readers ignore).
LogDense == Production =>
  \A s \in Stores :
    /\ \A x \in events[s] : 1 <= x.seq /\ x.seq <= head[s]
    /\ \A n \in 1..head[s] : \E x \in events[s] : x.seq = n
    /\ \A x, y \in events[s] : x.seq = y.seq => x = y

\* INV-008: an event id is stored once per store, whatever is pushed again,
\* concurrently or twice in one batch.
IdsStoredOnce == \A s \in Stores : \A x, y \in events[s] : x.id = y.id => x = y

\* An accepted push has put every event of its batch into the log at the number
\* it was told, and it stays there while other requests run.
PushAnswersHold == Production =>
  \A r \in Requests :
    (pc[r] = "done" /\ call[r].kind = "push" /\ reply[r].is = "ok") =>
      /\ \A i \in DOMAIN call[r].batch : \E a \in reply[r].assigned :
            a.id = call[r].batch[i].id
      /\ \A a \in reply[r].assigned :
            /\ a.seq <= reply[r].head
            /\ \E x \in events[StoreOf(r)] : x.id = a.id /\ x.seq = a.seq

\* The rows of a pull, and the missing rows of a conflict, are the log from the
\* requested position on: numbers at+1, at+2, ... without a hole, although the
\* rows and the head are read by two queries with appends in between.
PagesDense == Production =>
  \A r \in Requests :
    (pc[r] = "done" /\ reply[r].is \in {"ok", "server_ahead"}) =>
      /\ \A x \in reply[r].rows : x.seq > call[r].at /\ x \in events[StoreOf(r)]
      /\ \A x \in reply[r].rows : \A n \in (call[r].at + 1)..x.seq :
            \E y \in reply[r].rows : y.seq = n

\* A conflict with the server ahead always brings the client at least one
\* missing row, so the client never has to fall back to waiting for a pull.
AheadHasMissing == Production =>
  \A r \in Requests :
    (pc[r] = "done" /\ reply[r].is = "server_ahead") => reply[r].rows # {}

\* What the server answers is true of the log, and stays true while other
\* requests run: accepted pushes are in it, pages and missing lists are a dense
\* part of it, and a conflict with the server ahead tells the client something.
AnswersHold == PushAnswersHold /\ PagesDense /\ AheadHasMissing

\* A store and every row in it belong to one identity, and only that identity
\* is answered with its rows or adds rows to it.
OwnerOnly ==
  /\ \A s \in Stores : \A x \in events[s] : x.owner = owner[s]
  /\ \A r \in Requests : pc[r] = "done" /\ reply[r].is \notin {"denied", "error"}
        => owner[StoreOf(r)] = call[r].actor

\* Where a handler is once its identity has been found to own the store.
PastOwner == {"verify", "grant", "begin", "insert", "missing", "load", "head", "delete", "resetHead"}

\* The rows of an open append continue the committed rows of its store: no id is
\* repeated and, in production, the numbers go on from the head without a hole.
\* Nothing another handler commits meanwhile may change that.
OpenAppend(r) ==
  LET s == StoreOf(r)
      new == tx[r].rows
  IN  /\ \A x, y \in events[s] \cup new : x.id = y.id => x = y
      /\ \A x \in new : x.owner = call[r].actor
      /\ Production =>
           /\ head[s] <= tx[r].head
           /\ \A x \in new : head[s] < x.seq /\ x.seq <= tx[r].head
           /\ \A n \in (head[s] + 1)..tx[r].head : \E x \in new : x.seq = n
           /\ \A x, y \in new : x.seq = y.seq => x = y

\* What makes the log safe while appends are open: an append has the lock of its
\* store to itself and fits the committed log, every handler past the ownership
\* check still acts for the owner, and production never resets.
AppendsFit ==
  /\ \A r \in Requests : pc[r] = "insert" => lock[StoreOf(r)] = {r} /\ OpenAppend(r)
  /\ \A s \in Stores : \A x \in events[s] : x.owner = owner[s]
  /\ \A r \in Requests : pc[r] \in PastOwner => owner[StoreOf(r)] = call[r].actor
  /\ Production => \A r \in Requests :
       /\ pc[r] \notin {"delete", "resetHead"}
       /\ pc[r] \in {"owner", "load", "head"} => call[r].kind # "reset"

\* The committed log of store s, in global order.
LogOf(s) ==
  [n \in 1..head[s] |->
     LET x == CHOOSE y \in events[s] : y.seq = n IN [id |-> x.id, rec |-> x.rec]]

Log == INSTANCE SyncLog WITH log <- [s \in Stores |-> LogOf(s)]

\* In production the tables implement the append-only log SyncLog specifies:
\* no committed entry is ever renumbered, rewritten or removed (INV-001, INV-009).
ImplementsLog == Log!LogSpec

\* Every request that is received is answered.
EveryRequestAnswered == \A r \in Requests : (pc[r] = "owner") ~> (pc[r] = "done")

\* An event with base b is authorised by what was in force at the times H.
Authorised(b, H) ==
  Cites(b) => /\ b.grant <= grantHead
              /\ \E h \in H : b.ref = h.scope
              /\ b.res => \E h \in H : b.grant = h.grant

\* INV-022, the part the code keeps: what an append is about to store cites a scope state
\* that was the head, and for a resource a grant that was the active one, at some time
\* since the server took up the push; the look-ups are separate queries, before and outside
\* the transaction that stores the event, while scope states and grants are added.
AuthorisedWhenChecked ==
  \A r \in Requests : pc[r] = "insert" =>
    \A x \in tx[r].rows : Authorised(x.base, inForce[r])

(* What the documents say and the code does not do. *)

\* docs/invariants.md:32, INV-022: the server rejects pushes that reference "stale
\* authorization bases", "preventing [...] revoked writers from publishing": what is
\* stored cites the scope state and the grant that are in force then.
AuthorisedWhenStored ==
  \A r \in Requests : pc[r] = "insert" =>
    \A x \in tx[r].rows : Authorised(x.base, {InForce})
=============================================================================
