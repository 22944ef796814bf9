-------------------------- MODULE SyncServerProofs --------------------------
(***************************************************************************)
(* Theorems about SyncServer, for any sets of stores, identities, events,  *)
(* records and concurrent requests and any value of the limits.            *)
(***************************************************************************)
EXTENDS SyncServer, FiniteSetTheorems, TLAPS

\* The idle handler's fields have the types of the code.
LEMMA Defaults ==
  /\ NoCall \in Call
  /\ NoTx \in Tx
  /\ NoReply \in Reply
<1>1. NoCall \in Call
  <2>1. (CHOOSE a \in Identities : TRUE) \in Identities
    BY ServerConstants
  <2>2. (CHOOSE s \in Stores : TRUE) \in Stores
    BY ServerConstants
  <2>3. <<>> \in Seq(Event)
    OBVIOUS
  <2> QED
    BY <2>1, <2>2, <2>3 DEF NoCall, Call
<1>2. NoTx \in Tx
  BY DEF NoTx, Tx
<1>3. NoReply \in Reply
  BY DEF NoReply, Reply, Outcomes
<1> QED
  BY <1>1, <1>2, <1>3

\* A query returns rows of the table, and a head that is a number.
LEMMA Queries ==
  ASSUME TypeOK, NEW r \in Requests
  PROVE  /\ StoreOf(r) \in Stores
         /\ HeadSeenBy(r) \in Nat
         /\ RowsSeenBy(r) \subseteq events[StoreOf(r)]
         /\ RowsSeenBy(r) \in SUBSET Row
         /\ \A since, limit : LoadSince(r, since, limit) \subseteq RowsSeenBy(r)
<1>1. StoreOf(r) \in Stores
  BY DEF TypeOK, StoreOf, Call
<1>2. HeadSeenBy(r) \in Nat
  BY <1>1 DEF TypeOK, HeadSeenBy
<1>3. RowsSeenBy(r) \subseteq events[StoreOf(r)]
  BY DEF RowsSeenBy
<1>4. events[StoreOf(r)] \subseteq Row
  BY <1>1 DEF TypeOK
<1>5. \A since, limit : LoadSince(r, since, limit) \subseteq RowsSeenBy(r)
  BY DEF LoadSince
<1> QED
  BY <1>1, <1>2, <1>3, <1>4, <1>5

\* The verdict on an event is one of the outcomes of a push, and not a conflict.
LEMMA VerdictType ==
  ASSUME NEW b
  PROVE  DependencyVerdict(b) \in Outcomes \ {"server_ahead"}
BY DEF DependencyVerdict, Outcomes

\* An answer of the right type keeps the handler variables typed.
LEMMA AnswerType ==
  ASSUME TypeOK, NEW r \in Requests, NEW a \in Reply, Answer(r, a)
  PROVE  /\ pc' \in [Requests -> Labels]
         /\ call' \in [Requests -> Call]
         /\ tx' \in [Requests -> Tx]
         /\ reply' \in [Requests -> Reply]
         /\ inForce' \in [Requests -> SUBSET [scope : Nat, grant : Nat]]
BY Defaults DEF TypeOK, Answer, Goto, Labels

-----------------------------------------------------------------------------
(* Type correctness *)

\* Empty tables and idle handlers are well typed.
LEMMA TypeInit == Init => TypeOK
BY Defaults DEF Init, TypeOK, Labels

\* Taking a request (the controllers' routes) keeps the types.
LEMMA TypeReceive ==
  ASSUME TypeOK, NEW r \in Requests, Receive(r)
  PROVE  TypeOK'
<1>1. PICK k \in {"push", "pull", "reset"}, a \in Identities, s \in Stores,
           n \in 0..MaxHead, b \in Batches :
        /\ k # "push" => b = <<>>
        /\ k = "reset" => n = 0
        /\ call' = [call EXCEPT ![r] =
                      [kind |-> k, actor |-> a, store |-> s, at |-> n, batch |-> b]]
        /\ IF k = "reset" /\ Production
           THEN /\ Goto(r, "done")
                /\ reply' = [reply EXCEPT ![r] = [NoReply EXCEPT !.is = "denied"]]
           ELSE Goto(r, "owner") /\ reply' = [reply EXCEPT ![r] = NoReply]
  BY Zenon DEF Receive, Forbidden
<1>2. [kind |-> k, actor |-> a, store |-> s, at |-> n, batch |-> b] \in Call
  BY ServerConstants DEF Call
<1>3. call' \in [Requests -> Call]
  BY <1>1, <1>2 DEF TypeOK
<1>4. [NoReply EXCEPT !.is = "denied"] \in Reply
  BY Defaults DEF Reply, Outcomes
<1>5. pc' \in [Requests -> Labels] /\ reply' \in [Requests -> Reply]
  BY <1>1, <1>4, Defaults DEF TypeOK, Goto, Labels
<1> QED
  BY <1>3, <1>5 DEF Receive, Forbidden, TypeOK

\* ensureStoreOwner keeps the types.
LEMMA TypeEnsureStoreOwner ==
  ASSUME TypeOK, NEW r \in Requests, EnsureStoreOwner(r)
  PROVE  TypeOK'
<1> DEFINE s == StoreOf(r)
           o == IF owner[s] = NoOwner THEN call[r].actor ELSE owner[s]
<1>1. s \in Stores /\ call[r].actor \in Identities
  BY Queries DEF TypeOK, Call
<1>2. owner' \in [Stores -> Identities \cup {NoOwner}]
  BY <1>1 DEF EnsureStoreOwner, Owned, TypeOK
<1>3. [NoReply EXCEPT !.is = "denied"] \in Reply
  BY Defaults DEF Reply, Outcomes
<1>4. CASE o # call[r].actor
  <2>1. Answer(r, [NoReply EXCEPT !.is = "denied"])
    BY <1>4 DEF EnsureStoreOwner, Owned
  <2> QED
    BY <1>2, <1>3, <2>1, AnswerType DEF EnsureStoreOwner, Owned, TypeOK
<1>5. CASE o = call[r].actor
  <2>1. /\ Goto(r, CASE call[r].kind = "push"  -> "verify"
                     [] call[r].kind = "pull"  -> "load"
                     [] call[r].kind = "reset" -> "delete")
        /\ tx' = [tx EXCEPT ![r] = [NoTx EXCEPT !.todo = call[r].batch]]
        /\ inForce' = [inForce EXCEPT ![r] =
                         IF call[r].kind = "push" THEN {InForce} ELSE {}]
        /\ UNCHANGED <<call, reply>>
    BY <1>5 DEF EnsureStoreOwner, Owned
  <2>2. call[r].kind \in {"push", "pull", "reset"} /\ call[r].batch \in Seq(Event)
    BY DEF TypeOK, Call
  <2>3. pc' \in [Requests -> Labels]
    BY <2>1, <2>2 DEF Goto, TypeOK, Labels
  <2>4. [NoTx EXCEPT !.todo = call[r].batch] \in Tx
    BY <2>2, Defaults DEF Tx
  <2>5. tx' \in [Requests -> Tx]
    BY <2>1, <2>4 DEF TypeOK
  <2>6. InForce \in [scope : Nat, grant : Nat]
    BY DEF InForce, TypeOK
  <2>7. inForce' \in [Requests -> SUBSET [scope : Nat, grant : Nat]]
    BY <2>1, <2>6 DEF TypeOK
  <2> QED
    BY <1>2, <2>1, <2>3, <2>5, <2>7 DEF EnsureStoreOwner, Owned, TypeOK
<1> QED
  BY <1>4, <1>5

\* pushEvents up to appendBatch keeps the types.
LEMMA TypeVerify ==
  ASSUME TypeOK, NEW r \in Requests, VerifyEvent(r) \/ VerifyGrant(r) \/ VerifyBatch(r)
  PROVE  TypeOK'
<1> DEFINE ans(is) == [NoReply EXCEPT !.is = is, !.head = HeadSeenBy(r)]
<1>1. \A is \in Outcomes : ans(is) \in Reply
  BY Defaults, Queries DEF Reply
<1>2. ASSUME NEW is \in Outcomes, Answer(r, ans(is)),
             UNCHANGED <<owner, head, events, lock, scopeHead, grantHead, activeGrant>>
      PROVE  TypeOK'
  <2>1. ans(is) \in Reply
    BY <1>1
  <2> HIDE DEF ans
  <2> QED
    BY <1>2, <2>1, AnswerType DEF TypeOK
<1>3. ASSUME tx[r].todo # <<>>, tx' = [tx EXCEPT ![r].todo = Tail(@)]
      PROVE  tx' \in [Requests -> Tx]
  <2>1. Tail(tx[r].todo) \in Seq(Event)
    BY <1>3 DEF TypeOK, Tx
  <2> QED
    BY <1>3, <2>1 DEF TypeOK, Tx
<1>4. CASE VerifyEvent(r)
  <2> DEFINE verdict == DependencyVerdict(Head(tx[r].todo).base)
  <2>1. verdict \in Outcomes
    BY VerdictType
  <2>2. CASE verdict # "ok"
    BY <1>2, <1>4, <2>1, <2>2 DEF VerifyEvent
  <2>3. CASE verdict = "ok"
    BY <1>3, <1>4, <2>3 DEF VerifyEvent, Goto, TypeOK, Labels
  <2> QED
    BY <2>2, <2>3
<1>5. CASE VerifyGrant(r)
  <2>1. CASE Head(tx[r].todo).base.grant # activeGrant
    BY <1>2, <1>5, <2>1 DEF VerifyGrant, Outcomes
  <2>2. CASE Head(tx[r].todo).base.grant = activeGrant
    BY <1>3, <1>5, <2>2 DEF VerifyGrant, Goto, TypeOK, Labels
  <2> QED
    BY <2>1, <2>2
<1>6. CASE VerifyBatch(r)
  <2>1. CASE call[r].batch = <<>>
    BY <1>2, <1>6, <2>1 DEF VerifyBatch, Outcomes
  <2>2. CASE call[r].batch # <<>>
    BY <1>6, <2>2 DEF VerifyBatch, Goto, TypeOK, Labels
  <2> QED
    BY <2>1, <2>2
<1> QED
  BY <1>4, <1>5, <1>6

\* Locking the store row and comparing heads keeps the types.
LEMMA TypeBeginAppend ==
  ASSUME TypeOK, NEW r \in Requests, BeginAppend(r)
  PROVE  TypeOK'
<1> DEFINE s == StoreOf(r)
<1>1. s \in Stores /\ head[s] \in Nat /\ call[r].batch \in Seq(Event) /\ call[r].at \in Nat
  BY Queries DEF TypeOK, Call
<1>2. CASE head[s] = call[r].at
  <2>1. [NoTx EXCEPT !.head = head[s], !.todo = call[r].batch] \in Tx
    BY <1>1, Defaults DEF Tx
  <2>2. /\ lock' = [lock EXCEPT ![s] = {r}]
        /\ tx' = [tx EXCEPT ![r] = [NoTx EXCEPT !.head = head[s], !.todo = call[r].batch]]
        /\ pc' = [pc EXCEPT ![r] = "insert"]
        /\ UNCHANGED <<owner, head, events, scopeHead, grantHead, activeGrant, call, reply, inForce>>
    BY <1>2 DEF BeginAppend, CanLock, Goto
  <2>3. lock' \in [Stores -> SUBSET Requests] /\ tx' \in [Requests -> Tx]
    BY <1>1, <2>1, <2>2 DEF TypeOK
  <2>4. pc' \in [Requests -> Labels]
    BY <2>2 DEF TypeOK, Labels
  <2> QED
    BY <2>2, <2>3, <2>4 DEF TypeOK
<1>3. CASE head[s] < call[r].at
  <2>1. [NoReply EXCEPT !.is = "server_behind", !.head = head[s]] \in Reply
    BY <1>1, Defaults DEF Reply, Outcomes
  <2>2. Answer(r, [NoReply EXCEPT !.is = "server_behind", !.head = head[s]]) /\ UNCHANGED lock
    BY <1>1, <1>3 DEF BeginAppend, CanLock
  <2> QED
    BY <2>1, <2>2, AnswerType DEF BeginAppend, CanLock, TypeOK
<1>4. CASE head[s] # call[r].at /\ ~(head[s] < call[r].at)
  <2>1. [NoTx EXCEPT !.head = head[s]] \in Tx
    BY <1>1, Defaults DEF Tx
  <2> QED
    BY <1>4, <2>1 DEF BeginAppend, CanLock, Goto, TypeOK, Labels
<1> QED
  BY <1>2, <1>3, <1>4

\* Inserting the next event of a batch keeps the types, in each of its three
\* outcomes.
LEMMA TypeInsertEvent ==
  ASSUME TypeOK, NEW r \in Requests, InsertEvent(r)
  PROVE  TypeOK'
<1> DEFINE s == StoreOf(r)
           e == Head(tx[r].todo)
           rows == RowsSeenBy(r) \cup tx[r].rows
           known == {x \in rows : x.id = e.id}
           next == tx[r].head + 1
           row == [seq |-> next, id |-> e.id, rec |-> e.rec, base |-> e.base,
                   owner |-> call[r].actor]
<1>1. /\ s \in Stores /\ call[r].actor \in Identities
      /\ tx[r] \in Tx /\ tx[r].todo \in Seq(Event) /\ tx[r].todo # <<>>
      /\ tx[r].head \in Nat /\ tx[r].rows \subseteq Row /\ tx[r].assigned \subseteq Assignment
      /\ rows \subseteq Row
  BY Queries DEF InsertEvent, Known, TypeOK, Call, Tx
<1>2. e \in Event /\ Tail(tx[r].todo) \in Seq(Event)
  BY <1>1
<1>3. row \in Row /\ [id |-> e.id, seq |-> next] \in Assignment
  BY <1>1, <1>2 DEF Row, Event, Assignment
<1>4. ASSUME NEW x \in known,
             tx' = [tx EXCEPT ![r].todo = Tail(@),
                              ![r].assigned = @ \cup {[id |-> x.id, seq |-> x.seq]}],
             UNCHANGED <<lock, pc, call, reply, inForce>>
      PROVE  TypeOK'
  <2>1. [id |-> x.id, seq |-> x.seq] \in Assignment
    BY <1>1 DEF Row, Assignment
  <2>2. tx' \in [Requests -> Tx]
    BY <1>1, <1>2, <1>4, <2>1 DEF TypeOK, Tx
  <2> QED
    BY <1>4, <2>2 DEF InsertEvent, Known, TypeOK
<1>5. ASSUME tx' = [tx EXCEPT ![r] =
               [head |-> next, rows |-> tx[r].rows \cup {row}, todo |-> Tail(tx[r].todo),
                assigned |-> tx[r].assigned \cup {[id |-> e.id, seq |-> next]}]],
             UNCHANGED <<lock, pc, call, reply, inForce>>
      PROVE  TypeOK'
  <2>1. tx' \in [Requests -> Tx]
    BY <1>1, <1>2, <1>3, <1>5 DEF TypeOK, Tx
  <2> QED
    BY <1>5, <2>1 DEF InsertEvent, Known, TypeOK
<1>6. ASSUME lock' = [lock EXCEPT ![s] = {}], Answer(r, NoReply)
      PROVE  TypeOK'
  BY <1>1, <1>6, Defaults, AnswerType DEF InsertEvent, Known, TypeOK
<1> QED
  BY <1>4, <1>5, <1>6 DEF InsertEvent, Known

\* Committing an append keeps the types.
LEMMA TypeCommitAppend ==
  ASSUME TypeOK, NEW r \in Requests, CommitAppend(r)
  PROVE  TypeOK'
<1> DEFINE s == StoreOf(r)
           a == [NoReply EXCEPT !.is = "ok", !.head = tx[r].head, !.assigned = tx[r].assigned]
<1>1. /\ s \in Stores /\ tx[r].head \in Nat /\ tx[r].rows \subseteq Row
      /\ tx[r].assigned \subseteq Assignment
  BY Queries DEF TypeOK, Tx
<1>2. a \in Reply
  BY <1>1, Defaults DEF Reply, Outcomes
<1>3. events' \in [Stores -> SUBSET Row] /\ head' \in [Stores -> Nat]
  BY <1>1 DEF CommitAppend, TypeOK
<1> QED
  BY <1>1, <1>2, <1>3, AnswerType DEF CommitAppend, TypeOK

\* The handlers' read-only steps keep the types.
LEMMA TypeReads ==
  ASSUME TypeOK, NEW r \in Requests,
         LoadMissing(r) \/ LoadEvents(r) \/ LoadHead(r) \/ PollAgain(r)
  PROVE  TypeOK'
<1>1. \A since, limit : LoadSince(r, since, limit) \in SUBSET Row
  BY Queries
<1>2. tx[r].head \in Nat /\ tx[r].rows \in SUBSET Row
  BY DEF TypeOK, Tx
<1>3. CASE LoadMissing(r)
  <2>1. [NoReply EXCEPT !.is = "server_ahead", !.head = tx[r].head,
                        !.rows = LoadSince(r, call[r].at, MissingLimit)] \in Reply
    BY <1>1, <1>2, Defaults DEF Reply, Outcomes
  <2> QED
    BY <1>3, <2>1, AnswerType DEF LoadMissing, TypeOK
<1>4. CASE LoadEvents(r)
  <2>1. [NoTx EXCEPT !.rows = LoadSince(r, call[r].at, PullLimit)] \in Tx
    BY <1>1, Defaults DEF Tx
  <2> QED
    BY <1>4, <2>1 DEF LoadEvents, Goto, TypeOK, Labels
<1>5. CASE LoadHead(r)
  <2> DEFINE more == /\ tx[r].rows # {}
                     /\ Cardinality(tx[r].rows) = PullLimit
                     /\ HeadSeenBy(r) > LastSeq(tx[r].rows, call[r].at)
             a == [NoReply EXCEPT !.is = "ok", !.head = HeadSeenBy(r),
                                  !.rows = tx[r].rows, !.hasMore = more]
  <2>1. more \in BOOLEAN
    OBVIOUS
  <2>2. HeadSeenBy(r) \in Nat
    BY Queries
  <2>3. a \in Reply
    <3> HIDE DEF more
    <3> QED BY <1>2, <2>1, <2>2, Defaults DEF Reply, Outcomes
  <2>4. Answer(r, a)
    BY <1>5 DEF LoadHead
  <2> QED
    BY <1>5, <2>3, <2>4, AnswerType DEF LoadHead, TypeOK
<1>6. CASE PollAgain(r)
  BY <1>6, Defaults DEF PollAgain, Goto, TypeOK, Labels
<1> QED
  BY <1>3, <1>4, <1>5, <1>6

\* The two statements of resetStore keep the types.
LEMMA TypeReset ==
  ASSUME TypeOK, NEW r \in Requests, DeleteEvents(r) \/ CommitReset(r)
  PROVE  TypeOK'
<1>1. StoreOf(r) \in Stores /\ RowsSeenBy(r) \in SUBSET Row
  BY Queries
<1>2. CASE DeleteEvents(r)
  <2>1. [NoTx EXCEPT !.rows = RowsSeenBy(r)] \in Tx
    BY <1>1, Defaults DEF Tx
  <2> QED
    BY <1>2, <2>1 DEF DeleteEvents, Goto, TypeOK, Labels
<1>3. CASE CommitReset(r)
  <2>1. [NoReply EXCEPT !.is = "ok"] \in Reply
    BY Defaults DEF Reply, Outcomes
  <2>2. events' \in [Stores -> SUBSET Row] /\ head' \in [Stores -> Nat]
    BY <1>1, <1>3 DEF CommitReset, CanLock, TypeOK
  <2> QED
    BY <1>3, <2>1, <2>2, AnswerType DEF CommitReset, CanLock, TypeOK
<1> QED
  BY <1>2, <1>3

\* TypeOK is inductive.
LEMMA TypeNext == TypeOK /\ [Next]_vars => TypeOK'
<1> SUFFICES ASSUME TypeOK, [Next]_vars PROVE TypeOK'
  OBVIOUS
<1>1. CASE UNCHANGED vars
  BY <1>1 DEF vars, TypeOK
<1>2. ASSUME NEW r \in Requests, Receive(r) PROVE TypeOK'
  BY <1>2, TypeReceive
<1>3. ASSUME NEW r \in Requests, Handle(r) PROVE TypeOK'
  BY <1>3, TypeEnsureStoreOwner, TypeVerify, TypeBeginAppend, TypeInsertEvent,
     TypeCommitAppend, TypeReads, TypeReset DEF Handle
<1>4. CASE Sharing
  <2>1. scopeHead' \in Nat /\ grantHead' \in Nat /\ activeGrant' \in Nat
    BY <1>4 DEF Sharing, AdvanceScope, IssueGrant, RevokeGrant, TypeOK
  <2>2. inForce' \in [Requests -> SUBSET [scope : Nat, grant : Nat]]
    BY <1>4, <2>1 DEF Sharing, AdvanceScope, IssueGrant, RevokeGrant, Witness, TypeOK
  <2> QED
    BY <1>4, <2>1, <2>2 DEF Sharing, AdvanceScope, IssueGrant, RevokeGrant, TypeOK
<1> QED
  BY <1>1, <1>2, <1>3, <1>4 DEF Next

\* The tables and the handlers' variables keep their types.
THEOREM TypeCorrect == Spec => []TypeOK
<1> QED
  BY TypeInit, TypeNext, PTL DEF Spec

-----------------------------------------------------------------------------
(* The committed log *)

\* LogDense and IdsStoredOnce are not inductive: a commit adds the private rows
\* of a transaction, of which they say nothing.  AppendsFit supplies that.
LogInv == TypeOK /\ AppendsFit /\ LogDense /\ IdsStoredOnce

\* The inductive invariant holds of the empty tables.
LEMMA LogInit == Init => LogInv
<1> SUFFICES ASSUME Init PROVE LogInv
  OBVIOUS
<1>1. AppendsFit
  BY DEF Init, AppendsFit, PastOwner
<1>2. LogDense /\ IdsStoredOnce
  BY DEF Init, LogDense, IdsStoredOnce
<1> QED
  BY <1>1, <1>2, TypeInit DEF LogInv

\* Handler r is not on its way to a reset.
NoResetBy(r) ==
  /\ pc[r] \notin {"delete", "resetHead"}
  /\ pc[r] \in {"owner", "load", "head"} => call[r].kind # "reset"

\* A step of handler r that commits nothing and is not part of an append: it is
\* enough that r still acts for the owner and does not reset in production.
LEMMA Frame ==
  ASSUME LogInv, TypeOK', NEW r \in Requests,
         UNCHANGED <<events, head, lock>>,
         \A q \in Requests \ {r} : pc'[q] = pc[q] /\ call'[q] = call[q] /\ tx'[q] = tx[q],
         pc'[r] # "insert",
         \A s \in Stores : owner[s] # NoOwner => owner'[s] = owner[s],
         pc'[r] \in PastOwner => owner'[call'[r].store] = call'[r].actor,
         Production => NoResetBy(r)'
  PROVE  LogInv'
<1>1. LogDense' /\ IdsStoredOnce'
  BY DEF LogInv, LogDense, IdsStoredOnce
<1>2. ASSUME NEW q \in Requests, pc'[q] = "insert"
      PROVE  lock'[StoreOf(q)'] = {q} /\ OpenAppend(q)'
  <2>1. q # r /\ pc[q] = "insert" /\ call'[q] = call[q] /\ tx'[q] = tx[q]
    BY <1>2
  <2>2. lock[StoreOf(q)] = {q} /\ OpenAppend(q)
    BY <2>1 DEF LogInv, AppendsFit
  <2> QED
    BY <2>1, <2>2 DEF StoreOf, OpenAppend
<1>3. ASSUME NEW s \in Stores, NEW x \in events'[s]
      PROVE  x.owner = owner'[s]
  <2>1. x \in Row /\ x.owner = owner[s]
    BY <1>3 DEF LogInv, TypeOK, AppendsFit
  <2> QED
    BY <2>1, ServerConstants DEF Row
<1>4. ASSUME NEW q \in Requests, pc'[q] \in PastOwner
      PROVE  owner'[StoreOf(q)'] = call'[q].actor
  <2>1. CASE q = r
    BY <1>4, <2>1 DEF StoreOf
  <2>2. CASE q # r
    <3>1. owner[StoreOf(q)] = call[q].actor /\ StoreOf(q) \in Stores
      BY <1>4, <2>2, Queries DEF LogInv, AppendsFit
    <3>2. call[q].actor \in Identities
      BY DEF LogInv, TypeOK, Call
    <3> QED
      BY <2>2, <3>1, <3>2, ServerConstants DEF StoreOf
  <2> QED
    BY <2>1, <2>2
<1>5. ASSUME Production, NEW q \in Requests
      PROVE  NoResetBy(q)'
  <2>1. CASE q = r
    BY <1>5, <2>1
  <2>2. CASE q # r
    BY <1>5, <2>2 DEF LogInv, AppendsFit, NoResetBy
  <2> QED
    BY <2>1, <2>2
<1>6. AppendsFit'
  BY <1>2, <1>3, <1>4, <1>5 DEF AppendsFit, NoResetBy
<1> QED
  BY <1>1, <1>6 DEF LogInv

\* What Answer changes.
LEMMA AnswerEffect ==
  ASSUME TypeOK, NEW r \in Requests, NEW a, Answer(r, a)
  PROVE  /\ pc'[r] = "done" /\ call' = call
         /\ \A q \in Requests \ {r} : pc'[q] = pc[q] /\ tx'[q] = tx[q]
BY DEF Answer, Goto, TypeOK

\* Taking a request preserves the invariant; production turns a reset away.
LEMMA LogReceive ==
  ASSUME LogInv, NEW r \in Requests, Receive(r)
  PROVE  LogInv'
<1>0. TypeOK /\ TypeOK'
  BY TypeReceive DEF LogInv
<1>1. PICK k \in {"push", "pull", "reset"}, a \in Identities, s \in Stores,
           n \in 0..MaxHead, b \in Batches :
        /\ k # "push" => b = <<>>
        /\ k = "reset" => n = 0
        /\ call' = [call EXCEPT ![r] =
                      [kind |-> k, actor |-> a, store |-> s, at |-> n, batch |-> b]]
        /\ IF k = "reset" /\ Production
           THEN /\ Goto(r, "done")
                /\ reply' = [reply EXCEPT ![r] = [NoReply EXCEPT !.is = "denied"]]
           ELSE Goto(r, "owner") /\ reply' = [reply EXCEPT ![r] = NoReply]
  BY Zenon DEF Receive, Forbidden
<1>2. call'[r].kind = k
  BY <1>0, <1>1 DEF TypeOK
<1>3. /\ pc'[r] \in {"done", "owner"}
      /\ Production => (pc'[r] = "owner" => k # "reset")
  BY <1>0, <1>1 DEF Goto, TypeOK
<1>4. \A q \in Requests \ {r} : pc'[q] = pc[q] /\ call'[q] = call[q] /\ tx'[q] = tx[q]
  BY <1>0, <1>1 DEF Receive, Forbidden, Goto, TypeOK
<1>5. UNCHANGED <<events, head, lock, owner>>
  BY DEF Receive, Forbidden
<1> QED
  BY <1>0, <1>2, <1>3, <1>4, <1>5, Frame DEF PastOwner, NoResetBy

\* ensureStoreOwner preserves the invariant: it claims a store without rows, or
\* leaves the owner as it is.
LEMMA LogEnsureStoreOwner ==
  ASSUME LogInv, NEW r \in Requests, EnsureStoreOwner(r)
  PROVE  LogInv'
<1> DEFINE s == StoreOf(r)
           o == IF owner[s] = NoOwner THEN call[r].actor ELSE owner[s]
<1>0. TypeOK /\ TypeOK' /\ s \in Stores
  BY TypeEnsureStoreOwner, Queries DEF LogInv
<1>1. UNCHANGED <<events, head, lock>> /\ owner' = [owner EXCEPT ![s] = o] /\ pc[r] = "owner"
  BY DEF EnsureStoreOwner, Owned
<1>2. \A t \in Stores : owner[t] # NoOwner => owner'[t] = owner[t]
  BY <1>0, <1>1 DEF TypeOK
<1>3. CASE o # call[r].actor
  <2>1. Answer(r, [NoReply EXCEPT !.is = "denied"])
    BY <1>3 DEF EnsureStoreOwner, Owned
  <2> QED
    BY <1>0, <1>1, <1>2, <2>1, AnswerEffect, Frame DEF PastOwner, NoResetBy
<1>4. CASE o = call[r].actor
  <2>1. /\ Goto(r, CASE call[r].kind = "push"  -> "verify"
                     [] call[r].kind = "pull"  -> "load"
                     [] call[r].kind = "reset" -> "delete")
        /\ tx' = [tx EXCEPT ![r] = [NoTx EXCEPT !.todo = call[r].batch]]
        /\ UNCHANGED <<call, reply>>
    BY <1>4 DEF EnsureStoreOwner, Owned
  <2>2. call[r].kind \in {"push", "pull", "reset"}
    BY <1>0 DEF TypeOK, Call
  <2>3. /\ pc'[r] \in {"verify", "load", "delete"}
        /\ pc'[r] = "delete" => call[r].kind = "reset"
        /\ \A q \in Requests \ {r} : pc'[q] = pc[q]
    BY <1>0, <2>1, <2>2 DEF Goto, TypeOK
  <2>4. Production => call[r].kind # "reset"
    BY <1>1 DEF LogInv, AppendsFit
  <2>5. owner'[call'[r].store] = call'[r].actor
    BY <1>0, <1>1, <1>4, <2>1 DEF TypeOK, StoreOf
  <2>6. pc'[r] # "insert" /\ (Production => NoResetBy(r)')
    BY <2>1, <2>3, <2>4 DEF NoResetBy
  <2>7. \A q \in Requests \ {r} : pc'[q] = pc[q] /\ call'[q] = call[q] /\ tx'[q] = tx[q]
    BY <1>0, <2>1, <2>3 DEF TypeOK
  <2> QED
    BY <1>0, <1>1, <1>2, <2>5, <2>6, <2>7, Frame
<1> QED
  BY <1>3, <1>4

\* The steps that neither lock, insert nor delete.
LEMMA LogReads ==
  ASSUME LogInv, NEW r \in Requests,
         VerifyEvent(r) \/ VerifyGrant(r) \/ VerifyBatch(r)
         \/ LoadMissing(r) \/ LoadEvents(r) \/ LoadHead(r) \/ PollAgain(r)
  PROVE  LogInv'
<1>0. TypeOK /\ TypeOK'
  BY TypeVerify, TypeReads DEF LogInv
<1>1. UNCHANGED <<events, head, lock, owner, call>>
  BY DEF VerifyEvent, VerifyGrant, VerifyBatch, LoadMissing, LoadEvents, LoadHead, PollAgain, Answer
<1>2. owner[call[r].store] = call[r].actor
  BY DEF VerifyEvent, VerifyGrant, VerifyBatch, LoadMissing, LoadEvents, LoadHead, PollAgain, LogInv, AppendsFit,
         PastOwner, StoreOf
<1>3. \A q \in Requests \ {r} : pc'[q] = pc[q] /\ tx'[q] = tx[q]
  BY <1>0 DEF VerifyEvent, VerifyGrant, VerifyBatch, LoadMissing, LoadEvents, LoadHead, PollAgain, Answer, Goto, TypeOK
<1>4. pc'[r] \in {"done", "begin", "grant", "verify"} \/ (pc'[r] \in {"owner", "head"} /\ pc[r] \in {"load", "head"})
  BY <1>0 DEF VerifyEvent, VerifyGrant, VerifyBatch, LoadMissing, LoadEvents, LoadHead, PollAgain, Answer, Goto, TypeOK
<1>5. Production => NoResetBy(r)'
  BY <1>1, <1>4 DEF LogInv, AppendsFit, NoResetBy
<1>6. pc'[r] # "insert"
  BY <1>4
<1> QED
  BY <1>0, <1>1, <1>2, <1>3, <1>5, <1>6, Frame

\* Taking the lock: the new transaction has no rows yet, and no other append is
\* open on the store.
LEMMA LogBeginAppend ==
  ASSUME LogInv, NEW r \in Requests, BeginAppend(r)
  PROVE  LogInv'
<1> DEFINE s == StoreOf(r)
<1>0. /\ TypeOK /\ TypeOK' /\ s \in Stores /\ head[s] \in Nat /\ call[r].at \in Nat
      /\ pc[r] = "begin" /\ lock[s] = {}
      /\ UNCHANGED <<owner, head, events, call>>
      /\ owner[s] = call[r].actor
  BY TypeBeginAppend, Queries DEF LogInv, BeginAppend, CanLock, Answer, TypeOK, Call, AppendsFit, PastOwner
<1>1. CASE head[s] = call[r].at
  <2>1. /\ lock' = [lock EXCEPT ![s] = {r}]
        /\ tx' = [tx EXCEPT ![r] = [NoTx EXCEPT !.head = head[s], !.todo = call[r].batch]]
        /\ pc' = [pc EXCEPT ![r] = "insert"]
    BY <1>1 DEF BeginAppend, CanLock, Goto
  <2>2. tx'[r].rows = {} /\ tx'[r].head = head[s]
    BY <1>0, <2>1 DEF TypeOK, NoTx
  <2>3. OpenAppend(r)'
    BY <1>0, <2>2 DEF OpenAppend, StoreOf, LogInv, IdsStoredOnce
  <2>4. ASSUME NEW q \in Requests, pc'[q] = "insert"
        PROVE  lock'[StoreOf(q)'] = {q} /\ OpenAppend(q)'
    <3>1. CASE q = r
      BY <1>0, <2>1, <2>3, <3>1 DEF TypeOK, StoreOf
    <3>2. CASE q # r
      <4>1. pc[q] = "insert" /\ tx'[q] = tx[q] /\ call'[q] = call[q]
        BY <1>0, <2>1, <2>4, <3>2 DEF TypeOK
      <4>2. lock[StoreOf(q)] = {q} /\ OpenAppend(q)
        BY <4>1 DEF LogInv, AppendsFit
      <4>3. StoreOf(q) # s /\ StoreOf(q) \in Stores
        BY <1>0, <4>2, Queries
      <4>4. lock'[StoreOf(q)'] = {q}
        BY <1>0, <2>1, <4>1, <4>2, <4>3 DEF TypeOK, StoreOf
      <4> QED
        BY <1>0, <4>1, <4>2, <4>4 DEF OpenAppend, StoreOf
    <3> QED
      BY <3>1, <3>2
  <2>5. \A q \in Requests : q # r => pc'[q] = pc[q]
    BY <1>0, <2>1 DEF TypeOK
  <2>6. pc'[r] = "insert"
    BY <1>0, <2>1 DEF TypeOK
  <2>7. AppendsFit'
    BY <1>0, <2>4, <2>5, <2>6 DEF LogInv, AppendsFit, StoreOf
  <2> QED
    BY <1>0, <2>7 DEF LogInv, LogDense, IdsStoredOnce
<1>2. CASE head[s] # call[r].at
  <2>1. UNCHANGED lock
    BY <1>2 DEF BeginAppend, CanLock
  <2>2. \A q \in Requests \ {r} : pc'[q] = pc[q] /\ tx'[q] = tx[q]
    BY <1>0, <1>2 DEF BeginAppend, CanLock, Answer, Goto, TypeOK
  <2>3. pc'[r] \in {"done", "missing"}
    BY <1>0, <1>2 DEF BeginAppend, CanLock, Answer, Goto, TypeOK
  <2>4. owner'[call'[r].store] = call'[r].actor
    BY <1>0 DEF StoreOf
  <2>5. pc'[r] # "insert" /\ (Production => NoResetBy(r)')
    BY <2>3 DEF NoResetBy
  <2> QED
    BY <1>0, <2>1, <2>2, <2>4, <2>5, Frame
<1> QED
  BY <1>1, <1>2

\* The owner sees every row of its store.
LEMMA OwnerSeesAll ==
  ASSUME LogInv, NEW r \in Requests, pc[r] \in PastOwner
  PROVE  RowsSeenBy(r) = events[StoreOf(r)]
<1>1. StoreOf(r) \in Stores /\ owner[StoreOf(r)] = call[r].actor
  BY Queries DEF LogInv, AppendsFit
<1> QED
  BY <1>1 DEF LogInv, AppendsFit, RowsSeenBy

\* A step inside r's append: the other handlers and the tables stay as they are.
LEMMA AppendFrame ==
  ASSUME LogInv, TypeOK', NEW r \in Requests, pc[r] = "insert",
         UNCHANGED <<owner, head, events, lock, pc, call>>,
         \A q \in Requests \ {r} : tx'[q] = tx[q],
         OpenAppend(r)'
  PROVE  LogInv'
<1>1. ASSUME NEW q \in Requests, pc'[q] = "insert"
      PROVE  lock'[StoreOf(q)'] = {q} /\ OpenAppend(q)'
  <2>1. pc[q] = "insert" /\ lock[StoreOf(q)] = {q} /\ OpenAppend(q)
    BY <1>1 DEF LogInv, AppendsFit
  <2>2. CASE q = r
    BY <2>1, <2>2 DEF StoreOf
  <2>3. CASE q # r
    BY <2>1, <2>3 DEF StoreOf, OpenAppend
  <2> QED
    BY <2>2, <2>3
<1>2. AppendsFit'
  BY <1>1 DEF LogInv, AppendsFit, StoreOf
<1> QED
  BY <1>2 DEF LogInv, LogDense, IdsStoredOnce

\* After r releases the lock of its store, no append is open on it.
LEMMA OthersElsewhere ==
  ASSUME LogInv, NEW r \in Requests, pc[r] = "insert",
         NEW q \in Requests, q # r, pc[q] = "insert"
  PROVE  StoreOf(q) # StoreOf(r) /\ StoreOf(q) \in Stores
BY Queries DEF LogInv, AppendsFit

\* Inserting an event preserves the invariant: a known id adds no row, a new one
\* takes the number after the transaction's head, a clash rolls back.
LEMMA LogInsertEvent ==
  ASSUME LogInv, NEW r \in Requests, InsertEvent(r)
  PROVE  LogInv'
<1> DEFINE s == StoreOf(r)
           e == Head(tx[r].todo)
           rows == RowsSeenBy(r) \cup tx[r].rows
           known == {x \in rows : x.id = e.id}
           next == tx[r].head + 1
           row == [seq |-> next, id |-> e.id, rec |-> e.rec, base |-> e.base,
                   owner |-> call[r].actor]
<1>0. /\ TypeOK /\ TypeOK' /\ pc[r] = "insert" /\ s \in Stores
      /\ tx[r].head \in Nat /\ head[s] \in Nat
      /\ UNCHANGED <<owner, head, events>>
      /\ OpenAppend(r)
      /\ RowsSeenBy(r) = events[s]
  BY TypeInsertEvent, Queries, OwnerSeesAll
     DEF LogInv, InsertEvent, Known, TypeOK, Tx, AppendsFit, PastOwner
<1>1. ASSUME NEW x \in known,
             tx' = [tx EXCEPT ![r].todo = Tail(@),
                              ![r].assigned = @ \cup {[id |-> x.id, seq |-> x.seq]}],
             UNCHANGED <<lock, pc, call, reply>>
      PROVE  LogInv'
  <2>1. /\ tx'[r].rows = tx[r].rows /\ tx'[r].head = tx[r].head
        /\ \A q \in Requests \ {r} : tx'[q] = tx[q]
    BY <1>0, <1>1 DEF TypeOK, Tx
  <2>2. UNCHANGED <<events, head, call>>
    BY <1>0, <1>1
  <2>3. OpenAppend(r)'
    BY <1>0, <2>1, <2>2 DEF OpenAppend, StoreOf
  <2> QED
    BY <1>0, <1>1, <2>1, <2>3, AppendFrame
<1>2. ASSUME known = {},
             tx' = [tx EXCEPT ![r] =
               [head |-> next, rows |-> tx[r].rows \cup {row}, todo |-> Tail(tx[r].todo),
                assigned |-> tx[r].assigned \cup {[id |-> e.id, seq |-> next]}]],
             UNCHANGED <<lock, pc, call, reply>>
      PROVE  LogInv'
  <2>1. /\ tx'[r].rows = tx[r].rows \cup {row} /\ tx'[r].head = next
        /\ \A q \in Requests \ {r} : tx'[q] = tx[q]
    BY <1>0, <1>2 DEF TypeOK
  <2>2. \A x \in events[s] \cup tx[r].rows : x.id # row.id
    BY <1>0, <1>2
  <2>3. tx[r].rows \subseteq Row
    BY <1>0 DEF TypeOK, Tx
  <2>4. \A x, y \in events[s] \cup tx'[r].rows : x.id = y.id => x = y
    <3> HIDE DEF row
    <3> QED BY <1>0, <2>1, <2>2 DEF OpenAppend
  <2>5. \A x \in tx'[r].rows : x.owner = call[r].actor
    BY <1>0, <2>1 DEF OpenAppend
  <2>6. ASSUME Production
        PROVE  /\ head[s] <= next
               /\ \A x \in tx'[r].rows : head[s] < x.seq /\ x.seq <= next
               /\ \A n \in (head[s] + 1)..next : \E x \in tx'[r].rows : x.seq = n
               /\ \A x, y \in tx'[r].rows : x.seq = y.seq => x = y
    <3>1. /\ head[s] <= tx[r].head
          /\ \A x \in tx[r].rows : head[s] < x.seq /\ x.seq <= tx[r].head /\ x.seq \in Nat
          /\ \A n \in (head[s] + 1)..tx[r].head : \E x \in tx[r].rows : x.seq = n
          /\ \A x, y \in tx[r].rows : x.seq = y.seq => x = y
      BY <1>0, <2>3, <2>6 DEF OpenAppend, Row
    <3>2. row.seq = next
      OBVIOUS
    <3> HIDE DEF row
    <3>3. \A x \in tx'[r].rows : head[s] < x.seq /\ x.seq <= next
      BY <1>0, <2>1, <3>1, <3>2
    <3>4. \A n \in (head[s] + 1)..next : \E x \in tx'[r].rows : x.seq = n
      <4> TAKE n \in (head[s] + 1)..next
      <4>1. n = next \/ n \in (head[s] + 1)..tx[r].head
        BY <1>0
      <4> QED
        BY <2>1, <3>1, <3>2, <4>1
    <3>5. \A x, y \in tx'[r].rows : x.seq = y.seq => x = y
      BY <1>0, <2>1, <3>1, <3>2
    <3> QED
      BY <1>0, <3>1, <3>3, <3>4, <3>5
  <2>7. OpenAppend(r)'
    BY <1>0, <1>2, <2>1, <2>4, <2>5, <2>6 DEF OpenAppend, StoreOf
  <2> QED
    BY <1>0, <1>2, <2>1, <2>7, AppendFrame
<1>3. ASSUME lock' = [lock EXCEPT ![s] = {}], Answer(r, NoReply)
      PROVE  LogInv'
  <2>1. /\ pc'[r] = "done" /\ call' = call
        /\ \A q \in Requests \ {r} : pc'[q] = pc[q] /\ tx'[q] = tx[q]
    BY <1>0, <1>3, AnswerEffect
  <2>2. ASSUME NEW q \in Requests, pc'[q] = "insert"
        PROVE  lock'[StoreOf(q)'] = {q} /\ OpenAppend(q)'
    <3>1. q # r /\ pc[q] = "insert" /\ tx'[q] = tx[q]
      BY <2>1, <2>2
    <3>2. StoreOf(q) # s /\ StoreOf(q) \in Stores
      BY <1>0, <3>1, OthersElsewhere
    <3>3. lock[StoreOf(q)] = {q} /\ OpenAppend(q)
      BY <3>1 DEF LogInv, AppendsFit
    <3> QED
      BY <1>0, <1>3, <2>1, <3>1, <3>2, <3>3 DEF TypeOK, StoreOf, OpenAppend
  <2>3. AppendsFit'
    BY <1>0, <2>1, <2>2 DEF LogInv, AppendsFit, StoreOf, PastOwner
  <2> QED
    BY <1>0, <2>3 DEF LogInv, LogDense, IdsStoredOnce
<1> QED
  BY <1>1, <1>2, <1>3 DEF InsertEvent, Known

\* The commit: the private rows become the end of the log.
LEMMA LogCommitAppend ==
  ASSUME LogInv, NEW r \in Requests, CommitAppend(r)
  PROVE  LogInv'
<1> DEFINE s == StoreOf(r)
           new == tx[r].rows
<1>0. /\ TypeOK /\ TypeOK' /\ pc[r] = "insert" /\ s \in Stores
      /\ tx[r].head \in Nat /\ head[s] \in Nat /\ new \subseteq Row
      /\ events' = [events EXCEPT ![s] = @ \cup new]
      /\ head' = [head EXCEPT ![s] = tx[r].head]
      /\ lock' = [lock EXCEPT ![s] = {}]
      /\ owner' = owner
      /\ OpenAppend(r)
      /\ owner[s] = call[r].actor
  BY TypeCommitAppend, Queries DEF LogInv, CommitAppend, TypeOK, Tx, AppendsFit, PastOwner
<1>1. /\ pc'[r] = "done" /\ call' = call
      /\ \A q \in Requests \ {r} : pc'[q] = pc[q] /\ tx'[q] = tx[q]
  BY <1>0, AnswerEffect DEF CommitAppend
<1>2. /\ events'[s] = events[s] \cup new /\ head'[s] = tx[r].head
      /\ \A t \in Stores \ {s} : events'[t] = events[t] /\ head'[t] = head[t] /\ lock'[t] = lock[t]
  BY <1>0 DEF TypeOK
<1>3. IdsStoredOnce'
  BY <1>0, <1>2 DEF OpenAppend, IdsStoredOnce, LogInv
<1>4. ASSUME Production, NEW t \in Stores
      PROVE  /\ \A x \in events'[t] : 1 <= x.seq /\ x.seq <= head'[t]
             /\ \A n \in 1..head'[t] : \E x \in events'[t] : x.seq = n
             /\ \A x, y \in events'[t] : x.seq = y.seq => x = y
  <2>1. /\ \A x \in events[t] : 1 <= x.seq /\ x.seq <= head[t]
        /\ \A n \in 1..head[t] : \E x \in events[t] : x.seq = n
        /\ \A x, y \in events[t] : x.seq = y.seq => x = y
    BY <1>4 DEF LogInv, LogDense
  <2>2. CASE t # s
    BY <1>2, <2>1, <2>2
  <2>3. CASE t = s
    <3>1. /\ head[s] <= tx[r].head
          /\ \A x \in new : head[s] < x.seq /\ x.seq <= tx[r].head
          /\ \A n \in (head[s] + 1)..tx[r].head : \E x \in new : x.seq = n
          /\ \A x, y \in new : x.seq = y.seq => x = y
      BY <1>0, <1>4 DEF OpenAppend
    <3>2. \A x \in events[s] \cup new : x.seq \in Nat
      BY <1>0 DEF TypeOK, Row
    <3>3. \A x \in events'[s] : 1 <= x.seq /\ x.seq <= head'[s]
      BY <1>0, <1>2, <2>1, <2>3, <3>1, <3>2
    <3>4. \A n \in 1..head'[s] : \E x \in events'[s] : x.seq = n
      <4> TAKE n \in 1..head'[s]
      <4>1. n \in 1..head[s] \/ n \in (head[s] + 1)..tx[r].head
        BY <1>0, <1>2
      <4> QED
        BY <1>2, <2>1, <2>3, <3>1, <4>1
    <3>5. \A x, y \in events'[s] : x.seq = y.seq => x = y
      BY <1>0, <1>2, <2>1, <2>3, <3>1, <3>2
    <3> QED
      BY <2>3, <3>3, <3>4, <3>5
  <2> QED
    BY <2>2, <2>3
<1>5. LogDense'
  BY <1>4 DEF LogDense
<1>6. ASSUME NEW q \in Requests, pc'[q] = "insert"
      PROVE  lock'[StoreOf(q)'] = {q} /\ OpenAppend(q)'
  <2>1. q # r /\ pc[q] = "insert" /\ tx'[q] = tx[q]
    BY <1>1, <1>6
  <2>2. StoreOf(q) # s /\ StoreOf(q) \in Stores
    BY <1>0, <2>1, OthersElsewhere
  <2>3. lock[StoreOf(q)] = {q} /\ OpenAppend(q)
    BY <2>1 DEF LogInv, AppendsFit
  <2>4. /\ events'[StoreOf(q)] = events[StoreOf(q)] /\ head'[StoreOf(q)] = head[StoreOf(q)]
        /\ lock'[StoreOf(q)] = lock[StoreOf(q)]
    BY <1>2, <2>2
  <2> QED
    BY <1>1, <2>1, <2>3, <2>4 DEF StoreOf, OpenAppend
<1>7. ASSUME NEW t \in Stores, NEW x \in events'[t]
      PROVE  x.owner = owner'[t]
  BY <1>0, <1>2, <1>7 DEF LogInv, AppendsFit, OpenAppend
<1>8. AppendsFit'
  BY <1>0, <1>1, <1>6, <1>7 DEF LogInv, AppendsFit, StoreOf, PastOwner
<1> QED
  BY <1>0, <1>3, <1>5, <1>8 DEF LogInv

\* A reset removes rows of a store on which no append is open, and never happens
\* in production.
LEMMA LogReset ==
  ASSUME LogInv, NEW r \in Requests, DeleteEvents(r) \/ CommitReset(r)
  PROVE  LogInv'
<1> DEFINE s == StoreOf(r)
<1>0. /\ TypeOK /\ TypeOK' /\ s \in Stores /\ pc[r] \in {"delete", "resetHead"}
      /\ owner[s] = call[r].actor
  BY TypeReset, Queries DEF LogInv, DeleteEvents, CommitReset, CanLock, AppendsFit, PastOwner
<1>1. ~Production
  BY <1>0 DEF LogInv, AppendsFit
<1>2. CASE DeleteEvents(r)
  <2>1. /\ UNCHANGED <<owner, head, events, lock, call>> /\ pc'[r] = "resetHead"
        /\ \A q \in Requests \ {r} : pc'[q] = pc[q] /\ tx'[q] = tx[q]
    BY <1>0, <1>2 DEF DeleteEvents, Goto, TypeOK
  <2>2. owner'[call'[r].store] = call'[r].actor
    BY <1>0, <2>1 DEF StoreOf
  <2> QED
    BY <1>0, <1>1, <2>1, <2>2, Frame
<1>3. CASE CommitReset(r)
  <2>1. /\ events' = [events EXCEPT ![s] = @ \ tx[r].rows] /\ head' = [head EXCEPT ![s] = 0]
        /\ lock[s] = {} /\ UNCHANGED <<owner, lock>>
    BY <1>3 DEF CommitReset, CanLock
  <2>2. /\ pc'[r] = "done" /\ call' = call
        /\ \A q \in Requests \ {r} : pc'[q] = pc[q] /\ tx'[q] = tx[q]
    BY <1>0, <1>3, AnswerEffect DEF CommitReset, CanLock
  <2>3. /\ \A t \in Stores : events'[t] \subseteq events[t]
        /\ \A t \in Stores \ {s} : events'[t] = events[t] /\ head'[t] = head[t]
    BY <1>0, <2>1 DEF TypeOK
  <2>4. ASSUME NEW q \in Requests, pc'[q] = "insert"
        PROVE  lock'[StoreOf(q)'] = {q} /\ OpenAppend(q)'
    <3>1. q # r /\ pc[q] = "insert" /\ tx'[q] = tx[q]
      BY <2>2, <2>4
    <3>2. lock[StoreOf(q)] = {q} /\ OpenAppend(q) /\ StoreOf(q) \in Stores
      BY <3>1, Queries DEF LogInv, AppendsFit
    <3>3. StoreOf(q) # s
      BY <2>1, <3>2
    <3>4. events'[StoreOf(q)] = events[StoreOf(q)] /\ head'[StoreOf(q)] = head[StoreOf(q)]
      BY <2>3, <3>2, <3>3
    <3> QED
      BY <2>1, <2>2, <3>1, <3>2, <3>4 DEF StoreOf, OpenAppend
  <2>5. AppendsFit'
    BY <1>0, <1>1, <2>1, <2>2, <2>3, <2>4 DEF LogInv, AppendsFit, StoreOf, PastOwner
  <2>6. IdsStoredOnce' /\ LogDense'
    BY <1>1, <2>3 DEF LogInv, IdsStoredOnce, LogDense
  <2> QED
    BY <1>0, <2>5, <2>6 DEF LogInv
<1> QED
  BY <1>2, <1>3

\* LogInv is inductive.
LEMMA LogNext == LogInv /\ [Next]_vars => LogInv'
<1> SUFFICES ASSUME LogInv, [Next]_vars PROVE LogInv'
  OBVIOUS
<1>0. TypeOK'
  BY TypeNext DEF LogInv
<1>1. CASE UNCHANGED vars
  BY <1>0, <1>1 DEF vars, LogInv, AppendsFit, OpenAppend, LogDense, IdsStoredOnce, StoreOf
<1>2. ASSUME NEW r \in Requests, Receive(r) PROVE LogInv'
  BY <1>2, LogReceive
<1>3. ASSUME NEW r \in Requests, Handle(r) PROVE LogInv'
  BY <1>3, LogEnsureStoreOwner, LogReads, LogBeginAppend, LogInsertEvent, LogCommitAppend,
     LogReset DEF Handle
<1>4. CASE Sharing
  <2>1. UNCHANGED <<owner, head, events, lock, pc, call, tx, reply>>
    BY <1>4 DEF Sharing, AdvanceScope, IssueGrant, RevokeGrant
  <2> QED
    BY <1>0, <2>1 DEF LogInv, AppendsFit, OpenAppend, LogDense, IdsStoredOnce, StoreOf
<1> QED
  BY <1>1, <1>2, <1>3, <1>4 DEF Next

\* The tables, the open transactions and their locks satisfy LogInv in every
\* reachable state (appendBatch, resetStore, ensureStoreOwner).
THEOREM LogInvariant == Spec => []LogInv
<1> QED
  BY LogInit, LogNext, PTL DEF Spec

\* The committed rows of a production store are numbered 1..head, each number
\* once, whatever pushes, pulls and reads run concurrently (appendBatch).
THEOREM LogIsDense == Spec => []LogDense
<1>1. LogInv => LogDense
  BY DEF LogInv
<1> QED
  BY <1>1, LogInvariant, PTL

\* An event id is in a store at most once, with resets or without (INV-008).
THEOREM IdsAreStoredOnce == Spec => []IdsStoredOnce
<1>1. LogInv => IdsStoredOnce
  BY DEF LogInv
<1> QED
  BY <1>1, LogInvariant, PTL

\* An append that has not committed yet fits the committed log (appendBatch and
\* its row lock).
THEOREM AppendsAlwaysFit == Spec => []AppendsFit
<1>1. LogInv => AppendsFit
  BY DEF LogInv
<1> QED
  BY <1>1, LogInvariant, PTL

-----------------------------------------------------------------------------
(* Ownership *)

\* Part of OwnerOnly: an answer other than a refusal went to the owner.
AnswersToOwner ==
  \A r \in Requests : pc[r] = "done" /\ reply[r].is \notin {"denied", "error"}
    => owner[StoreOf(r)] = call[r].actor

\* A step of handler r that answers only the owner.
LEMMA OwnerFrame ==
  ASSUME LogInv, AnswersToOwner, NEW r \in Requests,
         \A s \in Stores : owner[s] # NoOwner => owner'[s] = owner[s],
         \A q \in Requests \ {r} :
           pc'[q] = pc[q] /\ call'[q] = call[q] /\ reply'[q] = reply[q],
         pc'[r] = "done" /\ reply'[r].is \notin {"denied", "error"}
           => owner'[call'[r].store] = call'[r].actor
  PROVE  AnswersToOwner'
<1> SUFFICES ASSUME NEW q \in Requests, pc'[q] = "done", reply'[q].is \notin {"denied", "error"}
             PROVE  owner'[StoreOf(q)'] = call'[q].actor
  BY DEF AnswersToOwner
<1>1. CASE q = r
  BY <1>1 DEF StoreOf
<1>2. CASE q # r
  <2>1. owner[StoreOf(q)] = call[q].actor /\ StoreOf(q) \in Stores
    BY <1>2, Queries DEF AnswersToOwner, LogInv
  <2>2. call[q].actor \in Identities
    BY DEF LogInv, TypeOK, Call
  <2> QED
    BY <1>2, <2>1, <2>2, ServerConstants DEF StoreOf
<1> QED
  BY <1>1, <1>2

\* Answers keep going to the owner only, given LogInv.
LEMMA OwnerNext == LogInv /\ AnswersToOwner /\ [Next]_vars => AnswersToOwner'
<1> SUFFICES ASSUME LogInv, AnswersToOwner, [Next]_vars PROVE AnswersToOwner'
  OBVIOUS
<1>0. TypeOK
  BY DEF LogInv
<1>1. CASE UNCHANGED vars
  BY <1>1 DEF vars, AnswersToOwner, StoreOf
<1>2. ASSUME NEW r \in Requests, Receive(r) PROVE AnswersToOwner'
  <2>1. UNCHANGED owner
    BY <1>2 DEF Receive, Forbidden
  <2>2. \A q \in Requests \ {r} : pc'[q] = pc[q] /\ call'[q] = call[q] /\ reply'[q] = reply[q]
    BY <1>0, <1>2 DEF Receive, Forbidden, Goto, TypeOK
  <2>3. reply'[r].is \in {"denied", "error"}
    BY <1>0, <1>2, Defaults DEF Receive, Forbidden, TypeOK, NoReply, Reply
  <2> QED
    BY <2>1, <2>2, <2>3, OwnerFrame
<1>3. ASSUME NEW r \in Requests, EnsureStoreOwner(r) PROVE AnswersToOwner'
  <2>1. StoreOf(r) \in Stores
    BY <1>0, Queries
  <2>2. \A s \in Stores : owner[s] # NoOwner => owner'[s] = owner[s]
    BY <1>0, <1>3, <2>1 DEF EnsureStoreOwner, Owned, TypeOK
  <2>3. \A q \in Requests \ {r} : pc'[q] = pc[q] /\ call'[q] = call[q] /\ reply'[q] = reply[q]
    BY <1>0, <1>3 DEF EnsureStoreOwner, Owned, Answer, Goto, TypeOK
  <2>4. pc'[r] # "done" \/ reply'[r].is = "denied"
    <3>1. CASE Answer(r, [NoReply EXCEPT !.is = "denied"])
      BY <1>0, <3>1 DEF Answer, TypeOK, NoReply
    <3>2. CASE Goto(r, CASE call[r].kind = "push"  -> "verify"
                         [] call[r].kind = "pull"  -> "load"
                         [] call[r].kind = "reset" -> "delete")
      <4>1. call[r].kind \in {"push", "pull", "reset"}
        BY <1>0 DEF TypeOK, Call
      <4> QED
        BY <1>0, <3>2, <4>1 DEF Goto, TypeOK
    <3> QED
      BY <1>3, <3>1, <3>2 DEF EnsureStoreOwner, Owned
  <2> QED
    BY <2>2, <2>3, <2>4, OwnerFrame
<1>4. ASSUME NEW r \in Requests, pc[r] \in PastOwner, UNCHANGED <<owner, call>>,
             \A q \in Requests \ {r} : pc'[q] = pc[q] /\ reply'[q] = reply[q]
      PROVE  AnswersToOwner'
  <2>1. owner[StoreOf(r)] = call[r].actor
    BY <1>4 DEF LogInv, AppendsFit
  <2> QED
    BY <1>4, <2>1, OwnerFrame DEF StoreOf
<1>5. ASSUME NEW r \in Requests,
             VerifyEvent(r) \/ VerifyGrant(r) \/ VerifyBatch(r)
             \/ BeginAppend(r) \/ InsertEvent(r) \/ CommitAppend(r)
             \/ LoadMissing(r) \/ LoadEvents(r) \/ LoadHead(r) \/ PollAgain(r)
             \/ DeleteEvents(r) \/ CommitReset(r)
      PROVE  AnswersToOwner'
  <2>1. pc[r] \in PastOwner
    BY <1>5 DEF VerifyEvent, VerifyGrant, VerifyBatch, BeginAppend, CanLock, InsertEvent, Known, CommitAppend, LoadMissing, LoadEvents,
                LoadHead, PollAgain, DeleteEvents, CommitReset, CanLock, PastOwner
  <2>2. UNCHANGED <<owner, call>>
    BY <1>5 DEF VerifyEvent, VerifyGrant, VerifyBatch, BeginAppend, CanLock, InsertEvent, Known, CommitAppend, LoadMissing, LoadEvents,
                LoadHead, PollAgain, DeleteEvents, CommitReset, CanLock, Answer
  <2>3. \A q \in Requests \ {r} : pc'[q] = pc[q] /\ reply'[q] = reply[q]
    BY <1>0, <1>5 DEF VerifyEvent, VerifyGrant, VerifyBatch, BeginAppend, CanLock, InsertEvent, Known, CommitAppend, LoadMissing,
                LoadEvents, LoadHead, PollAgain, DeleteEvents, CommitReset, CanLock, Answer, Goto, TypeOK
  <2> QED
    BY <1>4, <2>1, <2>2, <2>3
<1>6. CASE Sharing
  BY <1>6 DEF Sharing, AdvanceScope, IssueGrant, RevokeGrant, AnswersToOwner, StoreOf
<1> QED
  BY <1>1, <1>2, <1>3, <1>5, <1>6 DEF Next, Handle

\* Only the owner of a store adds rows to it or is answered with its rows
\* (ensureStoreOwner runs in a transaction before everything else).
THEOREM OwnersOnly == Spec => []OwnerOnly
<1>1. Init => AnswersToOwner
  BY DEF Init, AnswersToOwner
<1>2. LogInv /\ AnswersToOwner => OwnerOnly
  BY DEF LogInv, AppendsFit, AnswersToOwner, OwnerOnly
<1> QED
  BY <1>1, <1>2, LogInvariant, OwnerNext, PTL DEF Spec

-----------------------------------------------------------------------------
(* The tables implement the append-only log *)

Entry(x) == [id |-> x.id, rec |-> x.rec]

\* The log of a production store is a sequence of entries; row x is its entry at
\* x.seq.
LogIsSequence == Production => \A s \in Stores :
  /\ LogOf(s) \in Seq(Log!Entry)
  /\ Len(LogOf(s)) = head[s] /\ DOMAIN LogOf(s) = 1..head[s]
  /\ \A x \in events[s] : x.seq \in 1..head[s] /\ LogOf(s)[x.seq] = Entry(x)
  /\ \A n \in 1..head[s] : \E x \in events[s] : x.seq = n /\ LogOf(s)[n] = Entry(x)

\* LogInv makes the table a sequence of entries.
LEMMA LogShape == LogInv => LogIsSequence
<1> SUFFICES ASSUME LogInv, Production, NEW s \in Stores
             PROVE  /\ LogOf(s) \in Seq(Log!Entry)
                    /\ Len(LogOf(s)) = head[s] /\ DOMAIN LogOf(s) = 1..head[s]
                    /\ \A x \in events[s] : x.seq \in 1..head[s] /\ LogOf(s)[x.seq] = Entry(x)
                    /\ \A n \in 1..head[s] :
                         \E x \in events[s] : x.seq = n /\ LogOf(s)[n] = Entry(x)
  BY DEF LogIsSequence
<1>1. /\ head[s] \in Nat /\ events[s] \subseteq Row
      /\ \A x \in events[s] : 1 <= x.seq /\ x.seq <= head[s]
      /\ \A n \in 1..head[s] : \E x \in events[s] : x.seq = n
      /\ \A x, y \in events[s] : x.seq = y.seq => x = y
  BY DEF LogInv, LogDense, TypeOK
<1>2. \A x \in events[s] : x.seq \in 1..head[s] /\ Entry(x) \in Log!Entry
  BY <1>1 DEF Row, Entry, Log!Entry
<1>3. ASSUME NEW x \in events[s]
      PROVE  LogOf(s)[x.seq] = Entry(x)
  <2>1. (CHOOSE y \in events[s] : y.seq = x.seq) = x
    BY <1>1
  <2> QED
    BY <1>2, <2>1 DEF LogOf, Entry
<1>4. \A n \in 1..head[s] : \E x \in events[s] : x.seq = n /\ LogOf(s)[n] = Entry(x)
  BY <1>1, <1>3
<1>5. DOMAIN LogOf(s) = 1..head[s] /\ LogOf(s) = [n \in 1..head[s] |-> LogOf(s)[n]]
  BY DEF LogOf
<1>6. \A n \in 1..head[s] : LogOf(s)[n] \in Log!Entry
  BY <1>2, <1>4
<1>7. LogOf(s) \in [1..head[s] -> Log!Entry]
  BY <1>5, <1>6
<1>8. LogOf(s) \in Seq(Log!Entry) /\ Len(LogOf(s)) = head[s]
  BY <1>1, <1>7
<1> QED
  BY <1>2, <1>3, <1>4, <1>5, <1>8

\* Every step but a commit leaves the log as it is, and production does not reset.
LEMMA OnlyCommitsMove ==
  ASSUME LogInv, Production, [Next]_vars
  PROVE  UNCHANGED <<head, events>> \/ \E r \in Requests : CommitAppend(r)
<1>1. ASSUME NEW r \in Requests PROVE ~CommitReset(r)
  BY DEF LogInv, AppendsFit, CommitReset, CanLock
<1> QED
  BY <1>1 DEF Next, Handle, vars, Receive, Forbidden, EnsureStoreOwner, Owned, VerifyEvent, VerifyGrant, VerifyBatch, BeginAppend, CanLock, InsertEvent, Known,
     LoadMissing, LoadEvents, LoadHead, PollAgain, DeleteEvents, Sharing, AdvanceScope,
     IssueGrant, RevokeGrant

\* Every step of the tables is a step of the abstract log, or leaves it.
LEMMA LogStep ==
  ASSUME LogInv, LogInv', Production, [Next]_vars
  PROVE  [Log!LogNext]_([s \in Stores |-> LogOf(s)])
<1> DEFINE L == [s \in Stores |-> LogOf(s)]
<1>1. CASE UNCHANGED <<head, events>>
  BY <1>1 DEF LogOf
<1>2. ASSUME NEW r \in Requests, CommitAppend(r)
      PROVE  Log!LogNext
  <2>0. PICK s \in Stores : s = StoreOf(r)
    BY Queries DEF LogInv
  <2>1. /\ events' = [events EXCEPT ![s] = @ \cup tx[r].rows]
        /\ head' = [head EXCEPT ![s] = tx[r].head]
        /\ pc[r] = "insert"
    BY <1>2, <2>0 DEF CommitAppend
  <2>2. /\ events[s] \subseteq events'[s] /\ head[s] <= head'[s]
        /\ \A t \in Stores \ {s} : events'[t] = events[t] /\ head'[t] = head[t]
    <3>1. head[s] <= tx[r].head
      BY <2>0, <2>1 DEF LogInv, AppendsFit, OpenAppend
    <3> QED
      BY <2>1, <3>1 DEF LogInv, TypeOK
  <2>3. /\ LogOf(s) \in Seq(Log!Entry) /\ Len(LogOf(s)) = head[s] /\ DOMAIN LogOf(s) = 1..head[s]
        /\ \A n \in 1..head[s] : \E x \in events[s] : x.seq = n /\ LogOf(s)[n] = Entry(x)
    BY <2>1, LogShape DEF LogIsSequence
  <2>4. LogIsSequence'
    BY LogShape, PTL
  <2>5. /\ LogOf(s)' \in Seq(Log!Entry) /\ Len(LogOf(s)') = head'[s]
        /\ DOMAIN LogOf(s)' = 1..head'[s]
        /\ \A x \in events'[s] : x.seq \in 1..head'[s] /\ LogOf(s)'[x.seq] = Entry(x)
        /\ \A n \in 1..head'[s] : \E x \in events'[s] : x.seq = n /\ LogOf(s)'[n] = Entry(x)
    BY <2>1, <2>4 DEF LogIsSequence
  <2>6. Log!Extends(LogOf(s)', LogOf(s))
    BY <2>2, <2>3, <2>5 DEF Log!Extends
  <2>7. Log!IdsOnce(LogOf(s)')
    <3>1. \A x, y \in events'[s] : x.id = y.id => x = y
      BY <2>1 DEF LogInv, IdsStoredOnce
    <3>2. ASSUME NEW i \in 1..head'[s], NEW j \in 1..head'[s],
                 LogOf(s)'[i].id = LogOf(s)'[j].id
          PROVE  i = j
      <4>1. PICK x \in events'[s] : x.seq = i /\ LogOf(s)'[i] = Entry(x)
        BY <2>5
      <4>2. PICK y \in events'[s] : y.seq = j /\ LogOf(s)'[j] = Entry(y)
        BY <2>5
      <4>3. Entry(x).id = x.id /\ Entry(y).id = y.id
        BY DEF Entry
      <4>4. x.id = y.id
        BY <3>2, <4>1, <4>2, <4>3
      <4> QED
        BY <3>1, <4>1, <4>2, <4>4
    <3> QED
      BY <2>5, <3>2 DEF Log!IdsOnce
  <2>8. L'[s] = LogOf(s)' /\ L[s] = LogOf(s)
    BY <2>1
  <2>9. L' = [L EXCEPT ![s] = L'[s]]
    <3>1. \A u \in Stores \ {s} : LogOf(u)' = LogOf(u)
      BY <2>2 DEF LogOf
    <3>2. \A u \in Stores : L'[u] = LogOf(u)' /\ L[u] = LogOf(u)
      OBVIOUS
    <3>3. L = [u \in Stores |-> L[u]] /\ L' = [u \in Stores |-> L'[u]]
      OBVIOUS
    <3> HIDE DEF L
    <3> QED BY <3>1, <3>2, <3>3
  <2>10. Log!Grow(s)
    BY <2>5, <2>6, <2>7, <2>8, <2>9 DEF Log!Grow
  <2> QED
    BY <2>1, <2>10 DEF Log!LogNext
<1> QED
  BY <1>1, <1>2, OnlyCommitsMove

\* In production the tables and transactions of appendBatch implement the
\* append-only log that clients rely on: no committed entry is renumbered,
\* rewritten or removed (INV-001, INV-009).
THEOREM ServerImplementsLog == ASSUME Production PROVE Spec => ImplementsLog
<1>1. Init => Log!LogInit
  BY DEF Init, Log!LogInit, LogOf
<1>2. LogInv /\ LogInv' /\ [Next]_vars => [Log!LogNext]_([s \in Stores |-> LogOf(s)])
  BY LogStep
<1> QED
  BY <1>1, <1>2, LogInvariant, PTL DEF Spec, ImplementsLog, Log!LogSpec

-----------------------------------------------------------------------------
(* What is stored was authorised when it was checked *)

\* What handler r has found out about its batch: the events it has passed are authorised by
\* what was in force since it began, which includes what is in force now.
Passes(r) ==
  /\ pc[r] \in {"verify", "grant", "begin", "insert"} => InForce \in inForce[r]
  /\ pc[r] \in {"verify", "grant"} => \A i \in DOMAIN call[r].batch :
       \/ Authorised(call[r].batch[i].base, inForce[r])
       \/ \E j \in DOMAIN tx[r].todo : tx[r].todo[j] = call[r].batch[i]
  /\ pc[r] = "grant" =>
       /\ tx[r].todo # <<>>
       /\ Head(tx[r].todo).base.grant <= grantHead
       /\ \E h \in inForce[r] : Head(tx[r].todo).base.ref = h.scope
  /\ pc[r] = "begin" =>
       \A i \in DOMAIN call[r].batch : Authorised(call[r].batch[i].base, inForce[r])
  /\ pc[r] = "insert" =>
       /\ \A i \in DOMAIN tx[r].todo : Authorised(tx[r].todo[i].base, inForce[r])
       /\ \A x \in tx[r].rows : Authorised(x.base, inForce[r])

\* AuthorisedWhenChecked is not inductive: between the check and the insert the batch is in
\* the handler.
PassInv == TypeOK /\ \A r \in Requests : Passes(r)

\* The events and rows of a handler carry references of the right type.
LEMMA BaseTypes ==
  ASSUME TypeOK, NEW r \in Requests
  PROVE  /\ \A x \in tx[r].rows : x.base \in Base
         /\ \A i \in DOMAIN tx[r].todo : tx[r].todo[i].base \in Base
         /\ \A i \in DOMAIN call[r].batch : call[r].batch[i].base \in Base
         /\ tx[r].todo # <<>> => Head(tx[r].todo).base \in Base
<1>1. \A x \in Row : x.base \in Base
  BY DEF Row
<1>2. ASSUME NEW es \in Seq(Event), NEW i \in DOMAIN es PROVE es[i].base \in Base
  <2>1. es[i] \in Event
    OBVIOUS
  <2> QED
    BY <2>1 DEF Event
<1>3. tx[r].rows \subseteq Row /\ tx[r].todo \in Seq(Event) /\ call[r].batch \in Seq(Event)
  BY DEF TypeOK, Tx, Call
<1>4. tx[r].todo # <<>> => Head(tx[r].todo) \in Event
  BY <1>3
<1> QED
  BY <1>1, <1>2, <1>3, <1>4 DEF Event

\* Grants are only ever added, and a handler that a step does not touch has lived through
\* what is in force after it.
LEMMA SharingGrows ==
  ASSUME PassInv, NEW q \in Requests, Sharing
  PROVE  /\ grantHead' \in Nat /\ grantHead <= grantHead'
         /\ inForce[q] \subseteq inForce'[q]
         /\ InForce \in inForce[q] => InForce' \in inForce'[q]
<1>0. grantHead \in Nat /\ inForce \in [Requests -> SUBSET [scope : Nat, grant : Nat]]
  BY DEF PassInv, TypeOK
<1>1. CASE RevokeGrant
  BY <1>0, <1>1 DEF RevokeGrant, InForce
<1>2. CASE AdvanceScope \/ IssueGrant
  <2>1. Witness /\ grantHead' \in Nat /\ grantHead <= grantHead'
    BY <1>0, <1>2 DEF AdvanceScope, IssueGrant
  <2>2. inForce'[q] = IF inForce[q] = {} THEN {}
                      ELSE inForce[q] \cup {[scope |-> scopeHead', grant |-> activeGrant']}
    BY <2>1 DEF Witness
  <2>3. InForce' = [scope |-> scopeHead', grant |-> activeGrant']
    BY DEF InForce
  <2>4. inForce[q] \subseteq inForce'[q]
    BY <2>2
  <2>5. InForce \in inForce[q] => InForce' \in inForce'[q]
    BY <2>2, <2>3
  <2> QED
    BY <2>1, <2>4, <2>5
<1> QED
  BY <1>1, <1>2 DEF Sharing

\* A handler that a step does not touch keeps what it has found out.
LEMMA PassesStays ==
  ASSUME PassInv, NEW q \in Requests,
         pc'[q] = pc[q], call'[q] = call[q], tx'[q] = tx[q],
         grantHead' \in Nat, grantHead <= grantHead',
         inForce[q] \subseteq inForce'[q],
         InForce \in inForce[q] => InForce' \in inForce'[q]
  PROVE  Passes(q)'
<1>0. TypeOK /\ Passes(q) /\ grantHead \in Nat
  BY DEF PassInv, TypeOK
<1>1. ASSUME NEW b \in Base, Authorised(b, inForce[q])
      PROVE  Authorised(b, inForce[q])'
  <2>1. b.grant \in Nat
    BY DEF Base
  <2>2. b.grant <= grantHead => b.grant <= grantHead'
    BY <1>0, <2>1
  <2> QED
    BY <1>1, <2>2 DEF Authorised, Cites
<1>2. /\ \A x \in tx[q].rows : x.base \in Base
      /\ \A i \in DOMAIN tx[q].todo : tx[q].todo[i].base \in Base
      /\ \A i \in DOMAIN call[q].batch : call[q].batch[i].base \in Base
      /\ tx[q].todo # <<>> => Head(tx[q].todo).base.grant \in Nat
  BY <1>0, BaseTypes DEF Base
<1>3. pc[q] = "grant" => Head(tx[q].todo).base.grant <= grantHead'
  <2>1. pc[q] = "grant" => tx[q].todo # <<>> /\ Head(tx[q].todo).base.grant <= grantHead
    BY <1>0 DEF Passes
  <2> QED
    BY <1>0, <1>2, <2>1
<1>4. (pc[q] \in {"verify", "grant", "begin", "insert"} => InForce \in inForce[q])'
  BY <1>0 DEF Passes
<1>5. (pc[q] \in {"verify", "grant"} => \A i \in DOMAIN call[q].batch :
         \/ Authorised(call[q].batch[i].base, inForce[q])
         \/ \E j \in DOMAIN tx[q].todo : tx[q].todo[j] = call[q].batch[i])'
  BY <1>0, <1>1, <1>2 DEF Passes
<1>6. (pc[q] = "begin" =>
         \A i \in DOMAIN call[q].batch : Authorised(call[q].batch[i].base, inForce[q]))'
  BY <1>0, <1>1, <1>2 DEF Passes
<1>7. (pc[q] = "insert" =>
         /\ \A i \in DOMAIN tx[q].todo : Authorised(tx[q].todo[i].base, inForce[q])
         /\ \A x \in tx[q].rows : Authorised(x.base, inForce[q]))'
  BY <1>0, <1>1, <1>2 DEF Passes
<1>8. pc[q] = "grant" =>
        /\ tx[q].todo # <<>> /\ \E h \in inForce'[q] : Head(tx[q].todo).base.ref = h.scope
  BY <1>0 DEF Passes
<1> QED
  BY <1>3, <1>4, <1>5, <1>6, <1>7, <1>8 DEF Passes

\* An event of a sequence is its head or in its tail.
LEMMA HeadOrTail ==
  ASSUME NEW es \in Seq(Event), es # <<>>, NEW j \in DOMAIN es
  PROVE  es[j] = Head(es) \/ \E k \in DOMAIN Tail(es) : Tail(es)[k] = es[j]
<1>1. CASE j = 1
  BY <1>1
<1>2. CASE j # 1
  <2>1. j - 1 \in DOMAIN Tail(es) /\ Tail(es)[j - 1] = es[j]
    BY <1>2
  <2> QED
    BY <2>1
<1> QED
  BY <1>1, <1>2

\* An event that has passed leaves the rest of the batch to check.
LEMMA PassOne ==
  ASSUME TypeOK, NEW r \in Requests, Passes(r), pc[r] \in {"verify", "grant"},
         tx[r].todo # <<>>, Authorised(Head(tx[r].todo).base, inForce[r]),
         tx' = [tx EXCEPT ![r].todo = Tail(@)], pc'[r] = "verify",
         UNCHANGED <<call, inForce, scopeHead, grantHead, activeGrant>>
  PROVE  Passes(r)'
<1>1. tx'[r].todo = Tail(tx[r].todo) /\ tx[r].todo \in Seq(Event)
  BY DEF TypeOK, Tx
<1>2. \A b, H : Authorised(b, H)' <=> Authorised(b, H)
  BY DEF Authorised
<1>3. ASSUME NEW i \in DOMAIN call[r].batch
      PROVE  \/ Authorised(call[r].batch[i].base, inForce[r])
             \/ \E k \in DOMAIN Tail(tx[r].todo) : Tail(tx[r].todo)[k] = call[r].batch[i]
  <2>1. CASE Authorised(call[r].batch[i].base, inForce[r])
    BY <2>1
  <2>2. ASSUME NEW j \in DOMAIN tx[r].todo, tx[r].todo[j] = call[r].batch[i]
        PROVE  \/ Authorised(call[r].batch[i].base, inForce[r])
               \/ \E k \in DOMAIN Tail(tx[r].todo) : Tail(tx[r].todo)[k] = call[r].batch[i]
    BY <1>1, <2>2, HeadOrTail
  <2> QED
    BY <1>3, <2>1, <2>2 DEF Passes
<1>4. InForce' = InForce /\ InForce \in inForce[r]
  BY DEF InForce, Passes
<1>5. \A i \in DOMAIN call[r].batch :
        Authorised(call[r].batch[i].base, inForce[r])' <=> Authorised(call[r].batch[i].base, inForce[r])
  BY DEF Authorised
<1> QED
  BY <1>1, <1>3, <1>4, <1>5 DEF Passes

\* validateSharingDependencies: what passes is authorised by what is in force at the query.
LEMMA PassVerify ==
  ASSUME PassInv, NEW r \in Requests, VerifyEvent(r) \/ VerifyGrant(r) \/ VerifyBatch(r)
  PROVE  Passes(r)'
<1>0. TypeOK /\ Passes(r) /\ scopeHead \in Nat /\ grantHead \in Nat
  BY DEF PassInv, TypeOK
<1> DEFINE b == Head(tx[r].todo).base
<1>1. ASSUME pc'[r] = "done" PROVE Passes(r)'
  BY <1>1 DEF Passes
<1>2. CASE VerifyEvent(r)
  <2>0. pc[r] = "verify" /\ tx[r].todo # <<>> /\ b \in Base
        /\ UNCHANGED <<scopeHead, grantHead, activeGrant>>
    BY <1>0, <1>2, BaseTypes DEF VerifyEvent
  <2>1. CASE DependencyVerdict(b) # "ok"
    BY <1>0, <1>1, <1>2, <2>1 DEF VerifyEvent, Answer, Goto, TypeOK
  <2>2. CASE DependencyVerdict(b) = "ok" /\ Cites(b) /\ b.res
    <3>1. b.ref = scopeHead /\ b.grant <= grantHead
      BY <1>0, <2>0, <2>2 DEF DependencyVerdict, Base
    <3>2. InForce \in inForce[r] /\ InForce.scope = scopeHead
      BY <1>0, <2>0 DEF Passes, InForce
    <3>3. pc'[r] = "grant" /\ UNCHANGED <<call, tx, inForce>>
      BY <1>0, <1>2, <2>2 DEF VerifyEvent, Goto, TypeOK
    <3>4. InForce' = InForce
      BY <2>0 DEF InForce
    <3>5. \A i \in DOMAIN call[r].batch :
            Authorised(call[r].batch[i].base, inForce[r])' <=> Authorised(call[r].batch[i].base, inForce[r])
      BY <2>0, <3>3 DEF Authorised
    <3>6. \E h \in inForce[r] : b.ref = h.scope
      BY <3>1, <3>2
    <3>7. \A i \in DOMAIN call[r].batch :
            \/ Authorised(call[r].batch[i].base, inForce[r])
            \/ \E j \in DOMAIN tx[r].todo : tx[r].todo[j] = call[r].batch[i]
      BY <1>0, <2>0 DEF Passes
    <3> QED
      BY <2>0, <3>1, <3>2, <3>3, <3>4, <3>5, <3>6, <3>7 DEF Passes
  <2>3. CASE DependencyVerdict(b) = "ok" /\ ~(Cites(b) /\ b.res)
    <3>1. Cites(b) => b.ref = scopeHead /\ b.grant <= grantHead
      BY <1>0, <2>0, <2>3 DEF DependencyVerdict, Base
    <3>2. InForce \in inForce[r] /\ InForce.scope = scopeHead
      BY <1>0, <2>0 DEF Passes, InForce
    <3>3. Authorised(b, inForce[r])
      BY <2>3, <3>1, <3>2 DEF Authorised
    <3>4. tx' = [tx EXCEPT ![r].todo = Tail(@)] /\ UNCHANGED <<pc, call, inForce>>
      BY <1>2, <2>3 DEF VerifyEvent
    <3> QED
      BY <1>0, <2>0, <3>3, <3>4, PassOne
  <2> QED
    BY <2>1, <2>2, <2>3
<1>3. CASE VerifyGrant(r)
  <2>0. /\ pc[r] = "grant" /\ UNCHANGED <<scopeHead, grantHead, activeGrant>>
        /\ tx[r].todo # <<>> /\ b.grant <= grantHead /\ InForce \in inForce[r]
        /\ \E h \in inForce[r] : b.ref = h.scope
    BY <1>0, <1>3 DEF VerifyGrant, Passes
  <2>1. CASE b.grant # activeGrant
    BY <1>0, <1>1, <1>3, <2>1 DEF VerifyGrant, Answer, Goto, TypeOK
  <2>2. CASE b.grant = activeGrant
    <3>1. InForce.grant = activeGrant
      BY DEF InForce
    <3>2. Authorised(b, inForce[r])
      BY <2>0, <2>2, <3>1 DEF Authorised
    <3>3. /\ tx' = [tx EXCEPT ![r].todo = Tail(@)] /\ UNCHANGED <<call, inForce>>
          /\ pc'[r] = "verify"
      BY <1>0, <1>3, <2>2 DEF VerifyGrant, Goto, TypeOK
    <3> QED
      BY <1>0, <2>0, <3>2, <3>3, PassOne
  <2> QED
    BY <2>1, <2>2
<1>4. CASE VerifyBatch(r)
  <2>0. pc[r] = "verify" /\ tx[r].todo = <<>> /\ UNCHANGED <<scopeHead, grantHead, activeGrant>>
    BY <1>4 DEF VerifyBatch
  <2>1. CASE call[r].batch = <<>>
    BY <1>0, <1>1, <1>4, <2>1 DEF VerifyBatch, Answer, Goto, TypeOK
  <2>2. CASE call[r].batch # <<>>
    <3>1. pc'[r] = "begin" /\ UNCHANGED <<call, inForce>>
      BY <1>0, <1>4, <2>2 DEF VerifyBatch, Goto, TypeOK
    <3>2. \A i \in DOMAIN call[r].batch : Authorised(call[r].batch[i].base, inForce[r])
      BY <1>0, <2>0 DEF Passes
    <3>3. \A i \in DOMAIN call[r].batch : Authorised(call[r].batch[i].base, inForce[r])'
      BY <2>0, <3>1, <3>2 DEF Authorised
    <3>4. InForce' = InForce /\ InForce \in inForce[r]
      BY <1>0, <2>0 DEF InForce, Passes
    <3> QED
      BY <3>1, <3>3, <3>4 DEF Passes
  <2> QED
    BY <2>1, <2>2
<1> QED
  BY <1>2, <1>3, <1>4

\* An append starts with the batch that passed and no rows.
LEMMA PassBegin ==
  ASSUME PassInv, NEW r \in Requests, BeginAppend(r)
  PROVE  Passes(r)'
<1>0. TypeOK /\ Passes(r) /\ pc[r] = "begin" /\ UNCHANGED <<scopeHead, grantHead, activeGrant>>
  BY DEF PassInv, BeginAppend
<1>1. CASE head[StoreOf(r)] = call[r].at
  <2> DEFINE t == [NoTx EXCEPT !.head = head[StoreOf(r)], !.todo = call[r].batch]
  <2>1. /\ tx' = [tx EXCEPT ![r] = t] /\ pc' = [pc EXCEPT ![r] = "insert"]
        /\ UNCHANGED <<call, inForce>>
    BY <1>1 DEF BeginAppend, Goto
  <2>2. t.todo = call[r].batch /\ t.rows = {}
    BY DEF NoTx
  <2> HIDE DEF t
  <2>3. pc'[r] = "insert" /\ tx'[r].todo = call[r].batch /\ tx'[r].rows = {}
    BY <1>0, <2>1, <2>2 DEF TypeOK
  <2>4. \A i \in DOMAIN call[r].batch : Authorised(call[r].batch[i].base, inForce[r])
    BY <1>0 DEF Passes
  <2>5. \A i \in DOMAIN tx'[r].todo : Authorised(tx[r].todo[i].base, inForce[r])'
    BY <1>0, <2>1, <2>3, <2>4 DEF Authorised
  <2>6. InForce' = InForce /\ InForce \in inForce[r]
    BY <1>0 DEF InForce, Passes
  <2> QED
    BY <2>1, <2>3, <2>5, <2>6 DEF Passes
<1>2. CASE head[StoreOf(r)] # call[r].at
  <2>1. pc'[r] \in {"done", "missing"}
    BY <1>0, <1>2 DEF BeginAppend, Answer, Goto, TypeOK
  <2> QED
    BY <2>1 DEF Passes
<1> QED
  BY <1>1, <1>2

\* A new row carries the references of an event that passed.
LEMMA PassInsert ==
  ASSUME PassInv, NEW r \in Requests, InsertEvent(r)
  PROVE  Passes(r)'
<1>0. /\ TypeOK /\ Passes(r) /\ pc[r] = "insert" /\ tx[r].todo # <<>>
      /\ UNCHANGED <<scopeHead, grantHead, activeGrant>>
  BY DEF PassInv, InsertEvent
<1> DEFINE row == [seq |-> tx[r].head + 1, id |-> Head(tx[r].todo).id,
                   rec |-> Head(tx[r].todo).rec, base |-> Head(tx[r].todo).base,
                   owner |-> call[r].actor]
<1>1. tx[r].todo \in Seq(Event) /\ tx[r] \in Tx
  BY <1>0 DEF TypeOK, Tx
<1>2. /\ \A i \in DOMAIN tx[r].todo : Authorised(tx[r].todo[i].base, inForce[r])
      /\ \A x \in tx[r].rows : Authorised(x.base, inForce[r])
      /\ InForce \in inForce[r]
  BY <1>0 DEF Passes
<1>3. /\ Head(tx[r].todo) = tx[r].todo[1] /\ 1 \in DOMAIN tx[r].todo
      /\ \A i \in DOMAIN Tail(tx[r].todo) :
           i + 1 \in DOMAIN tx[r].todo /\ Tail(tx[r].todo)[i] = tx[r].todo[i + 1]
  BY <1>0, <1>1
<1>4. /\ Authorised(row.base, inForce[r])
      /\ \A i \in DOMAIN Tail(tx[r].todo) : Authorised(Tail(tx[r].todo)[i].base, inForce[r])
  BY <1>2, <1>3
<1>5. ASSUME pc'[r] = "insert", tx'[r].todo = Tail(tx[r].todo), inForce' = inForce,
             tx'[r].rows = tx[r].rows \/ tx'[r].rows = tx[r].rows \cup {row}
      PROVE  Passes(r)'
  <2> HIDE DEF row
  <2>1. /\ \A i \in DOMAIN tx'[r].todo : Authorised(tx'[r].todo[i].base, inForce[r])
        /\ \A x \in tx'[r].rows : Authorised(x.base, inForce[r])
    BY <1>2, <1>4, <1>5
  <2>2. /\ \A i \in DOMAIN tx'[r].todo : Authorised(tx[r].todo[i].base, inForce[r])'
        /\ \A x \in tx'[r].rows : Authorised(x.base, inForce[r])'
    BY <1>0, <1>5, <2>1 DEF Authorised
  <2>3. InForce' = InForce
    BY <1>0 DEF InForce
  <2> QED
    BY <1>2, <1>5, <2>2, <2>3 DEF Passes
<1>6. ASSUME NEW a, tx' = [tx EXCEPT ![r].todo = Tail(@), ![r].assigned = a],
             UNCHANGED <<pc, inForce>>
      PROVE  Passes(r)'
  <2>1. pc'[r] = "insert" /\ tx'[r].todo = Tail(tx[r].todo) /\ tx'[r].rows = tx[r].rows
    BY <1>0, <1>1, <1>6 DEF TypeOK, Tx
  <2> QED
    BY <1>5, <1>6, <2>1
<1>7. ASSUME NEW n, NEW a, UNCHANGED <<pc, inForce>>,
             tx' = [tx EXCEPT ![r] = [head |-> n, rows |-> tx[r].rows \cup {row},
                                      todo |-> Tail(tx[r].todo), assigned |-> a]]
      PROVE  Passes(r)'
  <2>1. /\ pc'[r] = "insert" /\ tx'[r].todo = Tail(tx[r].todo)
        /\ tx'[r].rows = tx[r].rows \cup {row}
    BY <1>0, <1>7 DEF TypeOK
  <2> QED
    BY <1>5, <1>7, <2>1
<1>8. ASSUME Answer(r, NoReply) PROVE Passes(r)'
  <2>1. pc'[r] = "done"
    BY <1>0, <1>8, AnswerEffect
  <2> QED
    BY <2>1 DEF Passes
<1> QED
  BY <1>6, <1>7, <1>8 DEF InsertEvent

\* PassInv is inductive.
LEMMA PassNext == PassInv /\ [Next]_vars => PassInv'
<1> SUFFICES ASSUME PassInv, [Next]_vars PROVE PassInv'
  OBVIOUS
<1>0. TypeOK /\ TypeOK' /\ grantHead \in Nat
  BY TypeNext DEF PassInv, TypeOK
<1>a. ASSUME NEW r \in Requests, UNCHANGED <<scopeHead, grantHead, activeGrant>>,
             \A q \in Requests \ {r} : /\ pc'[q] = pc[q] /\ call'[q] = call[q]
                                       /\ tx'[q] = tx[q] /\ inForce'[q] = inForce[q],
             Passes(r)'
      PROVE  PassInv'
  <2>1. InForce' = InForce /\ grantHead' \in Nat /\ grantHead <= grantHead'
    BY <1>0, <1>a DEF InForce
  <2>2. \A q \in Requests \ {r} : Passes(q)'
    BY <1>a, <2>1, PassesStays
  <2> QED
    BY <1>0, <1>a, <2>2 DEF PassInv
<1>1. CASE UNCHANGED vars
  <2>1. InForce' = InForce /\ grantHead' \in Nat /\ grantHead <= grantHead'
    BY <1>0, <1>1 DEF InForce, vars
  <2>2. \A q \in Requests : Passes(q)'
    BY <1>1, <2>1, PassesStays DEF vars
  <2> QED
    BY <1>0, <2>2 DEF PassInv
<1>2. ASSUME NEW r \in Requests, Receive(r) PROVE PassInv'
  <2>1. \A q \in Requests \ {r} : /\ pc'[q] = pc[q] /\ call'[q] = call[q]
                                  /\ tx'[q] = tx[q] /\ inForce'[q] = inForce[q]
    BY <1>0, <1>2 DEF Receive, Goto, TypeOK
  <2>2. pc'[r] \in {"done", "owner"} /\ UNCHANGED <<scopeHead, grantHead, activeGrant>>
    BY <1>0, <1>2 DEF Receive, Goto, TypeOK
  <2> QED
    BY <1>a, <2>1, <2>2 DEF Passes
<1>3. ASSUME NEW r \in Requests, Handle(r) PROVE PassInv'
  <2>1. \A q \in Requests \ {r} : /\ pc'[q] = pc[q] /\ call'[q] = call[q]
                                  /\ tx'[q] = tx[q] /\ inForce'[q] = inForce[q]
    BY <1>0, <1>3 DEF Handle, EnsureStoreOwner, VerifyEvent, VerifyGrant, VerifyBatch,
       BeginAppend, InsertEvent, CommitAppend, LoadMissing, LoadEvents, LoadHead, PollAgain,
       DeleteEvents, CommitReset, Answer, Goto, TypeOK
  <2>2. UNCHANGED <<scopeHead, grantHead, activeGrant>>
    BY <1>3 DEF Handle, EnsureStoreOwner, VerifyEvent, VerifyGrant, VerifyBatch,
       BeginAppend, InsertEvent, CommitAppend, LoadMissing, LoadEvents, LoadHead, PollAgain,
       DeleteEvents, CommitReset
  <2>3. CASE EnsureStoreOwner(r)
    <3>1. call[r].kind \in {"push", "pull", "reset"}
      BY <1>0 DEF TypeOK, Call
    <3>2. CASE pc'[r] \in {"done", "load", "delete"}
      BY <1>a, <2>1, <2>2, <3>2 DEF Passes
    <3>3. CASE pc'[r] \notin {"done", "load", "delete"}
      <4>1. ~Answer(r, [NoReply EXCEPT !.is = "denied"])
        BY <1>0, <3>3, AnswerEffect
      <4>2. /\ Goto(r, CASE call[r].kind = "push"  -> "verify"
                         [] call[r].kind = "pull"  -> "load"
                         [] call[r].kind = "reset" -> "delete")
            /\ tx' = [tx EXCEPT ![r] = [NoTx EXCEPT !.todo = call[r].batch]]
            /\ inForce' = [inForce EXCEPT ![r] =
                             IF call[r].kind = "push" THEN {InForce} ELSE {}]
            /\ call' = call
        BY <2>3, <4>1 DEF EnsureStoreOwner
      <4>3. call[r].kind = "push" /\ pc'[r] = "verify"
        BY <1>0, <3>1, <3>3, <4>2 DEF Goto, TypeOK
      <4> DEFINE t == [NoTx EXCEPT !.todo = call[r].batch]
      <4>4. t.todo = call[r].batch
        BY DEF NoTx
      <4>5. tx'[r] = t
        BY <1>0, <4>2 DEF TypeOK
      <4> HIDE DEF t
      <4>6. inForce'[r] = {InForce} /\ InForce' = InForce
        BY <1>0, <2>2, <4>2, <4>3 DEF TypeOK, InForce
      <4>7. Passes(r)'
        BY <4>2, <4>3, <4>4, <4>5, <4>6 DEF Passes
      <4> QED
        BY <1>a, <2>1, <2>2, <4>7
    <3> QED
      BY <3>2, <3>3
  <2>4. CASE VerifyEvent(r) \/ VerifyGrant(r) \/ VerifyBatch(r)
    BY <1>a, <2>1, <2>2, <2>4, PassVerify
  <2>5. CASE BeginAppend(r)
    BY <1>a, <2>1, <2>2, <2>5, PassBegin
  <2>6. CASE InsertEvent(r)
    BY <1>a, <2>1, <2>2, <2>6, PassInsert
  <2>7. CASE \/ CommitAppend(r) \/ LoadMissing(r) \/ LoadEvents(r) \/ LoadHead(r)
             \/ PollAgain(r) \/ DeleteEvents(r) \/ CommitReset(r)
    <3>1. pc'[r] \in {"done", "head", "owner", "resetHead"}
      BY <1>0, <2>7 DEF CommitAppend, LoadMissing, LoadEvents, LoadHead, PollAgain,
         DeleteEvents, CommitReset, Answer, Goto, TypeOK
    <3>2. Passes(r)'
      BY <3>1 DEF Passes
    <3> QED
      BY <1>a, <2>1, <2>2, <3>2
  <2> QED
    BY <1>3, <2>3, <2>4, <2>5, <2>6, <2>7 DEF Handle
<1>4. CASE Sharing
  <2>1. UNCHANGED <<pc, call, tx>>
    BY <1>4 DEF Sharing, AdvanceScope, IssueGrant, RevokeGrant
  <2>2. \A q \in Requests : Passes(q)'
    BY <1>4, <2>1, SharingGrows, PassesStays
  <2> QED
    BY <1>0, <2>2 DEF PassInv
<1> QED
  BY <1>1, <1>2, <1>3, <1>4 DEF Next

\* INV-022, the part the code keeps, for any number of concurrent pushes and any growth of
\* the sharing tables: what an append is about to store cites a scope state that was the
\* head, and for a resource a grant that was active, at some time since the server took up
\* the push (validateSharingDependencies runs before, and outside, appendBatch's transaction).
THEOREM StoredWasAuthorised == Spec => []AuthorisedWhenChecked
<1>1. Init => PassInv
  BY TypeInit DEF Init, PassInv, Passes
<1>2. PassInv => AuthorisedWhenChecked
  BY DEF PassInv, Passes, AuthorisedWhenChecked
<1> QED
  BY <1>1, <1>2, PassNext, PTL DEF Spec

-----------------------------------------------------------------------------
(* Answers *)

\* rows are the log of r's store from r's position on, without a hole.
Page(r, rows) ==
  /\ \A x \in rows : x.seq > call[r].at /\ x \in events[StoreOf(r)]
  /\ \A x \in rows : \A n \in (call[r].at + 1)..x.seq : \E y \in rows : y.seq = n

\* The part of r's batch an append has gone through has its numbers.
Assigned(r) ==
  /\ \A i \in DOMAIN call[r].batch :
       \/ \E a \in tx[r].assigned : a.id = call[r].batch[i].id
       \/ \E j \in DOMAIN tx[r].todo : tx[r].todo[j].id = call[r].batch[i].id
  /\ \A a \in tx[r].assigned :
       /\ a.seq <= tx[r].head
       /\ \E x \in events[StoreOf(r)] \cup tx[r].rows : x.id = a.id /\ x.seq = a.seq

\* What handler r has read and will answer, or has answered, is true of the log.
Honest(r) ==
  /\ pc[r] \in {"verify", "grant", "begin", "insert", "missing"} => call[r].kind = "push"
  /\ pc[r] \in {"load", "head"} => call[r].kind = "pull"
  /\ pc[r] = "insert" => Assigned(r)
  /\ pc[r] = "missing" => call[r].at < head[StoreOf(r)]
  /\ pc[r] = "head" => Page(r, tx[r].rows)
  /\ pc[r] = "done" /\ call[r].kind = "push" /\ reply[r].is = "ok" =>
       /\ \A i \in DOMAIN call[r].batch : \E a \in reply[r].assigned :
             a.id = call[r].batch[i].id
       /\ \A a \in reply[r].assigned :
             a.seq <= reply[r].head /\ \E x \in events[StoreOf(r)] : x.id = a.id /\ x.seq = a.seq
  /\ pc[r] = "done" /\ reply[r].is \in {"ok", "server_ahead"} => Page(r, reply[r].rows)
  /\ pc[r] = "done" /\ reply[r].is = "server_ahead" => reply[r].rows # {}

\* The three parts of AnswersHold speak of answers only; what the handlers have
\* read so far makes them inductive, together with LogInv.
AnswersInv == Production => \A r \in Requests : Honest(r)

\* A production log only grows.
LEMMA LogGrows ==
  ASSUME LogInv, Production, [Next]_vars, NEW s \in Stores
  PROVE  events[s] \subseteq events'[s] /\ head[s] <= head'[s] /\ head[s] \in Nat /\ head'[s] \in Nat
<1>0. TypeOK /\ TypeOK'
  BY TypeNext DEF LogInv
<1>1. CASE UNCHANGED <<head, events>>
  BY <1>0, <1>1 DEF TypeOK
<1>2. ASSUME NEW r \in Requests, CommitAppend(r)
      PROVE  events[s] \subseteq events'[s] /\ head[s] <= head'[s]
  <2>1. pc[r] = "insert" /\ StoreOf(r) \in Stores
    BY <1>0, <1>2, Queries DEF CommitAppend
  <2>2. head[StoreOf(r)] <= tx[r].head
    BY <2>1 DEF LogInv, AppendsFit, OpenAppend
  <2> QED
    BY <1>0, <1>2, <2>1, <2>2 DEF CommitAppend, TypeOK
<1> QED
  BY <1>0, <1>1, <1>2, OnlyCommitsMove DEF TypeOK

\* A handler that a step does not touch stays honest.
LEMMA HonestStays ==
  ASSUME LogInv, Production, [Next]_vars, NEW q \in Requests, Honest(q),
         pc'[q] = pc[q], call'[q] = call[q], tx'[q] = tx[q], reply'[q] = reply[q]
  PROVE  Honest(q)'
<1>1. StoreOf(q) \in Stores /\ StoreOf(q)' = StoreOf(q)
  BY Queries DEF LogInv, StoreOf
<1>2. events[StoreOf(q)] \subseteq events'[StoreOf(q)] /\ head[StoreOf(q)] <= head'[StoreOf(q)]
      /\ head[StoreOf(q)] \in Nat /\ head'[StoreOf(q)] \in Nat
  BY <1>1, LogGrows
<1>3. call[q].at \in Nat
  BY DEF LogInv, TypeOK, Call
<1>4. pc[q] = "missing" => call[q].at < head'[StoreOf(q)]
  BY <1>2, <1>3 DEF Honest
<1>5. ASSUME NEW rows, Page(q, rows) PROVE Page(q, rows)'
  BY <1>1, <1>2, <1>5 DEF Page
<1>6. pc[q] = "insert" => Assigned(q)'
  BY <1>1, <1>2 DEF Honest, Assigned
<1>7. pc[q] = "head" => Page(q, tx[q].rows)'
  BY <1>5 DEF Honest
<1>8. pc[q] = "done" /\ reply[q].is \in {"ok", "server_ahead"} => Page(q, reply[q].rows)'
  BY <1>5 DEF Honest
<1>9. pc[q] = "done" /\ call[q].kind = "push" /\ reply[q].is = "ok" =>
       /\ \A i \in DOMAIN call[q].batch : \E a \in reply[q].assigned :
             a.id = call[q].batch[i].id
       /\ \A a \in reply[q].assigned :
             a.seq <= reply[q].head /\ \E x \in events'[StoreOf(q)] : x.id = a.id /\ x.seq = a.seq
  BY <1>2 DEF Honest
<1> QED
  BY <1>1, <1>4, <1>6, <1>7, <1>8, <1>9 DEF Honest

\* The rows of a store below a number are finitely many.
LEMMA FiniteBelow ==
  ASSUME LogInv, Production, NEW s \in Stores, NEW S \in SUBSET events[s]
  PROVE  IsFiniteSet(S)
<1>1. /\ head[s] \in Nat
      /\ \A x \in events[s] : x \in Row /\ 1 <= x.seq /\ x.seq <= head[s]
      /\ \A x, y \in events[s] : x.seq = y.seq => x = y
  BY DEF LogInv, LogDense, TypeOK
<1>2. \A x \in events[s] : x.seq \in 1..head[s]
  BY <1>1 DEF Row
<1> DEFINE f == [x \in S |-> x.seq]
<1>3. f \in Injection(S, 1..head[s])
  BY <1>1, <1>2 DEF Injection, IsInjective
<1>4. IsFiniteSet(1..head[s])
  BY <1>1, FS_Interval
<1> QED
  BY <1>3, <1>4, FS_Injection

\* loadSince answers a page of the log: the limit cuts it at its end, and a log
\* that goes on after the position has a first row there.
LEMMA LoadsAPage ==
  ASSUME LogInv, Production, NEW r \in Requests, pc[r] \in PastOwner, NEW limit \in Nat \ {0}
  PROVE  /\ Page(r, LoadSince(r, call[r].at, limit))
         /\ call[r].at < head[StoreOf(r)] => LoadSince(r, call[r].at, limit) # {}
<1> DEFINE s == StoreOf(r)
           at == call[r].at
           after == {x \in RowsSeenBy(r) : x.seq > at}
           Below(x) == {y \in after : y.seq < x.seq}
           page == {x \in after : Cardinality(Below(x)) < limit}
<1>1. s \in Stores /\ at \in Nat /\ head[s] \in Nat
  BY Queries DEF LogInv, TypeOK, Call
<1>2. RowsSeenBy(r) = events[s]
  BY OwnerSeesAll
<1>3. /\ \A x \in events[s] : x.seq \in Nat /\ 1 <= x.seq /\ x.seq <= head[s]
      /\ \A n \in 1..head[s] : \E x \in events[s] : x.seq = n
  BY <1>1 DEF LogInv, LogDense, TypeOK, Row
<1>4. \A x \in after : IsFiniteSet(Below(x)) /\ Cardinality(Below(x)) \in Nat
  BY <1>1, <1>2, FiniteBelow, FS_CardinalityType
<1>5. LoadSince(r, at, limit) = page
  BY DEF LoadSince
<1>6. ASSUME NEW x \in page, NEW n \in (at + 1)..x.seq
      PROVE  \E y \in page : y.seq = n
  <2>1. n \in 1..head[s]
    BY <1>1, <1>2, <1>3
  <2>2. PICK y \in events[s] : y.seq = n
    BY <1>3, <2>1
  <2>3. y \in after
    BY <1>1, <1>2, <2>2
  <2>4. Below(y) \subseteq Below(x)
    BY <1>2, <1>3, <2>2
  <2>5. Cardinality(Below(y)) <= Cardinality(Below(x))
    <3> HIDE DEF Below
    <3> QED BY <1>4, <2>4, FS_Subset
  <2>6. Cardinality(Below(y)) < limit
    <3> HIDE DEF Below, after
    <3> QED BY <1>4, <2>3, <2>5
  <2> QED
    BY <2>2, <2>3, <2>6
<1>7. ASSUME at < head[s]
      PROVE  page # {}
  <2>1. PICK y \in events[s] : y.seq = at + 1
    BY <1>1, <1>3, <1>7
  <2>2. y \in after
    BY <1>1, <1>2, <2>1
  <2>3. Below(y) = {}
    BY <1>1, <1>2, <1>3, <2>1
  <2>4. Cardinality(Below(y)) < limit
    <3> HIDE DEF Below
    <3> QED BY <2>3, FS_EmptySet
  <2> QED
    BY <2>2, <2>4
<1>8. \A x \in page : x.seq > at /\ x \in events[s]
  BY <1>2
<1> HIDE DEF page
<1> QED
  BY <1>5, <1>6, <1>7, <1>8 DEF Page

\* Taking a request: nothing has been read or answered, except a refusal.
LEMMA HonestReceive ==
  ASSUME LogInv, Production, NEW r \in Requests, Receive(r)
  PROVE  Honest(r)'
<1>1. pc'[r] \in {"done", "owner"} /\ reply'[r].is \in {"denied", "error"}
  BY DEF LogInv, TypeOK, Receive, Goto, NoReply
<1> QED
  BY <1>1 DEF Honest

\* ensureStoreOwner sends pushes and pulls their own way.
LEMMA HonestEnsureStoreOwner ==
  ASSUME LogInv, Production, NEW r \in Requests, EnsureStoreOwner(r)
  PROVE  Honest(r)'
<1>0. TypeOK /\ call' = call /\ pc[r] = "owner"
  BY DEF LogInv, EnsureStoreOwner, Answer
<1>1. call[r].kind \in {"push", "pull"}
  BY <1>0 DEF LogInv, TypeOK, Call, AppendsFit
<1>2. CASE Answer(r, [NoReply EXCEPT !.is = "denied"])
  <2>1. pc'[r] = "done" /\ reply'[r].is = "denied"
    BY <1>0, <1>2 DEF Answer, Goto, TypeOK, NoReply
  <2> QED
    BY <2>1 DEF Honest
<1>3. CASE Goto(r, CASE call[r].kind = "push"  -> "verify"
                     [] call[r].kind = "pull"  -> "load"
                     [] call[r].kind = "reset" -> "delete")
  <2>1. \/ call[r].kind = "push" /\ pc'[r] = "verify"
        \/ call[r].kind = "pull" /\ pc'[r] = "load"
    BY <1>0, <1>1, <1>3 DEF Goto, TypeOK
  <2> QED
    BY <1>0, <2>1 DEF Honest
<1> QED
  BY <1>2, <1>3 DEF EnsureStoreOwner

\* An empty batch is accepted as it is, a batch that may not be stored is refused.
LEMMA HonestVerify ==
  ASSUME LogInv, Production, NEW r \in Requests, Honest(r),
         VerifyEvent(r) \/ VerifyGrant(r) \/ VerifyBatch(r)
  PROVE  Honest(r)'
<1> DEFINE ans(is) == [NoReply EXCEPT !.is = is, !.head = HeadSeenBy(r)]
<1>0. TypeOK /\ call' = call /\ pc[r] \in {"verify", "grant"} /\ call[r].kind = "push"
  BY DEF LogInv, VerifyEvent, VerifyGrant, VerifyBatch, Answer, Honest
<1>1. ASSUME NEW is \in Outcomes \ {"server_ahead"}, Answer(r, ans(is)),
             is = "ok" => call[r].batch = <<>>
      PROVE  Honest(r)'
  <2>1. ans(is).is = is /\ ans(is).rows = {} /\ ans(is).assigned = {}
    BY DEF NoReply
  <2>2. pc'[r] = "done" /\ reply'[r] = ans(is)
    BY <1>0, <1>1 DEF Answer, Goto, TypeOK
  <2> HIDE DEF ans
  <2> QED
    BY <1>0, <1>1, <2>1, <2>2 DEF Honest, Page
<1>2. ASSUME pc'[r] \in {"verify", "grant", "begin"}
      PROVE  Honest(r)'
  BY <1>0, <1>2 DEF Honest
<1>3. CASE VerifyEvent(r)
  <2> DEFINE verdict == DependencyVerdict(Head(tx[r].todo).base)
  <2>1. CASE verdict # "ok"
    <3>1. Answer(r, ans(verdict)) /\ verdict \in Outcomes \ {"server_ahead"}
      BY <1>3, <2>1, VerdictType DEF VerifyEvent
    <3> HIDE DEF ans, verdict
    <3> QED
      BY <1>1, <2>1, <3>1
  <2>2. CASE verdict = "ok"
    BY <1>0, <1>2, <1>3, <2>2 DEF VerifyEvent, Goto, TypeOK
  <2> QED
    BY <2>1, <2>2
<1>4. CASE VerifyGrant(r)
  <2>1. CASE Head(tx[r].todo).base.grant # activeGrant
    BY <1>1, <1>4, <2>1 DEF VerifyGrant, Outcomes
  <2>2. CASE Head(tx[r].todo).base.grant = activeGrant
    BY <1>0, <1>2, <1>4, <2>2 DEF VerifyGrant, Goto, TypeOK
  <2> QED
    BY <2>1, <2>2
<1>5. CASE VerifyBatch(r)
  <2>1. CASE call[r].batch = <<>>
    BY <1>1, <1>5, <2>1 DEF VerifyBatch, Outcomes
  <2>2. CASE call[r].batch # <<>>
    BY <1>0, <1>2, <1>5, <2>2 DEF VerifyBatch, Goto, TypeOK
  <2> QED
    BY <2>1, <2>2
<1> QED
  BY <1>3, <1>4, <1>5

\* An append starts with the whole batch to do; a conflict with the server ahead
\* leaves the client's position below the head.
LEMMA HonestBeginAppend ==
  ASSUME LogInv, Production, NEW r \in Requests, Honest(r), BeginAppend(r)
  PROVE  Honest(r)'
<1> DEFINE s == StoreOf(r)
<1>0. /\ TypeOK /\ call' = call /\ UNCHANGED <<events, head>> /\ pc[r] = "begin"
      /\ call[r].kind = "push" /\ call[r].at \in Nat /\ head[s] \in Nat
  BY Queries DEF LogInv, BeginAppend, Answer, Honest, TypeOK, Call
<1>1. CASE head[s] = call[r].at
  <2> DEFINE t == [NoTx EXCEPT !.head = head[s], !.todo = call[r].batch]
  <2>1. t.todo = call[r].batch /\ t.rows = {} /\ t.assigned = {}
    BY DEF NoTx
  <2>2. tx'[r] = t /\ pc'[r] = "insert"
    BY <1>0, <1>1 DEF BeginAppend, Goto, TypeOK
  <2> HIDE DEF t
  <2>3. Assigned(r)'
    BY <1>0, <2>1, <2>2 DEF Assigned
  <2> QED
    BY <1>0, <2>2, <2>3 DEF Honest
<1>2. CASE head[s] < call[r].at
  <2>1. Answer(r, [NoReply EXCEPT !.is = "server_behind", !.head = head[s]])
    BY <1>0, <1>2 DEF BeginAppend
  <2>2. pc'[r] = "done" /\ reply'[r].is = "server_behind"
    BY <1>0, <2>1 DEF Answer, Goto, TypeOK, NoReply
  <2> QED
    BY <2>2 DEF Honest
<1>3. CASE head[s] # call[r].at /\ ~(head[s] < call[r].at)
  <2>1. pc'[r] = "missing" /\ call[r].at < head[s]
    BY <1>0, <1>3 DEF BeginAppend, Goto, TypeOK
  <2> QED
    BY <1>0, <2>1 DEF Honest, StoreOf
<1> QED
  BY <1>1, <1>2, <1>3

\* The next event of a batch is given the number of the row that has its id, in
\* the log or in the append, or the next one.
LEMMA HonestInsertEvent ==
  ASSUME LogInv, Production, NEW r \in Requests, Honest(r), InsertEvent(r)
  PROVE  Honest(r)'
<1> DEFINE s == StoreOf(r)
           e == Head(tx[r].todo)
           next == tx[r].head + 1
           row == [seq |-> next, id |-> e.id, rec |-> e.rec, base |-> e.base,
                   owner |-> call[r].actor]
<1>0. /\ TypeOK /\ UNCHANGED <<head, events>> /\ pc[r] = "insert" /\ s \in Stores
      /\ tx[r].todo \in Seq(Event) /\ tx[r].todo # <<>> /\ tx[r].head \in Nat
      /\ tx[r].rows \subseteq Row /\ tx[r].assigned \subseteq Assignment
      /\ call[r].kind = "push" /\ Assigned(r) /\ OpenAppend(r)
      /\ RowsSeenBy(r) = events[s] /\ events[s] \subseteq Row /\ head[s] \in Nat
  BY Queries, OwnerSeesAll
     DEF LogInv, InsertEvent, TypeOK, Tx, AppendsFit, PastOwner, Honest
<1>1. \A x \in events[s] \cup tx[r].rows : x.seq \in Nat /\ x.seq <= tx[r].head
  <2>1. \A x \in events[s] : x.seq \in Nat /\ x.seq <= head[s]
    BY <1>0 DEF LogInv, LogDense, Row
  <2>2. head[s] <= tx[r].head /\ \A x \in tx[r].rows : x.seq \in Nat /\ x.seq <= tx[r].head
    BY <1>0 DEF OpenAppend, Row
  <2> QED
    BY <1>0, <2>1, <2>2
<1>2. \A j \in DOMAIN tx[r].todo :
        tx[r].todo[j] = e \/ \E k \in DOMAIN Tail(tx[r].todo) : Tail(tx[r].todo)[k] = tx[r].todo[j]
  <2> SUFFICES ASSUME NEW j \in DOMAIN tx[r].todo, j # 1
               PROVE  \E k \in DOMAIN Tail(tx[r].todo) : Tail(tx[r].todo)[k] = tx[r].todo[j]
    BY <1>0
  <2>1. j - 1 \in DOMAIN Tail(tx[r].todo) /\ Tail(tx[r].todo)[j - 1] = tx[r].todo[j]
    BY <1>0
  <2> QED
    BY <2>1
<1>3. ASSUME NEW x \in events[s] \cup tx[r].rows, x.id = e.id,
             tx' = [tx EXCEPT ![r].todo = Tail(@),
                              ![r].assigned = @ \cup {[id |-> x.id, seq |-> x.seq]}],
             UNCHANGED <<pc, call, reply>>
      PROVE  Honest(r)'
  <2>1. /\ tx'[r].todo = Tail(tx[r].todo) /\ tx'[r].head = tx[r].head
        /\ tx'[r].rows = tx[r].rows
        /\ tx'[r].assigned = tx[r].assigned \cup {[id |-> x.id, seq |-> x.seq]}
    BY <1>0, <1>3 DEF TypeOK, Tx
  <2> DEFINE b == [id |-> x.id, seq |-> x.seq]
  <2>2. b.id = e.id /\ b.id = x.id /\ b.seq = x.seq /\ b.seq <= tx[r].head
    BY <1>1, <1>3
  <2> HIDE DEF b
  <2>3. \A i \in DOMAIN call[r].batch :
          \/ \E a \in tx'[r].assigned : a.id = call[r].batch[i].id
          \/ \E j \in DOMAIN tx'[r].todo : tx'[r].todo[j].id = call[r].batch[i].id
    <3> TAKE i \in DOMAIN call[r].batch
    <3>1. CASE \E a \in tx[r].assigned : a.id = call[r].batch[i].id
      BY <2>1, <3>1 DEF b
    <3>2. ASSUME NEW j \in DOMAIN tx[r].todo, tx[r].todo[j].id = call[r].batch[i].id
          PROVE  \/ \E a \in tx'[r].assigned : a.id = call[r].batch[i].id
                 \/ \E k \in DOMAIN tx'[r].todo : tx'[r].todo[k].id = call[r].batch[i].id
      <4>1. b \in tx'[r].assigned
        BY <2>1 DEF b
      <4> QED
        BY <1>2, <2>1, <2>2, <3>2, <4>1
    <3> QED
      BY <1>0, <3>1, <3>2 DEF Assigned
  <2>4. \A a \in tx'[r].assigned :
          /\ a.seq <= tx'[r].head
          /\ \E y \in events[s] \cup tx'[r].rows : y.id = a.id /\ y.seq = a.seq
    <3>1. tx'[r].assigned = tx[r].assigned \cup {b}
      BY <2>1 DEF b
    <3> QED
      BY <1>0, <1>3, <2>1, <2>2, <3>1 DEF Assigned
  <2>5. call' = call /\ events' = events
    BY <1>0, <1>3
  <2>6. Assigned(r)'
    BY <2>3, <2>4, <2>5 DEF Assigned, StoreOf
  <2> QED
    BY <1>0, <1>3, <2>6 DEF Honest
<1>4. ASSUME tx' = [tx EXCEPT ![r] =
               [head |-> next, rows |-> tx[r].rows \cup {row}, todo |-> Tail(tx[r].todo),
                assigned |-> tx[r].assigned \cup {[id |-> e.id, seq |-> next]}]],
             UNCHANGED <<pc, call, reply>>
      PROVE  Honest(r)'
  <2> DEFINE b == [id |-> e.id, seq |-> next]
  <2>1. /\ tx'[r].todo = Tail(tx[r].todo) /\ tx'[r].head = next
        /\ tx'[r].rows = tx[r].rows \cup {row}
        /\ tx'[r].assigned = tx[r].assigned \cup {b}
    BY <1>0, <1>4 DEF TypeOK
  <2>2. b.id = e.id /\ b.seq = next /\ row.id = e.id /\ row.seq = next
    OBVIOUS
  <2> HIDE DEF b, row
  <2>3. \A i \in DOMAIN call[r].batch :
          \/ \E a \in tx'[r].assigned : a.id = call[r].batch[i].id
          \/ \E j \in DOMAIN tx'[r].todo : tx'[r].todo[j].id = call[r].batch[i].id
    <3> TAKE i \in DOMAIN call[r].batch
    <3>1. CASE \E a \in tx[r].assigned : a.id = call[r].batch[i].id
      BY <2>1, <3>1
    <3>2. ASSUME NEW j \in DOMAIN tx[r].todo, tx[r].todo[j].id = call[r].batch[i].id
          PROVE  \/ \E a \in tx'[r].assigned : a.id = call[r].batch[i].id
                 \/ \E k \in DOMAIN tx'[r].todo : tx'[r].todo[k].id = call[r].batch[i].id
      BY <1>2, <2>1, <2>2, <3>2
    <3> QED
      BY <1>0, <3>1, <3>2 DEF Assigned
  <2>4. \A a \in tx'[r].assigned :
          /\ a.seq <= tx'[r].head
          /\ \E y \in events[s] \cup tx'[r].rows : y.id = a.id /\ y.seq = a.seq
    <3>1. \A a \in tx[r].assigned : a.seq \in Nat /\ a.seq <= tx[r].head
      BY <1>0 DEF Assigned, Assignment
    <3> QED
      BY <1>0, <2>1, <2>2, <3>1 DEF Assigned
  <2>5. Assigned(r)'
    BY <1>0, <1>4, <2>3, <2>4 DEF Assigned, StoreOf
  <2> QED
    BY <1>0, <1>4, <2>5 DEF Honest
<1>5. ASSUME Answer(r, NoReply)
      PROVE  Honest(r)'
  <2>1. pc'[r] = "done" /\ reply'[r].is = "error"
    BY <1>0, <1>5 DEF Answer, Goto, TypeOK, NoReply
  <2> QED
    BY <2>1 DEF Honest
<1> QED
  BY <1>0, <1>3, <1>4, <1>5 DEF InsertEvent, Known

\* A commit answers with the numbers of rows that are in the log now.
LEMMA HonestCommitAppend ==
  ASSUME LogInv, Production, NEW r \in Requests, Honest(r), CommitAppend(r)
  PROVE  Honest(r)'
<1> DEFINE s == StoreOf(r)
           a == [NoReply EXCEPT !.is = "ok", !.head = tx[r].head, !.assigned = tx[r].assigned]
<1>0. /\ TypeOK /\ call' = call /\ pc[r] = "insert" /\ s \in Stores
      /\ Assigned(r) /\ tx[r].todo = <<>>
  BY Queries DEF LogInv, CommitAppend, Answer, Honest
<1>1. a.is = "ok" /\ a.head = tx[r].head /\ a.assigned = tx[r].assigned /\ a.rows = {}
  BY DEF NoReply
<1>2. pc'[r] = "done" /\ reply'[r] = a
  BY <1>0 DEF CommitAppend, Answer, Goto, TypeOK
<1>3. events'[s] = events[s] \cup tx[r].rows
  BY <1>0 DEF CommitAppend, TypeOK
<1> HIDE DEF a
<1>4. \A i \in DOMAIN call[r].batch : \E b \in a.assigned : b.id = call[r].batch[i].id
  BY <1>0, <1>1 DEF Assigned
<1>5. \A b \in a.assigned : b.seq <= a.head /\ \E x \in events'[s] : x.id = b.id /\ x.seq = b.seq
  BY <1>0, <1>1, <1>3 DEF Assigned
<1> QED
  BY <1>0, <1>1, <1>2, <1>4, <1>5 DEF Honest, Page, StoreOf

\* The reads of a pull and of a conflict.
LEMMA HonestReads ==
  ASSUME LogInv, Production, NEW r \in Requests, Honest(r),
         LoadMissing(r) \/ LoadEvents(r) \/ LoadHead(r) \/ PollAgain(r)
  PROVE  Honest(r)'
<1>0. /\ TypeOK /\ call' = call /\ events' = events /\ pc[r] \in PastOwner
      /\ StoreOf(r)' = StoreOf(r)
  BY DEF LogInv, LoadMissing, LoadEvents, LoadHead, PollAgain, Answer, PastOwner, StoreOf
<1>1. CASE LoadMissing(r)
  <2> DEFINE rows == LoadSince(r, call[r].at, MissingLimit)
             a == [NoReply EXCEPT !.is = "server_ahead", !.head = tx[r].head, !.rows = rows]
  <2>1. a.is = "server_ahead" /\ a.rows = rows
    BY DEF NoReply
  <2>2. pc'[r] = "done" /\ reply'[r] = a /\ call[r].at < head[StoreOf(r)]
    BY <1>0, <1>1 DEF LoadMissing, Answer, Goto, TypeOK, Honest
  <2>3. Page(r, rows) /\ rows # {}
    BY <1>0, <2>2, LoadsAPage, ServerConstants
  <2> HIDE DEF a, rows
  <2>4. a.is = "server_ahead" /\ Page(r, a.rows) /\ a.rows # {}
    BY <2>1, <2>3
  <2> QED
    BY <1>0, <2>2, <2>4 DEF Honest, Page
<1>2. CASE LoadEvents(r)
  <2> DEFINE rows == LoadSince(r, call[r].at, PullLimit)
             t == [NoTx EXCEPT !.rows = rows]
  <2>1. t.rows = rows
    BY DEF NoTx
  <2>2. pc'[r] = "head" /\ tx'[r] = t /\ call[r].kind = "pull"
    BY <1>0, <1>2 DEF LoadEvents, Goto, TypeOK, Honest
  <2>3. Page(r, rows)
    BY <1>0, LoadsAPage, ServerConstants
  <2> HIDE DEF t, rows
  <2> QED
    BY <1>0, <2>1, <2>2, <2>3 DEF Honest, Page
<1>3. CASE LoadHead(r)
  <2> DEFINE more == /\ tx[r].rows # {}
                     /\ Cardinality(tx[r].rows) = PullLimit
                     /\ HeadSeenBy(r) > LastSeq(tx[r].rows, call[r].at)
             a == [NoReply EXCEPT !.is = "ok", !.head = HeadSeenBy(r),
                                  !.rows = tx[r].rows, !.hasMore = more]
  <2>1. Answer(r, a)
    BY <1>3 DEF LoadHead
  <2>2. a.is = "ok" /\ a.rows = tx[r].rows
    <3> HIDE DEF more
    <3> QED BY DEF NoReply
  <2> HIDE DEF a
  <2>3. pc'[r] = "done" /\ reply'[r] = a
    BY <1>0, <2>1 DEF Answer, Goto, TypeOK
  <2>4. call[r].kind = "pull" /\ Page(r, tx[r].rows)
    BY <1>3 DEF LoadHead, Honest
  <2> QED
    BY <1>0, <2>2, <2>3, <2>4 DEF Honest, Page
<1>4. CASE PollAgain(r)
  <2>1. pc'[r] = "owner"
    BY <1>0, <1>4 DEF PollAgain, Goto, TypeOK
  <2> QED
    BY <2>1 DEF Honest
<1> QED
  BY <1>1, <1>2, <1>3, <1>4

\* Every answer stays true, and every handler stays honest, given LogInv.
LEMMA AnswersNext == LogInv /\ AnswersInv /\ [Next]_vars => AnswersInv'
<1> SUFFICES ASSUME LogInv, AnswersInv, [Next]_vars, Production,
                    NEW q \in Requests
             PROVE  Honest(q)'
  BY DEF AnswersInv
<1>0. TypeOK /\ Honest(q)
  BY DEF LogInv, AnswersInv
<1>1. CASE UNCHANGED vars
  BY <1>0, <1>1, HonestStays DEF vars
<1>2. ASSUME NEW r \in Requests, Receive(r) \/ Handle(r), q # r PROVE Honest(q)'
  <2>1. pc'[q] = pc[q] /\ call'[q] = call[q] /\ tx'[q] = tx[q] /\ reply'[q] = reply[q]
    <3>1. CASE Receive(r)
      BY <1>0, <1>2, <3>1 DEF Receive, Goto, TypeOK
    <3>2. CASE Handle(r)
      BY <1>0, <1>2, <3>2 DEF Handle, EnsureStoreOwner, VerifyEvent, VerifyGrant, VerifyBatch, BeginAppend, InsertEvent,
         CommitAppend, LoadMissing, LoadEvents, LoadHead, PollAgain, DeleteEvents, CommitReset,
         Answer, Goto, TypeOK
    <3> QED
      BY <1>2, <3>1, <3>2
  <2> QED
    BY <1>0, <2>1, HonestStays
<1>3. CASE Receive(q)
  BY <1>3, HonestReceive
<1>4. CASE Handle(q)
  <2>1. ~DeleteEvents(q) /\ ~CommitReset(q)
    BY DEF LogInv, AppendsFit, DeleteEvents, CommitReset
  <2> QED
    BY <1>0, <1>4, <2>1, HonestEnsureStoreOwner, HonestVerify, HonestBeginAppend,
       HonestInsertEvent, HonestCommitAppend, HonestReads DEF Handle
<1>5. CASE Sharing
  <2>1. UNCHANGED <<pc, call, tx, reply>>
    BY <1>5 DEF Sharing, AdvanceScope, IssueGrant, RevokeGrant
  <2> QED
    BY <1>0, <2>1, HonestStays
<1> QED
  BY <1>1, <1>2, <1>3, <1>4, <1>5 DEF Next

\* In production every answer of the API is true of the log and stays true:
\* accepted pushes are in it under the numbers they were told, pages and missing
\* lists are dense parts of it, a conflict with the server ahead brings a row.
\* For any number of requests, stores and rows and any page size.
THEOREM AnswersAlwaysHold == Spec => []AnswersHold
<1>1. Init => AnswersInv
  BY DEF Init, AnswersInv, Honest, NoReply
<1>2. AnswersInv => AnswersHold
  BY DEF AnswersInv, Honest, Page, AnswersHold, PushAnswersHold, PagesDense, AheadHasMissing
<1> QED
  BY <1>1, <1>2, LogInvariant, AnswersNext, PTL DEF Spec
=============================================================================
