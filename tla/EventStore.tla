----------------------------- MODULE EventStore -----------------------------
(***************************************************************************)
(* The browser's event store of one storeId: the worker that owns the      *)
(* SQLite file (owner.worker.ts, sqlite.ts), the client each tab talks to  *)
(* it with (client.ts, index.ts), and the one transaction that spans       *)
(* several requests (PendingEventVersionRewriter).                         *)
(*                                                                         *)
(* wa-sqlite is the synchronous build: a request runs to its response      *)
(* before the worker takes the next message, so a request is one step.     *)
(* Only hello waits for something else (the web lock, the wasm file, the   *)
(* access handles), so hellos of several tabs interleave.  A row written   *)
(* is a number; one table is written and watched.                          *)
(*                                                                         *)
(* Of the environment: a shared worker lives while a document that asked   *)
(* for it is open; an access handle is exclusive; a web lock is exclusive. *)
(***************************************************************************)
EXTENDS Naturals

CONSTANTS
    Tabs,          \* documents; each may have a dedicated worker of its own
    MaxWrites,     \* bound on rows written
    MaxOpens,      \* bound on calls of createWebSqliteDb
    MaxFaults,     \* bound on failing opens, failing imports and failing rewrites
    MaxCloses      \* bound on closed documents and shut down services

ASSUME EventStoreConstants ==
    /\ "shared" \notin Tabs /\ "none" \notin Tabs
    /\ {MaxWrites, MaxOpens, MaxFaults, MaxCloses} \subseteq Nat

VARIABLES
    sharedWorkers, \* the browser has SharedWorker
    tab,           \* what createWebSqliteDb is doing in a document, and the worker it uses
    owners,        \* documents that keep the shared worker alive
    hello,         \* handleHello of each tab's message at each worker
    ctx,           \* a worker's context: "none", "open", or "closed" (the db was closed
                   \* under it by a failed import)
    named,         \* a worker's storeId and dbName are set
    lock,          \* the worker that holds the web lock
    handles,       \* the VFS, by worker and tab, that holds the file's access handles
    disk,          \* the rows in the file
    txn,           \* the open transaction
    rewrite,       \* whether a tab's rewriter is running, and the rows it has written
    watching,      \* tabs with a subscription in their worker
    view, dirty,   \* what a tab has read, and whether it was notified since
    groups,        \* history: rows that were written to be stored together
    acked,         \* history: rows of acknowledged batches
    imported,      \* history: rows the last restored backup brought
    used           \* the counters the bounds are for

vars == <<sharedWorkers, tab, owners, hello, ctx, named, lock, handles, disk, txn, rewrite,
          watching, view, dirty, groups, acked, imported, used>>
workerVars == <<hello, ctx, named, lock, handles>>
dataVars == <<disk, txn, groups, acked, imported>>
readVars == <<watching, view, dirty>>

Workers == {"shared"} \cup Tabs
NoOne == <<"none", "none">>
NoTxn == [open |-> FALSE, rows |-> {}]
Idle == [on |-> FALSE, rows |-> {}]
Closed == [pc |-> "closed", via |-> "none"]

Init ==
    /\ sharedWorkers \in BOOLEAN
    /\ tab = [t \in Tabs |-> Closed] /\ owners = {}
    /\ hello = [w \in Workers |-> [t \in Tabs |-> "none"]]
    /\ ctx = [w \in Workers |-> "none"] /\ named = [w \in Workers |-> FALSE]
    /\ lock = "none" /\ handles = NoOne
    /\ disk = {} /\ txn = NoTxn /\ rewrite = [t \in Tabs |-> Idle]
    /\ watching = {} /\ view = [t \in Tabs |-> {}] /\ dirty = [t \in Tabs |-> FALSE]
    /\ groups = {} /\ acked = {} /\ imported = {}
    /\ used = [writes |-> 0, opens |-> 0, faults |-> 0, closes |-> 0]

Count(c) == used' = [used EXCEPT ![c] = @ + 1]

-----------------------------------------------------------------------------
(* createWebSqliteDb in a tab. *)

SendHello(t, w) ==
    /\ tab' = [tab EXCEPT ![t] = [pc |-> "hello", via |-> w]]
    /\ hello' = [hello EXCEPT ![w][t] = "sent"]

OpenTab(t) ==
    /\ tab[t].pc = "closed" /\ used.opens < MaxOpens
    /\ SendHello(t, IF sharedWorkers THEN "shared" ELSE t)
    /\ owners' = IF sharedWorkers THEN owners \cup {t} ELSE owners
    /\ Count("opens")
    /\ UNCHANGED <<sharedWorkers, ctx, named, lock, handles, rewrite>>
    /\ UNCHANGED <<dataVars, readVars>>

\* sendHello rejected: from the shared worker the tab turns to a worker of its own, from
\* that one the error goes to the caller.  The worker is not told.
HelloRejected(t) ==
    IF tab[t].via = "shared"
    THEN SendHello(t, t)
    ELSE tab' = [tab EXCEPT ![t].pc = "failed"] /\ UNCHANGED hello

\* Five seconds without helloOk or helloError.
HelloTimeout(t) ==
    /\ tab[t].pc = "hello"
    /\ HelloRejected(t)
    /\ UNCHANGED <<sharedWorkers, owners, ctx, named, lock, handles, rewrite, used>>
    /\ UNCHANGED <<dataVars, readVars>>

-----------------------------------------------------------------------------
(* handleHello in a worker.  Its answer reaches the tab only while the tab *)
(* still waits for this worker; the answer to a worker that has another    *)
(* storeId is a response with an id nobody waits for, so it reaches no one. *)

Waits(t, w) == tab[t] = [pc |-> "hello", via |-> w]

AnswerOk(w, t) ==
    /\ hello' = [hello EXCEPT ![w][t] = "none"]
    /\ tab' = IF Waits(t, w) THEN [tab EXCEPT ![t].pc = "ready"] ELSE tab

AnswerMismatch(w, t) ==
    /\ hello' = [hello EXCEPT ![w][t] = "none"]
    /\ UNCHANGED tab

Greet(w, t, isNamed) == IF isNamed THEN AnswerOk(w, t) ELSE AnswerMismatch(w, t)

\* A mistake HandleHello could make: the shared worker takes the web lock too.
HandleHelloLocks(w, t) ==
    /\ hello[w][t] = "sent"
    /\ IF ctx[w] = "none"
       THEN /\ named' = [named EXCEPT ![w] = TRUE]
            /\ hello' = [hello EXCEPT ![w][t] = "lock"]
            /\ UNCHANGED tab
       ELSE Greet(w, t, named[w]) /\ UNCHANGED named
    /\ UNCHANGED <<sharedWorkers, owners, ctx, lock, handles, rewrite, used>>
    /\ UNCHANGED <<dataVars, readVars>>

HandleHello(w, t) ==
    /\ hello[w][t] = "sent"
    /\ IF ctx[w] = "none"
       THEN /\ named' = [named EXCEPT ![w] = TRUE]
            /\ hello' = [hello EXCEPT ![w][t] = IF w = "shared" THEN "loading" ELSE "lock"]
            /\ UNCHANGED tab
       ELSE Greet(w, t, named[w]) /\ UNCHANGED named
    /\ UNCHANGED <<sharedWorkers, owners, ctx, lock, handles, rewrite, used>>
    /\ UNCHANGED <<dataVars, readVars>>

\* The web lock is granted; a queued request waits as long as it takes.
AcquireLock(w, t) ==
    /\ hello[w][t] = "lock" /\ lock = "none"
    /\ lock' = w
    /\ hello' = [hello EXCEPT ![w][t] = "loading"]
    /\ UNCHANGED <<sharedWorkers, tab, owners, ctx, named, handles, rewrite, used>>
    /\ UNCHANGED <<dataVars, readVars>>

\* The catch of handleHello.  The VFS is not closed: handles it has stay taken.  The
\* context of another hello is not looked at.
FailHello(w, t) ==
    /\ named' = [named EXCEPT ![w] = FALSE]
    /\ lock' = IF lock = w THEN "none" ELSE lock
    /\ hello' = [hello EXCEPT ![w][t] = "diagnose"]

\* loadWasmBinary, then new AccessHandlePoolVFS and its isReady.
AcquireHandles(w, t) ==
    /\ hello[w][t] = "loading"
    /\ IF handles = NoOne
       THEN /\ handles' = <<w, t>>
            /\ hello' = [hello EXCEPT ![w][t] = "open"]
            /\ UNCHANGED <<named, lock>>
       ELSE FailHello(w, t) /\ UNCHANGED handles
    /\ UNCHANGED <<sharedWorkers, tab, owners, ctx, rewrite, used>>
    /\ UNCHANGED <<dataVars, readVars>>

\* Any stage of createSqliteContext may fail (no wasm, no space, a newer schema).
OpenFails(w, t) ==
    /\ hello[w][t] \in {"loading", "open"} /\ used.faults < MaxFaults
    /\ FailHello(w, t)
    /\ Count("faults")
    /\ UNCHANGED <<sharedWorkers, tab, owners, ctx, handles, rewrite>>
    /\ UNCHANGED <<dataVars, readVars>>

\* open_v2 rolls a journal back that a dead worker left; pragmas and schema follow.
OpenDb(w, t) ==
    /\ hello[w][t] = "open"
    /\ ctx' = [ctx EXCEPT ![w] = "open"]
    /\ Greet(w, t, named[w])
    /\ UNCHANGED <<sharedWorkers, owners, named, lock, handles, rewrite, used>>
    /\ UNCHANGED <<dataVars, readVars>>

\* collectOpfsDiagnostics has ended; helloError is posted.
SendHelloError(w, t) ==
    /\ hello[w][t] = "diagnose"
    /\ LET answered == [hello EXCEPT ![w][t] = "none"] IN
       CASE ~Waits(t, w) -> hello' = answered /\ UNCHANGED tab
         [] Waits(t, w) /\ w = "shared" ->
                /\ hello' = [answered EXCEPT ![t][t] = "sent"]
                /\ tab' = [tab EXCEPT ![t].via = t]
         [] OTHER -> hello' = answered /\ tab' = [tab EXCEPT ![t].pc = "failed"]
    /\ UNCHANGED <<sharedWorkers, owners, ctx, named, lock, handles, rewrite, used>>
    /\ UNCHANGED <<dataVars, readVars>>

-----------------------------------------------------------------------------
(* Requests. *)

Serves(t) == tab[t].pc = "ready" /\ ctx[tab[t].via] = "open"

\* What a query sees: every client shares the one connection and its transaction.
Stored == disk \cup txn.rows

\* notifyTables: every connection with a subscription, the writer's too.
NotifyTables == dirty' = [t \in Tabs |-> dirty[t] \/ t \in watching]

\* What one statement leaves behind, and what BEGIN ... COMMIT of a batch does: BEGIN is
\* refused inside a transaction, before the try; a failing statement rolls back.
RunExecute(d, tx, rows) ==
    IF tx.open THEN [disk |-> d, txn |-> [tx EXCEPT !.rows = @ \cup rows]]
               ELSE [disk |-> d \cup rows, txn |-> tx]
\* A mistake ExecuteStatements could make: joining a transaction that is open.
ExecuteStatementsJoining(d, tx, rows, fails) ==
    IF fails THEN [disk |-> d, txn |-> tx, ok |-> FALSE]
             ELSE LET r == RunExecute(d, tx, rows)
                  IN [disk |-> r.disk, txn |-> r.txn, ok |-> TRUE]
ExecuteStatements(d, tx, rows, fails) ==
    IF tx.open \/ fails THEN [disk |-> d, txn |-> tx, ok |-> FALSE]
                        ELSE [disk |-> d \cup rows, txn |-> tx, ok |-> TRUE]

Fresh(k) == (used.writes + 1)..(used.writes + k)
Spend(k) == used' = [used EXCEPT !.writes = @ + k]

\* A mistake Execute could make: no notification inside a transaction.
ExecuteQuiet(t) ==
    /\ Serves(t) /\ used.writes < MaxWrites
    /\ LET r == RunExecute(disk, txn, Fresh(1)) IN disk' = r.disk /\ txn' = r.txn
    /\ IF txn.open THEN UNCHANGED dirty ELSE NotifyTables
    /\ Spend(1)
    /\ UNCHANGED <<sharedWorkers, tab, owners, rewrite, watching, view, groups, acked, imported>>
    /\ UNCHANGED workerVars

\* dbExecute of an INSERT, UPDATE or DELETE of some component of the tab.
Execute(t) ==
    /\ Serves(t) /\ used.writes < MaxWrites
    /\ LET r == RunExecute(disk, txn, Fresh(1)) IN disk' = r.disk /\ txn' = r.txn
    /\ NotifyTables
    /\ Spend(1)
    /\ UNCHANGED <<sharedWorkers, tab, owners, rewrite, watching, view, groups, acked, imported>>
    /\ UNCHANGED workerVars

\* dbBatch of two rows, as an append of events is.
Batch(t, fails) ==
    /\ Serves(t) /\ used.writes + 2 <= MaxWrites
    /\ LET r == ExecuteStatements(disk, txn, Fresh(2), fails) IN
       /\ disk' = r.disk /\ txn' = r.txn
       /\ acked' = IF r.ok THEN acked \cup Fresh(2) ELSE acked
       /\ IF r.ok THEN NotifyTables ELSE UNCHANGED dirty
    /\ groups' = groups \cup {Fresh(2)}
    /\ Spend(2)
    /\ UNCHANGED <<sharedWorkers, tab, owners, rewrite, watching, view, imported>>
    /\ UNCHANGED workerVars

\* dbQuery of the watched table.
Query(t) ==
    /\ Serves(t) /\ t \in watching
    /\ view' = [view EXCEPT ![t] = Stored]
    /\ dirty' = [dirty EXCEPT ![t] = FALSE]
    /\ UNCHANGED <<sharedWorkers, tab, owners, rewrite, watching, used>>
    /\ UNCHANGED <<workerVars, dataVars>>

\* dbSubscribeTables and dbUnsubscribeTables.  What was written before is not announced.
Subscribe(t) ==
    /\ Serves(t) /\ t \notin watching
    /\ watching' = watching \cup {t}
    /\ view' = [view EXCEPT ![t] = Stored]
    /\ UNCHANGED <<sharedWorkers, tab, owners, rewrite, dirty, used>>
    /\ UNCHANGED <<workerVars, dataVars>>
Unsubscribe(t) ==
    /\ Serves(t) /\ t \in watching
    /\ watching' = watching \ {t}
    /\ dirty' = [dirty EXCEPT ![t] = FALSE] /\ view' = [view EXCEPT ![t] = {}]
    /\ UNCHANGED <<sharedWorkers, tab, owners, rewrite, used>>
    /\ UNCHANGED <<workerVars, dataVars>>

\* dbImportMain: the backup of a store that is being restored; no other tab has it open
\* and nothing is syncing.  The connection is closed before anything else, and a failure
\* leaves it so; from xTruncate on the old rows are gone, and a failure of open_v2 or of the
\* schema leaves the backup's rows in their place.  No subscriber is notified.
ImportMain(t) ==
    /\ Serves(t) /\ named[tab[t].via] /\ ~rewrite[t].on
    /\ \A u \in Tabs \ {t} : tab[u].pc = "closed"
    /\ \E k \in 0..1, fails \in BOOLEAN :
          /\ used.writes + k <= MaxWrites /\ (fails => used.faults < MaxFaults)
          /\ used' = [used EXCEPT !.writes = @ + k, !.faults = IF fails THEN @ + 1 ELSE @]
          /\ ctx' = IF fails THEN [ctx EXCEPT ![tab[t].via] = "closed"] ELSE ctx
          /\ \/ disk' = Fresh(k) /\ acked' = {} /\ imported' = Fresh(k)
             \/ fails /\ k = 0 /\ UNCHANGED <<disk, acked, imported>>
    /\ txn' = NoTxn
    /\ UNCHANGED <<sharedWorkers, tab, owners, hello, named, lock, handles, rewrite, groups>>
    /\ UNCHANGED readVars

-----------------------------------------------------------------------------
(* PendingEventVersionRewriter: BEGIN, an UPDATE of each pending event,    *)
(* COMMIT, each a request of its own.  BEGIN inside a transaction throws.  *)

RewriteBegin(t) ==
    /\ Serves(t) /\ ~rewrite[t].on /\ ~txn.open
    /\ txn' = [open |-> TRUE, rows |-> {}]
    /\ rewrite' = [rewrite EXCEPT ![t].on = TRUE]
    /\ UNCHANGED <<sharedWorkers, tab, owners, disk, groups, acked, imported, used>>
    /\ UNCHANGED <<workerVars, readVars>>

RewriteUpdate(t) ==
    /\ Serves(t) /\ rewrite[t].on /\ used.writes < MaxWrites
    /\ LET r == RunExecute(disk, txn, Fresh(1)) IN disk' = r.disk /\ txn' = r.txn
    /\ rewrite' = [rewrite EXCEPT ![t].rows = @ \cup Fresh(1)]
    /\ NotifyTables
    /\ Spend(1)
    /\ UNCHANGED <<sharedWorkers, tab, owners, watching, view, groups, acked, imported>>
    /\ UNCHANGED workerVars

EndRewrite(t) ==
    /\ rewrite' = [rewrite EXCEPT ![t] = Idle]
    /\ groups' = groups \cup {rewrite[t].rows}

\* COMMIT ends the transaction with whatever other clients wrote in it.
RewriteCommit(t) ==
    /\ Serves(t) /\ rewrite[t].on
    /\ disk' = disk \cup txn.rows
    /\ txn' = NoTxn
    /\ EndRewrite(t)
    /\ UNCHANGED <<sharedWorkers, tab, owners, acked, imported, used>>
    /\ UNCHANGED <<workerVars, readVars>>

\* A key is missing or a payload cannot be read: ROLLBACK.
RewriteFails(t) ==
    /\ Serves(t) /\ rewrite[t].on /\ used.faults < MaxFaults
    /\ txn' = NoTxn
    /\ EndRewrite(t)
    /\ Count("faults")
    /\ UNCHANGED <<sharedWorkers, tab, owners, disk, acked, imported>>
    /\ UNCHANGED <<workerVars, readVars>>

-----------------------------------------------------------------------------
(* Shutting down.  A worker that dies loses its context and handles; the   *)
(* journal of its open transaction is rolled back by the next open_v2.     *)

WorkersDie(W) ==
    /\ hello' = [w \in Workers |-> IF w \in W THEN [u \in Tabs |-> "none"] ELSE hello[w]]
    /\ ctx' = [w \in Workers |-> IF w \in W THEN "none" ELSE ctx[w]]
    /\ named' = [w \in Workers |-> IF w \in W THEN FALSE ELSE named[w]]
    /\ lock' = IF lock \in W THEN "none" ELSE lock
    /\ handles' = IF handles[1] \in W THEN NoOne ELSE handles
    /\ txn' = IF \E w \in W : ctx[w] # "none" THEN NoTxn ELSE txn

ForgetClient(t) ==
    /\ tab' = [tab EXCEPT ![t] = Closed]
    /\ EndRewrite(t)
    /\ watching' = watching \ {t}
    /\ view' = [view EXCEPT ![t] = {}] /\ dirty' = [dirty EXCEPT ![t] = FALSE]

\* A mistake Shutdown could make: telling the shared worker too.
ShutdownAnyWorker(t) ==
    /\ tab[t].pc = "ready" /\ used.closes < MaxCloses
    /\ ForgetClient(t)
    /\ WorkersDie({tab[t].via})
    /\ Count("closes")
    /\ UNCHANGED <<sharedWorkers, owners, disk, acked, imported>>

\* shutdown() of createWebSqliteDb: dbShutdown and terminate() for a dedicated worker; the
\* shared one is not told, and keeps a transaction the rewriter began.
Shutdown(t) ==
    /\ tab[t].pc = "ready" /\ used.closes < MaxCloses
    /\ ForgetClient(t)
    /\ WorkersDie({tab[t].via} \ {"shared"})
    /\ Count("closes")
    /\ UNCHANGED <<sharedWorkers, owners, disk, acked, imported>>

\* The document goes away, in whatever state, and its dedicated worker with it; the shared
\* worker goes with the last document.
CloseTab(t) ==
    /\ tab[t].pc # "closed" \/ t \in owners
    /\ used.closes < MaxCloses
    /\ ForgetClient(t)
    /\ owners' = owners \ {t}
    /\ WorkersDie({t} \cup IF owners \subseteq {t} THEN {"shared"} ELSE {})
    /\ Count("closes")
    /\ UNCHANGED <<sharedWorkers, disk, acked, imported>>

-----------------------------------------------------------------------------
WorkerStep(w, t) ==
    \/ HandleHello(w, t) \/ AcquireLock(w, t) \/ AcquireHandles(w, t)
    \/ OpenDb(w, t) \/ SendHelloError(w, t)
Rewriting(t) ==
    \/ RewriteBegin(t) \/ RewriteUpdate(t) \/ RewriteCommit(t) \/ RewriteFails(t)

Next ==
    \/ \E t \in Tabs :
           \/ OpenTab(t) \/ HelloTimeout(t)
           \/ Execute(t) \/ Query(t) \/ Subscribe(t) \/ Unsubscribe(t) \/ ImportMain(t)
           \/ \E fails \in BOOLEAN : Batch(t, fails)
           \/ Rewriting(t)
           \/ Shutdown(t) \/ CloseTab(t)
    \/ \E w \in Workers, t \in Tabs : WorkerStep(w, t) \/ OpenFails(w, t)

Spec == Init /\ [][Next]_vars

-----------------------------------------------------------------------------
(* Properties. *)

Rows == 1..MaxWrites
Phases == {"none", "sent", "lock", "loading", "open", "diagnose"}
TabState == [pc : {"closed", "hello", "ready", "failed"}, via : Workers \cup {"none"}]
TabsOK ==
    /\ sharedWorkers \in BOOLEAN
    /\ tab \in [Tabs -> TabState] /\ \A t \in Tabs : tab[t].via \in {"none", "shared", t}
    /\ owners \subseteq Tabs /\ (~sharedWorkers => owners = {})
HelloOK ==
    /\ hello \in [Workers -> [Tabs -> Phases]]
    /\ \A w \in Workers, t \in Tabs : /\ hello[w][t] # "none" => w \in {"shared", t}
                                      /\ hello[w][t] = "lock" => w = t
WorkersOK ==
    /\ ctx \in [Workers -> {"none", "open", "closed"}] /\ named \in [Workers -> BOOLEAN]
    /\ lock \in Tabs \cup {"none"} /\ handles \in (Workers \X Tabs) \cup {NoOne}
RowsOK ==
    /\ disk \subseteq Rows /\ acked \subseteq Rows /\ imported \subseteq Rows
    /\ groups \subseteq SUBSET Rows
    /\ txn \in [open : BOOLEAN, rows : SUBSET Rows]
    /\ rewrite \in [Tabs -> [on : BOOLEAN, rows : SUBSET Rows]]
ReadersOK ==
    /\ watching \subseteq Tabs /\ dirty \in [Tabs -> BOOLEAN] /\ view \in [Tabs -> SUBSET Rows]
UsedOK ==
    used \in [writes : 0..MaxWrites, opens : 0..MaxOpens, faults : 0..MaxFaults,
              closes : 0..MaxCloses]

\* The shapes of the state, and who can be in which phase of a hello.
TypeOK == TabsOK /\ HelloOK /\ WorkersOK /\ RowsOK /\ ReadersOK /\ UsedOK

\* A tab whose createWebSqliteDb returned is served by the one worker that has the file:
\* a failing or late hello of another tab never takes the database from it.
ServedByTheOwner ==
    \A t \in Tabs : tab[t].pc = "ready" =>
        /\ ctx[tab[t].via] # "none" /\ handles[1] = tab[t].via
        /\ \A w \in Workers \ {tab[t].via} : ctx[w] = "none"

\* Rows written to be stored together, by a batch or by the rewriter, are in the file all
\* or not at all, whatever other tabs write meanwhile and whenever a worker dies.
StoredTogether ==
    \A g \in groups \cup {rewrite[t].rows : t \in Tabs} : g \subseteq disk \/ g \cap disk = {}

\* An acknowledged append of events is in the file, also when another tab's rewriter has a
\* transaction open that is rolled back or never ended.
AckedBatchIsDurable == acked \subseteq disk

\* A batch is a transaction: stored as a whole, and stored for good once it was answered.
BatchesAreAtomic == StoredTogether /\ AckedBatchIsDurable

\* A tab that watches the table has been notified of every row it has not read, its own
\* and other tabs', in a transaction or outside one.  Only the rows of a restored backup
\* come unannounced: the restore rebuilds the projections itself.
WritesAreAnnounced ==
    \A t \in watching : Stored \ imported \subseteq view[t] \/ dirty[t]

\* The shared worker owns the database and serves all tabs: once it has the database open
\* it welcomes every tab that says hello.
SharedServesAll == ctx["shared"] = "open" => named["shared"]
=============================================================================
