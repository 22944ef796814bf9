-------------------------- MODULE LocalStateProofs --------------------------
(***************************************************************************)
(* Theorems about what the browser keeps: EventStore, the tables and the   *)
(* tabs that share them, for any set of tabs and any bounds; Projection,   *)
(* the snapshot a runtime derives from them, for any number of rows and    *)
(* readers, any size of a batch and any bounds.  The two share no state.   *)
(***************************************************************************)
EXTENDS EventStore, ProjectionInvariant, FiniteSetTheorems, WellFoundedInduction,
        NaturalsInduction, TLAPS

(***************************************************************************)
(* EventStore                                                              *)
(***************************************************************************)

\* A counter that has not reached its bound may be incremented.
LEMMA CountType ==
  ASSUME UsedOK,
         \/ used.opens < MaxOpens /\ Count("opens")
         \/ used.faults < MaxFaults /\ Count("faults")
         \/ used.closes < MaxCloses /\ Count("closes")
  PROVE  UsedOK' /\ used'.writes = used.writes
BY EventStoreConstants DEF Count, UsedOK

\* Rows are numbered in the order they are written.
LEMMA SpendType ==
  ASSUME UsedOK, NEW k \in 1..2, used.writes + k <= MaxWrites, Spend(k)
  PROVE  /\ UsedOK' /\ used'.writes = used.writes + k
         /\ Fresh(k) \subseteq Rows /\ Fresh(k) # {}
         /\ Fresh(k) \cap (1..used.writes) = {} /\ Fresh(k) \subseteq 1..used'.writes
         /\ 1..used.writes \subseteq 1..used'.writes
<1>1. used.writes \in Nat /\ used.writes + k \in 0..MaxWrites /\ MaxWrites \in Nat
  BY EventStoreConstants DEF UsedOK
<1>2. UsedOK' /\ used'.writes = used.writes + k
  BY <1>1 DEF Spend, UsedOK
<1>3. used.writes + 1 \in Fresh(k)
  BY <1>1 DEF Fresh
<1> QED
  BY <1>1, <1>2, <1>3 DEF Fresh, Rows

\* A message of a tab is at the shared worker or at its own.
LEMMA HelloSet ==
  ASSUME HelloOK, NEW w \in Workers, NEW t \in Tabs, NEW x \in Phases,
         x = "none" \/ w \in {"shared", t}, x = "lock" => w = t, hello' = [hello EXCEPT ![w][t] = x]
  PROVE  HelloOK'
BY DEF HelloOK

\* A tab's state is set.
LEMMA TabSet ==
  ASSUME TabsOK, NEW t \in Tabs, NEW x \in TabState, x.via \in {"none", "shared", t},
         tab' = [tab EXCEPT ![t] = x], UNCHANGED <<owners, sharedWorkers>>
  PROVE  TabsOK'
BY DEF TabsOK

\* The steps of a hello, on the tab's side and the worker's.
Greeting(t) == \/ OpenTab(t) \/ HelloTimeout(t)
               \/ \E w \in Workers : WorkerStep(w, t) \/ OpenFails(w, t)
Closing(t) == Shutdown(t) \/ CloseTab(t)
Reading(t) == Query(t) \/ Subscribe(t) \/ Unsubscribe(t)
Writing(t) == Execute(t) \/ (\E fails \in BOOLEAN : Batch(t, fails)) \/ Rewriting(t)

\* Every step, by what it is about.
LEMMA Steps ==
  ASSUME [Next]_vars
  PROVE  \/ UNCHANGED vars
         \/ \E t \in Tabs : Greeting(t) \/ Closing(t) \/ Reading(t) \/ Writing(t) \/ ImportMain(t)
BY DEF Next, Greeting, Closing, Reading, Writing

\* A hello touches no row and no reader.
LEMMA GreetingFrame ==
  ASSUME NEW t \in Tabs, Greeting(t)
  PROVE  UNCHANGED <<dataVars, readVars, rewrite, sharedWorkers>>
<1>1. CASE OpenTab(t) \/ HelloTimeout(t)
  BY <1>1 DEF OpenTab, HelloTimeout
<1>2. ASSUME NEW w \in Workers, WorkerStep(w, t) \/ OpenFails(w, t)
      PROVE  UNCHANGED <<dataVars, readVars, rewrite, sharedWorkers>>
  BY <1>2 DEF WorkerStep, OpenFails, HandleHello, AcquireLock, AcquireHandles, OpenDb,
     SendHelloError
<1> QED
  BY <1>1, <1>2 DEF Greeting

\* The messages of a hello stay where they belong.
LEMMA GreetingHello ==
  ASSUME TabsOK, HelloOK, NEW t \in Tabs, Greeting(t)
  PROVE  HelloOK' /\ TabsOK'
<1>0. t \in Workers /\ "shared" \in Workers /\ "shared" # t
  BY EventStoreConstants DEF Workers
<1>1. ASSUME NEW w \in Workers, w \in {"shared", t}, SendHello(t, w)
      PROVE  HelloOK' /\ tab' \in [Tabs -> TabState]
             /\ \A u \in Tabs : tab'[u].via \in {"none", "shared", u}
  <2>1. hello' = [hello EXCEPT ![w][t] = "sent"] /\ tab' = [tab EXCEPT ![t] = [pc |-> "hello", via |-> w]]
    BY <1>1 DEF SendHello
  <2>2. HelloOK'
    BY <1>1, <2>1, HelloSet DEF Phases
  <2>3. [pc |-> "hello", via |-> w] \in TabState
    BY DEF TabState
  <2> QED
    BY <1>1, <2>1, <2>2, <2>3 DEF TabsOK
<1>2. ASSUME tab' = tab \/ \E p \in {"ready", "failed"} : tab' = [tab EXCEPT ![t].pc = p],
             UNCHANGED <<owners, sharedWorkers>>
      PROVE  TabsOK'
  <2>1. CASE tab' = tab
    BY <1>2, <2>1 DEF TabsOK
  <2>2. ASSUME NEW p \in {"ready", "failed"}, tab' = [tab EXCEPT ![t].pc = p] PROVE TabsOK'
    <3> DEFINE x == [tab[t] EXCEPT !.pc = p]
    <3>1. tab[t] \in TabState /\ tab[t].via \in {"none", "shared", t}
      BY DEF TabsOK
    <3>2. x \in TabState /\ x.via = tab[t].via /\ tab' = [tab EXCEPT ![t] = x]
      BY <2>2, <3>1 DEF TabState
    <3> HIDE DEF x
    <3> QED
      BY <1>2, <3>1, <3>2, TabSet
  <2> QED
    BY <1>2, <2>1, <2>2
<1>3. CASE OpenTab(t)
  <2>1. SendHello(t, IF sharedWorkers THEN "shared" ELSE t) /\ sharedWorkers' = sharedWorkers
        /\ owners' = IF sharedWorkers THEN owners \cup {t} ELSE owners
    BY <1>3 DEF OpenTab
  <2>2. HelloOK' /\ tab' \in [Tabs -> TabState] /\ \A u \in Tabs : tab'[u].via \in {"none", "shared", u}
    BY <1>0, <1>1, <2>1
  <2> QED
    BY <2>1, <2>2 DEF TabsOK
<1>4. CASE HelloTimeout(t)
  <2>1. HelloRejected(t) /\ UNCHANGED <<sharedWorkers, owners>>
    BY <1>4 DEF HelloTimeout
  <2>2. CASE tab[t].via = "shared"
    <3>1. SendHello(t, t)
      BY <2>1, <2>2 DEF HelloRejected
    <3> QED
      BY <1>0, <1>1, <2>1, <3>1 DEF TabsOK
  <2>3. CASE tab[t].via # "shared"
    <3>1. tab' = [tab EXCEPT ![t].pc = "failed"] /\ hello' = hello
      BY <2>1, <2>3 DEF HelloRejected
    <3>2. HelloOK'
      BY <3>1 DEF HelloOK
    <3> QED
      BY <1>2, <2>1, <3>1, <3>2
  <2> QED
    BY <2>2, <2>3
<1>5. ASSUME NEW w \in Workers, hello[w][t] # "none",
             HandleHello(w, t) \/ AcquireLock(w, t) \/ AcquireHandles(w, t) \/ OpenDb(w, t)
               \/ OpenFails(w, t)
      PROVE  HelloOK' /\ TabsOK'
  <2>1. w \in {"shared", t}
    BY <1>5 DEF HelloOK
  <2>2. \E x \in Phases : (x = "lock" => w # "shared") /\ hello' = [hello EXCEPT ![w][t] = x]
    BY <1>5 DEF HandleHello, AcquireLock, AcquireHandles, OpenDb, OpenFails, FailHello, Greet,
       AnswerOk, AnswerMismatch, Phases
  <2>3. /\ tab' = tab \/ tab' = [tab EXCEPT ![t].pc = "ready"]
        /\ UNCHANGED <<owners, sharedWorkers>>
    BY <1>5 DEF HandleHello, AcquireLock, AcquireHandles, OpenDb, OpenFails, FailHello, Greet,
       AnswerOk, AnswerMismatch
  <2>4. TabsOK'
    BY <1>2, <2>3
  <2>5. HelloOK'
    BY <2>1, <2>2, HelloSet
  <2> QED
    BY <2>4, <2>5
<1>6. ASSUME NEW w \in Workers, SendHelloError(w, t) PROVE HelloOK' /\ TabsOK'
  <2> DEFINE answered == [hello EXCEPT ![w][t] = "none"]
  <2>1. UNCHANGED <<owners, sharedWorkers>>
    BY <1>6 DEF SendHelloError
  <2>2. CASE Waits(t, w) /\ w = "shared"
    <3>1. hello' = [answered EXCEPT ![t][t] = "sent"] /\ tab' = [tab EXCEPT ![t].via = t]
      BY <1>6, <2>2 DEF SendHelloError
    <3>2. /\ answered \in [Workers -> [Tabs -> Phases]]
          /\ \A v \in Workers, u \in Tabs : /\ answered[v][u] # "none" => v \in {"shared", u}
                                            /\ answered[v][u] = "lock" => v = u
      BY DEF HelloOK, Phases
    <3> HIDE DEF answered
    <3>3. HelloOK'
      BY <1>0, <3>1, <3>2 DEF HelloOK, Phases
    <3>4. TabsOK'
      <4> DEFINE x == [tab[t] EXCEPT !.via = t]
      <4>1. x \in TabState /\ x.via = t /\ tab' = [tab EXCEPT ![t] = x]
        BY <1>0, <3>1 DEF TabsOK, TabState
      <4> HIDE DEF x
      <4> QED
        BY <2>1, <4>1, TabSet
    <3> QED
      BY <3>3, <3>4
  <2>3. CASE ~(Waits(t, w) /\ w = "shared")
    <3>1. /\ hello' = [hello EXCEPT ![w][t] = "none"]
          /\ tab' = tab \/ tab' = [tab EXCEPT ![t].pc = "failed"]
      BY <1>6, <2>3 DEF SendHelloError
    <3> QED
      BY <1>2, <2>1, <3>1, HelloSet DEF Phases
  <2> QED
    BY <2>2, <2>3
<1>7. ASSUME NEW w \in Workers, WorkerStep(w, t) \/ OpenFails(w, t), ~SendHelloError(w, t)
      PROVE  hello[w][t] # "none"
  BY <1>7 DEF WorkerStep, HandleHello, AcquireLock, AcquireHandles, OpenDb, OpenFails
<1> QED
  BY <1>3, <1>4, <1>5, <1>6, <1>7 DEF Greeting, WorkerStep

\* A hello keeps the types.
LEMMA GreetingType ==
  ASSUME TypeOK, NEW t \in Tabs, Greeting(t)
  PROVE  TypeOK'
<1>0. TabsOK /\ WorkersOK /\ RowsOK /\ ReadersOK /\ UsedOK /\ HelloOK
  BY DEF TypeOK
<1>1. HelloOK' /\ TabsOK'
  BY <1>0, GreetingHello
<1>2. RowsOK' /\ ReadersOK'
  BY <1>0, GreetingFrame DEF RowsOK, ReadersOK, dataVars, readVars
<1>3. UsedOK'
  <2>1. CASE OpenTab(t)
    BY <1>0, <2>1, CountType DEF OpenTab
  <2>2. CASE \E w \in Workers : OpenFails(w, t)
    BY <1>0, <2>2, CountType DEF OpenFails
  <2>3. CASE HelloTimeout(t) \/ \E w \in Workers : WorkerStep(w, t)
    BY <1>0, <2>3 DEF HelloTimeout, WorkerStep, HandleHello, AcquireLock, AcquireHandles,
       OpenDb, SendHelloError, UsedOK
  <2> QED
    BY <2>1, <2>2, <2>3 DEF Greeting
<1>4. ctx' \in [Workers -> {"none", "open", "closed"}] /\ named' \in [Workers -> BOOLEAN]
  <2>1. CASE OpenTab(t) \/ HelloTimeout(t)
    BY <1>0, <2>1 DEF OpenTab, HelloTimeout, WorkersOK
  <2>2. ASSUME NEW w \in Workers, WorkerStep(w, t) \/ OpenFails(w, t)
        PROVE  /\ ctx' = ctx \/ ctx' = [ctx EXCEPT ![w] = "open"]
               /\ named' = named \/ \E b \in BOOLEAN : named' = [named EXCEPT ![w] = b]
    BY <2>2 DEF WorkerStep, HandleHello, AcquireLock, AcquireHandles, OpenDb, SendHelloError,
       OpenFails, FailHello
  <2> QED
    BY <1>0, <2>1, <2>2 DEF Greeting, WorkersOK
<1>5. lock' \in Tabs \cup {"none"} /\ handles' \in (Workers \X Tabs) \cup {NoOne}
  <2>1. CASE OpenTab(t) \/ HelloTimeout(t)
    BY <1>0, <2>1 DEF OpenTab, HelloTimeout, WorkersOK
  <2>2. ASSUME NEW w \in Workers, AcquireLock(w, t)
        PROVE  lock' \in Tabs \cup {"none"} /\ handles' = handles
    <3>1. w \in Tabs
      BY <1>0, <2>2 DEF AcquireLock, HelloOK
    <3> QED
      BY <2>2, <3>1 DEF AcquireLock
  <2>3. ASSUME NEW w \in Workers, AcquireHandles(w, t)
        PROVE  lock' \in {lock, "none"} /\ handles' \in {handles, <<w, t>>}
    BY <2>3 DEF AcquireHandles, FailHello
  <2>4. ASSUME NEW w \in Workers,
               HandleHello(w, t) \/ OpenDb(w, t) \/ SendHelloError(w, t) \/ OpenFails(w, t)
        PROVE  lock' \in {lock, "none"} /\ handles' = handles
    BY <2>4 DEF HandleHello, OpenDb, SendHelloError, OpenFails, FailHello
  <2> QED
    BY <1>0, <2>1, <2>2, <2>3, <2>4 DEF Greeting, WorkerStep, WorkersOK
<1> QED
  BY <1>1, <1>2, <1>3, <1>4, <1>5 DEF TypeOK, WorkersOK

\* No transaction is a transaction without rows.
LEMMA NoTxnType ==
  NoTxn \in [open : BOOLEAN, rows : SUBSET Rows] /\ NoTxn.rows = {} /\ NoTxn.open = FALSE
BY DEF NoTxn

\* What dies with a worker.
LEMMA WorkersDieType ==
  ASSUME HelloOK, WorkersOK, RowsOK, NEW W, WorkersDie(W)
  PROVE  /\ HelloOK' /\ WorkersOK'
         /\ txn' \in [open : BOOLEAN, rows : SUBSET Rows] /\ txn' \in {txn, NoTxn}
<1>1. HelloOK'
  BY DEF WorkersDie, HelloOK, Phases
<1>2. WorkersOK'
  <2>1. ctx' \in [Workers -> {"none", "open", "closed"}] /\ named' \in [Workers -> BOOLEAN]
    BY DEF WorkersDie, WorkersOK
  <2>2. lock' \in {lock, "none"} /\ handles' \in {handles, NoOne}
    BY DEF WorkersDie
  <2> QED
    BY <2>1, <2>2 DEF WorkersOK
<1>3. txn' \in {txn, NoTxn}
  BY DEF WorkersDie
<1> QED
  BY <1>1, <1>2, <1>3, NoTxnType DEF RowsOK

\* The rows of a rewrite that ends are a group.
LEMMA EndRewriteType ==
  ASSUME RowsOK, NEW t \in Tabs, EndRewrite(t)
  PROVE  /\ groups' = groups \cup {rewrite[t].rows} /\ groups' \subseteq SUBSET Rows
         /\ rewrite' = [rewrite EXCEPT ![t] = Idle]
         /\ rewrite' \in [Tabs -> [on : BOOLEAN, rows : SUBSET Rows]]
<1>1. rewrite[t].rows \in SUBSET Rows /\ Idle \in [on : BOOLEAN, rows : SUBSET Rows]
  BY DEF RowsOK, Idle
<1> HIDE DEF Idle
<1> QED
  BY <1>1 DEF EndRewrite, RowsOK

\* Closing keeps the types.
LEMMA ClosingType ==
  ASSUME TypeOK, NEW t \in Tabs, Closing(t)
  PROVE  TypeOK'
<1>0. TabsOK /\ HelloOK /\ WorkersOK /\ RowsOK /\ ReadersOK /\ UsedOK
  BY DEF TypeOK
<1>1. PICK W : WorkersDie(W)
  BY DEF Closing, Shutdown, CloseTab
<1>2. /\ ForgetClient(t) /\ UNCHANGED <<sharedWorkers, disk, acked, imported>>
      /\ owners' \subseteq owners /\ used.closes < MaxCloses /\ Count("closes")
  BY DEF Closing, Shutdown, CloseTab
<1>3. HelloOK' /\ WorkersOK' /\ txn' \in [open : BOOLEAN, rows : SUBSET Rows]
  BY <1>0, <1>1, WorkersDieType
<1>4. UsedOK'
  BY <1>0, <1>2, CountType
<1>5. RowsOK'
  BY <1>0, <1>2, <1>3, EndRewriteType DEF ForgetClient, RowsOK
<1>6. ReadersOK'
  BY <1>0, <1>2 DEF ForgetClient, ReadersOK
<1>7. TabsOK'
  <2>1. Closed \in TabState /\ Closed.via = "none"
    BY DEF Closed, TabState
  <2> HIDE DEF Closed
  <2> QED
    BY <1>0, <1>2, <2>1 DEF ForgetClient, TabsOK
<1> QED
  BY <1>3, <1>4, <1>5, <1>6, <1>7 DEF TypeOK

\* Reading keeps the types.
LEMMA ReadingType ==
  ASSUME TypeOK, NEW t \in Tabs, Reading(t)
  PROVE  TypeOK'
<1>1. Stored \in SUBSET Rows
  BY DEF Stored, TypeOK, RowsOK
<1>2. ReadersOK'
  <2>1. /\ watching' \subseteq watching \cup {t}
        /\ \E x \in {Stored, {}} : view' = [view EXCEPT ![t] = x]
        /\ dirty' = dirty \/ dirty' = [dirty EXCEPT ![t] = FALSE]
    BY DEF Reading, Query, Subscribe, Unsubscribe
  <2>2. ReadersOK
    BY DEF TypeOK
  <2>3. view' \in [Tabs -> SUBSET Rows]
    BY <1>1, <2>1, <2>2 DEF ReadersOK
  <2>4. dirty' \in [Tabs -> BOOLEAN]
    BY <2>1, <2>2 DEF ReadersOK
  <2>5. watching' \subseteq Tabs
    BY <2>1, <2>2 DEF ReadersOK
  <2> QED
    BY <2>3, <2>4, <2>5 DEF ReadersOK
<1>3. UNCHANGED <<sharedWorkers, tab, owners, rewrite, used, workerVars, dataVars>>
  BY DEF Reading, Query, Subscribe, Unsubscribe
<1>4. TabsOK' /\ HelloOK' /\ WorkersOK'
  BY <1>3 DEF TypeOK, TabsOK, HelloOK, WorkersOK, workerVars
<1>5. RowsOK' /\ UsedOK'
  BY <1>3 DEF TypeOK, RowsOK, UsedOK, dataVars
<1> QED
  BY <1>2, <1>4, <1>5 DEF TypeOK

\* What a write does: fresh rows go to the file, to the open transaction, or nowhere.
Writes(k) ==
  /\ k \in 1..2 /\ used.writes + k <= MaxWrites /\ Spend(k)
  /\ \/ disk' = disk \cup Fresh(k) /\ txn' = txn /\ ~txn.open /\ NotifyTables
     \/ disk' = disk /\ txn' = [txn EXCEPT !.rows = @ \cup Fresh(k)] /\ txn.open /\ NotifyTables
     \/ disk' = disk /\ txn' = txn /\ UNCHANGED dirty

\* Every step of Writing but the rewriter's ends writes fresh rows.
LEMMA WritingWrites ==
  ASSUME TypeOK, NEW t \in Tabs,
         Execute(t) \/ (\E fails \in BOOLEAN : Batch(t, fails)) \/ RewriteUpdate(t)
  PROVE  /\ \E k \in 1..2 : Writes(k)
         /\ UNCHANGED <<sharedWorkers, tab, owners, watching, view, imported, workerVars>>
<1>0. used.writes \in Nat /\ MaxWrites \in Nat
  BY EventStoreConstants DEF TypeOK, UsedOK
<1>1. CASE Execute(t) \/ RewriteUpdate(t)
  <2>1. /\ used.writes + 1 <= MaxWrites /\ Spend(1) /\ NotifyTables
        /\ disk' = RunExecute(disk, txn, Fresh(1)).disk
        /\ txn' = RunExecute(disk, txn, Fresh(1)).txn
    BY <1>0, <1>1 DEF Execute, RewriteUpdate
  <2>2. Writes(1)
    BY <2>1 DEF Writes, RunExecute
  <2> QED
    BY <1>1, <2>2 DEF Execute, RewriteUpdate
<1>2. ASSUME NEW fails \in BOOLEAN, Batch(t, fails) PROVE Writes(2)
  BY <1>2 DEF Batch, Writes, ExecuteStatements
<1> QED
  BY <1>1, <1>2 DEF Batch

\* Writing keeps the types.
LEMMA WritingType ==
  ASSUME TypeOK, NEW t \in Tabs, Writing(t)
  PROVE  TypeOK'
<1>0. TabsOK /\ HelloOK /\ WorkersOK /\ RowsOK /\ ReadersOK /\ UsedOK
  BY DEF TypeOK
<1>1. UNCHANGED <<sharedWorkers, tab, owners, watching, view, imported, workerVars>>
  <2>1. CASE Rewriting(t)
    BY <2>1 DEF Rewriting, RewriteBegin, RewriteUpdate, RewriteCommit, RewriteFails, readVars
  <2>2. CASE ~Rewriting(t)
    BY <2>2, WritingWrites DEF Writing
  <2> QED
    BY <2>1, <2>2
<1>2. TabsOK' /\ HelloOK' /\ WorkersOK'
  BY <1>0, <1>1 DEF TabsOK, HelloOK, WorkersOK, workerVars
<1>3. CASE Execute(t) \/ (\E fails \in BOOLEAN : Batch(t, fails)) \/ RewriteUpdate(t)
  <2>1. PICK k \in 1..2 : Writes(k)
    BY <1>3, WritingWrites
  <2>2. UsedOK' /\ Fresh(k) \in SUBSET Rows
    BY <1>0, <2>1, SpendType DEF Writes
  <2>3. disk' \subseteq Rows /\ txn' \in [open : BOOLEAN, rows : SUBSET Rows]
    BY <1>0, <2>1, <2>2 DEF Writes, RowsOK
  <2>4. ReadersOK'
    BY <1>0, <1>1, <2>1 DEF Writes, NotifyTables, ReadersOK
  <2>5. acked' \subseteq Rows /\ groups' \subseteq SUBSET Rows
    <3>1. CASE Execute(t) \/ RewriteUpdate(t)
      BY <1>0, <3>1 DEF Execute, RewriteUpdate, RowsOK
    <3>2. ASSUME NEW fails \in BOOLEAN, Batch(t, fails)
          PROVE  acked' \subseteq Rows /\ groups' \subseteq SUBSET Rows
      <4>1. Fresh(2) \in SUBSET Rows
        <5>1. used.writes + 2 <= MaxWrites /\ Spend(2)
          BY <3>2 DEF Batch
        <5> QED
          BY <1>0, <5>1, SpendType
      <4> QED
        BY <1>0, <3>2, <4>1 DEF Batch, RowsOK
    <3> QED
      BY <1>3, <3>1, <3>2
  <2>6. rewrite' \in [Tabs -> [on : BOOLEAN, rows : SUBSET Rows]]
    <3>1. CASE ~RewriteUpdate(t)
      BY <1>0, <1>3, <3>1 DEF Execute, Batch, RowsOK
    <3>2. CASE RewriteUpdate(t)
      <4>1. Fresh(1) \in SUBSET Rows
        <5>1. used.writes + 1 <= MaxWrites /\ Spend(1)
          BY <1>0, <3>2, EventStoreConstants DEF RewriteUpdate, UsedOK
        <5> QED
          BY <1>0, <5>1, SpendType
      <4> DEFINE x == [rewrite[t] EXCEPT !.rows = @ \cup Fresh(1)]
      <4>2. x \in [on : BOOLEAN, rows : SUBSET Rows]
        BY <1>0, <4>1 DEF RowsOK
      <4>3. rewrite' = [rewrite EXCEPT ![t] = x]
        BY <3>2 DEF RewriteUpdate
      <4> HIDE DEF x
      <4> QED
        BY <1>0, <4>2, <4>3 DEF RowsOK
    <3> QED
      BY <3>1, <3>2
  <2> QED
    BY <1>0, <1>1, <1>2, <2>2, <2>3, <2>4, <2>5, <2>6 DEF TypeOK, RowsOK
<1>4. CASE RewriteBegin(t) \/ RewriteCommit(t) \/ RewriteFails(t)
  <2>1. ReadersOK'
    BY <1>0, <1>4 DEF RewriteBegin, RewriteCommit, RewriteFails, readVars, ReadersOK
  <2>2. UsedOK'
    <3>1. CASE RewriteFails(t)
      BY <1>0, <3>1, CountType DEF RewriteFails
    <3>2. CASE ~RewriteFails(t)
      BY <1>0, <1>4, <3>2 DEF RewriteBegin, RewriteCommit, UsedOK
    <3> QED
      BY <3>1, <3>2
  <2>3. RowsOK'
    <3>1. CASE RewriteBegin(t)
      <4> DEFINE x == [rewrite[t] EXCEPT !.on = TRUE]
      <4>0. x \in [on : BOOLEAN, rows : SUBSET Rows]
        <5>1. rewrite[t] \in [on : BOOLEAN, rows : SUBSET Rows]
          BY <1>0 DEF RowsOK
        <5> QED
          BY <5>1
      <4>1. rewrite' = [rewrite EXCEPT ![t] = x]
        BY <3>1 DEF RewriteBegin
      <4> HIDE DEF x
      <4>2. txn' \in [open : BOOLEAN, rows : SUBSET Rows] /\ UNCHANGED <<disk, groups, acked>>
        BY <3>1 DEF RewriteBegin
      <4> QED
        BY <1>0, <1>1, <4>0, <4>1, <4>2 DEF RowsOK
    <3>2. CASE RewriteCommit(t) \/ RewriteFails(t)
      <4>1. EndRewrite(t) /\ txn' = NoTxn /\ acked' = acked
        BY <3>2 DEF RewriteCommit, RewriteFails
      <4>2. disk' \subseteq Rows
        BY <1>0, <3>2 DEF RewriteCommit, RewriteFails, RowsOK
      <4>3. /\ groups' \subseteq SUBSET Rows
            /\ rewrite' \in [Tabs -> [on : BOOLEAN, rows : SUBSET Rows]]
        BY <1>0, <4>1, EndRewriteType
      <4>4. txn' \in [open : BOOLEAN, rows : SUBSET Rows]
        BY <4>1, NoTxnType
      <4> QED
        BY <1>0, <1>1, <4>1, <4>2, <4>3, <4>4 DEF RowsOK
    <3> QED
      BY <1>4, <3>1, <3>2
  <2> QED
    BY <1>2, <2>1, <2>2, <2>3 DEF TypeOK
<1> QED
  BY <1>3, <1>4 DEF Writing, Rewriting

\* dbImportMain keeps the types; its rows have numbers no row had.
LEMMA ImportType ==
  ASSUME TypeOK, NEW t \in Tabs, ImportMain(t)
  PROVE  /\ TypeOK'
         /\ used.writes \in Nat /\ used'.writes \in Nat /\ used.writes <= used'.writes
         /\ \/ /\ acked' = {} /\ imported' = disk'
               /\ disk' \subseteq (used.writes + 1)..used'.writes
            \/ UNCHANGED <<disk, acked, imported>>
<1>0. used.writes \in Nat /\ used.faults \in Nat /\ MaxWrites \in Nat /\ MaxFaults \in Nat
  BY EventStoreConstants DEF TypeOK, UsedOK
<1>1. PICK k \in 0..1, fails \in BOOLEAN :
          /\ used.writes + k <= MaxWrites /\ (fails => used.faults < MaxFaults)
          /\ used' = [used EXCEPT !.writes = @ + k, !.faults = IF fails THEN @ + 1 ELSE @]
          /\ ctx' = IF fails THEN [ctx EXCEPT ![tab[t].via] = "closed"] ELSE ctx
          /\ \/ disk' = Fresh(k) /\ acked' = {} /\ imported' = Fresh(k)
             \/ fails /\ k = 0 /\ UNCHANGED <<disk, acked, imported>>
  BY DEF ImportMain
<1>2. /\ txn' = NoTxn
      /\ UNCHANGED <<sharedWorkers, tab, owners, hello, named, lock, handles, rewrite, groups,
                     readVars>>
  BY DEF ImportMain
<1>3. /\ used' \in [writes : 0..MaxWrites, opens : 0..MaxOpens, faults : 0..MaxFaults,
                    closes : 0..MaxCloses]
      /\ used'.writes = used.writes + k
  <2>1. used.writes + k \in 0..MaxWrites
    BY <1>0, <1>1
  <2>2. (IF fails THEN used.faults + 1 ELSE used.faults) \in 0..MaxFaults
    BY <1>0, <1>1 DEF TypeOK, UsedOK
  <2> QED
    BY <1>1, <2>1, <2>2 DEF TypeOK, UsedOK
<1>4. Fresh(k) = (used.writes + 1)..used'.writes /\ Fresh(k) \subseteq Rows
  BY <1>0, <1>1, <1>3 DEF Fresh, Rows
<1>5. RowsOK'
  BY <1>1, <1>2, <1>4 DEF TypeOK, RowsOK, NoTxn
<1>6. WorkersOK' /\ HelloOK' /\ TabsOK' /\ ReadersOK'
  BY <1>1, <1>2 DEF TypeOK, WorkersOK, HelloOK, TabsOK, ReadersOK, readVars
<1>7. used'.writes \in Nat /\ used.writes <= used'.writes
  BY <1>0, <1>1, <1>3
<1> QED
  BY <1>0, <1>1, <1>3, <1>4, <1>5, <1>6, <1>7 DEF TypeOK, UsedOK

\* Every step keeps the types.
LEMMA TypeNext ==
  ASSUME TypeOK, [Next]_vars
  PROVE  TypeOK'
<1>1. CASE UNCHANGED vars
  BY <1>1 DEF vars, TypeOK, TabsOK, HelloOK, WorkersOK, RowsOK, ReadersOK, UsedOK
<1> QED
  BY <1>1, Steps, GreetingType, ClosingType, ReadingType, WritingType, ImportType

\* The program starts typed.
LEMMA TypeInit == Init => TypeOK
<1> SUFFICES ASSUME Init PROVE TypeOK
  OBVIOUS
<1>1. TabsOK
  BY DEF Init, TabsOK, TabState, Closed
<1>2. HelloOK /\ WorkersOK
  BY DEF Init, HelloOK, WorkersOK, Phases
<1>3. RowsOK /\ ReadersOK
  BY DEF Init, RowsOK, ReadersOK, NoTxn, Idle
<1>4. UsedOK
  BY EventStoreConstants DEF Init, UsedOK
<1> QED
  BY <1>1, <1>2, <1>3, <1>4 DEF TypeOK

\* The types hold: in particular a tab is served by the shared worker or its own, and only
\* a dedicated worker waits for or holds the web lock.
THEOREM Typed == Spec => []TypeOK
BY TypeInit, TypeNext, PTL DEF Spec

-----------------------------------------------------------------------------
(* Who owns the file. *)

\* One worker has the file, a tab that is ready is served by it, and a tab that uses the
\* shared worker keeps it alive.
OwnerInv ==
  /\ \A w \in Workers : ctx[w] # "none" => handles[1] = w
  /\ \A w \in Workers, t \in Tabs : hello[w][t] = "open" => handles = <<w, t>>
  /\ \A t \in Tabs : tab[t].pc = "ready" => tab[t].via \in Workers /\ ctx[tab[t].via] # "none"
  /\ \A t \in Tabs : tab[t].pc # "closed" /\ tab[t].via = "shared" => t \in owners

\* A hello leaves a tab alone that is ready.
LEMMA GreetingKeepsReady ==
  ASSUME TabsOK, NEW t \in Tabs, Greeting(t), NEW u \in Tabs, tab[u].pc = "ready"
  PROVE  tab'[u] = tab[u]
<1>0. tab \in [Tabs -> TabState]
  BY DEF TabsOK
<1>1. CASE OpenTab(t) \/ HelloTimeout(t)
  <2>1. tab[t].pc # "ready" /\ \E x : tab' = [tab EXCEPT ![t] = x]
    BY <1>1 DEF OpenTab, HelloTimeout, HelloRejected, SendHello
  <2> QED
    BY <1>0, <2>1
<1>2. ASSUME NEW w \in Workers, WorkerStep(w, t) \/ OpenFails(w, t)
      PROVE  tab' = tab \/ (tab[t].pc = "hello" /\ \E x : tab' = [tab EXCEPT ![t] = x])
  BY <1>2 DEF WorkerStep, OpenFails, HandleHello, AcquireLock, AcquireHandles, OpenDb,
     SendHelloError, Greet, AnswerOk, AnswerMismatch, Waits
<1> QED
  BY <1>0, <1>1, <1>2 DEF Greeting

\* The file has one owner, and a tab is ready only if it is its worker.
LEMMA OwnerGives ==
  ASSUME TypeOK, OwnerInv
  PROVE  ServedByTheOwner
BY DEF ServedByTheOwner, OwnerInv

\* A hello takes the file only when no one has it, and a tab gets ready only when its
\* worker has it open.
LEMMA OwnerGreeting ==
  ASSUME TypeOK, OwnerInv, NEW t \in Tabs, Greeting(t)
  PROVE  OwnerInv'
<1>0. TabsOK /\ HelloOK /\ WorkersOK /\ tab \in [Tabs -> TabState]
  BY DEF TypeOK, TabsOK
<1>n. "none" \notin Workers /\ t \in Workers /\ "shared" \in Workers /\ "shared" # t
  BY EventStoreConstants DEF Workers
<1>k. TabsOK' /\ HelloOK'
  BY <1>0, GreetingHello
<1>1. CASE OpenTab(t)
  <2> DEFINE w == IF sharedWorkers THEN "shared" ELSE t
  <2>1. /\ tab' = [tab EXCEPT ![t] = [pc |-> "hello", via |-> w]]
        /\ hello' = [hello EXCEPT ![w][t] = "sent"]
        /\ owners' = IF sharedWorkers THEN owners \cup {t} ELSE owners
        /\ UNCHANGED <<ctx, handles>>
    BY <1>1 DEF OpenTab, SendHello
  <2>2. w = "shared" => t \in owners'
    BY <1>n, <2>1
  <2>3. owners \subseteq owners' /\ w \in Workers
    BY <1>n, <2>1
  <2> HIDE DEF w
  <2> QED
    BY <1>0, <2>1, <2>2, <2>3 DEF OwnerInv, HelloOK
<1>2. CASE HelloTimeout(t)
  <2>1. HelloRejected(t) /\ UNCHANGED <<owners, ctx, handles>> /\ tab[t].pc = "hello"
    BY <1>2 DEF HelloTimeout
  <2>2. CASE tab[t].via = "shared"
    <3>1. /\ tab' = [tab EXCEPT ![t] = [pc |-> "hello", via |-> t]]
          /\ hello' = [hello EXCEPT ![t][t] = "sent"]
      BY <2>1, <2>2 DEF HelloRejected, SendHello
    <3> QED
      BY <1>0, <1>n, <2>1, <3>1 DEF OwnerInv, HelloOK
  <2>3. CASE tab[t].via # "shared"
    <3>1. tab' = [tab EXCEPT ![t].pc = "failed"] /\ hello' = hello
      BY <2>1, <2>3 DEF HelloRejected
    <3>2. /\ \A u \in Tabs : u # t => tab'[u] = tab[u]
          /\ tab'[t].pc = "failed" /\ tab'[t].via = tab[t].via
      BY <1>0, <3>1 DEF TabState
    <3> QED
      BY <2>1, <2>3, <3>1, <3>2 DEF OwnerInv
  <2> QED
    BY <2>2, <2>3
<1>3. ASSUME NEW w \in Workers,
             HandleHello(w, t) \/ AcquireLock(w, t) \/ OpenFails(w, t) \/ SendHelloError(w, t)
      PROVE  OwnerInv'
  <2>1. UNCHANGED <<owners, ctx, handles>>
    BY <1>3 DEF HandleHello, AcquireLock, OpenFails, SendHelloError
  <2>2. \A v \in Workers, u \in Tabs : hello'[v][u] = "open" => hello[v][u] = "open"
    <3>1. CASE ~SendHelloError(w, t)
      <4>1. \E x \in Phases \ {"open"} : hello' = [hello EXCEPT ![w][t] = x]
        BY <1>3, <3>1 DEF HandleHello, AcquireLock, OpenFails, FailHello, Greet, AnswerOk,
           AnswerMismatch, Phases
      <4> QED
        BY <1>0, <4>1 DEF HelloOK
    <3>2. CASE SendHelloError(w, t)
      <4> DEFINE answered == [hello EXCEPT ![w][t] = "none"]
      <4>1. hello' = answered \/ hello' = [answered EXCEPT ![t][t] = "sent"]
        BY <3>2 DEF SendHelloError
      <4>2. answered \in [Workers -> [Tabs -> Phases]]
            /\ \A v \in Workers, u \in Tabs : answered[v][u] = "open" => hello[v][u] = "open"
        BY <1>0 DEF HelloOK, Phases
      <4> HIDE DEF answered
      <4> QED
        BY <1>n, <4>1, <4>2
    <3> QED
      BY <3>1, <3>2
  <2>3. \/ tab' = tab
        \/ Waits(t, w) /\ w # "shared" /\ tab' = [tab EXCEPT ![t].pc = "failed"]
        \/ Waits(t, w) /\ tab' = [tab EXCEPT ![t].via = t]
        \/ Waits(t, w) /\ ctx[w] # "none" /\ tab' = [tab EXCEPT ![t].pc = "ready"]
    <3>1. CASE HandleHello(w, t)
      BY <3>1 DEF HandleHello, Greet, AnswerOk, AnswerMismatch
    <3>2. CASE AcquireLock(w, t) \/ OpenFails(w, t)
      BY <3>2 DEF AcquireLock, OpenFails
    <3>3. CASE SendHelloError(w, t)
      BY <3>3 DEF SendHelloError
    <3> QED
      BY <1>3, <3>1, <3>2, <3>3
  <2>4. /\ \A u \in Tabs : u # t => tab'[u] = tab[u]
        /\ \/ tab'[t] = tab[t]
           \/ tab'[t].pc = "failed" /\ tab'[t].via # "shared"
           \/ tab'[t].pc = "hello" /\ tab'[t].via = t
           \/ tab'[t].pc = "ready" /\ tab'[t].via = w /\ ctx[w] # "none" /\ tab[t].pc # "closed"
              /\ tab[t].via = w
    <3>1. tab[t] \in TabState /\ (Waits(t, w) => tab[t].pc = "hello" /\ tab[t].via = w)
      BY <1>0 DEF Waits
    <3>2. CASE tab' = tab
      BY <3>2
    <3>3. CASE Waits(t, w) /\ w # "shared" /\ tab' = [tab EXCEPT ![t].pc = "failed"]
      BY <1>0, <3>1, <3>3 DEF TabState
    <3>4. CASE Waits(t, w) /\ tab' = [tab EXCEPT ![t].via = t]
      BY <1>0, <3>1, <3>4 DEF TabState
    <3>5. CASE Waits(t, w) /\ ctx[w] # "none" /\ tab' = [tab EXCEPT ![t].pc = "ready"]
      BY <1>0, <3>1, <3>5 DEF TabState
    <3> QED
      BY <2>3, <3>2, <3>3, <3>4, <3>5
  <2> QED
    BY <1>n, <2>1, <2>2, <2>4 DEF OwnerInv
<1>4. ASSUME NEW w \in Workers, AcquireHandles(w, t) PROVE OwnerInv'
  <2>1. UNCHANGED <<tab, owners, ctx>>
    BY <1>4 DEF AcquireHandles
  <2>2. CASE handles = NoOne
    <3>1. handles' = <<w, t>> /\ hello' = [hello EXCEPT ![w][t] = "open"]
      BY <1>4, <2>2 DEF AcquireHandles
    <3>2. \A v \in Workers : ctx[v] = "none"
      BY <1>n, <2>2 DEF OwnerInv, NoOne
    <3>3. \A v \in Workers, u \in Tabs : hello[v][u] # "open"
      BY <1>n, <2>2 DEF OwnerInv, NoOne
    <3> QED
      BY <1>0, <2>1, <3>1, <3>2, <3>3 DEF OwnerInv, HelloOK
  <2>3. CASE handles # NoOne
    <3>1. handles' = handles /\ hello' = [hello EXCEPT ![w][t] = "diagnose"]
      BY <1>4, <2>3 DEF AcquireHandles, FailHello
    <3> QED
      BY <1>0, <2>1, <3>1 DEF OwnerInv, HelloOK
  <2> QED
    BY <2>2, <2>3
<1>5. ASSUME NEW w \in Workers, OpenDb(w, t) PROVE OwnerInv'
  <2>1. /\ UNCHANGED <<owners, handles>> /\ ctx' = [ctx EXCEPT ![w] = "open"]
        /\ hello' = [hello EXCEPT ![w][t] = "none"] /\ hello[w][t] = "open"
        /\ tab' = tab \/ (Waits(t, w) /\ tab' = [tab EXCEPT ![t].pc = "ready"])
    BY <1>5 DEF OpenDb, Greet, AnswerOk, AnswerMismatch
  <2>2. handles[1] = w
    BY <2>1 DEF OwnerInv
  <2>3. /\ \A v \in Workers : ctx'[v] # "none" => v = w \/ ctx[v] # "none"
        /\ \A v \in Workers : ctx[v] # "none" => ctx'[v] # "none"
        /\ ctx'[w] # "none"
    BY <1>0, <2>1 DEF WorkersOK
  <2>4. \A v \in Workers, u \in Tabs : hello'[v][u] = "open" => hello[v][u] = "open"
    BY <1>0, <2>1 DEF HelloOK
  <2>5. /\ \A u \in Tabs : u # t => tab'[u] = tab[u]
        /\ \/ tab'[t] = tab[t]
           \/ tab'[t].pc = "ready" /\ tab'[t].via = w /\ tab[t].pc # "closed" /\ tab[t].via = w
    BY <1>0, <2>1 DEF Waits, TabState
  <2> QED
    BY <2>1, <2>2, <2>3, <2>4, <2>5 DEF OwnerInv
<1> QED
  BY <1>1, <1>2, <1>3, <1>4, <1>5 DEF Greeting, WorkerStep

\* The workers that die with a tab, or with its connection.
DyingOf(t) == IF Shutdown(t) THEN {tab[t].via} \ {"shared"}
              ELSE {t} \cup IF owners \subseteq {t} THEN {"shared"} ELSE {}

\* The worker of another tab that is ready does not die.
LEMMA OthersLive ==
  ASSUME TypeOK, OwnerInv, NEW t \in Tabs, Closing(t)
  PROVE  /\ WorkersDie(DyingOf(t))
         /\ \A u \in Tabs : u # t /\ tab[u].pc = "ready" => tab[u].via \notin DyingOf(t)
<1>1. WorkersDie(DyingOf(t))
  BY DEF Closing, DyingOf, Shutdown, CloseTab
<1>2. ASSUME NEW u \in Tabs, u # t, tab[u].pc = "ready" PROVE tab[u].via \notin DyingOf(t)
  <2>1. tab[u].via \in {"shared", u} /\ tab[t].via \in {"none", "shared", t} /\ u # "none"
    BY <1>2, EventStoreConstants DEF TypeOK, TabsOK, OwnerInv, Workers
  <2>2. tab[u].via = "shared" => u \in owners
    BY <1>2 DEF OwnerInv
  <2>3. "shared" # u /\ "shared" # t
    BY EventStoreConstants
  <2> QED
    BY <1>2, <2>1, <2>2, <2>3 DEF DyingOf
<1> QED
  BY <1>1, <1>2

\* A tab that closes takes only its own worker, or a worker nobody uses any more.
LEMMA OwnerClosing ==
  ASSUME TypeOK, OwnerInv, NEW t \in Tabs, Closing(t)
  PROVE  OwnerInv'
<1> DEFINE W == DyingOf(t)
<1>1. WorkersDie(W) /\ \A u \in Tabs : u # t /\ tab[u].pc = "ready" => tab[u].via \notin W
  BY OthersLive
<1> HIDE DEF W
<1>2. tab' = [tab EXCEPT ![t] = Closed] /\ owners \ {t} \subseteq owners'
  BY DEF Closing, Shutdown, CloseTab, ForgetClient
<1>3. tab'[t].pc = "closed" /\ \A u \in Tabs : u # t => tab'[u] = tab[u]
  BY <1>2 DEF Closed, TypeOK, TabsOK
<1>4. /\ \A w \in Workers : ctx'[w] # "none" => w \notin W /\ ctx[w] # "none"
      /\ \A w \in Workers : w \notin W => ctx'[w] = ctx[w]
      /\ \A w \in Workers, u \in Tabs : hello'[w][u] = "open" => w \notin W /\ hello[w][u] = "open"
  BY <1>1 DEF WorkersDie
<1>5. handles[1] \notin W => handles' = handles
  BY <1>1 DEF WorkersDie
<1>6. /\ \A w \in Workers : ctx'[w] # "none" => handles'[1] = w
      /\ \A w \in Workers, u \in Tabs : hello'[w][u] = "open" => handles' = <<w, u>>
  <2>1. \A w \in Workers : ctx[w] # "none" /\ w \notin W => handles[1] = w /\ handles' = handles
    BY <1>5 DEF OwnerInv
  <2>2. \A w \in Workers, u \in Tabs : hello[w][u] = "open" /\ w \notin W
            => handles = <<w, u>> /\ handles' = handles
    BY <1>5 DEF OwnerInv
  <2> QED
    BY <1>4, <2>1, <2>2
<1>7. \A u \in Tabs : tab'[u].pc = "ready" => tab'[u].via \in Workers /\ ctx'[tab'[u].via] # "none"
  BY <1>1, <1>3, <1>4 DEF OwnerInv
<1>8. \A u \in Tabs : tab'[u].pc # "closed" /\ tab'[u].via = "shared" => u \in owners'
  BY <1>2, <1>3 DEF OwnerInv
<1> QED
  BY <1>6, <1>7, <1>8 DEF OwnerInv

\* A restore closes the connection of the tab's own worker, which keeps the file.
LEMMA OwnerImport ==
  ASSUME TypeOK, OwnerInv, NEW t \in Tabs, ImportMain(t)
  PROVE  OwnerInv'
<1>1. /\ UNCHANGED <<tab, owners, hello, handles>>
      /\ ctx' = ctx \/ ctx' = [ctx EXCEPT ![tab[t].via] = "closed"]
      /\ tab[t].pc = "ready"
  BY DEF ImportMain, Serves
<1>2. tab[t].via \in Workers /\ ctx[tab[t].via] # "none"
  BY <1>1 DEF OwnerInv
<1>3. \A w \in Workers : ctx'[w] # "none" <=> ctx[w] # "none"
  BY <1>1, <1>2 DEF TypeOK, WorkersOK
<1> QED
  BY <1>1, <1>3 DEF OwnerInv

\* The file keeps its owner.
LEMMA OwnerNext ==
  ASSUME TypeOK, OwnerInv, [Next]_vars
  PROVE  OwnerInv'
<1>1. ASSUME NEW t \in Tabs, Reading(t) \/ Writing(t)
      PROVE  UNCHANGED <<tab, owners, hello, ctx, handles>>
  BY <1>1 DEF Reading, Writing, Rewriting, Query, Subscribe, Unsubscribe, Execute, Batch,
     RewriteBegin, RewriteUpdate, RewriteCommit, RewriteFails, workerVars
<1>2. CASE UNCHANGED <<tab, owners, hello, ctx, handles>>
  BY <1>2 DEF OwnerInv
<1>3. CASE UNCHANGED vars
  BY <1>2, <1>3 DEF vars
<1> QED
  BY <1>1, <1>2, <1>3, Steps, OwnerGreeting, OwnerClosing, OwnerImport

\* At first nobody has the file.
LEMMA OwnerInit == Init => OwnerInv
BY DEF Init, OwnerInv, Closed

\* Whatever hellos time out, fail or answer late, and whatever tabs close, a tab whose
\* createWebSqliteDb returned is served by the only worker that has the file open.
THEOREM TabsAreServed == Spec => []ServedByTheOwner
<1>1. Init => TypeOK /\ OwnerInv
  BY TypeInit, OwnerInit
<1>2. TypeOK /\ OwnerInv /\ [Next]_vars => (TypeOK /\ OwnerInv)'
  BY TypeNext, OwnerNext
<1>3. TypeOK /\ OwnerInv => ServedByTheOwner
  BY OwnerGives
<1> QED
  BY <1>1, <1>2, <1>3, PTL DEF Spec

-----------------------------------------------------------------------------
(* What is in the file. *)

\* Rows have numbers that were given out; rows written together are together in the file
\* and together in the transaction; what one rewriter wrote is in the open transaction,
\* which only one rewriter has.
Written == 1..used.writes
RowsAreWritten ==
  disk \subseteq Written /\ txn.rows \subseteq Written /\ \A g \in groups : g \subseteq Written
TxnInv == txn.rows \cap disk = {} /\ (~txn.open => txn.rows = {})
GroupsInv ==
  \A g \in groups : /\ g \subseteq disk \/ g \cap disk = {}
                    /\ g \subseteq txn.rows \/ g \cap txn.rows = {}
RewriteInv ==
  /\ \A t \in Tabs : rewrite[t].on =>
         tab[t].pc = "ready" /\ txn.open /\ rewrite[t].rows \subseteq txn.rows
  /\ \A t \in Tabs : ~rewrite[t].on => rewrite[t].rows = {}
  /\ \A t, u \in Tabs : rewrite[t].on /\ rewrite[u].on => t = u
RowInv == RowsAreWritten /\ TxnInv /\ GroupsInv /\ RewriteInv /\ AckedBatchIsDurable

\* What the rewriter wrote counts as a group that is not in the file.
LEMMA RowGives ==
  ASSUME RowInv
  PROVE  BatchesAreAtomic
<1>1. ASSUME NEW t \in Tabs PROVE rewrite[t].rows \subseteq txn.rows
  BY DEF RowInv, RewriteInv
<1>2. ASSUME NEW t \in Tabs PROVE rewrite[t].rows \cap disk = {}
  BY <1>1 DEF RowInv, TxnInv
<1> QED
  BY <1>2 DEF BatchesAreAtomic, StoredTogether, RowInv, GroupsInv

\* A hello changes no row and leaves a tab that rewrites ready.
LEMMA RowGreeting ==
  ASSUME TypeOK, RowInv, NEW t \in Tabs, Greeting(t)
  PROVE  RowInv'
<1>1. UNCHANGED <<disk, txn, groups, acked, rewrite>>
  BY GreetingFrame DEF dataVars
<1>2. \A u \in Tabs : tab[u].pc = "ready" => tab'[u].pc = "ready"
  BY GreetingKeepsReady DEF TypeOK
<1>3. used'.writes = used.writes
  <2>1. CASE OpenTab(t)
    BY <2>1, CountType DEF OpenTab, TypeOK
  <2>2. CASE \E w \in Workers : OpenFails(w, t)
    BY <2>2, CountType DEF OpenFails, TypeOK
  <2>3. CASE HelloTimeout(t) \/ \E w \in Workers : WorkerStep(w, t)
    BY <2>3 DEF HelloTimeout, WorkerStep, HandleHello, AcquireLock, AcquireHandles, OpenDb,
       SendHelloError
  <2> QED
    BY <2>1, <2>2, <2>3 DEF Greeting
<1>4. RewriteInv'
  BY <1>1, <1>2 DEF RowInv, RewriteInv
<1>5. (RowsAreWritten /\ TxnInv /\ GroupsInv /\ AckedBatchIsDurable)'
  BY <1>1, <1>3 DEF RowInv, RowsAreWritten, Written, TxnInv, GroupsInv, AckedBatchIsDurable
<1> QED
  BY <1>4, <1>5 DEF RowInv

\* A rewriter that ends, whatever becomes of its rows, leaves the others idle.
LEMMA EndRewriteInv ==
  ASSUME TypeOK, RowInv, NEW t \in Tabs, EndRewrite(t)
  PROVE  /\ rewrite'[t].on = FALSE /\ rewrite'[t].rows = {}
         /\ \A u \in Tabs : u # t => rewrite'[u] = rewrite[u]
         /\ rewrite[t].rows \subseteq txn.rows
         /\ groups' = groups \cup {rewrite[t].rows}
<1>1. RowsOK /\ RewriteInv
  BY DEF TypeOK, RowInv
<1>2. groups' = groups \cup {rewrite[t].rows} /\ rewrite' = [rewrite EXCEPT ![t] = Idle]
  BY <1>1, EndRewriteType
<1>3. Idle.on = FALSE /\ Idle.rows = {}
  BY DEF Idle
<1>4. rewrite[t].rows \subseteq txn.rows
  BY <1>1 DEF RewriteInv
<1> HIDE DEF Idle
<1> QED
  BY <1>1, <1>2, <1>3, <1>4 DEF RowsOK

\* A tab that closes leaves another tab's transaction alone: the worker that has it lives.
LEMMA RowClosing ==
  ASSUME TypeOK, OwnerInv, RowInv, NEW t \in Tabs, Closing(t)
  PROVE  RowInv'
<1> DEFINE W == DyingOf(t)
<1>1. WorkersDie(W) /\ \A u \in Tabs : u # t /\ tab[u].pc = "ready" => tab[u].via \notin W
  BY OthersLive
<1> HIDE DEF W
<1>2. /\ tab' = [tab EXCEPT ![t] = Closed] /\ EndRewrite(t)
      /\ UNCHANGED <<disk, acked>> /\ used.closes < MaxCloses /\ Count("closes")
  BY DEF Closing, Shutdown, CloseTab, ForgetClient
<1>3. used'.writes = used.writes
  BY <1>2, CountType DEF TypeOK
<1>4. /\ rewrite'[t].on = FALSE /\ rewrite'[t].rows = {}
      /\ \A u \in Tabs : u # t => rewrite'[u] = rewrite[u]
      /\ rewrite[t].rows \subseteq txn.rows
      /\ groups' = groups \cup {rewrite[t].rows}
  BY <1>2, EndRewriteInv
<1>5. txn' = txn \/ txn' = NoTxn
  BY <1>1 DEF WorkersDie
<1>6. ASSUME NEW u \in Tabs, u # t, tab[u].pc = "ready" PROVE txn' = txn
  <2>1. tab[u].via \in Workers /\ ctx[tab[u].via] # "none" /\ tab[u].via \notin W
    BY <1>1, <1>6 DEF OwnerInv
  <2>2. W \subseteq Workers \cup {"none"}
    BY DEF W, DyingOf, TypeOK, TabsOK, TabState, Workers
  <2>3. handles[1] = tab[u].via
    BY <2>1 DEF OwnerInv
  <2>4. \A w \in W \cap Workers : ctx[w] = "none"
    BY <2>1, <2>3 DEF OwnerInv
  <2>5. "none" \notin W
    <3>1. CASE Shutdown(t)
      <4>1. tab[t].via \in Workers
        BY <3>1 DEF Shutdown, OwnerInv
      <4> QED
        BY <3>1, <4>1, EventStoreConstants DEF W, DyingOf, Workers
    <3>2. CASE ~Shutdown(t)
      BY <3>2, EventStoreConstants DEF W, DyingOf
    <3> QED
      BY <3>1, <3>2
  <2> QED
    BY <1>1, <2>2, <2>4, <2>5 DEF WorkersDie
<1>7. \A u \in Tabs : u # t => tab'[u] = tab[u]
  BY <1>2 DEF TypeOK, TabsOK
<1>8. RewriteInv'
  <2>1. ASSUME NEW u \in Tabs, rewrite'[u].on
        PROVE  u # t /\ rewrite[u].on /\ tab'[u].pc = "ready" /\ txn'.open
               /\ rewrite'[u].rows \subseteq txn'.rows
    <3>1. u # t /\ rewrite[u].on /\ rewrite'[u] = rewrite[u] /\ tab'[u] = tab[u]
      BY <1>4, <1>7, <2>1
    <3>2. tab[u].pc = "ready" /\ txn.open /\ rewrite[u].rows \subseteq txn.rows
      BY <3>1 DEF RowInv, RewriteInv
    <3>3. txn' = txn
      BY <1>6, <3>1, <3>2
    <3> QED
      BY <3>1, <3>2, <3>3
  <2>2. ASSUME NEW u \in Tabs, ~rewrite'[u].on PROVE rewrite'[u].rows = {}
    BY <1>4, <2>2 DEF RowInv, RewriteInv
  <2>3. ASSUME NEW u \in Tabs, NEW v \in Tabs, rewrite'[u].on, rewrite'[v].on PROVE u = v
    BY <2>1, <2>3 DEF RowInv, RewriteInv
  <2> QED
    BY <2>1, <2>2, <2>3 DEF RewriteInv
<1>9. (RowsAreWritten /\ TxnInv /\ AckedBatchIsDurable)'
  <2>1. rewrite[t].rows \subseteq Written
    BY <1>4 DEF RowInv, RowsAreWritten
  <2> QED
    BY <1>2, <1>3, <1>4, <1>5, <2>1, NoTxnType
       DEF RowInv, RowsAreWritten, Written, TxnInv, AckedBatchIsDurable
<1>10. GroupsInv'
  <2>1. \A g \in groups' : /\ g \subseteq disk \/ g \cap disk = {}
                           /\ g \subseteq txn.rows \/ g \cap txn.rows = {}
    BY <1>4 DEF RowInv, GroupsInv, TxnInv
  <2> QED
    BY <1>2, <1>5, <2>1, NoTxnType DEF GroupsInv
<1> QED
  BY <1>8, <1>9, <1>10 DEF RowInv

\* Reading changes no row.
LEMMA RowReading ==
  ASSUME RowInv, UNCHANGED <<tab, rewrite, used, dataVars>>
  PROVE  RowInv'
BY DEF RowInv, RowsAreWritten, Written, TxnInv, GroupsInv, RewriteInv, AckedBatchIsDurable,
   dataVars

\* Fresh rows are in no group, in no transaction and not in the file.
LEMMA RowWrites ==
  ASSUME TypeOK, RowsAreWritten, TxnInv, GroupsInv, NEW k \in 1..2, Writes(k)
  PROVE  /\ disk' \subseteq Written' /\ txn'.rows \subseteq Written' /\ TxnInv'
         /\ disk \subseteq disk' /\ txn.rows \subseteq txn'.rows /\ txn'.open = txn.open
         /\ Fresh(k) \subseteq Written' /\ Written \subseteq Written'
         /\ \A g \in groups \cup {Fresh(k)} : /\ g \subseteq disk' \/ g \cap disk' = {}
                                              /\ g \subseteq txn'.rows \/ g \cap txn'.rows = {}
<1>1. /\ Fresh(k) \cap Written = {} /\ Fresh(k) \subseteq Written' /\ Written \subseteq Written'
  BY SpendType DEF Writes, Written, TypeOK
<1>2. \/ disk' = disk \cup Fresh(k) /\ txn' = txn /\ ~txn.open
      \/ disk' = disk /\ txn'.rows = txn.rows \cup Fresh(k) /\ txn'.open = txn.open /\ txn.open
      \/ disk' = disk /\ txn' = txn
  BY DEF Writes, TypeOK, RowsOK
<1>3. /\ Fresh(k) \cap disk = {} /\ Fresh(k) \cap txn.rows = {}
      /\ \A g \in groups : Fresh(k) \cap g = {}
  BY <1>1 DEF RowsAreWritten
<1>4. disk' \subseteq Written' /\ txn'.rows \subseteq Written' /\ TxnInv'
  BY <1>1, <1>2, <1>3 DEF RowsAreWritten, TxnInv
<1>5. ASSUME NEW g \in groups \cup {Fresh(k)}
      PROVE  /\ g \subseteq disk' \/ g \cap disk' = {}
             /\ g \subseteq txn'.rows \/ g \cap txn'.rows = {}
  <2>1. CASE g = Fresh(k)
    BY <1>2, <1>3, <2>1
  <2>2. CASE g \in groups
    BY <1>2, <1>3, <2>2 DEF GroupsInv
  <2> QED
    BY <2>1, <2>2
<1> QED
  BY <1>1, <1>2, <1>4, <1>5

\* A write keeps batches together: a batch inside a transaction is refused whole, and what
\* the rewriter writes goes to its transaction.
LEMMA RowWriting ==
  ASSUME TypeOK, RowInv, NEW t \in Tabs,
         Execute(t) \/ (\E fails \in BOOLEAN : Batch(t, fails)) \/ RewriteUpdate(t)
  PROVE  RowInv'
<1>0. RowsAreWritten /\ TxnInv /\ GroupsInv /\ RewriteInv /\ acked \subseteq disk
  BY DEF RowInv, AckedBatchIsDurable
<1>t. tab' = tab
  BY WritingWrites
<1>1. CASE Execute(t)
  <2>1. Writes(1) /\ UNCHANGED <<rewrite, groups, acked>>
    <3>1. used.writes + 1 <= MaxWrites
      BY <1>1, EventStoreConstants DEF Execute, TypeOK, UsedOK
    <3> QED
      BY <1>1, <3>1 DEF Execute, Writes, RunExecute
  <2>2. /\ disk' \subseteq Written' /\ txn'.rows \subseteq Written' /\ TxnInv'
        /\ disk \subseteq disk' /\ txn.rows \subseteq txn'.rows /\ txn'.open = txn.open
        /\ Written \subseteq Written'
        /\ \A g \in groups : /\ g \subseteq disk' \/ g \cap disk' = {}
                             /\ g \subseteq txn'.rows \/ g \cap txn'.rows = {}
    BY <1>0, <2>1, RowWrites
  <2>3. RewriteInv'
    BY <1>0, <1>t, <2>1, <2>2 DEF RewriteInv
  <2> QED
    BY <1>0, <2>1, <2>2, <2>3 DEF RowInv, RowsAreWritten, GroupsInv, AckedBatchIsDurable
<1>2. ASSUME NEW fails \in BOOLEAN, Batch(t, fails) PROVE RowInv'
  <2>1. Writes(2) /\ rewrite' = rewrite /\ groups' = groups \cup {Fresh(2)}
        /\ (acked' = acked \/ (acked' = acked \cup Fresh(2) /\ disk' = disk \cup Fresh(2)))
    BY <1>2 DEF Batch, Writes, ExecuteStatements
  <2>2. /\ disk' \subseteq Written' /\ txn'.rows \subseteq Written' /\ TxnInv'
        /\ disk \subseteq disk' /\ txn.rows \subseteq txn'.rows /\ txn'.open = txn.open
        /\ Fresh(2) \subseteq Written' /\ Written \subseteq Written'
        /\ \A g \in groups' : /\ g \subseteq disk' \/ g \cap disk' = {}
                              /\ g \subseteq txn'.rows \/ g \cap txn'.rows = {}
    BY <1>0, <2>1, RowWrites
  <2>3. RewriteInv'
    BY <1>0, <1>t, <2>1, <2>2 DEF RewriteInv
  <2>4. RowsAreWritten' /\ acked' \subseteq disk'
    BY <1>0, <2>1, <2>2 DEF RowsAreWritten
  <2> QED
    BY <2>2, <2>3, <2>4 DEF RowInv, GroupsInv, AckedBatchIsDurable
<1>3. CASE RewriteUpdate(t)
  <2>1. Writes(1) /\ UNCHANGED <<groups, acked>> /\ rewrite[t].on
    <3>1. used.writes + 1 <= MaxWrites
      BY <1>3, EventStoreConstants DEF RewriteUpdate, TypeOK, UsedOK
    <3> QED
      BY <1>3, <3>1 DEF RewriteUpdate, Writes, RunExecute
  <2>2. /\ disk' \subseteq Written' /\ txn'.rows \subseteq Written' /\ TxnInv'
        /\ disk \subseteq disk' /\ txn.rows \subseteq txn'.rows /\ txn'.open = txn.open
        /\ Written \subseteq Written'
        /\ \A g \in groups : /\ g \subseteq disk' \/ g \cap disk' = {}
                             /\ g \subseteq txn'.rows \/ g \cap txn'.rows = {}
    BY <1>0, <2>1, RowWrites
  <2>3. Fresh(1) \subseteq txn'.rows
    <3>1. txn.open
      BY <1>0, <2>1 DEF RewriteInv
    <3>2. txn' = [txn EXCEPT !.rows = @ \cup Fresh(1)]
      BY <1>3, <3>1 DEF RewriteUpdate, RunExecute
    <3> QED
      BY <3>2 DEF TypeOK, RowsOK
  <2>4. /\ \A u \in Tabs : rewrite'[u].on = rewrite[u].on
        /\ \A u \in Tabs : u # t => rewrite'[u] = rewrite[u]
        /\ rewrite'[t].rows = rewrite[t].rows \cup Fresh(1)
    BY <1>3 DEF RewriteUpdate, TypeOK, RowsOK
  <2>5. RewriteInv'
    <3>1. ASSUME NEW u \in Tabs, rewrite'[u].on
          PROVE  tab'[u].pc = "ready" /\ txn'.open /\ rewrite'[u].rows \subseteq txn'.rows
      BY <1>0, <1>t, <2>2, <2>3, <2>4, <3>1 DEF RewriteInv
    <3>2. ASSUME NEW u \in Tabs, ~rewrite'[u].on PROVE rewrite'[u].rows = {}
      BY <1>0, <2>1, <2>4, <3>2 DEF RewriteInv
    <3> QED
      BY <1>0, <2>4, <3>1, <3>2 DEF RewriteInv
  <2> QED
    BY <1>0, <2>1, <2>2, <2>5 DEF RowInv, RowsAreWritten, GroupsInv, AckedBatchIsDurable
<1> QED
  BY <1>1, <1>2, <1>3

\* BEGIN finds no transaction, so no other rewriter runs; COMMIT and ROLLBACK end the
\* only one, with all of its rows.
LEMMA RowRewriting ==
  ASSUME TypeOK, RowInv, NEW t \in Tabs, RewriteBegin(t) \/ RewriteCommit(t) \/ RewriteFails(t)
  PROVE  RowInv'
<1>0. RowsAreWritten /\ TxnInv /\ GroupsInv /\ RewriteInv /\ acked \subseteq disk
  BY DEF RowInv, AckedBatchIsDurable
<1>1. tab' = tab /\ acked' = acked /\ used'.writes = used.writes
  <2>1. CASE RewriteFails(t)
    BY <2>1, CountType DEF RewriteFails, TypeOK
  <2> QED
    BY <2>1 DEF RewriteBegin, RewriteCommit
<1>2. CASE RewriteBegin(t)
  <2>1. /\ ~txn.open /\ tab[t].pc = "ready" /\ UNCHANGED <<disk, groups>>
        /\ txn'.open /\ txn'.rows = {} /\ txn.rows = {}
    BY <1>0, <1>2 DEF RewriteBegin, Serves, TxnInv
  <2>2. \A u \in Tabs : ~rewrite[u].on /\ rewrite[u].rows = {}
    BY <1>0, <2>1 DEF RewriteInv
  <2>3. /\ \A u \in Tabs : rewrite'[u].on => u = t
        /\ \A u \in Tabs : rewrite'[u].rows = {}
    BY <1>2, <2>2 DEF RewriteBegin, TypeOK, RowsOK
  <2>4. RewriteInv'
    BY <1>1, <2>1, <2>3 DEF RewriteInv
  <2> QED
    BY <1>0, <1>1, <2>1, <2>4
       DEF RowInv, RowsAreWritten, Written, TxnInv, GroupsInv, AckedBatchIsDurable
<1>3. CASE RewriteCommit(t) \/ RewriteFails(t)
  <2>1. /\ EndRewrite(t) /\ rewrite[t].on /\ txn' = NoTxn
        /\ disk' = disk \/ disk' = disk \cup txn.rows
    BY <1>3 DEF RewriteCommit, RewriteFails
  <2>2. txn'.rows = {}
    BY <2>1, NoTxnType
  <2>3. /\ rewrite'[t].on = FALSE /\ rewrite'[t].rows = {}
        /\ \A u \in Tabs : u # t => rewrite'[u] = rewrite[u]
        /\ rewrite[t].rows \subseteq txn.rows
        /\ groups' = groups \cup {rewrite[t].rows}
    BY <2>1, EndRewriteInv
  <2>4. \A u \in Tabs : rewrite'[u].on = FALSE /\ rewrite'[u].rows = {}
    <3>1. \A u \in Tabs : u # t => ~rewrite[u].on /\ rewrite[u].rows = {}
      BY <1>0, <2>1 DEF RewriteInv
    <3> QED
      BY <2>3, <3>1 DEF TypeOK, RowsOK
  <2>5. RewriteInv'
    BY <2>4 DEF RewriteInv
  <2>6. GroupsInv'
    <3>1. ASSUME NEW g \in groups' PROVE g \subseteq disk' \/ g \cap disk' = {}
      <4>1. CASE g \in groups
        BY <1>0, <2>1, <4>1 DEF GroupsInv
      <4>2. CASE g = rewrite[t].rows
        BY <1>0, <2>1, <2>3, <4>2 DEF TxnInv
      <4> QED
        BY <2>3, <4>1, <4>2
    <3> QED
      BY <2>2, <3>1 DEF GroupsInv
  <2>7. RowsAreWritten' /\ TxnInv' /\ acked' \subseteq disk'
    BY <1>0, <1>1, <2>1, <2>2, <2>3 DEF RowsAreWritten, Written, TxnInv
  <2> QED
    BY <2>5, <2>6, <2>7 DEF RowInv, AckedBatchIsDurable
<1> QED
  BY <1>2, <1>3

\* A restore leaves the file or replaces its rows by new ones, and nobody rewrites meanwhile.
LEMMA RowImport ==
  ASSUME TypeOK, RowInv, NEW t \in Tabs, ImportMain(t)
  PROVE  RowInv'
<1>1. /\ txn' = NoTxn /\ UNCHANGED <<tab, rewrite, groups>> /\ ~rewrite[t].on
      /\ \A u \in Tabs \ {t} : tab[u].pc = "closed"
  BY DEF ImportMain
<1>2. /\ used.writes \in Nat /\ used'.writes \in Nat /\ used.writes <= used'.writes
      /\ \/ acked' = {} /\ disk' \subseteq (used.writes + 1)..used'.writes
         \/ UNCHANGED <<disk, acked>>
  BY ImportType
<1>3. \A u \in Tabs : ~rewrite[u].on /\ rewrite[u].rows = {}
  BY <1>1 DEF RowInv, RewriteInv
<1>4. RewriteInv'
  BY <1>1, <1>3 DEF RewriteInv
<1>5. txn'.rows = {}
  BY <1>1, NoTxnType
<1>6. /\ Written \subseteq Written'
      /\ ((used.writes + 1)..used'.writes) \subseteq Written'
      /\ Written \cap ((used.writes + 1)..used'.writes) = {}
  BY <1>2 DEF Written
<1>7. RowsAreWritten' /\ TxnInv' /\ AckedBatchIsDurable'
  BY <1>1, <1>2, <1>5, <1>6 DEF RowInv, RowsAreWritten, TxnInv, AckedBatchIsDurable
<1>8. GroupsInv'
  <2>1. ASSUME NEW g \in groups PROVE g \subseteq disk' \/ g \cap disk' = {}
    BY <1>2, <1>6, <2>1 DEF RowInv, RowsAreWritten, GroupsInv
  <2> QED
    BY <1>1, <1>5, <2>1 DEF GroupsInv
<1> QED
  BY <1>4, <1>7, <1>8 DEF RowInv

\* Every step keeps the rows.
LEMMA RowNext ==
  ASSUME TypeOK, OwnerInv, RowInv, [Next]_vars
  PROVE  RowInv'
<1>1. CASE UNCHANGED vars
  BY <1>1, RowReading DEF vars, dataVars
<1>2. ASSUME NEW t \in Tabs, Reading(t) PROVE RowInv'
  <2>1. UNCHANGED <<tab, rewrite, used, dataVars>>
    BY <1>2 DEF Reading, Query, Subscribe, Unsubscribe
  <2> QED
    BY <2>1, RowReading
<1>3. ASSUME NEW t \in Tabs, Writing(t) PROVE RowInv'
  BY <1>3, RowWriting, RowRewriting DEF Writing, Rewriting
<1> QED
  BY <1>1, <1>2, <1>3, Steps, RowGreeting, RowClosing, RowImport

\* At first there are no rows.
LEMMA RowInit == Init => RowInv
BY DEF Init, RowInv, RowsAreWritten, Written, TxnInv, GroupsInv, RewriteInv,
   AckedBatchIsDurable, NoTxn, Idle

\* A batch of events, and a rewrite of pending ones, is stored whole or not at all, and an
\* acknowledged batch stays stored, whatever other tabs write, whichever worker dies and
\* whenever a rewrite of another tab is rolled back or abandoned.
THEOREM BatchesAreWhole == Spec => []BatchesAreAtomic
<1> DEFINE I == TypeOK /\ OwnerInv /\ RowInv
<1>1. Init => I
  BY TypeInit, OwnerInit, RowInit
<1>2. I /\ [Next]_vars => I'
  BY TypeNext, OwnerNext, RowNext
<1>3. I => BatchesAreAtomic
  BY RowGives
<1> QED
  BY <1>1, <1>2, <1>3, PTL DEF Spec

-----------------------------------------------------------------------------
(* What a watching tab knows. *)

\* A step that adds rows announces them; one that adds none needs to announce nothing.  A
\* restore, which announces nothing, leaves only rows it brought.
LEMMA AnnouncedNext ==
  ASSUME TypeOK, WritesAreAnnounced, [Next]_vars
  PROVE  WritesAreAnnounced'
<1> DEFINE Known == Stored \ imported
<1>0. watching \subseteq Tabs /\ dirty \in [Tabs -> BOOLEAN] /\ view \in [Tabs -> SUBSET Rows]
  BY DEF TypeOK, ReadersOK
<1>1. ASSUME UNCHANGED <<watching, view>>,
             NotifyTables \/ (Known' \subseteq Known /\ UNCHANGED dirty)
      PROVE  WritesAreAnnounced'
  BY <1>0, <1>1 DEF WritesAreAnnounced, NotifyTables
<1>2. CASE UNCHANGED vars
  BY <1>1, <1>2 DEF vars, Stored
<1>3. ASSUME NEW t \in Tabs, Greeting(t) PROVE WritesAreAnnounced'
  BY <1>1, <1>3, GreetingFrame DEF Stored, dataVars, readVars
<1>4. ASSUME NEW t \in Tabs, Closing(t) PROVE WritesAreAnnounced'
  <2>1. PICK W : WorkersDie(W)
    BY <1>4 DEF Closing, Shutdown, CloseTab
  <2>2. Stored' \subseteq Stored /\ imported' = imported
    BY <1>4, <2>1, NoTxnType DEF Closing, Shutdown, CloseTab, Stored, WorkersDie
  <2>3. /\ watching' = watching \ {t}
        /\ view' = [view EXCEPT ![t] = {}] /\ dirty' = [dirty EXCEPT ![t] = FALSE]
    BY <1>4 DEF Closing, Shutdown, CloseTab, ForgetClient
  <2> QED
    BY <1>0, <2>2, <2>3 DEF WritesAreAnnounced
<1>5. ASSUME NEW t \in Tabs, Reading(t) PROVE WritesAreAnnounced'
  <2>1. Stored' = Stored /\ imported' = imported
    BY <1>5 DEF Reading, Query, Subscribe, Unsubscribe, Stored, dataVars
  <2>2. \/ view' = [view EXCEPT ![t] = Stored] /\ watching' \subseteq watching \cup {t}
        \/ view' = [view EXCEPT ![t] = {}] /\ watching' = watching \ {t}
    BY <1>5 DEF Reading, Query, Subscribe, Unsubscribe
  <2>3. dirty' = dirty \/ dirty' = [dirty EXCEPT ![t] = FALSE]
    BY <1>5 DEF Reading, Query, Subscribe, Unsubscribe
  <2> QED
    BY <1>0, <2>1, <2>2, <2>3 DEF WritesAreAnnounced
<1>6. ASSUME NEW t \in Tabs, Writing(t) PROVE WritesAreAnnounced'
  <2>1. CASE Execute(t) \/ (\E fails \in BOOLEAN : Batch(t, fails)) \/ RewriteUpdate(t)
    <3>1. UNCHANGED <<watching, view, imported>> /\ \E k \in 1..2 : Writes(k)
      BY <2>1, WritingWrites
    <3>2. NotifyTables \/ (Known' \subseteq Known /\ UNCHANGED dirty)
      BY <3>1 DEF Writes, Stored
    <3> QED
      BY <1>1, <3>1, <3>2
  <2>2. CASE RewriteBegin(t) \/ RewriteCommit(t) \/ RewriteFails(t)
    <3>1. UNCHANGED <<watching, view, dirty>>
      BY <2>2 DEF RewriteBegin, RewriteCommit, RewriteFails, readVars
    <3>2. Stored' \subseteq Stored /\ imported' = imported
      BY <2>2, NoTxnType DEF RewriteBegin, RewriteCommit, RewriteFails, Stored
    <3> QED
      BY <1>1, <3>1, <3>2
  <2> QED
    BY <1>6, <2>1, <2>2 DEF Writing, Rewriting
<1>7. ASSUME NEW t \in Tabs, ImportMain(t) PROVE WritesAreAnnounced'
  <2>1. Stored' = disk' /\ disk \subseteq Stored
    BY <1>7, NoTxnType DEF ImportMain, Stored
  <2>2. Known' \subseteq Known
    BY <1>7, <2>1, ImportType
  <2> QED
    BY <1>1, <1>7, <2>2 DEF ImportMain, readVars
<1> QED
  BY <1>2, <1>3, <1>4, <1>5, <1>6, <1>7, Steps

\* A tab that watches the table has read every row a query would show it, except a restored
\* backup's, or has been notified since it last read.
THEOREM WritesReachWatchers == Spec => []WritesAreAnnounced
<1>1. Init => WritesAreAnnounced
  BY DEF Init, WritesAreAnnounced
<1>2. TypeOK /\ WritesAreAnnounced /\ [Next]_vars => WritesAreAnnounced'
  BY AnnouncedNext
<1> QED
  BY <1>1, <1>2, Typed, PTL DEF Spec

(***************************************************************************)
(* Projection                                                              *)
(***************************************************************************)
-----------------------------------------------------------------------------
(* Rows, with the sequence of their numbers as a parameter *)

UnreadIn(r, c) == {k \in DOMAIN r : IF r[k] # 0 THEN r[k] > c.g /\ k > c.p ELSE k > c.p}
BeforeIn(r, i, j) ==
  \/ r[i] # 0 /\ r[j] # 0 /\ r[i] < r[j]
  \/ r[i] # 0 /\ r[j] = 0
  \/ r[i] = 0 /\ r[j] = 0 /\ i < j
TopOf(r) == LET G == {r[k] : k \in DOMAIN r} \cup {0} IN CHOOSE g \in G : \A h \in G : h <= g
Positions(r) == [g : 0..TopOf(r), p : 0..Len(r)]
Entries(r) == [k : DOMAIN r, g : 0..TopOf(r)]

\* A set of numbers has a least one.
LEMMA LeastNat ==
  ASSUME NEW T \in SUBSET Nat, T # {}
  PROVE  \E x \in T : \A y \in T : x <= y
<1>1. PICK x \in T : \A y \in T : ~(<<y, x>> \in OpToRel(<, Nat))
  BY NatLessThanWellFounded, WFMin
<1>2. \A y \in T : ~(y < x)
  BY <1>1 DEF OpToRel
<1> QED BY <1>2

\* There is a highest number.
LEMMA TopFacts ==
  ASSUME NEW r \in Seq(Nat)
  PROVE  /\ TopOf(r) \in Nat
         /\ \A k \in DOMAIN r : r[k] <= TopOf(r)
         /\ TopOf(r) = 0 \/ \E k \in DOMAIN r : r[k] = TopOf(r)
<1> DEFINE G == {r[k] : k \in DOMAIN r} \cup {0}
           Bad == {n \in Nat : n <= Len(r) /\ ~ \E m \in Nat : \A k \in 1..n : r[k] <= m}
           Bounds == {m \in Nat : \A g \in G : g <= m}
<1>0. Len(r) \in Nat /\ DOMAIN r = 1..Len(r) /\ \A k \in DOMAIN r : r[k] \in Nat
  OBVIOUS
<1>1. Bad = {}
  <2>1. SUFFICES ASSUME Bad # {} PROVE FALSE
    OBVIOUS
  <2>2. PICK n \in Bad : \A m \in Bad : n <= m
    <3>1. Bad \in SUBSET Nat
      OBVIOUS
    <3> HIDE DEF Bad
    <3> QED BY <2>1, <3>1, LeastNat
  <2>a. n \in Nat /\ n <= Len(r) /\ ~ \E m \in Nat : \A k \in 1..n : r[k] <= m
    OBVIOUS
  <2>3. n # 0
    <3>1. \A k \in 1..0 : r[k] <= 0
      OBVIOUS
    <3> QED BY <2>a, <3>1
  <2>4. n - 1 \in Nat /\ n - 1 \notin Bad /\ n - 1 <= Len(r)
    <3>1. n - 1 \in Nat /\ n - 1 <= Len(r) /\ ~(n <= n - 1)
      BY <1>0, <2>a, <2>3
    <3> HIDE DEF Bad
    <3> QED BY <2>2, <3>1
  <2>5. PICK m \in Nat : \A k \in 1..(n - 1) : r[k] <= m
    BY <2>4
  <2> HIDE DEF Bad
  <2>6. n \in DOMAIN r /\ r[n] \in Nat
    <3>1. n \in Nat /\ n <= Len(r) /\ n # 0
      BY <2>a, <2>3
    <3> QED BY <1>0, <3>1
  <2>7. m + r[n] \in Nat /\ \A k \in 1..n : r[k] <= m + r[n]
    <3>1. ASSUME NEW k \in 1..n PROVE r[k] <= m + r[n]
      <4>1. k \in DOMAIN r /\ r[k] \in Nat
        <5>1. n \in Nat /\ n <= Len(r)
          BY <2>a
        <5> QED BY <1>0, <5>1
      <4>2. k = n \/ k \in 1..(n - 1)
        BY <2>a
      <4> QED BY <4>1, <4>2, <2>5, <2>6
    <3> QED BY <2>6, <3>1
  <2> QED BY <2>a, <2>7
<1>2. Bounds # {}
  <2>1. Len(r) \notin Bad
    BY <1>1
  <2>2. PICK m \in Nat : \A k \in 1..Len(r) : r[k] <= m
    BY <1>0, <2>1
  <2>3. m \in Bounds
    BY <1>0, <2>2
  <2> QED BY <2>3
<1>3. PICK m \in Bounds : \A n \in Bounds : m <= n
  <2>1. Bounds \in SUBSET Nat
    OBVIOUS
  <2> HIDE DEF Bounds
  <2> QED BY <1>2, <2>1, LeastNat
<1>4. m \in G
  <2>1. SUFFICES ASSUME m \notin G PROVE FALSE
    OBVIOUS
  <2>2. m # 0 /\ m \in Nat
    BY <2>1
  <2>3. \A g \in G : g \in Nat /\ g <= m /\ g # m
    BY <1>0, <2>1
  <2>4. m - 1 \in Bounds
    <3>1. m - 1 \in Nat
      BY <2>2
    <3>2. \A g \in G : g <= m - 1
      <4> HIDE DEF G
      <4> QED BY <2>2, <2>3
    <3> QED BY <3>1, <3>2
  <2> HIDE DEF Bounds
  <2> QED BY <1>3, <2>2, <2>4
<1>5. \A h \in G : h <= m
  OBVIOUS
<1>6. TopOf(r) \in G /\ \A h \in G : h <= TopOf(r)
  BY <1>4, <1>5 DEF TopOf
<1> QED BY <1>0, <1>6

\* The environment writes: rows keep their numbers, new numbers are higher, and the
\* order of the rows there were stays.  a: a row may come in front of others.
Grown(r, q, a) ==
  /\ r \in Seq(Nat) /\ q \in Seq(Nat) /\ Len(r) <= Len(q) /\ TopOf(r) <= TopOf(q)
  /\ \A i \in DOMAIN q :
       \/ i \in DOMAIN r /\ q[i] = r[i]
       \/ (i \in DOMAIN r => r[i] = 0) /\ (q[i] = 0 \/ q[i] > TopOf(r))
  /\ \A i, j \in DOMAIN r : BeforeIn(r, i, j) => BeforeIn(q, i, j)
  /\ a \/ \A i \in DOMAIN r, j \in DOMAIN q \ DOMAIN r : BeforeIn(q, i, j)

\* What is unread stays unread, and what is new is unread.
LEMMA UnreadGrows ==
  ASSUME NEW r, NEW q, NEW a, Grown(r, q, a), NEW c \in Positions(r)
  PROVE  /\ DOMAIN r \subseteq DOMAIN q
         /\ UnreadIn(q, c) = UnreadIn(r, c) \cup (DOMAIN q \ DOMAIN r)
         /\ DOMAIN q \ UnreadIn(q, c) = DOMAIN r \ UnreadIn(r, c)
<1>1. /\ TopOf(r) \in Nat /\ \A k \in DOMAIN r : r[k] <= TopOf(r) /\ r[k] \in Nat
      /\ c.g \in Nat /\ c.g <= TopOf(r) /\ c.p \in Nat /\ c.p <= Len(r)
      /\ DOMAIN r = 1..Len(r) /\ DOMAIN q = 1..Len(q) /\ Len(r) \in Nat /\ Len(q) \in Nat
      /\ \A k \in DOMAIN q : q[k] \in Nat
  BY TopFacts DEF Grown, Positions
<1>2. DOMAIN r \subseteq DOMAIN q
  BY <1>1 DEF Grown
<1>3. \A i \in DOMAIN r : i \in UnreadIn(q, c) <=> i \in UnreadIn(r, c)
  BY <1>1, <1>2 DEF Grown, UnreadIn
<1>4. \A i \in DOMAIN q \ DOMAIN r : i \in UnreadIn(q, c)
  BY <1>1, <1>2 DEF Grown, UnreadIn
<1>5. UnreadIn(q, c) \subseteq DOMAIN q /\ UnreadIn(r, c) \subseteq DOMAIN r
  BY DEF UnreadIn
<1> QED BY <1>2, <1>3, <1>4, <1>5

-----------------------------------------------------------------------------
(* Snapshots and batches *)

\* Fits and BatchFits with the variables they read as parameters: the numbers, the
\* rows passed over, whether a rebuild is due.
FitsIn(r, x, due, s, c) ==
  /\ Range(s) \cup x = DOMAIN r \ UnreadIn(r, c)
  /\ Range(s) \cap x = {}
  /\ \A i, j \in DOMAIN s : s[i] = s[j] => i = j
  /\ \/ due
     \/ /\ \A i, j \in DOMAIN s : i < j => BeforeIn(r, s[i], s[j])
        /\ \A i \in DOMAIN s, k \in UnreadIn(r, c) : BeforeIn(r, s[i], k)

Follows(r, due, e, k) ==
  /\ IF e.g # 0 THEN r[k] = 0 \/ r[k] > e.g ELSE k > e.k
  /\ due \/ BeforeIn(r, e.k, k)

BatchIn(r, due, c, b) ==
  /\ \A i \in DOMAIN b : b[i].k \in UnreadIn(r, c) /\ (b[i].g # 0 => r[b[i].k] = b[i].g)
  /\ \A i, j \in DOMAIN b : b[i].k = b[j].k => i = j
  /\ \A i \in DOMAIN b, k \in UnreadIn(r, c) :
       (\A j \in 1..i : b[j].k # k) => Follows(r, due, b[i], k)

\* A snapshot that fits its cursor still does when rows are written,
LEMMA FitsGrows ==
  ASSUME NEW r, NEW q, NEW a, Grown(r, q, a), NEW c \in Positions(r), NEW x,
         NEW due, NEW due2, due => due2, a => due2,
         NEW s \in Seq(DOMAIN r), FitsIn(r, x, due, s, c)
  PROVE  FitsIn(q, x, due2, s, c)
<1>1. /\ DOMAIN r \subseteq DOMAIN q
      /\ UnreadIn(q, c) = UnreadIn(r, c) \cup (DOMAIN q \ DOMAIN r)
      /\ DOMAIN q \ UnreadIn(q, c) = DOMAIN r \ UnreadIn(r, c)
  BY UnreadGrows
<1>2. \A i \in DOMAIN s : s[i] \in DOMAIN r
  OBVIOUS
<1>3. UnreadIn(r, c) \subseteq DOMAIN r
  BY DEF UnreadIn
<1>4. ASSUME ~due2
      PROVE  /\ \A i, j \in DOMAIN s : i < j => BeforeIn(q, s[i], s[j])
             /\ \A i \in DOMAIN s, k \in UnreadIn(q, c) : BeforeIn(q, s[i], k)
  <2>1. ~due /\ ~a
    BY <1>4
  <2>2. /\ \A i, j \in DOMAIN r : BeforeIn(r, i, j) => BeforeIn(q, i, j)
        /\ \A i \in DOMAIN r, j \in DOMAIN q \ DOMAIN r : BeforeIn(q, i, j)
    BY <2>1 DEF Grown
  <2>3. /\ \A i, j \in DOMAIN s : i < j => BeforeIn(r, s[i], s[j])
        /\ \A i \in DOMAIN s, k \in UnreadIn(r, c) : BeforeIn(r, s[i], k)
    BY <2>1 DEF FitsIn
  <2>4. \A i, j \in DOMAIN s : i < j => BeforeIn(q, s[i], s[j])
    BY ONLY <1>2, <2>2, <2>3
  <2>5. \A i \in DOMAIN s, k \in UnreadIn(q, c) : BeforeIn(q, s[i], k)
    BY ONLY <1>1, <1>2, <1>3, <2>2, <2>3
  <2> QED BY <2>4, <2>5
<1> QED BY <1>1, <1>4 DEF FitsIn

\* and so does a batch that was read before.
LEMMA BatchGrows ==
  ASSUME NEW r, NEW q, NEW a, Grown(r, q, a), NEW c \in Positions(r),
         NEW due, NEW due2, due => due2, a => due2,
         NEW b \in Seq(Entries(r)), BatchIn(r, due, c, b)
  PROVE  BatchIn(q, due2, c, b)
<1>1. /\ DOMAIN r \subseteq DOMAIN q
      /\ UnreadIn(q, c) = UnreadIn(r, c) \cup (DOMAIN q \ DOMAIN r)
  BY UnreadGrows
<1>2. \A i \in DOMAIN b : b[i].k \in DOMAIN r /\ b[i].g \in 0..TopOf(r)
  <2>1. \A i \in DOMAIN b : b[i] \in Entries(r)
    OBVIOUS
  <2> QED BY <2>1 DEF Entries
<1>3. /\ TopOf(r) \in Nat /\ \A k \in DOMAIN r : r[k] \in Nat
      /\ DOMAIN r = 1..Len(r) /\ DOMAIN q = 1..Len(q) /\ Len(r) \in Nat /\ Len(q) \in Nat
      /\ \A k \in DOMAIN q : q[k] \in Nat
  BY TopFacts DEF Grown
<1>4. UnreadIn(r, c) \subseteq DOMAIN r
  BY DEF UnreadIn
<1>5. ASSUME NEW i \in DOMAIN b
      PROVE  b[i].k \in UnreadIn(q, c) /\ (b[i].g # 0 => q[b[i].k] = b[i].g)
  <2>1. b[i].k \in UnreadIn(r, c) /\ (b[i].g # 0 => r[b[i].k] = b[i].g)
    BY DEF BatchIn
  <2> QED BY <1>1, <1>2, <2>1 DEF Grown
<1>6. ASSUME NEW i \in DOMAIN b, NEW k \in UnreadIn(q, c), \A j \in 1..i : b[j].k # k
      PROVE  Follows(q, due2, b[i], k)
  <2>1. b[i].k \in DOMAIN r /\ b[i].g \in 0..TopOf(r)
    BY <1>2
  <2>2. CASE k \in UnreadIn(r, c)
    <3>1. Follows(r, due, b[i], k)
      BY <1>6, <2>2 DEF BatchIn
    <3>2. k \in DOMAIN r /\ k \in DOMAIN q
      BY <1>1, <1>4, <2>2
    <3>3. IF b[i].g # 0 THEN q[k] = 0 \/ q[k] > b[i].g ELSE k > b[i].k
      BY <1>3, <2>1, <3>1, <3>2 DEF Follows, Grown
    <3>4. due2 \/ BeforeIn(q, b[i].k, k)
      BY <2>1, <3>1, <3>2 DEF Follows, Grown
    <3> QED BY <3>3, <3>4 DEF Follows
  <2>3. CASE k \in DOMAIN q \ DOMAIN r
    <3>0. q[k] = 0 \/ q[k] > TopOf(r)
      BY <2>3 DEF Grown
    <3>a. q[k] = 0 \/ q[k] > b[i].g
      BY <1>3, <2>1, <2>3, <3>0
    <3>b. k > b[i].k
      BY <1>3, <2>1, <2>3
    <3>1. IF b[i].g # 0 THEN q[k] = 0 \/ q[k] > b[i].g ELSE k > b[i].k
      BY <3>a, <3>b
    <3>2. due2 \/ BeforeIn(q, b[i].k, k)
      BY <2>1, <2>3 DEF Grown
    <3> QED BY <3>1, <3>2 DEF Follows
  <2> QED BY <1>1, <2>2, <2>3
<1>7. \A i, j \in DOMAIN b : b[i].k = b[j].k => i = j
  BY DEF BatchIn
<1> QED BY <1>5, <1>6, <1>7 DEF BatchIn

\* The cursor moves past the first row of the batch, and past no other.
LEMMA UnreadAdvances ==
  ASSUME NEW r \in Seq(Nat), NEW due, NEW c \in Positions(r), NEW b \in Seq(Entries(r)), b # <<>>,
         BatchIn(r, due, c, b), NEW e, e = Head(b), NEW d, d = AdvanceEffectiveCursor(c, e)
  PROVE  /\ e \in Entries(r) /\ d \in Positions(r) /\ e.k \in UnreadIn(r, c)
         /\ \A k : k \in UnreadIn(r, d) <=> k \in UnreadIn(r, c) /\ k # e.k
         /\ \A k \in UnreadIn(r, d) : Follows(r, due, e, k)
<1>1. 1 \in DOMAIN b /\ e = b[1] /\ e \in Entries(r)
  OBVIOUS
<1>2. e.k \in DOMAIN r /\ e.g \in 0..TopOf(r) /\ c.g \in 0..TopOf(r) /\ c.p \in 0..Len(r)
      /\ c = [g |-> c.g, p |-> c.p]
  BY <1>1 DEF Entries, Positions
<1>3. /\ TopOf(r) \in Nat /\ \A k \in DOMAIN r : r[k] \in Nat
      /\ DOMAIN r = 1..Len(r) /\ Len(r) \in Nat
  BY TopFacts
<1>4. e.k \in UnreadIn(r, c) /\ (e.g # 0 => r[e.k] = e.g)
  BY <1>1 DEF BatchIn
<1>5. \A k \in UnreadIn(r, c) : k # e.k => Follows(r, due, e, k)
  <2>1. SUFFICES ASSUME NEW k \in UnreadIn(r, c), k # e.k PROVE Follows(r, due, e, k)
    OBVIOUS
  <2>2. \A j \in 1..1 : b[j].k # k
    BY <1>1, <2>1
  <2> QED BY <1>1, <2>2 DEF BatchIn
<1>6. d = IF e.g # 0 THEN [g |-> e.g, p |-> c.p] ELSE [g |-> c.g, p |-> e.k]
  BY <1>2 DEF AdvanceEffectiveCursor, Positions
<1>7. d \in Positions(r)
  BY <1>2, <1>3, <1>6 DEF Positions
<1>8. ASSUME NEW k \in DOMAIN r
      PROVE  k \in UnreadIn(r, d) <=> k \in UnreadIn(r, c) /\ k # e.k
  <2>1. k \in Nat /\ r[k] \in Nat /\ e.k \in Nat /\ e.g \in Nat /\ c.g \in Nat /\ c.p \in Nat
    BY <1>2, <1>3
  <2>2. k \in UnreadIn(r, c) <=> IF r[k] # 0 THEN r[k] > c.g /\ k > c.p ELSE k > c.p
    BY DEF UnreadIn
  <2>3. k \in UnreadIn(r, d) <=> IF r[k] # 0 THEN r[k] > d.g /\ k > d.p ELSE k > d.p
    BY DEF UnreadIn
  <2>4. IF r[e.k] # 0 THEN r[e.k] > c.g /\ e.k > c.p ELSE e.k > c.p
    BY <1>4 DEF UnreadIn
  <2>5. k \in UnreadIn(r, c) /\ k # e.k
        => IF e.g # 0 THEN r[k] = 0 \/ r[k] > e.g ELSE k > e.k
    BY <1>5 DEF Follows
  <2>6. CASE e.g # 0
    <3>1. d.g = e.g /\ d.p = c.p /\ r[e.k] = e.g
      BY <1>4, <1>6, <2>6
    <3>2. CASE k = e.k
      BY ONLY <2>1, <2>3, <2>6, <3>1, <3>2
    <3>3. CASE k # e.k
      BY ONLY <2>1, <2>2, <2>3, <2>4, <2>5, <2>6, <3>1, <3>3
    <3> QED BY <3>2, <3>3
  <2>7. CASE e.g = 0
    <3>1. d.g = c.g /\ d.p = e.k
      BY <1>6, <2>7
    <3>2. CASE k = e.k
      BY ONLY <2>1, <2>3, <2>7, <3>1, <3>2
    <3>3. CASE k # e.k
      BY ONLY <2>1, <2>2, <2>3, <2>4, <2>5, <2>7, <3>1, <3>3
    <3> QED BY <3>2, <3>3
  <2> QED BY <2>6, <2>7
<1>9. \A k : k \in UnreadIn(r, d) <=> k \in UnreadIn(r, c) /\ k # e.k
  <2>1. UnreadIn(r, d) \subseteq DOMAIN r /\ UnreadIn(r, c) \subseteq DOMAIN r
    BY DEF UnreadIn
  <2> QED BY <1>8, <2>1
<1>10. \A k \in UnreadIn(r, d) : Follows(r, due, e, k)
  BY <1>5, <1>9
<1> QED BY <1>1, <1>4, <1>7, <1>9, <1>10

\* The rest of the batch fits the new cursor,
LEMMA BatchAdvances ==
  ASSUME NEW r \in Seq(Nat), NEW due, NEW c \in Positions(r), NEW b \in Seq(Entries(r)), b # <<>>,
         BatchIn(r, due, c, b), NEW e, e = Head(b), NEW d, d = AdvanceEffectiveCursor(c, e)
  PROVE  BatchIn(r, due, d, Tail(b))
<1> DEFINE t == Tail(b)
<1>1. \A k : k \in UnreadIn(r, d) <=> k \in UnreadIn(r, c) /\ k # e.k
  BY UnreadAdvances
<1>2. /\ Len(b) \in Nat /\ Len(b) > 0 /\ DOMAIN b = 1..Len(b) /\ DOMAIN t = 1..(Len(b) - 1)
      /\ \A i \in 1..(Len(b) - 1) : t[i] = b[i + 1]
      /\ e = b[1]
  OBVIOUS
<1> HIDE DEF t
<1>3. ASSUME NEW i \in DOMAIN t
      PROVE  t[i].k \in UnreadIn(r, d) /\ (t[i].g # 0 => r[t[i].k] = t[i].g)
  <2>1. i + 1 \in DOMAIN b /\ 1 \in DOMAIN b /\ i + 1 # 1 /\ t[i] = b[i + 1]
    BY <1>2
  <2> QED BY <1>1, <1>2, <2>1 DEF BatchIn
<1>4. \A i, j \in DOMAIN t : t[i].k = t[j].k => i = j
  <2>1. SUFFICES ASSUME NEW i \in DOMAIN t, NEW j \in DOMAIN t, t[i].k = t[j].k PROVE i = j
    OBVIOUS
  <2>2. i + 1 \in DOMAIN b /\ j + 1 \in DOMAIN b /\ i \in Int /\ j \in Int
        /\ t[i] = b[i + 1] /\ t[j] = b[j + 1]
    BY <1>2
  <2>3. i + 1 = j + 1
    BY <2>1, <2>2 DEF BatchIn
  <2> QED BY <2>2, <2>3
<1>5. ASSUME NEW i \in DOMAIN t, NEW k \in UnreadIn(r, d), \A j \in 1..i : t[j].k # k
      PROVE  Follows(r, due, t[i], k)
  <2>1. i + 1 \in DOMAIN b /\ i \in 1..(Len(b) - 1) /\ t[i] = b[i + 1]
    BY <1>2
  <2>2. ASSUME NEW j \in 1..(i + 1) PROVE b[j].k # k
    <3>1. CASE j = 1
      BY <1>1, <1>2, <3>1
    <3>2. CASE j # 1
      <4>1. j - 1 \in 1..i /\ j - 1 \in 1..(Len(b) - 1) /\ (j - 1) + 1 = j
        BY <1>2, <2>1, <3>2
      <4>2. t[j - 1] = b[j]
        BY <1>2, <4>1
      <4> QED BY <1>5, <4>1, <4>2
    <3> QED BY <3>1, <3>2
  <2>3. k \in UnreadIn(r, c)
    BY <1>1
  <2> QED BY <2>1, <2>2, <2>3 DEF BatchIn
<1> QED BY <1>3, <1>4, <1>5 DEF BatchIn, t

\* and so does the snapshot with the row, or the snapshot as it was if the row is
\* passed over.
LEMMA FitsAdvances ==
  ASSUME NEW r \in Seq(Nat), NEW due, NEW c \in Positions(r), NEW b \in Seq(Entries(r)), b # <<>>,
         BatchIn(r, due, c, b), NEW e, e = Head(b), NEW d, d = AdvanceEffectiveCursor(c, e),
         NEW x, NEW s \in Seq(DOMAIN r), FitsIn(r, x, due, s, c)
  PROVE  FitsIn(r, x, due, Append(s, e.k), d) /\ FitsIn(r, x \cup {e.k}, due, s, d)
<1> DEFINE k == e.k
           a == Append(s, k)
<1>1. /\ k \in UnreadIn(r, c) /\ k \in DOMAIN r
      /\ UnreadIn(r, d) = UnreadIn(r, c) \ {k}
      /\ \A j \in UnreadIn(r, d) : Follows(r, due, e, j)
  <2>1. UnreadIn(r, c) \subseteq DOMAIN r
    BY DEF UnreadIn
  <2>2. /\ e.k \in UnreadIn(r, c)
        /\ \A j : j \in UnreadIn(r, d) <=> j \in UnreadIn(r, c) /\ j # e.k
        /\ \A j \in UnreadIn(r, d) : Follows(r, due, e, j)
    BY UnreadAdvances
  <2> QED BY <2>1, <2>2
<1>2. /\ Len(s) \in Nat /\ DOMAIN s = 1..Len(s) /\ DOMAIN a = 1..(Len(s) + 1)
      /\ \A i \in 1..Len(s) : a[i] = s[i]
      /\ a[Len(s) + 1] = k
  BY <1>1
<1>a. \A i \in DOMAIN a : i \in DOMAIN s \/ i = Len(s) + 1
  <2>1. \A i \in 1..(Len(s) + 1) : i \in 1..Len(s) \/ i = Len(s) + 1
    BY ONLY <1>2
  <2> HIDE DEF a
  <2> QED BY ONLY <1>2, <2>1
<1>3. \A j \in UnreadIn(r, d) : due \/ BeforeIn(r, k, j)
  BY <1>1 DEF Follows
<1>4. /\ Range(s) \cup x = DOMAIN r \ UnreadIn(r, c) /\ Range(s) \cap x = {}
      /\ \A i, j \in DOMAIN s : s[i] = s[j] => i = j
  BY DEF FitsIn
<1>5. ~due => /\ \A i, j \in DOMAIN s : i < j => BeforeIn(r, s[i], s[j])
              /\ \A i \in DOMAIN s, j \in UnreadIn(r, c) : BeforeIn(r, s[i], j)
  BY DEF FitsIn
<1> HIDE DEF k, a
<1>6. k \notin Range(s) /\ k \notin x /\ \A i \in DOMAIN s : s[i] # k
  <2>1. k \notin Range(s) /\ k \notin x
    BY <1>1, <1>4
  <2> QED BY <2>1 DEF Range
<1>7. Range(a) = Range(s) \cup {k}
  <2>1. \A i \in DOMAIN a : a[i] \in Range(s) \cup {k}
    <3>1. SUFFICES ASSUME NEW i \in DOMAIN a PROVE a[i] \in Range(s) \cup {k}
      OBVIOUS
    <3>2. i \in DOMAIN s \/ i = Len(s) + 1
      BY <1>a
    <3>3. CASE i \in DOMAIN s
      <4>1. a[i] = s[i]
        BY <1>2, <3>3
      <4> QED BY <3>3, <4>1 DEF Range
    <3>4. CASE i = Len(s) + 1
      BY <1>2, <3>4
    <3> QED BY <3>2, <3>3, <3>4
  <2>2. \A i \in DOMAIN s : i \in DOMAIN a /\ a[i] = s[i]
    BY <1>2
  <2>3. Len(s) + 1 \in DOMAIN a
    BY <1>2
  <2> QED BY <1>2, <2>1, <2>2, <2>3 DEF Range
<1>8. Range(a) \cup x = DOMAIN r \ UnreadIn(r, d) /\ Range(a) \cap x = {}
  BY <1>1, <1>4, <1>6, <1>7
<1>9. Range(s) \cup (x \cup {k}) = DOMAIN r \ UnreadIn(r, d) /\ Range(s) \cap (x \cup {k}) = {}
  BY <1>1, <1>4, <1>6
<1>10. \A i, j \in DOMAIN a : a[i] = a[j] => i = j
  <2>1. SUFFICES ASSUME NEW i \in DOMAIN a, NEW j \in DOMAIN a, a[i] = a[j] PROVE i = j
    OBVIOUS
  <2>2. CASE i = Len(s) + 1 \/ j = Len(s) + 1
    <3>1. (i \in DOMAIN s \/ i = Len(s) + 1) /\ (j \in DOMAIN s \/ j = Len(s) + 1)
      BY <1>a
    <3>2. (i \in DOMAIN s => a[i] # k) /\ (j \in DOMAIN s => a[j] # k)
      BY <1>2, <1>6
    <3> QED BY <1>2, <2>1, <2>2, <3>1, <3>2
  <2>3. CASE i \in DOMAIN s /\ j \in DOMAIN s
    BY <1>2, <1>4, <2>1, <2>3
  <2> QED BY <1>2, <2>2, <2>3
<1>11. ASSUME ~due
       PROVE  /\ \A i, j \in DOMAIN a : i < j => BeforeIn(r, a[i], a[j])
              /\ \A i \in DOMAIN a, j \in UnreadIn(r, d) : BeforeIn(r, a[i], j)
              /\ \A i \in DOMAIN s, j \in UnreadIn(r, d) : BeforeIn(r, s[i], j)
  <2>1. \A i \in DOMAIN s, j \in UnreadIn(r, d) : BeforeIn(r, s[i], j)
    BY <1>1, <1>5, <1>11
  <2>2. ASSUME NEW i \in DOMAIN a, NEW j \in DOMAIN a, i < j PROVE BeforeIn(r, a[i], a[j])
    <3>1. i \in DOMAIN s /\ a[i] = s[i]
      BY <1>2, <2>2
    <3>2. CASE j = Len(s) + 1
      BY <1>1, <1>2, <1>5, <1>11, <3>1, <3>2
    <3>3. CASE j \in DOMAIN s
      BY <1>2, <1>5, <1>11, <2>2, <3>1, <3>3
    <3> QED BY <1>2, <3>2, <3>3
  <2>3. ASSUME NEW i \in DOMAIN a, NEW j \in UnreadIn(r, d) PROVE BeforeIn(r, a[i], j)
    <3>1. CASE i = Len(s) + 1
      BY <1>2, <1>3, <1>11, <3>1
    <3>2. CASE i \in DOMAIN s
      BY <1>2, <2>1, <3>2
    <3> QED BY <1>a, <3>1, <3>2
  <2> QED BY <2>1, <2>2, <2>3
<1>12. FitsIn(r, x, due, a, d)
  BY <1>8, <1>10, <1>11 DEF FitsIn
<1>13. FitsIn(r, x \cup {k}, due, s, d)
  BY <1>4, <1>5, <1>9, <1>11 DEF FitsIn
<1> QED BY <1>12, <1>13 DEF k, a

\* A projection that is reset has read nothing.
LEMMA ResetFits ==
  ASSUME NEW r \in Seq(Nat), NEW due
  PROVE  Zero \in Positions(r) /\ FitsIn(r, {}, due, <<>>, Zero)
<1>1. TopOf(r) \in Nat /\ Len(r) \in Nat /\ DOMAIN r = 1..Len(r) /\ \A k \in DOMAIN r : r[k] \in Nat
  BY TopFacts
<1>2. UnreadIn(r, Zero) = DOMAIN r
  <2>1. \A k \in DOMAIN r : k \in UnreadIn(r, Zero)
    BY <1>1 DEF UnreadIn, Zero
  <2> QED BY <2>1 DEF UnreadIn
<1>3. Range(<<>>) = {} /\ DOMAIN <<>> = {}
  BY DEF Range
<1> QED BY <1>1, <1>2, <1>3 DEF Positions, Zero, FitsIn

\* What a query returns is a batch that fits, and all that is unread if it is not full.
LEMMA PageFits ==
  ASSUME rows \in Seq(Nat), NEW c, NEW due, NEW b \in ReadEffectiveOrdered(c)
  PROVE  /\ b \in Seq(Entries(rows)) /\ BatchIn(rows, due, c, b)
         /\ Len(b) \in Nat /\ (b = <<>> <=> Len(b) = 0)
         /\ Len(b) = BatchSize \/ \A k \in UnreadIn(rows, c) : \E i \in DOMAIN b : b[i].k = k
<1> DEFINE U == UnreadIn(rows, c)
<1>1. BatchSize \in Nat \ {0}
  BY ProjectionConstants
<1>2. PICK s \in FirstOf(Unread(c)) : b = [i \in DOMAIN s |-> [k |-> s[i], g |-> rows[s[i]]]]
  BY DEF ReadEffectiveOrdered
<1>3. Unread(c) = U /\ U \subseteq DOMAIN rows
  BY DEF Unread, UnreadIn, CommitSeqs
<1>4. PICK n \in 0..BatchSize : s \in [1..n -> U]
  BY <1>1, <1>2, <1>3 DEF FirstOf
<1>5. n \in Nat /\ n <= BatchSize /\ s \in Seq(U) /\ Len(s) = n /\ DOMAIN s = 1..n
  BY <1>1, <1>4
<1>6. /\ Ascending(s)
      /\ \A i \in DOMAIN s : \A k \in U \ Range(s) : Before(s[i], k)
      /\ n < BatchSize => Range(s) = U
  BY <1>2, <1>3, <1>5 DEF FirstOf
<1> HIDE DEF U
<1>7. \A i \in 1..n : b[i] = [k |-> s[i], g |-> rows[s[i]]] /\ b[i].k = s[i] /\ b[i].g = rows[s[i]]
  BY <1>2, <1>5
<1>8. TopOf(rows) \in Nat /\ \A k \in DOMAIN rows : rows[k] \in Nat /\ rows[k] <= TopOf(rows) /\ k \in Nat
  BY TopFacts
<1>9. \A i \in 1..n : s[i] \in U /\ s[i] \in DOMAIN rows
  BY <1>3, <1>4
<1>10. b \in Seq(Entries(rows)) /\ Len(b) = n /\ DOMAIN b = 1..n
  <2>1. \A i \in 1..n : b[i] \in Entries(rows)
    <3>1. SUFFICES ASSUME NEW i \in 1..n PROVE b[i] \in Entries(rows)
      OBVIOUS
    <3>2. s[i] \in DOMAIN rows /\ rows[s[i]] \in 0..TopOf(rows)
      BY <1>8, <1>9
    <3>3. b[i] = [k |-> s[i], g |-> rows[s[i]]]
      BY <1>7
    <3> QED BY <3>2, <3>3 DEF Entries
  <2>2. DOMAIN b = 1..n
    BY <1>2, <1>5
  <2>3. b \in [1..n -> Entries(rows)]
    BY <1>2, <2>1, <2>2
  <2> QED BY <1>5, <2>3
<1>11. \A i, j \in 1..n : s[i] = s[j] => i = j
  <2>1. SUFFICES ASSUME NEW i \in 1..n, NEW j \in 1..n, s[i] = s[j], i < j PROVE FALSE
    BY <1>5
  <2>2. Before(s[i], s[i])
    BY <1>5, <1>6, <2>1 DEF Ascending
  <2> QED BY <1>8, <1>9, <2>2 DEF Before
<1>12. ASSUME NEW i \in 1..n, NEW k \in U, \A j \in 1..i : b[j].k # k
       PROVE  Follows(rows, due, b[i], k)
  <2>1. Before(s[i], k)
    <3>1. CASE k \notin Range(s)
      BY <1>5, <1>6, <3>1
    <3>2. CASE k \in Range(s)
      <4>1. PICK j \in 1..n : s[j] = k
        BY <1>5, <3>2 DEF Range
      <4>2. j \notin 1..i
        BY <1>5, <1>7, <1>12, <4>1
      <4>3. i < j
        BY <1>5, <4>2
      <4> QED BY <1>5, <1>6, <4>1, <4>3 DEF Ascending
    <3> QED BY <3>1, <3>2
  <2>2. k \in DOMAIN rows /\ s[i] \in DOMAIN rows
    BY <1>3, <1>9
  <2> QED BY <1>7, <1>8, <2>1, <2>2 DEF Before, BeforeIn, Follows
<1>13. BatchIn(rows, due, c, b)
  <2>1. \A i \in DOMAIN b : b[i].k \in U /\ (b[i].g # 0 => rows[b[i].k] = b[i].g)
    BY <1>7, <1>9, <1>10
  <2>2. \A i, j \in DOMAIN b : b[i].k = b[j].k => i = j
    BY <1>7, <1>10, <1>11
  <2> QED BY <1>10, <1>12, <2>1, <2>2 DEF BatchIn, U
<1>14. n = BatchSize \/ \A k \in U : \E i \in DOMAIN b : b[i].k = k
  BY <1>1, <1>5, <1>6, <1>7, <1>10 DEF Range
<1> QED BY <1>5, <1>10, <1>13, <1>14 DEF U

-----------------------------------------------------------------------------
(* The steps that write rows *)

\* The highest number does not fall.
LEMMA TopRises ==
  ASSUME NEW r \in Seq(Nat), NEW q \in Seq(Nat), Len(r) <= Len(q),
         \A i \in DOMAIN r : r[i] # 0 => q[i] = r[i]
  PROVE  TopOf(r) <= TopOf(q)
<1>1. TopOf(r) = 0 \/ \E k \in DOMAIN r : r[k] = TopOf(r)
  BY TopFacts
<1>2. TopOf(q) \in Nat /\ TopOf(r) \in Nat /\ \A k \in DOMAIN q : q[k] <= TopOf(q)
  BY TopFacts
<1>3. \A k \in DOMAIN r : k \in DOMAIN q
  OBVIOUS
<1> QED BY <1>1, <1>2, <1>3

\* Nothing is written.
LEMMA SameGrows ==
  ASSUME NEW r \in Seq(Nat), NEW a PROVE Grown(r, r, a)
<1>1. TopOf(r) \in Nat /\ Len(r) \in Nat
  BY TopFacts
<1> QED BY <1>1 DEF Grown

\* A row is appended: a command's, pending, or a remote one with the next number, which
\* comes in front of the pending ones.
LEMMA AppendGrows ==
  ASSUME rows \in Seq(Nat), NEW n \in {0, Top + 1}, rows' = Append(rows, n)
  PROVE  Grown(rows, rows', n # 0 /\ Pending # {})
<1>1. Top = TopOf(rows)
  BY DEF Top, TopOf, CommitSeqs
<1>2. TopOf(rows) \in Nat /\ \A k \in DOMAIN rows : rows[k] \in Nat /\ rows[k] <= TopOf(rows)
  BY TopFacts
<1>3. n \in Nat /\ (n = 0 \/ n > TopOf(rows))
  BY <1>1, <1>2
<1>4. /\ rows' \in Seq(Nat) /\ Len(rows) \in Nat /\ Len(rows') = Len(rows) + 1
      /\ DOMAIN rows = 1..Len(rows) /\ DOMAIN rows' = 1..(Len(rows) + 1)
      /\ \A i \in DOMAIN rows : rows'[i] = rows[i]
      /\ rows'[Len(rows) + 1] = n
  BY <1>3
<1>5. TopOf(rows) <= TopOf(rows')
  <2>1. Len(rows) <= Len(rows') /\ \A i \in DOMAIN rows : rows[i] # 0 => rows'[i] = rows[i]
    BY <1>4
  <2> QED BY <1>4, <2>1, TopRises
<1>6. \A i \in DOMAIN rows' : i \in DOMAIN rows \/ i = Len(rows) + 1
  BY ONLY <1>4
<1>7. \A i, j \in DOMAIN rows : BeforeIn(rows, i, j) => BeforeIn(rows', i, j)
  BY <1>4 DEF BeforeIn
<1>8. ASSUME ~(n # 0 /\ Pending # {}), NEW i \in DOMAIN rows, NEW j \in DOMAIN rows' \ DOMAIN rows
      PROVE  BeforeIn(rows', i, j)
  <2>1. j = Len(rows) + 1 /\ rows'[j] = n /\ rows'[i] = rows[i] /\ rows[i] \in Nat /\ i < j
        /\ rows[i] <= TopOf(rows)
    BY <1>2, <1>4, <1>6
  <2>2. CASE n = 0
    BY <2>1, <2>2 DEF BeforeIn
  <2>3. CASE n # 0
    <3>1. rows[i] # 0
      BY <1>8, <2>3 DEF Pending, CommitSeqs
    <3> QED BY <1>2, <1>3, <2>1, <2>3, <3>1 DEF BeforeIn
  <2> QED BY <2>2, <2>3
<1>9. \A i \in DOMAIN rows' : \/ i \in DOMAIN rows /\ rows'[i] = rows[i]
                              \/ /\ i \in DOMAIN rows => rows[i] = 0
                                 /\ rows'[i] = 0 \/ rows'[i] > TopOf(rows)
  BY <1>3, <1>4, <1>6
<1> QED BY <1>4, <1>5, <1>7, <1>8, <1>9 DEF Grown

\* A push is acknowledged: the pending rows it names keep their order and stay behind
\* every row that has a number.
LEMMA AssignmentsGrow ==
  ASSUME rows \in Seq(Nat), NEW k, ApplyAssignments(k)
  PROVE  Grown(rows, rows', FALSE)
<1> DEFINE C(i) == {j \in Pending : j <= i}
           n(i) == Cardinality(C(i))
<1>1. Top = TopOf(rows)
  BY DEF Top, TopOf, CommitSeqs
<1>2. TopOf(rows) \in Nat /\ \A i \in DOMAIN rows : rows[i] \in Nat /\ rows[i] <= TopOf(rows)
  BY TopFacts
<1>3. Len(rows) \in Nat /\ DOMAIN rows = 1..Len(rows)
  OBVIOUS
<1>4. Pending \subseteq 1..Len(rows) /\ k \in Pending /\ \A i \in DOMAIN rows : i \in Pending <=> rows[i] = 0
  BY <1>3 DEF Pending, CommitSeqs, ApplyAssignments
<1>5. \A i \in Pending : IsFiniteSet(C(i)) /\ n(i) \in Nat /\ n(i) > 0
  <2>1. SUFFICES ASSUME NEW i \in Pending PROVE IsFiniteSet(C(i)) /\ n(i) \in Nat /\ n(i) > 0
    OBVIOUS
  <2>2. IsFiniteSet(1..Len(rows))
    BY <1>3, FS_Interval
  <2>3. C(i) \in SUBSET (1..Len(rows)) /\ i \in C(i)
    <3>1. i \in Nat
      BY <1>3, <1>4
    <3>2. C(i) \subseteq Pending
      OBVIOUS
    <3>3. i \in C(i)
      BY <3>1
    <3> HIDE DEF C
    <3> QED BY <1>4, <3>2, <3>3
  <2>4. IsFiniteSet(C(i))
    BY <2>2, <2>3, FS_Subset
  <2>5. n(i) \in Nat /\ n(i) # 0
    BY <2>3, <2>4, FS_CardinalityType, FS_EmptySet
  <2> QED BY <2>4, <2>5
<1>6. \A i, j \in Pending : i < j => n(i) < n(j)
  <2>1. SUFFICES ASSUME NEW i \in Pending, NEW j \in Pending, i < j PROVE n(i) < n(j)
    OBVIOUS
  <2>2. i \in Nat /\ j \in Nat
    BY <1>3, <1>4
  <2>3. C(i) \in SUBSET C(j) /\ j \in C(j) /\ j \notin C(i)
    <3>1. \A h \in Pending : h \in Nat
      BY <1>3, <1>4
    <3>2. \A h : (h \in C(i) <=> h \in Pending /\ h <= i) /\ (h \in C(j) <=> h \in Pending /\ h <= j)
      OBVIOUS
    <3> HIDE DEF C
    <3>3. \A h \in C(i) : h \in C(j)
      <4>1. SUFFICES ASSUME NEW h \in C(i) PROVE h \in C(j)
        OBVIOUS
      <4>2. h \in Pending /\ h <= i
        BY <3>2
      <4>3. h \in Nat
        BY <3>1, <4>2
      <4>4. h <= j
        BY ONLY <2>1, <2>2, <4>2, <4>3
      <4> QED BY ONLY <3>2, <4>2, <4>4
    <3> QED BY <2>1, <2>2, <3>2, <3>3
  <2>4. IsFiniteSet(C(j)) /\ n(i) \in Nat /\ n(j) \in Nat
    BY <1>5
  <2>5. n(i) <= n(j) /\ (n(j) = n(i) => C(j) = C(i))
    <3> HIDE DEF C
    <3> QED BY <2>3, <2>4, FS_Subset
  <2> HIDE DEF C, n
  <2> QED BY <2>3, <2>4, <2>5
<1>7. rows' = [i \in DOMAIN rows |-> IF i \in Pending /\ i <= k THEN TopOf(rows) + n(i) ELSE rows[i]]
  BY <1>1 DEF ApplyAssignments, CommitSeqs
<1> HIDE DEF C, n
<1>8. /\ DOMAIN rows' = 1..Len(rows)
      /\ \A i \in 1..Len(rows) : rows'[i] = IF i \in Pending /\ i <= k THEN TopOf(rows) + n(i) ELSE rows[i]
  BY <1>3, <1>7
<1>9. \A i \in 1..Len(rows) : rows'[i] \in Nat
  BY <1>2, <1>3, <1>5, <1>8
<1>10. rows' \in Seq(Nat) /\ Len(rows') = Len(rows)
  <2>1. rows' \in [1..Len(rows) -> Nat]
    BY <1>3, <1>7, <1>9
  <2> QED BY <1>3, <2>1
<1>11. ASSUME NEW i \in DOMAIN rows
       PROVE  \/ rows'[i] = rows[i]
              \/ rows[i] = 0 /\ rows'[i] > TopOf(rows)
  BY <1>2, <1>3, <1>4, <1>5, <1>8
<1>12. TopOf(rows) <= TopOf(rows')
  <2>1. \A i \in DOMAIN rows : rows[i] # 0 => rows'[i] = rows[i]
    BY <1>11
  <2>2. Len(rows) <= Len(rows')
    BY <1>3, <1>10
  <2> QED BY <1>10, <2>1, <2>2, TopRises
<1>13. ASSUME NEW i \in DOMAIN rows, NEW j \in DOMAIN rows, BeforeIn(rows, i, j)
       PROVE  BeforeIn(rows', i, j)
  <2>1. /\ i \in Nat /\ j \in Nat /\ k \in Nat /\ rows[i] \in Nat /\ rows[j] \in Nat
        /\ rows'[i] \in Nat /\ rows'[j] \in Nat
        /\ rows[i] <= TopOf(rows) /\ rows[j] <= TopOf(rows)
    BY <1>2, <1>3, <1>4, <1>9
  <2>2. CASE rows[i] # 0
    <3>1. rows'[i] = rows[i]
      BY <1>11, <2>2
    <3> QED BY <1>2, <1>11, <1>13, <2>1, <2>2, <3>1 DEF BeforeIn
  <2>3. CASE rows[i] = 0
    <3>1. rows[j] = 0 /\ i < j /\ i \in Pending /\ j \in Pending
      BY <1>4, <1>13, <2>3 DEF BeforeIn
    <3>2. n(i) \in Nat /\ n(j) \in Nat /\ n(i) > 0 /\ n(j) > 0 /\ n(i) < n(j)
      BY <1>5, <1>6, <3>1
    <3>3. /\ rows'[i] = IF i <= k THEN TopOf(rows) + n(i) ELSE 0
          /\ rows'[j] = IF j <= k THEN TopOf(rows) + n(j) ELSE 0
      BY <1>3, <1>8, <2>3, <3>1
    <3> QED BY ONLY <1>2, <2>1, <3>1, <3>2, <3>3 DEF BeforeIn
  <2> QED BY <2>2, <2>3
<1> QED BY <1>3, <1>8, <1>10, <1>11, <1>12, <1>13 DEF Grown

RowStep == Commit \/ (\E k \in CommitSeqs : ApplyAssignments(k)) \/ ApplyRemoteEvents

\* What a writer leaves alone.
LEMMA RowStepFrame ==
  ASSUME rows \in Seq(Nat), ahead \in BOOLEAN, poll \in {"idle", "waiting", "check", "rebase"},
         RowStep
  PROVE  /\ Grown(rows, rows', ahead') /\ (ahead => ahead') /\ ahead' \in BOOLEAN
         /\ poll' \in {"idle", "waiting", "check", "rebase"} /\ (poll = "rebase" => poll' = "rebase")
         /\ UNCHANGED <<hadPending, meta, cache, cursor, mem, lifeVars, rebuild, again, loop, flush,
                        reloads, faults, skipped, history>>
         /\ notified' = (notified \/ subscribed)
<1>1. ASSUME NEW a, Grown(rows, rows', a), a => ahead' PROVE Grown(rows, rows', ahead')
  BY <1>1 DEF Grown
<1>2. CASE Commit
  <2>1. Grown(rows, rows', 0 # 0 /\ Pending # {})
    BY <1>2, AppendGrows DEF Commit
  <2> QED BY <1>1, <1>2, <2>1 DEF Commit, TableNotified, envVars
<1>3. ASSUME NEW k \in CommitSeqs, ApplyAssignments(k)
      PROVE  /\ Grown(rows, rows', ahead')
             /\ UNCHANGED <<envVars, meta, cache, cursor, mem, lifeVars, rebuild, again, loop, flush,
                            reloads, faults, skipped, history>>
             /\ notified' = (notified \/ subscribed)
  <2>1. Grown(rows, rows', FALSE)
    BY <1>3, AssignmentsGrow
  <2> QED BY <1>1, <1>3, <2>1 DEF ApplyAssignments, TableNotified
<1>4. CASE ApplyRemoteEvents
  <2>1. Top = TopOf(rows) /\ TopOf(rows) \in Nat
    BY TopFacts DEF Top, TopOf, CommitSeqs
  <2>2. Top + 1 # 0
    BY <2>1
  <2>3. Grown(rows, rows', Top + 1 # 0 /\ Pending # {})
    BY <1>4, AppendGrows DEF ApplyRemoteEvents
  <2>4. ahead' = (ahead \/ Pending # {})
    BY <1>4 DEF ApplyRemoteEvents
  <2>5. Grown(rows, rows', ahead')
    BY <1>1, <2>2, <2>3, <2>4
  <2> QED BY <1>4, <2>4, <2>5 DEF ApplyRemoteEvents, TableNotified
<1> QED BY <1>2, <1>3, <1>4 DEF RowStep, envVars

-----------------------------------------------------------------------------
(* Types *)

Labels == {"idle", "load", "boot", "enter", "reset", "clear", "save", "read", "apply", "put", "finish"}
LoopType(r) == [pc : Labels, batch : Seq(Entries(r)), full : BOOLEAN, prev : Seq(DOMAIN r),
                next : Positions(r)]
FlushType(r) == [st : {"none", "owner", "joined", "done", "failed"}, need : 0..Len(r)]

DataOK == /\ rows \in Seq(Nat) /\ meta \in Positions(rows) /\ cursor \in Positions(rows)
          /\ cache \in Seq(DOMAIN rows) /\ mem \in Seq(DOMAIN rows) /\ skipped \subseteq DOMAIN rows
LoopOK == /\ loop \in [Loops -> LoopType(rows)]
          /\ \A l \in Loops : At(l, "put") => loop[l].batch # <<>>
FlushOK == flush \in [Readers -> FlushType(rows)]
FlagOK == /\ poll \in {"idle", "waiting", "check", "rebase"}
          /\ hadPending \in BOOLEAN /\ ahead \in BOOLEAN
          /\ started \in BOOLEAN /\ ready \in BOOLEAN /\ subscribed \in BOOLEAN
          /\ rebuild \in BOOLEAN /\ again \in BOOLEAN /\ notified \in BOOLEAN
          /\ overlapped \in BOOLEAN /\ torn \in BOOLEAN /\ missed \in BOOLEAN
CountOK == reloads \in 0..MaxReloads /\ faults \in 0..MaxEventFaults

\* The type invariant by what it is about, in this state
LEMMA TypeParts == ProjectionTypeOK <=> DataOK /\ LoopOK /\ FlushOK /\ FlagOK /\ CountOK
<1>1. Top = TopOf(rows) /\ CommitSeqs = DOMAIN rows
  BY DEF Top, TopOf, CommitSeqs
<1> QED BY <1>1 DEF ProjectionTypeOK, DataOK, LoopOK, FlushOK, FlagOK, CountOK, Positions, Entries,
   LoopType, FlushType, Labels

\* Numbers and rows that become more.
LEMMA TypesGrow ==
  ASSUME NEW r, NEW q, NEW a, Grown(r, q, a)
  PROVE  /\ q \in Seq(Nat) /\ Positions(r) \subseteq Positions(q) /\ Entries(r) \subseteq Entries(q)
         /\ DOMAIN r \subseteq DOMAIN q /\ Seq(DOMAIN r) \subseteq Seq(DOMAIN q)
         /\ LoopType(r) \subseteq LoopType(q) /\ FlushType(r) \subseteq FlushType(q)
<1>1. /\ TopOf(r) \in Nat /\ TopOf(q) \in Nat /\ TopOf(r) <= TopOf(q)
      /\ DOMAIN r = 1..Len(r) /\ DOMAIN q = 1..Len(q) /\ Len(r) \in Nat /\ Len(q) \in Nat
      /\ Len(r) <= Len(q) /\ q \in Seq(Nat)
  BY TopFacts DEF Grown
<1>2. 0..TopOf(r) \subseteq 0..TopOf(q) /\ 0..Len(r) \subseteq 0..Len(q) /\ DOMAIN r \subseteq DOMAIN q
  BY <1>1
<1>3. Positions(r) \subseteq Positions(q)
  BY <1>2 DEF Positions
<1>4. Entries(r) \subseteq Entries(q)
  BY <1>2 DEF Entries
<1>5. FlushType(r) \subseteq FlushType(q)
  BY <1>2 DEF FlushType
<1>6. ASSUME NEW S, NEW T, S \subseteq T PROVE Seq(S) \subseteq Seq(T)
  BY <1>6
<1>7. Seq(DOMAIN r) \subseteq Seq(DOMAIN q) /\ Seq(Entries(r)) \subseteq Seq(Entries(q))
  BY <1>2, <1>4, <1>6
<1>8. LoopType(r) \subseteq LoopType(q)
  BY <1>3, <1>7 DEF LoopType
<1> QED BY <1>1, <1>2, <1>3, <1>4, <1>5, <1>7, <1>8

\* and in the next.
LEMMA TypePartsNext == ProjectionTypeOK' <=> DataOK' /\ LoopOK' /\ FlushOK' /\ FlagOK' /\ CountOK'
<1>1. Top' = TopOf(rows') /\ CommitSeqs' = DOMAIN rows'
  BY DEF Top, TopOf, CommitSeqs
<1> QED BY <1>1 DEF ProjectionTypeOK, DataOK, LoopOK, FlushOK, FlagOK, CountOK, Positions, Entries,
   LoopType, FlushType, Labels

\* A loop without work.
LEMMA NoWorkType ==
  ASSUME NEW r \in Seq(Nat), NEW p \in Labels
  PROVE  [NoWork EXCEPT !.pc = p] \in LoopType(r) /\ NoWork \in LoopType(r) /\ Zero \in Positions(r)
<1>1. Zero \in Positions(r)
  BY ResetFits
<1>2. <<>> \in Seq(Entries(r)) /\ <<>> \in Seq(DOMAIN r)
  OBVIOUS
<1>3. "idle" \in Labels
  BY DEF Labels
<1>4. NoWork \in LoopType(r)
  BY <1>1, <1>2, <1>3 DEF NoWork, LoopType
<1>5. [NoWork EXCEPT !.pc = p] \in LoopType(r)
  BY <1>4 DEF LoopType
<1> QED BY <1>1, <1>4, <1>5

\* A loop gets a new place, and more only if it is given more.
LEMMA LoopSet ==
  ASSUME LoopOK, rows' = rows, NEW l \in Loops, NEW w \in LoopType(rows),
         w.pc = "put" => w.batch # <<>>, loop' = [loop EXCEPT ![l] = w]
  PROVE  LoopOK'
BY DEF LoopOK, At

\* A loop jumps.
LEMMA LoopGoto ==
  ASSUME LoopOK, rows' = rows, NEW l \in Loops, NEW p \in Labels \ {"put"}, Goto(l, p)
  PROVE  LoopOK'
<1> DEFINE w == [loop[l] EXCEPT !.pc = p]
<1>1. loop[l] \in LoopType(rows)
  BY DEF LoopOK
<1>2. w \in LoopType(rows) /\ w.pc = p
  BY <1>1 DEF LoopType
<1>3. loop' = [loop EXCEPT ![l] = w]
  BY DEF Goto
<1> HIDE DEF w
<1> QED BY <1>2, <1>3, LoopSet

\* A pass is asked for.
LEMMA RunType ==
  ASSUME LoopOK, FlagOK, rows \in Seq(Nat), rows' = rows, Run
  PROVE  LoopOK' /\ again' \in BOOLEAN /\ overlapped' \in BOOLEAN
<1>1. CASE Busy("run")
  BY <1>1 DEF Run, LoopOK, FlagOK, At
<1>2. CASE ~Busy("run")
  <2>1. [NoWork EXCEPT !.pc = "enter"] \in LoopType(rows)
    BY NoWorkType DEF Labels
  <2>2. [NoWork EXCEPT !.pc = "enter"].pc # "put" /\ "run" \in Loops
    BY DEF NoWork, Loops
  <2>3. /\ loop' = [loop EXCEPT !["run"] = [NoWork EXCEPT !.pc = "enter"]]
        /\ again' = FALSE /\ overlapped' = (overlapped \/ Busy("start"))
    BY <1>2 DEF Run
  <2>4. LoopOK'
    BY <2>1, <2>2, <2>3, LoopSet
  <2> QED BY <2>3, <2>4 DEF FlagOK, Busy
<1> QED BY <1>1, <1>2

\* A pass ends.
LEMMA EndsType ==
  ASSUME LoopOK, FlagOK, FlushOK, rows \in Seq(Nat), rows' = rows, NEW l \in Loops, NEW ok \in BOOLEAN,
         Ends(l, ok)
  PROVE  LoopOK' /\ FlushOK' /\ again' \in BOOLEAN /\ ready' \in BOOLEAN
<1>1. /\ [NoWork EXCEPT !.pc = "enter"] \in LoopType(rows) /\ [NoWork EXCEPT !.pc = "enter"].pc # "put"
      /\ NoWork \in LoopType(rows) /\ NoWork.pc # "put"
  BY NoWorkType DEF Labels, NoWork
<1>2. LoopOK'
  <2>1. loop' = [loop EXCEPT ![l] = [NoWork EXCEPT !.pc = "enter"]] \/ loop' = [loop EXCEPT ![l] = NoWork]
    BY DEF Ends
  <2> QED BY <1>1, <2>1, LoopSet
<1>3. FlushOK'
  <2>1. CASE flush' = flush
    BY <2>1 DEF FlushOK
  <2>2. CASE flush' = [c \in Readers |->
            IF l = "start" \/ flush[c].st = "none" THEN flush[c]
            ELSE [flush[c] EXCEPT !.st = IF ok \/ @ = "joined" THEN "done" ELSE "failed"]]
    <3>1. \A c \in Readers : flush'[c] \in FlushType(rows)
      BY <2>2 DEF FlushOK, FlushType
    <3> QED BY <2>2, <3>1 DEF FlushOK
  <2> QED BY <2>1, <2>2 DEF Ends
<1>4. again' \in BOOLEAN /\ ready' \in BOOLEAN
  BY DEF Ends, FlagOK
<1> QED BY <1>2, <1>3, <1>4

\* The steps that do not touch the rows, by what they do to the loops.
LEMMA TypeStep == ASSUME ProjectionTypeOK, [ProjectionNext]_projectionVars PROVE ProjectionTypeOK'
<1> USE DEF Loops
<1>1. DataOK /\ LoopOK /\ FlushOK /\ FlagOK /\ CountOK /\ rows \in Seq(Nat)
  BY TypeParts DEF DataOK
<1>2. SUFFICES DataOK' /\ LoopOK' /\ FlushOK' /\ FlagOK' /\ CountOK'
  BY TypePartsNext
<1>3. CASE RowStep
  <2>1. /\ Grown(rows, rows', ahead') /\ ahead' \in BOOLEAN
        /\ poll' \in {"idle", "waiting", "check", "rebase"}
        /\ UNCHANGED <<hadPending, meta, cache, cursor, mem, lifeVars, rebuild, again, loop, flush,
                        reloads, faults, skipped, history>>
        /\ notified' = (notified \/ subscribed)
    BY <1>1, <1>3, RowStepFrame DEF FlagOK
  <2>2. /\ rows' \in Seq(Nat) /\ Positions(rows) \subseteq Positions(rows')
        /\ DOMAIN rows \subseteq DOMAIN rows' /\ Seq(DOMAIN rows) \subseteq Seq(DOMAIN rows')
        /\ LoopType(rows) \subseteq LoopType(rows') /\ FlushType(rows) \subseteq FlushType(rows')
    BY <2>1, TypesGrow
  <2>3. DataOK'
    BY <1>1, <2>1, <2>2 DEF DataOK
  <2>4. LoopOK'
    BY <1>1, <2>1, <2>2 DEF LoopOK, At
  <2>5. FlushOK'
    BY <1>1, <2>1, <2>2 DEF FlushOK
  <2>6. FlagOK'
    BY <1>1, <2>1 DEF FlagOK, lifeVars, history
  <2>7. CountOK'
    BY <1>1, <2>1 DEF CountOK
  <2> QED BY <2>3, <2>4, <2>5, <2>6, <2>7
<1>4. CASE StartPull \/ CheckPending \/ PullFails \/ (\E c \in Readers : Answer(c)) \/ UNCHANGED projectionVars
  <2>1. DataOK' /\ LoopOK'
    BY <1>1, <1>4 DEF DataOK, LoopOK, At, StartPull, CheckPending, PullFails, Answer, projectionVars, diskVars
  <2>2. FlagOK'
    <3>1. CASE StartPull
      BY <1>1, <3>1 DEF FlagOK, StartPull, lifeVars, history
    <3>2. CASE CheckPending \/ PullFails
      BY <1>1, <3>2 DEF FlagOK, CheckPending, PullFails, lifeVars
    <3>3. CASE (\E c \in Readers : Answer(c)) \/ UNCHANGED projectionVars
      BY <1>1, <3>3 DEF FlagOK, Answer, projectionVars, envVars, lifeVars, history
    <3> QED BY <1>4, <3>1, <3>2, <3>3
  <2>a. CountOK'
    BY <1>1, <1>4 DEF CountOK, StartPull, CheckPending, PullFails, Answer, projectionVars
  <2>3. FlushOK'
    <3>1. CASE StartPull \/ CheckPending \/ PullFails \/ UNCHANGED projectionVars
      BY <1>1, <3>1 DEF FlushOK, StartPull, CheckPending, PullFails, diskVars, projectionVars
    <3>2. ASSUME NEW c \in Readers, Answer(c) PROVE FlushOK'
      <4>1. NoFlush \in FlushType(rows)
        BY <1>1 DEF NoFlush, FlushType
      <4> QED BY <1>1, <3>2, <4>1 DEF FlushOK, Answer, diskVars
    <3> QED BY <1>4, <3>1, <3>2
  <2> QED BY <2>1, <2>2, <2>3, <2>a
<1>5. CASE Notify \/ OnRebaseRequired \/ ResetAndRebuild \/ (\E c \in Readers : Flush(c))
  <2>1. Run /\ rows' = rows
    BY <1>5 DEF Notify, OnRebaseRequired, ResetAndRebuild, Flush, diskVars
  <2>2. LoopOK' /\ again' \in BOOLEAN /\ overlapped' \in BOOLEAN
    BY <1>1, <2>1, RunType
  <2>3. DataOK'
    BY <1>1, <1>5 DEF DataOK, Notify, OnRebaseRequired, ResetAndRebuild, Flush, diskVars
  <2>4. FlagOK'
    <3>1. CASE Notify
      BY <1>1, <2>2, <3>1 DEF FlagOK, Notify, envVars, lifeVars
    <3>2. CASE OnRebaseRequired
      BY <1>1, <2>2, <3>2 DEF FlagOK, OnRebaseRequired, lifeVars
    <3>3. CASE ResetAndRebuild
      BY <1>1, <2>2, <3>3 DEF FlagOK, ResetAndRebuild, envVars, lifeVars
    <3>4. CASE \E c \in Readers : Flush(c)
      BY <1>1, <2>2, <3>4 DEF FlagOK, Flush, envVars, lifeVars
    <3> QED BY <1>5, <3>1, <3>2, <3>3, <3>4
  <2>a. CountOK'
    BY <1>1, <1>5, ProjectionConstants DEF CountOK, Notify, OnRebaseRequired, ResetAndRebuild, Flush
  <2>5. FlushOK'
    <3>1. CASE flush' = flush
      BY <1>1, <2>1, <3>1 DEF FlushOK
    <3>2. ASSUME NEW c \in Readers, Flush(c) PROVE FlushOK'
      <4>1. [st |-> IF Busy("run") THEN "joined" ELSE "owner", need |-> Len(rows)] \in FlushType(rows)
        BY <1>1 DEF FlushType
      <4> QED BY <1>1, <3>2, <4>1 DEF FlushOK, Flush, diskVars
    <3> QED BY <1>5, <3>1, <3>2 DEF Notify, OnRebaseRequired, ResetAndRebuild
  <2> QED BY <2>2, <2>3, <2>4, <2>5, <2>a
<1>6. CASE StartStep
  <2>1. DataOK' /\ FlushOK'
    BY <1>1, <1>6 DEF DataOK, FlushOK, StartStep, Start, LoadOrInitializeMeta, Bootstrap, diskVars
  <2>2. FlagOK'
    <3>1. CASE Start
      BY <1>1, <3>1 DEF FlagOK, Start, envVars, Busy
    <3>2. CASE LoadOrInitializeMeta
      BY <1>1, <3>2 DEF FlagOK, LoadOrInitializeMeta, envVars, lifeVars
    <3>3. CASE Bootstrap
      BY <1>1, <3>3 DEF FlagOK, Bootstrap, envVars, history
    <3> QED BY <1>6, <3>1, <3>2, <3>3 DEF StartStep
  <2>a. CountOK'
    BY <1>1, <1>6 DEF CountOK, StartStep, Start, LoadOrInitializeMeta, Bootstrap
  <2>3. LoopOK'
    <3>1. \E p \in Labels \ {"put"} : Goto("start", p)
      BY <1>6 DEF Labels, Goto, StartStep, Start, LoadOrInitializeMeta, Bootstrap
    <3>2. rows' = rows
      BY <1>6 DEF StartStep, Start, LoadOrInitializeMeta, Bootstrap, diskVars
    <3> QED BY <1>1, <3>1, <3>2, LoopGoto
  <2> QED BY <2>1, <2>2, <2>3, <2>a
<1>7. ASSUME NEW l \in Loops,
             Enter(l) \/ BeginRebuild(l) \/ ResetMemory(l) \/ ClearPersisted(l) \/ SaveReset(l)
      PROVE  DataOK' /\ LoopOK' /\ FlushOK' /\ FlagOK' /\ CountOK'
  <2> USE DEF Enter, BeginRebuild, ResetMemory, ClearPersisted, SaveReset
  <2>1. Zero \in Positions(rows)
    BY <1>1, ResetFits
  <2>2. FlushOK' /\ CountOK' /\ rows' = rows
    BY <1>1, <1>7 DEF FlushOK, CountOK, diskVars
  <2>a. DataOK'
    <3>1. CASE Enter(l)
      BY <1>1, <3>1 DEF DataOK, diskVars
    <3>4. CASE ClearPersisted(l)
      <4>1. <<>> \in Seq(DOMAIN rows)
        OBVIOUS
      <4> QED BY <1>1, <3>4, <4>1 DEF DataOK
    <3>2. CASE BeginRebuild(l) \/ SaveReset(l)
      BY <1>1, <3>2 DEF DataOK
    <3>3. CASE ResetMemory(l)
      BY <1>1, <2>1, <3>3 DEF DataOK, diskVars
    <3> QED BY <1>7, <3>1, <3>2, <3>3, <3>4
  <2>3. FlagOK'
    <3>1. CASE Enter(l) \/ ResetMemory(l)
      BY <1>1, <3>1 DEF FlagOK, envVars, lifeVars, history
    <3>2. CASE BeginRebuild(l)
      BY <1>1, <3>2 DEF FlagOK, envVars, lifeVars, history
    <3>3. CASE ClearPersisted(l) \/ SaveReset(l)
      BY <1>1, <3>3 DEF FlagOK, envVars, lifeVars, history
    <3> QED BY <1>7, <3>1, <3>2, <3>3
  <2>4. (\E p \in Labels \ {"put"} : Goto(l, p)) /\ rows' = rows
    BY <1>7 DEF Labels, diskVars
  <2>5. LoopOK'
    BY <1>1, <2>4, LoopGoto
  <2> QED BY <2>2, <2>3, <2>5, <2>a
<1>8. ASSUME NEW l \in Loops, ReadNextBatch(l)
      PROVE  DataOK' /\ LoopOK' /\ FlushOK' /\ FlagOK' /\ CountOK'
  <2>1. DataOK' /\ FlushOK' /\ CountOK' /\ rows' = rows
    BY <1>1, <1>8 DEF DataOK, FlushOK, CountOK, ReadNextBatch
  <2>2. FlagOK'
    BY <1>1, <1>8 DEF FlagOK, ReadNextBatch, envVars, lifeVars, history
  <2>3. PICK b \in ReadEffectiveOrdered(cursor) :
          \/ Goto(l, "finish")
          \/ loop' = [loop EXCEPT ![l] = [NoWork EXCEPT !.pc = "apply", !.batch = b,
                                                      !.full = Len(b) = BatchSize]]
    BY <1>8 DEF ReadNextBatch
  <2>4. CASE Goto(l, "finish")
    BY <1>1, <2>1, <2>2, <2>4, LoopGoto DEF Labels
  <2>5. CASE loop' = [loop EXCEPT ![l] = [NoWork EXCEPT !.pc = "apply", !.batch = b,
                                                      !.full = Len(b) = BatchSize]]
    <3>1. b \in Seq(Entries(rows))
      BY <1>1, PageFits
    <3>2. NoWork \in LoopType(rows)
      BY <1>1, NoWorkType DEF Labels
    <3>3. [NoWork EXCEPT !.pc = "apply", !.batch = b, !.full = Len(b) = BatchSize] \in LoopType(rows)
      BY <3>1, <3>2 DEF LoopType, Labels
    <3>4. [NoWork EXCEPT !.pc = "apply", !.batch = b, !.full = Len(b) = BatchSize].pc = "apply"
      BY DEF NoWork
    <3>5. LoopOK'
      BY <1>1, <2>1, <2>5, <3>3, <3>4, LoopSet
    <3> QED BY <2>1, <2>2, <3>5
  <2> QED BY <2>3, <2>4, <2>5
<1>9. ASSUME NEW l \in Loops, ApplyEvent(l)
      PROVE  DataOK' /\ LoopOK' /\ FlushOK' /\ FlagOK' /\ CountOK'
  <2> DEFINE e == Head(loop[l].batch)
             w == [loop[l] EXCEPT !.pc = "put", !.prev = IF mem # <<>> THEN mem ELSE cache,
                                  !.next = AdvanceEffectiveCursor(cursor, e)]
  <2>1. DataOK' /\ FlushOK' /\ CountOK' /\ rows' = rows
    BY <1>1, <1>9 DEF DataOK, FlushOK, CountOK, ApplyEvent, diskVars
  <2>2. FlagOK'
    BY <1>1, <1>9 DEF FlagOK, ApplyEvent, envVars, lifeVars, history
  <2>3. loop[l] \in LoopType(rows) /\ loop[l].batch \in Seq(Entries(rows)) /\ loop[l].batch # <<>>
    BY <1>1, <1>9 DEF LoopOK, LoopType, ApplyEvent
  <2>4. e \in Entries(rows)
    BY <2>3
  <2>5. AdvanceEffectiveCursor(cursor, e) \in Positions(rows)
    <3> HIDE DEF e
    <3>1. DOMAIN rows = 1..Len(rows) /\ cursor \in Positions(rows) /\ Len(rows) \in Nat
      BY <1>1 DEF DataOK
    <3>2. e.k \in 0..Len(rows) /\ e.g \in 0..TopOf(rows)
      BY <2>4, <3>1 DEF Entries
    <3> QED BY <3>1, <3>2 DEF Positions, AdvanceEffectiveCursor
  <2>6. loop' = [loop EXCEPT ![l] = w]
    BY <1>9 DEF ApplyEvent
  <2>7. (IF mem # <<>> THEN mem ELSE cache) \in Seq(DOMAIN rows) /\ "put" \in Labels
    BY <1>1 DEF DataOK, Labels
  <2>8. w \in LoopType(rows) /\ w.batch = loop[l].batch
    <3> HIDE DEF e
    <3> QED BY <2>3, <2>5, <2>7 DEF LoopType
  <2>9. LoopOK'
    <3> HIDE DEF e, w
    <3> QED BY <1>1, <2>1, <2>3, <2>6, <2>8, LoopSet
  <2> QED BY <2>1, <2>2, <2>9
<1>10. ASSUME NEW l \in Loops, PersistSnapshot(l) \/ SkipEvent(l)
       PROVE  DataOK' /\ LoopOK' /\ FlushOK' /\ FlagOK' /\ CountOK'
  <2> DEFINE e == Head(loop[l].batch)
             w == [loop[l] EXCEPT !.pc = "apply", !.batch = Tail(loop[l].batch), !.prev = <<>>,
                                  !.next = Zero]
  <2>1. Applied(l)
    BY <1>10 DEF PersistSnapshot, SkipEvent
  <2>2. rows' = rows /\ meta' = meta /\ cursor' = loop[l].next /\ loop' = [loop EXCEPT ![l] = w]
        /\ UNCHANGED <<envVars, lifeVars, rebuild, again, notified, flush, reloads, history>>
    BY <2>1 DEF Applied
  <2>3. /\ loop[l] \in LoopType(rows) /\ loop[l].batch \in Seq(Entries(rows)) /\ loop[l].batch # <<>>
        /\ loop[l].next \in Positions(rows) /\ loop[l].prev \in Seq(DOMAIN rows)
    BY <1>1, <2>1 DEF LoopOK, LoopType, Applied
  <2>4. e \in Entries(rows)
    BY <2>3
  <2>5. e.k \in DOMAIN rows
    <3> HIDE DEF e
    <3> QED BY <2>4 DEF Entries
  <2>6. /\ cache' = cache \/ cache' = Append(loop[l].prev, e.k)
        /\ mem' = mem \/ mem' = Append(loop[l].prev, e.k)
        /\ skipped' = skipped \/ skipped' = skipped \cup {e.k}
        /\ faults' = faults \/ (faults' = faults + 1 /\ faults < MaxEventFaults)
    <3>1. CASE PersistSnapshot(l)
      <4>1. cache' = Append(loop[l].prev, e.k) /\ mem' = Append(loop[l].prev, e.k)
        BY <3>1, Zenon DEF PersistSnapshot
      <4>2. faults' = faults /\ skipped' = skipped
        BY <3>1 DEF PersistSnapshot
      <4> HIDE DEF e
      <4> QED BY <4>1, <4>2, Zenon
    <3>2. CASE SkipEvent(l)
      BY <3>2 DEF SkipEvent
    <3> QED BY <1>10, <3>1, <3>2
  <2> HIDE DEF e
  <2>7. DataOK'
    <3>1. Append(loop[l].prev, e.k) \in Seq(DOMAIN rows)
      BY <2>3, <2>5
    <3> QED BY <1>1, <2>2, <2>3, <2>5, <2>6, <3>1 DEF DataOK
  <2>8. FlushOK' /\ FlagOK' /\ CountOK'
    <3>1. FlushOK' /\ FlagOK'
      BY <1>1, <2>2 DEF FlushOK, FlagOK, envVars, lifeVars, history
    <3>2. CountOK'
      BY <1>1, <2>2, <2>6, ProjectionConstants DEF CountOK
    <3> QED BY <3>1, <3>2
  <2>9. w \in LoopType(rows) /\ w.pc = "apply"
    <3>1. Zero \in Positions(rows)
      BY <1>1, ResetFits
    <3>2. Tail(loop[l].batch) \in Seq(Entries(rows)) /\ <<>> \in Seq(DOMAIN rows) /\ "apply" \in Labels
      BY <2>3 DEF Labels
    <3> QED BY <2>3, <3>1, <3>2 DEF LoopType
  <2>10. LoopOK'
    <3> HIDE DEF w
    <3> QED BY <1>1, <2>2, <2>9, LoopSet
  <2> QED BY <2>7, <2>8, <2>10
<1>11. ASSUME NEW l \in Loops, PersistCursorState(l)
       PROVE  DataOK' /\ LoopOK' /\ FlushOK' /\ FlagOK' /\ CountOK'
  <2> DEFINE p == IF loop[l].full THEN "read" ELSE "finish"
  <2>1. DataOK' /\ FlushOK' /\ CountOK' /\ rows' = rows
    BY <1>1, <1>11 DEF DataOK, FlushOK, CountOK, PersistCursorState
  <2>2. FlagOK'
    BY <1>1, <1>11 DEF FlagOK, PersistCursorState, envVars, lifeVars, history
  <2>3. p \in Labels /\ p # "put"
    BY DEF Labels
  <2>4. loop' = [loop EXCEPT ![l] = [NoWork EXCEPT !.pc = p]]
    BY <1>11 DEF PersistCursorState
  <2> HIDE DEF p
  <2>5. [NoWork EXCEPT !.pc = p] \in LoopType(rows) /\ [NoWork EXCEPT !.pc = p].pc # "put"
    BY <1>1, <2>3, NoWorkType DEF NoWork
  <2>6. LoopOK'
    BY <1>1, <2>1, <2>4, <2>5, LoopSet
  <2> QED BY <2>1, <2>2, <2>6
<1>12. ASSUME NEW l \in Loops, Finish(l) \/ FailEvent(l)
       PROVE  DataOK' /\ LoopOK' /\ FlushOK' /\ FlagOK' /\ CountOK'
  <2>1. DataOK' /\ rows' = rows
    BY <1>1, <1>12 DEF DataOK, Finish, FailEvent, diskVars
  <2>2. Ends(l, TRUE) \/ Ends(l, FALSE)
    BY <1>12 DEF Finish, FailEvent
  <2>3. LoopOK' /\ FlushOK' /\ again' \in BOOLEAN /\ ready' \in BOOLEAN
    BY <1>1, <2>1, <2>2, EndsType
  <2>4. FlagOK'
    <3>1. UNCHANGED <<envVars, started, subscribed, rebuild, notified, history>>
      BY <1>12 DEF Finish, FailEvent
    <3> QED
      BY <1>1, <2>3, <3>1 DEF FlagOK, envVars, history
  <2>5. CountOK'
    <3>1. reloads' = reloads /\ (faults' = faults \/ (faults' = faults + 1 /\ faults < MaxEventFaults))
      <4>1. CASE Finish(l)
        BY <4>1, Zenon DEF Finish
      <4>2. CASE FailEvent(l)
        BY <4>2, Zenon DEF FailEvent
      <4> QED BY <1>12, <4>1, <4>2
    <3> QED BY <1>1, <3>1, ProjectionConstants DEF CountOK
  <2> QED BY <2>1, <2>3, <2>4, <2>5
<1>14. ASSUME NEW l \in Loops, FailAnalytics(l)
       PROVE  DataOK' /\ LoopOK' /\ FlushOK' /\ FlagOK' /\ CountOK'
  <2> DEFINE e == Head(loop[l].batch)
  <2>1. /\ Ends(l, FALSE) /\ UNCHANGED <<rows, meta, cursor, reloads, skipped>>
        /\ faults' = faults + 1 /\ faults < MaxEventFaults /\ loop[l].pc = "put"
        /\ cache' = Append(loop[l].prev, e.k) /\ mem' = Append(loop[l].prev, e.k)
    BY <1>14, Zenon DEF FailAnalytics, At
  <2>2. loop[l] \in LoopType(rows) /\ loop[l].batch # <<>>
    BY <1>1, <2>1 DEF LoopOK, At
  <2>3. e \in Entries(rows)
    <3>1. loop[l].batch \in Seq(Entries(rows)) /\ loop[l].batch # <<>>
      BY <2>2 DEF LoopType
    <3> QED BY <3>1
  <2>4. e.k \in DOMAIN rows /\ loop[l].prev \in Seq(DOMAIN rows)
    <3> HIDE DEF e
    <3> QED BY <2>2, <2>3 DEF Entries, LoopType
  <2> HIDE DEF e
  <2>5. DataOK'
    <3>1. Append(loop[l].prev, e.k) \in Seq(DOMAIN rows)
      BY <2>4
    <3> QED BY <1>1, <2>1, <3>1 DEF DataOK
  <2>6. LoopOK' /\ FlushOK' /\ again' \in BOOLEAN /\ ready' \in BOOLEAN
    BY <1>1, <2>1, EndsType
  <2>7. FlagOK'
    BY <1>1, <1>14, <2>6 DEF FlagOK, FailAnalytics, envVars
  <2>8. CountOK'
    BY <1>1, <2>1, ProjectionConstants DEF CountOK
  <2> QED BY <2>5, <2>6, <2>7, <2>8
<1>13. CASE Reload
  <2>1. Zero \in Positions(rows) /\ NoWork \in LoopType(rows)
    BY <1>1, NoWorkType DEF Labels
  <2>2. DataOK'
    BY <1>1, <1>13, <2>1 DEF Reload, DataOK, diskVars
  <2>3. LoopOK'
    BY <1>1, <1>13, <2>1 DEF Reload, LoopOK, At, NoWork, diskVars
  <2>4. FlushOK'
    <3>1. NoFlush \in FlushType(rows)
      BY <1>1 DEF NoFlush, FlushType
    <3> QED BY <1>13, <3>1 DEF Reload, FlushOK, diskVars
  <2>5. FlagOK'
    BY <1>1, <1>13 DEF Reload, FlagOK
  <2>6. CountOK'
    BY <1>1, <1>13, ProjectionConstants DEF CountOK, Reload
  <2> QED BY <2>2, <2>3, <2>4, <2>5, <2>6
<1> QED
  BY <1>3, <1>4, <1>5, <1>6, <1>7, <1>8, <1>9, <1>10, <1>11, <1>12, <1>13, <1>14 DEF ProjectionNext, LoopStep, RowStep

\* The first state has the types.
LEMMA ProjectionTypeInit == ProjectionInit => ProjectionTypeOK
<1>1. ASSUME ProjectionInit PROVE DataOK /\ LoopOK /\ FlushOK /\ FlagOK /\ CountOK
  <2>1. <<>> \in Seq(Nat) /\ DOMAIN <<>> = {} /\ rows = <<>>
    BY <1>1 DEF ProjectionInit
  <2>2. Zero \in Positions(rows) /\ NoWork \in LoopType(rows)
    BY <2>1, NoWorkType DEF Labels
  <2>3. NoFlush \in FlushType(rows)
    BY <2>1 DEF NoFlush, FlushType
  <2>4. DataOK /\ LoopOK /\ FlushOK
    BY <1>1, <2>1, <2>2, <2>3 DEF ProjectionInit, DataOK, LoopOK, FlushOK, At, NoWork
  <2>5. FlagOK
    BY <1>1 DEF ProjectionInit, FlagOK
  <2>6. CountOK
    BY <1>1, ProjectionConstants DEF ProjectionInit, CountOK
  <2> QED BY <2>4, <2>5, <2>6
<1> QED BY <1>1, TypeParts

\* Every field of the runtime and both tables keep their type (ProjectionRuntime,
\* ProjectionMetaStore, ProjectionCacheStore), and neither the cursor in memory nor the
\* saved one passes the rows there are.
THEOREM RuntimeTyped == ProjectionSpec => []ProjectionTypeOK
BY ProjectionTypeInit, TypeStep, PTL DEF ProjectionSpec

-----------------------------------------------------------------------------
(* One loop at a time, and the life of the runtime *)

\* Two loops at once are noted, and before start() has read the cache nobody waits for it.
LEMMA LifeStep ==
  ASSUME ProjectionTypeOK, AloneInv, LifeInv, [ProjectionNext]_projectionVars PROVE AloneInv' /\ LifeInv'
<1> USE DEF AloneInv, LifeInv, Busy, Loops
<1>1. DataOK /\ LoopOK /\ FlushOK /\ FlagOK /\ rows \in Seq(Nat)
  BY TypeParts DEF DataOK
<1>2. "start" \in Loops /\ "run" \in Loops /\ DOMAIN loop = Loops
  BY <1>1 DEF LoopOK
<1>3. CASE RowStep
  <2>1. /\ UNCHANGED <<lifeVars, loop, history>>
        /\ notified' = (notified \/ subscribed)
    BY <1>1, <1>3, RowStepFrame DEF FlagOK
  <2> QED BY <2>1 DEF lifeVars, history
<1>4. CASE StartPull \/ CheckPending \/ PullFails \/ (\E c \in Readers : Answer(c)) \/ UNCHANGED projectionVars
  <2>1. UNCHANGED <<lifeVars, loop, notified, overlapped>>
    BY <1>4 DEF StartPull, CheckPending, PullFails, Answer, projectionVars, lifeVars, history
  <2> QED BY <2>1 DEF lifeVars
<1>5. CASE Notify \/ OnRebaseRequired \/ ResetAndRebuild \/ (\E c \in Readers : Flush(c))
  <2>1. UNCHANGED lifeVars /\ (notified' = notified \/ notified' = FALSE) /\ Run
    BY <1>5 DEF Notify, OnRebaseRequired, ResetAndRebuild, Flush
  <2>2. loop'["start"] = loop["start"]
    BY <1>1, <1>2, <2>1 DEF Run, LoopOK
  <2>3. LifeInv'
    BY <2>1, <2>2 DEF lifeVars
  <2>4. AloneInv'
    BY <1>1, <2>1, <2>2 DEF Run, FlagOK
  <2> QED BY <2>3, <2>4
<1>6. CASE StartStep
  <2>1. loop'["run"] = loop["run"]
    BY <1>1, <1>2, <1>6 DEF StartStep, Start, LoadOrInitializeMeta, Bootstrap, LoopOK
  <2>2. CASE Start
    <3>1. loop'["start"].pc = "load" /\ started' = TRUE /\ ~started
          /\ UNCHANGED <<ready, subscribed, notified>> /\ overlapped' = (overlapped \/ Busy("run"))
      BY <1>1, <1>2, <2>2 DEF Start, LoopOK, LoopType
    <3> QED BY <2>1, <3>1
  <2>3. CASE LoadOrInitializeMeta
    <3>1. loop'["start"].pc = "boot" /\ loop["start"].pc = "load" /\ UNCHANGED <<lifeVars, notified, overlapped>>
      BY <1>1, <1>2, <2>3 DEF LoadOrInitializeMeta, LoopOK, LoopType
    <3> QED BY <2>1, <3>1 DEF lifeVars
  <2>4. CASE Bootstrap
    <3>1. loop'["start"].pc = "enter" /\ loop["start"].pc = "boot" /\ UNCHANGED <<started, ready, notified, overlapped>>
      BY <1>1, <1>2, <2>4 DEF Bootstrap, LoopOK, LoopType, history
    <3> QED BY <2>1, <3>1
  <2> QED BY <1>6, <2>2, <2>3, <2>4 DEF StartStep
<1>7. ASSUME NEW l \in Loops, LoopStep(l) \/ SkipEvent(l) \/ FailEvent(l) \/ FailAnalytics(l)
      PROVE  AloneInv' /\ LifeInv'
  <2>1. /\ loop[l].pc \notin {"idle", "load", "boot"} /\ loop'[l].pc \notin {"load", "boot"}
        /\ \A m \in Loops \ {l} : loop'[m] = loop[m]
        /\ UNCHANGED <<started, subscribed, notified, overlapped>>
        /\ ready' = ready \/ (l = "start" /\ loop'[l].pc = "idle")
    <3>1. CASE Finish(l) \/ FailEvent(l) \/ FailAnalytics(l)
      <4>1. Ends(l, TRUE) \/ Ends(l, FALSE)
        BY <3>1 DEF Finish, FailEvent, FailAnalytics
      <4>2. UNCHANGED <<started, subscribed, notified, overlapped>> /\ loop[l].pc \in {"finish", "put"}
        BY <3>1 DEF Finish, FailEvent, FailAnalytics, history, At
      <4>3. ready' = ready \/ (l = "start" /\ loop' = [loop EXCEPT ![l] = NoWork])
        BY <1>1, <4>1 DEF Ends, FlagOK
      <4>4. loop' = [loop EXCEPT ![l] = NoWork] \/ loop' = [loop EXCEPT ![l] = [NoWork EXCEPT !.pc = "enter"]]
        BY <4>1 DEF Ends
      <4> QED BY <1>2, <4>2, <4>3, <4>4 DEF NoWork
    <3>2. CASE PersistSnapshot(l) \/ SkipEvent(l)
      <4>1. Applied(l)
        BY <3>2 DEF PersistSnapshot, SkipEvent
      <4> QED BY <1>1, <1>2, <4>1 DEF Applied, LoopOK, LoopType, lifeVars, history, At
    <3>3. CASE Enter(l) \/ BeginRebuild(l) \/ ResetMemory(l) \/ ClearPersisted(l) \/ SaveReset(l)
      BY <1>1, <1>2, <3>3 DEF Enter, BeginRebuild, ResetMemory, ClearPersisted, SaveReset, Goto, At,
         LoopOK, LoopType, lifeVars, history
    <3>4. CASE ReadNextBatch(l)
      <4>1. At(l, "read") /\ UNCHANGED <<lifeVars, notified, history>>
        BY <3>4 DEF ReadNextBatch
      <4>2. PICK b : \/ Goto(l, "finish")
                     \/ loop' = [loop EXCEPT ![l] = [NoWork EXCEPT !.pc = "apply", !.batch = b,
                                                              !.full = Len(b) = BatchSize]]
        BY <3>4 DEF ReadNextBatch
      <4>3. loop'[l].pc \in {"finish", "apply"} /\ \A m \in Loops \ {l} : loop'[m] = loop[m]
        <5>1. CASE Goto(l, "finish")
          BY <1>1, <1>2, <5>1 DEF Goto, LoopOK, LoopType
        <5>2. CASE loop' = [loop EXCEPT ![l] = [NoWork EXCEPT !.pc = "apply", !.batch = b,
                                                              !.full = Len(b) = BatchSize]]
          BY <1>2, <5>2 DEF NoWork
        <5> QED BY <4>2, <5>1, <5>2
      <4> QED BY <4>1, <4>3 DEF At, lifeVars, history
    <3>5. CASE ApplyEvent(l) \/ PersistCursorState(l)
      BY <1>1, <1>2, <3>5 DEF ApplyEvent, PersistCursorState, NoWork, Goto, At, LoopOK, LoopType, lifeVars, history
    <3> QED BY <1>7, <3>1, <3>2, <3>3, <3>4, <3>5 DEF LoopStep
  <2>2. CASE l = "start"
    BY <2>1, <2>2
  <2>3. CASE l = "run"
    BY <2>1, <2>3
  <2> QED BY <2>2, <2>3
<1>8. CASE Reload
  BY <1>8 DEF Reload, NoWork
<1> QED BY <1>3, <1>4, <1>5, <1>6, <1>7, <1>8 DEF ProjectionNext, RowStep

-----------------------------------------------------------------------------
(* The fold *)

\* The definitions of the invariant, in this state and in the next, by their parameters.
LEMMA FitsNow ==
  /\ Loaded <=> cache = mem /\ FitsIn(rows, skipped, Pardoned, mem, cursor)
  /\ DiskFits <=> FitsIn(rows, skipped, Pardoned, cache, meta)
  /\ \A l : BatchFits(l) <=> BatchIn(rows, Pardoned, cursor, loop[l].batch)
BY DEF Loaded, DiskFits, Fits, FitsIn, Folded, Unread, UnreadIn, Ascending, Before, BeforeIn, BatchFits,
   BatchIn, Follows, CommitSeqs

\* The same in the next state.
LEMMA FitsNext ==
  /\ Loaded' <=> cache' = mem' /\ FitsIn(rows', skipped', Pardoned', mem', cursor')
  /\ DiskFits' <=> FitsIn(rows', skipped', Pardoned', cache', meta')
  /\ \A l : BatchFits(l)' <=> BatchIn(rows', Pardoned', cursor', loop'[l].batch)
BY DEF Loaded, DiskFits, Fits, FitsIn, Folded, Unread, UnreadIn, Ascending, Before, BeforeIn, BatchFits,
   BatchIn, Follows, CommitSeqs

\* What fits stays so when rows are written, as long as a rebuild that is due is not
\* forgotten.
LEMMA Keeps ==
  ASSUME DataOK, LoopOK, Grown(rows, rows', Pardoned'), Pardoned => Pardoned',
         UNCHANGED <<cache, cursor, mem, skipped>>
  PROVE  /\ Loaded => Loaded'
         /\ meta' = meta /\ DiskFits => DiskFits'
         /\ meta' = meta /\ Virgin => Virgin'
         /\ \A l \in Loops : loop'[l].batch = loop[l].batch /\ BatchFits(l) => BatchFits(l)'
<1>1. /\ cursor \in Positions(rows) /\ meta \in Positions(rows)
      /\ mem \in Seq(DOMAIN rows) /\ cache \in Seq(DOMAIN rows)
  BY DEF DataOK
<1>2. Loaded => Loaded'
  <2>1. SUFFICES ASSUME Loaded PROVE Loaded'
    OBVIOUS
  <2>2. FitsIn(rows, skipped, Pardoned, mem, cursor) /\ cache = mem
    BY <2>1, FitsNow
  <2>3. FitsIn(rows', skipped, Pardoned', mem, cursor)
    BY <1>1, <2>2, FitsGrows
  <2> QED BY <2>2, <2>3, FitsNext
<1>3. meta' = meta /\ DiskFits => DiskFits'
  <2>1. SUFFICES ASSUME DiskFits, meta' = meta PROVE DiskFits'
    OBVIOUS
  <2>2. FitsIn(rows, skipped, Pardoned, cache, meta)
    BY <2>1, FitsNow
  <2>3. FitsIn(rows', skipped, Pardoned', cache, meta)
    BY <1>1, <2>2, FitsGrows
  <2> QED BY <2>1, <2>3, FitsNext
<1>4. ASSUME NEW l \in Loops, loop'[l].batch = loop[l].batch, BatchFits(l) PROVE BatchFits(l)'
  <2>1. loop[l].batch \in Seq(Entries(rows))
    BY DEF LoopOK, LoopType
  <2>2. BatchIn(rows, Pardoned, cursor, loop[l].batch)
    BY <1>4, FitsNow
  <2>3. BatchIn(rows', Pardoned', cursor, loop[l].batch)
    <3> DEFINE b == loop[l].batch
               due == Pardoned
               due2 == Pardoned'
               a == Pardoned'
    <3>1. /\ b \in Seq(Entries(rows)) /\ BatchIn(rows, due, cursor, b) /\ (due => due2)
          /\ Grown(rows, rows', a) /\ (a => due2)
      BY <2>1, <2>2
    <3> HIDE DEF a, b, due, due2
    <3>2. BatchIn(rows', due2, cursor, b)
      BY <1>1, <3>1, BatchGrows
    <3> QED BY <3>2 DEF b, due2
  <2> QED BY <1>4, <2>3, FitsNext
<1> QED BY <1>2, <1>3, <1>4 DEF Virgin

\* Soundness is not regained.
LEMMA SoundBefore == ASSUME [ProjectionNext]_projectionVars, Sound' PROVE Sound
<1> USE DEF Sound
<1>1. CASE Commit \/ ApplyRemoteEvents \/ StartPull \/ CheckPending \/ PullFails
  <2>1. CASE Commit
    BY <2>1 DEF Commit, history
  <2>2. CASE ApplyRemoteEvents
    BY <2>2 DEF ApplyRemoteEvents, history
  <2>3. CASE StartPull
    BY <2>3 DEF StartPull, history
  <2>4. CASE CheckPending
    BY <2>4 DEF CheckPending
  <2>5. CASE PullFails
    BY <2>5 DEF PullFails
  <2> QED BY <1>1, <2>1, <2>2, <2>3, <2>4, <2>5
<1>2. CASE (\E k \in CommitSeqs : ApplyAssignments(k)) \/ (\E c \in Readers : Answer(c)) \/ UNCHANGED projectionVars
  BY <1>2 DEF ApplyAssignments, Answer, projectionVars, history
<1>3. CASE Notify \/ OnRebaseRequired \/ ResetAndRebuild \/ \E c \in Readers : Flush(c)
  <2>1. Run /\ torn' = torn /\ missed' = missed
    BY <1>3 DEF Notify, OnRebaseRequired, ResetAndRebuild, Flush
  <2> QED BY <2>1 DEF Run
<1>4. CASE StartStep
  <2>1. CASE Start
    BY <2>1 DEF Start
  <2>2. CASE LoadOrInitializeMeta
    BY <2>2 DEF LoadOrInitializeMeta
  <2>3. CASE Bootstrap
    BY <2>3 DEF Bootstrap, history
  <2> QED BY <1>4, <2>1, <2>2, <2>3 DEF StartStep
<1>5. ASSUME NEW l \in Loops, LoopStep(l) \/ SkipEvent(l) \/ FailEvent(l) \/ FailAnalytics(l) PROVE Sound
  <2>1. CASE Enter(l) \/ BeginRebuild(l) \/ ResetMemory(l) \/ ClearPersisted(l) \/ SaveReset(l)
    BY <2>1 DEF Enter, BeginRebuild, ResetMemory, ClearPersisted, SaveReset, history
  <2>2. CASE ReadNextBatch(l) \/ ApplyEvent(l) \/ PersistCursorState(l) \/ Finish(l) \/ FailEvent(l)
    <3>1. CASE ReadNextBatch(l)
      BY <3>1 DEF ReadNextBatch, history
    <3>2. CASE ApplyEvent(l) \/ PersistCursorState(l)
      BY <3>2 DEF ApplyEvent, PersistCursorState, history
    <3>3. CASE Finish(l)
      BY <3>3 DEF Finish, history
    <3>4. CASE FailEvent(l)
      BY <3>4 DEF FailEvent, history
    <3> QED BY <2>2, <3>1, <3>2, <3>3, <3>4
  <2>3. CASE PersistSnapshot(l) \/ SkipEvent(l)
    BY <2>3 DEF PersistSnapshot, SkipEvent, Applied, history
  <2>4. CASE FailAnalytics(l)
    BY <2>4 DEF FailAnalytics
  <2> QED BY <1>5, <2>1, <2>2, <2>3, <2>4 DEF LoopStep
<1>6. CASE Reload
  BY <1>6 DEF Reload
<1> QED BY <1>1, <1>2, <1>3, <1>4, <1>5, <1>6 DEF ProjectionNext

\* A step that leaves the snapshot, the positions and the loops alone.
LEMMA FoldFrame ==
  ASSUME DataOK, LoopOK, FoldInv, Sound, Grown(rows, rows', Pardoned'), Pardoned => Pardoned',
         UNCHANGED <<meta, cache, cursor, mem, skipped, loop>>, started' = started, rebuild => rebuild'
  PROVE  FoldInv'
<1>1. /\ AtRest => Loaded \/ (~started /\ Virgin)
      /\ \A l \in Loops : LoopFits(l)
  BY DEF FoldInv
<1>2. /\ Loaded => Loaded'
      /\ DiskFits => DiskFits'
      /\ Virgin => Virgin'
      /\ \A l \in Loops : BatchFits(l) => BatchFits(l)'
  BY Keeps
<1>3. ASSUME NEW l \in Loops PROVE LoopFits(l)'
  <2>1. LoopFits(l) /\ (PutFits(l) => PutFits(l)')
    BY <1>1 DEF PutFits
  <2> QED BY <1>2, <2>1 DEF LoopFits, At
<1>4. AtRest' => Loaded' \/ (~started' /\ Virgin')
  BY <1>1, <1>2 DEF AtRest, Busy
<1> QED BY <1>3, <1>4 DEF FoldInv

\* A loop that is busy in a sound state is the only one; the other fits trivially.
LEMMA OtherLoop ==
  ASSUME LoopOK, AloneInv, Sound, NEW l \in Loops, Busy(l), NEW w, loop' = [loop EXCEPT ![l] = w],
         LoopFits(l)', w.pc # "idle" \/ Loaded'
  PROVE  FoldInv'
<1>1. \A m \in Loops \ {l} : loop'[m].pc = "idle" /\ loop'[m] = loop[m]
  BY DEF AloneInv, Sound, Loops, Busy, LoopOK
<1>2. \A m \in Loops \ {l} : LoopFits(m)'
  BY <1>1 DEF LoopFits, At
<1>3. AtRest' => Loaded'
  <2>1. loop'[l] = w
    BY DEF LoopOK
  <2> QED BY <2>1 DEF AtRest, Busy
<1> QED BY <1>2, <1>3 DEF FoldInv

\* The cache that is in use matches the saved position: a new page can go on with it.
LEMMA DiskFromMemory == ASSUME Loaded, Folded(cache, meta) PROVE DiskFits
<1>1. cache = mem /\ FitsIn(rows, skipped, Pardoned, mem, cursor)
  BY FitsNow
<1>2. Range(cache) \cup skipped = DOMAIN rows \ UnreadIn(rows, meta)
  BY DEF Folded, CommitSeqs, Unread, UnreadIn
<1>3. UnreadIn(rows, meta) = UnreadIn(rows, cursor)
  <2>1. DOMAIN rows \ UnreadIn(rows, meta) = DOMAIN rows \ UnreadIn(rows, cursor)
    BY <1>1, <1>2 DEF FitsIn
  <2>2. UnreadIn(rows, meta) \subseteq DOMAIN rows /\ UnreadIn(rows, cursor) \subseteq DOMAIN rows
    BY DEF UnreadIn
  <2> QED BY <2>1, <2>2
<1>4. FitsIn(rows, skipped, Pardoned, cache, meta)
  BY <1>1, <1>3 DEF FitsIn
<1> QED BY <1>4, FitsNow

\* Commands, the sync engine and callers that go on.
LEMMA FoldEnvironment ==
  ASSUME ProjectionTypeOK, FoldInv, Sound,
         \/ RowStep \/ StartPull \/ (\E c \in Readers : Answer(c)) \/ UNCHANGED projectionVars
         \/ (CheckPending \/ PullFails) /\ Sound'
  PROVE  FoldInv'
<1>1. DataOK /\ LoopOK /\ FlagOK /\ rows \in Seq(Nat)
  BY TypeParts DEF DataOK
<1>2. CASE RowStep
  <2>1. /\ Grown(rows, rows', ahead') /\ (ahead => ahead') /\ (poll = "rebase" => poll' = "rebase")
        /\ UNCHANGED <<meta, cache, cursor, mem, lifeVars, rebuild, loop, skipped>>
    BY <1>1, <1>2, RowStepFrame DEF FlagOK
  <2>2. (Pardoned => Pardoned') /\ (ahead' => Pardoned')
    BY <2>1 DEF Pardoned, At
  <2>3. Grown(rows, rows', Pardoned')
    BY <2>1, <2>2 DEF Grown
  <2> QED BY <1>1, <2>1, <2>2, <2>3, FoldFrame DEF lifeVars
<1>3. CASE StartPull \/ (\E c \in Readers : Answer(c)) \/ UNCHANGED projectionVars
  <2>1. UNCHANGED <<ahead, rows, meta, cache, cursor, mem, started, rebuild, loop, skipped>>
        /\ (poll = "rebase" => poll' = "rebase")
    BY <1>3 DEF StartPull, Answer, projectionVars, envVars, diskVars, lifeVars
  <2>2. Pardoned => Pardoned'
    BY <2>1 DEF Pardoned, At
  <2>3. Grown(rows, rows', Pardoned')
    BY <1>1, <2>1, SameGrows
  <2> QED BY <1>1, <2>1, <2>2, <2>3, FoldFrame
<1>4. CASE (CheckPending \/ PullFails) /\ Sound'
  <2>1. UNCHANGED <<rows, meta, cache, cursor, mem, started, rebuild, loop, skipped>> /\ poll # "rebase"
        /\ (ahead => poll' = "rebase")
    BY <1>1, <1>4 DEF CheckPending, PullFails, diskVars, lifeVars, Sound, FlagOK
  <2>2. Pardoned => Pardoned'
    BY <2>1 DEF Pardoned, At
  <2>3. Grown(rows, rows', Pardoned')
    BY <1>1, <2>1, SameGrows
  <2> QED BY <1>1, <2>1, <2>2, <2>3, FoldFrame
<1> QED BY <1>2, <1>3, <1>4

\* A pass is asked for.
LEMMA FoldRun ==
  ASSUME ProjectionTypeOK, FoldInv, LifeInv, Sound, Sound',
         Notify \/ OnRebaseRequired \/ ResetAndRebuild \/ \E c \in Readers : Flush(c)
  PROVE  FoldInv'
<1>1. DataOK /\ LoopOK /\ FlagOK /\ rows \in Seq(Nat)
  BY TypeParts DEF DataOK
<1>2. /\ UNCHANGED <<ahead, rows, meta, cache, cursor, mem, started, skipped>> /\ Run
      /\ (rebuild => rebuild') /\ (poll = "rebase" => poll' = "rebase" \/ rebuild')
      /\ rebuild' \/ started
  <2>1. CASE Notify
    BY <2>1 DEF Notify, envVars, diskVars, lifeVars, LifeInv
  <2>2. CASE OnRebaseRequired \/ ResetAndRebuild
    BY <2>2 DEF OnRebaseRequired, ResetAndRebuild, envVars, diskVars, lifeVars
  <2>3. CASE \E c \in Readers : Flush(c)
    BY <2>3 DEF Flush, envVars, diskVars, lifeVars, LifeInv
  <2> QED BY <2>1, <2>2, <2>3
<1>3. Grown(rows, rows', Pardoned')
  BY <1>1, <1>2, SameGrows
<1>4. CASE Busy("run")
  <2>1. loop' = loop
    BY <1>2, <1>4 DEF Run
  <2>2. Pardoned => Pardoned'
    BY <1>2, <2>1 DEF Pardoned, At
  <2> QED BY <1>1, <1>2, <1>3, <2>1, <2>2, FoldFrame
<1>5. CASE ~Busy("run")
  <2>1. loop' = [loop EXCEPT !["run"] = [NoWork EXCEPT !.pc = "enter"]] /\ ~Busy("start")
    BY <1>2, <1>5 DEF Run, Sound
  <2>2. loop'["run"].pc = "enter" /\ loop'["start"].pc = "idle"
    BY <1>1, <2>1 DEF LoopOK, Loops, NoWork, Busy
  <2>3. AtRest
    BY <1>5, <2>1 DEF AtRest, Loops
  <2>4. Loaded \/ ~started
    BY <2>3 DEF FoldInv
  <2>5. Pardoned => Pardoned'
    BY <1>2, <2>3 DEF Pardoned, At, AtRest, Busy
  <2>6. Loaded => Loaded'
    BY <1>1, <1>2, <1>3, <2>5, Keeps
  <2>7. \A l \in Loops : LoopFits(l)'
    BY <1>2, <2>2, <2>4, <2>6 DEF LoopFits, At, Loops
  <2>8. ~AtRest'
    BY <2>2 DEF AtRest, Busy, Loops
  <2> QED BY <2>7, <2>8 DEF FoldInv
<1> QED BY <1>4, <1>5

\* start(), up to its first pass.
LEMMA FoldStart ==
  ASSUME ProjectionTypeOK, FoldInv, AloneInv, LifeInv, Sound, Sound', StartStep
  PROVE  FoldInv'
<1>1. DataOK /\ LoopOK /\ FlagOK /\ rows \in Seq(Nat)
  BY TypeParts DEF DataOK
<1>2. "start" \in Loops /\ rows' = rows /\ UNCHANGED <<ahead, poll, rebuild, meta, cache, skipped>>
  BY DEF Loops, StartStep, Start, LoadOrInitializeMeta, Bootstrap, envVars, diskVars
<1>3. PICK p \in {"load", "boot", "enter"} : loop' = [loop EXCEPT !["start"].pc = p]
  BY DEF StartStep, Start, LoadOrInitializeMeta, Bootstrap
<1>4. loop'["start"].pc = p /\ \A l \in Loops \ {"start"} : loop'[l] = loop[l]
  BY <1>1, <1>2, <1>3 DEF LoopOK, LoopType
<1>5. loop["start"].pc # "reset"
  BY DEF StartStep, Start, LoadOrInitializeMeta, Bootstrap, LifeInv, Busy
<1>6. Pardoned => Pardoned'
  BY <1>2, <1>4, <1>5 DEF Pardoned, At
<1>7. Grown(rows, rows', Pardoned')
  BY <1>1, <1>2, SameGrows
<1>8. loop["run"].pc = "idle"
  BY DEF StartStep, Start, LoadOrInitializeMeta, Bootstrap, Sound, AloneInv, Busy
<1>9. ~AtRest' /\ \A l \in Loops \ {"start"} : LoopFits(l)'
  BY <1>2, <1>4, <1>8 DEF AtRest, Busy, LoopFits, At, Loops
<1>10. CASE Start
  <2>1. AtRest /\ p = "load"
    BY <1>3, <1>4, <1>8, <1>10, <1>1 DEF Start, LifeInv, AtRest, Busy, Loops, LoopOK, LoopType
  <2>2. Loaded \/ Virgin
    BY <2>1 DEF FoldInv
  <2>3. Loaded' \/ Virgin'
    BY <1>1, <1>2, <1>6, <1>7, <1>10, <2>2, Keeps DEF Start
  <2>4. LoopFits("start")'
    BY <1>4, <2>1, <2>3 DEF LoopFits, At
  <2> QED BY <1>9, <2>4 DEF FoldInv
<1>11. CASE LoadOrInitializeMeta
  <2>1. /\ At("start", "load") /\ cursor' = meta /\ mem' = mem /\ Folded(cache, meta)
        /\ loop' = [loop EXCEPT !["start"].pc = "boot"]
    BY <1>11 DEF LoadOrInitializeMeta, At, Sound
  <2>2. loop'["start"].pc = "boot"
    BY <1>1, <1>2, <2>1 DEF LoopOK, LoopType
  <2>3. Loaded \/ Virgin
    BY <1>2, <2>1 DEF FoldInv, LoopFits
  <2>4. DiskFits /\ mem \in {<<>>, cache}
    BY <2>1, <2>3, DiskFromMemory DEF Virgin, Loaded
  <2>5. DiskFits'
    <3>1. FitsIn(rows, skipped, Pardoned, cache, meta)
      BY <2>4, FitsNow
    <3>2. FitsIn(rows', skipped, Pardoned', cache, meta)
      BY <1>1, <1>6, <1>7, <3>1, FitsGrows DEF DataOK
    <3> QED BY <1>2, <3>2, FitsNext
  <2>6. LoopFits("start")'
    BY <1>2, <2>1, <2>2, <2>4, <2>5 DEF LoopFits, At
  <2> QED BY <1>9, <2>6 DEF FoldInv
<1>12. CASE Bootstrap
  <2>1. /\ At("start", "boot") /\ cursor' = cursor /\ mem' = (IF cache # <<>> THEN cache ELSE mem)
        /\ loop' = [loop EXCEPT !["start"].pc = "enter"]
    BY <1>12 DEF Bootstrap, At
  <2>2. loop'["start"].pc = "enter"
    BY <1>1, <1>2, <2>1 DEF LoopOK, LoopType
  <2>3. cursor = meta /\ mem \in {<<>>, cache} /\ DiskFits
    BY <1>2, <2>1 DEF FoldInv, LoopFits
  <2>4. mem' = cache
    BY <2>1, <2>3
  <2>5. FitsIn(rows', skipped, Pardoned', cache, meta)
    <3>1. FitsIn(rows, skipped, Pardoned, cache, meta)
      BY <2>3, FitsNow
    <3> QED BY <1>1, <1>6, <1>7, <3>1, FitsGrows DEF DataOK
  <2>6. Loaded'
    BY <1>2, <2>1, <2>3, <2>4, <2>5, FitsNext
  <2>7. LoopFits("start")'
    BY <2>2, <2>6 DEF LoopFits, At
  <2> QED BY <1>9, <2>7 DEF FoldInv
<1> QED BY <1>10, <1>11, <1>12 DEF StartStep

\* The page is closed with cache and position in agreement.
LEMMA FoldReload ==
  ASSUME ProjectionTypeOK, FoldInv, Sound, Sound', Reload PROVE FoldInv'
<1>1. DataOK /\ LoopOK /\ FlagOK /\ rows \in Seq(Nat)
  BY TypeParts DEF DataOK
<1>2. /\ Matches /\ started' = FALSE /\ cursor' = Zero /\ mem' = <<>>
      /\ UNCHANGED <<rows, meta, cache, skipped>> /\ loop' = [l \in Loops |-> NoWork]
  BY DEF Reload, Sound, diskVars
<1>3. Loaded \/ DiskFits
  <2>1. CASE AtRest
    BY <2>1 DEF FoldInv, Virgin
  <2>2. CASE ~AtRest
    <3>1. PICK l \in Loops : loop[l].pc # "idle"
      BY <2>2 DEF AtRest, Busy
    <3>2. LoopFits(l) /\ ~rebuild /\ loop[l].pc \notin {"reset", "clear"}
      BY <1>2 DEF FoldInv, Matches
    <3>3. loop[l].pc \in Labels
      BY <1>1 DEF LoopOK, LoopType
    <3> QED BY <3>1, <3>2, <3>3 DEF LoopFits, At, Virgin, Labels
  <2> QED BY <2>1, <2>2
<1>4. DiskFits
  BY <1>2, <1>3, DiskFromMemory DEF Matches
<1>5. ~Pardoned
  BY <1>2 DEF Matches, Pardoned, At
<1>6. FitsIn(rows, skipped, Pardoned, cache, meta)
  BY <1>4, FitsNow
<1>7. FitsIn(rows', skipped', Pardoned', cache', meta')
  BY <1>2, <1>5, <1>6 DEF FitsIn
<1>8. Virgin'
  BY <1>2, <1>7, FitsNext DEF Virgin
<1>9. \A l \in Loops : LoopFits(l)'
  BY <1>2 DEF LoopFits, At, NoWork
<1> QED BY <1>2, <1>8, <1>9 DEF FoldInv

\* A loop goes on and leaves the snapshot and the cursor alone.
LEMMA FoldQuiet ==
  ASSUME ProjectionTypeOK, AloneInv, Sound, NEW l \in Loops, Busy(l), Loaded, loop[l].pc # "reset",
         UNCHANGED <<rows, ahead, poll, rebuild, cache, cursor, mem, skipped>>,
         NEW w, loop' = [loop EXCEPT ![l] = w],
         w.pc \in {"idle", "enter", "read", "finish", "save"}
  PROVE  FoldInv'
<1>1. DataOK /\ LoopOK /\ rows \in Seq(Nat)
  BY TypeParts DEF DataOK
<1>2. loop'[l] = w /\ \A m \in Loops \ {l} : loop'[m] = loop[m]
  BY <1>1 DEF LoopOK
<1>3. Pardoned => Pardoned'
  BY <1>2 DEF Pardoned, At
<1>4. Loaded'
  BY <1>1, <1>3, SameGrows, Keeps
<1>5. LoopFits(l)'
  BY <1>2, <1>4 DEF LoopFits, At
<1> QED BY <1>1, <1>4, <1>5, OtherLoop

\* A jump sets the loop's place and leaves its batch.
LEMMA GotoSets ==
  ASSUME LoopOK, NEW l \in Loops, NEW p, Goto(l, p)
  PROVE  loop' = [loop EXCEPT ![l] = [loop[l] EXCEPT !.pc = p]] /\ [loop[l] EXCEPT !.pc = p].pc = p
         /\ loop'[l].batch = loop[l].batch
BY DEF Goto, LoopOK, LoopType

\* What the invariant says of a loop by its place.
LEMMA LoopLoaded ==
  ASSUME FoldInv, Sound, NEW l \in Loops
  PROVE  /\ loop[l].pc \in {"save", "read", "apply", "put", "finish"} => Loaded
         /\ At(l, "enter") /\ ~rebuild => Loaded
         /\ loop[l].pc \in {"apply", "put"} => BatchFits(l)
         /\ At(l, "put") => PutFits(l)
         /\ At(l, "clear") => mem = <<>> /\ cursor = Zero /\ skipped = {}
BY DEF FoldInv, LoopFits

\* A pass without a rebuild, up to the query, and its end.
LEMMA FoldPass ==
  ASSUME ProjectionTypeOK, FoldInv, AloneInv, Sound, NEW l \in Loops,
         Enter(l) \/ SaveReset(l) \/ PersistCursorState(l) \/ Finish(l) \/ FailEvent(l)
  PROVE  FoldInv'
<1>1. DataOK /\ LoopOK /\ rows \in Seq(Nat)
  BY TypeParts DEF DataOK
<1>2. CASE Enter(l) \/ SaveReset(l)
  <2>1. /\ loop[l].pc \in {"enter", "save"} /\ (Goto(l, "read"))
        /\ UNCHANGED <<rows, ahead, poll, rebuild, cache, cursor, mem, skipped>>
    BY <1>2 DEF Enter, SaveReset, At, envVars, diskVars
  <2>2. Loaded
    BY <1>2, LoopLoaded DEF Enter, SaveReset, At
  <2>3. loop' = [loop EXCEPT ![l] = [loop[l] EXCEPT !.pc = "read"]] /\ [loop[l] EXCEPT !.pc = "read"].pc = "read"
    BY <1>1, <2>1, GotoSets
  <2> QED BY <2>1, <2>2, <2>3, FoldQuiet DEF Busy
<1>3. CASE PersistCursorState(l)
  <2>1. /\ loop[l].pc = "apply"
        /\ UNCHANGED <<rows, ahead, poll, rebuild, cache, cursor, mem, skipped>>
    BY <1>3 DEF PersistCursorState, At, envVars
  <2>2. Loaded
    BY <2>1, LoopLoaded
  <2>3. PICK w : loop' = [loop EXCEPT ![l] = w] /\ w.pc \in {"read", "finish"}
    <3> DEFINE w == [NoWork EXCEPT !.pc = IF loop[l].full THEN "read" ELSE "finish"]
    <3>1. loop' = [loop EXCEPT ![l] = w]
      BY <1>3 DEF PersistCursorState
    <3>2. w.pc \in {"read", "finish"}
      BY DEF NoWork
    <3> HIDE DEF w
    <3> QED BY <3>1, <3>2
  <2> QED BY <2>1, <2>2, <2>3, FoldQuiet DEF Busy
<1>4. CASE Finish(l) \/ FailEvent(l)
  <2>1. /\ loop[l].pc \in {"finish", "put"} /\ (Ends(l, TRUE) \/ Ends(l, FALSE))
        /\ UNCHANGED <<rows, ahead, poll, rebuild, cache, cursor, mem, skipped>>
    <3>1. CASE Finish(l)
      BY <3>1 DEF Finish, At, envVars
    <3>2. CASE FailEvent(l)
      BY <3>2 DEF FailEvent, At, envVars, diskVars
    <3> QED BY <1>4, <3>1, <3>2
  <2>2. Loaded
    BY <2>1, LoopLoaded
  <2>3. PICK w : loop' = [loop EXCEPT ![l] = w] /\ w.pc \in {"idle", "enter"}
    <3>1. loop' = [loop EXCEPT ![l] = NoWork] \/ loop' = [loop EXCEPT ![l] = [NoWork EXCEPT !.pc = "enter"]]
      BY <2>1 DEF Ends
    <3>2. NoWork.pc = "idle" /\ [NoWork EXCEPT !.pc = "enter"].pc = "enter"
      BY DEF NoWork
    <3> QED BY <3>1, <3>2
  <2> QED BY <2>1, <2>2, <2>3, FoldQuiet DEF Busy
<1> QED BY <1>2, <1>3, <1>4

\* A rebuild.
LEMMA FoldRebuild ==
  ASSUME ProjectionTypeOK, FoldInv, AloneInv, Sound, NEW l \in Loops,
         BeginRebuild(l) \/ ResetMemory(l) \/ ClearPersisted(l)
  PROVE  FoldInv'
<1>1. DataOK /\ LoopOK /\ rows \in Seq(Nat)
  BY TypeParts DEF DataOK
<1>2. CASE BeginRebuild(l)
  <2>1. Goto(l, "reset") /\ Busy(l)
    BY <1>2 DEF BeginRebuild, At, Busy
  <2>2. loop' = [loop EXCEPT ![l] = [loop[l] EXCEPT !.pc = "reset"]] /\ [loop[l] EXCEPT !.pc = "reset"].pc = "reset"
    BY <1>1, <2>1, GotoSets
  <2>3. loop'[l].pc = "reset"
    BY <1>1, <2>2 DEF LoopOK
  <2>4. LoopFits(l)'
    BY <2>3 DEF LoopFits, At
  <2> QED BY <1>1, <2>1, <2>2, <2>4, OtherLoop
<1>3. CASE ResetMemory(l)
  <2>1. Goto(l, "clear") /\ Busy(l) /\ cursor' = Zero /\ mem' = <<>> /\ skipped' = {}
    BY <1>3 DEF ResetMemory, At, Busy
  <2>2. loop' = [loop EXCEPT ![l] = [loop[l] EXCEPT !.pc = "clear"]] /\ [loop[l] EXCEPT !.pc = "clear"].pc = "clear"
    BY <1>1, <2>1, GotoSets
  <2>3. loop'[l].pc = "clear"
    BY <1>1, <2>2 DEF LoopOK
  <2>4. LoopFits(l)'
    BY <2>1, <2>3 DEF LoopFits, At
  <2> QED BY <1>1, <2>1, <2>2, <2>4, OtherLoop
<1>4. CASE ClearPersisted(l)
  <2>1. At(l, "clear") /\ Goto(l, "save") /\ Busy(l) /\ cache' = <<>> /\ UNCHANGED <<rows, cursor, mem, skipped>>
    BY <1>4 DEF ClearPersisted, At, Busy
  <2>2. loop' = [loop EXCEPT ![l] = [loop[l] EXCEPT !.pc = "save"]] /\ [loop[l] EXCEPT !.pc = "save"].pc = "save"
    BY <1>1, <2>1, GotoSets
  <2>3. loop'[l].pc = "save"
    BY <1>1, <2>2 DEF LoopOK
  <2>4. mem' = <<>> /\ cursor' = Zero /\ skipped' = {} /\ rows' \in Seq(Nat)
    BY <1>1, <2>1, LoopLoaded
  <2>5. FitsIn(rows', {}, Pardoned', <<>>, Zero)
    BY <2>4, ResetFits
  <2>6. Loaded'
    BY <2>1, <2>4, <2>5, FitsNext
  <2>7. LoopFits(l)'
    BY <2>3, <2>6 DEF LoopFits, At
  <2> QED BY <1>1, <2>1, <2>2, <2>6, <2>7, OtherLoop
<1> QED BY <1>2, <1>3, <1>4

\* The query.
LEMMA FoldRead ==
  ASSUME ProjectionTypeOK, FoldInv, AloneInv, Sound, NEW l \in Loops, ReadNextBatch(l)
  PROVE  FoldInv'
<1>1. DataOK /\ LoopOK /\ rows \in Seq(Nat)
  BY TypeParts DEF DataOK
<1>2. /\ At(l, "read") /\ Busy(l) /\ loop[l].pc # "reset"
      /\ UNCHANGED <<rows, ahead, poll, rebuild, cache, cursor, mem, skipped>>
  BY DEF ReadNextBatch, At, Busy, envVars
<1>3. Loaded
  BY <1>2, LoopLoaded DEF At
<1>4. PICK b \in ReadEffectiveOrdered(cursor) :
        \/ Goto(l, "finish")
        \/ loop' = [loop EXCEPT ![l] = [NoWork EXCEPT !.pc = "apply", !.batch = b,
                                                      !.full = Len(b) = BatchSize]]
  BY DEF ReadNextBatch
<1>5. CASE Goto(l, "finish")
  <2>1. loop' = [loop EXCEPT ![l] = [loop[l] EXCEPT !.pc = "finish"]] /\ [loop[l] EXCEPT !.pc = "finish"].pc = "finish"
    BY <1>1, <1>5, GotoSets
  <2> QED BY <1>2, <1>3, <2>1, FoldQuiet
<1>6. CASE loop' = [loop EXCEPT ![l] = [NoWork EXCEPT !.pc = "apply", !.batch = b,
                                                      !.full = Len(b) = BatchSize]]
  <2> DEFINE w == [NoWork EXCEPT !.pc = "apply", !.batch = b, !.full = Len(b) = BatchSize]
  <2>1. w.pc = "apply" /\ w.batch = b
    BY DEF NoWork
  <2>2. loop' = [loop EXCEPT ![l] = w]
    BY <1>6
  <2> HIDE DEF w
  <2>3. loop'[l] = w /\ \A m \in Loops \ {l} : loop'[m] = loop[m]
    BY <1>1, <2>2 DEF LoopOK
  <2>4. Pardoned => Pardoned'
    BY <1>2, <2>3 DEF Pardoned, At
  <2>5. Loaded'
    BY <1>1, <1>2, <1>3, <2>4, SameGrows, Keeps
  <2>6. BatchIn(rows, Pardoned', cursor, b)
    BY <1>1, PageFits
  <2>7. BatchFits(l)'
    BY <1>2, <2>1, <2>3, <2>6, FitsNext
  <2>8. LoopFits(l)'
    BY <2>1, <2>3, <2>5, <2>7 DEF LoopFits, At
  <2> QED BY <1>1, <1>2, <2>2, <2>5, <2>8, OtherLoop
<1> QED BY <1>4, <1>5, <1>6

\* The next event is taken.
LEMMA FoldApply ==
  ASSUME ProjectionTypeOK, FoldInv, AloneInv, Sound, NEW l \in Loops, ApplyEvent(l)
  PROVE  FoldInv'
<1>1. DataOK /\ LoopOK /\ rows \in Seq(Nat)
  BY TypeParts DEF DataOK
<1>2. /\ At(l, "apply") /\ Busy(l) /\ loop[l].pc # "reset"
      /\ UNCHANGED <<rows, ahead, poll, rebuild, cache, cursor, mem, skipped>>
  BY DEF ApplyEvent, At, Busy, envVars, diskVars
<1>3. Loaded /\ BatchFits(l)
  BY <1>2, LoopLoaded DEF At
<1> DEFINE w == [loop[l] EXCEPT !.pc = "put", !.prev = IF mem # <<>> THEN mem ELSE cache,
                                !.next = AdvanceEffectiveCursor(cursor, Head(loop[l].batch))]
<1>4. loop' = [loop EXCEPT ![l] = w]
  BY DEF ApplyEvent
<1>5. /\ w.pc = "put" /\ w.batch = loop[l].batch /\ w.prev = mem
      /\ w.next = AdvanceEffectiveCursor(cursor, Head(loop[l].batch))
  BY <1>1, <1>3 DEF LoopOK, LoopType, Loaded
<1> HIDE DEF w
<1>6. loop'[l] = w /\ \A m \in Loops \ {l} : loop'[m] = loop[m]
  BY <1>1, <1>4 DEF LoopOK
<1>7. Pardoned => Pardoned'
  BY <1>2, <1>6 DEF Pardoned, At
<1>8. Loaded' /\ BatchFits(l)'
  BY <1>1, <1>2, <1>3, <1>5, <1>6, <1>7, SameGrows, Keeps
<1>9. PutFits(l)'
  BY <1>2, <1>5, <1>6 DEF PutFits
<1>10. LoopFits(l)'
  BY <1>5, <1>6, <1>8, <1>9 DEF LoopFits, At
<1> QED BY <1>1, <1>2, <1>4, <1>8, <1>10, OtherLoop

\* The event is folded, or passed over.
LEMMA FoldPut ==
  ASSUME ProjectionTypeOK, FoldInv, AloneInv, Sound, NEW l \in Loops, PersistSnapshot(l) \/ SkipEvent(l)
  PROVE  FoldInv'
<1>1. DataOK /\ LoopOK /\ rows \in Seq(Nat)
  BY TypeParts DEF DataOK
<1>2. Applied(l)
  BY DEF PersistSnapshot, SkipEvent
<1>3. /\ At(l, "put") /\ Busy(l) /\ cursor' = loop[l].next
      /\ UNCHANGED <<rows, ahead, poll, rebuild>>
  BY <1>2 DEF Applied, At, Busy, envVars
<1>4. Loaded /\ BatchFits(l) /\ PutFits(l)
  BY <1>3, LoopLoaded DEF At
<1> DEFINE b == loop[l].batch
           e == Head(b)
           d == loop[l].next
           w == [loop[l] EXCEPT !.pc = "apply", !.batch = Tail(@), !.prev = <<>>, !.next = Zero]
<1>5. loop' = [loop EXCEPT ![l] = w]
  BY <1>2 DEF Applied
<1>6. w.pc = "apply" /\ w.batch = Tail(b)
  BY <1>1 DEF LoopOK, LoopType
<1>7. b \in Seq(Entries(rows)) /\ b # <<>>
  BY <1>1, <1>3 DEF LoopOK, LoopType
<1>8. BatchIn(rows, Pardoned, cursor, b) /\ FitsIn(rows, skipped, Pardoned, mem, cursor) /\ cache = mem
  BY <1>4, FitsNow
<1>9. d = AdvanceEffectiveCursor(cursor, e) /\ loop[l].prev = mem
  BY <1>4 DEF PutFits
<1> HIDE DEF w, b, d, e
<1>10. loop'[l] = w /\ \A m \in Loops \ {l} : loop'[m] = loop[m]
  BY <1>1, <1>5 DEF LoopOK
<1>11. Pardoned' <=> Pardoned
  BY <1>3, <1>6, <1>10 DEF Pardoned, At
<1>12. BatchIn(rows, Pardoned, d, Tail(b))
  BY <1>1, <1>7, <1>8, <1>9, BatchAdvances DEF DataOK, e
<1>13. FitsIn(rows, skipped, Pardoned, Append(mem, e.k), d) /\ FitsIn(rows, skipped \cup {e.k}, Pardoned, mem, d)
  BY <1>1, <1>7, <1>8, <1>9, FitsAdvances DEF DataOK, e
<1>14. BatchFits(l)'
  <2>1. BatchIn(rows', Pardoned', cursor', loop'[l].batch)
    BY <1>3, <1>6, <1>10, <1>11, <1>12 DEF d, BatchIn, Follows
  <2> QED BY <2>1, FitsNext
<1>15. cache' = mem' /\ FitsIn(rows', skipped', Pardoned', mem', cursor')
  <2>1. CASE PersistSnapshot(l)
    <3>1. cache' = mem' /\ mem' = Append(mem, e.k) /\ skipped' = skipped
      BY <1>9, <2>1 DEF PersistSnapshot, e, b
    <3> QED BY <1>3, <1>11, <1>13, <3>1 DEF d, FitsIn
  <2>2. CASE SkipEvent(l)
    <3>1. cache' = cache /\ mem' = mem /\ skipped' = skipped \cup {e.k}
      BY <2>2 DEF SkipEvent, e, b
    <3> QED BY <1>3, <1>8, <1>11, <1>13, <3>1 DEF d, FitsIn
  <2> QED BY <2>1, <2>2
<1>16. Loaded'
  BY <1>15, FitsNext
<1>17. LoopFits(l)'
  BY <1>6, <1>10, <1>14, <1>16 DEF LoopFits, At
<1> QED BY <1>1, <1>3, <1>5, <1>16, <1>17, OtherLoop

\* The invariant of the fold is kept by every step.
LEMMA FoldStep ==
  ASSUME ProjectionTypeOK, AloneInv, LifeInv, FoldInv, [ProjectionNext]_projectionVars
  PROVE  FoldInv'
<1>1. SUFFICES ASSUME Sound' PROVE FoldInv'
  BY DEF FoldInv
<1>2. Sound
  BY <1>1, SoundBefore
<1>3. CASE RowStep \/ StartPull \/ (\E c \in Readers : Answer(c)) \/ UNCHANGED projectionVars \/ CheckPending \/ PullFails
  BY <1>1, <1>2, <1>3, FoldEnvironment
<1>4. CASE Notify \/ OnRebaseRequired \/ ResetAndRebuild \/ \E c \in Readers : Flush(c)
  BY <1>1, <1>2, <1>4, FoldRun
<1>5. CASE StartStep
  BY <1>1, <1>2, <1>5, FoldStart
<1>6. CASE Reload
  BY <1>1, <1>2, <1>6, FoldReload
<1>7. ASSUME NEW l \in Loops, LoopStep(l) \/ SkipEvent(l) \/ FailEvent(l) \/ FailAnalytics(l) PROVE FoldInv'
  <2>1. CASE Enter(l) \/ SaveReset(l) \/ PersistCursorState(l) \/ Finish(l) \/ FailEvent(l)
    BY <1>2, <2>1, FoldPass
  <2>2. CASE BeginRebuild(l) \/ ResetMemory(l) \/ ClearPersisted(l)
    BY <1>2, <2>2, FoldRebuild
  <2>3. CASE ReadNextBatch(l)
    BY <1>2, <2>3, FoldRead
  <2>4. CASE ApplyEvent(l)
    BY <1>2, <2>4, FoldApply
  <2>5. CASE PersistSnapshot(l) \/ SkipEvent(l)
    BY <1>2, <2>5, FoldPut
  <2>6. ~FailAnalytics(l)
    BY <1>1 DEF FailAnalytics, Sound
  <2> QED BY <1>7, <2>1, <2>2, <2>3, <2>4, <2>5, <2>6 DEF LoopStep
<1> QED BY <1>3, <1>4, <1>5, <1>6, <1>7 DEF ProjectionNext, RowStep

\* Nothing is folded at first, and there is nothing to fold.
LEMMA FoldInit == ProjectionInit => AloneInv /\ LifeInv /\ FoldInv
<1> SUFFICES ASSUME ProjectionInit PROVE AloneInv /\ LifeInv /\ FoldInv
  OBVIOUS
<1>1. \A l \in Loops : loop[l].pc = "idle"
  BY DEF ProjectionInit, NoWork
<1>2. AloneInv /\ LifeInv
  BY <1>1 DEF ProjectionInit, AloneInv, LifeInv, Busy, Loops
<1>3. \A l \in Loops : LoopFits(l)
  BY <1>1 DEF LoopFits, At
<1>4. rows \in Seq(Nat) /\ skipped = {} /\ mem = <<>> /\ cache = <<>> /\ cursor = Zero
  BY DEF ProjectionInit
<1>5. FitsIn(rows, skipped, Pardoned, mem, cursor)
  BY <1>4, ResetFits
<1>6. Loaded
  BY <1>4, <1>5, FitsNow
<1> QED BY <1>2, <1>3, <1>6 DEF FoldInv

-----------------------------------------------------------------------------
(* flush() *)

Waiting(c) == flush[c].st \in {"owner", "joined"}

\* The readers still wait for what they did, and the runner has it still before it.
LEMMA ServedFrame ==
  ASSUME DataOK, FlushOK, NEW a, Grown(rows, rows', a), UNCHANGED <<cursor, again>>, loop'["run"] = loop["run"],
         NEW c \in Readers, flush'[c] = flush[c], Waiting(c) => Served(c)
  PROVE  Waiting(c)' => Served(c)'
<1>1. SUFFICES ASSUME Waiting(c), Served(c) PROVE Served(c)'
  BY DEF Waiting
<1>2. /\ UnreadIn(rows', cursor) = UnreadIn(rows, cursor) \cup (DOMAIN rows' \ DOMAIN rows)
      /\ DOMAIN rows \subseteq DOMAIN rows'
  BY UnreadGrows DEF DataOK
<1>3. flush[c].need \in 0..Len(rows) /\ Len(rows) \in Nat /\ DOMAIN rows = 1..Len(rows)
      /\ DOMAIN rows' = 1..Len(rows') /\ Len(rows') \in Nat
  BY DEF FlushOK, FlushType, DataOK, Grown
<1>4. \A k \in UnreadIn(rows', cursor) : k \in UnreadIn(rows, cursor) \/ k > flush[c].need
  BY <1>2, <1>3
<1>5. Unread(cursor) = UnreadIn(rows, cursor) /\ Unread(cursor)' = UnreadIn(rows', cursor)
  BY DEF Unread, UnreadIn, CommitSeqs
<1>6. \A k \in Unread(cursor)' : k <= flush[c].need => k \in Unread(cursor)
  <2>1. \A k \in Unread(cursor)' : k \in Nat /\ flush[c].need \in Nat
    BY <1>3, <1>5 DEF UnreadIn
  <2> QED BY <1>4, <1>5, <2>1
<1>7. \A k \in Unread(cursor)' : k \in Unread(cursor) \/ k > flush[c].need
  BY <1>4, <1>5
<1> QED BY <1>1, <1>6, <1>7 DEF Served

\* Every call that is under way when a pass is asked for is served by it or a later one.
LEMMA ServedByRun ==
  ASSUME LoopOK, Run, NEW c PROVE Served(c)'
<1>1. CASE Busy("run")
  BY <1>1 DEF Run, Served
<1>2. CASE ~Busy("run")
  <2>1. loop'["run"].pc = "enter"
    BY <1>2 DEF Run, LoopOK, Loops, NoWork
  <2> QED BY <2>1 DEF Served
<1> QED BY <1>1, <1>2

\* A pass of the runner goes on.
LEMMA ServedByPass ==
  ASSUME ProjectionTypeOK, FoldInv, Sound, LoopStep("run") \/ SkipEvent("run"), ~Finish("run"),
         NEW c \in Readers, Waiting(c) => Served(c)
  PROVE  (Waiting(c) => Served(c))' /\ flush' = flush
<1>1. DataOK /\ LoopOK /\ FlushOK /\ rows \in Seq(Nat) /\ "run" \in Loops
  BY TypeParts DEF DataOK, Loops
<1>2. CASE Enter("run") \/ BeginRebuild("run") \/ ResetMemory("run") \/ ClearPersisted("run") \/ SaveReset("run")
  <2>1. flush' = flush /\ \E p \in {"read", "reset", "clear", "save"} : Goto("run", p)
    BY <1>2 DEF Enter, BeginRebuild, ResetMemory, ClearPersisted, SaveReset
  <2>2. loop'["run"].pc \in {"read", "reset", "clear", "save"}
    BY <1>1, <2>1 DEF Goto, LoopOK, LoopType
  <2> QED BY <2>1, <2>2 DEF Served
<1>3. CASE ReadNextBatch("run")
  <2>1. flush' = flush /\ UNCHANGED <<rows, cursor, again>>
    BY <1>3 DEF ReadNextBatch
  <2>2. PICK b \in ReadEffectiveOrdered(cursor) :
          \/ b = <<>> /\ Goto("run", "finish")
          \/ loop' = [loop EXCEPT !["run"] = [NoWork EXCEPT !.pc = "apply", !.batch = b,
                                                            !.full = Len(b) = BatchSize]]
    BY <1>3 DEF ReadNextBatch
  <2>3. Len(b) = BatchSize \/ \A k \in UnreadIn(rows, cursor) : \E i \in DOMAIN b : b[i].k = k
    BY <1>1, PageFits
  <2>4. Unread(cursor)' = UnreadIn(rows, cursor)
    BY <2>1 DEF Unread, UnreadIn, CommitSeqs
  <2>5. CASE b = <<>> /\ Goto("run", "finish")
    <3>1. loop'["run"].pc = "finish"
      BY <1>1, <2>5 DEF Goto, LoopOK, LoopType
    <3>2. Len(b) = 0 /\ BatchSize # 0 /\ DOMAIN b = {}
      BY <2>5, ProjectionConstants
    <3>3. Unread(cursor)' = {}
      BY <2>3, <2>4, <3>2
    <3> QED BY <2>1, <3>1, <3>3 DEF Served
  <2>6. CASE loop' = [loop EXCEPT !["run"] = [NoWork EXCEPT !.pc = "apply", !.batch = b,
                                                            !.full = Len(b) = BatchSize]]
    <3>1. loop'["run"].pc = "apply" /\ loop'["run"].batch = b /\ (loop'["run"].full <=> Len(b) = BatchSize)
      BY <1>1, <2>6 DEF LoopOK, NoWork
    <3> QED BY <2>1, <2>3, <2>4, <3>1 DEF Served
  <2> QED BY <2>2, <2>5, <2>6
<1>4. CASE ApplyEvent("run")
  <2>1. UNCHANGED <<rows, cursor, again, flush>> /\ loop["run"].pc = "apply"
    BY <1>4 DEF ApplyEvent, diskVars, At
  <2>2. loop'["run"].pc = "put" /\ loop'["run"].batch = loop["run"].batch /\ loop'["run"].full = loop["run"].full
    BY <1>1, <1>4 DEF ApplyEvent, LoopOK, LoopType
  <2>3. Unread(cursor)' = Unread(cursor)
    BY <2>1 DEF Unread, CommitSeqs
  <2> QED BY <2>1, <2>2, <2>3 DEF Served, Waiting
<1>5. CASE PersistSnapshot("run") \/ SkipEvent("run")
  <2> DEFINE w == loop["run"]
             b == w.batch
             e == Head(b)
             d == w.next
  <2>1. Applied("run")
    BY <1>5 DEF PersistSnapshot, SkipEvent
  <2>2. At("run", "put") /\ cursor' = d /\ UNCHANGED <<rows, again, flush>>
    BY <2>1 DEF Applied
  <2>3. loop'["run"].pc = "apply" /\ loop'["run"].batch = Tail(b) /\ loop'["run"].full = w.full
    BY <1>1, <2>1 DEF Applied, LoopOK, LoopType
  <2>4. b \in Seq(Entries(rows)) /\ b # <<>>
    BY <1>1, <2>2 DEF LoopOK, LoopType
  <2>5. BatchIn(rows, Pardoned, cursor, b) /\ d = AdvanceEffectiveCursor(cursor, e)
    <3>1. BatchFits("run") /\ PutFits("run")
      BY <1>1, <2>2, LoopLoaded DEF At
    <3> QED BY <3>1, FitsNow DEF PutFits
  <2> HIDE DEF b, d, e
  <2>6. \A k : k \in UnreadIn(rows, d) <=> k \in UnreadIn(rows, cursor) /\ k # e.k
    BY <1>1, <2>4, <2>5, UnreadAdvances DEF DataOK, e
  <2>7. Unread(cursor)' = UnreadIn(rows, d) /\ Unread(cursor) = UnreadIn(rows, cursor)
    BY <2>2 DEF Unread, UnreadIn, CommitSeqs
  <2>8. SUFFICES ASSUME Served(c), Waiting(c) PROVE Served(c)'
    BY <2>2 DEF Waiting
  <2>9. CASE again \/ w.full
    BY <2>2, <2>3, <2>9 DEF Served
  <2>10. CASE ~again /\ ~w.full
    <3>1. \A k \in UnreadIn(rows, cursor) : k <= flush[c].need => \E i \in DOMAIN b : b[i].k = k
      BY <2>2, <2>7, <2>8, <2>10 DEF Served, At, b
    <3>2. ASSUME NEW k \in UnreadIn(rows, d), k <= flush[c].need
          PROVE  \E i \in DOMAIN Tail(b) : Tail(b)[i].k = k
      <4>1. PICK i \in DOMAIN b : b[i].k = k
        BY <2>6, <3>1, <3>2
      <4>2. i # 1
        BY <2>4, <2>6, <4>1 DEF e
      <4>3. /\ Len(b) \in Nat /\ DOMAIN b = 1..Len(b) /\ DOMAIN Tail(b) = 1..(Len(b) - 1)
            /\ \A j \in 1..(Len(b) - 1) : Tail(b)[j] = b[j + 1]
        BY <2>4
      <4>4. i - 1 \in DOMAIN Tail(b) /\ (i - 1) + 1 = i
        BY <4>1, <4>2, <4>3
      <4>5. Tail(b)[i - 1] = b[i]
        BY <4>3, <4>4
      <4> QED BY <4>1, <4>4, <4>5
    <3> QED BY <2>2, <2>3, <2>7, <3>2 DEF Served
  <2> QED BY <2>2, <2>9, <2>10
<1>6. CASE PersistCursorState("run")
  <2>1. UNCHANGED <<rows, cursor, again, flush>> /\ loop["run"].pc = "apply" /\ loop["run"].batch = <<>>
    BY <1>6 DEF PersistCursorState, At
  <2>2. loop'["run"].pc = IF loop["run"].full THEN "read" ELSE "finish"
    BY <1>1, <1>6 DEF PersistCursorState, LoopOK, NoWork
  <2>3. Unread(cursor)' = Unread(cursor)
    BY <2>1 DEF Unread, CommitSeqs
  <2>4. SUFFICES ASSUME Served(c), Waiting(c) PROVE Served(c)'
    BY <2>1 DEF Waiting
  <2>5. CASE again \/ loop["run"].full
    BY <2>1, <2>2, <2>5 DEF Served
  <2>6. CASE ~again /\ ~loop["run"].full
    <3>1. \A k \in Unread(cursor) : ~(k <= flush[c].need)
      BY <2>1, <2>4, <2>6 DEF Served
    <3>2. \A k \in Unread(cursor) : k \in Nat /\ flush[c].need \in Nat
      BY <1>1 DEF Unread, CommitSeqs, FlushOK, FlushType
    <3>3. \A k \in Unread(cursor) : k > flush[c].need
      BY <3>1, <3>2
    <3> QED BY <2>1, <2>2, <2>3, <2>6, <3>3 DEF Served
  <2> QED BY <2>1, <2>5, <2>6
<1> QED BY <1>2, <1>3, <1>4, <1>5, <1>6 DEF LoopStep

\* A row is passed over only with a fault.
LEMMA SkippedStep ==
  ASSUME CountOK, faults = 0 => skipped = {}, [ProjectionNext]_projectionVars
  PROVE  faults' = 0 => skipped' = {}
<1>0. faults \in Nat
  BY ProjectionConstants DEF CountOK
<1>1. CASE RowStep \/ StartPull \/ CheckPending \/ PullFails \/ (\E c \in Readers : Answer(c)) \/ UNCHANGED projectionVars
  <2>1. CASE RowStep
    BY <2>1 DEF RowStep, Commit, ApplyAssignments, ApplyRemoteEvents
  <2>2. CASE StartPull \/ CheckPending \/ PullFails \/ (\E c \in Readers : Answer(c)) \/ UNCHANGED projectionVars
    BY <2>2 DEF StartPull, CheckPending, PullFails, Answer, projectionVars
  <2> QED BY <1>1, <2>1, <2>2
<1>2. CASE Notify \/ OnRebaseRequired \/ ResetAndRebuild \/ (\E c \in Readers : Flush(c)) \/ StartStep
  <2>1. UNCHANGED <<faults, skipped>>
    BY <1>2 DEF Notify, OnRebaseRequired, ResetAndRebuild, Flush, StartStep, Start, LoadOrInitializeMeta, Bootstrap
  <2> QED BY <2>1
<1>3. ASSUME NEW l \in Loops, LoopStep(l) \/ SkipEvent(l) \/ FailEvent(l) \/ FailAnalytics(l)
      PROVE  faults' = 0 => skipped' = {}
  <2>1. CASE SkipEvent(l)
    BY <1>0, <2>1 DEF SkipEvent
  <2>2. CASE FailEvent(l) \/ FailAnalytics(l)
    <3>1. faults' = faults + 1
      BY <2>2 DEF FailEvent, FailAnalytics
    <3> QED BY <1>0, <3>1
  <2>3. CASE ResetMemory(l)
    BY <2>3 DEF ResetMemory
  <2>4. CASE Enter(l) \/ BeginRebuild(l) \/ ClearPersisted(l) \/ SaveReset(l) \/ ApplyEvent(l)
    BY <2>4 DEF Enter, BeginRebuild, ClearPersisted, SaveReset, ApplyEvent
  <2>5. CASE ReadNextBatch(l)
    BY <2>5 DEF ReadNextBatch
  <2>6. CASE PersistSnapshot(l) \/ PersistCursorState(l) \/ Finish(l)
    BY <2>6 DEF PersistSnapshot, PersistCursorState, Finish
  <2> QED BY <1>3, <2>1, <2>2, <2>3, <2>4, <2>5, <2>6 DEF LoopStep
<1>4. CASE Reload
  BY <1>4 DEF Reload
<1> QED BY <1>1, <1>2, <1>3, <1>4 DEF ProjectionNext, RowStep

\* A loop of start() leaves the runner and its callers alone.
LEMMA StartLoopFrame ==
  ASSUME ProjectionTypeOK, LoopStep("start") \/ SkipEvent("start") \/ FailEvent("start")
  PROVE  /\ Busy("start") /\ loop'["run"] = loop["run"] /\ again' = again
         /\ \A c \in Readers : flush'[c] = flush[c]
<1>1. LoopOK /\ FlushOK /\ "start" \in Loops /\ "run" \in Loops /\ "start" # "run"
  BY TypeParts DEF Loops
<1>2. CASE Finish("start") \/ FailEvent("start")
  <2>1. Ends("start", TRUE) \/ Ends("start", FALSE)
    BY <1>2 DEF Finish, FailEvent
  <2>2. loop' = [loop EXCEPT !["start"] = NoWork] /\ again' = again /\ \A c \in Readers : flush'[c] = flush[c]
    BY <1>1, <2>1 DEF Ends
  <2>3. Busy("start")
    BY <1>2 DEF Finish, FailEvent, At, Busy
  <2> QED BY <1>1, <2>2, <2>3 DEF LoopOK
<1>3. CASE PersistSnapshot("start") \/ SkipEvent("start")
  <2>1. Applied("start")
    BY <1>3 DEF PersistSnapshot, SkipEvent
  <2> QED BY <1>1, <2>1 DEF Applied, LoopOK, At, Busy
<1>4. CASE Enter("start") \/ BeginRebuild("start") \/ ResetMemory("start") \/ ClearPersisted("start") \/ SaveReset("start")
  BY <1>1, <1>4 DEF Enter, BeginRebuild, ResetMemory, ClearPersisted, SaveReset, Goto, At, Busy, LoopOK
<1>5. CASE ReadNextBatch("start")
  <2>1. At("start", "read") /\ UNCHANGED <<again, flush>>
    BY <1>5 DEF ReadNextBatch
  <2>2. PICK b : \/ Goto("start", "finish")
                 \/ loop' = [loop EXCEPT !["start"] = [NoWork EXCEPT !.pc = "apply", !.batch = b,
                                                              !.full = Len(b) = BatchSize]]
    BY <1>5 DEF ReadNextBatch
  <2> QED BY <1>1, <2>1, <2>2 DEF Goto, At, Busy, LoopOK
<1>6. CASE ApplyEvent("start") \/ PersistCursorState("start")
  BY <1>1, <1>6 DEF ApplyEvent, PersistCursorState, At, Busy, LoopOK
<1> QED BY <1>2, <1>3, <1>4, <1>5, <1>6 DEF LoopStep

\* With the runner idle, only a request for another pass serves a caller.
LEMMA ServedIdle ==
  ASSUME loop["run"].pc = "idle", loop'["run"] = loop["run"], again' = again,
         NEW c, flush'[c] = flush[c], Waiting(c) => Served(c)
  PROVE  Waiting(c)' => Served(c)'
BY DEF Served, Waiting

\* The invariant of flush() is kept by every step.
LEMMA FlushStep ==
  ASSUME ProjectionTypeOK, AloneInv, FoldInv, FlushInv, [ProjectionNext]_projectionVars
  PROVE  FlushInv'
<1>1. DataOK /\ LoopOK /\ FlushOK /\ FlagOK /\ CountOK /\ rows \in Seq(Nat)
  BY TypeParts DEF DataOK
<1>2. faults' = 0 => skipped' = {}
  BY <1>1, SkippedStep DEF FlushInv
<1>3. SUFFICES ASSUME Sound', NEW c \in Readers PROVE Waiting(c)' => Served(c)'
  BY <1>2 DEF FlushInv, Waiting
<1>4. Sound
  BY <1>3, SoundBefore
<1>5. Waiting(c) => Served(c)
  BY <1>4 DEF FlushInv, Waiting
<1>6. CASE RowStep
  <2>1. Grown(rows, rows', ahead') /\ UNCHANGED <<cursor, again, loop, flush>>
    BY <1>1, <1>6, RowStepFrame DEF FlagOK
  <2> QED BY <1>1, <1>5, <2>1, ServedFrame
<1>7. CASE StartPull \/ CheckPending \/ PullFails \/ UNCHANGED projectionVars
  <2>1. UNCHANGED <<rows, cursor, again, loop, flush>>
    BY <1>7 DEF StartPull, CheckPending, PullFails, projectionVars, diskVars
  <2> QED BY <1>1, <1>5, <2>1, SameGrows, ServedFrame
<1>8. ASSUME NEW x \in Readers, Answer(x) PROVE Waiting(c)' => Served(c)'
  <2>1. UNCHANGED <<rows, cursor, again, loop>> /\ flush' = [flush EXCEPT ![x] = NoFlush]
    BY <1>8 DEF Answer, diskVars
  <2>2. CASE x = c
    BY <1>1, <2>1, <2>2 DEF FlushOK, Waiting, NoFlush
  <2>3. CASE x # c
    <3>1. flush'[c] = flush[c]
      BY <1>1, <2>1, <2>3 DEF FlushOK
    <3> QED BY <1>1, <1>5, <2>1, <3>1, SameGrows, ServedFrame
  <2> QED BY <2>2, <2>3
<1>9. CASE Notify \/ OnRebaseRequired \/ ResetAndRebuild \/ \E x \in Readers : Flush(x)
  <2>1. Run
    BY <1>9 DEF Notify, OnRebaseRequired, ResetAndRebuild, Flush
  <2> QED BY <1>1, <2>1, ServedByRun
<1>10. CASE StartStep
  <2>1. UNCHANGED <<rows, again, flush>> /\ loop'["run"] = loop["run"]
    BY <1>1, <1>10 DEF StartStep, Start, LoadOrInitializeMeta, Bootstrap, diskVars, LoopOK, Loops
  <2>2. CASE LoadOrInitializeMeta
    <3>1. Busy("start")
      BY <2>2 DEF LoadOrInitializeMeta, Busy
    <3>2. loop["run"].pc = "idle"
      BY <1>4, <3>1 DEF AloneInv, Sound, Busy
    <3> QED BY <1>5, <2>1, <3>2, ServedIdle
  <2>3. CASE Start \/ Bootstrap
    <3>1. cursor' = cursor
      BY <2>3 DEF Start, Bootstrap
    <3> QED BY <1>1, <1>5, <2>1, <3>1, SameGrows, ServedFrame
  <2> QED BY <1>10, <2>2, <2>3 DEF StartStep
<1>11. CASE LoopStep("start") \/ SkipEvent("start") \/ FailEvent("start")
  <2>1. Busy("start") /\ loop'["run"] = loop["run"] /\ again' = again /\ flush'[c] = flush[c]
    BY <1>11, StartLoopFrame
  <2>2. loop["run"].pc = "idle"
    BY <1>4, <2>1 DEF AloneInv, Sound, Busy
  <2> QED BY <1>5, <2>1, <2>2, ServedIdle
<1>12. CASE Finish("run") \/ FailEvent("run")
  <2>1. Ends("run", TRUE) \/ Ends("run", FALSE)
    BY <1>12 DEF Finish, FailEvent
  <2>2. CASE loop' = [loop EXCEPT !["run"] = [NoWork EXCEPT !.pc = "enter"]]
    <3>1. loop'["run"].pc = "enter"
      BY <1>1, <2>2 DEF LoopOK, Loops, NoWork
    <3> QED BY <3>1 DEF Served
  <2>3. CASE \E ok \in BOOLEAN : flush' = [x \in Readers |->
              IF "run" = "start" \/ flush[x].st = "none" THEN flush[x]
              ELSE [flush[x] EXCEPT !.st = IF ok \/ @ = "joined" THEN "done" ELSE "failed"]]
    <3>1. flush[c] \in FlushType(rows)
      BY <1>1 DEF FlushOK
    <3>2. flush'[c].st \in {"none", "done", "failed"}
      BY <2>3, <3>1 DEF FlushType
    <3> QED BY <3>2 DEF Waiting
  <2> QED BY <2>1, <2>2, <2>3 DEF Ends
<1>13. CASE (LoopStep("run") \/ SkipEvent("run")) /\ ~Finish("run")
  BY <1>4, <1>5, <1>13, ServedByPass
<1>14. CASE Reload
  BY <1>14 DEF Reload, NoFlush, Waiting
<1>15. CASE \E l \in Loops : LoopStep(l) \/ SkipEvent(l) \/ FailEvent(l) \/ FailAnalytics(l)
  <2>1. \A l \in Loops : ~FailAnalytics(l)
    BY <1>3 DEF FailAnalytics, Sound
  <2> QED BY <1>11, <1>12, <1>13, <1>15, <2>1 DEF Loops
<1> QED BY <1>6, <1>7, <1>8, <1>9, <1>10, <1>14, <1>15 DEF ProjectionNext, RowStep

-----------------------------------------------------------------------------
(* The theorems *)

\* The invariant, from the first state on.
LEMMA InvariantHolds == ProjectionSpec => []ProjectionInv
<1>1. ProjectionInit => ProjectionInv
  <2> SUFFICES ASSUME ProjectionInit PROVE ProjectionInv
    OBVIOUS
  <2>1. ProjectionTypeOK
    BY ProjectionTypeInit
  <2>2. FlushInv
    BY DEF ProjectionInit, FlushInv, NoFlush
  <2> QED BY <2>1, <2>2, FoldInit DEF ProjectionInv
<1>2. ProjectionInv /\ [ProjectionNext]_projectionVars => ProjectionInv'
  BY TypeStep, LifeStep, FoldStep, FlushStep DEF ProjectionInv
<1> QED BY <1>1, <1>2, PTL DEF ProjectionSpec

\* INV-002, INV-011: for any number of rows, any batch size and any interleaving of
\* commands, the sync engine, notifications, readers, rebuilds, reloads and missing
\* keys, a projection at rest (ProjectionRuntime) is the fold of the events in
\* effective order, each once, unless two loops overlapped, a page or start() met a
\* cache and a position that did not match, an event threw between its snapshot and its
\* position, or a rebase was not asked for.
THEOREM SettledAlwaysEffective == ProjectionSpec => []SettledIsEffective
<1>1. ProjectionInv => SettledIsEffective
  <2> SUFFICES ASSUME ProjectionInv, Settled, Sound PROVE Range(mem) = CommitSeqs \ skipped /\ Ascending(mem)
    BY DEF SettledIsEffective
  <2>1. AtRest /\ ready /\ Unread(cursor) = {} /\ ~Pardoned
    BY DEF Settled, CaughtUp, AtRest, Pardoned, At, Busy
  <2>2. started
    BY <2>1 DEF ProjectionInv, LifeInv
  <2>3. Fits(mem, cursor)
    BY <2>1, <2>2 DEF ProjectionInv, FoldInv, Loaded
  <2>4. Ascending(mem) /\ Range(mem) \cup skipped = CommitSeqs /\ Range(mem) \cap skipped = {}
    BY <2>1, <2>3 DEF Fits, Folded
  <2> QED BY <2>4
<1> QED BY <1>1, InvariantHolds, PTL

\* What a flush that is answered has read.
LEMMA FlushAnswered ==
  ASSUME ProjectionInv, [ProjectionNext]_projectionVars, NEW c \in Readers,
         flush[c].st \in {"owner", "joined"}, flush'[c].st = "done", Sound, faults' = 0
  PROVE  1..flush[c].need \subseteq Range(mem')
<1>1. ProjectionTypeOK /\ DataOK /\ LoopOK /\ FlushOK /\ CountOK /\ rows \in Seq(Nat) /\ faults \in Nat
  BY TypeParts, ProjectionConstants DEF ProjectionInv, DataOK, CountOK
<1>a. \A l \in Loops : ~FailAnalytics(l)
  <2> SUFFICES ASSUME NEW l \in Loops, FailAnalytics(l) PROVE FALSE
    OBVIOUS
  <2>1. faults' = faults + 1
    BY DEF FailAnalytics
  <2> QED BY <1>1, <2>1
<1>2. Finish("run") \/ FailEvent("run")
  <2>1. \E l \in Loops : LoopStep(l) \/ SkipEvent(l) \/ FailEvent(l)
    <3>1. SUFFICES ASSUME ~(\E l \in Loops : LoopStep(l) \/ SkipEvent(l) \/ FailEvent(l)) PROVE flush'[c].st # "done"
      OBVIOUS
    <3>2. CASE RowStep
      <4>1. flush' = flush
        BY <3>2 DEF RowStep, Commit, ApplyAssignments, ApplyRemoteEvents
      <4> QED BY <4>1
    <3>3. CASE StartPull \/ CheckPending \/ PullFails \/ UNCHANGED projectionVars \/ Notify \/ OnRebaseRequired \/ ResetAndRebuild \/ StartStep
      <4>1. flush' = flush
        BY <3>3 DEF StartPull, CheckPending, PullFails, projectionVars, Notify, OnRebaseRequired, ResetAndRebuild, StartStep, Start,
           LoadOrInitializeMeta, Bootstrap
      <4> QED BY <4>1
    <3>4. CASE \E x \in Readers : Flush(x) \/ Answer(x)
      <4>1. PICK x \in Readers : Flush(x) \/ Answer(x)
        BY <3>4
      <4>2. x # c
        BY <4>1 DEF Flush, Answer
      <4>3. flush'[c] = flush[c]
        BY <1>1, <4>1, <4>2 DEF Flush, Answer, FlushOK
      <4> QED BY <4>3
    <3>5. CASE Reload
      BY <3>5 DEF Reload, NoFlush
    <3> QED BY <1>a, <3>1, <3>2, <3>3, <3>4, <3>5 DEF ProjectionNext, RowStep
  <2>2. PICK l \in Loops : LoopStep(l) \/ SkipEvent(l) \/ FailEvent(l)
    BY <2>1
  <2>3. l = "run"
    <3>1. ASSUME l = "start" PROVE FALSE
      <4>1. flush'[c] = flush[c]
        BY <1>1, <2>2, <3>1, StartLoopFrame
      <4> QED BY <4>1
    <3> QED BY <3>1 DEF Loops
  <2>4. ASSUME ~Finish("run"), ~FailEvent("run") PROVE FALSE
    <3>1. LoopStep("run") \/ SkipEvent("run")
      BY <2>2, <2>3, <2>4
    <3>2. flush[c].st \in {"owner", "joined"} => Served(c)
      BY DEF ProjectionInv, FlushInv
    <3>3. flush' = flush
      BY <1>1, <2>4, <3>1, <3>2, ServedByPass DEF ProjectionInv, Waiting
    <3> QED BY <3>3
  <2> QED BY <2>4
<1>3. Finish("run")
  <2>1. FailEvent("run") => faults' = faults + 1
    BY DEF FailEvent
  <2> QED BY <1>1, <1>2, <2>1
<1>4. /\ loop["run"].pc = "finish" /\ mem' = mem /\ faults' = faults /\ Ends("run", TRUE)
  BY <1>3 DEF Finish, At
<1>5. ~again
  BY <1>4 DEF Ends
<1>6. \A k \in Unread(cursor) : k > flush[c].need
  <2>1. Served(c)
    BY DEF ProjectionInv, FlushInv
  <2> QED BY <1>4, <1>5, <2>1 DEF Served
<1>7. Range(mem) \cup skipped = CommitSeqs \ Unread(cursor)
  <2>1. Loaded
    BY <1>4, LoopLoaded DEF ProjectionInv, Loops
  <2> QED BY <2>1 DEF Loaded, Fits, Folded
<1>8. skipped = {}
  BY <1>4 DEF ProjectionInv, FlushInv
<1>9. \A k \in 1..flush[c].need : k \in CommitSeqs /\ k \notin Unread(cursor)
  <2>1. flush[c].need \in 0..Len(rows) /\ Len(rows) \in Nat /\ CommitSeqs = 1..Len(rows)
    BY <1>1 DEF FlushOK, FlushType, CommitSeqs
  <2>2. \A k \in 1..flush[c].need : k \in CommitSeqs /\ ~(k > flush[c].need)
    BY <2>1
  <2> QED BY <1>6, <2>2
<1> QED BY <1>4, <1>7, <1>8, <1>9

\* types.ts: a flush() that returns, without a fault, has every row in the snapshot that
\* there was when it was called, although it may have joined a pass whose batch was read
\* before.
THEOREM FlushAlwaysFresh == ProjectionSpec => FlushFresh
<1>1. ProjectionInv /\ [ProjectionNext]_projectionVars
      => [\A c \in Readers :
            /\ flush[c].st \in {"owner", "joined"} /\ flush'[c].st = "done"
            /\ Sound /\ faults' = 0
            => 1..flush[c].need \subseteq Range(mem')]_projectionVars
  BY FlushAnswered
<1> QED BY <1>1, InvariantHolds, PTL DEF ProjectionSpec, FlushFresh
=============================================================================
