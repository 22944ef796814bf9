-------------------------- MODULE ReactionsProofs --------------------------
(***************************************************************************)
(* Theorems about Reactions, for any set of projects, any histories and    *)
(* any bounds: the types, that the publisher delivers at least once, that  *)
(* at rest the saga's rows agree with the log, and that at rest a goal     *)
(* whose projects are all completed is achieved.  The first two rest on    *)
(* PublishInv, the others on SagaInv of SagaInvariant as well.             *)
(***************************************************************************)
EXTENDS SagaInvariant, SequenceTheorems, WellFoundedInduction, TLAPS

-----------------------------------------------------------------------------
(* Least and greatest numbers *)

\* A set of numbers that is not empty has a least one.
LEMMA LeastNumber ==
    ASSUME NEW T \in SUBSET Nat, T # {}
    PROVE  \E x \in T : \A y \in T : x <= y
<1>1. PICK x \in T : \A y \in T : ~(<<y, x>> \in OpToRel(<, Nat))
  BY NatLessThanWellFounded, WFMin
<1>2. \A y \in T : ~(y < x)
  BY <1>1 DEF OpToRel
<1> QED BY <1>2

\* A set of positions in the log that is not empty has a last one.
LEMMA LastPosition ==
    ASSUME NEW n \in Nat, NEW S \in SUBSET (1..n), S # {}
    PROVE  LastOf(S) \in S /\ \A j \in S : j <= LastOf(S)
<1> DEFINE T == {n - i : i \in S}
<1>0. \A i \in S : n - i \in Nat OBVIOUS
<1>1. T \in SUBSET Nat /\ T # {} BY <1>0
<1>2. PICK x \in T : \A y \in T : x <= y BY <1>1, LeastNumber
<1>3. PICK i \in S : x = n - i BY <1>2
<1>4. \A j \in S : n - i <= n - j BY <1>2, <1>3
<1>5. \A j \in S : j <= i BY <1>3, <1>4
<1>6. \E k \in S : \A j \in S : j <= k BY <1>5
<1> QED BY <1>6 DEF LastOf

\* The event of a batch that is handled first is one of the batch.
LEMMA EarliestOfBatch ==
    ASSUME NEW B \in SUBSET Events, B # {}
    PROVE  Earliest(B) \in B
<1> DEFINE T == {e.seq : e \in B}
<1>1. \A e \in Events : e.seq \in Nat BY DEF Events, GoalEvents, ProjectEvents
<1>2. T \in SUBSET Nat /\ T # {} BY <1>1
<1>3. PICK x \in T : \A y \in T : x <= y BY <1>2, LeastNumber
<1>4. PICK e \in B : x = e.seq BY <1>3
<1>5. \A f \in B : e.seq <= f.seq BY <1>3, <1>4
<1> QED BY <1>5 DEF Earliest

\* The log is finite: one of the goal's events has the greatest version.
LEMMA GreatestVersion ==
    ASSUME LogOK
    PROVE  /\ GoalVersion \in Nat
           /\ \E i \in Of("goal") : GoalVersion = log[i].version
<1> DEFINE V == {log[i].version : i \in Of("goal")}
           Bounded(n) == \E b \in Nat : \A i \in Of("goal") : i <= n => log[i].version <= b
           Unbounded == {n \in Nat : ~Bounded(n)}
<1>1. \A i \in Of("goal") : i \in Nat /\ i >= 1 /\ i <= Len(log) /\ log[i].version \in Nat
  <2> SUFFICES ASSUME NEW i \in Of("goal")
               PROVE  i \in Nat /\ i >= 1 /\ i <= Len(log) /\ log[i].version \in Nat
    OBVIOUS
  <2>1. i \in 1..Len(log) /\ log[i].agg = "goal" BY DEF Of
  <2>2. Len(log) \in Nat /\ log[i] \in Events BY <2>1, LenProperties, ElementOfSeq DEF LogOK
  <2>3. log[i] \in GoalEvents
    BY <2>1, <2>2, ReactionConstants DEF Events, ProjectEvents
  <2> QED BY <2>1, <2>2, <2>3 DEF GoalEvents
<1>2. Unbounded = {}
  <2> SUFFICES ASSUME Unbounded # {} PROVE FALSE
    OBVIOUS
  <2>1. PICK n \in Unbounded : \A m \in Unbounded : n <= m
    BY LeastNumber
  <2>2. n # 0
    <3>1. Bounded(0) BY <1>1
    <3> QED BY <2>1, <3>1
  <2>3. Bounded(n - 1) BY <2>1, <2>2
  <2>4. PICK b \in Nat : \A i \in Of("goal") : i <= n - 1 => log[i].version <= b
    BY <2>3
  <2>5. CASE n \in Of("goal")
    <3>1. log[n].version \in Nat BY <1>1, <2>5
    <3>2. PICK c \in Nat : b <= c /\ log[n].version <= c
      <4>1. CASE b <= log[n].version BY <3>1, <4>1
      <4>2. CASE ~(b <= log[n].version) BY <3>1, <4>2
      <4> QED BY <4>1, <4>2
    <3>3. \A i \in Of("goal") : i <= n => log[i].version <= c
      <4> SUFFICES ASSUME NEW i \in Of("goal"), i <= n PROVE log[i].version <= c
        OBVIOUS
      <4>1. CASE i = n BY <3>2, <4>1
      <4>2. CASE i # n
        <5>1. i <= n - 1 BY <1>1, <4>2
        <5>2. log[i].version <= b BY <2>4, <5>1
        <5>3. log[i].version \in Nat BY <1>1
        <5> QED BY <3>2, <5>2, <5>3
      <4> QED BY <4>1, <4>2
    <3>4. Bounded(n) BY <3>3
    <3> QED BY <2>1, <3>4
  <2>6. CASE n \notin Of("goal")
    <3>1. \A i \in Of("goal") : i <= n => i <= n - 1 BY <1>1, <2>6
    <3>2. Bounded(n) BY <2>4, <3>1
    <3> QED BY <2>1, <3>2
  <2> QED BY <2>5, <2>6
<1>3. Len(log) \in Nat BY LenProperties DEF LogOK
<1>4. Bounded(Len(log)) BY <1>2, <1>3
<1>5. PICK b \in Nat : \A i \in Of("goal") : log[i].version <= b
  BY <1>1, <1>4
<1> DEFINE T == {b - v : v \in V}
<1>6. 1 \in Of("goal") BY <1>3 DEF LogOK, Of
<1>7. \A v \in V : v \in Nat /\ v <= b BY <1>1, <1>5
<1>8. T \in SUBSET Nat /\ T # {}
  <2>1. V # {} BY <1>6
  <2>2. \A v \in V : b - v \in Nat
    <3> HIDE DEF V
    <3> QED BY <1>7
  <2> HIDE DEF V
  <2> QED BY <2>1, <2>2
<1>9. PICK x \in T : \A y \in T : x <= y BY <1>8, LeastNumber
<1>10. PICK v \in V : x = b - v
  <2> HIDE DEF V
  <2> QED BY <1>9
<1>11. \A w \in V : b - v <= b - w
  <2> HIDE DEF V
  <2> QED BY <1>9, <1>10
<1>12. \A w \in V : w <= v
  <2> HIDE DEF V
  <2> QED BY <1>7, <1>10, <1>11
<1>13. \A i \in Of("goal") : log[i].version \in V OBVIOUS
<1>14. v \in V /\ \A i \in Of("goal") : log[i].version <= v BY <1>10, <1>12, <1>13
<1>15. GoalVersion = CHOOSE w \in V : \A i \in Of("goal") : log[i].version <= w
  BY DEF GoalVersion
<1>16. GoalVersion \in V
  <2> HIDE DEF V
  <2> QED BY <1>14, <1>15
<1> QED BY <1>7, <1>16

-----------------------------------------------------------------------------
(* The log *)

\* A step keeps the events that were committed, except for the version of a pending
\* one, and may add some.
Grows ==
    /\ Len(log') \in Nat /\ Len(log) \in Nat /\ Len(log) <= Len(log')
    /\ \A i \in 1..Len(log) : /\ Stream(log'[i]) = Stream(log[i])
                              /\ CanRead(log'[i]) <=> CanRead(log[i])

\* A log that does not change is kept.
LEMMA Stays ==
    ASSUME LogOK, log' = log
    PROVE  LogOK' /\ Grows
  BY LenProperties DEF LogOK, Grows, Stream, CanRead

\* A commit keeps the shape of the log.
LEMMA CommitGrows ==
    ASSUME LogOK, NEW e \in Events, e.seq = Len(log) + 1, log' = Append(log, e)
    PROVE  LogOK' /\ Grows
<1>1. /\ log' \in Seq(Events) /\ Len(log') = Len(log) + 1 /\ Len(log) \in Nat
      /\ \A i \in 1..Len(log) : log'[i] = log[i]
      /\ log'[Len(log) + 1] = e
  BY AppendProperties, LenProperties DEF LogOK
<1>2. LogOK'
  BY <1>1 DEF LogOK
<1>3. Grows
  BY <1>1 DEF Grows, Stream, CanRead
<1> QED BY <1>2, <1>3

\* What the domain commits.
LEMMA GoalEventOK ==
    ASSUME LogOK, NEW type \in {"GoalCreated", "GoalRefined", "GoalAchieved",
                                "GoalUnachieved", "GoalArchived"}
    PROVE  GoalEvent(type) \in Events /\ GoalEvent(type).seq = Len(log) + 1
<1>1. GoalVersion + 1 \in Nat /\ Len(log) + 1 \in Nat
  BY GreatestVersion, LenProperties DEF LogOK
<1> QED BY <1>1 DEF GoalEvent, Events, GoalEvents

\* A project's event has the shape of an event.
LEMMA ProjectEventOK ==
    ASSUME LogOK, NEW p \in Projects, NEW linked \in BOOLEAN, NEW readable \in BOOLEAN,
           NEW status \in {"planned", "completed", NoProject},
           NEW type \in {"ProjectCreated", "ProjectStatusTransitioned", "ProjectGoalAdded",
                         "ProjectGoalRemoved"}
    PROVE  /\ ProjectEvent(p, type, linked, status, readable) \in Events
           /\ ProjectEvent(p, type, linked, status, readable).seq = Len(log) + 1
<1>1. Len(log) + 1 \in Nat
  BY LenProperties DEF LogOK
<1> QED BY <1>1 DEF ProjectEvent, Events, ProjectEvents

-----------------------------------------------------------------------------
(* The inductive invariant *)

\* What a stream has read and has not finished: every readable event up to the end
\* of the batch is handled or still in the batch, and the event whose handler runs
\* is one of the batch.
BatchHolds(s) ==
    th[s].pc # "idle" =>
        /\ th[s].upTo <= Len(log)
        /\ th[s].pc # "next" => th[s].ev \in th[s].batch
        /\ \A i \in 1..Len(log) :
               cursor[s] < i /\ i <= th[s].upTo /\ Stream(log[i]) = s /\ CanRead(log[i])
               => i \in served \/ \E e \in th[s].batch : e.seq = i

PublishInv ==
    /\ ShapesOK
    /\ \A s \in Streams : BatchHolds(s)
    /\ PublishedBeforeSaved

\* The two streams and bootstrap are the threads.
LEMMA StreamsAreThreads ==
    /\ Streams \subseteq Threads /\ "boot" \in Threads /\ "boot" \notin Streams
    /\ \A t \in Threads : t \in Streams \/ t = "boot"
  BY DEF Streams, Threads

\* Every event belongs to a stream.
LEMMA StreamOfEvent ==
    \A e : Stream(e) \in Streams
  BY DEF Stream, Streams

\* An idle thread is well typed.
LEMMA IdleTyped ==
    /\ IdleThread \in ThreadStates /\ IdleThread.pc = "idle"
    /\ emptyGoalState \in GoalStates /\ emptyProjectState \in ProjectStates
<1>1. emptyGoalState \in GoalStates BY DEF emptyGoalState, GoalStates
<1>2. emptyProjectState \in ProjectStates BY DEF emptyProjectState, ProjectStates
<1> QED BY <1>1, <1>2 DEF IdleThread, ThreadStates

\* The saved positions stay, events are added and handled: no saved position passes
\* an event that was not handled.
LEMMA SavedStay ==
    ASSUME ShapesOK, PublishedBeforeSaved, Grows, pos' = pos, served \subseteq served'
    PROVE  PublishedBeforeSaved'
<1> SUFFICES ASSUME NEW i \in 1..Len(log'), i <= pos[Stream(log'[i])], CanRead(log'[i])
             PROVE  i \in served'
  BY DEF PublishedBeforeSaved
<1>1. Stream(log'[i]) \in Streams BY StreamOfEvent
<1>2. pos[Stream(log'[i])] <= Len(log) /\ pos[Stream(log'[i])] \in Nat /\ Len(log) \in Nat
  BY <1>1 DEF ShapesOK, RowsOK, Grows
<1>3. i \in 1..Len(log) BY <1>2 DEF Grows
<1>4. Stream(log'[i]) = Stream(log[i]) /\ CanRead(log[i]) BY <1>3 DEF Grows
<1> QED BY <1>3, <1>4 DEF PublishedBeforeSaved

\* A batch is kept by a step that moves no position and leaves each of its events in
\* the batch or handled.
LEMMA BatchStays ==
    ASSUME ShapesOK, NEW s \in Streams, BatchHolds(s), Grows, cursor'[s] = cursor[s],
           th[s].pc # "idle", served \subseteq served', th'[s].upTo = th[s].upTo,
           th'[s].pc # "next" => th'[s].ev \in th'[s].batch,
           \A e \in th[s].batch : e \in th'[s].batch \/ e.seq \in served'
    PROVE  BatchHolds(s)'
<1>1. th[s].upTo \in Nat /\ th[s].upTo <= Len(log)
  BY StreamsAreThreads DEF ShapesOK, ThreadsOK, ThreadStates, BatchHolds
<1>2. th'[s].upTo <= Len(log') BY <1>1 DEF Grows
<1>3. ASSUME NEW i \in 1..Len(log'), cursor[s] < i, i <= th[s].upTo,
             Stream(log'[i]) = s, CanRead(log'[i])
      PROVE  i \in served' \/ \E e \in th'[s].batch : e.seq = i
  <2>1. i \in 1..Len(log) BY <1>1, <1>3 DEF Grows
  <2>2. Stream(log[i]) = s /\ CanRead(log[i]) BY <1>3, <2>1 DEF Grows
  <2>3. i \in served \/ \E e \in th[s].batch : e.seq = i
    BY <1>3, <2>1, <2>2 DEF BatchHolds
  <2> QED BY <2>3
<1> QED BY <1>2, <1>3 DEF BatchHolds

\* The fields of a thread that a step of another one never changes.
SameThread(u) ==
    /\ th'[u].pc = th[u].pc /\ th'[u].batch = th[u].batch
    /\ th'[u].ev = th[u].ev /\ th'[u].upTo = th[u].upTo

\* A step of one thread of an open tab: it goes on, or comes to rest.
LEMMA ThreadMoves ==
    ASSUME PublishInv, NEW t \in Threads, LogOK', RowsOK', Grows,
           UNCHANGED <<pos, cursor, phase, ran, seeded>>,
           wake' \subseteq Streams, budget' \in [user : Nat, faults : Nat],
           served \subseteq served',
           th[t].pc # "idle", th' \in [Threads -> ThreadStates],
           \A u \in Threads \ {t} : SameThread(u),
           th'[t].pc = "saveProject" => th'[t].ev \in ProjectEvents,
           th'[t].pc = "saveGoal" => th'[t].ev # NoEvent,
           t = "boot" =>
               /\ seeded <=> th'[t].pc \in {"next", "saveProject", "saveGoal"}
               /\ ~seeded => th'[t].batch = {},
           t \in Streams /\ th'[t].pc # "idle" =>
               /\ th'[t].upTo = th[t].upTo
               /\ th'[t].pc # "next" => th'[t].ev \in th'[t].batch
               /\ \A e \in th[t].batch : e \in th'[t].batch \/ e.seq \in served'
    PROVE  PublishInv'
<1>1. TabOK'
  BY DEF PublishInv, ShapesOK, TabOK
<1>2. ThreadsOK'
  <2>1. /\ th[t].pc # "idle" => phase # "down" /\ (t = "boot" => phase = "live")
    BY DEF PublishInv, ShapesOK, ThreadsOK
  <2>2. ASSUME NEW u \in Threads
        PROVE  /\ th'[u].pc # "idle" => phase' # "down" /\ (u = "boot" => phase' = "live")
               /\ th'[u].pc = "saveProject" => th'[u].ev \in ProjectEvents
               /\ th'[u].pc = "saveGoal" => th'[u].ev # NoEvent
    <3>1. CASE u = t BY <2>1, <3>1
    <3>2. CASE u # t
      <4>1. SameThread(u) BY <3>2
      <4>2. /\ th[u].pc # "idle" => phase # "down" /\ (u = "boot" => phase = "live")
            /\ th[u].pc = "saveProject" => th[u].ev \in ProjectEvents
            /\ th[u].pc = "saveGoal" => th[u].ev # NoEvent
        BY DEF PublishInv, ShapesOK, ThreadsOK
      <4> QED BY <4>1, <4>2 DEF SameThread
    <3> QED BY <3>1, <3>2
  <2>3. /\ seeded' <=> th'["boot"].pc \in {"next", "saveProject", "saveGoal"}
        /\ ~seeded' => th'["boot"].batch = {}
    <3>1. /\ seeded <=> th["boot"].pc \in {"next", "saveProject", "saveGoal"}
          /\ ~seeded => th["boot"].batch = {}
      BY DEF PublishInv, ShapesOK, ThreadsOK
    <3>2. CASE t = "boot" BY <3>2
    <3>3. CASE t # "boot"
      <4>1. SameThread("boot") BY <3>3, StreamsAreThreads
      <4> QED BY <3>1, <4>1 DEF SameThread
    <3> QED BY <3>2, <3>3
  <2> QED BY <2>2, <2>3 DEF ThreadsOK
<1>3. ASSUME NEW s \in Streams PROVE BatchHolds(s)'
  <2>1. BatchHolds(s) /\ s \in Threads BY StreamsAreThreads DEF PublishInv
  <2>2. CASE th'[s].pc = "idle" BY <2>2 DEF BatchHolds
  <2>3. CASE th'[s].pc # "idle" /\ s = t
    BY <2>1, <2>3, BatchStays DEF PublishInv
  <2>4. CASE th'[s].pc # "idle" /\ s # t
    <3>1. SameThread(s) BY <2>1, <2>4
    <3>2. /\ th[s].pc # "idle" /\ th'[s].upTo = th[s].upTo /\ th'[s].batch = th[s].batch
          /\ th'[s].pc # "next" => th'[s].ev \in th'[s].batch
      BY <2>1, <2>4, <3>1 DEF SameThread, BatchHolds
    <3> QED BY <2>1, <3>2, BatchStays DEF PublishInv
  <2> QED BY <2>2, <2>3, <2>4
<1>4. PublishedBeforeSaved' BY SavedStay DEF PublishInv
<1> QED BY <1>1, <1>2, <1>3, <1>4 DEF PublishInv, ShapesOK

\* A step that leaves every thread and every position where it is.
LEMMA ThreadsStay ==
    ASSUME PublishInv, LogOK', RowsOK', Grows,
           UNCHANGED <<pos, cursor, phase, seeded, th, served>>,
           ran' \subseteq Streams, wake' \subseteq Streams,
           budget' \in [user : Nat, faults : Nat]
    PROVE  PublishInv'
<1>1. TabOK' BY DEF PublishInv, ShapesOK, TabOK
<1>2. ThreadsOK' BY DEF PublishInv, ShapesOK, ThreadsOK
<1>3. ASSUME NEW s \in Streams PROVE BatchHolds(s)'
  <2>1. BatchHolds(s) /\ s \in Threads BY StreamsAreThreads DEF PublishInv
  <2>2. CASE th[s].pc = "idle" BY <2>2 DEF BatchHolds
  <2>3. CASE th[s].pc # "idle"
    <3>1. th'[s].pc # "next" => th'[s].ev \in th'[s].batch
      BY <2>1, <2>3 DEF BatchHolds
    <3> QED BY <2>1, <2>3, <3>1, BatchStays DEF PublishInv
  <2> QED BY <2>2, <2>3
<1>4. PublishedBeforeSaved' BY SavedStay DEF PublishInv
<1> QED BY <1>1, <1>2, <1>3, <1>4 DEF PublishInv, ShapesOK

-----------------------------------------------------------------------------
(* What a step does to the threads and the rows *)

\* Setting one thread leaves the others as they are.
LEMMA SetThread ==
    ASSUME ShapesOK, NEW t \in Threads, NEW r \in ThreadStates, th' = [th EXCEPT ![t] = r]
    PROVE  /\ th' \in [Threads -> ThreadStates] /\ th'[t] = r
           /\ \A u \in Threads \ {t} : SameThread(u)
  BY DEF ShapesOK, ThreadsOK, SameThread

\* Marking copies as stale changes nothing else.
LEMMA SetOutdated ==
    ASSUME ShapesOK, NEW t \in Threads, NEW r \in ThreadStates, NEW pcs,
           th' = Outdated([th EXCEPT ![t] = r], t, pcs)
    PROVE  /\ th' \in [Threads -> ThreadStates] /\ th'[t] = r
           /\ \A u \in Threads \ {t} : SameThread(u)
<1> DEFINE f == [th EXCEPT ![t] = r]
<1>1. f \in [Threads -> ThreadStates] /\ f[t] = r /\ \A u \in Threads \ {t} : f[u] = th[u]
  BY DEF ShapesOK, ThreadsOK
<1> HIDE DEF f
<1>2. th' = [u \in Threads |-> IF u # t /\ f[u].pc \in pcs
                               THEN [f[u] EXCEPT !.stale = TRUE] ELSE f[u]]
  BY DEF Outdated, f
<1>3. \A x \in ThreadStates :
         /\ [x EXCEPT !.stale = TRUE] \in ThreadStates
         /\ [x EXCEPT !.stale = TRUE].pc = x.pc /\ [x EXCEPT !.stale = TRUE].batch = x.batch
         /\ [x EXCEPT !.stale = TRUE].ev = x.ev /\ [x EXCEPT !.stale = TRUE].upTo = x.upTo
  BY DEF ThreadStates
<1>4. th' \in [Threads -> ThreadStates] BY <1>1, <1>2, <1>3
<1>5. th'[t] = r BY <1>1, <1>2
<1>6. ASSUME NEW u \in Threads \ {t} PROVE SameThread(u)
  <2>1. f[u] = th[u] /\ f[u] \in ThreadStates BY <1>1
  <2>2. th'[u] = f[u] \/ th'[u] = [f[u] EXCEPT !.stale = TRUE] BY <1>2
  <2> QED BY <1>3, <2>1, <2>2 DEF SameThread
<1> QED BY <1>4, <1>5, <1>6

\* The record of a thread whose handler has returned.
LEMMA ServedTyped ==
    ASSUME ShapesOK, NEW t \in Threads
    PROVE  /\ Served(t) \in ThreadStates /\ Served(t).pc = "next"
           /\ Served(t).batch = th[t].batch \ {th[t].ev} /\ Served(t).upTo = th[t].upTo
<1>1. th[t] \in ThreadStates BY DEF ShapesOK, ThreadsOK
<1> QED BY <1>1, IdleTyped DEF Served, ThreadStates

\* A growing log keeps the rows well typed.
LEMMA RowsGrow ==
    ASSUME RowsOK, Grows, UNCHANGED <<goalRow, projRow, pos>>
    PROVE  RowsOK'
  BY DEF RowsOK, Grows

\* A row of the right shape keeps the rows well typed.
LEMMA RowsWritten ==
    ASSUME RowsOK, Grows, goalRow' \in GoalStates \cup {NoRow},
           projRow' \in [Projects -> ProjectStates \cup {NoRow}], pos' = pos
    PROVE  RowsOK'
  BY DEF RowsOK, Grows

\* A handler returns after it asked for something, or for nothing.
LEMMA HandlerEnds ==
    ASSUME PublishInv, NEW t \in Threads, LogOK', Grows,
           UNCHANGED <<pos, cursor, phase, ran, seeded, goalRow, projRow, budget>>,
           wake' \subseteq Streams,
           th[t].pc \notin {"idle", "next", "saveProject", "saveGoal"}, HandlerDone(t)
    PROVE  PublishInv'
<1>1. ShapesOK /\ RowsOK' BY RowsGrow DEF PublishInv, ShapesOK
<1>2. th[t] \in ThreadStates BY <1>1 DEF ShapesOK, ThreadsOK
<1>3. budget' \in [user : Nat, faults : Nat] BY <1>1 DEF ShapesOK, TabOK
<1>4. served \subseteq served' BY DEF HandlerDone
<1>5. CASE th[t].batch = {}
  <2>1. th' = [th EXCEPT ![t] = IdleThread] BY <1>5 DEF HandlerDone, Set
  <2>2. /\ th' \in [Threads -> ThreadStates] /\ th'[t] = IdleThread
        /\ \A u \in Threads \ {t} : SameThread(u)
    BY <1>1, <2>1, SetThread, IdleTyped
  <2>3. t = "boot" => ~seeded BY <1>1 DEF ShapesOK, ThreadsOK
  <2>4. IdleThread.pc = "idle" /\ IdleThread.batch = {} BY DEF IdleThread
  <2> QED BY <1>1, <1>3, <1>4, <2>2, <2>3, <2>4, ThreadMoves
<1>6. CASE th[t].batch # {}
  <2>1. th' = [th EXCEPT ![t] = Served(t)] BY <1>6 DEF HandlerDone, Set
  <2>2. t # "boot" BY <1>1, <1>6 DEF ShapesOK, ThreadsOK
  <2>3. t \in Streams BY <2>2, StreamsAreThreads
  <2>4. served' = served \cup {th[t].ev.seq} BY <1>6, <2>2 DEF HandlerDone
  <2>5. /\ th' \in [Threads -> ThreadStates] /\ th'[t] = Served(t)
        /\ \A u \in Threads \ {t} : SameThread(u)
    BY <1>1, <2>1, SetThread, ServedTyped
  <2>6. /\ th'[t].pc = "next" /\ th'[t].upTo = th[t].upTo
        /\ th'[t].batch = th[t].batch \ {th[t].ev}
    BY <1>1, <2>5, ServedTyped
  <2>7. \A e \in th[t].batch : e \in th'[t].batch \/ e.seq \in served'
    BY <2>4, <2>6
  <2> QED BY <1>1, <1>3, <1>4, <2>2, <2>3, <2>5, <2>6, <2>7, ThreadMoves
<1> QED BY <1>5, <1>6

\* The handler throws: the thread comes to rest.
LEMMA HandlerThrows ==
    ASSUME PublishInv, NEW t \in Threads, log' = log, served' = served,
           UNCHANGED <<pos, cursor, phase, ran, seeded, goalRow, projRow, budget>>,
           th[t].pc \notin {"idle", "next", "saveProject", "saveGoal"}, Throw(t)
    PROVE  PublishInv'
<1>1. ShapesOK /\ LogOK' /\ Grows BY Stays DEF PublishInv, ShapesOK
<1>2. RowsOK' BY <1>1, RowsGrow DEF ShapesOK
<1>3. /\ budget' \in [user : Nat, faults : Nat] /\ wake' \subseteq Streams
  BY <1>1 DEF ShapesOK, TabOK, Throw
<1>4. th' = [th EXCEPT ![t] = IdleThread] BY DEF Throw, Set
<1>5. /\ th' \in [Threads -> ThreadStates] /\ th'[t] = IdleThread
      /\ \A u \in Threads \ {t} : SameThread(u)
  BY <1>1, <1>4, SetThread, IdleTyped
<1>6. t = "boot" => ~seeded BY <1>1 DEF ShapesOK, ThreadsOK
<1>7. IdleThread.pc = "idle" /\ IdleThread.batch = {} BY DEF IdleThread
<1> QED BY <1>1, <1>2, <1>3, <1>5, <1>6, <1>7, ThreadMoves

\* A handler goes on to ask, to dispatch, or to take its request back.
LEMMA HandlerGoesOn ==
    ASSUME PublishInv, NEW t \in Threads, log' = log, RowsOK',
           UNCHANGED <<pos, cursor, phase, ran, seeded, served, wake>>,
           budget' \in [user : Nat, faults : Nat],
           th[t].pc \notin {"idle", "next", "saveProject", "saveGoal"},
           th' \in [Threads -> ThreadStates],
           \A u \in Threads \ {t} : SameThread(u),
           th'[t].pc \in {"dispatch", "undo", "undone", "unachieve"},
           th'[t].batch = th[t].batch, th'[t].ev = th[t].ev, th'[t].upTo = th[t].upTo
    PROVE  PublishInv'
<1>1. ShapesOK /\ LogOK' /\ Grows BY Stays DEF PublishInv, ShapesOK
<1>2. wake' \subseteq Streams BY <1>1 DEF ShapesOK, TabOK
<1>3. t = "boot" => ~seeded /\ th'[t].batch = {} BY <1>1 DEF ShapesOK, ThreadsOK
<1>4. t \in Streams => th[t].ev \in th[t].batch BY DEF PublishInv, BatchHolds
<1> QED BY <1>1, <1>2, <1>3, <1>4, ThreadMoves

-----------------------------------------------------------------------------
(* Rows *)

\* What the handlers read of the goal is well typed.
LEMMA EnsuredTyped ==
    ASSUME RowsOK
    PROVE  ensureGoalState \in GoalStates
  BY IdleTyped DEF RowsOK, ensureGoalState

\* A handler makes a project row of the right shape.
LEMMA ProjectAfterTyped ==
    ASSUME NEW proj \in ProjectStates, NEW e \in ProjectEvents
    PROVE  ProjectAfter(proj, e) \in ProjectStates
<1>1. /\ e.linked \in BOOLEAN /\ e.status \in {"planned", "completed", NoProject}
      /\ e.type \in {"ProjectCreated", "ProjectStatusTransitioned", "ProjectGoalAdded",
                     "ProjectGoalRemoved"}
  BY DEF ProjectEvents
<1>2. CASE e.type = "ProjectCreated"
  BY <1>1, <1>2 DEF ProjectAfter, ProjectStates
<1>3. CASE e.type = "ProjectGoalAdded"
  BY <1>1, <1>3 DEF ProjectAfter, ProjectStates
<1>4. CASE e.type = "ProjectGoalRemoved"
  BY <1>1, <1>4 DEF ProjectAfter, ProjectStates
<1>5. CASE e.type = "ProjectStatusTransitioned"
  BY <1>1, <1>5 DEF ProjectAfter, ProjectStates
<1> QED BY <1>1, <1>2, <1>3, <1>4, <1>5

\* addLinkedProject, removeLinkedProject, addCompletedProject, removeCompletedProject.
LEMMA LinksTyped ==
    ASSUME NEW g \in GoalStates, NEW p \in Projects, NEW done \in BOOLEAN
    PROVE  /\ Linked(g, p) \in GoalStates /\ Unlinked(g, p) \in GoalStates
           /\ WithCompletion(g, p, done) \in GoalStates
           /\ [g EXCEPT !.completed = @ \ {p}] \in GoalStates
  BY DEF Linked, Unlinked, WithCompletion, GoalStates

\* A handler makes a goal row of the right shape.
LEMMA GoalAfterTyped ==
    ASSUME NEW g \in GoalStates, NEW e \in Events, NEW proj \in ProjectStates
    PROVE  GoalAfter(g, e, proj) \in GoalStates
<1>1. CASE e \in GoalEvents
  <2>1. e.agg = "goal" /\ e.version \in Nat
        /\ e.type \in {"GoalCreated", "GoalRefined", "GoalAchieved", "GoalUnachieved",
                       "GoalArchived"}
    BY <1>1 DEF GoalEvents
  <2>2. CASE e.type \in {"GoalAchieved", "GoalUnachieved"}
    <3>1. GoalAfter(g, e, proj) =
            [g EXCEPT !.achieved = (e.type = "GoalAchieved"), !.requested = FALSE,
                      !.version = e.version]
      BY <2>2 DEF GoalAfter
    <3> QED BY <2>1, <3>1 DEF GoalStates
  <2>3. CASE e.type = "GoalArchived"
    <3>1. GoalAfter(g, e, proj) =
            [g EXCEPT !.archived = TRUE, !.requested = FALSE, !.version = e.version]
      BY <2>3 DEF GoalAfter
    <3> QED BY <2>1, <3>1 DEF GoalStates
  <2>4. CASE e.type \in {"GoalCreated", "GoalRefined"}
    <3>1. GoalAfter(g, e, proj) = [g EXCEPT !.version = e.version]
      BY <2>1, <2>4 DEF GoalAfter
    <3> QED BY <2>1, <3>1 DEF GoalStates
  <2> QED BY <2>1, <2>2, <2>3, <2>4
<1>2. CASE e \in ProjectEvents
  <2>1. e.agg \in Projects /\ e.agg # "goal"
        /\ e.type \in {"ProjectCreated", "ProjectStatusTransitioned", "ProjectGoalAdded",
                       "ProjectGoalRemoved"}
    BY <1>2, ReactionConstants DEF ProjectEvents
  <2>2. CASE e.type = "ProjectGoalRemoved"
    <3>1. GoalAfter(g, e, proj) = Unlinked(g, e.agg)
      <4>1. /\ e.type \notin {"GoalAchieved", "GoalUnachieved"} /\ e.type # "GoalArchived"
            /\ e.type \notin {"GoalCreated", "GoalRefined"}
            /\ e.type # "ProjectStatusTransitioned"
        BY <2>1, <2>2
      <4> QED BY <2>2, <4>1, Zenon DEF GoalAfter
    <3> QED BY <2>1, <3>1, LinksTyped
  <2>3. CASE e.type # "ProjectGoalRemoved"
    <3>1. \/ GoalAfter(g, e, proj) = [Linked(g, e.agg) EXCEPT !.completed = @ \ {e.agg}]
          \/ GoalAfter(g, e, proj) = WithCompletion(Linked(g, e.agg), e.agg,
                                                    proj.status = "completed")
      <4>1. /\ e.type \notin {"GoalAchieved", "GoalUnachieved"} /\ e.type # "GoalArchived"
            /\ e.type \notin {"GoalCreated", "GoalRefined"} /\ e.type # "ProjectGoalRemoved"
        BY <2>1, <2>3
      <4>2. CASE e.type = "ProjectStatusTransitioned" /\ ~(proj.status = "completed")
        BY <4>1, <4>2, Zenon DEF GoalAfter
      <4>3. CASE ~(e.type = "ProjectStatusTransitioned" /\ ~(proj.status = "completed"))
        BY <4>1, <4>3, Zenon DEF GoalAfter
      <4> QED BY <4>2, <4>3
    <3>2. Linked(g, e.agg) \in GoalStates BY <2>1, LinksTyped
    <3> QED BY <2>1, <3>1, <3>2, LinksTyped
  <2> QED BY <2>2, <2>3
<1> QED BY <1>1, <1>2 DEF Events

-----------------------------------------------------------------------------
(* The steps *)

\* Users keep PublishInv.
LEMMA UserSteps ==
    ASSUME PublishInv, UserNext
    PROVE  PublishInv'
<1>a. LogOK /\ ShapesOK BY DEF PublishInv, ShapesOK
<1>1. ASSUME NEW e \in Events, e.seq = Len(log) + 1, UserEvent(e) PROVE PublishInv'
  <2>1. LogOK' /\ Grows BY <1>1, <1>a, CommitGrows DEF UserEvent, Commit
  <2>2. RowsOK' BY <1>1, <1>a, <2>1, RowsGrow DEF UserEvent, ShapesOK
  <2>3. wake' \subseteq Streams /\ ran' \subseteq Streams
    BY <1>1, <1>a DEF UserEvent, Commit, ShapesOK, TabOK
  <2>4. budget' \in [user : Nat, faults : Nat]
    <3>1. /\ budget \in [user : Nat, faults : Nat] /\ budget.user > 0
          /\ budget' = [budget EXCEPT !.user = @ - 1]
      BY <1>1, <1>a DEF UserEvent, ShapesOK, TabOK
    <3>2. budget.user - 1 \in Nat BY <3>1
    <3> QED BY <3>1, <3>2
  <2>5. UNCHANGED <<pos, cursor, phase, seeded, th, served>>
    BY <1>1 DEF UserEvent
  <2> QED BY <2>1, <2>2, <2>3, <2>4, <2>5, ThreadsStay
<1>2. ASSUME NEW p \in Projects, NEW linked \in BOOLEAN, NEW readable \in BOOLEAN,
             NEW st \in {"planned", "completed"}, CreateProject(p, linked, st, readable)
      PROVE PublishInv'
  BY <1>1, <1>2, <1>a, ProjectEventOK DEF CreateProject
<1>3. \A p \in Projects : Readable(p) \in BOOLEAN BY DEF Readable
<1>4. ASSUME NEW p \in Projects, NEW st \in {"planned", "completed"}, TransitionStatus(p, st)
      PROVE PublishInv'
  BY <1>1, <1>3, <1>4, <1>a, ProjectEventOK DEF TransitionStatus
<1>5. ASSUME NEW p \in Projects, LinkGoal(p) PROVE PublishInv'
  BY <1>1, <1>3, <1>5, <1>a, ProjectEventOK DEF LinkGoal
<1>6. ASSUME NEW p \in Projects, UnlinkGoal(p) PROVE PublishInv'
  BY <1>1, <1>3, <1>6, <1>a, ProjectEventOK DEF UnlinkGoal
<1>7. CASE EditGoal BY <1>1, <1>7, <1>a, GoalEventOK DEF EditGoal
<1>8. CASE ArchiveGoal BY <1>1, <1>8, <1>a, GoalEventOK DEF ArchiveGoal
<1>9. CASE UnachieveByUser BY <1>1, <1>9, <1>a, GoalEventOK DEF UnachieveByUser
<1> QED BY <1>2, <1>4, <1>5, <1>6, <1>7, <1>8, <1>9 DEF UserNext

\* handleEvent.
LEMMA HandleSteps ==
    ASSUME PublishInv, NEW t \in Threads, HandleEvent(t)
    PROVE  PublishInv'
<1>a. ShapesOK /\ LogOK' /\ Grows BY Stays DEF PublishInv, ShapesOK, HandleEvent
<1>b. RowsOK' /\ RowsOK BY <1>a, RowsGrow DEF ShapesOK, HandleEvent
<1> DEFINE e == Earliest(th[t].batch)
           pc == IF e.agg = "goal" THEN "saveGoal" ELSE "saveProject"
           g == IF e.agg = "goal" THEN ensureGoalState ELSE emptyGoalState
           pr == IF e.agg = "goal" \/ e.type = "ProjectCreated" \/ projRow[e.agg] = NoRow
                 THEN emptyProjectState ELSE projRow[e.agg]
           r == [th[t] EXCEPT !.ev = e, !.pc = pc, !.goal = g, !.proj = pr]
<1>1. th[t] \in ThreadStates /\ th[t].pc = "next" /\ th[t].batch # {}
  BY <1>a DEF ShapesOK, ThreadsOK, HandleEvent
<1>2. th[t].batch \in SUBSET Events BY <1>1 DEF ThreadStates
<1>3. e \in th[t].batch /\ e \in Events BY <1>1, <1>2, EarliestOfBatch
<1>4. e.agg # "goal" => e \in ProjectEvents /\ e.agg \in Projects
  BY <1>3 DEF Events, GoalEvents, ProjectEvents
<1>5. e # NoEvent
  <2>1. e.type # "SystemReconciliation" BY <1>3 DEF Events, GoalEvents, ProjectEvents
  <2> QED BY <2>1 DEF NoEvent
<1>6. g \in GoalStates BY <1>b, EnsuredTyped, IdleTyped
<1>7. pr \in ProjectStates BY <1>4, <1>b, IdleTyped DEF RowsOK
<1>8. th' = [th EXCEPT ![t] = r]
  BY <1>a DEF HandleEvent, ShapesOK, ThreadsOK
<1> HIDE DEF e, pr, g
<1>9. /\ r \in ThreadStates /\ r.pc = pc /\ r.ev = e /\ r.batch = th[t].batch
      /\ r.upTo = th[t].upTo
  BY <1>1, <1>3, <1>6, <1>7 DEF ThreadStates
<1> HIDE DEF r
<1>10. /\ th' \in [Threads -> ThreadStates] /\ th'[t] = r
       /\ \A u \in Threads \ {t} : SameThread(u)
  BY <1>a, <1>8, <1>9, SetThread
<1>11. /\ UNCHANGED <<pos, cursor, phase, ran, seeded, served>>
       /\ wake' \subseteq Streams /\ budget' \in [user : Nat, faults : Nat]
  BY <1>a DEF HandleEvent, ShapesOK, TabOK
<1>12. t = "boot" => seeded BY <1>a, <1>1 DEF ShapesOK, ThreadsOK
<1> QED BY <1>a, <1>b, <1>1, <1>3, <1>4, <1>5, <1>9, <1>10, <1>11, <1>12, ThreadMoves

\* The project's row is saved.
LEMMA SaveProjectSteps ==
    ASSUME PublishInv, NEW t \in Threads, SaveProject(t)
    PROVE  PublishInv'
<1>a. ShapesOK /\ LogOK' /\ Grows BY Stays DEF PublishInv, ShapesOK, SaveProject
<1> DEFINE e == th[t].ev
           after == ProjectAfter(th[t].proj, e)
           touches == after.linked \/ (e.type = "ProjectGoalRemoved" /\ th[t].proj.linked)
           drop == e.type = "ProjectGoalRemoved" /\ ~th[t].proj.linked
           on == [th[t] EXCEPT !.pc = "saveGoal", !.proj = after, !.goal = ensureGoalState,
                               !.stale = FALSE]
           r == IF touches THEN on ELSE Served(t)
<1>1. th[t] \in ThreadStates /\ th[t].pc = "saveProject" /\ e \in ProjectEvents
  BY <1>a DEF ShapesOK, ThreadsOK, SaveProject
<1>2. th[t].proj \in ProjectStates /\ e.agg \in Projects
  BY <1>1 DEF ThreadStates, ProjectEvents
<1>3. after \in ProjectStates BY <1>1, <1>2, ProjectAfterTyped
<1>4. ensureGoalState \in GoalStates BY <1>a, EnsuredTyped DEF ShapesOK
<1>5. th' = Outdated([th EXCEPT ![t] = r], t, {"saveProject"})
  BY <1>a DEF SaveProject, ShapesOK, ThreadsOK
<1>6. projRow' = [projRow EXCEPT ![e.agg] = IF drop THEN NoRow ELSE after]
  BY DEF SaveProject
<1>7. served' = IF touches \/ t = "boot" THEN served ELSE served \cup {e.seq}
  BY DEF SaveProject
<1>8. /\ UNCHANGED <<pos, cursor, phase, ran, seeded, goalRow>>
      /\ wake' \subseteq Streams /\ budget' \in [user : Nat, faults : Nat]
  BY <1>a DEF SaveProject, ShapesOK, TabOK
<1> HIDE DEF after
<1>9. /\ on \in ThreadStates /\ on.pc = "saveGoal" /\ on.ev = e /\ on.batch = th[t].batch
      /\ on.upTo = th[t].upTo
  BY <1>1, <1>3, <1>4 DEF ThreadStates
<1>10. RowsOK'
  <2>1. projRow' \in [Projects -> ProjectStates \cup {NoRow}]
    BY <1>a, <1>3, <1>6 DEF ShapesOK, RowsOK
  <2>2. goalRow' \in GoalStates \cup {NoRow} BY <1>a, <1>8 DEF ShapesOK, RowsOK
  <2> QED BY <1>a, <1>8, <2>1, <2>2, RowsWritten DEF ShapesOK
<1>11. r \in ThreadStates BY <1>a, <1>9, ServedTyped
<1> HIDE DEF on, e, drop, touches
<1>12. /\ th' \in [Threads -> ThreadStates] /\ th'[t] = r
       /\ \A u \in Threads \ {t} : SameThread(u)
  <2> HIDE DEF r
  <2> QED BY <1>a, <1>5, <1>11, SetOutdated
<1>13. t = "boot" => seeded BY <1>a, <1>1 DEF ShapesOK, ThreadsOK
<1>14. e # NoEvent
  <2>1. e.type # "SystemReconciliation" BY <1>1 DEF ProjectEvents
  <2> QED BY <2>1 DEF NoEvent
<1>15. CASE touches
  <2>1. th'[t] = on BY <1>12, <1>15
  <2>2. served' = served BY <1>7, <1>15
  <2>3. t \in Streams => e \in th[t].batch BY <1>1 DEF PublishInv, BatchHolds, e
  <2> QED BY <1>a, <1>1, <1>8, <1>9, <1>10, <1>12, <1>13, <1>14, <2>1, <2>2, <2>3, ThreadMoves
<1>16. CASE ~touches
  <2>1. th'[t] = Served(t) BY <1>12, <1>16
  <2>2. /\ Served(t).pc = "next" /\ Served(t).batch = th[t].batch \ {e}
        /\ Served(t).upTo = th[t].upTo
    BY <1>a, ServedTyped DEF e
  <2>3. served \subseteq served' BY <1>7
  <2>4. t \in Streams => \A x \in th[t].batch : x \in th'[t].batch \/ x.seq \in served'
    <3>1. t \in Streams => served' = served \cup {e.seq} BY <1>7, <1>16, StreamsAreThreads
    <3> QED BY <2>1, <2>2, <3>1
  <2> QED BY <1>a, <1>1, <1>8, <1>10, <1>12, <1>13, <2>1, <2>2, <2>3, <2>4, ThreadMoves
<1> QED BY <1>15, <1>16

\* The goal's row is saved.
LEMMA SaveGoalSteps ==
    ASSUME PublishInv, NEW t \in Threads, SaveGoal(t)
    PROVE  PublishInv'
<1>a. ShapesOK /\ LogOK' /\ Grows BY Stays DEF PublishInv, ShapesOK, SaveGoal
<1> DEFINE e == th[t].ev
           row == GoalAfter(th[t].goal, e, th[t].proj)
           last == t = "boot" \/ e.agg = "goal"
           on == [th[t] EXCEPT !.pc = "ask", !.goal = row]
           r == IF last THEN Served(t) ELSE on
<1>1. th[t] \in ThreadStates /\ th[t].pc = "saveGoal" /\ e \in Events
  BY <1>a DEF ShapesOK, ThreadsOK, SaveGoal, ThreadStates
<1>2. th[t].proj \in ProjectStates /\ th[t].goal \in GoalStates
  BY <1>1 DEF ThreadStates
<1>3. row \in GoalStates BY <1>1, <1>2, GoalAfterTyped
<1>5. th' = Outdated([th EXCEPT ![t] = r], t, HoldsGoal)
  BY <1>a DEF SaveGoal, ShapesOK, ThreadsOK
<1>6. goalRow' = row BY DEF SaveGoal
<1>7. served' = IF t # "boot" /\ last THEN served \cup {e.seq} ELSE served
  BY DEF SaveGoal
<1>8. /\ UNCHANGED <<pos, cursor, phase, ran, seeded, projRow>>
      /\ wake' \subseteq Streams /\ budget' \in [user : Nat, faults : Nat]
  BY <1>a DEF SaveGoal, ShapesOK, TabOK
<1> HIDE DEF row
<1>9. /\ on \in ThreadStates /\ on.pc = "ask" /\ on.ev = e /\ on.batch = th[t].batch
      /\ on.upTo = th[t].upTo
  BY <1>1, <1>3 DEF ThreadStates
<1>10. RowsOK'
  <2>1. projRow' \in [Projects -> ProjectStates \cup {NoRow}]
    BY <1>a, <1>8 DEF ShapesOK, RowsOK
  <2> QED BY <1>a, <1>3, <1>6, <1>8, <2>1, RowsWritten DEF ShapesOK
<1>11. r \in ThreadStates BY <1>a, <1>9, ServedTyped
<1> HIDE DEF on, e, last
<1>12. /\ th' \in [Threads -> ThreadStates] /\ th'[t] = r
       /\ \A u \in Threads \ {t} : SameThread(u)
  <2> HIDE DEF r
  <2> QED BY <1>a, <1>5, <1>11, SetOutdated
<1>13. t = "boot" => seeded BY <1>a, <1>1 DEF ShapesOK, ThreadsOK
<1>14. CASE last
  <2>1. th'[t] = Served(t) BY <1>12, <1>14
  <2>2. /\ Served(t).pc = "next" /\ Served(t).batch = th[t].batch \ {e}
        /\ Served(t).upTo = th[t].upTo
    BY <1>a, ServedTyped DEF e
  <2>3. served \subseteq served' BY <1>7
  <2>4. t \in Streams => \A x \in th[t].batch : x \in th'[t].batch \/ x.seq \in served'
    <3>1. t \in Streams => served' = served \cup {e.seq} BY <1>7, <1>14, StreamsAreThreads
    <3> QED BY <2>1, <2>2, <3>1
  <2> QED BY <1>a, <1>1, <1>8, <1>10, <1>12, <1>13, <2>1, <2>2, <2>3, <2>4, ThreadMoves
<1>15. CASE ~last
  <2>1. th'[t] = on /\ t # "boot" BY <1>12, <1>15 DEF last
  <2>2. served' = served BY <1>7, <1>15
  <2>3. t \in Streams => e \in th[t].batch BY <1>1 DEF PublishInv, BatchHolds, e
  <2> QED BY <1>a, <1>1, <1>8, <1>9, <1>10, <1>12, <2>1, <2>2, <2>3, ThreadMoves
<1> QED BY <1>14, <1>15

\* The saga writes the goal's row on its way to a command or after it.
LEMMA WriteGoalSteps ==
    ASSUME PublishInv, NEW t \in Threads, NEW row \in GoalStates,
           NEW pc \in {"dispatch", "undone"}, WriteGoal(t, row, pc),
           th[t].pc \notin {"idle", "next", "saveProject", "saveGoal"},
           UNCHANGED <<log, pos, cursor, phase, ran, wake, projRow, seeded, budget, served>>
    PROVE  PublishInv'
<1>a. ShapesOK /\ LogOK' /\ Grows BY Stays DEF PublishInv, ShapesOK
<1> DEFINE r == [th[t] EXCEPT !.pc = pc, !.goal = row]
<1>1. th[t] \in ThreadStates BY <1>a DEF ShapesOK, ThreadsOK
<1>2. /\ r \in ThreadStates /\ r.pc = pc /\ r.ev = th[t].ev /\ r.batch = th[t].batch
      /\ r.upTo = th[t].upTo
  BY <1>1 DEF ThreadStates
<1>3. [th EXCEPT ![t].pc = pc, ![t].goal = row] = [th EXCEPT ![t] = r]
  BY <1>a DEF ShapesOK, ThreadsOK
<1>4. th' = Outdated([th EXCEPT ![t] = r], t, HoldsGoal)
  BY <1>3 DEF WriteGoal
<1> HIDE DEF r
<1>5. /\ th' \in [Threads -> ThreadStates] /\ th'[t] = r
      /\ \A u \in Threads \ {t} : SameThread(u)
  BY <1>a, <1>2, <1>4, SetOutdated
<1>6. RowsOK'
  <2>1. goalRow' \in GoalStates \cup {NoRow} BY DEF WriteGoal
  <2>2. projRow' \in [Projects -> ProjectStates \cup {NoRow}] BY <1>a DEF ShapesOK, RowsOK
  <2> QED BY <1>a, <2>1, <2>2, RowsWritten DEF ShapesOK
<1>7. budget' \in [user : Nat, faults : Nat] BY <1>a DEF ShapesOK, TabOK
<1> QED BY <1>2, <1>5, <1>6, <1>7, HandlerGoesOn

\* A thread goes to another place of its handler.
LEMMA GotoSteps ==
    ASSUME PublishInv, NEW t \in Threads,
           NEW pc \in {"undo", "unachieve"}, NEW b \in BOOLEAN,
           th' = [th EXCEPT ![t].pc = pc, ![t].throws = b] \/ Goto(t, pc),
           th[t].pc \notin {"idle", "next", "saveProject", "saveGoal"},
           budget' \in [user : Nat, faults : Nat],
           UNCHANGED <<log, pos, cursor, phase, ran, wake, goalRow, projRow, seeded, served>>
    PROVE  PublishInv'
<1>a. ShapesOK /\ LogOK' /\ Grows BY Stays DEF PublishInv, ShapesOK
<1>1. th[t] \in ThreadStates BY <1>a DEF ShapesOK, ThreadsOK
<1>2. PICK r \in ThreadStates :
         /\ th' = [th EXCEPT ![t] = r] /\ r.pc = pc /\ r.ev = th[t].ev
         /\ r.batch = th[t].batch /\ r.upTo = th[t].upTo
  <2>1. CASE th' = [th EXCEPT ![t].pc = pc, ![t].throws = b]
    <3> DEFINE r == [th[t] EXCEPT !.pc = pc, !.throws = b]
    <3>1. /\ r \in ThreadStates /\ r.pc = pc /\ r.ev = th[t].ev /\ r.batch = th[t].batch
          /\ r.upTo = th[t].upTo
      BY <1>1 DEF ThreadStates
    <3>2. th' = [th EXCEPT ![t] = r] BY <1>a, <2>1 DEF ShapesOK, ThreadsOK
    <3> QED BY <3>1, <3>2
  <2>2. CASE Goto(t, pc)
    <3> DEFINE r == [th[t] EXCEPT !.pc = pc]
    <3>1. /\ r \in ThreadStates /\ r.pc = pc /\ r.ev = th[t].ev /\ r.batch = th[t].batch
          /\ r.upTo = th[t].upTo
      BY <1>1 DEF ThreadStates
    <3>2. th' = [th EXCEPT ![t] = r] BY <1>a, <2>2 DEF ShapesOK, ThreadsOK, Goto
    <3> QED BY <3>1, <3>2
  <2> QED BY <2>1, <2>2
<1>3. /\ th' \in [Threads -> ThreadStates] /\ th'[t] = r
      /\ \A u \in Threads \ {t} : SameThread(u)
  BY <1>a, <1>2, SetThread
<1>4. RowsOK' BY <1>a, RowsGrow DEF ShapesOK
<1> QED BY <1>2, <1>3, <1>4, HandlerGoesOn

\* maybeAchieveGoal and maybeUnachieveGoal, with the commands they dispatch.
LEMMA AskSteps ==
    ASSUME PublishInv, NEW t \in Threads,
           \/ AskNothing(t) \/ AskInVain(t) \/ RequestAchievement(t) \/ AskUnachievement(t)
           \/ DispatchAchieve(t) \/ FailAchieve(t) \/ UndoRequest(t) \/ Undone(t)
           \/ DispatchUnachieve(t) \/ UnachieveThrows(t)
    PROVE  PublishInv'
<1>a. ShapesOK /\ LogOK BY DEF PublishInv, ShapesOK
<1>b. log' = log => LogOK' /\ Grows BY <1>a, Stays
<1>c. /\ wake \subseteq Streams /\ budget \in [user : Nat, faults : Nat]
      /\ th[t] \in ThreadStates
  BY <1>a DEF ShapesOK, TabOK, ThreadsOK
<1>d. th[t].goal \in GoalStates BY <1>c DEF ThreadStates
<1>1. CASE AskNothing(t)
  <2>1. /\ log' = log /\ UNCHANGED <<pos, cursor, phase, ran, seeded, goalRow, projRow>>
        /\ UNCHANGED <<budget, wake>> /\ th[t].pc = "ask" /\ HandlerDone(t)
    BY <1>1 DEF AskNothing
  <2> QED BY <1>b, <1>c, <2>1, HandlerEnds
<1>2. CASE AskInVain(t)
  <2>1. /\ log' = log /\ UNCHANGED <<pos, cursor, phase, ran, seeded, goalRow, projRow>>
        /\ UNCHANGED <<budget, wake>> /\ th[t].pc = "ask" /\ HandlerDone(t)
    BY <1>2 DEF AskInVain, MayAsk
  <2> QED BY <1>b, <1>c, <2>1, HandlerEnds
<1>3. CASE RequestAchievement(t)
  <2>1. [th[t].goal EXCEPT !.requested = TRUE] \in GoalStates BY <1>d DEF GoalStates
  <2>2. WriteGoal(t, [th[t].goal EXCEPT !.requested = TRUE], "dispatch") /\ th[t].pc = "ask"
    BY <1>3 DEF RequestAchievement, MayAsk
  <2>3. UNCHANGED <<log, pos, cursor, phase, ran, wake, projRow, seeded, budget, served>>
    BY <1>3 DEF RequestAchievement
  <2> QED BY <2>1, <2>2, <2>3, WriteGoalSteps
<1>4. CASE AskUnachievement(t)
  <2>1. /\ Goto(t, "unachieve") /\ th[t].pc = "ask" /\ budget' = budget
        /\ UNCHANGED <<log, pos, cursor, phase, ran, wake, goalRow, projRow, seeded, served>>
    BY <1>4 DEF AskUnachievement, MayAsk
  <2> QED BY <1>c, <2>1, GotoSteps
<1>5. CASE DispatchAchieve(t)
  <2>1. /\ UNCHANGED <<pos, cursor, phase, ran, seeded, goalRow, projRow, budget>>
        /\ th[t].pc = "dispatch"
    BY <1>5 DEF DispatchAchieve
  <2>2. CASE HandlerDone(t) /\ UNCHANGED <<log, wake, idem, refused>>
    BY <1>b, <1>c, <2>1, <2>2, HandlerEnds
  <2>3. CASE Goto(t, "undo") /\ UNCHANGED <<log, wake, idem, served>>
    BY <1>c, <2>1, <2>3, GotoSteps
  <2>4. CASE /\ th' = [th EXCEPT ![t].pc = "undo", ![t].throws = TRUE]
             /\ UNCHANGED <<log, wake, idem, refused, served>>
    BY <1>c, <2>1, <2>4, GotoSteps
  <2>5. CASE Commit(GoalEvent("GoalAchieved")) /\ HandlerDone(t)
    <3>1. LogOK' /\ Grows BY <1>a, <2>5, CommitGrows, GoalEventOK DEF Commit
    <3>2. wake' \subseteq Streams BY <2>5 DEF Commit
    <3> QED BY <2>1, <2>5, <3>1, <3>2, HandlerEnds
  <2> QED BY <1>5, <2>2, <2>3, <2>4, <2>5 DEF DispatchAchieve
<1>6. CASE FailAchieve(t)
  <2>1. /\ th' = [th EXCEPT ![t].pc = "undo", ![t].throws = TRUE] /\ th[t].pc = "dispatch"
        /\ UNCHANGED <<log, pos, cursor, phase, ran, wake, goalRow, projRow, seeded, served>>
        /\ budget.faults > 0 /\ budget' = [budget EXCEPT !.faults = @ - 1]
    BY <1>6 DEF FailAchieve
  <2>2. budget.faults - 1 \in Nat BY <1>c, <2>1
  <2>3. budget' \in [user : Nat, faults : Nat] BY <1>c, <2>1, <2>2
  <2> QED BY <2>1, <2>3, GotoSteps
<1>7. CASE UndoRequest(t)
  <2>1. [th[t].goal EXCEPT !.requested = FALSE] \in GoalStates BY <1>d DEF GoalStates
  <2>2. WriteGoal(t, [th[t].goal EXCEPT !.requested = FALSE], "undone") /\ th[t].pc = "undo"
    BY <1>7 DEF UndoRequest
  <2>3. UNCHANGED <<log, pos, cursor, phase, ran, wake, projRow, seeded, budget, served>>
    BY <1>7 DEF UndoRequest
  <2> QED BY <2>1, <2>2, <2>3, WriteGoalSteps
<1>8. CASE Undone(t)
  <2>1. /\ log' = log /\ th[t].pc = "undone"
        /\ UNCHANGED <<pos, cursor, phase, ran, seeded, goalRow, projRow, budget>>
    BY <1>8 DEF Undone
  <2>2. CASE th[t].throws
    <3>1. Throw(t) /\ served' = served BY <1>8, <2>2 DEF Undone
    <3> QED BY <2>1, <3>1, HandlerThrows
  <2>3. CASE ~th[t].throws
    <3>1. HandlerDone(t) /\ wake' = wake BY <1>8, <2>3 DEF Undone
    <3> QED BY <1>b, <1>c, <2>1, <3>1, HandlerEnds
  <2> QED BY <2>2, <2>3
<1>9. CASE DispatchUnachieve(t)
  <2>1. /\ UNCHANGED <<pos, cursor, phase, ran, seeded, goalRow, projRow, budget>>
        /\ th[t].pc = "unachieve" /\ HandlerDone(t)
    BY <1>9 DEF DispatchUnachieve
  <2>2. CASE UNCHANGED <<log, wake>>
    BY <1>b, <1>c, <2>1, <2>2, HandlerEnds
  <2>3. CASE Commit(GoalEvent("GoalUnachieved"))
    <3>1. LogOK' /\ Grows BY <1>a, <2>3, CommitGrows, GoalEventOK DEF Commit
    <3>2. wake' \subseteq Streams BY <2>3 DEF Commit
    <3> QED BY <2>1, <3>1, <3>2, HandlerEnds
  <2> QED BY <1>9, <2>2, <2>3 DEF DispatchUnachieve
<1>10. CASE UnachieveThrows(t)
  <2>1. /\ log' = log /\ th[t].pc = "unachieve" /\ served' = served /\ Throw(t)
        /\ UNCHANGED <<pos, cursor, phase, ran, seeded, goalRow, projRow, budget>>
    BY <1>10 DEF UnachieveThrows
  <2> QED BY <2>1, HandlerThrows
<1> QED BY <1>1, <1>2, <1>3, <1>4, <1>5, <1>6, <1>7, <1>8, <1>9, <1>10

-----------------------------------------------------------------------------
(* The publisher *)

\* runProcessStream reads what follows its position.
LEMMA ReadSteps ==
    ASSUME PublishInv, NEW s \in Streams, ReadBatch(s)
    PROVE  PublishInv'
<1>a. ShapesOK /\ LogOK' /\ Grows BY Stays DEF PublishInv, ShapesOK, ReadBatch
<1>b. RowsOK' BY <1>a, RowsGrow DEF ShapesOK, ReadBatch
<1>c. /\ UNCHANGED <<log, pos, cursor, phase, seeded, served, budget>>
      /\ th[s].pc = "idle" /\ phase # "down" /\ s \in Threads
      /\ wake' \subseteq Streams /\ budget' \in [user : Nat, faults : Nat]
  BY <1>a, StreamsAreThreads DEF ReadBatch, ShapesOK, TabOK
<1>d. Len(log) \in Nat BY <1>a DEF Grows
<1>1. CASE Fetched(s) = {}
  <2>1. th' = th /\ ran' \subseteq Streams
    BY <1>1, <1>a DEF ReadBatch, ShapesOK, TabOK
  <2> QED BY <1>a, <1>b, <1>c, <2>1, ThreadsStay
<1>2. CASE Fetched(s) # {}
  <2> DEFINE B == {log[i] : i \in {j \in Fetched(s) : CanRead(log[j])}}
             r == [IdleThread EXCEPT !.pc = "next", !.upTo = LastOf(Fetched(s)), !.batch = B]
  <2>1. th' = [th EXCEPT ![s] = r] /\ ran' = ran BY <1>2 DEF ReadBatch, Set
  <2>2. Fetched(s) \in SUBSET (1..Len(log)) BY DEF Fetched
  <2>3. LastOf(Fetched(s)) \in 1..Len(log) BY <1>2, <1>d, <2>2, LastPosition
  <2>4. \A i \in 1..Len(log) : log[i] \in Events
    BY <1>a, ElementOfSeq DEF ShapesOK, LogOK
  <2>5. B \in SUBSET Events BY <2>2, <2>4
  <2>6. /\ r \in ThreadStates /\ r.pc = "next" /\ r.upTo = LastOf(Fetched(s))
        /\ r.batch = B
    <3>1. LastOf(Fetched(s)) \in Nat BY <1>d, <2>3
    <3>2. IdleThread \in ThreadStates BY IdleTyped
    <3> HIDE DEF B
    <3> QED BY <2>5, <3>1, <3>2 DEF ThreadStates
  <2> HIDE DEF r
  <2>7. /\ th' \in [Threads -> ThreadStates] /\ th'[s] = r
        /\ \A u \in Threads \ {s} : SameThread(u)
    BY <1>a, <1>c, <2>1, <2>6, SetThread
  <2>8. TabOK' BY <1>a, <1>c, <2>1 DEF ShapesOK, TabOK
  <2>9. ThreadsOK'
    <3>1. s # "boot" BY StreamsAreThreads
    <3>2. SameThread("boot") BY <2>7, <3>1, StreamsAreThreads
    <3>3. ASSUME NEW u \in Threads
          PROVE  /\ th'[u].pc # "idle" => phase' # "down" /\ (u = "boot" => phase' = "live")
                 /\ th'[u].pc = "saveProject" => th'[u].ev \in ProjectEvents
                 /\ th'[u].pc = "saveGoal" => th'[u].ev # NoEvent
      <4>1. CASE u = s BY <1>c, <2>6, <2>7, <3>1, <4>1
      <4>2. CASE u # s
        <5>1. SameThread(u) BY <2>7, <4>2
        <5>2. /\ th[u].pc # "idle" => phase # "down" /\ (u = "boot" => phase = "live")
              /\ th[u].pc = "saveProject" => th[u].ev \in ProjectEvents
              /\ th[u].pc = "saveGoal" => th[u].ev # NoEvent
          BY <1>a DEF ShapesOK, ThreadsOK
        <5> QED BY <1>c, <5>1, <5>2 DEF SameThread
      <4> QED BY <4>1, <4>2
    <3>4. /\ seeded' <=> th'["boot"].pc \in {"next", "saveProject", "saveGoal"}
          /\ ~seeded' => th'["boot"].batch = {}
      BY <1>a, <1>c, <3>2 DEF ShapesOK, ThreadsOK, SameThread
    <3> QED BY <2>7, <3>3, <3>4 DEF ThreadsOK
  <2>10. ASSUME NEW q \in Streams PROVE BatchHolds(q)'
    <3>1. CASE q = s
      <4>1. th'[s].upTo <= Len(log') BY <1>c, <1>d, <2>3, <2>6, <2>7
      <4>2. \A i \in 1..Len(log) :
              cursor[s] < i /\ Stream(log[i]) = s /\ CanRead(log[i])
              => log[i] \in B /\ log[i].seq = i
        BY <1>a DEF Fetched, ShapesOK, LogOK
      <4>3. \A i \in 1..Len(log) :
              cursor[s] < i /\ Stream(log[i]) = s /\ CanRead(log[i])
              => \E e \in th'[s].batch : e.seq = i
        <5> HIDE DEF B
        <5> QED BY <2>6, <2>7, <4>2
      <4>4. \A i \in 1..Len(log') :
              cursor'[s] < i /\ Stream(log'[i]) = s /\ CanRead(log'[i])
              => \E e \in th'[s].batch : e.seq = i
        BY <1>c, <4>3
      <4>5. th'[s].pc = "next" BY <2>6, <2>7
      <4> QED BY <3>1, <4>1, <4>4, <4>5 DEF BatchHolds
    <3>2. CASE q # s
      <4>1. SameThread(q) /\ BatchHolds(q)
        BY <2>7, <3>2, StreamsAreThreads DEF PublishInv
      <4>2. CASE th[q].pc = "idle" BY <4>1, <4>2 DEF BatchHolds, SameThread
      <4>3. CASE th[q].pc # "idle"
        <5>1. /\ th'[q].upTo = th[q].upTo /\ th'[q].batch = th[q].batch
              /\ th'[q].pc # "next" => th'[q].ev \in th'[q].batch
          BY <4>1, <4>3 DEF SameThread, BatchHolds
        <5> QED BY <1>a, <1>c, <4>1, <4>3, <5>1, BatchStays
      <4> QED BY <4>2, <4>3
    <3> QED BY <3>1, <3>2
  <2>11. PublishedBeforeSaved' BY <1>a, <1>c, SavedStay DEF PublishInv
  <2> QED BY <1>a, <1>b, <2>8, <2>9, <2>10, <2>11 DEF PublishInv, ShapesOK
<1> QED BY <1>1, <1>2

\* saveLastSequence: the batch is empty, so all its events were handled.
LEMMA SaveSteps ==
    ASSUME PublishInv, NEW s \in Streams, SavePosition(s)
    PROVE  PublishInv'
<1>a. ShapesOK /\ LogOK' /\ Grows BY Stays DEF PublishInv, ShapesOK, SavePosition
<1>b. /\ UNCHANGED <<log, phase, wake, seeded, served, budget, goalRow, projRow>>
      /\ th[s].pc = "next" /\ th[s].batch = {} /\ s \in Threads /\ s # "boot"
      /\ cursor' = [cursor EXCEPT ![s] = th[s].upTo]
      /\ pos' = [pos EXCEPT ![s] = th[s].upTo]
      /\ th' = [th EXCEPT ![s] = IdleThread] /\ ran' = ran \cup {s}
  BY StreamsAreThreads DEF SavePosition, Set
<1>c. /\ cursor \in [Streams -> Nat] /\ pos \in [Streams -> Nat] /\ th[s].upTo \in Nat
  BY <1>a, <1>b DEF ShapesOK, TabOK, RowsOK, ThreadsOK, ThreadStates
<1>d. BatchHolds(s) BY DEF PublishInv
<1>e. th[s].upTo <= Len(log) BY <1>b, <1>d DEF BatchHolds
<1>1. RowsOK'
  <2>1. pos' \in [Streams -> Nat] BY <1>b, <1>c
  <2>2. \A q \in Streams : pos'[q] <= Len(log')
    BY <1>a, <1>b, <1>c, <1>e DEF ShapesOK, RowsOK
  <2> QED BY <1>a, <1>b, <2>1, <2>2 DEF ShapesOK, RowsOK
<1>2. phase # "down" => cursor = pos BY <1>a DEF ShapesOK, TabOK
<1>3. phase # "down" BY <1>a, <1>b DEF ShapesOK, ThreadsOK
<1>4. TabOK'
  BY <1>a, <1>b, <1>c, <1>2, <1>3 DEF ShapesOK, TabOK
<1>5. /\ th' \in [Threads -> ThreadStates] /\ th'[s] = IdleThread
      /\ \A u \in Threads \ {s} : SameThread(u)
  BY <1>a, <1>b, SetThread, IdleTyped
<1>6. ThreadsOK'
  <2>1. ASSUME NEW u \in Threads
        PROVE  /\ th'[u].pc # "idle" => phase' # "down" /\ (u = "boot" => phase' = "live")
               /\ th'[u].pc = "saveProject" => th'[u].ev \in ProjectEvents
               /\ th'[u].pc = "saveGoal" => th'[u].ev # NoEvent
    <3>1. CASE u = s BY <1>5, <3>1, IdleTyped
    <3>2. CASE u # s
      <4>1. SameThread(u) BY <1>5, <3>2
      <4>2. /\ th[u].pc # "idle" => phase # "down" /\ (u = "boot" => phase = "live")
            /\ th[u].pc = "saveProject" => th[u].ev \in ProjectEvents
            /\ th[u].pc = "saveGoal" => th[u].ev # NoEvent
        BY <1>a DEF ShapesOK, ThreadsOK
      <4> QED BY <1>b, <4>1, <4>2 DEF SameThread
    <3> QED BY <3>1, <3>2
  <2>2. SameThread("boot") BY <1>b, <1>5, StreamsAreThreads
  <2>3. /\ seeded' <=> th'["boot"].pc \in {"next", "saveProject", "saveGoal"}
        /\ ~seeded' => th'["boot"].batch = {}
    BY <1>a, <1>b, <2>2 DEF ShapesOK, ThreadsOK, SameThread
  <2> QED BY <1>5, <2>1, <2>3 DEF ThreadsOK
<1>7. ASSUME NEW q \in Streams PROVE BatchHolds(q)'
  <2>1. CASE q = s BY <1>5, <2>1, IdleTyped DEF BatchHolds
  <2>2. CASE q # s
    <3>1. SameThread(q) /\ BatchHolds(q) /\ cursor'[q] = cursor[q]
      BY <1>b, <1>c, <1>5, <2>2, StreamsAreThreads DEF PublishInv
    <3>2. CASE th[q].pc = "idle" BY <3>1, <3>2 DEF BatchHolds, SameThread
    <3>3. CASE th[q].pc # "idle"
      <4>1. /\ th'[q].upTo = th[q].upTo /\ th'[q].batch = th[q].batch
            /\ th'[q].pc # "next" => th'[q].ev \in th'[q].batch
        BY <3>1, <3>3 DEF SameThread, BatchHolds
      <4> QED BY <1>a, <1>b, <3>1, <3>3, <4>1, BatchStays
    <3> QED BY <3>2, <3>3
  <2> QED BY <2>1, <2>2
<1>8. PublishedBeforeSaved'
  <2> SUFFICES ASSUME NEW i \in 1..Len(log), i <= pos'[Stream(log[i])], CanRead(log[i])
               PROVE  i \in served
    BY <1>b DEF PublishedBeforeSaved
  <2>1. Stream(log[i]) \in Streams BY StreamOfEvent
  <2>2. CASE Stream(log[i]) # s
    <3>1. pos'[Stream(log[i])] = pos[Stream(log[i])] BY <1>b, <1>c, <2>1, <2>2
    <3> QED BY <3>1 DEF PublishInv, PublishedBeforeSaved
  <2>3. CASE Stream(log[i]) = s /\ i <= pos[s]
    BY <2>3 DEF PublishInv, PublishedBeforeSaved
  <2>4. CASE Stream(log[i]) = s /\ ~(i <= pos[s])
    <3>1. i <= th[s].upTo BY <1>b, <1>c, <2>4
    <3>2. cursor[s] < i BY <1>2, <1>3, <1>c, <2>4
    <3> QED BY <1>b, <1>d, <2>4, <3>1, <3>2 DEF BatchHolds
  <2> QED BY <2>2, <2>3, <2>4
<1> QED BY <1>a, <1>1, <1>4, <1>6, <1>7, <1>8 DEF PublishInv, ShapesOK

\* The bus has no handler yet: the whole batch counts as handled.
LEMMA NobodySteps ==
    ASSUME PublishInv, NEW s \in Streams, PublishToNobody(s)
    PROVE  PublishInv'
<1>a. ShapesOK /\ LogOK' /\ Grows BY Stays DEF PublishInv, ShapesOK, PublishToNobody
<1>b. RowsOK' BY <1>a, RowsGrow DEF ShapesOK, PublishToNobody
<1>c. /\ UNCHANGED <<pos, cursor, phase, ran, seeded>>
      /\ wake' \subseteq Streams /\ budget' \in [user : Nat, faults : Nat]
      /\ th[s].pc = "next" /\ s \in Threads /\ s # "boot"
      /\ th' = [th EXCEPT ![s].batch = {}]
      /\ served' = served \cup {e.seq : e \in th[s].batch}
  BY <1>a, StreamsAreThreads DEF PublishToNobody, ShapesOK, TabOK
<1> DEFINE r == [th[s] EXCEPT !.batch = {}]
<1>1. th[s] \in ThreadStates BY <1>a, <1>c DEF ShapesOK, ThreadsOK
<1>2. r \in ThreadStates /\ r.pc = "next" /\ r.upTo = th[s].upTo
  BY <1>1, <1>c DEF ThreadStates
<1>3. th' = [th EXCEPT ![s] = r] BY <1>a, <1>c DEF ShapesOK, ThreadsOK
<1> HIDE DEF r
<1>4. /\ th' \in [Threads -> ThreadStates] /\ th'[s] = r
      /\ \A u \in Threads \ {s} : SameThread(u)
  BY <1>a, <1>c, <1>2, <1>3, SetThread
<1>5. \A e \in th[s].batch : e.seq \in served' BY <1>c
<1>6. served \subseteq served' BY <1>c
<1> QED BY <1>a, <1>b, <1>c, <1>2, <1>4, <1>5, <1>6, ThreadMoves

\* A deferred batch keeps PublishInv.
LEMMA DeferSteps ==
    ASSUME PublishInv, NEW s \in Streams, DeferBatch(s)
    PROVE  PublishInv'
<1>a. ShapesOK /\ LogOK' /\ Grows BY Stays DEF PublishInv, ShapesOK, DeferBatch
<1>b. RowsOK' BY <1>a, RowsGrow DEF ShapesOK, DeferBatch
<1>c. /\ UNCHANGED <<pos, cursor, phase, seeded, th, served>>
      /\ wake' \subseteq Streams /\ ran' \subseteq Streams
      /\ budget \in [user : Nat, faults : Nat] /\ budget.faults > 0
      /\ budget' = [budget EXCEPT !.faults = @ - 1]
  BY <1>a DEF DeferBatch, ShapesOK, TabOK
<1>1. budget.faults - 1 \in Nat BY <1>c
<1>2. budget' \in [user : Nat, faults : Nat] BY <1>c, <1>1
<1> QED BY <1>a, <1>b, <1>c, <1>2, ThreadsStay

-----------------------------------------------------------------------------
(* Opening and closing the tab, bootstrap, and rebases *)

\* Only the thread of bootstrap changes, and the saga's flag with it.
LEMMA BootMoves ==
    ASSUME PublishInv, LogOK', RowsOK', Grows,
           UNCHANGED <<pos, cursor, ran, served>>,
           phase' = "live", phase # "down",
           wake' \subseteq Streams, budget' \in [user : Nat, faults : Nat],
           seeded' \in BOOLEAN, th' \in [Threads -> ThreadStates],
           \A u \in Streams : SameThread(u),
           th'["boot"].pc \notin {"saveProject", "saveGoal"},
           seeded' <=> th'["boot"].pc = "next",
           ~seeded' => th'["boot"].batch = {}
    PROVE  PublishInv'
<1>1. TabOK' BY DEF PublishInv, ShapesOK, TabOK
<1>2. ThreadsOK'
  <2>1. ASSUME NEW u \in Threads
        PROVE  /\ th'[u].pc # "idle" => phase' # "down" /\ (u = "boot" => phase' = "live")
               /\ th'[u].pc = "saveProject" => th'[u].ev \in ProjectEvents
               /\ th'[u].pc = "saveGoal" => th'[u].ev # NoEvent
    <3>1. CASE u = "boot" BY <3>1
    <3>2. CASE u # "boot"
      <4>1. SameThread(u) BY <3>2, StreamsAreThreads
      <4>2. /\ th[u].pc = "saveProject" => th[u].ev \in ProjectEvents
            /\ th[u].pc = "saveGoal" => th[u].ev # NoEvent
        BY DEF PublishInv, ShapesOK, ThreadsOK
      <4> QED BY <3>2, <4>1, <4>2 DEF SameThread
    <3> QED BY <3>1, <3>2
  <2> QED BY <2>1 DEF ThreadsOK
<1>3. ASSUME NEW q \in Streams PROVE BatchHolds(q)'
  <2>1. SameThread(q) /\ BatchHolds(q) BY DEF PublishInv
  <2>2. CASE th[q].pc = "idle" BY <2>1, <2>2 DEF BatchHolds, SameThread
  <2>3. CASE th[q].pc # "idle"
    <3>1. /\ th'[q].upTo = th[q].upTo /\ th'[q].batch = th[q].batch
          /\ th'[q].pc # "next" => th'[q].ev \in th'[q].batch
      BY <2>1, <2>3 DEF SameThread, BatchHolds
    <3> QED BY <2>1, <2>3, <3>1, BatchStays DEF PublishInv
  <2> QED BY <2>2, <2>3
<1>4. PublishedBeforeSaved' BY SavedStay DEF PublishInv
<1> QED BY <1>1, <1>2, <1>3, <1>4 DEF PublishInv, ShapesOK

\* Bootstrap reads all events, at the start of the saga and after a rebase.
LEMMA SeedSteps ==
    ASSUME PublishInv, ReadSeed, phase' = "live", phase # "down",
           UNCHANGED <<log, pos, cursor, ran, wake, goalRow, projRow, budget, served>>
    PROVE  PublishInv'
<1>a. ShapesOK /\ LogOK' /\ Grows BY Stays DEF PublishInv, ShapesOK
<1>b. RowsOK' BY <1>a, RowsGrow DEF ShapesOK
<1>c. wake' \subseteq Streams /\ budget' \in [user : Nat, faults : Nat]
  BY <1>a DEF ShapesOK, TabOK
<1> DEFINE r == [IdleThread EXCEPT !.pc = "next", !.batch = Seed, !.upTo = Len(log)]
<1>1. Seed \in SUBSET Events
  <2>1. \A i \in 1..Len(log) : log[i] \in Events
    BY <1>a, ElementOfSeq DEF ShapesOK, LogOK
  <2> QED BY <2>1 DEF Seed
<1>2. r \in ThreadStates /\ r.pc = "next"
  BY <1>a, <1>1, IdleTyped DEF IdleThread, ThreadStates, Grows
<1>3. th' = [th EXCEPT !["boot"] = r] /\ seeded' = TRUE BY DEF ReadSeed
<1> HIDE DEF r
<1>4. /\ th' \in [Threads -> ThreadStates] /\ th'["boot"] = r
      /\ \A u \in Threads \ {"boot"} : SameThread(u)
  BY <1>a, <1>2, <1>3, SetThread, StreamsAreThreads
<1>5. \A u \in Streams : SameThread(u) BY <1>4, StreamsAreThreads
<1> QED BY <1>a, <1>b, <1>c, <1>2, <1>3, <1>4, <1>5, BootMoves

\* Without the master key nothing is read.
LEMMA KeylessSteps ==
    ASSUME PublishInv, BootstrapWithoutKey \/ SeedWithoutKey
    PROVE  PublishInv'
<1>a. ShapesOK /\ LogOK' /\ Grows
  BY Stays DEF PublishInv, ShapesOK, BootstrapWithoutKey, SeedWithoutKey
<1>b. RowsOK' BY <1>a, RowsGrow DEF ShapesOK, BootstrapWithoutKey, SeedWithoutKey
<1>c. wake' \subseteq Streams /\ budget' \in [user : Nat, faults : Nat]
  BY <1>a DEF ShapesOK, TabOK, BootstrapWithoutKey, SeedWithoutKey
<1>d. /\ UNCHANGED <<pos, cursor, ran, served, seeded>> /\ phase # "down" /\ phase' = "live"
      /\ ~seeded /\ seeded' \in BOOLEAN
  BY <1>a, StreamsAreThreads
  DEF ShapesOK, TabOK, ThreadsOK, BootstrapWithoutKey, SeedWithoutKey
<1>1. CASE BootstrapWithoutKey
  <2>1. th' = th /\ th["boot"].pc \notin {"next", "saveProject", "saveGoal"}
        /\ th["boot"].batch = {} /\ th \in [Threads -> ThreadStates]
    BY <1>1, <1>a, <1>d DEF BootstrapWithoutKey, ShapesOK, ThreadsOK
  <2>2. \A u \in Streams : SameThread(u) BY <2>1 DEF SameThread
  <2> QED BY <1>a, <1>b, <1>c, <1>d, <2>1, <2>2, BootMoves
<1>2. CASE SeedWithoutKey
  <2>1. th' = [th EXCEPT !["boot"] = IdleThread] BY <1>2 DEF SeedWithoutKey, Set
  <2>2. IdleThread \in ThreadStates /\ IdleThread.pc = "idle" /\ IdleThread.batch = {}
    BY IdleTyped DEF IdleThread
  <2>3. /\ th' \in [Threads -> ThreadStates] /\ th'["boot"] = IdleThread
        /\ \A u \in Threads \ {"boot"} : SameThread(u)
    BY <1>a, <2>1, <2>2, SetThread, StreamsAreThreads
  <2>4. \A u \in Streams : SameThread(u) BY <2>3, StreamsAreThreads
  <2> QED BY <1>a, <1>b, <1>c, <1>d, <2>2, <2>3, <2>4, BootMoves
<1> QED BY <1>1, <1>2

\* The flag is set: nothing that is stored, read or published changes.
LEMMA BeginSteps ==
    ASSUME PublishInv, BeginReplay
    PROVE  PublishInv'
<1>a. ShapesOK /\ LogOK' /\ Grows BY Stays DEF PublishInv, ShapesOK, BeginReplay
<1>b. RowsOK' BY <1>a, RowsGrow DEF ShapesOK, BeginReplay
<1>c. /\ ran' \subseteq Streams /\ wake' \subseteq Streams
      /\ budget' \in [user : Nat, faults : Nat]
      /\ UNCHANGED <<pos, cursor, phase, seeded, th, served>>
  BY <1>a DEF ShapesOK, TabOK, BeginReplay
<1> QED BY <1>a, <1>b, <1>c, ThreadsStay

\* The end of bootstrap keeps PublishInv.
LEMMA EndReplaySteps ==
    ASSUME PublishInv, EndReplay
    PROVE  PublishInv'
<1>a. ShapesOK /\ LogOK' /\ Grows BY Stays DEF PublishInv, ShapesOK, EndReplay
<1>b. RowsOK' BY <1>a, RowsGrow DEF ShapesOK, EndReplay
<1>c. wake' \subseteq Streams /\ budget' \in [user : Nat, faults : Nat]
  BY <1>a DEF ShapesOK, TabOK, EndReplay
<1>d. phase = "live" /\ phase' = "live"
  BY <1>a, StreamsAreThreads DEF ShapesOK, ThreadsOK, EndReplay
<1> DEFINE r == IF goalRow = NoRow THEN IdleThread
                ELSE [IdleThread EXCEPT !.pc = "ask", !.goal = goalRow]
<1>1. r \in ThreadStates /\ r.pc \in {"idle", "ask"} /\ r.batch = {}
  <2>1. CASE goalRow = NoRow BY <2>1, IdleTyped DEF IdleThread
  <2>2. CASE goalRow # NoRow
    <3>1. goalRow \in GoalStates BY <1>a, <2>2 DEF ShapesOK, RowsOK
    <3> QED BY <2>2, <3>1, IdleTyped DEF IdleThread, ThreadStates
  <2> QED BY <2>1, <2>2
<1>2. th' = [th EXCEPT !["boot"] = r] /\ seeded' = FALSE BY DEF EndReplay, Set
<1> HIDE DEF r
<1>3. /\ th' \in [Threads -> ThreadStates] /\ th'["boot"] = r
      /\ \A u \in Threads \ {"boot"} : SameThread(u)
  BY <1>a, <1>1, <1>2, SetThread, StreamsAreThreads
<1>4. \A u \in Streams : SameThread(u) BY <1>3, StreamsAreThreads
<1>5. UNCHANGED <<pos, cursor, ran, served>> BY DEF EndReplay
<1> QED BY <1>a, <1>b, <1>c, <1>d, <1>1, <1>2, <1>3, <1>4, <1>5, BootMoves

\* A rebase counts a pending goal event up and adds the remote one.
LEMMA RebaseSteps ==
    ASSUME PublishInv, Rebase
    PROVE  PublishInv'
<1>a. ShapesOK /\ LogOK BY DEF PublishInv, ShapesOK
<1>b. Len(log) \in Nat BY <1>a, LenProperties DEF LogOK
<1> DEFINE i == LastOf(Of("goal"))
           m == [log EXCEPT ![i].version = @ + 1]
           e == [GoalEvent("GoalRefined") EXCEPT !.version = GoalVersion]
<1>1. i \in Of("goal") /\ i \in 1..Len(log) /\ log[i].agg = "goal"
  <2>1. 1 \in Of("goal") /\ Of("goal") \in SUBSET (1..Len(log))
    BY <1>a, <1>b DEF LogOK, Of
  <2>2. i \in Of("goal") BY <1>b, <2>1, LastPosition
  <2> QED BY <2>2 DEF Of
<1>2. log' = Append(m, e) BY DEF Rebase
<1>3. /\ GoalVersion \in Nat /\ e \in Events /\ e.seq = Len(log) + 1
  <2>1. GoalVersion \in Nat /\ GoalVersion + 1 \in Nat BY <1>a, GreatestVersion
  <2>2. Len(log) + 1 \in Nat BY <1>b
  <2> QED BY <2>1, <2>2 DEF GoalEvent, Events, GoalEvents
<1>4. /\ m \in Seq(Events) /\ Len(m) = Len(log)
      /\ \A j \in 1..Len(log) : /\ m[j].agg = log[j].agg /\ m[j].seq = log[j].seq
                                /\ CanRead(m[j]) <=> CanRead(log[j])
  <2> HIDE DEF i
  <2>1. log[i] \in GoalEvents
    <3>1. log[i] \in Events BY <1>a, <1>1, ElementOfSeq DEF LogOK
    <3> QED BY <1>1, <3>1, ReactionConstants DEF Events, ProjectEvents
  <2> DEFINE x == [log[i] EXCEPT !.version = @ + 1]
  <2>2. x \in GoalEvents /\ x.agg = log[i].agg /\ x.seq = log[i].seq
    BY <2>1 DEF GoalEvents
  <2>3. m = [log EXCEPT ![i] = x] BY <1>a, <1>1 DEF LogOK
  <2> HIDE DEF x, m
  <2>4. x \in Events BY <2>2 DEF Events
  <2>5. /\ m \in Seq(Events) /\ Len(m) = Len(log)
        /\ \A j \in 1..Len(log) : m[j] = IF j = i THEN x ELSE log[j]
    BY <1>a, <1>1, <2>3, <2>4, ExceptSeq DEF LogOK
  <2>6. \A j \in 1..Len(log) : /\ m[j].agg = log[j].agg /\ m[j].seq = log[j].seq
                               /\ CanRead(m[j]) <=> CanRead(log[j])
    BY <1>1, <2>2, <2>5 DEF CanRead
  <2> QED BY <2>5, <2>6
<1> HIDE DEF m, e, i
<1>5. /\ log' \in Seq(Events) /\ Len(log') = Len(log) + 1
      /\ \A j \in 1..Len(log) : log'[j] = m[j]
      /\ log'[Len(log) + 1] = e
  BY <1>2, <1>3, <1>4, AppendProperties
<1>6. LogOK'
  <2>1. 1 \in 1..Len(log) BY <1>a, <1>b DEF LogOK
  <2>2. log'[1].agg = "goal" BY <1>a, <1>4, <1>5, <2>1 DEF LogOK
  <2>3. ASSUME NEW j \in 1..Len(log') PROVE log'[j].seq = j
    <3>1. CASE j \in 1..Len(log) BY <1>a, <1>4, <1>5, <3>1 DEF LogOK
    <3>2. CASE j = Len(log) + 1 BY <1>3, <1>5, <3>2
    <3> QED BY <1>b, <1>5, <3>1, <3>2
  <2>4. Len(log') > 0 BY <1>b, <1>5
  <2> QED BY <1>5, <2>2, <2>3, <2>4 DEF LogOK
<1>7. Grows
  <2>1. Len(log') \in Nat /\ Len(log) <= Len(log') BY <1>b, <1>5
  <2>2. \A j \in 1..Len(log) : /\ Stream(log'[j]) = Stream(log[j])
                               /\ CanRead(log'[j]) <=> CanRead(log[j])
    BY <1>4, <1>5 DEF Stream
  <2> QED BY <1>b, <2>1, <2>2 DEF Grows
<1>8. /\ UNCHANGED <<pos, cursor, phase, ran, seeded, served>>
      /\ wake' = Streams /\ phase = "live" /\ th["boot"].pc = "idle"
      /\ goalRow' = NoRow /\ projRow' = [p \in Projects |-> NoRow]
      /\ budget.faults > 0 /\ budget' = [budget EXCEPT !.faults = @ - 1]
      /\ th' = Outdated([th EXCEPT !["boot"].pc = "seed"], "boot",
                        HoldsGoal \cup {"saveProject"})
  BY DEF Rebase
<1>9. RowsOK' BY <1>a, <1>7, <1>8, RowsWritten DEF ShapesOK
<1>10. budget' \in [user : Nat, faults : Nat]
  <2>1. budget \in [user : Nat, faults : Nat] BY <1>a DEF ShapesOK, TabOK
  <2>2. budget.faults - 1 \in Nat BY <1>8, <2>1
  <2> QED BY <1>8, <2>1, <2>2
<1> DEFINE r == [th["boot"] EXCEPT !.pc = "seed"]
<1>11. ~seeded /\ th["boot"].batch = {} /\ th["boot"] \in ThreadStates
  BY <1>a, <1>8, StreamsAreThreads DEF ShapesOK, ThreadsOK
<1>12. r \in ThreadStates /\ r.pc = "seed" /\ r.batch = {}
  BY <1>11 DEF ThreadStates
<1>13. [th EXCEPT !["boot"].pc = "seed"] = [th EXCEPT !["boot"] = r]
  BY <1>a DEF ShapesOK, ThreadsOK
<1> HIDE DEF r
<1>14. /\ th' \in [Threads -> ThreadStates] /\ th'["boot"] = r
       /\ \A u \in Threads \ {"boot"} : SameThread(u)
  BY <1>a, <1>8, <1>12, <1>13, SetOutdated, StreamsAreThreads
<1>15. \A u \in Streams : SameThread(u) BY <1>14, StreamsAreThreads
<1>16. seeded' = FALSE BY <1>a, <1>8, <1>11 DEF ShapesOK, TabOK
<1> QED BY <1>6, <1>7, <1>8, <1>9, <1>10, <1>12, <1>14, <1>15, <1>16, BootMoves

\* The tab is opened: the positions are loaded, no thread runs.
LEMMA StartSteps ==
    ASSUME PublishInv, StartPublisher
    PROVE  PublishInv'
<1>a. ShapesOK /\ LogOK' /\ Grows BY Stays DEF PublishInv, ShapesOK, StartPublisher
<1>b. RowsOK' BY <1>a, RowsGrow DEF ShapesOK, StartPublisher
<1>c. /\ phase = "down" /\ phase' = "starting" /\ cursor' = pos
      /\ UNCHANGED <<pos, th, seeded, served, budget>>
      /\ ran' = {} /\ wake' = Streams
  BY DEF StartPublisher
<1>1. \A t \in Threads : th[t].pc = "idle" BY <1>a, <1>c DEF ShapesOK, ThreadsOK
<1>2. TabOK' BY <1>a, <1>c DEF ShapesOK, TabOK, RowsOK
<1>3. ThreadsOK' BY <1>a, <1>c, <1>1 DEF ShapesOK, ThreadsOK
<1>4. \A s \in Streams : BatchHolds(s)' BY <1>c, <1>1, StreamsAreThreads DEF BatchHolds
<1>5. PublishedBeforeSaved' BY <1>a, <1>c, SavedStay DEF PublishInv
<1> QED BY <1>a, <1>b, <1>2, <1>3, <1>4, <1>5 DEF PublishInv, ShapesOK

\* The tab is closed at any point.
LEMMA CrashSteps ==
    ASSUME PublishInv, Crash
    PROVE  PublishInv'
<1>a. ShapesOK /\ LogOK' /\ Grows BY Stays DEF PublishInv, ShapesOK, Crash
<1>b. RowsOK' BY <1>a, RowsGrow DEF ShapesOK, Crash
<1>c. /\ phase' = "down" /\ ran' = {} /\ wake' = {} /\ cursor' = [s \in Streams |-> 0]
      /\ th' = [t \in Threads |-> IdleThread] /\ seeded' = FALSE
      /\ UNCHANGED <<pos, served>>
      /\ budget.faults > 0 /\ budget' = [budget EXCEPT !.faults = @ - 1]
  BY DEF Crash
<1>1. TabOK'
  <2>1. budget \in [user : Nat, faults : Nat] BY <1>a DEF ShapesOK, TabOK
  <2>2. budget.faults - 1 \in Nat BY <1>c, <2>1
  <2>3. budget' \in [user : Nat, faults : Nat] BY <1>c, <2>1, <2>2
  <2>4. cursor' \in [Streams -> Nat] BY <1>c
  <2> QED BY <1>c, <2>3, <2>4 DEF TabOK
<1>2. \A t \in Threads : th'[t] = IdleThread BY <1>c
<1>3. IdleThread.pc = "idle" /\ IdleThread.batch = {} /\ IdleThread \in ThreadStates
  BY IdleTyped DEF IdleThread
<1>4. ThreadsOK'
  <2>1. th' \in [Threads -> ThreadStates] BY <1>c, <1>3
  <2> QED BY <1>c, <1>2, <1>3, <2>1, StreamsAreThreads DEF ThreadsOK
<1>5. \A s \in Streams : BatchHolds(s)' BY <1>2, <1>3, StreamsAreThreads DEF BatchHolds
<1>6. PublishedBeforeSaved' BY <1>a, <1>c, SavedStay DEF PublishInv
<1> QED BY <1>a, <1>b, <1>1, <1>4, <1>5, <1>6 DEF PublishInv, ShapesOK

\* PublishInv holds at first.
LEMMA PublishStart == Init => PublishInv
<1> SUFFICES ASSUME Init PROVE PublishInv
  OBVIOUS
<1>1. PICK h \in Histories : log = h.log /\ budget = [user |-> h.more, faults |-> h.faults]
  BY DEF Init
<1>2. LogOK BY <1>1, ReactionConstants DEF LogOK
<1>3. Len(log) \in Nat BY <1>2, LenProperties DEF LogOK
<1>4. RowsOK
  <2>1. pos \in [Streams -> Nat] /\ \A s \in Streams : pos[s] <= Len(log)
    BY <1>3 DEF Init
  <2> QED BY <2>1 DEF Init, RowsOK
<1>5. TabOK
  <2>1. cursor \in [Streams -> Nat] BY DEF Init
  <2>2. budget \in [user : Nat, faults : Nat] BY <1>1, ReactionConstants
  <2> QED BY <2>1, <2>2 DEF Init, TabOK
<1>6. IdleThread.pc = "idle" /\ IdleThread.batch = {} /\ IdleThread \in ThreadStates
  BY IdleTyped DEF IdleThread
<1>7. \A t \in Threads : th[t] = IdleThread BY DEF Init
<1>8. ThreadsOK
  <2>1. th \in [Threads -> ThreadStates] BY <1>6 DEF Init
  <2>2. seeded = FALSE BY DEF Init
  <2> QED BY <1>6, <1>7, <2>1, <2>2, StreamsAreThreads DEF ThreadsOK
<1>9. \A s \in Streams : BatchHolds(s) BY <1>6, <1>7, StreamsAreThreads DEF BatchHolds
<1>10. PublishedBeforeSaved
  <2>1. \A s \in Streams : pos[s] = 0 BY DEF Init
  <2> QED BY <1>3, <2>1, StreamOfEvent DEF PublishedBeforeSaved
<1> QED BY <1>2, <1>4, <1>5, <1>8, <1>9, <1>10 DEF PublishInv, ShapesOK

\* Every step keeps PublishInv.
LEMMA PublishStep == PublishInv /\ [Next]_vars => PublishInv'
<1> SUFFICES ASSUME PublishInv, [Next]_vars PROVE PublishInv'
  OBVIOUS
<1>a. ShapesOK BY DEF PublishInv
<1>1. CASE UserNext BY <1>1, UserSteps
<1>2. CASE StartPublisher BY <1>2, StartSteps
<1>3. CASE Bootstrap
  BY <1>3, SeedSteps DEF Bootstrap
<1>4. CASE EndReplay BY <1>4, EndReplaySteps
<1>5. CASE Rebase BY <1>5, RebaseSteps
<1>6. CASE SeedAfterRebase
  <2>1. phase = "live" BY <1>6, <1>a, StreamsAreThreads DEF SeedAfterRebase, ShapesOK, ThreadsOK
  <2> QED BY <1>6, <2>1, SeedSteps DEF SeedAfterRebase
<1>11. CASE BootstrapWithoutKey \/ SeedWithoutKey BY <1>11, KeylessSteps
<1>12. CASE BeginReplay BY <1>12, BeginSteps
<1>7. ASSUME NEW s \in Streams,
             ReadBatch(s) \/ DeferBatch(s) \/ PublishToNobody(s) \/ SavePosition(s)
      PROVE  PublishInv'
  BY <1>7, ReadSteps, DeferSteps, NobodySteps, SaveSteps
<1>8. ASSUME NEW t \in Threads, Handler(t) \/ FailAchieve(t) PROVE PublishInv'
  BY <1>8, HandleSteps, SaveProjectSteps, SaveGoalSteps, AskSteps DEF Handler
<1>9. CASE Crash BY <1>9, CrashSteps
<1>10. CASE UNCHANGED vars
  <2>1. /\ UNCHANGED <<log, pos, cursor, phase, seeded, th, served, goalRow, projRow>>
        /\ UNCHANGED <<ran, wake, budget>>
    BY <1>10 DEF vars
  <2>2. LogOK' /\ Grows BY <1>a, <2>1, Stays DEF ShapesOK
  <2>3. RowsOK' BY <1>a, <2>1, <2>2, RowsGrow DEF ShapesOK
  <2>4. /\ ran' \subseteq Streams /\ wake' \subseteq Streams
        /\ budget' \in [user : Nat, faults : Nat]
    BY <1>a, <2>1 DEF ShapesOK, TabOK
  <2> QED BY <2>1, <2>2, <2>3, <2>4, ThreadsStay
<1> QED BY <1>1, <1>2, <1>3, <1>4, <1>5, <1>6, <1>7, <1>8, <1>9, <1>10, <1>11, <1>12 DEF Next

\* The saga's flag is not set at first.
LEMMA FlagStart == Init => FlagOK
  BY DEF Init, FlagOK

\* The saga's flag is set after the events were read and reset with the last of them.
LEMMA FlagStep == FlagOK /\ [Next]_vars => FlagOK'
<1> SUFFICES ASSUME FlagOK, [Next]_vars PROVE FlagOK'
  OBVIOUS
<1>1. CASE UserNext
  <2>1. UNCHANGED <<seeded, replaying>>
    BY <1>1 DEF UserNext, CreateProject, TransitionStatus, LinkGoal, UnlinkGoal, EditGoal,
                ArchiveGoal, UnachieveByUser, UserEvent
  <2> QED BY <2>1 DEF FlagOK
<1>2. CASE StartPublisher \/ Bootstrap \/ BootstrapWithoutKey \/ BeginReplay \/ EndReplay
           \/ Rebase \/ SeedAfterRebase \/ SeedWithoutKey \/ Crash
  <2>1. \/ UNCHANGED <<seeded, replaying>>
        \/ seeded' = TRUE /\ replaying' = replaying
        \/ seeded' = seeded /\ seeded /\ replaying' = TRUE
        \/ replaying' = FALSE
    BY <1>2 DEF StartPublisher, Bootstrap, BootstrapWithoutKey, BeginReplay, EndReplay,
                Rebase, SeedAfterRebase, SeedWithoutKey, Crash, ReadSeed
  <2>2. CASE UNCHANGED <<seeded, replaying>> BY <2>2 DEF FlagOK
  <2>3. CASE seeded' = TRUE /\ replaying' = replaying BY <2>3 DEF FlagOK
  <2>4. CASE seeded' = seeded /\ seeded /\ replaying' = TRUE BY <2>4, Zenon DEF FlagOK
  <2>5. CASE replaying' = FALSE BY <2>5 DEF FlagOK
  <2> QED BY <2>1, <2>2, <2>3, <2>4, <2>5
<1>3. ASSUME NEW s \in Streams,
             ReadBatch(s) \/ DeferBatch(s) \/ PublishToNobody(s) \/ SavePosition(s)
      PROVE  FlagOK'
  BY <1>3 DEF FlagOK, ReadBatch, DeferBatch, PublishToNobody, SavePosition
<1>4. ASSUME NEW t \in Threads, Handler(t) \/ FailAchieve(t) PROVE FlagOK'
  <2>1. UNCHANGED <<seeded, replaying>>
    BY <1>4 DEF Handler, FailAchieve, HandleEvent, SaveProject, SaveGoal, AskNothing, AskInVain,
                RequestAchievement, AskUnachievement, DispatchAchieve, UndoRequest, Undone,
                DispatchUnachieve, UnachieveThrows
  <2> QED BY <2>1 DEF FlagOK
<1>5. CASE UNCHANGED vars BY <1>5 DEF FlagOK, vars
<1> QED BY <1>1, <1>2, <1>3, <1>4, <1>5 DEF Next

\* Events, rows and threads keep their shapes, and the saga's flag `replaying` is set
\* only while bootstrap has events to replay, whatever crashes, rebases and failing
\* commands are interleaved with it.
THEOREM Typed == Spec => []TypeOK
<1>1. PublishInv /\ FlagOK => TypeOK BY DEF PublishInv, TypeOK
<1> QED BY <1>1, FlagStart, FlagStep, PublishStart, PublishStep, PTL DEF Spec

\* CommittedEventPublisher delivers at least once: no saved position has a readable
\* event before it whose handlers did not finish, for any log, any number of
\* crashes, throwing handlers, deferred batches and rebases.
THEOREM PublishesAtLeastOnce == Spec => []PublishedBeforeSaved
<1>1. PublishInv => PublishedBeforeSaved BY DEF PublishInv
<1> QED BY <1>1, PublishStart, PublishStep, PTL DEF Spec

-----------------------------------------------------------------------------
(* Positions *)

\* A position that no other of the set exceeds is the last one.
LEMMA LastIs ==
    ASSUME NEW n \in Nat, NEW S \in SUBSET (1..n), NEW x \in S, \A j \in S : j <= x
    PROVE  LastOf(S) = x
<1>0. S # {} OBVIOUS
<1>1. LastOf(S) \in S /\ \A j \in S : j <= LastOf(S) BY <1>0, LastPosition
<1>2. LastOf(S) <= x /\ x <= LastOf(S) BY <1>1
<1>3. LastOf(S) \in 1..n /\ x \in 1..n BY <1>1
<1> QED BY <1>2, <1>3

\* Positions and events of the log.
LEMMA LogTyped ==
    ASSUME LogOK
    PROVE  /\ Len(log) \in Nat /\ Len(log) > 0 /\ 1 \in 1..Len(log)
           /\ \A i \in 1..Len(log) :
                 /\ i \in Nat /\ log[i] \in Events /\ log[i].seq = i
                 /\ log[i].agg = "goal" => log[i] \in GoalEvents
                 /\ log[i].agg # "goal" => log[i] \in ProjectEvents /\ log[i].agg \in Projects
<1>1. Len(log) \in Nat /\ Len(log) > 0 BY LenProperties DEF LogOK
<1>2. ASSUME NEW i \in 1..Len(log) PROVE log[i] \in Events
  BY ElementOfSeq DEF LogOK
<1>3. ASSUME NEW e \in Events
      PROVE  /\ e.agg = "goal" => e \in GoalEvents
             /\ e.agg # "goal" => e \in ProjectEvents /\ e.agg \in Projects
  BY ReactionConstants DEF Events, GoalEvents, ProjectEvents
<1> QED BY <1>1, <1>2, <1>3 DEF LogOK

\* The positions of a project, of its links and of its status changes.
LEMMA ProjectPositions ==
    ASSUME LogOK, NEW p
    PROVE  /\ Of(p) \in SUBSET (1..Len(log)) /\ Linking(p) \in SUBSET (1..Len(log))
           /\ Statuses(p) \in SUBSET (1..Len(log))
           /\ Linking(p) \subseteq Of(p) /\ Statuses(p) \subseteq Of(p)
           /\ \A i \in Of(p) : i \in 1..Len(log) /\ log[i].agg = p
           /\ \A i \in Linking(p) : log[i].type \in {"ProjectCreated", "ProjectGoalAdded",
                                                     "ProjectGoalRemoved"}
           /\ \A i \in Statuses(p) : log[i].type \in {"ProjectCreated",
                                                      "ProjectStatusTransitioned"}
  BY DEF Of, Linking, Statuses

\* A project begins with its creation.
LEMMA CreatedFirst ==
    ASSUME LogOK, Sane(log), NEW p \in Projects, Exists(p)
    PROVE  \E i \in Of(p) : /\ log[i].type = "ProjectCreated" /\ i \in Linking(p)
                            /\ i \in Statuses(p) /\ \A j \in Of(p) : i <= j
<1>0. p # "goal" BY ReactionConstants
<1>1. Of(p) \in SUBSET Nat /\ Of(p) # {} BY LogTyped DEF Of, Exists
<1>2. PICK i \in Of(p) : \A j \in Of(p) : i <= j BY <1>1, LeastNumber
<1>3. i \in 1..Len(log) /\ log[i].agg = p BY DEF Of
<1>4. \A j \in 1..(i - 1) : log[j].agg # log[i].agg
  <2> SUFFICES ASSUME NEW j \in 1..(i - 1), log[j].agg = p PROVE FALSE
    BY <1>3
  <2>1. j \in Of(p) BY <1>3, LogTyped DEF Of
  <2>2. i <= j BY <1>2, <2>1
  <2> QED BY <1>3, <2>2, LogTyped
<1>5. log[i].type = "ProjectCreated" BY <1>0, <1>3, <1>4 DEF Sane
<1> QED BY <1>2, <1>5 DEF Linking, Statuses

\* No event of a project comes before its creation.
LEMMA CreatedIsFirst ==
    ASSUME LogOK, Sane(log), NEW p \in Projects, NEW i \in Of(p),
           log[i].type = "ProjectCreated"
    PROVE  \A j \in Of(p) : i <= j
<1>0. p # "goal" BY ReactionConstants
<1>1. i \in 1..Len(log) /\ log[i].agg = p BY DEF Of
<1>2. \A j \in 1..(i - 1) : log[j].agg # log[i].agg BY <1>0, <1>1 DEF Sane
<1> SUFFICES ASSUME NEW j \in Of(p), ~(i <= j) PROVE FALSE
  OBVIOUS
<1>3. j \in 1..Len(log) /\ log[j].agg = p BY DEF Of
<1>4. j \in 1..(i - 1) BY <1>1, <1>3, LogTyped
<1> QED BY <1>1, <1>2, <1>3, <1>4

\* What the domain commits for a link.
LEMMA LinkKinds ==
    ASSUME LogOK, Sane(log), NEW p \in Projects, NEW i \in Linking(p)
    PROVE  /\ log[i].type = "ProjectGoalAdded" => log[i].linked
           /\ log[i].type = "ProjectGoalRemoved" => ~log[i].linked
           /\ ~log[i].linked => log[i].type \in {"ProjectCreated", "ProjectGoalRemoved"}
<1>0. p # "goal" BY ReactionConstants
<1>1. i \in 1..Len(log) /\ log[i].agg = p
      /\ log[i].type \in {"ProjectCreated", "ProjectGoalAdded", "ProjectGoalRemoved"}
  BY DEF Linking, Of
<1> QED BY <1>0, <1>1 DEF Sane

\* One key reads all of a project's events or none.
LEMMA ReadableOf ==
    ASSUME LogOK, Sane(log), NEW p \in Projects, NEW i \in Of(p)
    PROVE  /\ CanRead(log[i]) <=> log[i].readable
           /\ log[i].readable <=> Readable(p)
<1>0. p # "goal" BY ReactionConstants
<1>1. i \in 1..Len(log) /\ log[i].agg = p BY DEF Of
<1>2. \A j \in Of(p) : log[j].readable = log[i].readable BY <1>0, <1>1 DEF Sane, Of
<1> QED BY <1>0, <1>1, <1>2 DEF CanRead, Readable

-----------------------------------------------------------------------------
(* What is outstanding *)

\* Of each aggregate, everything after an outstanding event is outstanding too.
PendOK ==
    /\ \A i \in PendG : i \in 1..Len(log) /\ CanRead(log[i])
    /\ \A i \in PendP : i \in 1..Len(log) /\ CanRead(log[i])
    /\ \A i \in PendG, j \in 1..Len(log) : i < j /\ log[j].agg = log[i].agg => j \in PendG
    /\ \A i \in PendP, j \in 1..Len(log) :
           log[i].agg # "goal" /\ i < j /\ log[j].agg = log[i].agg => j \in PendP
    /\ \A i \in PendP : log[i].agg # "goal" => i \in PendG

\* The places of a handler, spelt out.
LEMMA PlacesDiffer ==
    /\ AfterGoal = {"ask", "dispatch", "undo", "undone", "unachieve"}
    /\ AfterProject = {"saveGoal", "ask", "dispatch", "undo", "undone", "unachieve"}
  BY DEF AfterGoal, AfterProject

\* A thread that holds an event holds the later ones of the stream that it has read.
LEMMA HoldsOn ==
    ASSUME PublishInv, BatchInv, NEW t \in Threads, NEW A \in {AfterGoal, AfterProject},
           NEW i \in 1..Len(log), NEW j \in 1..Len(log), i < j, Holds(A, t, i),
           t \in Streams => Stream(log[j]) = t, CanRead(log[j]), j <= th[t].upTo
    PROVE  Holds(A, t, j)
<1>1. ThreadHolds(t) BY DEF BatchInv
<1>2. InBatch(t, j) BY <1>1 DEF Holds, InBatch, ThreadHolds
<1>3. ASSUME th[t].pc \in A, th[t].ev.seq = j PROVE FALSE
  <2>1. PICK e \in th[t].batch : e.seq = i BY DEF Holds, InBatch
  <2>2. t \in Streams \/ th[t].pc = "saveGoal"
    <3>1. CASE t \in Streams BY <3>1
    <3>2. CASE t = "boot"
      <4>1. seeded BY <2>1, <3>2 DEF PublishInv, ShapesOK, ThreadsOK
      <4>2. th[t].pc \in {"next", "saveProject", "saveGoal"}
        BY <3>2, <4>1 DEF PublishInv, ShapesOK, ThreadsOK
      <4> QED BY <1>3, <4>2, PlacesDiffer
    <3> QED BY <3>1, <3>2, StreamsAreThreads
  <2>3. th[t].ev.seq <= e.seq BY <1>1, <1>3, <2>1, <2>2, PlacesDiffer DEF ThreadHolds, PlaceOK
  <2> QED BY <1>3, <2>1, <2>3
<1> QED BY <1>2, <1>3 DEF Holds

\* An event that waits for its stream has those after it wait as well.
LEMMA WaitsOn ==
    ASSUME PublishInv, BatchInv, NEW A \in {AfterGoal, AfterProject}, NEW s \in Streams,
           NEW i \in 1..Len(log), NEW j \in 1..Len(log), i < j, Waits(A, s, i),
           Stream(log[j]) = s, CanRead(log[j])
    PROVE  Waits(A, s, j)
<1>1. cursor[s] \in Nat /\ th[s].upTo \in Nat
  BY StreamsAreThreads DEF PublishInv, ShapesOK, TabOK, ThreadsOK, ThreadStates
<1>2. cursor[s] < j BY <1>1 DEF Waits
<1>3. CASE th[s].pc = "idle" BY <1>2, <1>3 DEF Waits
<1>4. CASE th[s].upTo < j BY <1>2, <1>4 DEF Waits
<1>5. CASE th[s].pc # "idle" /\ ~(th[s].upTo < j)
  <2>1. Holds(A, s, i) /\ j <= th[s].upTo BY <1>1, <1>5 DEF Waits
  <2>2. Holds(A, s, j) BY <2>1, HoldsOn, StreamsAreThreads
  <2> QED BY <1>2, <2>2 DEF Waits
<1> QED BY <1>3, <1>4, <1>5

\* An outstanding event has the later ones of its aggregate outstanding.
LEMMA OpenOn ==
    ASSUME PublishInv, BatchInv, ~crossed, NEW A \in {AfterGoal, AfterProject},
           NEW i \in 1..Len(log), NEW j \in 1..Len(log), i < j, Open(A, i),
           log[j].agg = log[i].agg, CanRead(log[j]), A = AfterProject => log[j].agg # "goal"
    PROVE  Open(A, j)
<1>0. Stream(log[j]) = Stream(log[i]) /\ Stream(log[j]) \in Streams
  BY StreamOfEvent DEF Stream
<1>1. CASE th["boot"].pc = "seed" BY <1>1 DEF Open
<1>2. CASE Holds(A, "boot", i)
  <2>1. CASE j <= th["boot"].upTo
    BY <1>2, <2>1, HoldsOn, StreamsAreThreads DEF Open
  <2>2. CASE th["boot"].upTo < j
    <3>1. seeded BY <1>2 DEF Holds, InBatch, PublishInv, ShapesOK, ThreadsOK
    <3> QED BY <2>2, <3>1 DEF BatchInv, Behind, Open
  <2>3. th["boot"].upTo \in Nat
    BY StreamsAreThreads DEF PublishInv, ShapesOK, ThreadsOK, ThreadStates
  <2> QED BY <2>1, <2>2, <2>3
<1>3. CASE Waits(A, Stream(log[i]), i)
  BY <1>0, <1>3, WaitsOn DEF Open
<1> QED BY <1>1, <1>2, <1>3 DEF Open

\* What is outstanding of an aggregate is the end of its events.
LEMMA PendingOK ==
    ASSUME PublishInv, BatchInv, Sane(log), ~crossed
    PROVE  PendOK
<1>1. \A i \in PendG : i \in 1..Len(log) /\ CanRead(log[i]) /\ Open(AfterGoal, i)
  BY DEF PendG, Pend
<1>2. \A i \in PendP : i \in 1..Len(log) /\ CanRead(log[i]) /\ Open(AfterProject, i)
  BY DEF PendP, Pend
<1>3. ASSUME NEW i \in 1..Len(log), NEW j \in 1..Len(log), CanRead(log[i]),
             log[j].agg = log[i].agg
      PROVE  CanRead(log[j])
  <2>1. CASE log[i].agg = "goal" BY <1>3, <2>1 DEF CanRead
  <2>2. CASE log[i].agg # "goal"
    <3>1. log[j].readable = log[i].readable BY <1>3, <2>2 DEF Sane
    <3> QED BY <1>3, <2>2, <3>1 DEF CanRead
  <2> QED BY <2>1, <2>2
<1>4. ASSUME NEW i \in PendG, NEW j \in 1..Len(log), i < j, log[j].agg = log[i].agg
      PROVE  j \in PendG
  <2>1. CanRead(log[j]) BY <1>1, <1>3, <1>4
  <2>2. AfterGoal # AfterProject BY PlacesDiffer
  <2>3. Open(AfterGoal, j) BY <1>1, <1>4, <2>1, <2>2, OpenOn
  <2> QED BY <2>1, <2>3 DEF PendG, Pend
<1>5. ASSUME NEW i \in PendP, NEW j \in 1..Len(log), log[i].agg # "goal", i < j,
             log[j].agg = log[i].agg
      PROVE  j \in PendP
  <2>1. CanRead(log[j]) BY <1>2, <1>3, <1>5
  <2>3. Open(AfterProject, j) BY <1>2, <1>5, <2>1, OpenOn
  <2> QED BY <2>1, <2>3 DEF PendP, Pend
<1>6. ASSUME NEW i \in PendP PROVE i \in PendG
  <2>1. \A t : Holds(AfterProject, t, i) => Holds(AfterGoal, t, i)
    BY DEF Holds, AfterProject
  <2>2. \A s : Waits(AfterProject, s, i) => Waits(AfterGoal, s, i)
    BY <2>1 DEF Waits
  <2>3. Open(AfterGoal, i) BY <1>2, <2>1, <2>2 DEF Open
  <2> QED BY <1>2, <2>3 DEF PendG, Pend
<1> QED BY <1>1, <1>2, <1>4, <1>5, <1>6 DEF PendOK

-----------------------------------------------------------------------------
(* Completions that are not in the log any more *)

\* All of a project's events are outstanding.
AllPend(p) == Of(p) \subseteq PendP

\* The log is well formed, and what is outstanding is, for each project, its end.
LogGood == LogOK /\ Sane(log) /\ PendOK

\* The same, for one project.
LEMMA PendOf ==
    ASSUME LogGood, NEW p \in Projects
    PROVE  /\ \A i \in Of(p) \cap PendP : i \in PendG
           /\ \A i \in Of(p) \cap PendP : \A j \in Of(p) : i < j => j \in PendP
           /\ \A i \in Of(p) \cap PendG : \A j \in Of(p) : i < j => j \in PendG
<1>0. p # "goal" BY ReactionConstants
<1>1. \A i \in Of(p) : i \in 1..Len(log) /\ log[i].agg = p BY DEF Of
<1> QED BY <1>0, <1>1 DEF LogGood, PendOK

\* With the creation of a project all of its events are outstanding.
LEMMA CreatedPends ==
    ASSUME LogGood, NEW p \in Projects, NEW i \in Of(p) \cap PendP,
           log[i].type = "ProjectCreated"
    PROVE  AllPend(p)
<1>1. \A j \in Of(p) : i <= j BY CreatedIsFirst DEF LogGood
<1>2. \A j \in Of(p) : j \in Nat BY LogTyped DEF LogGood, Of
<1>3. \A j \in Of(p) : i = j \/ i < j BY <1>1, <1>2
<1> QED BY <1>3, PendOf DEF AllPend

\* When everything of a project is still to be handled, a completion will be taken
\* away, is right, or belongs to a project that relapsed.
LEMMA AllPendExplains ==
    ASSUME LogGood, NEW p \in Projects, OnceLinked(p), OnceCompleted(p), AllPend(p)
    PROVE  Explained(p)
<1>a. LogOK /\ Sane(log) /\ Len(log) \in Nat BY LogTyped DEF LogGood
<1>b. \A i \in Of(p) : i \in 1..Len(log) /\ i \in PendP /\ i \in PendG
  BY PendOf DEF AllPend, Of
<1>c. /\ Linking(p) \in SUBSET (1..Len(log)) /\ Statuses(p) \in SUBSET (1..Len(log))
      /\ Linking(p) \subseteq Of(p) /\ Statuses(p) \subseteq Of(p)
  BY <1>a, ProjectPositions
<1>1. CASE \E r \in Of(p) : log[r].type = "ProjectGoalRemoved"
  BY <1>1, <1>b DEF Explained, Clears
<1>2. CASE ~\E r \in Of(p) : log[r].type = "ProjectGoalRemoved"
  <2> DEFINE l == LastOf(Linking(p))
             j == LastOf(Statuses(p))
  <2>1. PICK m \in Linking(p) : log[m].linked BY DEF OnceLinked
  <2>2. l \in Linking(p) /\ \A k \in Linking(p) : k <= l
    BY <1>a, <1>c, <2>1, LastPosition
  <2>3. log[l].linked
    <3> SUFFICES ASSUME ~log[l].linked PROVE FALSE
      OBVIOUS
    <3>1. log[l].type = "ProjectCreated" BY <1>2, <1>a, <1>c, <2>2, LinkKinds
    <3>2. l <= m BY <1>a, <1>c, <2>1, <2>2, <3>1, CreatedIsFirst
    <3>3. m <= l /\ m \in Nat /\ l \in Nat BY <1>c, <2>1, <2>2
    <3> QED BY <2>1, <3>2, <3>3
  <2>4. IsLinked(p) BY <2>1, <2>3 DEF IsLinked
  <2>5. PICK i \in Statuses(p) : log[i].status = "completed" BY DEF OnceCompleted
  <2>6. j \in Statuses(p) /\ \A k \in Statuses(p) : k <= j
    BY <1>a, <1>c, <2>5, LastPosition
  <2>7. CASE log[j].status = "completed" BY <2>4, <2>7 DEF Explained, Status
  <2>8. CASE log[j].status # "completed"
    <3>1. i < j /\ i \in Nat /\ j \in Nat
      <4>1. i <= j /\ i # j BY <2>5, <2>6, <2>8
      <4>2. i \in Nat /\ j \in Nat BY <1>c, <2>5, <2>6
      <4> QED BY <4>1, <4>2
    <3>2. log[j].type = "ProjectStatusTransitioned"
      <4>1. log[j].type \in {"ProjectCreated", "ProjectStatusTransitioned"}
        BY <1>a, <2>6, ProjectPositions
      <4>2. log[j].type # "ProjectCreated"
        <5> SUFFICES ASSUME log[j].type = "ProjectCreated" PROVE FALSE
          OBVIOUS
        <5>1. j <= i BY <1>a, <1>c, <2>5, <2>6, CreatedIsFirst
        <5> QED BY <3>1, <5>1
      <4> QED BY <4>1, <4>2
    <3>3. CASE ~LinkedAt(p, j)
      BY <2>5, <2>6, <2>8, <3>1, <3>3 DEF Explained, Relapsed
    <3>4. CASE LinkedAt(p, j)
      <4>1. Before(p, j) = {k \in Linking(p) : k <= j} BY <1>b, <1>c DEF Before
      <4>2. Meets(p, j) BY <3>4, <4>1 DEF LinkedAt, Meets
      <4>3. j \in Of(p) \cap PendG BY <1>b, <1>c, <2>6
      <4> QED BY <2>8, <3>2, <4>2, <4>3 DEF Explained, Clears
    <3> QED BY <3>3, <3>4
  <2> QED BY <2>7, <2>8
<1> QED BY <1>1, <1>2

\* A transition that is outstanding and meets a linked row takes the completion away.
TransitionLaw ==
    \A p \in Projects : \A k \in Nat :
        /\ LogGood /\ OnceLinked(p) /\ OnceCompleted(p)
        /\ k \in Of(p) /\ k \in PendG
        /\ log[k].type = "ProjectStatusTransitioned" /\ log[k].status # "completed"
        /\ Before(p, k) = {} => RowOf(p).linked
        => Explained(p)

\* A completion that a later transition takes back is explained by it, or by what
\* comes after it.
LEMMA TransitionExplains == TransitionLaw
<1> SUFFICES ASSUME NEW p \in Projects, NEW k \in Nat,
                    LogGood, OnceLinked(p), OnceCompleted(p), k \in Of(p), k \in PendG,
                    log[k].type = "ProjectStatusTransitioned", log[k].status # "completed",
                    Before(p, k) = {} => RowOf(p).linked
             PROVE  Explained(p)
  BY DEF TransitionLaw
<1>a. LogOK /\ Sane(log) /\ Len(log) \in Nat BY LogTyped DEF LogGood
<1>1. CASE Meets(p, k) BY <1>1 DEF Explained, Clears
<1>2. CASE ~Meets(p, k)
  <2> DEFINE l == LastOf(Before(p, k))
  <2>1. Before(p, k) # {} /\ ~log[l].linked BY <1>2 DEF Meets
  <2>2. Before(p, k) \in SUBSET (1..Len(log)) BY <1>a, ProjectPositions DEF Before
  <2>3. l \in Before(p, k) BY <1>a, <2>1, <2>2, LastPosition
  <2>4. l \in Linking(p) /\ l \in PendP /\ l \in Of(p)
    BY <1>a, <2>3, ProjectPositions DEF Before
  <2>5. log[l].type \in {"ProjectCreated", "ProjectGoalRemoved"}
    BY <1>a, <2>1, <2>4, LinkKinds
  <2>6. CASE log[l].type = "ProjectGoalRemoved"
    BY <2>4, <2>6, PendOf DEF Explained, Clears
  <2>7. CASE log[l].type = "ProjectCreated"
    BY <2>4, <2>7, CreatedPends, AllPendExplains
  <2> QED BY <2>5, <2>6, <2>7
<1> QED BY <1>1, <1>2

\* The project's row is linked and completed, and the rows agree with what was handled.
RowLaw ==
    \A p \in Projects :
        /\ LogGood /\ OnceLinked(p) /\ OnceCompleted(p) /\ ProjectAgrees(p)
        /\ RowOf(p).linked /\ RowOf(p).status = "completed"
        => Explained(p)

\* A completion of a project whose row says completed is explained by the log.
LEMMA RowExplains == RowLaw
<1> SUFFICES ASSUME NEW p \in Projects,
                    LogGood, OnceLinked(p), OnceCompleted(p), ProjectAgrees(p),
                    RowOf(p).linked, RowOf(p).status = "completed"
             PROVE  Explained(p)
  BY DEF RowLaw
<1>a. LogOK /\ Sane(log) /\ Len(log) \in Nat BY LogTyped DEF LogGood
<1>c. /\ Linking(p) \in SUBSET (1..Len(log)) /\ Statuses(p) \in SUBSET (1..Len(log))
      /\ Linking(p) \subseteq Of(p) /\ Statuses(p) \subseteq Of(p)
  BY <1>a, ProjectPositions
<1>d. \A k \in Of(p) : k \in Nat BY <1>a, LogTyped DEF Of
<1>1. IsLinked(p) \/ Explained(p)
  <2>1. CASE Linking(p) \cap PendP = {} BY <2>1 DEF ProjectAgrees
  <2>2. CASE Linking(p) \cap PendP # {}
    <3> DEFINE l == LastOf(Linking(p))
    <3>1. PICK m \in Linking(p) : m \in PendP BY <2>2
    <3>2. l \in Linking(p) /\ m <= l BY <1>a, <1>c, <3>1, LastPosition
    <3>3. l \in PendP
      <4>1. m = l \/ m < l BY <1>c, <1>d, <3>1, <3>2
      <4> QED BY <1>c, <3>1, <3>2, <4>1, PendOf
    <3>4. CASE log[l].linked BY <3>2, <3>4 DEF IsLinked
    <3>5. CASE ~log[l].linked
      <4>1. log[l].type \in {"ProjectCreated", "ProjectGoalRemoved"}
        BY <1>a, <3>2, <3>5, LinkKinds
      <4>2. CASE log[l].type = "ProjectGoalRemoved"
        BY <1>c, <3>2, <3>3, <4>2, PendOf DEF Explained, Clears
      <4>3. CASE log[l].type = "ProjectCreated"
        BY <1>c, <3>2, <3>3, <4>3, CreatedPends, AllPendExplains
      <4> QED BY <4>1, <4>2, <4>3
    <3> QED BY <3>4, <3>5
  <2> QED BY <2>1, <2>2
<1>2. CASE IsLinked(p)
  <2>0. Exists(p) BY <1>2, <1>c DEF IsLinked, Exists
  <2>1. CASE Statuses(p) \cap PendP = {}
    BY <1>2, <2>0, <2>1 DEF ProjectAgrees, Explained
  <2>2. CASE Statuses(p) \cap PendP # {}
    <3> DEFINE j == LastOf(Statuses(p))
    <3>1. PICK m \in Statuses(p) : m \in PendP BY <2>2
    <3>2. j \in Statuses(p) /\ m <= j BY <1>a, <1>c, <3>1, LastPosition
    <3>3. j \in PendP
      <4>1. m = j \/ m < j BY <1>c, <1>d, <3>1, <3>2
      <4> QED BY <1>c, <3>1, <3>2, <4>1, PendOf
    <3>4. CASE log[j].status = "completed" BY <1>2, <3>4 DEF Explained, Status
    <3>5. CASE log[j].status # "completed"
      <4>1. log[j].type \in {"ProjectCreated", "ProjectStatusTransitioned"}
        BY <1>a, <3>2, ProjectPositions
      <4>2. j \in Of(p) /\ j \in PendG /\ j \in Nat BY <1>c, <1>d, <3>2, <3>3, PendOf
      <4>3. CASE log[j].type = "ProjectCreated"
        BY <1>c, <3>2, <3>3, <4>3, CreatedPends, AllPendExplains
      <4>4. CASE log[j].type = "ProjectStatusTransitioned"
        BY <3>5, <4>2, <4>4, TransitionExplains DEF TransitionLaw
      <4> QED BY <4>1, <4>3, <4>4
    <3> QED BY <3>4, <3>5
  <2> QED BY <2>1, <2>2
<1> QED BY <1>1, <1>2

-----------------------------------------------------------------------------
(* Rows that everything is still to be folded into *)

RowsSane == GoalSane(ensureGoalState) /\ \A p \in Projects : ProjSane(p, RowOf(p))

\* When every readable event is outstanding the rows may hold what they like, as
\* long as it once was in the log.
LEMMA AfreshAgrees ==
    /\ LogGood /\ RowsSane
    /\ \A i \in 1..Len(log) : CanRead(log[i]) => i \in PendP /\ i \in PendG
    => /\ GoalAgrees
       /\ \A p \in Projects : Readable(p) => ProjectAgrees(p) /\ LinksAgree(p)
<1> SUFFICES ASSUME LogGood, RowsSane,
                    \A i \in 1..Len(log) : CanRead(log[i]) => i \in PendP /\ i \in PendG
             PROVE  /\ GoalAgrees
                    /\ \A p \in Projects : Readable(p) => ProjectAgrees(p) /\ LinksAgree(p)
  OBVIOUS
<1>a. LogOK /\ Sane(log) /\ Len(log) \in Nat /\ 1 \in 1..Len(log) BY LogTyped DEF LogGood
<1>1. GoalAgrees
  <2>1. \A i \in Of("goal") : i \in PendG BY DEF Of, CanRead
  <2>2. 1 \in Of("goal") BY <1>a DEF Of, LogOK
  <2>3. Turns \cap PendG = {} => Turns = {} BY <2>1 DEF Turns
  <2>4. Turns = {} => ~ensureGoalState.achieved /\ ~IsAchieved
    BY DEF RowsSane, GoalSane, OnceAchieved, IsAchieved
  <2>5. (\A i \in Of("goal") \cap PendG : log[i].type # "GoalArchived") => ~IsArchived
    BY <2>1 DEF IsArchived
  <2> QED BY <2>1, <2>2, <2>3, <2>4, <2>5 DEF GoalAgrees
<1>2. ASSUME NEW p \in Projects, Readable(p) PROVE ProjectAgrees(p) /\ LinksAgree(p)
  <2>0. p # "goal" BY ReactionConstants
  <2>1. \A i \in Of(p) : i \in PendP /\ i \in PendG BY <1>2 DEF Of, CanRead, Readable
  <2>2. Linking(p) \subseteq Of(p) /\ Statuses(p) \subseteq Of(p) BY <1>a, ProjectPositions
  <2>3. (~IsLinked(p) /\ ~OnceLinked(p)) \/ Linking(p) # {} BY DEF IsLinked, OnceLinked
  <2>4. ~Exists(p) \/ Statuses(p) # {} BY <1>a, CreatedFirst
  <2>5. ProjectAgrees(p)
    BY <2>1, <2>2, <2>3, <2>4 DEF ProjectAgrees, RowsSane, ProjSane
  <2>6. p \in ensureGoalState.linked => OnceLinked(p) BY DEF RowsSane, GoalSane
  <2>7. p \in ensureGoalState.completed => OnceLinked(p) /\ OnceCompleted(p)
    BY DEF RowsSane, GoalSane
  <2>8. p \in ensureGoalState.completed => Explained(p)
    BY <2>1, <2>7, AllPendExplains DEF AllPend
  <2>9. IsLinked(p) => Of(p) \cap PendG # {} BY <2>1, <2>2 DEF IsLinked
  <2> QED BY <2>1, <2>2, <2>3, <2>5, <2>6, <2>8, <2>9 DEF LinksAgree
<1> QED BY <1>1, <1>2

-----------------------------------------------------------------------------
(* The same after a step *)

\* TransitionExplains at the next state.
LEMMA TransitionExplainsNext ==
    ASSUME NEW p \in Projects, NEW k \in Nat, LogGood', OnceLinked(p)', OnceCompleted(p)',
           k \in Of(p)', k \in PendG',
           log'[k].type = "ProjectStatusTransitioned", log'[k].status # "completed",
           Before(p, k)' = {} => RowOf(p)'.linked
    PROVE  Explained(p)'
<1>1. TransitionLaw' BY TransitionExplains, PTL
<1> QED BY <1>1 DEF TransitionLaw

\* RowExplains at the next state.
LEMMA RowExplainsNext ==
    ASSUME NEW p \in Projects, LogGood', OnceLinked(p)', OnceCompleted(p)',
           ProjectAgrees(p)', RowOf(p)'.linked, RowOf(p)'.status = "completed"
    PROVE  Explained(p)'
<1>1. RowLaw' BY RowExplains, PTL
<1> QED BY <1>1 DEF RowLaw

\* AfreshAgrees at the next state.
LEMMA AfreshAgreesNext ==
    ASSUME LogGood', RowsSane',
           \A i \in 1..Len(log') : CanRead(log'[i]) => i \in PendP' /\ i \in PendG'
    PROVE  /\ GoalAgrees'
           /\ \A p \in Projects : Readable(p)' => ProjectAgrees(p)' /\ LinksAgree(p)'
<1>1. (/\ LogGood /\ RowsSane
       /\ \A i \in 1..Len(log) : CanRead(log[i]) => i \in PendP /\ i \in PendG
       => /\ GoalAgrees
          /\ \A p \in Projects : Readable(p) => ProjectAgrees(p) /\ LinksAgree(p))'
  BY AfreshAgrees, PTL
<1> QED BY <1>1

\* PendingOK with the log, as one state predicate.
LEMMA PendingOKState ==
    PublishInv /\ BatchInv /\ SaneInv /\ ~crossed => LogGood
  BY PendingOK DEF LogGood, PublishInv, ShapesOK, SaneInv

\* PendingOKState at the next state.
LEMMA PendingOKNext ==
    ASSUME PublishInv', BatchInv', SaneInv', ~crossed'
    PROVE  LogGood'
<1>1. (PublishInv /\ BatchInv /\ SaneInv /\ ~crossed => LogGood)' BY PendingOKState, PTL
<1> QED BY <1>1

-----------------------------------------------------------------------------
(* What a step does to the agreement of one project *)

\* The step commits nothing for the project.
SameProject(p) == Of(p)' = Of(p) /\ \A j \in Of(p) : log'[j] = log[j]

\* A step that commits nothing for a project leaves what the log says of it.
LEMMA ProjectSame ==
    ASSUME LogOK, Sane(log), NEW p \in Projects, SameProject(p)
    PROVE  /\ Linking(p)' = Linking(p) /\ Statuses(p)' = Statuses(p)
           /\ IsLinked(p)' <=> IsLinked(p)
           /\ Exists(p) => Status(p)' = Status(p)
           /\ Exists(p)' <=> Exists(p)
           /\ Relapsed(p)' <=> Relapsed(p)
           /\ OnceLinked(p)' <=> OnceLinked(p)
           /\ OnceCompleted(p)' <=> OnceCompleted(p)
           /\ Readable(p)' <=> Readable(p)
<1>a. Len(log) \in Nat BY LogTyped
<1>1. Linking(p)' = Linking(p) /\ Statuses(p)' = Statuses(p)
  BY DEF SameProject, Linking, Statuses
<1>2. /\ Linking(p) \in SUBSET (1..Len(log)) /\ Statuses(p) \in SUBSET (1..Len(log))
      /\ \A j \in Linking(p) : log'[j] = log[j]
  BY ProjectPositions DEF SameProject
<1>2a. \A k \in Statuses(p) : log'[k] = log[k] BY ProjectPositions DEF SameProject
<1>3. IsLinked(p)' <=> IsLinked(p)
  <2>1. CASE Linking(p) = {} BY <1>1, <2>1 DEF IsLinked
  <2>2. CASE Linking(p) # {}
    <3>1. LastOf(Linking(p)) \in Linking(p) BY <1>a, <1>2, <2>2, LastPosition
    <3>2. LastOf(Linking(p))' = LastOf(Linking(p)) BY <1>1 DEF LastOf
    <3> QED BY <1>1, <1>2, <3>1, <3>2 DEF IsLinked
  <2> QED BY <2>1, <2>2
<1>4. Exists(p) => Status(p)' = Status(p)
  <2> SUFFICES ASSUME Exists(p) PROVE Status(p)' = Status(p)
    OBVIOUS
  <2>1. Statuses(p) # {} BY CreatedFirst
  <2>2. LastOf(Statuses(p)) \in Statuses(p) BY <1>a, <1>2, <2>1, LastPosition
  <2>3. LastOf(Statuses(p))' = LastOf(Statuses(p)) BY <1>1 DEF LastOf
  <2> QED BY <1>2a, <2>2, <2>3 DEF Status
<1>5. ASSUME NEW n PROVE LinkedAt(p, n)' <=> LinkedAt(p, n)
  <2> DEFINE B == {i \in Linking(p) : i <= n}
  <2>1. B' = B BY <1>1
  <2>2. CASE B = {} BY <2>1, <2>2 DEF LinkedAt
  <2>3. CASE B # {}
    <3>1. B \in SUBSET (1..Len(log)) BY <1>2
    <3>2. LastOf(B) \in B BY <1>a, <2>3, <3>1, LastPosition
    <3>3. LastOf(B) \in Linking(p) BY <3>2
    <3>4. LastOf(B)' = LastOf(B) BY <2>1 DEF LastOf
    <3>5. LinkedAt(p, n)' <=> (B' # {} /\ log'[LastOf(B)'].linked) BY DEF LinkedAt
    <3>6. LinkedAt(p, n) <=> (B # {} /\ log[LastOf(B)].linked) BY DEF LinkedAt
    <3>7. log'[LastOf(B)] = log[LastOf(B)] BY <1>2, <3>3
    <3> HIDE DEF B
    <3> QED BY <2>1, <3>4, <3>5, <3>6, <3>7
  <2> QED BY <2>2, <2>3
<1>6. Relapsed(p)' <=> Relapsed(p)
  BY <1>1, <1>2a, <1>5 DEF Relapsed
<1>7. OnceLinked(p)' <=> OnceLinked(p) BY <1>1, <1>2 DEF OnceLinked
<1>8. OnceCompleted(p)' <=> OnceCompleted(p) BY <1>1, <1>2a DEF OnceCompleted
<1>9. (Exists(p)' <=> Exists(p)) /\ (Readable(p)' <=> Readable(p))
  BY DEF SameProject, Exists, Readable
<1> QED BY <1>1, <1>3, <1>4, <1>6, <1>7, <1>8, <1>9

\* A completion that was explained still is, when the step takes at most event i off
\* the outstanding ones and writes what it says into the project's row.
LEMMA StillExplained ==
    ASSUME LogGood, LogGood', NEW p \in Projects, SameProject(p),
           OnceLinked(p), OnceCompleted(p), Explained(p), NEW i \in Nat,
           \A k \in Of(p) \cap PendP : k \in PendP' \/ k = i,
           \A k \in Of(p) \cap PendG : Clears(p, k) => k \in PendG',
           i \notin Linking(p) => (RowOf(p).linked => RowOf(p)'.linked),
           i \in Linking(p) => /\ i \in PendP
                               /\ log[i].linked => RowOf(p)'.linked
                               /\ log[i].type = "ProjectGoalRemoved" => i \in PendG'
    PROVE  Explained(p)'
<1>a. LogOK /\ Sane(log) /\ Len(log) \in Nat BY LogTyped DEF LogGood
<1>b. /\ Linking(p)' = Linking(p)
      /\ IsLinked(p)' <=> IsLinked(p)
      /\ Exists(p) => Status(p)' = Status(p)
      /\ OnceLinked(p)' /\ OnceCompleted(p)'
  BY <1>a, ProjectSame
<1>c. Relapsed(p)' <=> Relapsed(p) BY <1>a, ProjectSame
<1>d. Exists(p) BY <1>a, ProjectPositions DEF OnceLinked, Exists
<1>1. CASE Relapsed(p) BY <1>c, <1>1 DEF Explained
<1>2. CASE IsLinked(p) /\ Status(p) = "completed" BY <1>b, <1>d, <1>2 DEF Explained
<1>3. ASSUME NEW k \in Of(p) \cap PendG, Clears(p, k) PROVE Explained(p)'
  <2>1. k \in PendG' /\ k \in Of(p)' /\ log'[k] = log[k] BY <1>3 DEF SameProject
  <2>2. CASE log[k].type = "ProjectGoalRemoved"
    BY <2>1, <2>2 DEF Explained, Clears
  <2>3. CASE log[k].type # "ProjectGoalRemoved"
    <3>1. /\ log[k].type = "ProjectStatusTransitioned" /\ log[k].status # "completed"
          /\ Meets(p, k)
      BY <1>3, <2>3 DEF Clears
    <3>2. k \in Nat /\ k \in 1..Len(log) BY <1>a, LogTyped DEF Of
    <3>3. CASE Before(p, k)' = {} => RowOf(p)'.linked
      BY <1>b, <2>1, <3>1, <3>2, <3>3, TransitionExplainsNext
    <3>4. CASE Before(p, k)' = {} /\ ~RowOf(p)'.linked
      <4>0. Before(p, k)' = {j \in Linking(p)' \cap PendP' : j <= k} BY DEF Before
      <4>1. \A j \in Before(p, k) : j = i
        <5> SUFFICES ASSUME NEW j \in Before(p, k), j # i PROVE FALSE
          OBVIOUS
        <5>1. j \in Linking(p) /\ j \in PendP /\ j <= k /\ j \in Of(p)
          BY <1>a, ProjectPositions DEF Before
        <5>2. j \in PendP' BY <5>1
        <5> QED BY <1>b, <3>4, <4>0, <5>1, <5>2
      <4>2. CASE Before(p, k) = {}
        <5>1. RowOf(p).linked BY <3>1, <4>2 DEF Meets
        <5>2. i \in Linking(p) /\ ~log[i].linked BY <3>4, <5>1
        <5>3. log[i].type \in {"ProjectCreated", "ProjectGoalRemoved"} /\ i \in Of(p)
          BY <1>a, <5>2, LinkKinds, ProjectPositions
        <5>4. log[i].type # "ProjectCreated"
          <6> SUFFICES ASSUME log[i].type = "ProjectCreated" PROVE FALSE
            OBVIOUS
          <6>1. i <= k BY <1>a, <5>3, CreatedIsFirst
          <6>2. i \in Before(p, k) BY <5>2, <6>1 DEF Before
          <6> QED BY <4>2, <6>2
        <5>5. i \in PendG' /\ i \in Of(p)' /\ log'[i].type = "ProjectGoalRemoved"
          BY <5>2, <5>3, <5>4 DEF SameProject
        <5> QED BY <5>5 DEF Explained, Clears
      <4>3. CASE Before(p, k) # {}
        <5>1. Before(p, k) \in SUBSET (1..Len(log)) BY <1>a, ProjectPositions DEF Before
        <5>2. LastOf(Before(p, k)) \in Before(p, k) BY <1>a, <4>3, <5>1, LastPosition
        <5>3. LastOf(Before(p, k)) = i /\ i \in Linking(p) BY <4>1, <5>2 DEF Before
        <5>4. log[i].linked BY <3>1, <4>3, <5>3 DEF Meets
        <5> QED BY <3>4, <5>3, <5>4
      <4> QED BY <4>2, <4>3
    <3> QED BY <3>3, <3>4
  <2> QED BY <2>2, <2>3
<1> QED BY <1>1, <1>2, <1>3 DEF Explained

\* Of the project nothing leaves what is outstanding, and its rows stay.
LEMMA ProjectKept ==
    ASSUME LogGood, LogGood', RowsSane, NEW p \in Projects, SameProject(p),
           \A k \in Of(p) \cap PendP : k \in PendP',
           \A k \in Of(p) \cap PendG : k \in PendG',
           RowOf(p)' = RowOf(p),
           p \in ensureGoalState'.linked <=> p \in ensureGoalState.linked,
           p \in ensureGoalState'.completed <=> p \in ensureGoalState.completed,
           ProjectAgrees(p), LinksAgree(p)
    PROVE  ProjectAgrees(p)' /\ LinksAgree(p)'
<1>a. LogOK /\ Sane(log) BY DEF LogGood
<1>b. /\ Linking(p)' = Linking(p) /\ Statuses(p)' = Statuses(p) /\ Of(p)' = Of(p)
      /\ IsLinked(p)' <=> IsLinked(p)
      /\ Exists(p) => Status(p)' = Status(p)
      /\ Exists(p)' <=> Exists(p)
  BY <1>a, ProjectSame DEF SameProject
<1>c. Linking(p) \subseteq Of(p) /\ Statuses(p) \subseteq Of(p) BY <1>a, ProjectPositions
<1>1. ProjectAgrees(p)' BY <1>b, <1>c DEF ProjectAgrees
<1>2. p \in ensureGoalState.completed => Explained(p)'
  <2> SUFFICES ASSUME p \in ensureGoalState.completed PROVE Explained(p)'
    OBVIOUS
  <2>1. OnceLinked(p) /\ OnceCompleted(p) BY DEF RowsSane, GoalSane
  <2>2. Explained(p) BY DEF LinksAgree
  <2>3. 0 \in Nat /\ 0 \notin Linking(p) BY <1>a, ProjectPositions
  <2> QED BY <2>1, <2>2, <2>3, StillExplained
<1>3. IsLinked(p) => Exists(p) BY <1>c DEF IsLinked, Exists
<1> QED BY <1>1, <1>2, <1>3, <1>b, <1>c DEF LinksAgree

\* The handler of event i has saved the project's row.
LEMMA ProjectSaved ==
    ASSUME LogGood, LogGood', RowsSane, NEW p \in Projects, SameProject(p), NEW i \in Of(p),
           i \in PendP, i \in PendG,
           \A k \in Of(p) \cap PendP : k \in PendP' \/ k = i,
           \A k \in Of(p) : i < k => k \in PendP' /\ k \in PendG',
           i \in Linking(p) => (RowOf(p)'.linked <=> log[i].linked),
           i \notin Linking(p) => (RowOf(p)'.linked <=> RowOf(p).linked),
           i \in Statuses(p) => RowOf(p)'.status = log[i].status,
           i \notin Statuses(p) => RowOf(p)'.status = RowOf(p).status,
           ensureGoalState' = ensureGoalState,
           \/ \A k \in Of(p) \cap PendG : k \in PendG'
           \/ /\ \A k \in Of(p) \cap PendG : k \in PendG' \/ k = i
              /\ ~RowOf(p)'.linked /\ log[i].type # "ProjectGoalRemoved",
           ProjectAgrees(p), LinksAgree(p)
    PROVE  ProjectAgrees(p)' /\ LinksAgree(p)'
<1>a. LogOK /\ Sane(log) /\ Len(log) \in Nat BY LogTyped DEF LogGood
<1>b. /\ Linking(p)' = Linking(p) /\ Statuses(p)' = Statuses(p) /\ Of(p)' = Of(p)
      /\ IsLinked(p)' <=> IsLinked(p)
      /\ Exists(p) => Status(p)' = Status(p)
      /\ Exists(p)' <=> Exists(p)
  BY <1>a, ProjectSame DEF SameProject
<1>c. /\ Linking(p) \subseteq Of(p) /\ Statuses(p) \subseteq Of(p)
      /\ Linking(p) \in SUBSET (1..Len(log)) /\ Statuses(p) \in SUBSET (1..Len(log))
      /\ \A k \in Of(p) : k \in Nat
  BY <1>a, ProjectPositions, LogTyped
<1>d. Exists(p) BY DEF Exists
<1>e. \A k \in Of(p) : k \notin PendP' \/ k \notin PendG' => k <= i
  BY <1>c
<1>1. Linking(p)' \cap PendP' = {} => (RowOf(p)'.linked <=> IsLinked(p)')
  <2> SUFFICES ASSUME Linking(p) \cap PendP' = {} PROVE RowOf(p)'.linked <=> IsLinked(p)
    BY <1>b
  <2>1. CASE i \in Linking(p)
    <3>1. \A k \in Linking(p) : k <= i BY <1>c, <1>e
    <3>2. LastOf(Linking(p)) = i BY <1>a, <1>c, <2>1, <3>1, LastIs
    <3> QED BY <2>1, <3>2 DEF IsLinked
  <2>2. CASE i \notin Linking(p)
    <3>1. Linking(p) \cap PendP = {} BY <1>c, <2>2
    <3> QED BY <2>2, <3>1 DEF ProjectAgrees
  <2> QED BY <2>1, <2>2
<1>2. Statuses(p)' \cap PendP' = {} => RowOf(p)'.status = Status(p)'
  <2> SUFFICES ASSUME Statuses(p) \cap PendP' = {} PROVE RowOf(p)'.status = Status(p)
    BY <1>b, <1>d
  <2>1. CASE i \in Statuses(p)
    <3>1. \A k \in Statuses(p) : k <= i BY <1>c, <1>e
    <3>2. LastOf(Statuses(p)) = i BY <1>a, <1>c, <2>1, <3>1, LastIs
    <3> QED BY <2>1, <3>2 DEF Status
  <2>2. CASE i \notin Statuses(p)
    <3>1. Statuses(p) \cap PendP = {} BY <1>c, <2>2
    <3> QED BY <1>d, <2>2, <3>1 DEF ProjectAgrees
  <2> QED BY <2>1, <2>2
<1>3. ProjectAgrees(p)' BY <1>1, <1>2 DEF ProjectAgrees
<1>4. \A k \in Of(p) : k \in PendP' => k \in PendG'
  <2>1. p # "goal" BY ReactionConstants
  <2>2. \A k \in Of(p) : log'[k].agg = p BY DEF SameProject, Of
  <2> QED BY <2>1, <2>2 DEF LogGood, PendOK
<1>5. ASSUME NEW k \in Of(p) \cap PendG, Clears(p, k), k \notin PendG' PROVE FALSE
  <2>1. /\ k = i /\ ~RowOf(p)'.linked /\ log[i].type # "ProjectGoalRemoved"
    BY <1>5
  <2>2. /\ log[i].type = "ProjectStatusTransitioned" /\ Meets(p, i)
    BY <1>5, <2>1 DEF Clears
  <2>3. i \notin Linking(p) BY <2>2 DEF Linking
  <2>4. ~RowOf(p).linked BY <2>1, <2>3
  <2>5. Before(p, i) # {} BY <2>2, <2>4 DEF Meets
  <2>6. PICK l \in Before(p, i) : TRUE BY <2>5
  <2>7. l \in Linking(p) /\ l \in PendP /\ l \in Of(p) /\ l <= i BY <1>c, <2>6 DEF Before
  <2>8. l # i /\ l \in PendP' /\ l < i BY <1>c, <2>3, <2>7
  <2>9. i \in PendP'
    <3>1. p # "goal" /\ i \in 1..Len(log') /\ log'[l].agg = p /\ log'[i].agg = p
      <4>1. i \in Of(p)' BY <1>b
      <4> QED BY <2>7, <4>1, ReactionConstants DEF SameProject, Of
    <3> QED BY <2>8, <3>1 DEF LogGood, PendOK
  <2> QED BY <1>4, <1>5, <2>1, <2>9
<1>6. p \in ensureGoalState.completed => Explained(p)'
  <2> SUFFICES ASSUME p \in ensureGoalState.completed PROVE Explained(p)'
    OBVIOUS
  <2>1. OnceLinked(p) /\ OnceCompleted(p) BY DEF RowsSane, GoalSane
  <2>2. Explained(p) BY DEF LinksAgree
  <2>3. i \in Nat BY <1>c
  <2>4. log[i].type = "ProjectGoalRemoved" => i \in PendG' OBVIOUS
  <2> QED BY <1>5, <2>1, <2>2, <2>3, <2>4, StillExplained
<1>7. CASE \A k \in Of(p) \cap PendG : k \in PendG'
  <2>1. IsLinked(p) => Exists(p) BY <1>d
  <2> QED BY <1>3, <1>6, <1>7, <1>b, <1>c, <1>d DEF LinksAgree
<1>8. CASE /\ \A k \in Of(p) \cap PendG : k \in PendG' \/ k = i
           /\ ~RowOf(p)'.linked /\ log[i].type # "ProjectGoalRemoved"
  <2>1. Linking(p) \cap PendG' = {} => (p \in ensureGoalState.linked <=> IsLinked(p))
    <3> SUFFICES ASSUME Linking(p) \cap PendG' = {}
                 PROVE  p \in ensureGoalState.linked <=> IsLinked(p)
      OBVIOUS
    <3>1. CASE i \notin Linking(p)
      <4>1. Linking(p) \cap PendG = {} BY <1>8, <1>c, <3>1
      <4> QED BY <4>1 DEF LinksAgree
    <3>2. CASE i \in Linking(p)
      <4>1. log[i].type = "ProjectCreated" /\ ~log[i].linked
        BY <1>8, <1>a, <3>2, LinkKinds
      <4>2. \A k \in Linking(p) : k = i
        <5> SUFFICES ASSUME NEW k \in Linking(p) PROVE k = i
          OBVIOUS
        <5>1. i <= k BY <1>a, <1>c, <4>1, CreatedIsFirst
        <5>2. k <= i BY <1>c, <1>e
        <5> QED BY <1>c, <5>1, <5>2
      <4>3. LastOf(Linking(p)) = i
        <5>1. \A k \in Linking(p) : k <= i BY <1>c, <4>2
        <5> QED BY <1>a, <1>c, <3>2, <5>1, LastIs
      <4>4. ~IsLinked(p) BY <4>1, <4>3 DEF IsLinked
      <4>5. ~OnceLinked(p) BY <4>1, <4>2 DEF OnceLinked
      <4> QED BY <4>4, <4>5 DEF RowsSane, GoalSane
    <3> QED BY <3>1, <3>2
  <2>2. ASSUME Of(p) \cap PendG' = {}, IsLinked(p) PROVE FALSE
    <3>1. Linking(p) \cap PendP' = {} BY <1>4, <1>c, <2>2
    <3> QED BY <1>1, <1>8, <1>b, <2>2, <3>1
  <2> QED BY <1>3, <1>6, <1>b, <2>1, <2>2 DEF LinksAgree
<1> QED BY <1>7, <1>8

\* The handler of event i of the project has saved the goal's row.
LEMMA LinkSaved ==
    ASSUME LogGood, LogGood', RowsSane', NEW p \in Projects, SameProject(p), NEW i \in Of(p),
           \A k \in Of(p) \cap PendP : k \in PendP',
           \A k \in Of(p) \cap PendG : k \in PendG' \/ k = i,
           \A k \in Of(p) : i < k => k \in PendG',
           RowOf(p)' = RowOf(p),
           log[i].type = "ProjectGoalRemoved" =>
               p \notin ensureGoalState'.linked /\ p \notin ensureGoalState'.completed,
           log[i].type # "ProjectGoalRemoved" =>
               p \in ensureGoalState'.linked /\ RowOf(p).linked,
           log[i].type = "ProjectCreated" => log[i].linked,
           log[i].type # "ProjectGoalRemoved" /\ RowOf(p).status = "completed" =>
               p \in ensureGoalState'.completed,
           log[i].type = "ProjectStatusTransitioned" /\ RowOf(p).status # "completed" =>
               p \notin ensureGoalState'.completed,
           log[i].type \in {"ProjectCreated", "ProjectGoalAdded"}
           /\ RowOf(p).status # "completed" =>
               (p \in ensureGoalState'.completed <=> p \in ensureGoalState.completed),
           log[i].type \in {"ProjectCreated", "ProjectStatusTransitioned",
                            "ProjectGoalAdded", "ProjectGoalRemoved"},
           ProjectAgrees(p), LinksAgree(p)
    PROVE  ProjectAgrees(p)' /\ LinksAgree(p)'
<1>a. LogOK /\ Sane(log) /\ Len(log) \in Nat BY LogTyped DEF LogGood
<1>b. /\ Linking(p)' = Linking(p) /\ Statuses(p)' = Statuses(p) /\ Of(p)' = Of(p)
      /\ IsLinked(p)' <=> IsLinked(p)
      /\ Exists(p) => Status(p)' = Status(p)
      /\ Exists(p)' <=> Exists(p)
      /\ OnceLinked(p)' <=> OnceLinked(p)
      /\ OnceCompleted(p)' <=> OnceCompleted(p)
  BY <1>a, ProjectSame DEF SameProject
<1>c. /\ Linking(p) \subseteq Of(p) /\ Statuses(p) \subseteq Of(p)
      /\ Linking(p) \in SUBSET (1..Len(log)) /\ Statuses(p) \in SUBSET (1..Len(log))
      /\ \A k \in Of(p) : k \in Nat
  BY <1>a, ProjectPositions, LogTyped
<1>d. Exists(p) BY DEF Exists
<1>e. \A k \in Of(p) : k \in PendP' => k \in PendG'
  <2>1. p # "goal" BY ReactionConstants
  <2>2. \A k \in Of(p) : log'[k].agg = p BY DEF SameProject, Of
  <2> QED BY <2>1, <2>2 DEF LogGood, PendOK
<1>1. ProjectAgrees(p)' BY <1>b, <1>c DEF ProjectAgrees
<1>2. ASSUME Linking(p) \cap PendG' = {}
      PROVE  p \in ensureGoalState'.linked <=> IsLinked(p)
  <2>1. CASE i \in Linking(p)
    <3>1. \A k \in Linking(p) : k <= i BY <1>2, <1>c
    <3>2. LastOf(Linking(p)) = i BY <1>a, <1>c, <2>1, <3>1, LastIs
    <3>3. IsLinked(p) <=> log[i].linked BY <2>1, <3>2 DEF IsLinked
    <3> QED BY <1>a, <2>1, <3>3, LinkKinds
  <2>2. CASE i \notin Linking(p)
    <3>1. Linking(p) \cap PendP = {} BY <1>2, <1>c, <1>e
    <3>2. log[i].type = "ProjectStatusTransitioned" BY <2>2 DEF Linking
    <3> QED BY <3>1, <3>2 DEF ProjectAgrees
  <2> QED BY <2>1, <2>2
<1>3. ASSUME Of(p) \cap PendG' = {}, IsLinked(p), Status(p) = "completed"
      PROVE  p \in ensureGoalState'.completed
  <2>1. Statuses(p) \cap PendP = {} BY <1>3, <1>c, <1>e
  <2>2. RowOf(p).status = "completed" BY <1>3, <1>d, <2>1 DEF ProjectAgrees
  <2>3. log[i].type # "ProjectGoalRemoved"
    <3> SUFFICES ASSUME log[i].type = "ProjectGoalRemoved" PROVE FALSE
      OBVIOUS
    <3>1. i \in Linking(p) BY DEF Linking
    <3>2. \A k \in Linking(p) : k <= i BY <1>3, <1>c
    <3>3. LastOf(Linking(p)) = i BY <1>a, <1>c, <3>1, <3>2, LastIs
    <3> QED BY <1>3, <1>a, <3>1, <3>3, LinkKinds DEF IsLinked
  <2> QED BY <2>2, <2>3
<1>4. ASSUME p \in ensureGoalState'.completed PROVE Explained(p)'
  <2>1. OnceLinked(p)' /\ OnceCompleted(p)' BY <1>4 DEF RowsSane, GoalSane
  <2>2. log[i].type # "ProjectGoalRemoved" BY <1>4
  <2>3. CASE RowOf(p).status = "completed"
    BY <1>1, <2>1, <2>2, <2>3, RowExplainsNext
  <2>4. CASE RowOf(p).status # "completed"
    <3>1. /\ log[i].type \in {"ProjectCreated", "ProjectGoalAdded"}
          /\ p \in ensureGoalState.completed
      BY <1>4, <2>2, <2>4
    <3>2. Explained(p) /\ ~Clears(p, i) BY <3>1 DEF LinksAgree, Clears
    <3>3. 0 \in Nat /\ 0 \notin Linking(p) BY <1>c
    <3>4. OnceLinked(p) /\ OnceCompleted(p) BY <1>b, <2>1
    <3> QED BY <3>2, <3>3, <3>4, StillExplained
  <2> QED BY <2>3, <2>4
<1> QED BY <1>1, <1>2, <1>3, <1>4, <1>b, <1>d DEF LinksAgree

\* Event x of the project is committed.
Commits(x) ==
    /\ Len(log') = Len(log) + 1 /\ log'[Len(log) + 1] = x
    /\ \A j \in 1..Len(log) : log'[j] = log[j]

\* A commit for another aggregate leaves what the log says of a project.
LEMMA CommitElsewhere ==
    ASSUME LogOK, NEW x, Commits(x), NEW p, x.agg # p
    PROVE  Of(p)' = Of(p) /\ \A j \in Of(p) : log'[j] = log[j]
<1>1. Len(log) \in Nat BY LogTyped
<1>2. \A j \in 1..Len(log) : j \in 1..Len(log') BY <1>1 DEF Commits
<1>3. \A j \in 1..Len(log') : j \in 1..Len(log) \/ j = Len(log) + 1 BY <1>1 DEF Commits
<1> QED BY <1>2, <1>3 DEF Of, Commits

\* A committed event is outstanding, so the rows need not agree with it yet.
LEMMA ProjectCommitted ==
    ASSUME LogGood, LogGood', RowsSane', NEW p \in Projects, NEW x, Commits(x), x.agg = p,
           \A k \in Of(p) \cap PendP : k \in PendP',
           \A k \in Of(p) \cap PendG : k \in PendG',
           Len(log) + 1 \in PendP', Len(log) + 1 \in PendG',
           RowOf(p)' = RowOf(p), ensureGoalState' = ensureGoalState,
           ProjectAgrees(p), LinksAgree(p)
    PROVE  ProjectAgrees(p)' /\ LinksAgree(p)'
<1>a. LogOK /\ Sane(log) /\ Len(log) \in Nat /\ LogOK' /\ Sane(log)'
  BY LogTyped DEF LogGood
<1>0. PICK n \in Nat : n = Len(log) + 1 BY <1>a
<1>e. n \in PendP' /\ n \in PendG' BY <1>0
<1>b. p # "goal" BY ReactionConstants
<1>c. /\ Linking(p) \subseteq Of(p) /\ Statuses(p) \subseteq Of(p)
      /\ Linking(p) \in SUBSET (1..Len(log)) /\ Statuses(p) \in SUBSET (1..Len(log))
      /\ \A k \in Of(p) : k \in 1..Len(log) /\ k \in Nat /\ log'[k] = log[k]
  BY <1>a, ProjectPositions, LogTyped DEF Commits
<1>d. /\ 1..Len(log') = 1..Len(log) \cup {n} /\ n \in 1..Len(log') /\ n \notin 1..Len(log)
  BY <1>0, <1>a DEF Commits
<1>1. Of(p)' = Of(p) \cup {n} /\ log'[n] = x /\ n \in Of(p)'
  BY <1>0, <1>d DEF Of, Commits
<1>2. /\ n \notin Linking(p)' => Linking(p)' = Linking(p)
      /\ Linking(p) \subseteq Linking(p)'
      /\ n \in Linking(p)' => Linking(p)' = Linking(p) \cup {n}
  BY <1>1, <1>c DEF Linking
<1>3. /\ n \notin Statuses(p)' => Statuses(p)' = Statuses(p)
      /\ Statuses(p) \subseteq Statuses(p)'
      /\ n \in Statuses(p)' => Statuses(p)' = Statuses(p) \cup {n}
  BY <1>1, <1>c DEF Statuses
<1>4. n \notin Linking(p)' => (IsLinked(p)' <=> IsLinked(p))
  <2> SUFFICES ASSUME Linking(p)' = Linking(p) PROVE IsLinked(p)' <=> IsLinked(p)
    BY <1>2
  <2>1. CASE Linking(p) = {} BY <2>1 DEF IsLinked
  <2>2. CASE Linking(p) # {}
    <3>1. LastOf(Linking(p)) \in Linking(p) BY <1>a, <1>c, <2>2, LastPosition
    <3>2. LastOf(Linking(p))' = LastOf(Linking(p)) BY DEF LastOf
    <3> QED BY <1>c, <3>1, <3>2 DEF IsLinked
  <2> QED BY <2>1, <2>2
<1>5. n \notin Statuses(p)' /\ Statuses(p) # {} => Status(p)' = Status(p)
  <2> SUFFICES ASSUME Statuses(p)' = Statuses(p), Statuses(p) # {}
               PROVE  Status(p)' = Status(p)
    BY <1>3
  <2>1. LastOf(Statuses(p)) \in Statuses(p) BY <1>a, <1>c, LastPosition
  <2>2. LastOf(Statuses(p))' = LastOf(Statuses(p)) BY DEF LastOf
  <2> QED BY <1>c, <2>1, <2>2 DEF Status
<1>6. x.type = "ProjectCreated" \/ Exists(p)
  <2> SUFFICES ASSUME x.type # "ProjectCreated" PROVE Exists(p)
    OBVIOUS
  <2>1. ~\A j \in 1..(n - 1) : log'[j].agg # log'[n].agg
    BY <1>1, <1>b, <1>a, <1>d DEF Sane
  <2>2. PICK j \in 1..Len(log) : log'[j].agg = p BY <1>0, <1>1, <1>a, <2>1
  <2>3. log[j].agg = p BY <2>2 DEF Commits
  <2> QED BY <2>3 DEF Exists, Of
<1>7. x.type = "ProjectCreated" => ~Exists(p)
  <2> SUFFICES ASSUME x.type = "ProjectCreated", NEW j \in Of(p) PROVE FALSE
    BY DEF Exists
  <2>1. \A k \in 1..(n - 1) : log'[k].agg # log'[n].agg
    BY <1>1, <1>b, <1>a, <1>d DEF Sane
  <2>2. j \in 1..(n - 1) /\ log'[j].agg = p BY <1>0, <1>a, <1>c DEF Of
  <2> QED BY <1>1, <2>1, <2>2
<1>8. ProjectAgrees(p)'
  <2>1. ASSUME Linking(p)' \cap PendP' = {} PROVE RowOf(p)'.linked <=> IsLinked(p)'
    <3>1. n \notin Linking(p)' BY <1>e, <2>1
    <3>2. Linking(p) \cap PendP = {} BY <1>2, <1>c, <2>1
    <3> QED BY <1>4, <3>1, <3>2 DEF ProjectAgrees
  <2>2. ASSUME Statuses(p)' \cap PendP' = {} PROVE RowOf(p)'.status = Status(p)'
    <3>1. n \notin Statuses(p)' BY <1>e, <2>2
    <3>2. Statuses(p) \cap PendP = {} BY <1>3, <1>c, <2>2
    <3>3. x.type # "ProjectCreated" BY <1>1, <3>1 DEF Statuses
    <3>4. Exists(p) BY <1>6, <3>3
    <3>5. Statuses(p) # {} BY <1>a, <3>4, CreatedFirst
    <3> QED BY <1>5, <3>1, <3>2, <3>4, <3>5 DEF ProjectAgrees
  <2> QED BY <2>1, <2>2 DEF ProjectAgrees
<1>9. ASSUME Linking(p)' \cap PendG' = {}
      PROVE  p \in ensureGoalState'.linked <=> IsLinked(p)'
  <2>1. n \notin Linking(p)' BY <1>e, <1>9
  <2>2. Linking(p) \cap PendG = {} BY <1>2, <1>c, <1>9
  <2> QED BY <1>4, <2>1, <2>2 DEF LinksAgree
<1>10. ASSUME p \in ensureGoalState'.completed PROVE Explained(p)'
  <2>1. OnceLinked(p)' /\ OnceCompleted(p)' BY <1>10 DEF RowsSane, GoalSane
  <2>2. Explained(p) BY <1>10 DEF LinksAgree
  <2>3. CASE Relapsed(p)
    <3>1. PICK i \in Statuses(p), j \in Statuses(p) :
              /\ i < j /\ log[i].status = "completed"
              /\ log[j].status # "completed" /\ ~LinkedAt(p, j)
      BY <2>3 DEF Relapsed
    <3> DEFINE B == {k \in Linking(p) : k <= j}
               Bn == {k \in Linking(p)' : k <= j}
    <3>2. Bn = B BY <1>0, <1>2, <1>a, <1>c, <3>1
    <3>3. LinkedAt(p, j) <=> (B # {} /\ log[LastOf(B)].linked) BY DEF LinkedAt
    <3>4. LinkedAt(p, j)' <=> (Bn # {} /\ log'[LastOf(Bn)].linked) BY DEF LinkedAt, LastOf
    <3>5. B # {} => LastOf(B) \in B
      <4>1. B \in SUBSET (1..Len(log)) BY <1>c
      <4> HIDE DEF B
      <4> QED BY <1>a, <4>1, LastPosition
    <3>6. B # {} => log'[LastOf(B)] = log[LastOf(B)] BY <1>c, <3>5
    <3> HIDE DEF B, Bn
    <3>7. ~LinkedAt(p, j)' BY <3>1, <3>2, <3>3, <3>4, <3>6
    <3>8. /\ i \in Statuses(p)' /\ j \in Statuses(p)'
          /\ log'[i].status = "completed" /\ log'[j].status # "completed"
      BY <1>3, <1>c, <3>1
    <3> QED BY <3>1, <3>7, <3>8 DEF Explained, Relapsed
  <2>4. ASSUME NEW k \in Of(p) \cap PendG, Clears(p, k) PROVE Explained(p)'
    <3>1. k \in PendG' /\ k \in Of(p)' /\ log'[k] = log[k] BY <1>1, <1>c
    <3>2. CASE log[k].type = "ProjectGoalRemoved"
      BY <3>1, <3>2 DEF Explained, Clears
    <3>3. CASE log[k].type # "ProjectGoalRemoved"
      <4>1. /\ log[k].type = "ProjectStatusTransitioned" /\ log[k].status # "completed"
            /\ Meets(p, k)
        BY <2>4, <3>3 DEF Clears
      <4>2. Before(p, k) \subseteq Before(p, k)' BY <1>2, <1>c DEF Before
      <4>3. Before(p, k)' = {} => RowOf(p)'.linked BY <4>1, <4>2 DEF Meets
      <4>4. k \in Nat BY <1>c
      <4> QED BY <2>1, <3>1, <4>1, <4>3, <4>4, TransitionExplainsNext
    <3> QED BY <3>2, <3>3
  <2>5. CASE IsLinked(p) /\ Status(p) = "completed"
    <3>0. Exists(p) BY <1>c, <2>5 DEF IsLinked, Exists
    <3>1. x.type # "ProjectCreated" BY <1>7, <3>0
    <3>2. Statuses(p) # {} BY <1>a, <3>0, CreatedFirst
    <3>3. CASE x.type = "ProjectGoalRemoved"
      BY <1>1, <1>e, <3>3 DEF Explained, Clears
    <3>4. CASE x.type = "ProjectGoalAdded"
      <4>1. n \in Linking(p)' /\ n \notin Statuses(p)' BY <1>1, <3>4 DEF Linking, Statuses
      <4>2. \A k \in Linking(p)' : k <= n BY <1>0, <1>2, <1>a, <1>c, <4>1
      <4>3. Linking(p)' \in SUBSET (1..n) BY <1>0, <1>2, <1>a, <1>c, <4>1
      <4>4. LastOf(Linking(p)') = n
        BY <4>1, <4>2, <4>3, LastIs
      <4>5. LastOf(Linking(p))' = n BY <4>4 DEF LastOf
      <4>6. x.linked BY <1>1, <1>a, <1>b, <1>d, <3>4 DEF Sane
      <4>7. IsLinked(p)' BY <1>1, <4>1, <4>5, <4>6 DEF IsLinked
      <4> QED BY <1>5, <2>5, <3>2, <4>1, <4>7 DEF Explained
    <3>5. CASE x.type = "ProjectStatusTransitioned"
      <4>1. n \notin Linking(p)' /\ n \in Statuses(p)' BY <1>1, <3>5 DEF Linking, Statuses
      <4>2. IsLinked(p)' BY <1>4, <2>5, <4>1
      <4>3. CASE x.status = "completed"
        <5>1. \A k \in Statuses(p)' : k <= n BY <1>0, <1>3, <1>a, <1>c, <4>1
        <5>2. Statuses(p)' \in SUBSET (1..n) BY <1>0, <1>3, <1>a, <1>c, <4>1
        <5>3. LastOf(Statuses(p)') = n
          BY <4>1, <5>1, <5>2, LastIs
        <5>4. LastOf(Statuses(p))' = n BY <5>3 DEF LastOf
        <5>5. Status(p)' = "completed" BY <1>1, <4>3, <5>4 DEF Status
        <5> QED BY <4>2, <5>5 DEF Explained
      <4>4. CASE x.status # "completed"
        <5>1. Before(p, n)' = {} => RowOf(p)'.linked
          <6> SUFFICES ASSUME Before(p, n)' = {} PROVE RowOf(p).linked
            OBVIOUS
          <6>1. \A k \in Linking(p) : k \in Linking(p)' /\ k <= n BY <1>0, <1>2, <1>a, <1>c
          <6>2. \A k \in Linking(p) : k \in PendP => k \in Before(p, n)'
            BY <1>c, <6>1 DEF Before
          <6>3. Linking(p) \cap PendP = {} BY <6>2
          <6> QED BY <2>5, <6>3 DEF ProjectAgrees
        <5> QED BY <1>1, <1>e, <2>1, <3>5, <4>4, <5>1, TransitionExplainsNext
      <4> QED BY <4>3, <4>4
    <3>6. x.type \in {"ProjectCreated", "ProjectStatusTransitioned", "ProjectGoalAdded",
                      "ProjectGoalRemoved"}
      <4>1. x \in ProjectEvents
        <5>1. log'[n] \in Events BY <1>a, <1>d, ElementOfSeq DEF LogOK
        <5> QED BY <1>1, <1>b, <5>1 DEF Events, GoalEvents
      <4> QED BY <4>1 DEF ProjectEvents
    <3> QED BY <3>1, <3>3, <3>4, <3>5, <3>6
  <2> QED BY <2>2, <2>3, <2>4, <2>5 DEF Explained
<1> QED BY <1>1, <1>e, <1>8, <1>9, <1>10 DEF LinksAgree

-----------------------------------------------------------------------------
(* What a step does to the agreement of the goal *)

SameGoal == Of("goal")' = Of("goal") /\ \A j \in Of("goal") : log'[j] = log[j]

\* A step that commits nothing for the goal leaves what the log says of it.
LEMMA GoalSame ==
    ASSUME LogOK, SameGoal
    PROVE  /\ Turns' = Turns /\ Of("goal") # {}
           /\ IsAchieved' <=> IsAchieved
           /\ IsArchived' <=> IsArchived
           /\ OnceAchieved' <=> OnceAchieved
           /\ log'[LastOf(Of("goal"))'].version = log[LastOf(Of("goal"))].version
<1>a. Len(log) \in Nat BY LogTyped
<1>b. /\ 1 \in Of("goal") /\ Of("goal") \in SUBSET (1..Len(log))
      /\ Turns \in SUBSET (1..Len(log))
      /\ \A j \in Turns : j \in Of("goal") /\ log'[j] = log[j]
  BY LogTyped DEF LogOK, Of, Turns, SameGoal
<1>1. Turns' = Turns BY DEF SameGoal, Turns
<1>2. IsAchieved' <=> IsAchieved
  <2>1. CASE Turns = {} BY <1>1, <2>1 DEF IsAchieved
  <2>2. CASE Turns # {}
    <3>1. LastOf(Turns) \in Turns BY <1>a, <1>b, <2>2, LastPosition
    <3>2. LastOf(Turns)' = LastOf(Turns) BY <1>1 DEF LastOf
    <3> QED BY <1>1, <1>b, <3>1, <3>2 DEF IsAchieved
  <2> QED BY <2>1, <2>2
<1>3. IsArchived' <=> IsArchived BY DEF IsArchived, SameGoal
<1>4. OnceAchieved' <=> OnceAchieved BY <1>1, <1>b DEF OnceAchieved
<1>5. LastOf(Of("goal")) \in Of("goal") BY <1>a, <1>b, LastPosition
<1>6. LastOf(Of("goal"))' = LastOf(Of("goal")) BY DEF LastOf, SameGoal
<1>7. log'[LastOf(Of("goal"))'].version = log[LastOf(Of("goal"))].version
  BY <1>5, <1>6 DEF SameGoal
<1> QED BY <1>1, <1>2, <1>3, <1>4, <1>7, <1>b

\* The goal's events stay, and the row says the same of the goal.
LEMMA GoalKept ==
    ASSUME LogOK, SameGoal, \A k \in Of("goal") \cap PendG : k \in PendG',
           ensureGoalState'.achieved <=> ensureGoalState.achieved,
           ensureGoalState'.archived <=> ensureGoalState.archived,
           ensureGoalState'.version = ensureGoalState.version, GoalAgrees
    PROVE  GoalAgrees'
<1>1. /\ Turns' = Turns
      /\ IsAchieved' <=> IsAchieved
      /\ IsArchived' <=> IsArchived
      /\ log'[LastOf(Of("goal"))'].version = log[LastOf(Of("goal"))].version
      /\ Of("goal")' = Of("goal")
      /\ Turns \subseteq Of("goal")
      /\ \A j \in Of("goal") : log'[j] = log[j]
  BY GoalSame DEF SameGoal, Turns
<1> QED BY <1>1 DEF GoalAgrees

\* The handler of the goal's event i has saved the row.
LEMMA GoalSaved ==
    ASSUME LogOK, SameGoal, NEW i \in Of("goal"),
           \A k \in Of("goal") \cap PendG : k \in PendG' \/ k = i,
           \A k \in Of("goal") : i < k => k \in PendG',
           log[i].type \in {"GoalAchieved", "GoalUnachieved"} =>
               (ensureGoalState'.achieved <=> log[i].type = "GoalAchieved"),
           log[i].type \notin {"GoalAchieved", "GoalUnachieved"} =>
               (ensureGoalState'.achieved <=> ensureGoalState.achieved),
           log[i].type = "GoalArchived" => ensureGoalState'.archived,
           log[i].type # "GoalArchived" =>
               (ensureGoalState'.archived <=> ensureGoalState.archived),
           (\A k \in Of("goal") : k <= i) => ensureGoalState'.version = log[i].version,
           GoalAgrees
    PROVE  GoalAgrees'
<1>a. Len(log) \in Nat BY LogTyped
<1>b. /\ Of("goal") \in SUBSET (1..Len(log)) /\ Turns \in SUBSET (1..Len(log))
      /\ Turns \subseteq Of("goal") /\ \A k \in Of("goal") : k \in Nat
  BY LogTyped DEF Of, Turns
<1>c. /\ Turns' = Turns
      /\ IsAchieved' <=> IsAchieved
      /\ IsArchived' <=> IsArchived
      /\ log'[LastOf(Of("goal"))'].version = log[LastOf(Of("goal"))].version
      /\ Of("goal")' = Of("goal")
      /\ \A j \in Of("goal") : log'[j] = log[j]
  BY GoalSame DEF SameGoal
<1>1. ASSUME Turns \cap PendG' = {} PROVE ensureGoalState'.achieved <=> IsAchieved
  <2>1. CASE i \in Turns
    <3>1. \A k \in Turns : k <= i BY <1>1, <1>b
    <3>2. LastOf(Turns) = i BY <1>a, <1>b, <2>1, <3>1, LastIs
    <3>3. log[i].type \in {"GoalAchieved", "GoalUnachieved"} BY <2>1 DEF Turns
    <3> QED BY <2>1, <3>2, <3>3 DEF IsAchieved
  <2>2. CASE i \notin Turns
    <3>1. log[i].type \notin {"GoalAchieved", "GoalUnachieved"} BY <2>2 DEF Turns
    <3>2. Turns \cap PendG = {} BY <1>1, <1>b, <2>2
    <3> QED BY <3>1, <3>2 DEF GoalAgrees
  <2> QED BY <2>1, <2>2
<1>2. ASSUME \A k \in Of("goal") \cap PendG' : log[k].type # "GoalArchived", IsArchived
      PROVE  ensureGoalState'.archived
  <2>1. CASE log[i].type = "GoalArchived" BY <2>1
  <2>2. CASE log[i].type # "GoalArchived"
    <3>1. \A k \in Of("goal") \cap PendG : log[k].type # "GoalArchived" BY <1>2, <2>2
    <3> QED BY <1>2, <2>2, <3>1 DEF GoalAgrees
  <2> QED BY <2>1, <2>2
<1>3. ASSUME Of("goal") \cap PendG' = {}
      PROVE  ensureGoalState'.version = log[LastOf(Of("goal"))].version
  <2>1. \A k \in Of("goal") : k <= i BY <1>3, <1>b
  <2>2. LastOf(Of("goal")) = i BY <1>a, <1>b, <2>1, LastIs
  <2> QED BY <2>1, <2>2
<1> QED BY <1>1, <1>2, <1>3, <1>c DEF GoalAgrees

\* The same as ProjectCommitted, for the goal.
LEMMA GoalCommitted ==
    ASSUME LogOK, NEW x, Commits(x), x.agg = "goal",
           \A k \in Of("goal") \cap PendG : k \in PendG', Len(log) + 1 \in PendG',
           ensureGoalState' = ensureGoalState, GoalAgrees
    PROVE  GoalAgrees'
<1> DEFINE n == Len(log) + 1
<1>a. Len(log) \in Nat BY LogTyped
<1>b. /\ Turns \subseteq Of("goal") /\ Turns \in SUBSET (1..Len(log))
      /\ \A k \in Of("goal") : k \in 1..Len(log) /\ log'[k] = log[k]
  BY DEF Of, Turns, Commits
<1>c. 1..Len(log') = 1..Len(log) \cup {n} /\ n \in 1..Len(log') BY <1>a DEF Commits
<1>1. Of("goal")' = Of("goal") \cup {n} /\ log'[n] = x BY <1>c DEF Of, Commits
<1>2. n \notin Turns' => Turns' = Turns BY <1>1, <1>b DEF Turns
<1>3. Turns \subseteq Turns' BY <1>1, <1>b DEF Turns
<1>4. ASSUME Turns' \cap PendG' = {} PROVE ensureGoalState.achieved <=> IsAchieved'
  <2>1. Turns' = Turns BY <1>2, <1>4
  <2>2. Turns \cap PendG = {} BY <1>4, <1>b, <2>1
  <2>3. IsAchieved' <=> IsAchieved
    <3>1. CASE Turns = {} BY <2>1, <3>1 DEF IsAchieved
    <3>2. CASE Turns # {}
      <4>1. LastOf(Turns) \in Turns BY <1>a, <1>b, <3>2, LastPosition
      <4>2. LastOf(Turns)' = LastOf(Turns) BY <2>1 DEF LastOf
      <4> QED BY <1>b, <2>1, <4>1, <4>2 DEF IsAchieved
    <3> QED BY <3>1, <3>2
  <2> QED BY <2>2, <2>3 DEF GoalAgrees
<1>5. ASSUME \A k \in Of("goal")' \cap PendG' : log'[k].type # "GoalArchived", IsArchived'
      PROVE  ensureGoalState.archived
  <2>1. x.type # "GoalArchived" BY <1>1, <1>5
  <2>2. IsArchived BY <1>1, <1>5, <1>b, <2>1 DEF IsArchived
  <2>3. \A k \in Of("goal") \cap PendG : log[k].type # "GoalArchived" BY <1>1, <1>5, <1>b
  <2> QED BY <2>2, <2>3 DEF GoalAgrees
<1>6. Of("goal")' \cap PendG' # {} BY <1>1
<1> QED BY <1>4, <1>5, <1>6 DEF GoalAgrees

-----------------------------------------------------------------------------
(* The log grows *)

\* A step keeps every event, except for the version of one that another event of
\* the goal follows.
LogKept ==
    /\ Len(log) \in Nat /\ Len(log') \in Nat /\ Len(log) <= Len(log')
    /\ \A j \in 1..Len(log) :
           /\ log'[j].agg = log[j].agg /\ log'[j].type = log[j].type
           /\ log'[j].seq = log[j].seq
           /\ \/ log'[j] = log[j]
              \/ /\ log[j].agg = "goal" /\ log[j].version > 0
                 /\ \E k \in 1..Len(log') : j < k /\ log'[k].agg = "goal"

\* A step that leaves the log alone keeps it.
LEMMA KeptStays ==
    ASSUME LogOK, log' = log
    PROVE  LogKept
  BY LogTyped DEF LogKept

\* A commit keeps what was in the log.
LEMMA KeptCommits ==
    ASSUME LogOK, NEW x, Commits(x)
    PROVE  LogKept
<1>1. Len(log) \in Nat BY LogTyped
<1> QED BY <1>1 DEF LogKept, Commits

\* The events that are kept are of the same stream and as readable.
LEMMA KeptRead ==
    ASSUME LogKept
    PROVE  \A j \in 1..Len(log) :
               /\ j \in 1..Len(log') /\ Stream(log'[j]) = Stream(log[j])
               /\ CanRead(log'[j]) <=> CanRead(log[j])
               /\ log[j].agg # "goal" => log'[j] = log[j]
<1>1. \A j \in 1..Len(log) : j \in 1..Len(log') BY DEF LogKept
<1>2. \A j \in 1..Len(log) : log[j].agg # "goal" => log'[j] = log[j] BY DEF LogKept
<1>3. \A j \in 1..Len(log) : log'[j].agg = log[j].agg BY DEF LogKept
<1> QED BY <1>1, <1>2, <1>3 DEF Stream, CanRead

\* What was read of an event stays the event.
LEMMA SameStays ==
    ASSUME LogOK, LogKept, NEW e, NEW i, Same(e, i)
    PROVE  Same(e, i)'
<1>1. i \in 1..Len(log) /\ i \in 1..Len(log') /\ CanRead(e) BY KeptRead DEF Same
<1>2. CASE e = log[i] /\ log'[i] = log[i] BY <1>1, <1>2 DEF Same
<1>3. CASE e = log[i] /\ log'[i] # log[i]
  <2>1. /\ log[i].agg = "goal" /\ log[i].version > 0
        /\ \E k \in 1..Len(log') : i < k /\ log'[k].agg = "goal"
        /\ log'[i].agg = log[i].agg /\ log'[i].type = log[i].type
        /\ log'[i].seq = log[i].seq
    BY <1>1, <1>3 DEF LogKept
  <2> QED BY <1>1, <1>3, <2>1 DEF Same
<1>4. CASE e # log[i]
  <2>1. /\ e.agg = "goal" /\ log[i].agg = "goal" /\ e.type = log[i].type
        /\ e.seq = log[i].seq /\ e.version > 0
        /\ \E j \in 1..Len(log) : i < j /\ log[j].agg = "goal"
    BY <1>4 DEF Same
  <2>2. /\ log'[i].agg = log[i].agg /\ log'[i].type = log[i].type
        /\ log'[i].seq = log[i].seq
    BY <1>1 DEF LogKept
  <2>3. \E j \in 1..Len(log') : i < j /\ log'[j].agg = "goal"
    <3>1. PICK j \in 1..Len(log) : i < j /\ log[j].agg = "goal" BY <2>1
    <3>2. j \in 1..Len(log') /\ log'[j].agg = "goal" BY <3>1, KeptRead DEF LogKept
    <3> QED BY <3>1, <3>2
  <2> QED BY <1>1, <2>1, <2>2, <2>3 DEF Same
<1> QED BY <1>2, <1>3, <1>4

\* What is read of an event.
LEMMA SameEvent ==
    ASSUME LogOK, Sane(log), NEW e \in Events, Same(e, e.seq)
    PROVE  /\ e.seq \in 1..Len(log) /\ log[e.seq].agg = e.agg /\ log[e.seq].type = e.type
           /\ CanRead(log[e.seq]) /\ CanRead(e)
           /\ e.agg # "goal" => log[e.seq] = e /\ e.seq \in Of(e.agg) /\ e \in ProjectEvents
           /\ e.agg = "goal" => e.version > 0 /\ e.seq \in Of("goal") /\ e \in GoalEvents
           /\ (\A k \in Of("goal") : k <= e.seq) => log[e.seq] = e
<1> DEFINE i == e.seq
<1>1. i \in 1..Len(log) /\ CanRead(e) /\ i \in Nat BY LogTyped DEF Same
<1>2. log[i].agg = e.agg /\ log[i].type = e.type /\ (e.agg # "goal" => log[i] = e)
  BY DEF Same
<1>3. CanRead(log[i]) BY <1>1, <1>2 DEF CanRead
<1>4. e.agg = "goal" => e.version > 0
  <2>1. log[i].agg = "goal" => log[i].version > 0 BY <1>1 DEF Sane
  <2> QED BY <1>2, <2>1 DEF Same
<1>5. (e.agg # "goal" => e \in ProjectEvents) /\ (e.agg = "goal" => e \in GoalEvents)
  BY ReactionConstants DEF Events, GoalEvents, ProjectEvents
<1>6. (\A k \in Of("goal") : k <= i) => log[i] = e
  <2> SUFFICES ASSUME \A k \in Of("goal") : k <= i, log[i] # e PROVE FALSE
    OBVIOUS
  <2>1. PICK j \in 1..Len(log) : i < j /\ log[j].agg = "goal" BY DEF Same
  <2>2. j \in Of("goal") BY <2>1 DEF Of
  <2>3. j <= i BY <2>2
  <2> QED BY <1>1, <2>1, <2>3, LogTyped
<1> QED BY <1>1, <1>2, <1>3, <1>4, <1>5, <1>6 DEF Of

-----------------------------------------------------------------------------
(* What a step does to the batches *)

\* A thread keeps what it holds of a batch, or finishes with the front of it.
LEMMA ThreadKept ==
    ASSUME PublishInv, LogOK', LogKept, NEW t \in Threads, ThreadHolds(t), PlaceOK(t)',
           cursor' = cursor, th'[t].upTo = th[t].upTo, th'[t].batch \subseteq th[t].batch,
           \A e \in th'[t].batch, f \in th[t].batch : e.seq < f.seq => f \in th'[t].batch
    PROVE  ThreadHolds(t)'
<1>a. LogOK BY DEF PublishInv, ShapesOK
<1>b. th[t].upTo \in Nat /\ th[t].upTo <= Len(log)
  BY DEF PublishInv, ShapesOK, ThreadsOK, ThreadStates, ThreadHolds
<1>1. th'[t].upTo <= Len(log') BY <1>b DEF LogKept
<1>2. ASSUME NEW e \in th'[t].batch
      PROVE  Same(e, e.seq)' /\ (t \in Streams => Stream(e) = t /\ cursor'[t] < e.seq)
  BY <1>a, SameStays DEF ThreadHolds
<1>3. ASSUME NEW i \in 1..Len(log'), t \in Streams => Stream(log'[i]) = t,
             CanRead(log'[i]), i <= th'[t].upTo,
             NEW e \in th'[t].batch, e.seq < i
      PROVE  InBatch(t, i)'
  <2>1. i \in 1..Len(log) BY <1>3, <1>b DEF LogKept
  <2>2. (t \in Streams => Stream(log[i]) = t) /\ CanRead(log[i])
    BY <1>3, <2>1, KeptRead
  <2>3. PICK f \in th[t].batch : f.seq = i
    BY <1>3, <2>1, <2>2 DEF ThreadHolds, InBatch
  <2>4. f \in th'[t].batch BY <1>3, <2>3
  <2> QED BY <2>3, <2>4 DEF InBatch
<1> QED BY <1>1, <1>2, <1>3 DEF ThreadHolds

\* A thread that does not move holds what it held.
LEMMA ThreadSame ==
    ASSUME PublishInv, LogOK', LogKept, NEW t \in Threads, ThreadHolds(t), SameThread(t),
           UNCHANGED <<cursor, phase>>
    PROVE  ThreadHolds(t)'
<1>1. PlaceOK(t)' BY DEF PlaceOK, SameThread, ThreadHolds
<1> QED BY <1>1, ThreadKept DEF SameThread

\* An idle thread holds nothing.
LEMMA IdleHolds ==
    ASSUME LogOK', NEW t \in Threads, th'[t] = IdleThread
    PROVE  ThreadHolds(t)'
<1>1. /\ th'[t].pc = "idle" /\ th'[t].batch = {} /\ th'[t].upTo = 0 BY DEF IdleThread
<1>2. Len(log') \in Nat BY LenProperties DEF LogOK
<1>3. PlaceOK(t)' BY <1>1, PlacesDiffer DEF PlaceOK
<1> QED BY <1>1, <1>2, <1>3 DEF ThreadHolds

-----------------------------------------------------------------------------
(* The ways a thread moves *)

Least(t) == th[t].ev \in th[t].batch /\ \A e \in th[t].batch : th[t].ev.seq <= e.seq

\* The handler throws, or bootstrap returns.
Rests(t) == th'[t] = IdleThread /\ (t = "boot" => ~seeded /\ th[t].pc # "seed")
\* The handler goes on after the goal's row was saved.
Goes(t) ==
    /\ th[t].pc \in AfterGoal /\ th'[t].pc \in AfterGoal
    /\ th'[t].batch = th[t].batch /\ th'[t].ev = th[t].ev /\ th'[t].upTo = th[t].upTo
\* The handler returns.
Serves(t) ==
    /\ th[t].pc \in AfterGoal \cup {"saveProject", "saveGoal"} /\ th'[t].pc = "next"
    /\ th'[t].batch = th[t].batch \ {th[t].ev} /\ th'[t].upTo = th[t].upTo
\* The handler has saved a row and goes on.
Saves(t) ==
    /\ \/ th[t].pc = "saveProject" /\ th'[t].pc = "saveGoal"
       \/ th[t].pc = "saveGoal" /\ th'[t].pc = "ask" /\ t \in Streams /\ th[t].ev.agg # "goal"
    /\ th'[t].batch = th[t].batch /\ th'[t].ev = th[t].ev /\ th'[t].upTo = th[t].upTo
\* The handler of the next event begins.
Handles(t) ==
    /\ th[t].pc = "next" /\ phase = "live"
    /\ th'[t].batch = th[t].batch /\ th'[t].upTo = th[t].upTo
    /\ Least(t)'
    /\ \/ th'[t].pc = "saveProject" /\ th'[t].ev.agg # "goal"
       \/ th'[t].pc = "saveGoal" /\ th'[t].ev.agg = "goal"

Moves(t) == Rests(t) \/ Goes(t) \/ Serves(t) \/ Saves(t) \/ Handles(t)

\* A thread that moves holds the end of what it had read.
LEMMA MovesHolds ==
    ASSUME PublishInv, BatchInv, LogOK', LogKept, NEW t \in Threads, Moves(t),
           UNCHANGED <<cursor, phase>>
    PROVE  ThreadHolds(t)'
<1>a. ThreadHolds(t) /\ PlaceOK(t) BY DEF BatchInv, ThreadHolds
<1>b. th[t].pc \notin {"idle", "next"} => phase = "live" BY <1>a DEF PlaceOK
<1>1. CASE Rests(t) BY <1>1, IdleHolds DEF Rests
<1>2. CASE Goes(t)
  <2>1. PlaceOK(t)' BY <1>2, <1>a, <1>b, PlacesDiffer DEF PlaceOK, Goes
  <2> QED BY <1>2, <1>a, <2>1, ThreadKept DEF Goes
<1>3. CASE Serves(t)
  <2>1. PlaceOK(t)' BY <1>3, <1>a, PlacesDiffer DEF PlaceOK, Serves
  <2>2. CASE th[t].batch = {}
    <3>1. th'[t].batch = {} BY <1>3, <2>2 DEF Serves
    <3> QED BY <1>3, <1>a, <2>1, <3>1, ThreadKept DEF Serves
  <2>3. CASE th[t].batch # {}
    <3>1. t = "boot" => th[t].pc \in {"next", "saveProject", "saveGoal"}
      BY <2>3 DEF PublishInv, ShapesOK, ThreadsOK
    <3>2. Least(t)
      BY <1>3, <1>a, <3>1, StreamsAreThreads, PlacesDiffer DEF PlaceOK, Serves, Least
    <3>3. \A e \in th[t].batch : e.seq \in Nat
      BY DEF PublishInv, ShapesOK, ThreadsOK, ThreadStates, Events, GoalEvents, ProjectEvents
    <3>4. ASSUME NEW e \in th'[t].batch, NEW f \in th[t].batch, e.seq < f.seq
          PROVE  f \in th'[t].batch
      <4>1. e \in th[t].batch /\ th[t].ev.seq <= e.seq BY <1>3, <3>2 DEF Serves, Least
      <4>2. th[t].ev.seq \in Nat BY <3>2, <3>3 DEF Least
      <4>3. f # th[t].ev BY <3>3, <3>4, <4>1, <4>2
      <4> QED BY <1>3, <4>3 DEF Serves
    <3> QED BY <1>3, <1>a, <2>1, <3>4, ThreadKept DEF Serves
  <2> QED BY <2>2, <2>3
<1>4. CASE Saves(t)
  <2>1. PlaceOK(t)'
    <3>1. t = "goals" => th'[t].pc \notin AfterGoal
      <4> SUFFICES ASSUME t = "goals", th[t].pc = "saveGoal", th[t].ev.agg # "goal"
                   PROVE  FALSE
        BY <1>4, PlacesDiffer DEF Saves
      <4>1. th[t].ev \in th[t].batch /\ t \in Streams BY <1>a DEF PlaceOK, Streams
      <4>2. Stream(th[t].ev) = t BY <1>a, <4>1 DEF ThreadHolds
      <4> QED BY <4>2 DEF Stream
    <3>2. t = "boot" => th'[t].pc \notin AfterGoal
      BY <1>4, PlacesDiffer, StreamsAreThreads DEF Saves
    <3> QED BY <1>4, <1>a, <1>b, <3>1, <3>2, PlacesDiffer DEF PlaceOK, Saves
  <2> QED BY <1>4, <1>a, <2>1, ThreadKept DEF Saves
<1>5. CASE Handles(t)
  <2>1. PlaceOK(t)' BY <1>5, <1>a, PlacesDiffer DEF PlaceOK, Handles, Least
  <2> QED BY <1>5, <1>a, <2>1, ThreadKept DEF Handles
<1> QED BY <1>1, <1>2, <1>3, <1>4, <1>5 DEF Moves

\* The event that a thread which moves is done with: the one whose handler has saved
\* a row.
Loses(A, t, j) ==
    /\ th[t].pc \in {"saveProject", "saveGoal"} \ A /\ th[t].ev.seq = j
    /\ th'[t].pc \in A \cup {"next"}

\* A thread that moves loses at most the event that it has saved.
LEMMA HoldsStays ==
    ASSUME PublishInv, BatchInv, Sane(log), NEW t \in Threads, Moves(t),
           NEW A \in {AfterGoal, AfterProject}, NEW j \in 1..Len(log),
           A = AfterProject => log[j].agg # "goal", Holds(A, t, j), ~Loses(A, t, j)
    PROVE  Holds(A, t, j)' \/ (t \in Streams /\ th'[t].pc = "idle")
<1>a. ThreadHolds(t) /\ PlaceOK(t) /\ LogOK
  BY DEF BatchInv, ThreadHolds, PublishInv, ShapesOK
<1>b. /\ AfterGoal \subseteq A /\ "next" \notin A /\ "idle" \notin A /\ "saveProject" \notin A
  BY PlacesDiffer
<1>c. PICK e \in th[t].batch : e.seq = j BY DEF Holds, InBatch
<1>1. CASE Rests(t)
  <2>1. t # "boot" BY <1>1, <1>c DEF Rests, PublishInv, ShapesOK, ThreadsOK
  <2> QED BY <1>1, <2>1, StreamsAreThreads DEF Rests, IdleThread
<1>2. CASE Goes(t)
  BY <1>2, <1>b DEF Goes, Holds, InBatch
<1>3. CASE Serves(t)
  <2>1. th[t].ev.seq # j BY <1>3, <1>b DEF Serves, Loses, Holds
  <2>2. e \in th'[t].batch BY <1>3, <1>c, <2>1 DEF Serves
  <2> QED BY <1>3, <1>b, <1>c, <2>2 DEF Serves, Holds, InBatch
<1>4. CASE Saves(t)
  <2>1. InBatch(t, j)' BY <1>4, <1>c DEF Saves, InBatch
  <2>2. ASSUME th'[t].pc \in A, th'[t].ev.seq = j PROVE FALSE
    <3>1. th[t].ev.seq = j BY <1>4, <2>2 DEF Saves
    <3>2. th[t].pc \notin A BY <3>1 DEF Holds
    <3> QED BY <1>4, <2>2, <3>1, <3>2 DEF Saves, Loses
  <2> QED BY <2>1, <2>2 DEF Holds
<1>5. CASE Handles(t)
  <2>1. InBatch(t, j)' BY <1>5, <1>c DEF Handles, InBatch
  <2>2. ASSUME th'[t].pc \in A, th'[t].ev.seq = j PROVE FALSE
    <3>1. A = AfterProject /\ th'[t].ev.agg = "goal"
      BY <1>5, <1>b, <2>2, PlacesDiffer DEF Handles
    <3>2. th'[t].ev \in th[t].batch BY <1>5 DEF Handles, Least
    <3>3. Same(th'[t].ev, j) BY <1>a, <2>2, <3>2 DEF ThreadHolds
    <3>4. log[j].agg = "goal" BY <3>1, <3>3 DEF Same
    <3> QED BY <3>1, <3>4
  <2> QED BY <2>1, <2>2 DEF Holds
<1> QED BY <1>1, <1>2, <1>3, <1>4, <1>5 DEF Moves

\* A thread that does not move holds the same events.
LEMMA HoldsSame ==
    ASSUME NEW u, SameThread(u), NEW A \in {AfterGoal, AfterProject}, NEW j
    PROVE  Holds(A, u, j)' <=> Holds(A, u, j)
  BY DEF SameThread, Holds, InBatch

\* A stream still has an event to handle that it had, unless the step was its.
LEMMA WaitsStays ==
    ASSUME PublishInv, BatchInv, Sane(log), NEW t \in Threads, Moves(t),
           \A u \in Threads \ {t} : SameThread(u), cursor' = cursor,
           NEW A \in {AfterGoal, AfterProject}, NEW s \in Streams, NEW j \in 1..Len(log),
           A = AfterProject => log[j].agg # "goal", Waits(A, s, j), t = s => ~Loses(A, t, j)
    PROVE  Waits(A, s, j)'
<1>0. s \in Threads BY StreamsAreThreads
<1>1. CASE s # t
  <2>1. SameThread(s) BY <1>0, <1>1
  <2>2. Holds(A, s, j)' <=> Holds(A, s, j) BY <2>1, HoldsSame
  <2> QED BY <2>1, <2>2 DEF Waits, SameThread
<1>2. CASE s = t
  <2>1. cursor'[s] < j BY DEF Waits
  <2>2. CASE Holds(A, s, j)
    <3>1. Holds(A, s, j)' \/ th'[s].pc = "idle" BY <1>2, <2>2, HoldsStays
    <3> QED BY <2>1, <3>1 DEF Waits
  <2>3. CASE th[s].pc = "idle"
    <3>1. th'[s].pc = "idle"
      BY <1>2, <2>3, PlacesDiffer DEF Moves, Rests, Goes, Serves, Saves, Handles, IdleThread
    <3> QED BY <2>1, <3>1 DEF Waits
  <2>4. CASE th[s].upTo < j
    <3>1. th'[s].pc = "idle" \/ th'[s].upTo = th[s].upTo
      BY <1>2 DEF Moves, Rests, Goes, Serves, Saves, Handles, IdleThread
    <3> QED BY <2>1, <2>4, <3>1 DEF Waits
  <2> QED BY <2>2, <2>3, <2>4 DEF Waits
<1> QED BY <1>1, <1>2

-----------------------------------------------------------------------------
(* What the steps of the handlers do *)

\* A step of another thread: at most the copy of a row becomes stale.
Untouched(u, pcs) ==
    /\ SameThread(u) /\ th'[u].goal = th[u].goal /\ th'[u].proj = th[u].proj
    /\ th[u].stale \/ th[u].pc \in pcs => th'[u].stale

\* Setting one thread leaves the others alone.
LEMMA SetOthers ==
    ASSUME ShapesOK, NEW t \in Threads, NEW r \in ThreadStates, th' = [th EXCEPT ![t] = r]
    PROVE  th'[t] = r /\ \A u \in Threads \ {t} : Untouched(u, {})
  BY DEF ShapesOK, ThreadsOK, Untouched, SameThread

\* The others at most get a stale copy.
LEMMA OutdatedOthers ==
    ASSUME ShapesOK, NEW t \in Threads, NEW r \in ThreadStates, NEW pcs,
           th' = Outdated([th EXCEPT ![t] = r], t, pcs)
    PROVE  th'[t] = r /\ \A u \in Threads \ {t} : Untouched(u, pcs)
<1> DEFINE f == [th EXCEPT ![t] = r]
<1>1. f \in [Threads -> ThreadStates] /\ f[t] = r /\ \A u \in Threads \ {t} : f[u] = th[u]
  BY DEF ShapesOK, ThreadsOK
<1> HIDE DEF f
<1>2. th' = [u \in Threads |-> IF u # t /\ f[u].pc \in pcs
                               THEN [f[u] EXCEPT !.stale = TRUE] ELSE f[u]]
  BY DEF Outdated, f
<1>5. th'[t] = r BY <1>1, <1>2
<1>6. ASSUME NEW u \in Threads \ {t} PROVE Untouched(u, pcs)
  <2>1. f[u] = th[u] /\ f[u] \in ThreadStates BY <1>1
  <2>2. CASE th[u].pc \in pcs
    <3>1. th'[u] = [th[u] EXCEPT !.stale = TRUE] BY <1>2, <2>1, <2>2
    <3>2. th[u] \in ThreadStates BY <2>1
    <3>3. /\ th'[u].pc = th[u].pc /\ th'[u].batch = th[u].batch /\ th'[u].ev = th[u].ev
          /\ th'[u].upTo = th[u].upTo /\ th'[u].goal = th[u].goal /\ th'[u].proj = th[u].proj
      BY <3>1, <3>2 DEF ThreadStates
    <3>4. th'[u].stale = TRUE BY <3>1, <3>2 DEF ThreadStates
    <3> QED BY <3>3, <3>4 DEF Untouched, SameThread
  <2>3. CASE th[u].pc \notin pcs
    <3>1. th'[u] = th[u] BY <1>2, <2>1, <2>3
    <3> QED BY <2>3, <3>1 DEF Untouched, SameThread
  <2> QED BY <2>2, <2>3
<1> QED BY <1>5, <1>6

\* Whoever may become stale in fewer places is left alone as well.
LEMMA UntouchedLess ==
    ASSUME NEW u, NEW pcs, Untouched(u, pcs)
    PROVE  Untouched(u, {})
  BY DEF Untouched

\* Two states of the goal that differ in the request only.
Like(g, h) ==
    /\ g.linked = h.linked /\ g.completed = h.completed
    /\ g.achieved = h.achieved /\ g.archived = h.archived /\ g.version = h.version

\* A request changes nothing else of the goal's state.
LEMMA RequestLike ==
    ASSUME NEW g \in GoalStates, NEW b \in BOOLEAN
    PROVE  /\ Like([g EXCEPT !.requested = b], g) /\ [g EXCEPT !.requested = b] # NoRow
           /\ [g EXCEPT !.requested = b] \in GoalStates
<1>1. Like([g EXCEPT !.requested = b], g) /\ [g EXCEPT !.requested = b] \in GoalStates
  BY DEF GoalStates, Like
<1>2. NoRow \notin GoalStates
  BY DEF GoalStates, NoRow
<1> QED BY <1>1, <1>2

\* What all steps of a handler have in common.
Handling(t) ==
    /\ UNCHANGED <<cursor, phase, seeded, manual>>
    /\ Moves(t) /\ \A u \in Threads \ {t} : Untouched(u, {})
    /\ crossed => crossed'
    /\ t \in Streams /\ seeded /\ th[t].pc \in {"saveProject", "saveGoal"} => crossed'
    /\ refused => refused'
    /\ overtaken => overtaken'

\* The handler of an event begins.
HandleEffect(t) ==
    /\ Handling(t) /\ Handles(t)
    /\ UNCHANGED <<log, goalRow, projRow, crossed, refused, overtaken, idem>>
    /\ LET e == th'[t].ev
       IN  /\ e \in th[t].batch
           /\ th'[t].goal = IF e.agg = "goal" THEN ensureGoalState ELSE emptyGoalState
           /\ e.agg # "goal" =>
                  th'[t].proj = IF e.type = "ProjectCreated" THEN emptyProjectState
                                ELSE RowOf(e.agg)

\* What HandleEvent does.
LEMMA HandleEffects ==
    ASSUME PublishInv, NEW t \in Threads, HandleEvent(t)
    PROVE  HandleEffect(t)
<1>a. ShapesOK BY DEF PublishInv
<1> DEFINE e == Earliest(th[t].batch)
           pc == IF e.agg = "goal" THEN "saveGoal" ELSE "saveProject"
           g == IF e.agg = "goal" THEN ensureGoalState ELSE emptyGoalState
           pr == IF e.agg = "goal" \/ e.type = "ProjectCreated" \/ projRow[e.agg] = NoRow
                 THEN emptyProjectState ELSE projRow[e.agg]
           r == [th[t] EXCEPT !.ev = e, !.pc = pc, !.goal = g, !.proj = pr]
<1>1. th[t] \in ThreadStates /\ th[t].pc = "next" /\ th[t].batch # {} /\ phase = "live"
  BY <1>a DEF ShapesOK, ThreadsOK, HandleEvent
<1>2. th[t].batch \in SUBSET Events BY <1>1 DEF ThreadStates
<1>3. e \in th[t].batch /\ e \in Events BY <1>1, <1>2, EarliestOfBatch
<1>4. \A f \in th[t].batch : e.seq <= f.seq
  <2> DEFINE T == {f.seq : f \in th[t].batch}
  <2>1. \A f \in Events : f.seq \in Nat BY DEF Events, GoalEvents, ProjectEvents
  <2>2. T \in SUBSET Nat /\ T # {} BY <1>1, <1>2, <2>1
  <2>3. PICK x \in T : \A y \in T : x <= y BY <2>2, LeastNumber
  <2>4. \E f \in th[t].batch : \A h \in th[t].batch : f.seq <= h.seq BY <2>3
  <2> QED BY <2>4 DEF Earliest
<1>5. e.agg # "goal" => e.agg \in Projects
  BY <1>3 DEF Events, GoalEvents, ProjectEvents
<1>6. g \in GoalStates BY <1>a, EnsuredTyped, IdleTyped DEF ShapesOK
<1>7. pr \in ProjectStates BY <1>5, <1>a, IdleTyped DEF ShapesOK, RowsOK
<1>8. th' = [th EXCEPT ![t] = r]
  BY <1>a DEF HandleEvent, ShapesOK, ThreadsOK
<1>b. e.agg # "goal" =>
          pr = IF e.type = "ProjectCreated" THEN emptyProjectState ELSE RowOf(e.agg)
  BY DEF RowOf
<1> HIDE DEF e, pr, g
<1>9. /\ r \in ThreadStates /\ r.pc = pc /\ r.ev = e /\ r.batch = th[t].batch
      /\ r.upTo = th[t].upTo /\ r.goal = g /\ r.proj = pr
  BY <1>1, <1>3, <1>6, <1>7 DEF ThreadStates
<1> HIDE DEF r
<1>10. th'[t] = r /\ \A u \in Threads \ {t} : Untouched(u, {})
  BY <1>a, <1>8, <1>9, SetOthers
<1>11. Handles(t)
  <2>1. Least(t)' BY <1>3, <1>4, <1>9, <1>10 DEF Least
  <2> QED BY <1>1, <1>9, <1>10, <2>1 DEF Handles
<1>12. Handling(t)
  <2>1. UNCHANGED <<cursor, phase, seeded, manual, crossed, refused, overtaken>>
    BY DEF HandleEvent
  <2> QED BY <1>1, <1>10, <1>11, <2>1 DEF Handling, Moves
<1>13. UNCHANGED <<log, goalRow, projRow, crossed, refused, overtaken, idem>>
  BY DEF HandleEvent
<1>14. th'[t].ev = e /\ th'[t].goal = g /\ th'[t].proj = pr BY <1>9, <1>10
<1> QED BY <1>3, <1>11, <1>12, <1>13, <1>14, <1>b DEF HandleEffect, g
\* The project's row is saved.
SaveProjectEffect(t) ==
    LET e == th[t].ev
        after == ProjectAfter(th[t].proj, e)
    IN  /\ Handling(t) /\ th[t].pc = "saveProject" /\ e \in ProjectEvents
        /\ after \in ProjectStates /\ th[t].proj \in ProjectStates
        /\ \A u \in Threads \ {t} : Untouched(u, {"saveProject"})
        /\ UNCHANGED <<log, goalRow, refused, overtaken, idem>>
        /\ th[t].stale => crossed'
        /\ \A q \in Projects \ {e.agg} : projRow'[q] = projRow[q]
        /\ projRow'[e.agg] = after \/ (projRow'[e.agg] = NoRow /\ crossed')
        /\ \/ /\ after.linked \/ (e.type = "ProjectGoalRemoved" /\ th[t].proj.linked)
              /\ Saves(t) /\ th'[t].pc = "saveGoal" /\ th'[t].proj = after
              /\ th'[t].goal = ensureGoalState
           \/ /\ ~after.linked /\ (e.type = "ProjectGoalRemoved" => crossed')
              /\ Serves(t) /\ th'[t].goal = emptyGoalState

\* What SaveProject does.
LEMMA SaveProjectEffects ==
    ASSUME PublishInv, NEW t \in Threads, SaveProject(t)
    PROVE  SaveProjectEffect(t)
<1>a. ShapesOK BY DEF PublishInv
<1> DEFINE e == th[t].ev
           after == ProjectAfter(th[t].proj, e)
           touches == after.linked \/ (e.type = "ProjectGoalRemoved" /\ th[t].proj.linked)
           drop == e.type = "ProjectGoalRemoved" /\ ~th[t].proj.linked
           on == [th[t] EXCEPT !.pc = "saveGoal", !.proj = after, !.goal = ensureGoalState,
                               !.stale = FALSE]
           r == IF touches THEN on ELSE Served(t)
<1>1. th[t] \in ThreadStates /\ th[t].pc = "saveProject" /\ e \in ProjectEvents
  BY <1>a DEF ShapesOK, ThreadsOK, SaveProject
<1>2. th[t].proj \in ProjectStates /\ e.agg \in Projects
  BY <1>1 DEF ThreadStates, ProjectEvents
<1>3. after \in ProjectStates BY <1>1, <1>2, ProjectAfterTyped
<1>4. ensureGoalState \in GoalStates BY <1>a, EnsuredTyped DEF ShapesOK
<1>5. th' = Outdated([th EXCEPT ![t] = r], t, {"saveProject"})
  BY <1>a DEF SaveProject, ShapesOK, ThreadsOK
<1>6. projRow' = [projRow EXCEPT ![e.agg] = IF drop THEN NoRow ELSE after]
  BY DEF SaveProject
<1>7. crossed' = (Crosses(t) \/ drop)
  BY DEF SaveProject
<1>8. UNCHANGED <<cursor, phase, seeded, manual, log, goalRow, refused, overtaken, idem>>
  BY DEF SaveProject
<1>c. /\ crossed => crossed'
      /\ th[t].stale => crossed'
      /\ drop => crossed'
      /\ t \in Streams /\ seeded => crossed'
  BY <1>7, StreamsAreThreads DEF Crosses
<1> HIDE DEF after
<1>9. /\ on \in ThreadStates /\ on.pc = "saveGoal" /\ on.ev = e /\ on.batch = th[t].batch
      /\ on.upTo = th[t].upTo /\ on.proj = after /\ on.goal = ensureGoalState
  BY <1>1, <1>3, <1>4 DEF ThreadStates
<1>d. Served(t).goal = emptyGoalState BY <1>1 DEF Served, ThreadStates
<1>10. r \in ThreadStates BY <1>a, <1>9, ServedTyped
<1>11. /\ \A q \in Projects \ {e.agg} : projRow'[q] = projRow[q]
       /\ projRow'[e.agg] = IF drop THEN NoRow ELSE after
  BY <1>a, <1>2, <1>6 DEF ShapesOK, RowsOK
<1> HIDE DEF on, drop
<1>12. th'[t] = r /\ \A u \in Threads \ {t} : Untouched(u, {"saveProject"})
  <2> HIDE DEF r
  <2> QED BY <1>a, <1>5, <1>10, OutdatedOthers
<1>13. CASE touches
  <2>1. th'[t] = on BY <1>12, <1>13
  <2>2. Saves(t) BY <1>1, <1>9, <2>1 DEF Saves
  <2>3. Handling(t)
    BY <1>8, <1>c, <1>12, <2>2, UntouchedLess DEF Handling, Moves
  <2> QED
    BY <1>1, <1>2, <1>3, <1>8, <1>9, <1>11, <1>12, <1>c, <1>13, <2>1, <2>2, <2>3
    DEF SaveProjectEffect, after
<1>14. CASE ~touches
  <2>1. th'[t] = Served(t) BY <1>12, <1>14
  <2>2. Serves(t) BY <1>1, <1>a, <2>1, ServedTyped DEF Serves
  <2>3. Handling(t)
    BY <1>8, <1>c, <1>12, <2>2, UntouchedLess DEF Handling, Moves
  <2>4. ~after.linked /\ (e.type = "ProjectGoalRemoved" => crossed')
    BY <1>14, <1>c DEF drop
  <2> QED
    BY <1>1, <1>2, <1>3, <1>8, <1>11, <1>12, <1>c, <1>d, <2>1, <2>2, <2>3, <2>4
    DEF SaveProjectEffect, after
<1> QED BY <1>13, <1>14

\* The goal's row is saved.
SaveGoalEffect(t) ==
    LET e == th[t].ev
        row == GoalAfter(th[t].goal, e, th[t].proj)
    IN  /\ Handling(t) /\ th[t].pc = "saveGoal" /\ e \in Events
        /\ th[t].proj \in ProjectStates /\ th[t].goal \in GoalStates /\ row \in GoalStates
        /\ \A u \in Threads \ {t} : Untouched(u, HoldsGoal)
        /\ UNCHANGED <<log, projRow, refused, overtaken, idem>>
        /\ th[t].stale => crossed'
        /\ goalRow' = row /\ goalRow' # NoRow
        /\ \/ /\ t \in Streams /\ e.agg # "goal"
              /\ Saves(t) /\ th'[t].pc = "ask" /\ th'[t].goal = row
           \/ /\ t = "boot" \/ e.agg = "goal"
              /\ Serves(t) /\ th'[t].goal = emptyGoalState

\* What SaveGoal does.
LEMMA SaveGoalEffects ==
    ASSUME PublishInv, NEW t \in Threads, SaveGoal(t)
    PROVE  SaveGoalEffect(t)
<1>a. ShapesOK BY DEF PublishInv
<1> DEFINE e == th[t].ev
           row == GoalAfter(th[t].goal, e, th[t].proj)
           last == t = "boot" \/ e.agg = "goal"
           on == [th[t] EXCEPT !.pc = "ask", !.goal = row]
           r == IF last THEN Served(t) ELSE on
<1>1. th[t] \in ThreadStates /\ th[t].pc = "saveGoal" /\ e \in Events
  BY <1>a DEF ShapesOK, ThreadsOK, SaveGoal, ThreadStates
<1>2. th[t].proj \in ProjectStates /\ th[t].goal \in GoalStates
  BY <1>1 DEF ThreadStates
<1>3. row \in GoalStates BY <1>1, <1>2, GoalAfterTyped
<1>5. th' = Outdated([th EXCEPT ![t] = r], t, HoldsGoal)
  BY <1>a DEF SaveGoal, ShapesOK, ThreadsOK
<1>6. goalRow' = row BY DEF SaveGoal
<1>7. crossed' = Crosses(t) BY DEF SaveGoal
<1>8. UNCHANGED <<cursor, phase, seeded, manual, log, projRow, refused, overtaken, idem>>
  BY DEF SaveGoal
<1>c. /\ crossed => crossed'
      /\ th[t].stale => crossed'
      /\ t \in Streams /\ seeded => crossed'
  BY <1>7, StreamsAreThreads DEF Crosses
<1>d. Served(t).goal = emptyGoalState BY <1>1 DEF Served, ThreadStates
<1> HIDE DEF row
<1>b. goalRow' # NoRow
  <2>1. NoRow \notin GoalStates BY DEF GoalStates, NoRow
  <2> QED BY <1>3, <1>6, <2>1
<1>9. /\ on \in ThreadStates /\ on.pc = "ask" /\ on.ev = e /\ on.batch = th[t].batch
      /\ on.upTo = th[t].upTo /\ on.goal = row
  BY <1>1, <1>3 DEF ThreadStates
<1>11. r \in ThreadStates BY <1>a, <1>9, ServedTyped
<1> HIDE DEF on
<1>12. th'[t] = r /\ \A u \in Threads \ {t} : Untouched(u, HoldsGoal)
  <2> HIDE DEF r
  <2> QED BY <1>a, <1>5, <1>11, OutdatedOthers
<1>13. CASE last
  <2>1. th'[t] = Served(t) BY <1>12, <1>13
  <2>2. Serves(t) BY <1>1, <1>a, <2>1, ServedTyped DEF Serves
  <2>3. Handling(t)
    BY <1>8, <1>c, <1>12, <2>2, UntouchedLess DEF Handling, Moves
  <2> QED
    BY <1>1, <1>2, <1>3, <1>6, <1>8, <1>b, <1>c, <1>d, <1>12, <1>13, <2>1, <2>2, <2>3
    DEF SaveGoalEffect, row
<1>14. CASE ~last
  <2>1. th'[t] = on /\ t \in Streams BY <1>12, <1>14, StreamsAreThreads
  <2>2. Saves(t) BY <1>1, <1>9, <1>14, <2>1 DEF Saves
  <2>3. Handling(t)
    BY <1>8, <1>c, <1>12, <2>2, UntouchedLess DEF Handling, Moves
  <2> QED
    BY <1>1, <1>2, <1>3, <1>6, <1>8, <1>9, <1>b, <1>c, <1>12, <1>14, <2>1, <2>2, <2>3
    DEF SaveGoalEffect, row
<1> QED BY <1>13, <1>14

\* An appended event is committed.
LEMMA AppendCommits ==
    ASSUME LogOK, NEW e \in Events, log' = Append(log, e)
    PROVE  Commits(e)
  BY AppendProperties, LenProperties DEF LogOK, Commits

\* A handler returns or throws.
Returns(t) ==
    /\ Rests(t) \/ Serves(t)
    /\ th'[t].goal = emptyGoalState
    /\ \A u \in Threads \ {t} : Untouched(u, {})
    /\ th'[t].pc \in {"idle", "next"}

\* A handler that returns or throws leaves the others alone.
LEMMA HandlerReturns ==
    ASSUME PublishInv, NEW t \in Threads, th[t].pc \in AfterGoal, HandlerDone(t) \/ Throw(t)
    PROVE  Returns(t)
<1>a. ShapesOK BY DEF PublishInv
<1>b. t = "boot" => ~seeded BY <1>a, PlacesDiffer DEF ShapesOK, ThreadsOK
<1>c. th[t].pc # "seed" BY PlacesDiffer
<1>1. CASE th' = [th EXCEPT ![t] = IdleThread]
  <2>1. th'[t] = IdleThread /\ \A u \in Threads \ {t} : Untouched(u, {})
    BY <1>a, <1>1, SetOthers, IdleTyped
  <2>2. IdleThread.goal = emptyGoalState /\ IdleThread.pc = "idle" BY DEF IdleThread
  <2> QED BY <1>b, <1>c, <2>1, <2>2 DEF Returns, Rests
<1>2. CASE th' = [th EXCEPT ![t] = Served(t)]
  <2>1. th'[t] = Served(t) /\ \A u \in Threads \ {t} : Untouched(u, {})
    BY <1>a, <1>2, SetOthers, ServedTyped
  <2>2. th[t] \in ThreadStates BY <1>a DEF ShapesOK, ThreadsOK
  <2>3. Served(t).goal = emptyGoalState BY <2>2 DEF Served, ThreadStates
  <2>4. Serves(t) BY <1>a, <2>1, ServedTyped DEF Serves
  <2> QED BY <2>1, <2>3, <2>4 DEF Returns, Serves
<1> QED BY <1>1, <1>2 DEF HandlerDone, Throw, Set

\* The saga decides and dispatches.
Writes(t) ==
    /\ th[t].pc \in {"ask", "undo"} /\ th'[t].pc \in {"dispatch", "undone"}
    /\ Goes(t) /\ log' = log
    /\ \A u \in Threads \ {t} : Untouched(u, HoldsGoal)
    /\ goalRow' \in GoalStates /\ goalRow' # NoRow
    /\ Like(goalRow', th[t].goal) /\ th'[t].goal = goalRow'
    /\ th[t].stale => crossed'
GoesOn(t) ==
    /\ goalRow' = goalRow /\ crossed' = crossed /\ log' = log
    /\ th'[t].goal = th[t].goal /\ th'[t].stale = th[t].stale
    /\ th'[t].pc \in {"undo", "unachieve"} /\ Goes(t)
    /\ th'[t].pc = "undo" => th[t].pc = "dispatch"
Ends(t) ==
    /\ goalRow' = goalRow /\ crossed' = crossed
    /\ Returns(t)
    /\ \/ log' = log
       \/ /\ ~IsArchived
          /\ \E type \in {"GoalAchieved", "GoalUnachieved"} :
                 GoalEvent(type) \in Events /\ Commits(GoalEvent(type))
AskEffect(t) ==
    /\ Handling(t) /\ th[t].pc \in AfterGoal /\ projRow' = projRow
    /\ Writes(t) \/ GoesOn(t) \/ Ends(t)

AskStep(t) ==
    \/ AskNothing(t) \/ AskInVain(t) \/ RequestAchievement(t) \/ AskUnachievement(t)
    \/ DispatchAchieve(t) \/ FailAchieve(t) \/ UndoRequest(t) \/ Undone(t)
    \/ DispatchUnachieve(t) \/ UnachieveThrows(t)

\* The request is written over the thread's own copy.
LEMMA WriteEffects ==
    ASSUME PublishInv, NEW t \in Threads, NEW b \in BOOLEAN, NEW pc \in {"dispatch", "undone"},
           th[t].pc \in {"ask", "undo"}, log' = log,
           WriteGoal(t, [th[t].goal EXCEPT !.requested = b], pc)
    PROVE  /\ Writes(t) /\ th'[t].pc = pc
           /\ crossed => crossed'
<1>a. ShapesOK BY DEF PublishInv
<1>1. th[t] \in ThreadStates BY <1>a DEF ShapesOK, ThreadsOK
<1>2. th[t].goal \in GoalStates BY <1>1 DEF ThreadStates
<1> DEFINE row == [th[t].goal EXCEPT !.requested = b]
           r == [th[t] EXCEPT !.pc = pc, !.goal = row]
<1>3. row \in GoalStates /\ row # NoRow /\ Like(row, th[t].goal) BY <1>2, RequestLike
<1>4. [th EXCEPT ![t].pc = pc, ![t].goal = row] = [th EXCEPT ![t] = r]
  BY <1>a DEF ShapesOK, ThreadsOK
<1>5. /\ th' = Outdated([th EXCEPT ![t] = r], t, HoldsGoal) /\ goalRow' = row
      /\ crossed' = Crosses(t)
  BY <1>4 DEF WriteGoal
<1> HIDE DEF row
<1>6. /\ r \in ThreadStates /\ r.pc = pc /\ r.ev = th[t].ev /\ r.batch = th[t].batch
      /\ r.upTo = th[t].upTo /\ r.goal = row
  BY <1>1, <1>3 DEF ThreadStates
<1> HIDE DEF r
<1>7. th'[t] = r /\ \A u \in Threads \ {t} : Untouched(u, HoldsGoal)
  BY <1>a, <1>5, <1>6, OutdatedOthers
<1>8. Goes(t) BY <1>6, <1>7, PlacesDiffer DEF Goes
<1>9. (crossed => crossed') /\ (th[t].stale => crossed') BY <1>5 DEF Crosses
<1> QED BY <1>3, <1>5, <1>6, <1>7, <1>8, <1>9 DEF Writes

\* The thread goes on and writes nothing.
LEMMA GotoEffects ==
    ASSUME PublishInv, NEW t \in Threads,
           NEW pc \in {"undo", "unachieve"}, NEW b \in BOOLEAN,
           th' = [th EXCEPT ![t].pc = pc, ![t].throws = b] \/ Goto(t, pc),
           th[t].pc \in AfterGoal, pc = "undo" => th[t].pc = "dispatch",
           UNCHANGED <<log, goalRow, crossed>>
    PROVE  /\ GoesOn(t) /\ th'[t].pc = pc
           /\ \A u \in Threads \ {t} : Untouched(u, {})
<1>a. ShapesOK BY DEF PublishInv
<1>1. th[t] \in ThreadStates BY <1>a DEF ShapesOK, ThreadsOK
<1>2. PICK r \in ThreadStates :
         /\ th' = [th EXCEPT ![t] = r] /\ r.pc = pc /\ r.ev = th[t].ev
         /\ r.batch = th[t].batch /\ r.upTo = th[t].upTo
         /\ r.goal = th[t].goal /\ r.stale = th[t].stale
  <2>1. CASE th' = [th EXCEPT ![t].pc = pc, ![t].throws = b]
    <3> DEFINE r == [th[t] EXCEPT !.pc = pc, !.throws = b]
    <3>1. /\ r \in ThreadStates /\ r.pc = pc /\ r.ev = th[t].ev /\ r.batch = th[t].batch
          /\ r.upTo = th[t].upTo /\ r.goal = th[t].goal /\ r.stale = th[t].stale
      BY <1>1 DEF ThreadStates
    <3>2. th' = [th EXCEPT ![t] = r] BY <1>a, <2>1 DEF ShapesOK, ThreadsOK
    <3> QED BY <3>1, <3>2
  <2>2. CASE Goto(t, pc)
    <3> DEFINE r == [th[t] EXCEPT !.pc = pc]
    <3>1. /\ r \in ThreadStates /\ r.pc = pc /\ r.ev = th[t].ev /\ r.batch = th[t].batch
          /\ r.upTo = th[t].upTo /\ r.goal = th[t].goal /\ r.stale = th[t].stale
      BY <1>1 DEF ThreadStates
    <3>2. th' = [th EXCEPT ![t] = r] BY <1>a, <2>2 DEF ShapesOK, ThreadsOK, Goto
    <3> QED BY <3>1, <3>2
  <2> QED BY <2>1, <2>2
<1>3. th'[t] = r /\ \A u \in Threads \ {t} : Untouched(u, {}) BY <1>a, <1>2, SetOthers
<1>4. Goes(t) BY <1>2, <1>3, PlacesDiffer DEF Goes
<1> QED BY <1>2, <1>3, <1>4 DEF GoesOn

\* What the saga does after it saved the goal's row.
LEMMA AskEffects ==
    ASSUME PublishInv, NEW t \in Threads, AskStep(t)
    PROVE  AskEffect(t)
<1>a. LogOK BY DEF PublishInv, ShapesOK
<1> SUFFICES /\ th[t].pc \in AfterGoal
             /\ UNCHANGED <<cursor, phase, seeded, manual, projRow>>
             /\ crossed => crossed'
             /\ refused => refused'
             /\ overtaken => overtaken'
             /\ Writes(t) \/ (GoesOn(t) /\ \A u \in Threads \ {t} : Untouched(u, {})) \/ Ends(t)
  <2>1. Moves(t) /\ \A u \in Threads \ {t} : Untouched(u, {})
    BY UntouchedLess DEF Writes, GoesOn, Ends, Returns, Moves
  <2>2. th[t].pc \notin {"saveProject", "saveGoal"} BY PlacesDiffer
  <2> QED BY <2>1, <2>2 DEF AskEffect, Handling
<1>1. CASE AskNothing(t)
  <2>1. th[t].pc \in AfterGoal BY <1>1, PlacesDiffer DEF AskNothing
  <2>2. Returns(t) BY <1>1, <2>1, HandlerReturns DEF AskNothing
  <2> QED BY <1>1, <2>1, <2>2 DEF AskNothing, Ends
<1>2. CASE AskInVain(t)
  <2>1. th[t].pc \in AfterGoal BY <1>2, PlacesDiffer DEF AskInVain, MayAsk
  <2>2. Returns(t) BY <1>2, <2>1, HandlerReturns DEF AskInVain
  <2> QED BY <1>2, <2>1, <2>2 DEF AskInVain, Ends
<1>3. CASE RequestAchievement(t)
  <2>1. th[t].pc \in AfterGoal BY <1>3, PlacesDiffer DEF RequestAchievement, MayAsk
  <2>2. Writes(t) /\ (crossed => crossed')
    BY <1>3, WriteEffects DEF RequestAchievement, MayAsk
  <2> QED BY <1>3, <2>1, <2>2 DEF RequestAchievement
<1>4. CASE AskUnachievement(t)
  <2>1. th[t].pc \in AfterGoal BY <1>4, PlacesDiffer DEF AskUnachievement, MayAsk
  <2>2. GoesOn(t) /\ \A u \in Threads \ {t} : Untouched(u, {})
    BY <1>4, <2>1, GotoEffects DEF AskUnachievement
  <2> QED BY <1>4, <2>1, <2>2 DEF AskUnachievement
<1>5. CASE DispatchAchieve(t)
  <2>0. th[t].pc = "dispatch" /\ UNCHANGED <<goalRow, crossed>> BY <1>5 DEF DispatchAchieve
  <2>1. th[t].pc \in AfterGoal BY <2>0, PlacesDiffer
  <2>b. UNCHANGED <<cursor, phase, seeded, manual, projRow>> /\ (overtaken => overtaken')
    BY <1>5 DEF DispatchAchieve
  <2>2. CASE HandlerDone(t) /\ UNCHANGED <<log, wake, idem, refused>>
    <3>1. Returns(t) BY <2>1, <2>2, HandlerReturns
    <3> QED BY <2>0, <2>1, <2>b, <2>2, <3>1 DEF Ends
  <2>3. CASE Goto(t, "undo") /\ refused' = TRUE /\ UNCHANGED <<log, wake, idem, served>>
    <3>1. GoesOn(t) /\ \A u \in Threads \ {t} : Untouched(u, {})
      BY <2>0, <2>1, <2>3, GotoEffects
    <3> QED BY <2>0, <2>1, <2>b, <2>3, <3>1
  <2>4. CASE /\ th' = [th EXCEPT ![t].pc = "undo", ![t].throws = TRUE]
             /\ UNCHANGED <<log, wake, idem, refused, served>>
    <3>1. GoesOn(t) /\ \A u \in Threads \ {t} : Untouched(u, {})
      BY <2>0, <2>1, <2>4, GotoEffects
    <3> QED BY <2>0, <2>1, <2>b, <2>4, <3>1
  <2>5. CASE /\ Commit(GoalEvent("GoalAchieved")) /\ refused' = refused /\ HandlerDone(t)
             /\ ~IsArchived
    <3>1. Returns(t) BY <2>1, <2>5, HandlerReturns
    <3>2. GoalEvent("GoalAchieved") \in Events BY <1>a, GoalEventOK
    <3>3. Commits(GoalEvent("GoalAchieved")) BY <1>a, <2>5, <3>2, AppendCommits DEF Commit
    <3> QED BY <2>0, <2>1, <2>b, <2>5, <3>1, <3>2, <3>3 DEF Ends
  <2> QED BY <1>5, <2>2, <2>3, <2>4, <2>5 DEF DispatchAchieve
<1>6. CASE FailAchieve(t)
  <2>1. th[t].pc \in AfterGoal /\ th[t].pc = "dispatch" BY <1>6, PlacesDiffer DEF FailAchieve
  <2>2. GoesOn(t) /\ \A u \in Threads \ {t} : Untouched(u, {})
    BY <1>6, <2>1, GotoEffects DEF FailAchieve
  <2> QED BY <1>6, <2>1, <2>2 DEF FailAchieve
<1>7. CASE UndoRequest(t)
  <2>1. th[t].pc \in AfterGoal BY <1>7, PlacesDiffer DEF UndoRequest
  <2>2. Writes(t) /\ (crossed => crossed') BY <1>7, WriteEffects DEF UndoRequest
  <2> QED BY <1>7, <2>1, <2>2 DEF UndoRequest
<1>8. CASE Undone(t)
  <2>1. th[t].pc \in AfterGoal BY <1>8, PlacesDiffer DEF Undone
  <2>2. Returns(t) BY <1>8, <2>1, HandlerReturns DEF Undone
  <2> QED BY <1>8, <2>1, <2>2 DEF Undone, Ends
<1>9. CASE DispatchUnachieve(t)
  <2>1. th[t].pc \in AfterGoal BY <1>9, PlacesDiffer DEF DispatchUnachieve
  <2>2. Returns(t) BY <1>9, <2>1, HandlerReturns DEF DispatchUnachieve
  <2>b. /\ UNCHANGED <<cursor, phase, seeded, manual, projRow, goalRow, crossed>>
        /\ overtaken => overtaken'
    BY <1>9 DEF DispatchUnachieve
  <2>3. CASE log' = log /\ (refused => refused') BY <2>1, <2>2, <2>3, <2>b DEF Ends
  <2>4. CASE Commit(GoalEvent("GoalUnachieved")) /\ refused' = refused /\ ~IsArchived
    <3>2. GoalEvent("GoalUnachieved") \in Events BY <1>a, GoalEventOK
    <3>3. Commits(GoalEvent("GoalUnachieved")) BY <1>a, <2>4, <3>2, AppendCommits DEF Commit
    <3> QED BY <2>1, <2>2, <2>b, <2>4, <3>2, <3>3 DEF Ends
  <2> QED BY <1>9, <2>3, <2>4 DEF DispatchUnachieve
<1>10. CASE UnachieveThrows(t)
  <2>1. th[t].pc \in AfterGoal BY <1>10, PlacesDiffer DEF UnachieveThrows
  <2>2. Returns(t) BY <1>10, <2>1, HandlerReturns DEF UnachieveThrows
  <2> QED BY <1>10, <2>1, <2>2 DEF UnachieveThrows, Ends
<1> QED BY <1>1, <1>2, <1>3, <1>4, <1>5, <1>6, <1>7, <1>8, <1>9, <1>10 DEF AskStep

-----------------------------------------------------------------------------
(* The steps of the handlers keep the batches *)

\* A stream stands within the log.
LEMMA CursorBound ==
    ASSUME PublishInv, phase # "down", NEW s \in Streams
    PROVE  cursor[s] \in Nat /\ cursor[s] <= Len(log)
  BY DEF PublishInv, ShapesOK, TabOK, RowsOK

\* An event that is committed waits for its stream.
LEMMA NewWaits ==
    ASSUME PublishInv, BatchInv, phase # "down", cursor' = cursor, NEW s \in Streams,
           th'[s].pc = "idle" \/ th'[s].upTo = th[s].upTo,
           NEW A \in {AfterGoal, AfterProject}, NEW j \in Nat, Len(log) < j
    PROVE  Waits(A, s, j)'
<1>1. cursor[s] \in Nat /\ cursor[s] <= Len(log) /\ s \in Threads /\ Len(log) \in Nat
  BY CursorBound, StreamsAreThreads, LogTyped DEF PublishInv, ShapesOK
<1>2. th[s].upTo \in Nat /\ th[s].upTo <= Len(log)
  BY <1>1 DEF BatchInv, ThreadHolds, PublishInv, ShapesOK, ThreadsOK, ThreadStates
<1> QED BY <1>1, <1>2 DEF Waits

\* Events that bootstrap has not read still wait for their stream.
LEMMA BehindNext ==
    ASSUME PublishInv, BatchInv, PublishInv', LogKept, seeded' = seeded,
           crossed => crossed', seeded => th'["boot"].upTo = th["boot"].upTo,
           ASSUME NEW A \in {AfterGoal, AfterProject}, NEW s \in Streams, NEW j \in 1..Len(log'),
                  phase # "down", Len(log) < j
           PROVE  Waits(A, s, j)',
           ASSUME ~crossed', seeded, NEW A \in {AfterGoal, AfterProject},
                  NEW s \in Streams, NEW j \in 1..Len(log), CanRead(log[j]), Stream(log[j]) = s,
                  A = AfterProject => log[j].agg # "goal", Waits(A, s, j)
           PROVE  Waits(A, s, j)'
    PROVE  Behind'
<1> SUFFICES ASSUME seeded, ~crossed', NEW i \in 1..Len(log'),
                    th'["boot"].upTo < i, CanRead(log'[i])
             PROVE  /\ Waits(AfterGoal, Stream(log[i]), i)'
                    /\ log'[i].agg # "goal" => Waits(AfterProject, Stream(log[i]), i)'
  BY DEF Behind
<1>1. PICK s \in Streams : s = Stream(log'[i]) BY StreamOfEvent
<1>2. ~crossed OBVIOUS
<1>3. phase # "down" /\ Len(log) \in Nat /\ i \in Nat
  BY PlacesDiffer, StreamsAreThreads, LogTyped DEF PublishInv, ShapesOK, ThreadsOK, LogKept
<1>4. CASE i \in 1..Len(log)
  <2>1. CanRead(log[i]) /\ Stream(log[i]) = s /\ log'[i].agg = log[i].agg
    BY <1>1, <1>4, KeptRead DEF LogKept
  <2>2. Waits(AfterGoal, s, i) /\ (log[i].agg # "goal" => Waits(AfterProject, s, i))
    BY <1>2, <1>4, <2>1 DEF BatchInv, Behind
  <2>3. AfterGoal \in {AfterGoal, AfterProject} /\ AfterProject \in {AfterGoal, AfterProject}
    OBVIOUS
  <2>a. "saveGoal" \in AfterProject /\ "saveGoal" \notin AfterGoal BY PlacesDiffer
  <2>b. AfterGoal # AfterProject BY <2>a
  <2>4. Waits(AfterGoal, s, i)'
    BY <1>4, <2>1, <2>2, <2>3, <2>b
  <2>5. log'[i].agg # "goal" => Waits(AfterProject, s, i)'
    BY <1>4, <2>1, <2>2, <2>3
  <2> QED BY <1>1, <2>4, <2>5
<1>5. CASE Len(log) < i
  <2>0. AfterGoal \in {AfterGoal, AfterProject} /\ AfterProject \in {AfterGoal, AfterProject}
    OBVIOUS
  <2>1. Waits(AfterGoal, s, i)' /\ Waits(AfterProject, s, i)' BY <1>3, <1>5, <2>0
  <2> QED BY <1>1, <2>1
<1> QED BY <1>3, <1>4, <1>5

\* The steps of the handlers keep the batches.
LEMMA HandlingHolds ==
    ASSUME PublishInv, BatchInv, Sane(log), PublishInv', LogKept, NEW t \in Threads,
           Handling(t)
    PROVE  BatchInv'
<1>a. LogOK' BY DEF PublishInv, ShapesOK
<1>1. ASSUME NEW u \in Threads PROVE ThreadHolds(u)'
  <2>1. CASE u = t BY <1>a, <2>1, MovesHolds DEF Handling
  <2>2. CASE u # t
    <3>1. SameThread(u) BY <2>2 DEF Handling, Untouched
    <3> QED BY <1>a, <3>1, ThreadSame DEF BatchInv, Handling
  <2> QED BY <2>1, <2>2
<1>2. ASSUME NEW u \in Threads, th'[u].pc # "idle" PROVE th'[u].upTo = th[u].upTo
  BY <1>2 DEF Handling, Untouched, SameThread, Moves, Rests, Goes, Serves, Saves, Handles,
              IdleThread
<1>3. ASSUME ~crossed', seeded, NEW A \in {AfterGoal, AfterProject},
             NEW s \in Streams, NEW j \in 1..Len(log), CanRead(log[j]), Stream(log[j]) = s,
             A = AfterProject => log[j].agg # "goal", Waits(A, s, j)
      PROVE  Waits(A, s, j)'
  <2>1. t = s => ~Loses(A, t, j) BY <1>3 DEF Loses, Handling
  <2>2. \A u \in Threads \ {t} : SameThread(u) BY DEF Handling, Untouched
  <2> QED BY <1>3, <2>1, <2>2, WaitsStays DEF Handling
<1>4. seeded => th'["boot"].pc # "idle"
  BY PlacesDiffer DEF PublishInv, ShapesOK, ThreadsOK, Handling
<1>5. Behind'
  <2>1. UNCHANGED <<cursor, seeded>> /\ (crossed => crossed') BY DEF Handling
  <2>2. seeded => th'["boot"].upTo = th["boot"].upTo BY <1>2, <1>4, StreamsAreThreads
  <2>3. ASSUME NEW A \in {AfterGoal, AfterProject}, NEW s \in Streams, NEW j \in 1..Len(log'),
               phase # "down", Len(log) < j
        PROVE  Waits(A, s, j)'
    BY <1>2, <2>1, <2>3, NewWaits, StreamsAreThreads DEF LogKept
  <2> QED BY <1>3, <2>1, <2>2, <2>3, BehindNext
<1> QED BY <1>1, <1>5 DEF BatchInv

\* What a step of a handler leaves to be handled.
PendKept(t) ==
    /\ \A j \in PendG : ~Loses(AfterGoal, t, j) => j \in PendG'
    /\ \A j \in PendP : log[j].agg # "goal" /\ ~Loses(AfterProject, t, j) => j \in PendP'

\* An outstanding event stays so, unless its row was saved.
LEMMA OpenStays ==
    ASSUME PublishInv, BatchInv, Sane(log), LogKept, NEW t \in Threads, Handling(t),
           NEW A \in {AfterGoal, AfterProject}, NEW j \in 1..Len(log), CanRead(log[j]),
           A = AfterProject => log[j].agg # "goal", Open(A, j), ~Loses(A, t, j)
    PROVE  j \in 1..Len(log') /\ CanRead(log'[j]) /\ Open(A, j)'
<1>1. j \in 1..Len(log') /\ CanRead(log'[j]) /\ Stream(log'[j]) = Stream(log[j])
  BY KeptRead
<1>2. \A u \in Threads \ {t} : SameThread(u) BY DEF Handling, Untouched
<1>3. CASE th["boot"].pc = "seed"
  <2>1. t # "boot"
    BY <1>3, PlacesDiffer
    DEF Handling, Moves, Rests, Goes, Serves, Saves, Handles
  <2> QED BY <1>1, <1>2, <1>3, <2>1, StreamsAreThreads DEF Open, SameThread
<1>4. CASE Holds(A, "boot", j)
  <2>1. CASE t = "boot"
    <3>1. Holds(A, "boot", j)' BY <1>4, <2>1, HoldsStays, StreamsAreThreads DEF Handling
    <3> QED BY <1>1, <3>1 DEF Open
  <2>2. CASE t # "boot"
    <3>1. Holds(A, "boot", j)' BY <1>2, <1>4, <2>2, HoldsSame, StreamsAreThreads
    <3> QED BY <1>1, <3>1 DEF Open
  <2> QED BY <2>1, <2>2
<1>5. CASE Waits(A, Stream(log[j]), j)
  <2>1. PICK s \in Streams : s = Stream(log[j]) BY StreamOfEvent
  <2>2. Waits(A, s, j)' BY <1>2, <1>5, <2>1, WaitsStays DEF Handling
  <2>3. Waits(A, Stream(log[j]), j)' BY <1>1, <2>1, <2>2
  <2> QED BY <1>1, <2>3 DEF Open
<1> QED BY <1>3, <1>4, <1>5 DEF Open

\* The same, for the sets of outstanding events.
LEMMA HandlingPends ==
    ASSUME PublishInv, BatchInv, Sane(log), LogKept, NEW t \in Threads, Handling(t)
    PROVE  PendKept(t)
<1>1. ASSUME NEW j \in PendG, ~Loses(AfterGoal, t, j) PROVE j \in PendG'
  <2>1. j \in 1..Len(log) /\ CanRead(log[j]) /\ Open(AfterGoal, j) BY DEF PendG, Pend
  <2>2. j \in 1..Len(log') /\ CanRead(log'[j]) /\ Open(AfterGoal, j)'
    BY <1>1, <2>1, OpenStays, PlacesDiffer
  <2> QED BY <2>2 DEF PendG, Pend
<1>2. ASSUME NEW j \in PendP, log[j].agg # "goal", ~Loses(AfterProject, t, j)
      PROVE  j \in PendP'
  <2>1. j \in 1..Len(log) /\ CanRead(log[j]) /\ Open(AfterProject, j) BY DEF PendP, Pend
  <2>2. j \in 1..Len(log') /\ CanRead(log'[j]) /\ Open(AfterProject, j)'
    BY <1>2, <2>1, OpenStays
  <2> QED BY <2>2 DEF PendP, Pend
<1> QED BY <1>1, <1>2 DEF PendKept

\* A committed event is to be handled.
LEMMA NewPends ==
    ASSUME PublishInv, BatchInv, phase # "down", cursor' = cursor, NEW x, Commits(x),
           CanRead(x), \A s \in Streams : th'[s].pc = "idle" \/ th'[s].upTo = th[s].upTo
    PROVE  Len(log) + 1 \in PendG' /\ Len(log) + 1 \in PendP'
<1>1. Len(log) \in Nat BY LogTyped DEF PublishInv, ShapesOK
<1>2. PICK n \in Nat : n = Len(log) + 1 BY <1>1
<1>3. n \in 1..Len(log') /\ log'[n] = x /\ CanRead(log'[n]) BY <1>1, <1>2 DEF Commits
<1>4. PICK s \in Streams : s = Stream(log'[n]) BY StreamOfEvent
<1>5. Waits(AfterGoal, s, n)' /\ Waits(AfterProject, s, n)' BY <1>1, <1>2, NewWaits
<1>6. Open(AfterGoal, n)' /\ Open(AfterProject, n)' BY <1>4, <1>5 DEF Open
<1> QED BY <1>2, <1>3, <1>6 DEF PendG, PendP, Pend

-----------------------------------------------------------------------------
(* The other steps keep the batches *)

\* Everything that was to be handled still is.
PendAll == (\A j \in PendG : j \in PendG') /\ (\A j \in PendP : j \in PendP')
\* Everything is to be handled.
PendFull == \A i \in 1..Len(log') : CanRead(log'[i]) => i \in PendP' /\ i \in PendG'

\* Outstanding events that stay open stay outstanding.
LEMMA OpenPends ==
    ASSUME LogKept,
           ASSUME NEW A \in {AfterGoal, AfterProject}, NEW j \in 1..Len(log), CanRead(log[j]),
                  Open(A, j)
           PROVE  Open(A, j)'
    PROVE  PendAll
<1>0. AfterGoal \in {AfterGoal, AfterProject} /\ AfterProject \in {AfterGoal, AfterProject}
  OBVIOUS
<1>1. ASSUME NEW j \in PendG PROVE j \in PendG'
  <2>1. j \in 1..Len(log) /\ CanRead(log[j]) /\ Open(AfterGoal, j) BY DEF PendG, Pend
  <2>2. j \in 1..Len(log') /\ CanRead(log'[j]) BY <2>1, KeptRead
  <2>3. Open(AfterGoal, j)' BY <1>0, <2>1
  <2> QED BY <2>2, <2>3 DEF PendG, Pend
<1>2. ASSUME NEW j \in PendP PROVE j \in PendP'
  <2>1. j \in 1..Len(log) /\ CanRead(log[j]) /\ Open(AfterProject, j) BY DEF PendP, Pend
  <2>2. j \in 1..Len(log') /\ CanRead(log'[j]) BY <2>1, KeptRead
  <2>3. Open(AfterProject, j)' BY <1>0, <2>1
  <2> QED BY <2>2, <2>3 DEF PendP, Pend
<1> QED BY <1>1, <1>2 DEF PendAll

\* When every readable event is open, every one is outstanding.
LEMMA OpenFull ==
    ASSUME ASSUME NEW A \in {AfterGoal, AfterProject}, NEW j \in 1..Len(log'), CanRead(log'[j])
           PROVE  Open(A, j)'
    PROVE  PendFull
<1>0. AfterGoal \in {AfterGoal, AfterProject} /\ AfterProject \in {AfterGoal, AfterProject}
  OBVIOUS
<1> SUFFICES ASSUME NEW j \in 1..Len(log'), CanRead(log'[j]) PROVE j \in PendP' /\ j \in PendG'
  BY DEF PendFull
<1>1. Open(AfterGoal, j)' /\ Open(AfterProject, j)' BY <1>0
<1> QED BY <1>1 DEF PendG, PendP, Pend

\* No thread moves.
LEMMA StillHolds ==
    ASSUME PublishInv, BatchInv, PublishInv', LogKept, \A u \in Threads : SameThread(u),
           UNCHANGED <<cursor, phase, seeded>>, crossed => crossed'
    PROVE  BatchInv' /\ PendAll
<1>a. LogOK' BY DEF PublishInv, ShapesOK
<1>1. \A u \in Threads : ThreadHolds(u)' BY <1>a, ThreadSame DEF BatchInv
<1>2. ASSUME NEW A \in {AfterGoal, AfterProject}, NEW s \in Streams, NEW j, Waits(A, s, j)
      PROVE  Waits(A, s, j)'
  <2>1. SameThread(s) BY StreamsAreThreads
  <2>2. Holds(A, s, j)' <=> Holds(A, s, j) BY <2>1, HoldsSame
  <2> QED BY <1>2, <2>1, <2>2 DEF Waits, SameThread
<1>3. Behind'
  <2>1. ASSUME NEW A \in {AfterGoal, AfterProject}, NEW s \in Streams, NEW j \in 1..Len(log'),
               phase # "down", Len(log) < j
        PROVE  Waits(A, s, j)'
    BY <2>1, NewWaits, StreamsAreThreads DEF LogKept, SameThread
  <2>2. th'["boot"].upTo = th["boot"].upTo BY StreamsAreThreads DEF SameThread
  <2> QED BY <1>2, <2>1, <2>2, BehindNext
<1>4. PendAll
  <2>1. ASSUME NEW A \in {AfterGoal, AfterProject}, NEW j \in 1..Len(log), CanRead(log[j]),
               Open(A, j)
        PROVE  Open(A, j)'
    <3>1. SameThread("boot") BY StreamsAreThreads
    <3>2. Holds(A, "boot", j)' <=> Holds(A, "boot", j) BY <3>1, HoldsSame
    <3>3. PICK s \in Streams : s = Stream(log[j]) /\ s = Stream(log'[j])
      BY StreamOfEvent, KeptRead
    <3>4. Waits(A, s, j) => Waits(A, s, j)' BY <1>2
    <3> QED BY <2>1, <3>1, <3>2, <3>3, <3>4 DEF Open, SameThread
  <2> QED BY <2>1, OpenPends
<1> QED BY <1>1, <1>3, <1>4 DEF BatchInv

\* A step of the publisher, or the end of the replay, moves one thread.
LEMMA OneHolds ==
    ASSUME PublishInv, BatchInv, PublishInv', log' = log, NEW t \in Threads,
           \A u \in Threads \ {t} : SameThread(u) /\ (u \in Streams => cursor'[u] = cursor[u]),
           phase' = phase, crossed => crossed', ThreadHolds(t)',
           t # "boot" => seeded' = seeded, t = "boot" => ~seeded',
           ASSUME NEW A \in {AfterGoal, AfterProject}, NEW j \in 1..Len(log), CanRead(log[j]),
                  t \in Streams, Stream(log[j]) = t, Waits(A, t, j)
           PROVE  Waits(A, t, j)',
           t = "boot" => th[t].batch = {} /\ th[t].pc # "seed"
    PROVE  BatchInv' /\ PendAll
<1>a. LogOK' /\ LogKept BY KeptStays DEF PublishInv, ShapesOK
<1>1. ASSUME NEW u \in Threads PROVE ThreadHolds(u)'
  <2>1. CASE u = t BY <2>1
  <2>2. CASE u # t
    <3>1. PlaceOK(u)' BY <2>2 DEF PlaceOK, SameThread, ThreadHolds, BatchInv
    <3>2. /\ th'[u].upTo = th[u].upTo /\ th'[u].batch = th[u].batch
          /\ u \in Streams => cursor'[u] = cursor[u]
      BY <2>2 DEF SameThread
    <3>3. ThreadHolds(u) BY DEF BatchInv
    <3> QED BY <3>1, <3>2, <3>3 DEF ThreadHolds, Same, InBatch
  <2> QED BY <2>1, <2>2
<1>2. ASSUME NEW A \in {AfterGoal, AfterProject}, NEW s \in Streams, NEW j \in 1..Len(log),
             CanRead(log[j]), Stream(log[j]) = s, Waits(A, s, j)
      PROVE  Waits(A, s, j)'
  <2>1. CASE s = t BY <1>2, <2>1
  <2>2. CASE s # t
    <3>1. SameThread(s) /\ cursor'[s] = cursor[s] BY <2>2, StreamsAreThreads
    <3>2. Holds(A, s, j)' <=> Holds(A, s, j) BY <3>1, HoldsSame
    <3> QED BY <1>2, <3>1, <3>2 DEF Waits, SameThread
  <2> QED BY <2>1, <2>2
<1>3. Behind'
  <2>1. CASE t = "boot" BY <2>1 DEF Behind
  <2>2. CASE t # "boot"
    <3>1. ASSUME NEW A \in {AfterGoal, AfterProject}, NEW s \in Streams, NEW j \in 1..Len(log'),
                 phase # "down", Len(log) < j
          PROVE  Waits(A, s, j)'
      BY <3>1, <1>a DEF LogKept
    <3>2. th'["boot"].upTo = th["boot"].upTo BY <2>2, StreamsAreThreads DEF SameThread
    <3> QED BY <1>a, <1>2, <2>2, <3>1, <3>2, BehindNext
  <2> QED BY <2>1, <2>2
<1>4. PendAll
  <2>1. ASSUME NEW A \in {AfterGoal, AfterProject}, NEW j \in 1..Len(log), CanRead(log[j]),
               Open(A, j)
        PROVE  Open(A, j)'
    <3>1. CASE Waits(A, Stream(log[j]), j)
      <4>1. PICK s \in Streams : s = Stream(log[j]) BY StreamOfEvent
      <4>2. Waits(A, s, j)' BY <1>2, <2>1, <3>1, <4>1
      <4> QED BY <4>1, <4>2 DEF Open
    <3>2. CASE th["boot"].pc = "seed" \/ Holds(A, "boot", j)
      <4>1. t # "boot" BY <3>2 DEF Holds, InBatch
      <4>2. SameThread("boot") BY <4>1, StreamsAreThreads
      <4>3. Holds(A, "boot", j)' <=> Holds(A, "boot", j) BY <4>2, HoldsSame
      <4> QED BY <3>2, <4>2, <4>3 DEF Open, SameThread
    <3> QED BY <2>1, <3>1, <3>2 DEF Open
  <2> QED BY <1>a, <2>1, OpenPends
<1> QED BY <1>1, <1>3, <1>4 DEF BatchInv

\* A step of the publisher: nothing but the batch changes.
PublisherEffect(s) ==
    /\ UNCHANGED <<log, phase, seeded, goalRow, projRow, crossed, refused, overtaken,
                   manual, idem>>
    /\ \A u \in Threads \ {s} : Untouched(u, {})
    /\ th[s].pc \in {"idle", "next"} /\ th'[s].pc \in {"idle", "next"}
    /\ th'[s].goal \in {th[s].goal, emptyGoalState}
    /\ BatchInv' /\ (phase = "live" => PendAll)

\* A stream reads its batch: what it read is outstanding as before.
LEMMA ReadEffects ==
    ASSUME PublishInv, BatchInv, PublishInv', NEW s \in Streams, ReadBatch(s)
    PROVE  PublisherEffect(s)
<1>a. ShapesOK /\ LogOK /\ LogOK' BY DEF PublishInv, ShapesOK
<1>c. /\ UNCHANGED <<log, phase, seeded, goalRow, projRow, crossed, refused, overtaken>>
      /\ UNCHANGED <<manual, idem, cursor>>
      /\ th[s].pc = "idle" /\ phase # "down" /\ s \in Threads /\ s # "boot"
  BY StreamsAreThreads DEF ReadBatch
<1>d. Len(log) \in Nat /\ cursor[s] \in Nat BY <1>a, <1>c, LogTyped, CursorBound
<1>1. CASE Fetched(s) = {}
  <2>1. th' = th BY <1>1 DEF ReadBatch
  <2>2. \A u \in Threads : Untouched(u, {}) /\ SameThread(u) BY <2>1 DEF Untouched, SameThread
  <2>3. BatchInv' /\ PendAll BY <1>a, <1>c, <2>2, StillHolds, KeptStays
  <2> QED BY <1>c, <2>1, <2>2, <2>3 DEF PublisherEffect
<1>2. CASE Fetched(s) # {}
  <2> DEFINE B == {log[i] : i \in {j \in Fetched(s) : CanRead(log[j])}}
             r == [IdleThread EXCEPT !.pc = "next", !.upTo = LastOf(Fetched(s)), !.batch = B]
  <2>1. th' = [th EXCEPT ![s] = r] BY <1>2 DEF ReadBatch, Set
  <2>2. Fetched(s) \in SUBSET (1..Len(log)) BY DEF Fetched
  <2>3. /\ LastOf(Fetched(s)) \in Fetched(s) /\ LastOf(Fetched(s)) \in 1..Len(log)
        /\ \A i \in Fetched(s) : i <= LastOf(Fetched(s))
    BY <1>2, <1>d, <2>2, LastPosition
  <2>4. \A i \in 1..Len(log) : log[i] \in Events /\ log[i].seq = i BY <1>a, LogTyped
  <2>5. B \in SUBSET Events BY <2>2, <2>4
  <2>6. /\ r \in ThreadStates /\ r.pc = "next" /\ r.upTo = LastOf(Fetched(s))
        /\ r.batch = B /\ r.goal = emptyGoalState
    <3>1. LastOf(Fetched(s)) \in Nat BY <1>d, <2>3
    <3>2. IdleThread \in ThreadStates /\ IdleThread.goal = emptyGoalState
      BY IdleTyped DEF IdleThread
    <3> HIDE DEF B
    <3> QED BY <2>5, <3>1, <3>2 DEF ThreadStates
  <2> HIDE DEF r
  <2>7. th'[s] = r /\ \A u \in Threads \ {s} : Untouched(u, {})
    BY <1>a, <1>c, <2>1, <2>6, SetOthers
  <2>8. \A e \in B : /\ e.seq \in 1..Len(log) /\ e = log[e.seq] /\ CanRead(e) /\ Stream(e) = s
                     /\ cursor[s] < e.seq
    BY <2>4 DEF Fetched
  <2>9. \A i \in Fetched(s) : CanRead(log[i]) => log[i] \in B /\ log[i].seq = i
    BY <2>2, <2>4
  <2>b. LastOf(Fetched(s)) > cursor[s] BY <2>3 DEF Fetched
  <2> HIDE DEF B
  <2>c. /\ th'[s].batch = B /\ th'[s].pc = "next" /\ th'[s].upTo = LastOf(Fetched(s))
        /\ th'[s].goal = emptyGoalState
    BY <2>6, <2>7
  <2>10. ThreadHolds(s)'
    <3>1. PlaceOK(s)'
      BY <1>c, <1>d, <2>3, <2>b, <2>c, PlacesDiffer DEF PlaceOK
    <3>2. th'[s].upTo <= Len(log') BY <1>c, <1>d, <2>3, <2>c
    <3>3. ASSUME NEW e \in th'[s].batch
          PROVE  Same(e, e.seq)' /\ (s \in Streams => Stream(e) = s /\ cursor'[s] < e.seq)
      BY <1>c, <2>8, <2>c DEF Same
    <3>4. ASSUME NEW i \in 1..Len(log'), Stream(log'[i]) = s, CanRead(log'[i]),
                 NEW e \in th'[s].batch, e.seq < i
          PROVE  InBatch(s, i)'
      <4>1. e.seq \in 1..Len(log) /\ cursor[s] < e.seq BY <2>8, <2>c
      <4>2. i \in Fetched(s) BY <1>c, <1>d, <3>4, <4>1 DEF Fetched
      <4>3. log[i] \in th'[s].batch /\ log[i].seq = i BY <1>c, <2>9, <2>c, <3>4, <4>2
      <4> QED BY <4>3 DEF InBatch
    <3> QED BY <3>1, <3>2, <3>3, <3>4 DEF ThreadHolds
  <2>11. ASSUME NEW A \in {AfterGoal, AfterProject}, NEW j \in 1..Len(log), CanRead(log[j]),
                s \in Streams, Stream(log[j]) = s, Waits(A, s, j)
         PROVE  Waits(A, s, j)'
    <3>1. cursor[s] < j BY <2>11 DEF Waits
    <3>2. j \in Fetched(s) BY <2>11, <3>1 DEF Fetched
    <3>3. log[j] \in th'[s].batch /\ log[j].seq = j BY <2>9, <2>c, <2>11, <3>2
    <3>4. Holds(A, s, j)' BY <2>c, <3>3, PlacesDiffer DEF Holds, InBatch
    <3> QED BY <1>c, <3>1, <3>4 DEF Waits
  <2>12. BatchInv' /\ PendAll
    <3>1. \A u \in Threads \ {s} : SameThread(u) /\ (u \in Streams => cursor'[u] = cursor[u])
      BY <1>c, <2>7 DEF Untouched
    <3> QED BY <1>c, <2>10, <2>11, <3>1, OneHolds
  <2> QED BY <1>c, <2>7, <2>c, <2>12 DEF PublisherEffect
<1> QED BY <1>1, <1>2

\* A deferred batch changes nothing here.
LEMMA DeferEffects ==
    ASSUME PublishInv, BatchInv, PublishInv', NEW s \in Streams, DeferBatch(s)
    PROVE  PublisherEffect(s)
<1>a. LogOK BY DEF PublishInv, ShapesOK
<1>1. /\ UNCHANGED <<log, phase, seeded, goalRow, projRow, crossed, refused, overtaken>>
      /\ UNCHANGED <<manual, idem, cursor, th>> /\ th[s].pc = "idle"
  BY DEF DeferBatch
<1>2. \A u \in Threads : Untouched(u, {}) /\ SameThread(u) BY <1>1 DEF Untouched, SameThread
<1>3. BatchInv' /\ PendAll BY <1>a, <1>1, <1>2, StillHolds, KeptStays
<1> QED BY <1>1, <1>2, <1>3 DEF PublisherEffect

\* A saved position has nothing outstanding before it.
LEMMA SaveEffects ==
    ASSUME PublishInv, BatchInv, PublishInv', NEW s \in Streams, SavePosition(s)
    PROVE  PublisherEffect(s)
<1>a. ShapesOK /\ LogOK' BY DEF PublishInv, ShapesOK
<1>1. /\ UNCHANGED <<log, phase, seeded, goalRow, projRow, crossed, refused, overtaken>>
      /\ UNCHANGED <<manual, idem>> /\ th[s].pc = "next" /\ th[s].batch = {}
      /\ cursor' = [cursor EXCEPT ![s] = th[s].upTo] /\ th' = [th EXCEPT ![s] = IdleThread]
      /\ s \in Threads /\ s # "boot"
  BY StreamsAreThreads DEF SavePosition, Set
<1>2. th'[s] = IdleThread /\ \A u \in Threads \ {s} : Untouched(u, {})
  BY <1>a, <1>1, SetOthers, IdleTyped
<1>3. IdleThread.pc = "idle" /\ IdleThread.goal = emptyGoalState BY DEF IdleThread
<1>4. cursor \in [Streams -> Nat] BY <1>a DEF ShapesOK, TabOK
<1>5. ThreadHolds(s)' BY <1>a, <1>1, <1>2, IdleHolds
<1>6. ASSUME NEW A \in {AfterGoal, AfterProject}, NEW j \in 1..Len(log), Waits(A, s, j)
      PROVE  Waits(A, s, j)'
  <2>1. th[s].upTo < j BY <1>1, <1>6 DEF Waits, Holds, InBatch
  <2> QED BY <1>1, <1>2, <1>3, <1>4, <2>1 DEF Waits
<1>7. \A u \in Threads \ {s} : SameThread(u) /\ (u \in Streams => cursor'[u] = cursor[u])
  BY <1>1, <1>2, <1>4 DEF Untouched
<1>8. BatchInv' /\ PendAll BY <1>1, <1>5, <1>6, <1>7, OneHolds
<1> QED BY <1>1, <1>2, <1>3, <1>8 DEF PublisherEffect

\* Events published before the saga subscribes are lost to it, and bootstrap reads
\* them.
LEMMA NobodyEffects ==
    ASSUME PublishInv, BatchInv, PublishInv', NEW s \in Streams, PublishToNobody(s)
    PROVE  PublisherEffect(s)
<1>a. ShapesOK /\ LogOK /\ LogOK' BY DEF PublishInv, ShapesOK
<1>1. /\ UNCHANGED <<log, phase, seeded, goalRow, projRow, crossed, refused, overtaken>>
      /\ UNCHANGED <<manual, idem, cursor>> /\ th[s].pc = "next" /\ phase = "starting"
      /\ th' = [th EXCEPT ![s].batch = {}]
      /\ s \in Threads /\ s # "boot"
  BY StreamsAreThreads DEF PublishToNobody, Set
<1> DEFINE r == [th[s] EXCEPT !.batch = {}]
<1>2. th[s] \in ThreadStates BY <1>a, <1>1 DEF ShapesOK, ThreadsOK
<1>3. r \in ThreadStates /\ r.pc = "next" /\ r.upTo = th[s].upTo /\ r.goal = th[s].goal
      /\ r.batch = {}
  BY <1>2, <1>1 DEF ThreadStates
<1>4. th' = [th EXCEPT ![s] = r] BY <1>a, <1>1 DEF ShapesOK, ThreadsOK
<1> HIDE DEF r
<1>5. th'[s] = r /\ \A u \in Threads \ {s} : Untouched(u, {})
  BY <1>a, <1>1, <1>3, <1>4, SetOthers
<1>6. LogKept BY <1>a, <1>1, KeptStays
<1>7. ASSUME NEW u \in Threads PROVE ThreadHolds(u)'
  <2>1. ThreadHolds(u) BY DEF BatchInv
  <2>2. CASE u = s
    <3>1. PlaceOK(s)'
      BY <1>1, <1>3, <1>5, <2>1, <2>2, PlacesDiffer DEF PlaceOK, ThreadHolds
    <3> QED BY <1>a, <1>1, <1>3, <1>5, <1>6, <2>1, <2>2, <3>1, ThreadKept
  <2>3. CASE u # s
    <3>1. SameThread(u) BY <1>5, <2>3 DEF Untouched
    <3> QED BY <1>a, <1>1, <1>6, <2>1, <3>1, ThreadSame
  <2> QED BY <2>2, <2>3
<1>8. ~seeded'
  <2>1. th["boot"].pc = "idle" BY <1>a, <1>1, StreamsAreThreads DEF ShapesOK, ThreadsOK
  <2> QED BY <1>a, <1>1, <2>1 DEF ShapesOK, ThreadsOK
<1>9. BatchInv' BY <1>7, <1>8 DEF BatchInv, Behind
<1> QED BY <1>1, <1>3, <1>5, <1>9 DEF PublisherEffect

\* The tab is opened or closed.
LEMMA StartHolds ==
    ASSUME PublishInv, BatchInv, PublishInv', StartPublisher
    PROVE  BatchInv'
<1>a. ShapesOK /\ LogOK /\ LogOK' BY DEF PublishInv, ShapesOK
<1>1. phase = "down" /\ UNCHANGED <<log, th, seeded>> BY DEF StartPublisher
<1>2. ASSUME NEW u \in Threads PROVE ThreadHolds(u)'
  <2>1. th[u].pc = "idle" BY <1>a, <1>1 DEF ShapesOK, ThreadsOK
  <2>2. ThreadHolds(u) /\ th[u].batch = {} BY <2>1 DEF BatchInv, ThreadHolds, PlaceOK
  <2>3. PlaceOK(u)' BY <1>1, <2>1, <2>2, PlacesDiffer DEF PlaceOK
  <2> QED BY <1>1, <2>2, <2>3 DEF ThreadHolds
<1>3. ~seeded'
  <2>1. th["boot"].pc = "idle" BY <1>a, <1>1, StreamsAreThreads DEF ShapesOK, ThreadsOK
  <2> QED BY <1>a, <1>1, <2>1 DEF ShapesOK, ThreadsOK
<1> QED BY <1>2, <1>3 DEF BatchInv, Behind

\* A closed tab holds nothing.
LEMMA CrashHolds ==
    ASSUME PublishInv, BatchInv, PublishInv', Crash
    PROVE  BatchInv'
<1>1. LogOK' BY DEF PublishInv, ShapesOK
<1>2. \A u \in Threads : th'[u] = IdleThread BY DEF Crash
<1>3. seeded' = FALSE BY DEF Crash
<1> QED BY <1>1, <1>2, <1>3, IdleHolds DEF BatchInv, Behind

\* bootstrap() reads everything.
LEMMA SeedEffects ==
    ASSUME PublishInv, BatchInv, PublishInv', ReadSeed, phase' = "live",
           UNCHANGED <<log, cursor>>
    PROVE  /\ BatchInv' /\ PendFull /\ \A u \in Threads \ {"boot"} : Untouched(u, {})
           /\ th'["boot"].pc = "next" /\ th'["boot"].goal = emptyGoalState
           /\ \A i \in 1..Len(log) : CanRead(log[i]) => InBatch("boot", i)'
<1>a. ShapesOK /\ LogOK /\ LogOK' BY DEF PublishInv, ShapesOK
<1> DEFINE r == [IdleThread EXCEPT !.pc = "next", !.batch = Seed, !.upTo = Len(log)]
<1>1. Len(log) \in Nat /\ \A i \in 1..Len(log) : log[i] \in Events /\ log[i].seq = i
  BY <1>a, LogTyped
<1>2. Seed \in SUBSET Events BY <1>1 DEF Seed
<1>3. /\ r \in ThreadStates /\ r.pc = "next" /\ r.batch = Seed /\ r.upTo = Len(log)
      /\ r.goal = emptyGoalState
  <2>1. IdleThread \in ThreadStates /\ IdleThread.goal = emptyGoalState
    BY IdleTyped DEF IdleThread
  <2> QED BY <1>1, <1>2, <2>1 DEF ThreadStates
<1>4. th' = [th EXCEPT !["boot"] = r] BY DEF ReadSeed
<1> HIDE DEF r
<1>5. th'["boot"] = r /\ \A u \in Threads \ {"boot"} : Untouched(u, {})
  BY <1>a, <1>3, <1>4, SetOthers, StreamsAreThreads
<1>6. \A e \in Seed : e.seq \in 1..Len(log) /\ e = log[e.seq] /\ CanRead(e) BY <1>1 DEF Seed
<1>7. \A i \in 1..Len(log) : CanRead(log[i]) => log[i] \in Seed /\ log[i].seq = i
  BY <1>1 DEF Seed
<1>8. \A i \in 1..Len(log) : CanRead(log[i]) => InBatch("boot", i)'
  BY <1>3, <1>5, <1>7 DEF InBatch
<1>9. ThreadHolds("boot")'
  <2>1. PlaceOK("boot")'
    BY <1>3, <1>5, PlacesDiffer, StreamsAreThreads DEF PlaceOK
  <2>2. \A e \in th'["boot"].batch : Same(e, e.seq)' BY <1>3, <1>5, <1>6 DEF Same
  <2>3. th'["boot"].upTo <= Len(log') BY <1>1, <1>3, <1>5
  <2> QED BY <1>8, <2>1, <2>2, <2>3, StreamsAreThreads DEF ThreadHolds
<1>10. ASSUME NEW u \in Threads PROVE ThreadHolds(u)'
  <2>1. CASE u = "boot" BY <1>9, <2>1
  <2>2. CASE u # "boot"
    <3>1. ThreadHolds(u) /\ SameThread(u) BY <1>5, <2>2 DEF BatchInv, Untouched
    <3>2. PlaceOK(u)' BY <2>2, <3>1 DEF PlaceOK, SameThread, ThreadHolds
    <3> QED BY <3>1, <3>2 DEF ThreadHolds, Same, InBatch, SameThread
  <2> QED BY <2>1, <2>2
<1>11. Behind'
  <2>1. \A i \in 1..Len(log') : ~(th'["boot"].upTo < i) BY <1>1, <1>3, <1>5
  <2> QED BY <2>1 DEF Behind
<1>12. PendFull
  <2>1. ASSUME NEW A \in {AfterGoal, AfterProject}, NEW j \in 1..Len(log'), CanRead(log'[j])
        PROVE  Open(A, j)'
    <3>1. InBatch("boot", j)' BY <1>8, <2>1
    <3>2. Holds(A, "boot", j)' BY <1>3, <1>5, <3>1, PlacesDiffer DEF Holds
    <3> QED BY <3>2 DEF Open
  <2> QED BY <2>1, OpenFull
<1> QED BY <1>3, <1>5, <1>8, <1>10, <1>11, <1>12 DEF BatchInv

\* bootstrap() has replayed everything.
LEMMA EndReplayEffects ==
    ASSUME PublishInv, BatchInv, PublishInv', EndReplay
    PROVE  /\ BatchInv' /\ PendAll /\ \A u \in Threads \ {"boot"} : Untouched(u, {})
           /\ UNCHANGED <<log, phase, goalRow, projRow, crossed, refused, overtaken, manual>>
           /\ seeded' = FALSE /\ th["boot"].pc = "next" /\ th["boot"].batch = {}
           /\ th'["boot"].batch = {}
           /\ \/ /\ goalRow # NoRow /\ th'["boot"].pc = "ask" /\ th'["boot"].goal = goalRow
              \/ /\ goalRow = NoRow /\ th'["boot"].pc = "idle"
                 /\ th'["boot"].goal = emptyGoalState
<1>a. ShapesOK /\ LogOK /\ LogOK' BY DEF PublishInv, ShapesOK
<1>b. /\ UNCHANGED <<log, phase, goalRow, projRow, crossed, refused, overtaken, manual, cursor>>
      /\ seeded' = FALSE /\ th["boot"].pc = "next" /\ th["boot"].batch = {}
      /\ phase = "live"
  BY <1>a, StreamsAreThreads DEF EndReplay, ShapesOK, ThreadsOK
<1> DEFINE r == IF goalRow = NoRow THEN IdleThread
                ELSE [IdleThread EXCEPT !.pc = "ask", !.goal = goalRow]
<1>1. th' = [th EXCEPT !["boot"] = r] BY DEF EndReplay, Set
<1>c. IdleThread \in ThreadStates /\ goalRow \in GoalStates \cup {NoRow}
  BY <1>a, IdleTyped DEF ShapesOK, RowsOK
<1>2. /\ r \in ThreadStates /\ r.batch = {} /\ r.ev = NoEvent /\ r.upTo = 0
      /\ goalRow = NoRow => r.pc = "idle" /\ r.goal = emptyGoalState
      /\ goalRow # NoRow => r.pc = "ask" /\ r.goal = goalRow
  <2>1. CASE goalRow = NoRow BY <1>c, <2>1 DEF IdleThread
  <2>2. CASE goalRow # NoRow
    <3>1. /\ r \in ThreadStates /\ r.batch = IdleThread.batch /\ r.ev = IdleThread.ev
          /\ r.upTo = IdleThread.upTo /\ r.pc = "ask" /\ r.goal = goalRow
      BY <1>c, <2>2 DEF ThreadStates
    <3> HIDE DEF r
    <3> QED BY <2>2, <3>1 DEF IdleThread
  <2> QED BY <2>1, <2>2
<1> HIDE DEF r
<1>3. th'["boot"] = r /\ \A u \in Threads \ {"boot"} : Untouched(u, {})
  BY <1>a, <1>1, <1>2, SetOthers, StreamsAreThreads
<1>4. ThreadHolds("boot")'
  <2>1. PlaceOK("boot")'
    BY <1>b, <1>2, <1>3, PlacesDiffer, StreamsAreThreads DEF PlaceOK
  <2>2. th'["boot"].upTo <= Len(log') BY <1>a, <1>2, <1>3, LogTyped, <1>b
  <2> QED BY <1>2, <1>3, <2>1, <2>2 DEF ThreadHolds
<1>5. \A u \in Threads \ {"boot"} : SameThread(u) /\ (u \in Streams => cursor'[u] = cursor[u])
  BY <1>b, <1>3 DEF Untouched
<1>6. BatchInv' /\ PendAll BY <1>b, <1>4, <1>5, OneHolds, StreamsAreThreads
<1> QED BY <1>b, <1>2, <1>3, <1>6

-----------------------------------------------------------------------------
(* What the domain commits *)

\* What one more event must be like.
Fits(x) ==
    /\ x.agg = "goal" => x.version > 0
    /\ x.agg # "goal" =>
           /\ x.type = "ProjectGoalAdded" => x.linked
           /\ x.type = "ProjectGoalRemoved" => ~x.linked
           /\ x.type \in {"ProjectCreated", "ProjectStatusTransitioned"}
              => x.status # NoProject
           /\ x.type = "ProjectCreated" <=> ~Exists(x.agg)
           /\ \A j \in Of(x.agg) : log[j].readable = x.readable

\* One fitting event more, and versions counted up, keep the log sane.
LEMMA SaneGrows ==
    ASSUME LogOK, Sane(log), LogKept, NEW x, Len(log') = Len(log) + 1,
           log'[Len(log) + 1] = x, Fits(x),
           \A j \in 1..Len(log) : log[j].agg = "goal" => log'[j].version > 0
    PROVE  Sane(log)'
<1>1. Len(log) \in Nat BY LogTyped
<1>2. \A j \in 1..Len(log) : log'[j].agg = log[j].agg /\ (log[j].agg # "goal" => log'[j] = log[j])
  BY KeptRead DEF LogKept
<1> SUFFICES ASSUME NEW i \in 1..Len(log')
             PROVE  /\ log'[i].agg = "goal" => log'[i].version > 0
                    /\ log'[i].agg # "goal" =>
                       /\ log'[i].type = "ProjectGoalAdded" => log'[i].linked
                       /\ log'[i].type = "ProjectGoalRemoved" => ~log'[i].linked
                       /\ log'[i].type \in {"ProjectCreated", "ProjectStatusTransitioned"}
                          => log'[i].status # NoProject
                       /\ log'[i].type = "ProjectCreated"
                          <=> \A j \in 1..(i - 1) : log'[j].agg # log'[i].agg
                       /\ \A j \in 1..Len(log') :
                              log'[j].agg = log'[i].agg => log'[j].readable = log'[i].readable
  BY DEF Sane
<1>3. CASE log'[i].agg = "goal"
  <2>1. CASE i \in 1..Len(log) BY <1>2, <1>3, <2>1
  <2>2. CASE i = Len(log) + 1 BY <1>3, <2>2 DEF Fits
  <2> QED BY <1>1, <1>3, <2>1, <2>2
<1>4. CASE i \in 1..Len(log) /\ log'[i].agg # "goal"
  <2>1. log'[i] = log[i] /\ log[i].agg # "goal" BY <1>2, <1>4
  <2>2. /\ log[i].type = "ProjectGoalAdded" => log[i].linked
        /\ log[i].type = "ProjectGoalRemoved" => ~log[i].linked
        /\ log[i].type \in {"ProjectCreated", "ProjectStatusTransitioned"}
           => log[i].status # NoProject
        /\ log[i].type = "ProjectCreated" <=> \A j \in 1..(i - 1) : log[j].agg # log[i].agg
        /\ \A j \in 1..Len(log) : log[j].agg = log[i].agg => log[j].readable = log[i].readable
    BY <1>4, <2>1 DEF Sane
  <2>3. \A j \in 1..(i - 1) : log'[j].agg = log[j].agg BY <1>1, <1>2, <1>4
  <2>4. ASSUME NEW j \in 1..Len(log'), log'[j].agg = log'[i].agg
        PROVE  log'[j].readable = log'[i].readable
    <3>1. CASE j \in 1..Len(log)
      <4>1. log'[j] = log[j] BY <1>2, <1>4, <2>4, <3>1
      <4> QED BY <2>1, <2>2, <2>4, <3>1, <4>1
    <3>2. CASE j = Len(log) + 1
      <4>1. i \in Of(x.agg) /\ x.agg # "goal" BY <1>4, <2>1, <2>4, <3>2 DEF Of
      <4> QED BY <2>1, <3>2, <4>1 DEF Fits
    <3> QED BY <1>1, <3>1, <3>2
  <2> QED BY <1>4, <2>1, <2>2, <2>3, <2>4
<1>5. CASE i = Len(log) + 1 /\ log'[i].agg # "goal"
  <2>1. log'[i] = x /\ x.agg # "goal" BY <1>5
  <2>2. (\A j \in 1..(i - 1) : log'[j].agg # x.agg) <=> ~Exists(x.agg)
    <3>1. 1..(i - 1) = 1..Len(log) BY <1>1, <1>5
    <3> QED BY <1>2, <3>1 DEF Exists, Of
  <2>3. ASSUME NEW j \in 1..Len(log'), log'[j].agg = x.agg
        PROVE  log'[j].readable = x.readable
    <3>1. CASE j \in 1..Len(log)
      <4>1. log'[j] = log[j] /\ j \in Of(x.agg) BY <1>2, <2>1, <2>3, <3>1 DEF Of
      <4> QED BY <2>1, <4>1 DEF Fits
    <3>2. CASE j = Len(log) + 1 BY <2>1, <3>2, <1>5
    <3> QED BY <1>1, <3>1, <3>2
  <2> QED BY <2>1, <2>2, <2>3 DEF Fits
<1> QED BY <1>1, <1>3, <1>4, <1>5

\* A fitting event keeps the log sane.
LEMMA SaneCommits ==
    ASSUME LogOK, Sane(log), NEW x, Commits(x), Fits(x)
    PROVE  Sane(log)' /\ LogKept
<1>1. LogKept BY KeptCommits
<1>2. \A j \in 1..Len(log) : log[j].agg = "goal" => log'[j].version > 0
  BY DEF Commits, Sane
<1> QED BY <1>1, <1>2, SaneGrows DEF Commits

\* The goal has a version.
LEMMA GoalVersionPositive ==
    ASSUME LogOK, Sane(log)
    PROVE  GoalVersion \in Nat /\ GoalVersion > 0
<1>1. PICK i \in Of("goal") : GoalVersion = log[i].version BY GreatestVersion
<1>2. i \in 1..Len(log) /\ log[i].agg = "goal" BY DEF Of
<1> QED BY <1>1, <1>2, GreatestVersion DEF Sane

\* What the saga and the users commit for the goal fits.
LEMMA GoalEventFits ==
    ASSUME LogOK, Sane(log), NEW type
    PROVE  Fits(GoalEvent(type)) /\ GoalEvent(type).agg = "goal" /\ CanRead(GoalEvent(type))
           /\ GoalEvent(type).type = type
  BY GoalVersionPositive DEF Fits, GoalEvent, CanRead

\* A rebase counts the last event of the goal up and adds one.
RebaseEffect ==
    /\ LogKept /\ Sane(log)' /\ Len(log') = Len(log) + 1
    /\ \A u \in Threads \ {"boot"} : Untouched(u, HoldsGoal \cup {"saveProject"})
    /\ BatchInv' /\ PendFull
    /\ th["boot"].pc = "idle" /\ th'["boot"].pc = "seed" /\ th'["boot"].goal = th["boot"].goal
    /\ goalRow' = NoRow /\ \A p \in Projects : projRow'[p] = NoRow
    /\ phase' = "live" /\ ~seeded'

\* What Rebase does.
LEMMA RebaseEffects ==
    ASSUME PublishInv, BatchInv, Sane(log), PublishInv', Rebase
    PROVE  RebaseEffect
<1>a. ShapesOK /\ LogOK /\ LogOK' BY DEF PublishInv, ShapesOK
<1>b. Len(log) \in Nat BY <1>a, LogTyped
<1> DEFINE i == LastOf(Of("goal"))
           m == [log EXCEPT ![i].version = @ + 1]
           e == [GoalEvent("GoalRefined") EXCEPT !.version = GoalVersion]
<1>1. i \in Of("goal") /\ i \in 1..Len(log) /\ log[i].agg = "goal"
  <2>1. 1 \in Of("goal") /\ Of("goal") \in SUBSET (1..Len(log))
    BY <1>a, <1>b DEF LogOK, Of
  <2>2. i \in Of("goal") BY <1>b, <2>1, LastPosition
  <2> QED BY <2>2 DEF Of
<1>2. log' = Append(m, e) BY DEF Rebase
<1>3. /\ e.agg = "goal" /\ e.version > 0 /\ e \in Events
  <2>1. /\ GoalVersion \in Nat /\ GoalVersion > 0 /\ GoalVersion + 1 \in Nat
        /\ Len(log) + 1 \in Nat
    BY <1>a, <1>b, GoalVersionPositive
  <2> QED BY <2>1 DEF GoalEvent, Events, GoalEvents
<1>4. /\ m \in Seq(Events) /\ Len(m) = Len(log)
      /\ \A j \in 1..Len(log) : j # i => m[j] = log[j]
      /\ m[i].agg = "goal" /\ m[i].type = log[i].type /\ m[i].seq = log[i].seq
      /\ m[i].version > 0 /\ log[i].version > 0
  <2> HIDE DEF i
  <2>1. log[i] \in GoalEvents /\ log[i].version > 0 BY <1>a, <1>1, LogTyped DEF Sane
  <2> DEFINE x == [log[i] EXCEPT !.version = @ + 1]
  <2>2. x \in GoalEvents /\ x.agg = log[i].agg /\ x.seq = log[i].seq /\ x.type = log[i].type
        /\ x.version > 0
    BY <2>1 DEF GoalEvents
  <2>3. m = [log EXCEPT ![i] = x] BY <1>a, <1>1 DEF LogOK
  <2> HIDE DEF x, m
  <2>4. x \in Events BY <2>2 DEF Events
  <2>5. /\ m \in Seq(Events) /\ Len(m) = Len(log)
        /\ \A j \in 1..Len(log) : m[j] = IF j = i THEN x ELSE log[j]
    BY <1>a, <1>1, <2>3, <2>4, ExceptSeq DEF LogOK
  <2> QED BY <1>1, <2>1, <2>2, <2>5
<1> HIDE DEF m, e, i
<1>5. /\ Len(log') = Len(log) + 1
      /\ \A j \in 1..Len(log) : log'[j] = m[j]
      /\ log'[Len(log) + 1] = e
  BY <1>2, <1>3, <1>4, AppendProperties
<1>6. LogKept
  <2>1. Len(log') \in Nat /\ Len(log) <= Len(log') BY <1>b, <1>5
  <2>2. ASSUME NEW j \in 1..Len(log)
        PROVE  /\ log'[j].agg = log[j].agg /\ log'[j].type = log[j].type
               /\ log'[j].seq = log[j].seq
               /\ \/ log'[j] = log[j]
                  \/ /\ log[j].agg = "goal" /\ log[j].version > 0
                     /\ \E k \in 1..Len(log') : j < k /\ log'[k].agg = "goal"
    <3>1. CASE j # i BY <1>4, <1>5, <3>1
    <3>2. CASE j = i
      <4>1. Len(log) + 1 \in 1..Len(log') /\ i < Len(log) + 1 BY <1>b, <1>1, <1>5
      <4> QED BY <1>1, <1>3, <1>4, <1>5, <3>2, <4>1
    <3> QED BY <3>1, <3>2
  <2> QED BY <1>b, <2>1, <2>2 DEF LogKept
<1>7. Sane(log)'
  <2>1. \A j \in 1..Len(log) : log[j].agg = "goal" => log'[j].version > 0
    BY <1>1, <1>4, <1>5 DEF Sane
  <2>2. Fits(e) BY <1>3 DEF Fits
  <2> QED BY <1>a, <1>5, <1>6, <2>1, <2>2, SaneGrows
<1>8. /\ UNCHANGED <<cursor, phase, seeded>> /\ phase = "live" /\ th["boot"].pc = "idle"
      /\ goalRow' = NoRow /\ projRow' = [p \in Projects |-> NoRow]
      /\ th' = Outdated([th EXCEPT !["boot"].pc = "seed"], "boot",
                        HoldsGoal \cup {"saveProject"})
  BY DEF Rebase
<1> DEFINE r == [th["boot"] EXCEPT !.pc = "seed"]
<1>11. ~seeded /\ th["boot"].batch = {} /\ th["boot"] \in ThreadStates
  BY <1>a, <1>8, StreamsAreThreads DEF ShapesOK, ThreadsOK
<1>12. /\ r \in ThreadStates /\ r.pc = "seed" /\ r.batch = {} /\ r.upTo = th["boot"].upTo
       /\ r.goal = th["boot"].goal
  BY <1>11 DEF ThreadStates
<1>13. [th EXCEPT !["boot"].pc = "seed"] = [th EXCEPT !["boot"] = r]
  BY <1>a DEF ShapesOK, ThreadsOK
<1> HIDE DEF r
<1>14. /\ th'["boot"] = r
       /\ \A u \in Threads \ {"boot"} : Untouched(u, HoldsGoal \cup {"saveProject"})
  BY <1>a, <1>8, <1>12, <1>13, OutdatedOthers, StreamsAreThreads
<1>15. ASSUME NEW u \in Threads PROVE ThreadHolds(u)'
  <2>1. ThreadHolds(u) BY DEF BatchInv
  <2>2. CASE u = "boot"
    <3>1. PlaceOK(u)'
      BY <1>8, <1>12, <1>14, <2>2, PlacesDiffer, StreamsAreThreads DEF PlaceOK
    <3> QED BY <1>a, <1>6, <1>8, <1>11, <1>12, <1>14, <2>1, <2>2, <3>1, ThreadKept
  <2>3. CASE u # "boot"
    <3>1. SameThread(u) BY <1>14, <2>3 DEF Untouched
    <3> QED BY <1>a, <1>6, <1>8, <2>1, <3>1, ThreadSame
  <2> QED BY <2>2, <2>3
<1>16. BatchInv' BY <1>8, <1>11, <1>15 DEF BatchInv, Behind
<1>17. PendFull
  <2>1. ASSUME NEW A \in {AfterGoal, AfterProject}, NEW j \in 1..Len(log'), CanRead(log'[j])
        PROVE  Open(A, j)'
    BY <1>12, <1>14 DEF Open
  <2> QED BY <2>1, OpenFull
<1> QED BY <1>5, <1>6, <1>7, <1>8, <1>11, <1>12, <1>14, <1>16, <1>17 DEF RebaseEffect

\* A user, or another device, adds an event.
UserEffect ==
    /\ UNCHANGED <<cursor, phase, goalRow, projRow, idem, seeded, th, crossed, refused,
                   overtaken>>
    /\ manual => manual'
    /\ \E x \in Events : Commits(x) /\ Fits(x) /\ (x.type = "GoalUnachieved" => manual')

\* What users and other devices do.
LEMMA UserEffects ==
    ASSUME PublishInv, Sane(log), UserNext
    PROVE  UserEffect
<1>a. LogOK BY DEF PublishInv, ShapesOK
<1>1. ASSUME NEW x \in Events, UserEvent(x), Fits(x), manual => manual',
             x.type = "GoalUnachieved" => manual'
      PROVE  UserEffect
  <2>1. Commits(x) BY <1>a, <1>1, AppendCommits DEF UserEvent, Commit
  <2>2. UNCHANGED <<cursor, phase, goalRow, projRow, idem, seeded, th, crossed, refused,
                    overtaken>>
    BY <1>1 DEF UserEvent
  <2> QED BY <1>1, <2>1, <2>2 DEF UserEffect
<1>2. ASSUME NEW p \in Projects, NEW linked \in BOOLEAN, NEW readable \in BOOLEAN,
             NEW s \in {"planned", "completed"}, CreateProject(p, linked, s, readable)
      PROVE  UserEffect
  <2> DEFINE x == ProjectEvent(p, "ProjectCreated", linked, s, readable)
  <2>1. x \in Events BY <1>a, ProjectEventOK
  <2>2. UserEvent(x) /\ manual' = manual /\ ~Exists(p) BY <1>2 DEF CreateProject
  <2>3. /\ x.agg = p /\ x.type = "ProjectCreated" /\ x.linked = linked /\ x.status = s
        /\ x.readable = readable
    BY DEF ProjectEvent
  <2> HIDE DEF x
  <2>4. Fits(x) BY <2>2, <2>3, ReactionConstants DEF Fits, NoProject, Exists
  <2> QED BY <1>1, <2>1, <2>2, <2>3, <2>4
<1>3. ASSUME NEW p \in Projects, NEW linked \in BOOLEAN,
             NEW s \in {"planned", "completed", NoProject},
             NEW type \in {"ProjectStatusTransitioned", "ProjectGoalAdded",
                           "ProjectGoalRemoved"},
             type = "ProjectStatusTransitioned" => s # NoProject,
             type = "ProjectGoalAdded" => linked, type = "ProjectGoalRemoved" => ~linked,
             Exists(p), manual' = manual,
             UserEvent(ProjectEvent(p, type, linked, s, Readable(p)))
      PROVE  UserEffect
  <2> DEFINE x == ProjectEvent(p, type, linked, s, Readable(p))
  <2>0. Readable(p) \in BOOLEAN BY DEF Readable
  <2>1. x \in Events BY <1>a, <2>0, ProjectEventOK
  <2>3. /\ x.agg = p /\ x.type = type /\ x.linked = linked /\ x.status = s
        /\ x.readable = Readable(p)
    BY DEF ProjectEvent
  <2>b. UserEvent(x) BY <1>3
  <2> HIDE DEF x
  <2>4. ASSUME NEW j \in Of(p) PROVE log[j].readable = Readable(p)
    <3>1. log[j].readable <=> Readable(p) BY <1>a, ReadableOf
    <3>2. j \in 1..Len(log) /\ log[j].agg = p BY DEF Of
    <3>3. log[j].readable \in BOOLEAN
      BY <1>a, <3>2, LogTyped, ReactionConstants DEF ProjectEvents
    <3> QED BY <2>0, <3>1, <3>3
  <2>5. Fits(x) BY <1>3, <2>3, <2>4, ReactionConstants DEF Fits
  <2> QED BY <1>1, <1>3, <2>1, <2>3, <2>b, <2>5
<1>4. ASSUME NEW type \in {"GoalRefined", "GoalArchived", "GoalUnachieved"},
             UserEvent(GoalEvent(type)), manual => manual', type = "GoalUnachieved" => manual'
      PROVE  UserEffect
  <2>1. GoalEvent(type) \in Events BY <1>a, GoalEventOK
  <2>2. Fits(GoalEvent(type)) /\ GoalEvent(type).type = type BY <1>a, GoalEventFits
  <2> QED BY <1>1, <1>4, <2>1, <2>2
<1>5. ASSUME NEW p \in Projects, NEW s \in {"planned", "completed"}, TransitionStatus(p, s)
      PROVE  UserEffect
  <2>1. s # NoProject BY DEF NoProject
  <2> QED BY <1>3, <1>5, <2>1 DEF TransitionStatus
<1>6. ASSUME NEW p \in Projects, LinkGoal(p) PROVE UserEffect
  BY <1>3, <1>6 DEF LinkGoal
<1>7. ASSUME NEW p \in Projects, UnlinkGoal(p) PROVE UserEffect
  BY <1>3, <1>7 DEF UnlinkGoal
<1>8. CASE EditGoal BY <1>4, <1>8 DEF EditGoal
<1>9. CASE ArchiveGoal BY <1>4, <1>9 DEF ArchiveGoal
<1>10. CASE UnachieveByUser BY <1>4, <1>10 DEF UnachieveByUser
<1> QED BY <1>2, <1>5, <1>6, <1>7, <1>8, <1>9, <1>10 DEF UserNext

-----------------------------------------------------------------------------
(* What the rows say was once so *)

OnceKept ==
    /\ \A p \in Projects : OnceLinked(p) => OnceLinked(p)'
    /\ \A p \in Projects : OnceCompleted(p) => OnceCompleted(p)'
    /\ IsArchived => IsArchived'
    /\ OnceAchieved => OnceAchieved'

\* What once was in the log stays in the log.
LEMMA OnceStays ==
    ASSUME LogOK, LogKept
    PROVE  OnceKept
<1>1. \A a : \A i \in Of(a) : i \in Of(a)' /\ log'[i].type = log[i].type
  BY KeptRead DEF Of, LogKept
<1>2. \A p \in Projects : \A i \in Of(p) : log'[i] = log[i]
  BY KeptRead, ReactionConstants DEF Of
<1>3. ASSUME NEW p \in Projects PROVE OnceLinked(p) => OnceLinked(p)'
  <2>1. \A i \in Linking(p) : i \in Linking(p)' /\ log'[i] = log[i]
    BY <1>1, <1>2 DEF Linking
  <2> QED BY <2>1 DEF OnceLinked
<1>4. ASSUME NEW p \in Projects PROVE OnceCompleted(p) => OnceCompleted(p)'
  <2>1. \A i \in Statuses(p) : i \in Statuses(p)' /\ log'[i] = log[i]
    BY <1>1, <1>2 DEF Statuses
  <2> QED BY <2>1 DEF OnceCompleted
<1>5. IsArchived => IsArchived' BY <1>1 DEF IsArchived
<1>6. OnceAchieved => OnceAchieved'
  <2>1. \A i \in Turns : i \in Turns' /\ log'[i].type = log[i].type BY <1>1 DEF Turns
  <2> QED BY <2>1 DEF OnceAchieved
<1> QED BY <1>3, <1>4, <1>5, <1>6 DEF OnceKept

\* A state of the goal that was sane.
SaneThen(g) ==
    /\ g.linked \subseteq Projects /\ g.completed \subseteq g.linked
    /\ \A p \in g.linked : OnceLinked(p)'
    /\ \A p \in g.completed : OnceCompleted(p)'
    /\ g.archived => IsArchived'
    /\ g.achieved => OnceAchieved'

\* A state of the goal that was in the log still was.
LEMMA SaneStill ==
    ASSUME OnceKept, NEW g \in GoalStates, GoalSane(g)
    PROVE  SaneThen(g)
<1>1. g.linked \subseteq Projects /\ g.completed \subseteq Projects BY DEF GoalStates
<1> QED BY <1>1 DEF GoalSane, SaneThen, OnceKept

\* An empty state claims nothing.
LEMMA EmptySane == SaneThen(emptyGoalState) /\ GoalSane(emptyGoalState)
  BY DEF SaneThen, GoalSane, emptyGoalState

\* The threads that a step leaves alone.
LEMMA UntouchedSane ==
    ASSUME PublishInv, SaneInv, OnceKept, NEW u \in Threads, Untouched(u, {})
    PROVE  ThreadSane(u)'
<1>1. th[u] \in ThreadStates /\ (th[u].pc = "saveProject" => th[u].ev \in ProjectEvents)
  BY DEF PublishInv, ShapesOK, ThreadsOK
<1>2. th[u].goal \in GoalStates /\ th[u].ev \in Events \cup {NoEvent}
  BY <1>1 DEF ThreadStates
<1>3. ThreadSane(u) BY DEF SaneInv
<1>4. SaneThen(th[u].goal) BY <1>2, <1>3, SaneStill DEF ThreadSane
<1>5. GoalSane(th[u].goal)' BY <1>4 DEF Untouched, SaneThen, GoalSane
<1>6. th[u].pc = "saveProject" \/ (th[u].pc = "saveGoal" /\ th[u].ev.agg # "goal") =>
          th[u].ev.agg \in Projects
  BY <1>1, <1>2 DEF Events, GoalEvents, ProjectEvents, NoEvent
<1>7. th'[u].pc = "saveProject" \/ (th'[u].pc = "saveGoal" /\ th'[u].ev.agg # "goal") =>
          ProjSane(th[u].ev.agg, th[u].proj)'
  BY <1>3, <1>6 DEF Untouched, SameThread, ThreadSane, ProjSane, OnceKept
<1> QED BY <1>5, <1>7 DEF ThreadSane

\* The rows.
LEMMA RowsStillSane ==
    ASSUME PublishInv, SaneInv, OnceKept,
           goalRow' \in {goalRow, NoRow}, \A p \in Projects : projRow'[p] \in {projRow[p], NoRow}
    PROVE  RowsSane'
<1>1. ensureGoalState \in GoalStates BY EnsuredTyped DEF PublishInv, ShapesOK
<1>2. SaneThen(ensureGoalState) BY <1>1, SaneStill DEF SaneInv
<1>3. ensureGoalState' \in {ensureGoalState, emptyGoalState} BY DEF ensureGoalState
<1>4. GoalSane(ensureGoalState)' BY <1>2, <1>3, EmptySane DEF SaneThen, GoalSane
<1>5. ASSUME NEW p \in Projects PROVE ProjSane(p, RowOf(p))'
  <2>1. RowOf(p)' \in {RowOf(p), emptyProjectState} BY DEF RowOf
  <2>2. ProjSane(p, RowOf(p)) BY DEF SaneInv
  <2>3. /\ RowOf(p).linked => OnceLinked(p)'
        /\ RowOf(p).status = "completed" => OnceCompleted(p)'
    BY <2>2 DEF ProjSane, OnceKept
  <2>4. ~emptyProjectState.linked /\ emptyProjectState.status # "completed"
    BY DEF emptyProjectState, NoProject
  <2> QED BY <2>1, <2>3, <2>4 DEF ProjSane
<1> QED BY <1>4, <1>5 DEF RowsSane

\* The event that a thread handles is one of the log.
Handled(t) ==
    /\ th[t].ev \in th[t].batch /\ th[t].ev \in Events /\ Same(th[t].ev, th[t].ev.seq)
    /\ Least(t)

\* The event of a handler is in its batch, before all others.
LEMMA HandledOK ==
    ASSUME PublishInv, BatchInv, NEW t \in Threads, th[t].pc \in {"saveProject", "saveGoal"}
    PROVE  Handled(t)
<1>1. ThreadHolds(t) /\ PlaceOK(t) BY DEF BatchInv, ThreadHolds
<1>2. th[t].ev \in th[t].batch /\ Least(t) BY <1>1 DEF PlaceOK, Least
<1>3. th[t].batch \in SUBSET Events BY DEF PublishInv, ShapesOK, ThreadsOK, ThreadStates
<1> QED BY <1>1, <1>2, <1>3 DEF Handled, ThreadHolds

\* The event of a handler is in the log.
LEMMA HandledEvent ==
    ASSUME PublishInv, BatchInv, Sane(log), NEW t \in Threads,
           th[t].pc \in {"saveProject", "saveGoal"}
    PROVE  LET e == th[t].ev
               i == th[t].ev.seq
           IN  /\ i \in 1..Len(log) /\ log[i].agg = e.agg /\ log[i].type = e.type
               /\ CanRead(log[i]) /\ CanRead(e)
               /\ e.agg # "goal" => log[i] = e /\ i \in Of(e.agg) /\ e \in ProjectEvents
                                    /\ e.agg \in Projects
               /\ e.agg = "goal" => e.version > 0 /\ i \in Of("goal") /\ e \in GoalEvents
               /\ (\A k \in Of("goal") : k <= i) => log[i] = e
<1>1. LogOK BY DEF PublishInv, ShapesOK
<1>2. th[t].ev \in Events /\ Same(th[t].ev, th[t].ev.seq) BY HandledOK DEF Handled
<1>3. th[t].ev \in ProjectEvents => th[t].ev.agg \in Projects BY DEF ProjectEvents
<1> QED BY <1>1, <1>2, <1>3, SameEvent

\* A saved project row was in the log.
LEMMA ProjectAfterSane ==
    ASSUME PublishInv, BatchInv, SaneInv, NEW t \in Threads, th[t].pc = "saveProject"
    PROVE  ProjSane(th[t].ev.agg, ProjectAfter(th[t].proj, th[t].ev))
<1> DEFINE e == th[t].ev
           i == th[t].ev.seq
<1>a. Sane(log) /\ LogOK BY DEF SaneInv, PublishInv, ShapesOK
<1>1. e \in ProjectEvents /\ th[t].proj \in ProjectStates
  BY DEF PublishInv, ShapesOK, ThreadsOK, ThreadStates
<1>2. e.agg # "goal" /\ e.agg \in Projects BY <1>1, ReactionConstants DEF ProjectEvents
<1>3. i \in 1..Len(log) /\ log[i] = e /\ i \in Of(e.agg) /\ CanRead(e)
  BY <1>a, <1>2, HandledEvent
<1>4. ProjSane(e.agg, th[t].proj) BY DEF SaneInv, ThreadSane
<1>5. e.readable BY <1>2, <1>3 DEF CanRead
<1>6. /\ e.type = "ProjectGoalAdded" => e.linked
      /\ e.type = "ProjectGoalRemoved" => ~e.linked
  BY <1>a, <1>2, <1>3 DEF Sane
<1>7. e.type \in {"ProjectCreated", "ProjectGoalAdded"} /\ e.linked => OnceLinked(e.agg)
  BY <1>3, <1>5 DEF OnceLinked, Linking
<1>8. e.type \in {"ProjectCreated", "ProjectStatusTransitioned"} /\ e.status = "completed"
      => OnceCompleted(e.agg)
  BY <1>3 DEF OnceCompleted, Statuses
<1> HIDE DEF e
<1>9. CASE e.type = "ProjectCreated"
  BY <1>7, <1>8, <1>9 DEF ProjectAfter, ProjSane, e
<1>10. CASE e.type = "ProjectGoalAdded"
  BY <1>1, <1>4, <1>6, <1>7, <1>10 DEF ProjectAfter, ProjSane, ProjectStates, e
<1>11. CASE e.type = "ProjectGoalRemoved"
  BY <1>1, <1>4, <1>11 DEF ProjectAfter, ProjSane, ProjectStates, e
<1>12. CASE e.type = "ProjectStatusTransitioned"
  BY <1>1, <1>4, <1>8, <1>12 DEF ProjectAfter, ProjSane, ProjectStates, e
<1> QED BY <1>1, <1>9, <1>10, <1>11, <1>12 DEF ProjectEvents

\* What saving does to the goal's state.
GoalAfterIs(g, e, proj) ==
    LET row == GoalAfter(g, e, proj)
        p == e.agg
        done == proj.status = "completed"
    IN  /\ p = "goal" =>
              /\ row.linked = g.linked /\ row.completed = g.completed
              /\ row.version = e.version
              /\ e.type \in {"GoalAchieved", "GoalUnachieved"}
                 => (row.achieved <=> e.type = "GoalAchieved")
              /\ e.type \notin {"GoalAchieved", "GoalUnachieved"} => row.achieved = g.achieved
              /\ e.type = "GoalArchived" => row.archived
              /\ e.type # "GoalArchived" => row.archived = g.archived
        /\ p # "goal" =>
              /\ row.achieved = g.achieved /\ row.archived = g.archived
              /\ row.version = g.version
              /\ e.type = "ProjectGoalRemoved" =>
                    row.linked = g.linked \ {p} /\ row.completed = g.completed \ {p}
              /\ e.type # "ProjectGoalRemoved" =>
                    /\ row.linked = g.linked \cup {p}
                    /\ done => row.completed = g.completed \cup {p}
                    /\ ~done /\ e.type = "ProjectStatusTransitioned"
                       => row.completed = g.completed \ {p}
                    /\ ~done /\ e.type # "ProjectStatusTransitioned"
                       => row.completed = g.completed

\* What GoalAfter does to each part of the state.
LEMMA GoalAfterOK ==
    ASSUME NEW g \in GoalStates, NEW e \in Events, NEW proj
    PROVE  GoalAfterIs(g, e, proj)
<1>1. CASE e \in GoalEvents
  <2>1. e.agg = "goal" BY <1>1 DEF GoalEvents
  <2>2. CASE e.type \in {"GoalAchieved", "GoalUnachieved"}
    BY <2>1, <2>2 DEF GoalAfter, GoalAfterIs, GoalStates
  <2>3. CASE e.type = "GoalArchived"
    BY <2>1, <2>3 DEF GoalAfter, GoalAfterIs, GoalStates
  <2>4. CASE e.type \in {"GoalCreated", "GoalRefined"}
    BY <2>1, <2>4 DEF GoalAfter, GoalAfterIs, GoalStates
  <2> QED BY <1>1, <2>2, <2>3, <2>4 DEF GoalEvents
<1>2. CASE e \in ProjectEvents
  <2>1. e.agg # "goal" BY <1>2, ReactionConstants DEF ProjectEvents
  <2>2. CASE e.type = "ProjectGoalRemoved"
    BY <2>1, <2>2 DEF GoalAfter, GoalAfterIs, GoalStates, Unlinked
  <2>3. CASE e.type = "ProjectStatusTransitioned" /\ proj.status # "completed"
    BY <2>1, <2>3 DEF GoalAfter, GoalAfterIs, GoalStates, Linked
  <2>4. CASE e.type = "ProjectStatusTransitioned" /\ proj.status = "completed"
    BY <2>1, <2>4 DEF GoalAfter, GoalAfterIs, GoalStates, Linked, WithCompletion
  <2>5. CASE e.type \in {"ProjectCreated", "ProjectGoalAdded"}
    BY <2>1, <2>5 DEF GoalAfter, GoalAfterIs, GoalStates, Linked, WithCompletion
  <2> QED BY <1>2, <2>2, <2>3, <2>4, <2>5 DEF ProjectEvents
<1> QED BY <1>1, <1>2 DEF Events

\* A saved goal row was in the log.
LEMMA GoalAfterSane ==
    ASSUME PublishInv, BatchInv, SaneInv, CopyInv, NEW t \in Threads, th[t].pc = "saveGoal"
    PROVE  GoalSane(GoalAfter(th[t].goal, th[t].ev, th[t].proj))
<1> DEFINE e == th[t].ev
           i == th[t].ev.seq
           g == th[t].goal
           row == GoalAfter(g, e, th[t].proj)
<1>a. Sane(log) /\ LogOK BY DEF SaneInv, PublishInv, ShapesOK
<1>1. g \in GoalStates BY DEF PublishInv, ShapesOK, ThreadsOK, ThreadStates
<1>2. /\ i \in 1..Len(log) /\ log[i].agg = e.agg /\ log[i].type = e.type
      /\ e.agg # "goal" => e.agg \in Projects
  BY <1>a, HandledEvent
<1>3. e \in Events BY HandledOK DEF Handled
<1>4. GoalAfterIs(g, e, th[t].proj) BY <1>1, <1>3, GoalAfterOK
<1>5. GoalSane(g) /\ (e.agg # "goal" => ProjSane(e.agg, th[t].proj))
  BY DEF SaneInv, ThreadSane
<1>6. e.agg # "goal" /\ e.type # "ProjectGoalRemoved" => th[t].proj.linked
  BY DEF CopyInv, CopyOK
<1>7. CASE e.agg = "goal"
  <2>1. row.archived => IsArchived
    BY <1>2, <1>4, <1>5, <1>7 DEF GoalAfterIs, GoalSane, IsArchived, Of
  <2>2. row.achieved => OnceAchieved
    BY <1>2, <1>4, <1>5, <1>7 DEF GoalAfterIs, GoalSane, OnceAchieved, Turns, Of
  <2> QED BY <1>4, <1>5, <1>7, <2>1, <2>2 DEF GoalAfterIs, GoalSane
<1>8. CASE e.agg # "goal" /\ e.type = "ProjectGoalRemoved"
  BY <1>4, <1>5, <1>8 DEF GoalAfterIs, GoalSane
<1>9. CASE e.agg # "goal" /\ e.type # "ProjectGoalRemoved"
  <2>1. OnceLinked(e.agg) BY <1>5, <1>6, <1>9 DEF ProjSane
  <2>2. th[t].proj.status = "completed" => OnceCompleted(e.agg) BY <1>5, <1>9 DEF ProjSane
  <2>3. CASE th[t].proj.status = "completed"
    BY <1>4, <1>5, <1>9, <2>1, <2>2, <2>3 DEF GoalAfterIs, GoalSane
  <2>4. CASE th[t].proj.status # "completed"
    <3>1. row.completed \subseteq g.completed /\ row.linked = g.linked \cup {e.agg}
      BY <1>4, <1>9, <2>4 DEF GoalAfterIs
    <3> QED BY <1>4, <1>5, <1>9, <2>1, <3>1 DEF GoalAfterIs, GoalSane
  <2> QED BY <2>3, <2>4
<1> QED BY <1>7, <1>8, <1>9

-----------------------------------------------------------------------------
(* The steps keep the rows sane *)

\* The parts of SaneInv.
LEMMA SaneFrom ==
    ASSUME Sane(log)', RowsSane', \A u \in Threads : ThreadSane(u)'
    PROVE  SaneInv'
  BY DEF SaneInv, RowsSane

\* HandleEvent copies rows that were in the log.
LEMMA HandleSane ==
    ASSUME PublishInv, SagaInv, NEW t \in Threads, HandleEffect(t)
    PROVE  SaneInv'
<1>a. LogOK /\ LogKept /\ Sane(log)' /\ SaneInv /\ Sane(log)
  BY KeptStays DEF PublishInv, ShapesOK, HandleEffect, SagaInv, SaneInv
<1>b. OnceKept BY <1>a, OnceStays
<1>1. RowsSane' BY <1>a, <1>b, RowsStillSane DEF HandleEffect
<1>2. ASSUME NEW u \in Threads, u # t PROVE ThreadSane(u)'
  BY <1>a, <1>b, <1>2, UntouchedSane DEF HandleEffect, Handling
<1> DEFINE e == th'[t].ev
<1>3. /\ e \in th[t].batch
      /\ th'[t].goal = IF e.agg = "goal" THEN ensureGoalState ELSE emptyGoalState
      /\ e.agg # "goal" =>
            th'[t].proj = IF e.type = "ProjectCreated" THEN emptyProjectState ELSE RowOf(e.agg)
  BY DEF HandleEffect
<1>4. e.agg # "goal" => e.agg \in Projects
  BY <1>3 DEF PublishInv, ShapesOK, ThreadsOK, ThreadStates, Events, GoalEvents, ProjectEvents
<1>5. GoalSane(th[t].goal)'
  <2>1. ensureGoalState \in GoalStates BY EnsuredTyped DEF PublishInv, ShapesOK
  <2>2. SaneThen(ensureGoalState) BY <1>a, <1>b, <2>1, SaneStill DEF SaneInv
  <2> QED BY <1>3, <2>2, EmptySane DEF SaneThen, GoalSane
<1>6. e.agg # "goal" => ProjSane(th[t].ev.agg, th[t].proj)'
  <2> SUFFICES ASSUME e.agg # "goal" PROVE ProjSane(th[t].ev.agg, th[t].proj)'
    OBVIOUS
  <2>1. PICK p \in Projects : p = e.agg BY <1>4
  <2>2. ProjSane(p, RowOf(p)) BY <1>a DEF SaneInv
  <2>3. /\ RowOf(p).linked => OnceLinked(p)'
        /\ RowOf(p).status = "completed" => OnceCompleted(p)'
    BY <1>b, <2>2 DEF ProjSane, OnceKept
  <2>4. ~emptyProjectState.linked /\ emptyProjectState.status # "completed"
    BY DEF emptyProjectState, NoProject
  <2> QED BY <1>3, <2>1, <2>3, <2>4 DEF ProjSane
<1>7. ThreadSane(t)'
  BY <1>5, <1>6 DEF ThreadSane, HandleEffect, Handles
<1> QED BY <1>a, <1>1, <1>2, <1>7, SaneFrom

\* SaveProject keeps SaneInv.
LEMMA SaveProjectSane ==
    ASSUME PublishInv, SagaInv, NEW t \in Threads, SaveProjectEffect(t)
    PROVE  SaneInv'
<1>a. LogOK /\ LogKept /\ Sane(log)' /\ SaneInv /\ Sane(log) /\ BatchInv
  BY KeptStays DEF PublishInv, ShapesOK, SaveProjectEffect, SagaInv, SaneInv
<1>b. OnceKept BY <1>a, OnceStays
<1> DEFINE e == th[t].ev
           after == ProjectAfter(th[t].proj, e)
<1>1. PICK p \in Projects : p = e.agg BY DEF SaveProjectEffect, ProjectEvents
<1>2. ProjSane(p, after) BY <1>a, <1>1, ProjectAfterSane DEF SaveProjectEffect
<1>3. /\ after.linked => OnceLinked(p)'
      /\ after.status = "completed" => OnceCompleted(p)'
  BY <1>b, <1>2 DEF ProjSane, OnceKept
<1>4. ~emptyProjectState.linked /\ emptyProjectState.status # "completed"
  BY DEF emptyProjectState, NoProject
<1>5. ensureGoalState \in GoalStates /\ ensureGoalState' = ensureGoalState
  BY EnsuredTyped DEF PublishInv, ShapesOK, SaveProjectEffect, ensureGoalState
<1>6. SaneThen(ensureGoalState) BY <1>a, <1>b, <1>5, SaneStill DEF SaneInv
<1>7. RowsSane'
  <2>1. GoalSane(ensureGoalState)' BY <1>5, <1>6 DEF SaneThen, GoalSane
  <2>2. ASSUME NEW q \in Projects PROVE ProjSane(q, RowOf(q))'
    <3>1. CASE q = p
      <4>1. RowOf(q)' \in {after, emptyProjectState}
        BY <1>1, <3>1 DEF SaveProjectEffect, RowOf
      <4> QED BY <1>3, <1>4, <3>1, <4>1 DEF ProjSane
    <3>2. CASE q # p
      <4>1. RowOf(q)' = RowOf(q) BY <1>1, <3>2 DEF SaveProjectEffect, RowOf
      <4>2. ProjSane(q, RowOf(q)) BY <1>a DEF SaneInv
      <4> QED BY <1>b, <4>1, <4>2 DEF ProjSane, OnceKept
    <3> QED BY <3>1, <3>2
  <2> QED BY <2>1, <2>2 DEF RowsSane
<1>8. ASSUME NEW u \in Threads, u # t PROVE ThreadSane(u)'
  BY <1>a, <1>b, <1>8, UntouchedSane, UntouchedLess DEF SaveProjectEffect
<1>9. ThreadSane(t)'
  <2>1. th'[t].goal \in {ensureGoalState, emptyGoalState} BY DEF SaveProjectEffect
  <2>2. GoalSane(th[t].goal)' BY <1>6, <2>1, EmptySane DEF SaneThen, GoalSane
  <2>3. CASE Saves(t) /\ th'[t].proj = after /\ th'[t].pc = "saveGoal"
    BY <1>1, <1>3, <2>2, <2>3 DEF ThreadSane, ProjSane, Saves
  <2>4. CASE Serves(t) BY <2>2, <2>4 DEF ThreadSane, Serves
  <2> QED BY <2>3, <2>4 DEF SaveProjectEffect
<1> QED BY <1>a, <1>7, <1>8, <1>9, SaneFrom

\* SaveGoal keeps SaneInv.
LEMMA SaveGoalSane ==
    ASSUME PublishInv, SagaInv, NEW t \in Threads, SaveGoalEffect(t)
    PROVE  SaneInv'
<1>a. LogOK /\ LogKept /\ Sane(log)' /\ SaneInv /\ Sane(log) /\ BatchInv /\ CopyInv
  BY KeptStays DEF PublishInv, ShapesOK, SaveGoalEffect, SagaInv, SaneInv
<1>b. OnceKept BY <1>a, OnceStays
<1> DEFINE row == GoalAfter(th[t].goal, th[t].ev, th[t].proj)
<1>1. GoalSane(row) /\ row \in GoalStates BY <1>a, GoalAfterSane DEF SaveGoalEffect
<1>2. goalRow' = row /\ goalRow' # NoRow BY DEF SaveGoalEffect
<1> HIDE DEF row
<1>3. SaneThen(row) BY <1>b, <1>1, SaneStill
<1>4. RowsSane'
  <2>1. ensureGoalState' = row BY <1>2 DEF ensureGoalState
  <2>2. GoalSane(ensureGoalState)' BY <1>3, <2>1 DEF SaneThen, GoalSane
  <2>3. ASSUME NEW q \in Projects PROVE ProjSane(q, RowOf(q))'
    <3>1. RowOf(q)' = RowOf(q) BY DEF SaveGoalEffect, RowOf
    <3>2. ProjSane(q, RowOf(q)) BY <1>a DEF SaneInv
    <3> QED BY <1>b, <3>1, <3>2 DEF ProjSane, OnceKept
  <2> QED BY <2>2, <2>3 DEF RowsSane
<1>5. ASSUME NEW u \in Threads, u # t PROVE ThreadSane(u)'
  BY <1>a, <1>b, <1>5, UntouchedSane, UntouchedLess DEF SaveGoalEffect
<1>6. ThreadSane(t)'
  <2>1. th'[t].goal \in {row, emptyGoalState} BY DEF SaveGoalEffect, row
  <2>2. GoalSane(th[t].goal)' BY <1>3, <2>1, EmptySane DEF SaneThen, GoalSane
  <2>3. th'[t].pc \in {"ask", "next"} BY DEF SaveGoalEffect, Serves
  <2> QED BY <2>2, <2>3 DEF ThreadSane
<1> QED BY <1>a, <1>4, <1>5, <1>6, SaneFrom

\* What the saga commits keeps the log, and keeps it sane.
LEMMA AskKept ==
    ASSUME PublishInv, Sane(log), NEW t \in Threads, AskEffect(t)
    PROVE  LogKept /\ Sane(log)'
<1>a. LogOK BY DEF PublishInv, ShapesOK
<1>1. CASE log' = log BY <1>a, <1>1, KeptStays
<1>2. CASE \E type \in {"GoalAchieved", "GoalUnachieved"} : Commits(GoalEvent(type))
  <2>1. PICK type \in {"GoalAchieved", "GoalUnachieved"} : Commits(GoalEvent(type)) BY <1>2
  <2>2. Fits(GoalEvent(type)) BY <1>a, GoalEventFits
  <2> QED BY <1>a, <2>1, <2>2, SaneCommits
<1> QED BY <1>1, <1>2 DEF AskEffect, Writes, GoesOn, Ends

\* The decisions keep SaneInv.
LEMMA AskSane ==
    ASSUME PublishInv, SagaInv, NEW t \in Threads, AskEffect(t)
    PROVE  SaneInv'
<1>a. LogOK /\ LogKept /\ Sane(log)' /\ SaneInv /\ Sane(log)
  BY AskKept DEF PublishInv, ShapesOK, SagaInv, SaneInv
<1>b. OnceKept BY <1>a, OnceStays
<1>1. th[t].goal \in GoalStates BY DEF PublishInv, ShapesOK, ThreadsOK, ThreadStates
<1>2. SaneThen(th[t].goal) BY <1>a, <1>b, <1>1, SaneStill DEF SaneInv, ThreadSane
<1>3. RowsSane'
  <2>1. CASE goalRow' = goalRow BY <1>a, <1>b, <2>1, RowsStillSane DEF AskEffect
  <2>2. CASE Writes(t)
    <3>1. ensureGoalState' = goalRow' BY <2>2 DEF Writes, ensureGoalState
    <3>2. GoalSane(ensureGoalState)'
      BY <1>2, <2>2, <3>1 DEF SaneThen, GoalSane, Writes, Like
    <3>3. ASSUME NEW q \in Projects PROVE ProjSane(q, RowOf(q))'
      <4>1. RowOf(q)' = RowOf(q) BY DEF AskEffect, RowOf
      <4>2. ProjSane(q, RowOf(q)) BY <1>a DEF SaneInv
      <4> QED BY <1>b, <4>1, <4>2 DEF ProjSane, OnceKept
    <3> QED BY <3>2, <3>3 DEF RowsSane
  <2> QED BY <2>1, <2>2 DEF AskEffect, GoesOn, Ends
<1>4. ASSUME NEW u \in Threads, u # t PROVE ThreadSane(u)'
  BY <1>a, <1>b, <1>4, UntouchedSane DEF AskEffect, Handling
<1>5. ThreadSane(t)'
  <2>1. GoalSane(th[t].goal)'
    BY <1>2, EmptySane
    DEF SaneThen, GoalSane, AskEffect, Writes, Like, GoesOn, Ends, Returns
  <2>2. th'[t].pc \notin {"saveProject", "saveGoal"}
    BY PlacesDiffer DEF AskEffect, Writes, GoesOn, Ends, Returns
  <2> QED BY <2>1, <2>2 DEF ThreadSane
<1> QED BY <1>a, <1>3, <1>4, <1>5, SaneFrom

\* A step that writes no row, or resets the rows.
LEMMA OtherSane ==
    ASSUME PublishInv, SaneInv, LogKept, Sane(log)', goalRow' \in {goalRow, NoRow},
           \A p \in Projects : projRow'[p] \in {projRow[p], NoRow},
           \A u \in Threads :
               \/ Untouched(u, {})
               \/ /\ th'[u].goal \in {emptyGoalState, th[u].goal, ensureGoalState}
                  /\ th'[u].pc \notin {"saveProject", "saveGoal"}
    PROVE  SaneInv'
<1>a. LogOK BY DEF PublishInv, ShapesOK
<1>b. OnceKept BY <1>a, OnceStays
<1>1. RowsSane' BY <1>b, RowsStillSane
<1>2. ASSUME NEW u \in Threads PROVE ThreadSane(u)'
  <2>1. CASE Untouched(u, {}) BY <1>b, <2>1, UntouchedSane
  <2>2. CASE /\ th'[u].goal \in {emptyGoalState, th[u].goal, ensureGoalState}
             /\ th'[u].pc \notin {"saveProject", "saveGoal"}
    <3>1. th[u].goal \in GoalStates /\ ensureGoalState \in GoalStates
      BY EnsuredTyped DEF PublishInv, ShapesOK, ThreadsOK, ThreadStates
    <3>2. SaneThen(th[u].goal) /\ SaneThen(ensureGoalState)
      BY <1>b, <3>1, SaneStill DEF SaneInv, ThreadSane
    <3>3. GoalSane(th[u].goal)' BY <2>2, <3>2, EmptySane DEF SaneThen, GoalSane
    <3> QED BY <2>2, <3>3 DEF ThreadSane
  <2> QED BY <2>1, <2>2
<1> QED BY <1>1, <1>2, SaneFrom

-----------------------------------------------------------------------------
(* The copies of rows *)

\* The places where a thread holds a copy of the goal's row.
LEMMA HoldsGoalPlaces ==
    /\ HoldsGoal = {"saveGoal", "ask", "dispatch", "undo"}
  BY DEF HoldsGoal

\* The thread of another step: its copies are what is stored, or it is stale.
LEMMA CopyKept ==
    ASSUME CopyInv, NEW u \in Threads, Untouched(u, {}),
           th[u].pc \in HoldsGoal /\ ~th'[u].stale => ensureGoalState' = ensureGoalState,
           th[u].pc = "saveProject" /\ ~th'[u].stale =>
               RowOf(th[u].ev.agg)' = RowOf(th[u].ev.agg),
           th[u].pc = "saveGoal" /\ th[u].ev.agg # "goal" /\ ~th'[u].stale /\ ~crossed' =>
               ~crossed /\ projRow'[th[u].ev.agg] = projRow[th[u].ev.agg],
           u = "projects" /\ th[u].pc = "saveGoal" /\ th[u].ev.agg # "goal"
           /\ ~th'[u].stale /\ ~crossed' /\ seeded' => InBatch("boot", 1)'
    PROVE  CopyOK(u)'
<1>1. CopyOK(u) BY DEF CopyInv
<1>2. /\ th'[u].pc = th[u].pc /\ th'[u].ev = th[u].ev /\ th'[u].goal = th[u].goal
      /\ th'[u].proj = th[u].proj /\ (th[u].stale => th'[u].stale)
  BY DEF Untouched, SameThread
<1>3. th'[u].pc \in HoldsGoal /\ ~th'[u].stale => th'[u].goal = ensureGoalState'
  BY <1>1, <1>2 DEF CopyOK
<1>4. th'[u].pc = "saveProject" /\ ~th'[u].stale /\ th'[u].ev.type # "ProjectCreated"
      => th'[u].proj = RowOf(th[u].ev.agg)'
  BY <1>1, <1>2 DEF CopyOK
<1>5. th'[u].pc = "saveGoal" /\ th'[u].ev.agg # "goal" =>
          /\ ~th'[u].stale /\ ~crossed' => th'[u].proj = projRow'[th'[u].ev.agg]
          /\ th'[u].ev.type # "ProjectGoalRemoved" => th'[u].proj.linked
          /\ th'[u].ev.type = "ProjectCreated" => th'[u].ev.linked
          /\ seeded' /\ ~crossed' /\ u = "projects" /\ ~th'[u].stale => InBatch("boot", 1)'
  BY <1>1, <1>2 DEF CopyOK
<1> QED BY <1>3, <1>4, <1>5 DEF CopyOK, HoldsGoal
\* The last of the conditions, when another stream or bootstrap moves.
LEMMA FirstStays ==
    ASSUME PublishInv, CopyInv, NEW t \in Threads, Handling(t),
           t = "boot" /\ InBatch("boot", 1) => InBatch("boot", 1)', NEW u \in Threads \ {t},
           u = "projects", th[u].pc = "saveGoal", th[u].ev.agg # "goal",
           ~th'[u].stale, ~crossed', seeded'
    PROVE  InBatch("boot", 1)'
<1>1. ~th[u].stale /\ ~crossed /\ seeded BY DEF Handling, Untouched
<1>2. InBatch("boot", 1) BY <1>1 DEF CopyInv, CopyOK
<1>3. CASE t = "boot" BY <1>2, <1>3
<1>4. CASE t # "boot"
  <2>1. SameThread("boot") BY <1>4, StreamsAreThreads DEF Handling, Untouched
  <2> QED BY <1>2, <2>1 DEF InBatch, SameThread
<1> QED BY <1>3, <1>4

\* HandleEvent makes fresh copies.
LEMMA HandleCopies ==
    ASSUME PublishInv, SagaInv, NEW t \in Threads, HandleEffect(t)
    PROVE  CopyInv'
<1>a. CopyInv /\ Handling(t) BY DEF SagaInv, HandleEffect
<1>1. /\ ensureGoalState' = ensureGoalState /\ \A p : RowOf(p)' = RowOf(p)
      /\ UNCHANGED <<crossed, projRow>>
  BY DEF HandleEffect, ensureGoalState, RowOf
<1>2. InBatch("boot", 1) /\ t = "boot" => InBatch("boot", 1)'
  BY DEF HandleEffect, Handles, InBatch
<1>3. ASSUME NEW u \in Threads \ {t} PROVE CopyOK(u)'
  <2>1. Untouched(u, {}) BY <1>a DEF Handling
  <2>2. RowOf(th[u].ev.agg)' = RowOf(th[u].ev.agg)
    BY <2>1 DEF HandleEffect, RowOf, Untouched, SameThread
  <2>3. u = "projects" /\ th[u].pc = "saveGoal" /\ th[u].ev.agg # "goal"
        /\ ~th'[u].stale /\ ~crossed' /\ seeded' => InBatch("boot", 1)'
    BY <1>a, <1>2, FirstStays
  <2> QED BY <1>a, <1>1, <2>1, <2>2, <2>3, CopyKept
<1>4. CopyOK(t)'
  <2>1. CASE th'[t].pc = "saveGoal" /\ th'[t].ev.agg = "goal"
    BY <1>1, <2>1 DEF CopyOK, HandleEffect, HoldsGoal
  <2>2. CASE th'[t].pc = "saveProject" /\ th'[t].ev.agg # "goal"
    <3>1. th'[t].ev.type # "ProjectCreated" => th'[t].proj = RowOf(th[t].ev.agg)'
      BY <2>2 DEF HandleEffect, RowOf
    <3> QED BY <2>2, <3>1 DEF CopyOK, HoldsGoal
  <2> QED BY <2>1, <2>2 DEF HandleEffect, Handles
<1> QED BY <1>3, <1>4 DEF CopyInv

\* bootstrap handles the events of the goal first.
LEMMA FirstIsGoal ==
    ASSUME PublishInv, SagaInv, th["boot"].pc = "saveProject"
    PROVE  ~InBatch("boot", 1)
<1> SUFFICES ASSUME NEW e \in th["boot"].batch, e.seq = 1 PROVE FALSE
  BY DEF InBatch
<1>a. BatchInv /\ Sane(log) /\ LogOK /\ "boot" \in Threads
  BY StreamsAreThreads DEF SagaInv, SaneInv, PublishInv, ShapesOK
<1>1. th["boot"].ev.seq <= 1 BY <1>a, HandledOK DEF Handled, Least
<1>2. th["boot"].ev.seq \in 1..Len(log) /\ log[th["boot"].ev.seq].agg = th["boot"].ev.agg
  BY <1>a, HandledEvent
<1>3. th["boot"].ev.seq = 1 BY <1>a, <1>1, <1>2, LogTyped
<1>4. th["boot"].ev \in ProjectEvents BY <1>a DEF PublishInv, ShapesOK, ThreadsOK
<1> QED BY <1>a, <1>2, <1>3, <1>4, ReactionConstants DEF LogOK, ProjectEvents

\* SaveProject keeps CopyInv: it marks the copies it outdates.
LEMMA SaveProjectCopies ==
    ASSUME PublishInv, SagaInv, NEW t \in Threads, SaveProjectEffect(t)
    PROVE  CopyInv'
<1>a. CopyInv /\ Handling(t) /\ th[t].pc = "saveProject" BY DEF SagaInv, SaveProjectEffect
<1>1. ensureGoalState' = ensureGoalState BY DEF SaveProjectEffect, ensureGoalState
<1>2. t = "boot" => ~InBatch("boot", 1) BY <1>a, FirstIsGoal
<1>3. PICK p \in Projects : p = th[t].ev.agg BY DEF SaveProjectEffect, ProjectEvents
<1>4. \A q \in Projects \ {p} : projRow'[q] = projRow[q] BY <1>3 DEF SaveProjectEffect
<1>5. ASSUME NEW u \in Threads \ {t} PROVE CopyOK(u)'
  <2>1. Untouched(u, {"saveProject"}) /\ Untouched(u, {})
    BY UntouchedLess DEF SaveProjectEffect
  <2>2. th[u].pc = "saveProject" => th'[u].stale BY <2>1 DEF Untouched
  <2>3. u = "projects" /\ th[u].pc = "saveGoal" /\ th[u].ev.agg # "goal"
        /\ ~th'[u].stale /\ ~crossed' /\ seeded' => InBatch("boot", 1)'
    BY <1>a, <1>2, FirstStays
  <2>4. ASSUME th[u].pc = "saveGoal", th[u].ev.agg # "goal", ~th'[u].stale, ~crossed'
        PROVE  ~crossed /\ projRow'[th[u].ev.agg] = projRow[th[u].ev.agg]
    <3>1. ~crossed /\ ~th[u].stale BY <1>a, <2>1, <2>4 DEF Handling, Untouched
    <3>2. th[u].ev \in Events /\ th[u].ev.agg \in Projects
      BY <2>4 DEF PublishInv, ShapesOK, ThreadsOK, ThreadStates, Events, GoalEvents,
                  ProjectEvents
    <3>3. u # "goals" /\ t # "goals"
      <4>1. \A s \in Streams : th[s].pc \in {"saveProject", "saveGoal"} => Stream(th[s].ev) = s
        <5>1. BatchInv BY DEF SagaInv
        <5> QED BY <5>1, StreamsAreThreads DEF BatchInv, ThreadHolds, PlaceOK
      <4>2. "goals" \in Streams BY DEF Streams
      <4>3. th[t].ev.agg # "goal" BY <1>3, ReactionConstants
      <4> QED BY <1>a, <2>4, <4>1, <4>2, <4>3 DEF Stream
    <3>4. CASE u = "boot"
      <4>1. seeded BY <2>4, <3>4 DEF PublishInv, ShapesOK, ThreadsOK
      <4>2. t \in Streams BY <3>4, StreamsAreThreads
      <4> QED BY <1>a, <2>4, <4>1, <4>2 DEF Handling
    <3>5. CASE u = "projects"
      <4>1. t = "boot" BY <3>3, <3>5 DEF Threads, Streams
      <4>2. seeded BY <1>a, <4>1 DEF PublishInv, ShapesOK, ThreadsOK
      <4>3. InBatch("boot", 1) BY <2>4, <3>1, <3>5, <4>2, <1>a DEF CopyInv, CopyOK
      <4> QED BY <1>2, <4>1, <4>3
    <3> QED BY <3>3, <3>4, <3>5 DEF Threads, Streams
  <2> QED BY <1>a, <1>1, <2>1, <2>2, <2>3, <2>4, CopyKept
<1>6. CopyOK(t)'
  <2>1. CASE /\ Saves(t) /\ th'[t].pc = "saveGoal"
             /\ th'[t].proj = ProjectAfter(th[t].proj, th[t].ev)
             /\ th'[t].goal = ensureGoalState
             /\ \/ ProjectAfter(th[t].proj, th[t].ev).linked
                \/ th[t].ev.type = "ProjectGoalRemoved"
    <3>1. th'[t].ev = th[t].ev BY <2>1 DEF Saves
    <3>2. ~crossed' => th'[t].proj = projRow'[th'[t].ev.agg]
      BY <2>1, <3>1 DEF SaveProjectEffect
    <3>3. th'[t].ev.type # "ProjectGoalRemoved" => th'[t].proj.linked BY <2>1, <3>1
    <3>4. th'[t].ev.type = "ProjectCreated" => th'[t].ev.linked
      BY <2>1, <3>1 DEF ProjectAfter
    <3>5. t = "projects" /\ seeded' => crossed'
      BY <1>a DEF Handling, Streams
    <3> QED BY <1>1, <2>1, <3>2, <3>3, <3>4, <3>5 DEF CopyOK
  <2>2. CASE Serves(t)
    BY <2>2 DEF CopyOK, Serves, HoldsGoal
  <2> QED BY <2>1, <2>2 DEF SaveProjectEffect
<1> QED BY <1>5, <1>6 DEF CopyInv

\* SaveGoal keeps CopyInv: it marks the copies it outdates.
LEMMA SaveGoalCopies ==
    ASSUME PublishInv, SagaInv, NEW t \in Threads, SaveGoalEffect(t)
    PROVE  CopyInv'
<1>a. CopyInv /\ Handling(t) BY DEF SagaInv, SaveGoalEffect
<1>1. ASSUME NEW u \in Threads \ {t} PROVE CopyOK(u)'
  <2>1. Untouched(u, HoldsGoal) /\ Untouched(u, {}) BY UntouchedLess DEF SaveGoalEffect
  <2>2. th[u].pc \in HoldsGoal => th'[u].stale BY <2>1 DEF Untouched
  <2>3. th[u].pc = "saveGoal" => th'[u].stale BY <2>2 DEF HoldsGoal
  <2>4. RowOf(th[u].ev.agg)' = RowOf(th[u].ev.agg)
    BY <2>1 DEF SaveGoalEffect, RowOf, Untouched, SameThread
  <2> QED BY <1>a, <2>1, <2>2, <2>3, <2>4, CopyKept
<1>2. CopyOK(t)'
  <2>1. CASE th'[t].pc = "ask" /\ th'[t].goal = goalRow'
    BY <2>1 DEF CopyOK, SaveGoalEffect, ensureGoalState
  <2>2. CASE Serves(t) BY <2>2 DEF CopyOK, Serves, HoldsGoal
  <2> QED BY <2>1, <2>2 DEF SaveGoalEffect
<1> QED BY <1>1, <1>2 DEF CopyInv

\* The decisions keep CopyInv.
LEMMA AskCopies ==
    ASSUME PublishInv, SagaInv, NEW t \in Threads, AskEffect(t)
    PROVE  CopyInv'
<1>a. CopyInv /\ Handling(t) BY DEF SagaInv, AskEffect
<1>b. t = "boot" => ~seeded'
  BY PlacesDiffer DEF AskEffect, Handling, PublishInv, ShapesOK, ThreadsOK
<1>c. t = "boot" => ~InBatch("boot", 1)
  BY <1>b DEF Handling, AskEffect, PublishInv, ShapesOK, ThreadsOK, InBatch
<1>1. ASSUME NEW u \in Threads \ {t} PROVE CopyOK(u)'
  <2>1. Untouched(u, {}) BY <1>a DEF Handling
  <2>2. th[u].pc \in HoldsGoal /\ ~th'[u].stale => ensureGoalState' = ensureGoalState
    <3>1. CASE Writes(t) BY <3>1 DEF Writes, Untouched
    <3>2. CASE goalRow' = goalRow BY <3>2 DEF ensureGoalState
    <3> QED BY <3>1, <3>2 DEF AskEffect, GoesOn, Ends
  <2>3. RowOf(th[u].ev.agg)' = RowOf(th[u].ev.agg)
    BY <2>1 DEF AskEffect, RowOf, Untouched, SameThread
  <2>4. u = "projects" /\ th[u].pc = "saveGoal" /\ th[u].ev.agg # "goal"
        /\ ~th'[u].stale /\ ~crossed' /\ seeded' => InBatch("boot", 1)'
    BY <1>a, <1>c, FirstStays
  <2>5. ~crossed' => ~crossed BY <1>a DEF Handling
  <2>6. projRow' = projRow BY DEF AskEffect
  <2> QED BY <1>a, <2>1, <2>2, <2>3, <2>4, <2>5, <2>6, CopyKept
<1>2. CopyOK(t)'
  <2>1. CASE Writes(t)
    <3>1. th'[t].goal = ensureGoalState' BY <2>1 DEF Writes, ensureGoalState
    <3> QED BY <2>1, <3>1 DEF CopyOK, Writes
  <2>2. CASE GoesOn(t)
    <3>1. ensureGoalState' = ensureGoalState BY <2>2 DEF GoesOn, ensureGoalState
    <3>2. CopyOK(t) BY <1>a DEF CopyInv
    <3>3. th'[t].pc \in HoldsGoal => th[t].pc \in HoldsGoal BY <2>2 DEF GoesOn, HoldsGoal
    <3> QED BY <2>2, <3>1, <3>2, <3>3 DEF CopyOK, GoesOn
  <2>3. CASE Ends(t) BY <2>3 DEF CopyOK, Ends, Returns, HoldsGoal
  <2> QED BY <2>1, <2>2, <2>3 DEF AskEffect
<1> QED BY <1>1, <1>2 DEF CopyInv

\* A step that writes no row.
LEMMA OtherCopies ==
    ASSUME CopyInv, UNCHANGED <<goalRow, projRow>>, crossed' = crossed,
           \A u \in Threads : Untouched(u, {}) \/ th'[u].pc \in {"idle", "next"},
           InBatch("boot", 1) /\ seeded => InBatch("boot", 1)' \/ ~seeded',
           seeded' => seeded
    PROVE  CopyInv'
<1>1. ASSUME NEW u \in Threads, Untouched(u, {}) PROVE CopyOK(u)'
  <2>1. ensureGoalState' = ensureGoalState BY DEF ensureGoalState
  <2>2. RowOf(th[u].ev.agg)' = RowOf(th[u].ev.agg)
    BY <1>1 DEF RowOf, Untouched, SameThread
  <2>3. ASSUME u = "projects", th[u].pc = "saveGoal", th[u].ev.agg # "goal",
               ~th'[u].stale, ~crossed', seeded'
        PROVE  InBatch("boot", 1)'
    <3>1. ~th[u].stale BY <1>1, <2>3 DEF Untouched
    <3>2. InBatch("boot", 1) BY <2>3, <3>1 DEF CopyInv, CopyOK
    <3> QED BY <2>3, <3>2
  <2> QED BY <1>1, <2>1, <2>2, <2>3, CopyKept
<1>2. ASSUME NEW u \in Threads, th'[u].pc \in {"idle", "next"} PROVE CopyOK(u)'
  BY <1>2 DEF CopyOK, HoldsGoal
<1> QED BY <1>1, <1>2 DEF CopyInv

\* bootstrap() reads everything, the first event of the goal too.
LEMMA SeedCopies ==
    ASSUME PublishInv, SagaInv, PublishInv', ReadSeed, phase' = "live",
           UNCHANGED <<log, cursor, goalRow, projRow>>, phase = "live" => crossed' = crossed
    PROVE  CopyInv'
<1>a. BatchInv /\ CopyInv /\ LogOK BY DEF SagaInv, PublishInv, ShapesOK
<1>1. /\ \A u \in Threads \ {"boot"} : Untouched(u, {})
      /\ th'["boot"].pc = "next"
      /\ \A i \in 1..Len(log) : CanRead(log[i]) => InBatch("boot", i)'
  BY <1>a, SeedEffects
<1>2. InBatch("boot", 1)'
  <2>1. 1 \in 1..Len(log) /\ CanRead(log[1]) BY <1>a, LogTyped DEF LogOK, CanRead
  <2> QED BY <1>1, <2>1
<1>3. ASSUME NEW u \in Threads \ {"boot"} PROVE CopyOK(u)'
  <2>1. Untouched(u, {}) BY <1>1
  <2>2. th[u].pc = "saveGoal" => crossed' = crossed
    <3>1. phase # "live" => th[u].pc \in {"idle", "next"}
      BY <1>a DEF BatchInv, ThreadHolds, PlaceOK
    <3> QED BY <3>1
  <2>3. ensureGoalState' = ensureGoalState BY DEF ensureGoalState
  <2>4. RowOf(th[u].ev.agg)' = RowOf(th[u].ev.agg)
    BY <2>1 DEF RowOf, Untouched, SameThread
  <2> QED BY <1>a, <1>2, <2>1, <2>2, <2>3, <2>4, CopyKept
<1>4. CopyOK("boot")' BY <1>1 DEF CopyOK, HoldsGoal
<1> QED BY <1>3, <1>4 DEF CopyInv

\* bootstrap looks at what is stored.
LEMMA EndReplayCopies ==
    ASSUME PublishInv, SagaInv, PublishInv', EndReplay
    PROVE  CopyInv'
<1>a. BatchInv /\ CopyInv BY DEF SagaInv
<1>1. /\ \A u \in Threads \ {"boot"} : Untouched(u, {})
      /\ UNCHANGED <<goalRow, projRow, crossed>> /\ seeded' = FALSE
      /\ \/ goalRow # NoRow /\ th'["boot"].pc = "ask" /\ th'["boot"].goal = goalRow
         \/ th'["boot"].pc = "idle"
  BY <1>a, EndReplayEffects
<1>2. ensureGoalState' = ensureGoalState BY <1>1 DEF ensureGoalState
<1>3. ASSUME NEW u \in Threads \ {"boot"} PROVE CopyOK(u)'
  <2>1. Untouched(u, {}) BY <1>1
  <2>2. RowOf(th[u].ev.agg)' = RowOf(th[u].ev.agg)
    BY <1>1, <2>1 DEF RowOf, Untouched, SameThread
  <2> QED BY <1>a, <1>1, <1>2, <2>1, <2>2, CopyKept
<1>4. CopyOK("boot")'
  <2>1. CASE goalRow # NoRow /\ th'["boot"].pc = "ask" /\ th'["boot"].goal = goalRow
    <3>1. th'["boot"].goal = ensureGoalState' BY <1>2, <2>1 DEF ensureGoalState
    <3> QED BY <2>1, <3>1 DEF CopyOK
  <2>2. CASE th'["boot"].pc = "idle" BY <2>2 DEF CopyOK, HoldsGoal
  <2> QED BY <1>1, <2>1, <2>2
<1> QED BY <1>3, <1>4 DEF CopyInv

\* The reset marks every copy.
LEMMA RebaseCopies ==
    ASSUME SagaInv, RebaseEffect
    PROVE  CopyInv'
<1>a. CopyInv BY DEF SagaInv
<1>1. ASSUME NEW u \in Threads \ {"boot"} PROVE CopyOK(u)'
  <2>1. Untouched(u, HoldsGoal \cup {"saveProject"}) BY DEF RebaseEffect
  <2>2. th[u].pc \in HoldsGoal \cup {"saveProject"} => th'[u].stale BY <2>1 DEF Untouched
  <2>3. th[u].pc = "saveGoal" => th'[u].stale BY <2>2 DEF HoldsGoal
  <2>4. Untouched(u, {}) BY <2>1, UntouchedLess
  <2> QED BY <1>a, <2>2, <2>3, <2>4, CopyKept
<1>2. CopyOK("boot")' BY DEF CopyOK, HoldsGoal, RebaseEffect
<1> QED BY <1>1, <1>2 DEF CopyInv

\* No thread holds a copy.
LEMMA RestCopies ==
    ASSUME \A u \in Threads : th'[u].pc \in {"idle", "next"}
    PROVE  CopyInv'
  BY DEF CopyInv, CopyOK, HoldsGoal

-----------------------------------------------------------------------------
(* The agreement with the log *)

\* Nothing of a project, or of the goal, is handled or committed.
LEMMA AgreeStays ==
    ASSUME LogGood, LogGood', RowsSane, GoalAgrees, log' = log,
           \A p \in Projects : Readable(p) => ProjectAgrees(p) /\ LinksAgree(p),
           \A k \in PendG : k \in PendG',
           \A k \in PendP : log[k].agg # "goal" => k \in PendP',
           projRow' = projRow, Like(ensureGoalState', ensureGoalState)
    PROVE  /\ GoalAgrees'
           /\ \A p \in Projects : Readable(p)' => ProjectAgrees(p)' /\ LinksAgree(p)'
<1>1. GoalAgrees'
  <2>1. SameGoal BY DEF SameGoal, Of
  <2> QED BY <2>1, GoalKept DEF LogGood, Like
<1>2. ASSUME NEW p \in Projects, Readable(p)' PROVE ProjectAgrees(p)' /\ LinksAgree(p)'
  <2>1. SameProject(p) /\ Readable(p) BY <1>2 DEF SameProject, Of, Readable
  <2>2. RowOf(p)' = RowOf(p) BY DEF RowOf
  <2>3. \A k \in Of(p) : log[k].agg # "goal" BY ReactionConstants DEF Of
  <2> QED BY <2>1, <2>2, <2>3, ProjectKept DEF Like
<1> QED BY <1>1, <1>2

\* What the rows agree with.
RowsAgree ==
    /\ GoalAgrees
    /\ \A p \in Projects : Readable(p) => ProjectAgrees(p) /\ LinksAgree(p)

\* AgreeInv, in a state where it says something.
LEMMA AgreeNow ==
    ASSUME PublishInv, SagaInv, phase = "live", ~crossed
    PROVE  LogGood /\ RowsSane /\ RowsAgree
  BY PendingOKState DEF SagaInv, AgreeInv, RowsAgree, SaneInv, RowsSane

\* AgreeInv of the next state.
LEMMA AgreeFrom ==
    ASSUME ~crossed' => RowsAgree'
    PROVE  AgreeInv'
  BY DEF AgreeInv, RowsAgree

\* The log and the rows of the next state are as the lemmas need them.
LEMMA GoodNext ==
    ASSUME PublishInv', BatchInv', SaneInv', ~crossed'
    PROVE  LogGood' /\ RowsSane'
  BY PendingOKNext DEF SaneInv, RowsSane

\* An event is committed and the rows stay.
LEMMA CommitAgrees ==
    ASSUME LogGood, LogGood', RowsSane, RowsSane', RowsAgree, NEW x \in Events, Commits(x),
           UNCHANGED <<goalRow, projRow>>,
           \A k \in PendG : k \in PendG',
           \A k \in PendP : log[k].agg # "goal" => k \in PendP',
           CanRead(x) => Len(log) + 1 \in PendG' /\ Len(log) + 1 \in PendP'
    PROVE  RowsAgree'
<1>a. LogOK /\ Len(log) \in Nat BY LogTyped DEF LogGood
<1>b. ensureGoalState' = ensureGoalState BY DEF ensureGoalState
<1>1. GoalAgrees'
  <2>1. CASE x.agg = "goal"
    <3>1. CanRead(x) BY <2>1 DEF CanRead
    <3> QED BY <1>a, <1>b, <2>1, <3>1, GoalCommitted DEF RowsAgree
  <2>2. CASE x.agg # "goal"
    <3>1. SameGoal BY <1>a, <2>2, CommitElsewhere DEF SameGoal
    <3> QED BY <1>a, <1>b, <3>1, GoalKept DEF RowsAgree
  <2> QED BY <2>1, <2>2
<1>2. ASSUME NEW p \in Projects, Readable(p)' PROVE ProjectAgrees(p)' /\ LinksAgree(p)'
  <2>1. \A k \in Of(p) : log[k].agg # "goal" BY ReactionConstants DEF Of
  <2>2. RowOf(p)' = RowOf(p) BY DEF RowOf
  <2>3. CASE x.agg # p
    <3>1. SameProject(p) BY <1>a, <2>3, CommitElsewhere DEF SameProject
    <3>2. Readable(p) BY <1>2, <3>1 DEF SameProject, Readable
    <3> QED BY <1>b, <2>1, <2>2, <3>1, <3>2, ProjectKept DEF RowsAgree
  <2>4. CASE x.agg = p
    <3>1. PICK n \in Nat : n = Len(log) + 1 BY <1>a
    <3>2. n \in 1..Len(log') /\ log'[n] = x BY <1>a, <3>1 DEF Commits
    <3>3. n \in Of(p)' BY <2>4, <3>2 DEF Of
    <3>4. CanRead(x) BY <1>2, <3>2, <3>3 DEF Readable, CanRead
    <3>5. \A j \in Of(p) : j \in Of(p)' /\ log'[j] = log[j]
      BY <1>a DEF Of, Commits
    <3>6. Readable(p) BY <1>2, <3>5 DEF Readable
    <3> QED BY <1>b, <2>1, <2>2, <2>4, <3>4, <3>6, ProjectCommitted DEF RowsAgree
  <2> QED BY <2>3, <2>4
<1> QED BY <1>1, <1>2 DEF RowsAgree

\* A handler that saves no row loses nothing.
LEMMA NothingLost ==
    ASSUME PublishInv, SagaInv, LogKept, NEW t \in Threads, Handling(t),
           th[t].pc \notin {"saveProject", "saveGoal"}
    PROVE  /\ \A k \in PendG : k \in PendG'
           /\ \A k \in PendP : log[k].agg # "goal" => k \in PendP'
<1>1. PendKept(t) BY HandlingPends DEF SagaInv, SaneInv
<1> QED BY <1>1 DEF PendKept, Loses

\* HandleEvent keeps AgreeInv.
LEMMA HandleAgrees ==
    ASSUME PublishInv, SagaInv, PublishInv', BatchInv', SaneInv', NEW t \in Threads,
           HandleEffect(t)
    PROVE  AgreeInv'
<1> SUFFICES ASSUME ~crossed' PROVE RowsAgree'
  BY AgreeFrom
<1>1. /\ Handling(t) /\ th[t].pc = "next" /\ phase = "live"
      /\ UNCHANGED <<log, goalRow, projRow, crossed>>
  BY DEF HandleEffect, Handles
<1>2. LogGood /\ RowsSane /\ RowsAgree BY <1>1, AgreeNow
<1>3. LogGood' BY GoodNext
<1>4. LogKept BY <1>1, <1>2, KeptStays DEF LogGood
<1>5. Like(ensureGoalState', ensureGoalState) BY <1>1 DEF ensureGoalState, Like
<1> QED BY <1>1, <1>2, <1>3, <1>4, <1>5, NothingLost, AgreeStays DEF RowsAgree

\* Where a stream stands after a step of a handler.
LEMMA StreamsEnd ==
    ASSUME NEW t \in Threads, Handling(t), NEW s \in Streams
    PROVE  th'[s].pc = "idle" \/ th'[s].upTo = th[s].upTo
  BY StreamsAreThreads
  DEF Handling, Untouched, SameThread, Moves, Rests, Goes, Serves, Saves, Handles, IdleThread

\* The decisions keep AgreeInv: what they commit is outstanding.
LEMMA AskAgrees ==
    ASSUME PublishInv, SagaInv, PublishInv', BatchInv', SaneInv', NEW t \in Threads,
           AskEffect(t), LogKept
    PROVE  AgreeInv'
<1> SUFFICES ASSUME ~crossed' PROVE RowsAgree'
  BY AgreeFrom
<1>1. /\ Handling(t) /\ th[t].pc \in AfterGoal /\ projRow' = projRow /\ ~crossed
      /\ th[t].pc \notin {"saveProject", "saveGoal"} /\ cursor' = cursor
  BY PlacesDiffer DEF AskEffect, Handling
<1>b. phase = "live"
  BY <1>1, PlacesDiffer DEF SagaInv, BatchInv, ThreadHolds, PlaceOK
<1>2. LogGood /\ RowsSane /\ RowsAgree BY <1>1, <1>b, AgreeNow
<1>3. LogGood' /\ RowsSane' BY GoodNext
<1>4. /\ \A k \in PendG : k \in PendG'
      /\ \A k \in PendP : log[k].agg # "goal" => k \in PendP'
  BY <1>1, NothingLost
<1>5. CASE log' = log /\ goalRow' = goalRow
  <2>1. Like(ensureGoalState', ensureGoalState) BY <1>5 DEF ensureGoalState, Like
  <2> QED BY <1>1, <1>2, <1>3, <1>4, <1>5, <2>1, AgreeStays DEF RowsAgree
<1>6. CASE Writes(t)
  <2>1. ~th[t].stale /\ th[t].pc \in HoldsGoal BY <1>6 DEF Writes, HoldsGoal
  <2>2. th[t].goal = ensureGoalState BY <2>1 DEF SagaInv, CopyInv, CopyOK
  <2>3. ensureGoalState' = goalRow' BY <1>6 DEF Writes, ensureGoalState
  <2>4. Like(ensureGoalState', ensureGoalState) /\ log' = log BY <1>6, <2>2, <2>3 DEF Writes
  <2> QED BY <1>1, <1>2, <1>3, <1>4, <2>4, AgreeStays DEF RowsAgree
<1>7. ASSUME NEW type, GoalEvent(type) \in Events, Commits(GoalEvent(type)),
             goalRow' = goalRow
      PROVE  RowsAgree'
  <2>1. CanRead(GoalEvent(type)) BY <1>2, GoalEventFits DEF LogGood
  <2>2. BatchInv /\ phase # "down" BY <1>b DEF SagaInv
  <2>3. PICK x \in Events : x = GoalEvent(type) BY <1>7
  <2>4. Len(log) + 1 \in PendG' /\ Len(log) + 1 \in PendP'
    BY <1>1, <1>7, <2>1, <2>2, <2>3, NewPends, StreamsEnd
  <2>5. Commits(x) BY <1>7, <2>3
  <2> QED BY <1>1, <1>2, <1>3, <1>4, <1>7, <2>4, <2>5, CommitAgrees
<1> QED BY <1>5, <1>6, <1>7 DEF AskEffect, GoesOn, Ends, Writes

\* The event whose handler has not saved yet is to be handled.
LEMMA HandledPends ==
    ASSUME PublishInv, BatchInv, Sane(log), NEW t \in Threads,
           th[t].pc \in {"saveProject", "saveGoal"}
    PROVE  /\ th[t].ev.seq \in PendG
           /\ th[t].pc = "saveProject" => th[t].ev.seq \in PendP
<1> DEFINE i == th[t].ev.seq
<1>1. i \in 1..Len(log) /\ CanRead(log[i]) /\ log[i].agg = th[t].ev.agg BY HandledEvent
<1>2. th[t].ev \in th[t].batch BY HandledOK DEF Handled
<1>3. ASSUME NEW A \in {AfterGoal, AfterProject}, th[t].pc \notin A PROVE Open(A, i)
  <2>1. Holds(A, t, i) BY <1>2, <1>3 DEF Holds, InBatch
  <2>2. CASE t = "boot" BY <2>1, <2>2 DEF Open
  <2>3. CASE t \in Streams
    <3>1. Stream(th[t].ev) = t /\ cursor[t] < i BY <1>2, <2>3 DEF BatchInv, ThreadHolds
    <3>2. Stream(log[i]) = t BY <1>1, <3>1 DEF Stream
    <3> QED BY <2>1, <3>1, <3>2 DEF Open, Waits
  <2> QED BY <2>2, <2>3, StreamsAreThreads
<1>4. AfterGoal \in {AfterGoal, AfterProject} /\ AfterProject \in {AfterGoal, AfterProject}
  OBVIOUS
<1>5. Open(AfterGoal, i) BY <1>3, <1>4, PlacesDiffer
<1>6. th[t].pc = "saveProject" => Open(AfterProject, i) BY <1>3, <1>4, PlacesDiffer
<1> QED BY <1>1, <1>5, <1>6 DEF PendG, PendP, Pend

\* What a saved row leaves of the project of the event and of the others.
LEMMA SaveLeaves ==
    ASSUME PublishInv, SagaInv, LogGood, NEW t \in Threads, Handling(t), log' = log,
           th[t].pc \in {"saveProject", "saveGoal"}
    PROVE  LET i == th[t].ev.seq
           IN  /\ \A k \in PendG : k # i => k \in PendG'
               /\ \A k \in PendP : k # i /\ log[k].agg # "goal" => k \in PendP'
               /\ \A k \in Of(th[t].ev.agg) : i < k => k \in PendG'
               /\ th[t].pc = "saveProject" =>
                      \A k \in Of(th[t].ev.agg) : i < k => k \in PendP'
               /\ i \in 1..Len(log) /\ \A a : i \in Of(a) => a = th[t].ev.agg
<1> DEFINE i == th[t].ev.seq
<1>a. LogKept /\ BatchInv /\ Sane(log) BY KeptStays DEF LogGood, SagaInv
<1>1. PendKept(t) BY <1>a, HandlingPends
<1>2. i \in 1..Len(log) /\ log[i].agg = th[t].ev.agg /\ i \in Nat
  BY <1>a, HandledEvent, LogTyped DEF LogGood
<1>3. i \in PendG /\ (th[t].pc = "saveProject" => i \in PendP) BY <1>a, HandledPends
<1>4. \A k \in PendG : k # i => k \in PendG' BY <1>1 DEF PendKept, Loses
<1>5. \A k \in PendP : k # i /\ log[k].agg # "goal" => k \in PendP' BY <1>1 DEF PendKept, Loses
<1>6. ASSUME NEW k \in Of(th[t].ev.agg), i < k
      PROVE  k \in PendG' /\ (th[t].pc = "saveProject" => k \in PendP')
  <2>1. k \in 1..Len(log) /\ log[k].agg = log[i].agg /\ k # i
    BY <1>2, <1>6, LogTyped DEF Of, LogGood
  <2>2. k \in PendG BY <1>2, <1>3, <1>6, <2>1 DEF LogGood, PendOK
  <2>3. ASSUME th[t].pc = "saveProject" PROVE k \in PendP'
    <3>1. log[i].agg # "goal"
      BY <1>2, <2>3, ReactionConstants DEF PublishInv, ShapesOK, ThreadsOK, ProjectEvents
    <3>2. k \in PendP BY <1>2, <1>3, <1>6, <2>1, <2>3, <3>1 DEF LogGood, PendOK
    <3> QED BY <1>5, <2>1, <3>1, <3>2
  <2> QED BY <1>4, <2>1, <2>2, <2>3
<1>7. \A a : i \in Of(a) => a = th[t].ev.agg BY <1>2 DEF Of
<1> QED BY <1>2, <1>4, <1>5, <1>6, <1>7

\* What ProjectAfter does to each part of the state.
LEMMA ProjectAfterIs ==
    ASSUME NEW e \in ProjectEvents, NEW proj \in ProjectStates
    PROVE  LET after == ProjectAfter(proj, e)
           IN  /\ e.type = "ProjectCreated" => after.linked = e.linked /\ after.status = e.status
               /\ e.type = "ProjectGoalAdded" => after.linked = TRUE /\ after.status = proj.status
               /\ e.type = "ProjectGoalRemoved" =>
                      after.linked = FALSE /\ after.status = proj.status
               /\ e.type = "ProjectStatusTransitioned" =>
                      after.linked = proj.linked /\ after.status = e.status
<1>1. CASE e.type = "ProjectCreated" BY <1>1 DEF ProjectAfter
<1>2. CASE e.type = "ProjectGoalAdded" BY <1>2 DEF ProjectAfter, ProjectStates
<1>3. CASE e.type = "ProjectGoalRemoved" BY <1>3 DEF ProjectAfter, ProjectStates
<1>4. CASE e.type = "ProjectStatusTransitioned" BY <1>4 DEF ProjectAfter, ProjectStates
<1> QED BY <1>1, <1>2, <1>3, <1>4 DEF ProjectEvents

\* SaveProject keeps AgreeInv: the event is no longer outstanding for the project's
\* row, and the row says so.
LEMMA SaveProjectAgrees ==
    ASSUME PublishInv, SagaInv, PublishInv', BatchInv', SaneInv', NEW t \in Threads,
           SaveProjectEffect(t)
    PROVE  AgreeInv'
<1> SUFFICES ASSUME ~crossed' PROVE RowsAgree'
  BY AgreeFrom
<1>1. /\ Handling(t) /\ th[t].pc = "saveProject" /\ th[t].ev \in ProjectEvents
      /\ UNCHANGED <<log, goalRow>> /\ ~crossed /\ ~th[t].stale
      /\ th[t].proj \in ProjectStates
      /\ ProjectAfter(th[t].proj, th[t].ev) \in ProjectStates
      /\ \A q \in Projects \ {th[t].ev.agg} : projRow'[q] = projRow[q]
      /\ projRow'[th[t].ev.agg] = ProjectAfter(th[t].proj, th[t].ev)
  BY DEF SaveProjectEffect, Handling
<1>b. BatchInv /\ CopyInv /\ phase = "live"
  BY <1>1 DEF SagaInv, BatchInv, ThreadHolds, PlaceOK
<1>2. LogGood /\ RowsSane /\ RowsAgree /\ Sane(log) BY <1>1, <1>b, AgreeNow DEF LogGood
<1>3. LogGood' BY GoodNext
<1>4. PICK p \in Projects : p = th[t].ev.agg BY <1>1 DEF ProjectEvents
<1>c. p # "goal" BY ReactionConstants
<1>5. PICK i \in Of(p) : i = th[t].ev.seq /\ log[i] = th[t].ev
  BY <1>1, <1>2, <1>4, <1>b, <1>c, HandledEvent
<1>6. i \in PendP /\ i \in PendG BY <1>1, <1>2, <1>5, <1>b, HandledPends
<1>7. /\ \A k \in PendG : k # i => k \in PendG'
      /\ \A k \in PendP : k # i /\ log[k].agg # "goal" => k \in PendP'
      /\ \A k \in Of(p) : i < k => k \in PendG' /\ k \in PendP'
      /\ \A a : i \in Of(a) => a = p
  BY <1>1, <1>2, <1>4, <1>5, SaveLeaves
<1>d. ensureGoalState' = ensureGoalState BY <1>1 DEF ensureGoalState
<1>8. GoalAgrees'
  <2>1. SameGoal /\ LogOK BY <1>1, <1>2 DEF SameGoal, Of, LogGood
  <2>2. \A k \in Of("goal") \cap PendG : k \in PendG' BY <1>7, <1>c
  <2> QED BY <1>2, <1>d, <2>1, <2>2, GoalKept DEF RowsAgree
<1>9. ASSUME NEW q \in Projects, q # p, Readable(q)' PROVE ProjectAgrees(q)' /\ LinksAgree(q)'
  <2>1. SameProject(q) /\ Readable(q) BY <1>1, <1>9 DEF SameProject, Of, Readable
  <2>2. \A k \in Of(q) : log[k].agg # "goal" /\ k # i BY <1>7, <1>9, ReactionConstants DEF Of
  <2>3. RowOf(q)' = RowOf(q) BY <1>1, <1>4, <1>9 DEF RowOf
  <2> QED BY <1>2, <1>3, <1>7, <1>d, <2>1, <2>2, <2>3, ProjectKept DEF RowsAgree
<1>10. ASSUME Readable(p)' PROVE ProjectAgrees(p)' /\ LinksAgree(p)'
  <2>1. SameProject(p) /\ Readable(p) BY <1>1, <1>10 DEF SameProject, Of, Readable
  <2>2. \A k \in Of(p) : log[k].agg # "goal" BY ReactionConstants DEF Of
  <2>3. RowOf(p)' = ProjectAfter(th[t].proj, th[t].ev)
    <3>1. NoRow \notin ProjectStates BY DEF NoRow, ProjectStates
    <3> QED BY <1>1, <1>4, <3>1 DEF RowOf
  <2>4. log[i].type # "ProjectCreated" => th[t].proj = RowOf(p)
    BY <1>1, <1>4, <1>5, <1>b DEF CopyInv, CopyOK
  <2>5. /\ log[i].type = "ProjectCreated" =>
               RowOf(p)'.linked = log[i].linked /\ RowOf(p)'.status = log[i].status
        /\ log[i].type = "ProjectGoalAdded" =>
               RowOf(p)'.linked = TRUE /\ RowOf(p)'.status = RowOf(p).status
        /\ log[i].type = "ProjectGoalRemoved" =>
               RowOf(p)'.linked = FALSE /\ RowOf(p)'.status = RowOf(p).status
        /\ log[i].type = "ProjectStatusTransitioned" =>
               RowOf(p)'.linked = RowOf(p).linked /\ RowOf(p)'.status = log[i].status
    <3>1. PICK e \in ProjectEvents : e = th[t].ev BY <1>1
    <3>2. PICK r \in ProjectStates : r = th[t].proj BY <1>1
    <3>3. log[i] = e /\ RowOf(p)' = ProjectAfter(r, e) BY <1>5, <2>3, <3>1, <3>2
    <3>4. e.type # "ProjectCreated" => r = RowOf(p) BY <2>4, <3>2, <3>3
    <3>5. /\ e.type = "ProjectCreated" =>
                 RowOf(p)'.linked = e.linked /\ RowOf(p)'.status = e.status
          /\ e.type = "ProjectGoalAdded" =>
                 RowOf(p)'.linked = TRUE /\ RowOf(p)'.status = r.status
          /\ e.type = "ProjectGoalRemoved" =>
                 RowOf(p)'.linked = FALSE /\ RowOf(p)'.status = r.status
          /\ e.type = "ProjectStatusTransitioned" =>
                 RowOf(p)'.linked = r.linked /\ RowOf(p)'.status = e.status
      <4>1. PICK after : after = ProjectAfter(r, e) OBVIOUS
      <4>2. /\ e.type = "ProjectCreated" => after.linked = e.linked /\ after.status = e.status
            /\ e.type = "ProjectGoalAdded" => after.linked = TRUE /\ after.status = r.status
            /\ e.type = "ProjectGoalRemoved" =>
                   after.linked = FALSE /\ after.status = r.status
            /\ e.type = "ProjectStatusTransitioned" =>
                   after.linked = r.linked /\ after.status = e.status
        BY <4>1, ProjectAfterIs
      <4>3. RowOf(p)' = after BY <3>3, <4>1
      <4> QED BY <4>2, <4>3
    <3> QED BY <3>3, <3>4, <3>5
  <2>6. log[i].type \in {"ProjectCreated", "ProjectStatusTransitioned", "ProjectGoalAdded",
                         "ProjectGoalRemoved"}
    BY <1>1, <1>5 DEF ProjectEvents
  <2>7. /\ i \in Linking(p) => (RowOf(p)'.linked <=> log[i].linked)
        /\ i \notin Linking(p) => (RowOf(p)'.linked <=> RowOf(p).linked)
    <3>1. /\ log[i].type = "ProjectGoalAdded" => log[i].linked
          /\ log[i].type = "ProjectGoalRemoved" => ~log[i].linked
      BY <1>2, <1>c DEF Sane, Of
    <3> QED BY <2>5, <2>6, <3>1 DEF Linking
  <2>8. /\ i \in Statuses(p) => RowOf(p)'.status = log[i].status
        /\ i \notin Statuses(p) => RowOf(p)'.status = RowOf(p).status
    BY <2>5, <2>6 DEF Statuses
  <2>9. \/ \A k \in Of(p) \cap PendG : k \in PendG'
        \/ /\ \A k \in Of(p) \cap PendG : k \in PendG' \/ k = i
           /\ ~RowOf(p)'.linked /\ log[i].type # "ProjectGoalRemoved"
    <3>1. CASE th'[t].pc = "saveGoal"
      <4>0. LogKept BY <1>1, <1>2, KeptStays DEF LogGood
      <4>1. PendKept(t) BY <1>1, <1>2, <1>b, <4>0, HandlingPends
      <4>2. \A k \in PendG : ~Loses(AfterGoal, t, k) BY <3>1, PlacesDiffer DEF Loses
      <4> QED BY <4>1, <4>2 DEF PendKept
    <3>2. CASE ~ProjectAfter(th[t].proj, th[t].ev).linked
               /\ (th[t].ev.type = "ProjectGoalRemoved" => crossed')
      BY <1>5, <1>7, <2>3, <3>2
    <3> QED BY <3>1, <3>2 DEF SaveProjectEffect
  <2>10. \A k \in Of(p) \cap PendP : k \in PendP' \/ k = i BY <1>7, <2>2
  <2>11. ProjectAgrees(p) /\ LinksAgree(p) BY <1>2, <2>1 DEF RowsAgree
  <2>12. \A k \in Of(p) : i < k => k \in PendP' /\ k \in PendG' BY <1>7
  <2> QED
    BY <1>2, <1>3, <1>6, <1>d, <2>1, <2>7, <2>8, <2>9, <2>10, <2>11, <2>12, ProjectSaved
<1> QED BY <1>8, <1>9, <1>10 DEF RowsAgree

\* SaveGoal keeps AgreeInv: the event is no longer outstanding, and the goal's row
\* says so.
LEMMA SaveGoalAgrees ==
    ASSUME PublishInv, SagaInv, PublishInv', BatchInv', SaneInv', NEW t \in Threads,
           SaveGoalEffect(t)
    PROVE  AgreeInv'
<1> SUFFICES ASSUME ~crossed' PROVE RowsAgree'
  BY AgreeFrom
<1>1. /\ Handling(t) /\ th[t].pc = "saveGoal" /\ th[t].ev \in Events
      /\ UNCHANGED <<log, projRow>> /\ ~crossed /\ ~th[t].stale
      /\ th[t].proj \in ProjectStates /\ th[t].goal \in GoalStates
      /\ goalRow' = GoalAfter(th[t].goal, th[t].ev, th[t].proj) /\ goalRow' # NoRow
  BY DEF SaveGoalEffect, Handling
<1>b. BatchInv /\ CopyInv /\ phase = "live"
  BY <1>1 DEF SagaInv, BatchInv, ThreadHolds, PlaceOK
<1>2. LogGood /\ RowsSane /\ RowsAgree /\ Sane(log) /\ LogOK
  BY <1>1, <1>b, AgreeNow DEF LogGood
<1>3. LogGood' /\ RowsSane' BY GoodNext
<1>4. th[t].goal = ensureGoalState BY <1>1, <1>b DEF CopyInv, CopyOK, HoldsGoal
<1>5. ensureGoalState' = GoalAfter(ensureGoalState, th[t].ev, th[t].proj)
  BY <1>1, <1>4 DEF ensureGoalState
<1>6. GoalAfterIs(ensureGoalState, th[t].ev, th[t].proj) BY <1>1, <1>4, GoalAfterOK
<1>7. PICK i \in 1..Len(log) :
         /\ i = th[t].ev.seq /\ log[i].agg = th[t].ev.agg /\ log[i].type = th[t].ev.type
         /\ th[t].ev.agg # "goal" => log[i] = th[t].ev /\ th[t].ev \in ProjectEvents
         /\ th[t].ev.agg = "goal" => th[t].ev \in GoalEvents
         /\ (\A k \in Of("goal") : k <= i) => log[i] = th[t].ev
  BY <1>1, <1>2, <1>b, HandledEvent
<1>8. /\ \A k \in PendG : k # i => k \in PendG'
      /\ \A k \in Of(th[t].ev.agg) : i < k => k \in PendG'
      /\ \A a : i \in Of(a) => a = th[t].ev.agg
      /\ i \in Of(th[t].ev.agg)
  BY <1>1, <1>2, <1>7, SaveLeaves DEF Of
<1>9. \A k \in PendP : log[k].agg # "goal" => k \in PendP'
  <2>0. LogKept BY <1>1, <1>2, KeptStays
  <2>1. PendKept(t) BY <1>1, <1>2, <1>b, <2>0, HandlingPends
  <2>2. \A k \in PendP : ~Loses(AfterProject, t, k) BY <1>1, PlacesDiffer DEF Loses
  <2> QED BY <2>1, <2>2 DEF PendKept
<1>10. SameGoal /\ \A q : SameProject(q) /\ (Readable(q)' <=> Readable(q))
  BY <1>1 DEF SameGoal, SameProject, Of, Readable
<1>11. \A q \in Projects : RowOf(q)' = RowOf(q) BY <1>1 DEF RowOf
<1>12. ASSUME NEW q \in Projects, q # th[t].ev.agg, Readable(q)',
              q \in ensureGoalState'.linked <=> q \in ensureGoalState.linked,
              q \in ensureGoalState'.completed <=> q \in ensureGoalState.completed
       PROVE  ProjectAgrees(q)' /\ LinksAgree(q)'
  <2>1. \A k \in Of(q) : log[k].agg # "goal" /\ k # i BY <1>8, <1>12, ReactionConstants DEF Of
  <2>2. ProjectAgrees(q) /\ LinksAgree(q) BY <1>2, <1>10, <1>12 DEF RowsAgree
  <2>3. \A k \in Of(q) \cap PendP : k \in PendP' BY <1>9, <2>1
  <2>4. \A k \in Of(q) \cap PendG : k \in PendG' BY <1>8, <2>1
  <2>5. SameProject(q) /\ RowOf(q)' = RowOf(q) BY <1>10, <1>11
  <2> QED BY <1>2, <1>3, <1>12, <2>2, <2>3, <2>4, <2>5, ProjectKept
<1>13. CASE th[t].ev.agg = "goal"
  <2>1. GoalAgrees'
    <3>1. i \in Of("goal") /\ \A k \in Of("goal") \cap PendG : k \in PendG' \/ k = i
      BY <1>8, <1>13
    <3>2. /\ log[i].type \in {"GoalAchieved", "GoalUnachieved"} =>
                 (ensureGoalState'.achieved <=> log[i].type = "GoalAchieved")
          /\ log[i].type \notin {"GoalAchieved", "GoalUnachieved"} =>
                 (ensureGoalState'.achieved <=> ensureGoalState.achieved)
          /\ log[i].type = "GoalArchived" => ensureGoalState'.archived
          /\ log[i].type # "GoalArchived" =>
                 (ensureGoalState'.archived <=> ensureGoalState.archived)
          /\ ensureGoalState'.version = th[t].ev.version
      BY <1>5, <1>6, <1>7, <1>13 DEF GoalAfterIs
    <3>3. (\A k \in Of("goal") : k <= i) => ensureGoalState'.version = log[i].version
      BY <1>7, <3>2
    <3>4. \A k \in Of("goal") : i < k => k \in PendG' BY <1>8, <1>13
    <3> QED BY <1>2, <1>10, <3>1, <3>2, <3>3, <3>4, GoalSaved DEF RowsAgree
  <2>2. ASSUME NEW q \in Projects, Readable(q)' PROVE ProjectAgrees(q)' /\ LinksAgree(q)'
    <3>1. q # th[t].ev.agg BY <1>13, ReactionConstants
    <3>2. /\ ensureGoalState'.linked = ensureGoalState.linked
          /\ ensureGoalState'.completed = ensureGoalState.completed
      BY <1>5, <1>6, <1>13 DEF GoalAfterIs
    <3> QED BY <1>12, <2>2, <3>1, <3>2
  <2> QED BY <2>1, <2>2 DEF RowsAgree
<1>14. CASE th[t].ev.agg # "goal"
  <2>a. PICK p \in Projects : p = th[t].ev.agg BY <1>7, <1>14 DEF ProjectEvents
  <2>b. log[i] = th[t].ev /\ th[t].ev \in ProjectEvents /\ p # "goal" BY <1>7, <1>14, <2>a
  <2>c. /\ th[t].proj = projRow[p]
        /\ th[t].ev.type # "ProjectGoalRemoved" => th[t].proj.linked
        /\ th[t].ev.type = "ProjectCreated" => th[t].ev.linked
    BY <1>1, <1>14, <1>b, <2>a DEF CopyInv, CopyOK
  <2>d. RowOf(p) = th[t].proj
    <3>1. NoRow \notin ProjectStates BY DEF NoRow, ProjectStates
    <3> QED BY <1>1, <2>c, <3>1 DEF RowOf
  <2>1. GoalAgrees'
    <3>1. /\ ensureGoalState'.achieved = ensureGoalState.achieved
          /\ ensureGoalState'.archived = ensureGoalState.archived
          /\ ensureGoalState'.version = ensureGoalState.version
      BY <1>5, <1>6, <1>14 DEF GoalAfterIs
    <3>2. \A k \in Of("goal") \cap PendG : k \in PendG' BY <1>8, <1>14
    <3> QED BY <1>2, <1>10, <3>1, <3>2, GoalKept DEF RowsAgree
  <2>2. /\ log[i].type = "ProjectGoalRemoved" =>
               /\ ensureGoalState'.linked = ensureGoalState.linked \ {p}
               /\ ensureGoalState'.completed = ensureGoalState.completed \ {p}
        /\ log[i].type # "ProjectGoalRemoved" =>
               /\ ensureGoalState'.linked = ensureGoalState.linked \cup {p}
               /\ RowOf(p).status = "completed" =>
                      ensureGoalState'.completed = ensureGoalState.completed \cup {p}
               /\ RowOf(p).status # "completed" /\ log[i].type = "ProjectStatusTransitioned" =>
                      ensureGoalState'.completed = ensureGoalState.completed \ {p}
               /\ RowOf(p).status # "completed" /\ log[i].type # "ProjectStatusTransitioned" =>
                      ensureGoalState'.completed = ensureGoalState.completed
    BY <1>5, <1>6, <1>14, <2>a, <2>b, <2>d DEF GoalAfterIs
  <2>3. ASSUME NEW q \in Projects, q # p, Readable(q)'
        PROVE  ProjectAgrees(q)' /\ LinksAgree(q)'
    <3>1. /\ q \in ensureGoalState'.linked <=> q \in ensureGoalState.linked
          /\ q \in ensureGoalState'.completed <=> q \in ensureGoalState.completed
      BY <2>2, <2>3
    <3> QED BY <1>12, <2>3, <2>a, <3>1
  <2>4. ASSUME Readable(p)' PROVE ProjectAgrees(p)' /\ LinksAgree(p)'
    <3>1. i \in Of(p) /\ \A k \in Of(p) : log[k].agg # "goal"
      BY <1>8, <2>a, ReactionConstants DEF Of
    <3>2. log[i].type \in {"ProjectCreated", "ProjectStatusTransitioned",
                           "ProjectGoalAdded", "ProjectGoalRemoved"}
      BY <2>b DEF ProjectEvents
    <3>3. \A k \in Of(p) \cap PendP : k \in PendP' BY <1>9, <3>1
    <3>4. /\ \A k \in Of(p) \cap PendG : k \in PendG' \/ k = i
          /\ \A k \in Of(p) : i < k => k \in PendG'
      BY <1>8, <2>a
    <3>5. ProjectAgrees(p) /\ LinksAgree(p) BY <1>2, <1>10, <2>4 DEF RowsAgree
    <3>6. SameProject(p) /\ RowOf(p)' = RowOf(p) BY <1>10, <1>11
    <3>7. /\ log[i].type # "ProjectGoalRemoved" => RowOf(p).linked
          /\ log[i].type = "ProjectCreated" => log[i].linked
      BY <2>b, <2>c, <2>d
    <3>8. /\ log[i].type = "ProjectGoalRemoved" =>
                 p \notin ensureGoalState'.linked /\ p \notin ensureGoalState'.completed
          /\ log[i].type # "ProjectGoalRemoved" => p \in ensureGoalState'.linked
          /\ log[i].type # "ProjectGoalRemoved" /\ RowOf(p).status = "completed" =>
                 p \in ensureGoalState'.completed
          /\ log[i].type = "ProjectStatusTransitioned" /\ RowOf(p).status # "completed" =>
                 p \notin ensureGoalState'.completed
          /\ log[i].type \in {"ProjectCreated", "ProjectGoalAdded"}
             /\ RowOf(p).status # "completed" =>
                 (p \in ensureGoalState'.completed <=> p \in ensureGoalState.completed)
      BY <2>2
    <3> QED
      BY <1>2, <1>3, <3>1, <3>2, <3>3, <3>4, <3>5, <3>6, <3>7, <3>8, LinkSaved
  <2> QED BY <2>1, <2>3, <2>4 DEF RowsAgree
<1> QED BY <1>13, <1>14

\* A step that commits nothing and saves nothing.
LEMMA StillAgrees ==
    ASSUME PublishInv, SagaInv, PublishInv', BatchInv', SaneInv', PendAll,
           UNCHANGED <<log, goalRow, projRow, crossed, phase>>
    PROVE  AgreeInv'
<1> SUFFICES ASSUME ~crossed', phase' = "live" PROVE RowsAgree'
  BY DEF AgreeInv, RowsAgree
<1>1. LogGood /\ RowsSane /\ RowsAgree BY AgreeNow
<1>2. LogGood' BY GoodNext
<1>3. Like(ensureGoalState', ensureGoalState) BY DEF ensureGoalState, Like
<1> QED BY <1>1, <1>2, <1>3, AgreeStays DEF RowsAgree, PendAll

\* A step after which everything is to be handled.
LEMMA SeedAgrees ==
    ASSUME PublishInv', BatchInv', SaneInv', PendFull
    PROVE  AgreeInv'
<1> SUFFICES ASSUME ~crossed' PROVE RowsAgree'
  BY AgreeFrom
<1>1. LogGood' /\ RowsSane' BY GoodNext
<1>2. \A i \in 1..Len(log') : CanRead(log'[i]) => i \in PendP' /\ i \in PendG' BY DEF PendFull
<1> QED BY <1>1, <1>2, AfreshAgreesNext DEF RowsAgree

\* A user's event.
LEMMA UserAgrees ==
    ASSUME PublishInv, SagaInv, PublishInv', BatchInv', SaneInv', PendAll, UserEffect
    PROVE  AgreeInv'
<1> SUFFICES ASSUME ~crossed', phase' = "live" PROVE RowsAgree'
  BY DEF AgreeInv, RowsAgree
<1>a. UNCHANGED <<cursor, phase, goalRow, projRow, th, crossed>> BY DEF UserEffect
<1>1. LogGood /\ RowsSane /\ RowsAgree BY <1>a, AgreeNow
<1>2. LogGood' /\ RowsSane' BY GoodNext
<1>3. PICK x \in Events : Commits(x) BY DEF UserEffect
<1>4. CanRead(x) => Len(log) + 1 \in PendG' /\ Len(log) + 1 \in PendP'
  <2>1. BatchInv /\ phase # "down" BY <1>a DEF SagaInv
  <2>2. \A s \in Streams : th'[s].upTo = th[s].upTo BY <1>a
  <2> QED BY <1>a, <1>3, <2>1, <2>2, NewPends
<1> QED BY <1>1, <1>2, <1>3, <1>4, <1>a, CommitAgrees DEF PendAll

-----------------------------------------------------------------------------
(* The version of the goal *)

Versioned ==
    \/ th["boot"].pc = "seed" \/ InBatch("boot", 1)
    \/ goalRow # NoRow /\ goalRow.version > 0

\* VersionInv of the next state.
LEMMA VersionFrom ==
    ASSUME SagaInv, phase' = phase, crossed => crossed',
           phase = "live" /\ ~crossed' /\ Versioned => Versioned'
    PROVE  VersionInv'
<1>1. phase = "live" /\ ~crossed => Versioned BY DEF SagaInv, VersionInv, Versioned
<1>2. phase' = "live" /\ ~crossed' => Versioned' BY <1>1
<1> QED BY <1>2 DEF VersionInv, Versioned

\* bootstrap did not move, and the row was not written.
LEMMA VersionSame ==
    ASSUME SagaInv, phase' = phase, crossed => crossed', goalRow' = goalRow,
           SameThread("boot") \/ (th["boot"].pc # "seed" /\ ~InBatch("boot", 1))
    PROVE  VersionInv'
<1>1. Versioned => Versioned' BY DEF Versioned, InBatch, SameThread
<1> QED BY <1>1, VersionFrom

\* HandleEvent keeps VersionInv.
LEMMA HandleVersion ==
    ASSUME SagaInv, NEW t \in Threads, HandleEffect(t)
    PROVE  VersionInv'
<1>1. /\ Handling(t) /\ goalRow' = goalRow /\ crossed' = crossed /\ phase' = phase
      /\ th[t].pc = "next" /\ th'[t].batch = th[t].batch
  BY DEF HandleEffect, Handles, Handling
<1>2. InBatch("boot", 1) => InBatch("boot", 1)'
  BY <1>1, StreamsAreThreads DEF InBatch, Handling, Untouched, SameThread
<1>3. th["boot"].pc = "seed" => th'["boot"].pc = "seed"
  BY <1>1, StreamsAreThreads DEF Handling, Untouched, SameThread
<1>4. Versioned => Versioned' BY <1>1, <1>2, <1>3 DEF Versioned
<1> QED BY <1>1, <1>4, VersionFrom

\* SaveProject keeps VersionInv.
LEMMA SaveProjectVersion ==
    ASSUME PublishInv, SagaInv, NEW t \in Threads, SaveProjectEffect(t)
    PROVE  VersionInv'
<1>1. /\ Handling(t) /\ goalRow' = goalRow /\ (crossed => crossed') /\ phase' = phase
      /\ th[t].pc = "saveProject"
  BY DEF SaveProjectEffect, Handling
<1>2. CASE t = "boot"
  <2>1. ~InBatch("boot", 1) BY <1>1, <1>2, FirstIsGoal
  <2> QED BY <1>1, <1>2, <2>1, VersionSame
<1>3. CASE t # "boot"
  <2>1. SameThread("boot") BY <1>1, <1>3, StreamsAreThreads DEF Handling, Untouched
  <2> QED BY <1>1, <2>1, VersionSame
<1> QED BY <1>2, <1>3

\* SaveGoal keeps VersionInv: bootstrap starts with an event of the goal.
LEMMA SaveGoalVersion ==
    ASSUME PublishInv, SagaInv, NEW t \in Threads, SaveGoalEffect(t)
    PROVE  VersionInv'
<1>a. BatchInv /\ Sane(log) /\ LogOK /\ CopyInv BY DEF SagaInv, SaneInv, PublishInv, ShapesOK
<1>1. /\ Handling(t) /\ (crossed => crossed') /\ phase' = phase /\ th[t].pc = "saveGoal"
      /\ th[t].ev \in Events /\ th[t].goal \in GoalStates
      /\ th[t].stale => crossed'
      /\ goalRow' = GoalAfter(th[t].goal, th[t].ev, th[t].proj) /\ goalRow' # NoRow
  BY DEF SaveGoalEffect, Handling
<1>2. GoalAfterIs(th[t].goal, th[t].ev, th[t].proj) BY <1>1, GoalAfterOK
<1>3. CASE th[t].ev.agg = "goal"
  <2>1. th[t].ev.version > 0 BY <1>a, <1>1, <1>3, HandledEvent
  <2>2. goalRow'.version > 0 BY <1>1, <1>2, <1>3, <2>1 DEF GoalAfterIs
  <2>3. Versioned' BY <1>1, <2>2 DEF Versioned
  <2> QED BY <1>1, <2>3, VersionFrom
<1>4. CASE th[t].ev.agg # "goal"
  <2> SUFFICES ASSUME ~crossed', Versioned PROVE Versioned'
    BY <1>1, VersionFrom
  <2>1. th[t].goal = ensureGoalState BY <1>a, <1>1 DEF CopyInv, CopyOK, HoldsGoal
  <2>2. goalRow'.version = ensureGoalState.version
    BY <1>1, <1>2, <1>4, <2>1 DEF GoalAfterIs
  <2>3. CASE goalRow # NoRow /\ goalRow.version > 0
    BY <1>1, <2>2, <2>3 DEF Versioned, ensureGoalState
  <2>4. CASE th["boot"].pc = "seed" \/ InBatch("boot", 1)
    <3>1. t # "boot"
      <4> SUFFICES ASSUME t = "boot", NEW f \in th["boot"].batch, f.seq = 1 PROVE FALSE
        BY <1>1, <2>4 DEF InBatch
      <4>1. th[t].ev.seq <= 1 BY <1>a, <1>1, HandledOK DEF Handled, Least
      <4>2. th[t].ev.seq \in 1..Len(log) /\ log[th[t].ev.seq].agg = th[t].ev.agg
        BY <1>a, <1>1, HandledEvent
      <4>3. th[t].ev.seq = 1 BY <1>a, <4>1, <4>2, LogTyped
      <4> QED BY <1>a, <1>4, <4>2, <4>3 DEF LogOK
    <3>2. SameThread("boot") BY <1>1, <3>1, StreamsAreThreads DEF Handling, Untouched
    <3> QED BY <2>4, <3>2 DEF Versioned, InBatch, SameThread
  <2> QED BY <2>3, <2>4 DEF Versioned
<1> QED BY <1>3, <1>4

\* The decisions keep VersionInv.
LEMMA AskVersion ==
    ASSUME PublishInv, SagaInv, NEW t \in Threads, AskEffect(t)
    PROVE  VersionInv'
<1>1. /\ Handling(t) /\ (crossed => crossed') /\ phase' = phase /\ th[t].pc \in AfterGoal
  BY DEF AskEffect, Handling
<1>2. SameThread("boot") \/ (th["boot"].pc # "seed" /\ ~InBatch("boot", 1))
  <2>1. CASE t = "boot"
    BY <1>1, <2>1, PlacesDiffer DEF PublishInv, ShapesOK, ThreadsOK, InBatch
  <2>2. CASE t # "boot" BY <1>1, <2>2, StreamsAreThreads DEF Handling, Untouched
  <2> QED BY <2>1, <2>2
<1>3. CASE goalRow' = goalRow BY <1>1, <1>2, <1>3, VersionSame
<1>4. CASE Writes(t)
  <2> SUFFICES ASSUME ~crossed', Versioned PROVE Versioned'
    BY <1>1, VersionFrom
  <2>1. ~th[t].stale /\ th[t].pc \in HoldsGoal BY <1>4 DEF Writes, HoldsGoal
  <2>2. th[t].goal = ensureGoalState BY <2>1 DEF SagaInv, CopyInv, CopyOK
  <2>3. goalRow' # NoRow /\ goalRow'.version = ensureGoalState.version
    BY <1>4, <2>2 DEF Writes, Like
  <2>4. CASE goalRow # NoRow /\ goalRow.version > 0
    BY <2>3, <2>4 DEF Versioned, ensureGoalState
  <2>5. CASE SameThread("boot") /\ (th["boot"].pc = "seed" \/ InBatch("boot", 1))
    BY <2>5 DEF Versioned, InBatch, SameThread
  <2> QED BY <1>2, <2>4, <2>5 DEF Versioned
<1> QED BY <1>3, <1>4 DEF AskEffect, GoesOn, Ends

-----------------------------------------------------------------------------
(* Achieving what is due *)

Wanted ==
    /\ phase = "live" /\ ~crossed /\ ~refused /\ ~overtaken /\ ~manual
    /\ NoRemoval /\ goalRow # NoRow /\ AllCompleted(goalRow)
Settled == IsAchieved \/ IsArchived \/ \E t \in Threads : Asks(t)

\* DueInv of the next state.
LEMMA DueFrom ==
    ASSUME SagaInv, Wanted' => Settled' \/ (Wanted /\ (Settled => Settled'))
    PROVE  DueInv'
<1>1. Wanted => Settled BY DEF SagaInv, DueInv, Wanted, Settled
<1>2. Wanted' => Settled' BY <1>1
<1> QED BY <1>2 DEF DueInv, Wanted, Settled

\* A goal without a row has no completed projects.
LEMMA NoRowIsNotDue ==
    /\ AllCompleted(ensureGoalState) <=> goalRow # NoRow /\ AllCompleted(goalRow)
  BY DEF AllCompleted, ensureGoalState, emptyGoalState

\* Threads that a step leaves alone still ask.
LEMMA StillAsks ==
    ASSUME NEW u \in Threads, Untouched(u, {}), seeded' = seeded, Asks(u)
    PROVE  Asks(u)'
  BY DEF Asks, Untouched, SameThread, AllCompleted

\* A step that commits nothing; t need not go on asking when it is settled.
LEMMA DueKept ==
    ASSUME PublishInv, SagaInv, log' = log, phase' = phase, manual' = manual,
           seeded' = seeded, crossed => crossed', refused => refused',
           overtaken => overtaken', NEW t \in Threads,
           \A u \in Threads \ {t} : Untouched(u, {}),
           Wanted' => AllCompleted(ensureGoalState),
           Wanted' /\ Asks(t) => Asks(t)' \/ IsAchieved \/ IsArchived
    PROVE  DueInv'
<1> SUFFICES ASSUME Wanted', Settled PROVE Wanted /\ Settled'
  <2>1. Wanted' => Wanted BY NoRowIsNotDue DEF Wanted, NoRemoval
  <2> QED BY <2>1, DueFrom
<1>1. Wanted BY NoRowIsNotDue DEF Wanted, NoRemoval
<1>2. (IsAchieved' <=> IsAchieved) /\ (IsArchived' <=> IsArchived)
  <2>1. SameGoal /\ LogOK BY DEF SameGoal, Of, PublishInv, ShapesOK
  <2> QED BY <2>1, GoalSame
<1>3. ASSUME NEW u \in Threads, Asks(u) PROVE Settled'
  <2>1. CASE u = t BY <1>2, <1>3, <2>1 DEF Settled
  <2>2. CASE u # t
    <3>1. Asks(u)' BY <1>3, <2>2, StillAsks
    <3> QED BY <3>1 DEF Settled
  <2> QED BY <2>1, <2>2
<1> QED BY <1>1, <1>2, <1>3 DEF Settled

\* HandleEvent keeps DueInv.
LEMMA HandleDue ==
    ASSUME PublishInv, SagaInv, NEW t \in Threads, HandleEffect(t)
    PROVE  DueInv'
<1>1. /\ Handling(t) /\ UNCHANGED <<log, goalRow>> /\ th[t].pc = "next"
      /\ UNCHANGED <<phase, seeded, manual>>
      /\ \A u \in Threads \ {t} : Untouched(u, {})
      /\ crossed => crossed'
      /\ refused => refused'
      /\ overtaken => overtaken'
  BY DEF HandleEffect, Handles, Handling
<1>2. Wanted' => AllCompleted(ensureGoalState) BY <1>1, NoRowIsNotDue DEF Wanted
<1>3. Asks(t) => Asks(t)' BY <1>1 DEF Asks
<1> QED BY <1>1, <1>2, <1>3, DueKept

\* SaveProject keeps DueInv.
LEMMA SaveProjectDue ==
    ASSUME PublishInv, SagaInv, NEW t \in Threads, SaveProjectEffect(t)
    PROVE  DueInv'
<1>1. /\ UNCHANGED <<log, goalRow>> /\ th[t].pc = "saveProject"
      /\ UNCHANGED <<phase, seeded, manual>>
      /\ \A u \in Threads \ {t} : Untouched(u, {})
      /\ crossed => crossed'
      /\ refused => refused'
      /\ overtaken => overtaken'
  BY DEF SaveProjectEffect, Handling
<1>2. Wanted' => AllCompleted(ensureGoalState) BY <1>1, NoRowIsNotDue DEF Wanted
<1>3. Asks(t) => Asks(t)' BY <1>1 DEF Asks
<1> QED BY <1>1, <1>2, <1>3, DueKept

\* SaveGoal keeps DueInv: the thread that completes the last project asks next.
LEMMA SaveGoalDue ==
    ASSUME PublishInv, SagaInv, PublishInv', VersionInv', NEW t \in Threads, SaveGoalEffect(t)
    PROVE  DueInv'
<1>1. /\ UNCHANGED log /\ th[t].pc = "saveGoal" /\ th[t].goal \in GoalStates
      /\ UNCHANGED <<phase, seeded, manual>>
      /\ \A u \in Threads \ {t} : Untouched(u, {})
      /\ crossed => crossed'
      /\ refused => refused'
      /\ overtaken => overtaken'
      /\ th[t].stale => crossed'
      /\ goalRow' = GoalAfter(th[t].goal, th[t].ev, th[t].proj) /\ th[t].ev \in Events
  BY DEF SaveGoalEffect, Handling
<1>2. CASE t \in Streams /\ th'[t].pc = "ask" /\ th'[t].goal = goalRow'
  <2>1. ASSUME Wanted' PROVE Settled'
    <3>1. \/ th'["boot"].pc = "seed" \/ InBatch("boot", 1)'
          \/ goalRow'.version > 0
      BY <2>1 DEF Wanted, VersionInv
    <3>2. InBatch("boot", 1)' => seeded'
      BY DEF PublishInv, ShapesOK, ThreadsOK, InBatch
    <3>3. th'["boot"].pc = "seed" \/ seeded' => Asks("boot")' BY DEF Asks
    <3>4. goalRow'.version > 0 => Asks(t)' BY <1>2, <2>1 DEF Asks, Wanted
    <3> QED BY <3>1, <3>2, <3>3, <3>4, StreamsAreThreads DEF Settled
  <2> QED BY <2>1, DueFrom
<1>3. CASE t = "boot"
  <2>1. seeded BY <1>1, <1>3 DEF PublishInv, ShapesOK, ThreadsOK
  <2>2. Asks("boot")' BY <1>1, <2>1 DEF Asks
  <2>3. Settled' BY <2>2, StreamsAreThreads DEF Settled
  <2> QED BY <2>3, DueFrom
<1>4. CASE t \in Streams /\ th[t].ev.agg = "goal"
  <2>1. GoalAfterIs(th[t].goal, th[t].ev, th[t].proj) BY <1>1, GoalAfterOK
  <2>2. goalRow'.linked = th[t].goal.linked /\ goalRow'.completed = th[t].goal.completed
    BY <1>1, <1>4, <2>1 DEF GoalAfterIs
  <2>3. ASSUME Wanted' PROVE AllCompleted(ensureGoalState)
    <3>1. ~th[t].stale BY <1>1, <2>3 DEF Wanted
    <3>2. th[t].goal = ensureGoalState
      BY <1>1, <3>1 DEF SagaInv, CopyInv, CopyOK, HoldsGoal
    <3> QED BY <2>2, <2>3, <3>2 DEF Wanted, AllCompleted
  <2>4. ~Asks(t) BY <1>1, <1>4, StreamsAreThreads DEF Asks
  <2> QED BY <1>1, <2>3, <2>4, DueKept
<1> QED BY <1>2, <1>3, <1>4, StreamsAreThreads DEF SaveGoalEffect

\* What a commit does to the achievement.
LEMMA CommitTurns ==
    ASSUME LogOK, NEW x, Commits(x)
    PROVE  /\ x.agg = "goal" /\ x.type = "GoalAchieved" => IsAchieved'
           /\ IsAchieved /\ x.type # "GoalUnachieved" => IsAchieved'
<1>a. Len(log) \in Nat BY LogTyped
<1>b. PICK n \in Nat : n = Len(log) + 1 BY <1>a
<1>c. 1..Len(log') = 1..Len(log) \cup {n} /\ n \in 1..Len(log') /\ log'[n] = x
  BY <1>a, <1>b DEF Commits
<1>d. Turns \in SUBSET (1..Len(log)) /\ Turns' \in SUBSET (1..Len(log')) BY DEF Turns, Of
<1>e. \A j \in 1..Len(log) : log'[j] = log[j] BY DEF Commits
<1>1. ASSUME x.agg = "goal", x.type = "GoalAchieved" PROVE IsAchieved'
  <2>1. n \in Turns' BY <1>1, <1>c DEF Turns, Of
  <2>2. \A k \in Turns' : k <= n BY <1>a, <1>b, <1>c, <1>d
  <2>3. Turns' \in SUBSET (1..n) BY <1>a, <1>b, <1>d DEF Commits
  <2>4. LastOf(Turns') = n BY <2>1, <2>2, <2>3, LastIs
  <2>5. LastOf(Turns)' = n BY <2>4 DEF LastOf
  <2> QED BY <1>1, <1>c, <2>1, <2>5 DEF IsAchieved
<1>2. ASSUME IsAchieved, x.type # "GoalUnachieved", x.type # "GoalAchieved" PROVE IsAchieved'
  <2>1. Turns' = Turns BY <1>2, <1>c, <1>e DEF Turns, Of
  <2>2. LastOf(Turns) \in Turns BY <1>2, <1>a, <1>d, LastPosition DEF IsAchieved
  <2>3. LastOf(Turns)' = LastOf(Turns) BY <2>1 DEF LastOf
  <2> QED BY <1>2, <1>d, <1>e, <2>1, <2>2, <2>3 DEF IsAchieved
<1>3. ASSUME IsAchieved, x.type = "GoalAchieved", x.agg # "goal" PROVE IsAchieved'
  <2>1. Turns' = Turns BY <1>3, <1>c, <1>e DEF Turns, Of
  <2>2. LastOf(Turns) \in Turns BY <1>3, <1>a, <1>d, LastPosition DEF IsAchieved
  <2>3. LastOf(Turns)' = LastOf(Turns) BY <2>1 DEF LastOf
  <2> QED BY <1>3, <1>d, <1>e, <2>1, <2>2, <2>3 DEF IsAchieved
<1> QED BY <1>1, <1>2, <1>3

\* Users keep DueInv, unless one takes an achievement back.
LEMMA UserDue ==
    ASSUME PublishInv, SagaInv, UserEffect
    PROVE  DueInv'
<1>a. LogOK BY DEF PublishInv, ShapesOK
<1>1. /\ UNCHANGED <<phase, goalRow, seeded, th, crossed, refused, overtaken>>
      /\ manual => manual'
  BY DEF UserEffect
<1>2. PICK x \in Events : Commits(x) /\ (x.type = "GoalUnachieved" => manual')
  BY DEF UserEffect
<1>3. LogKept /\ OnceKept BY <1>a, <1>2, KeptCommits, OnceStays
<1>4. Wanted' => Wanted
  <2>1. NoRemoval' => NoRemoval BY <1>3, KeptRead DEF NoRemoval, LogKept
  <2>2. AllCompleted(goalRow)' <=> AllCompleted(goalRow) BY <1>1 DEF AllCompleted
  <2> QED BY <1>1, <2>1, <2>2 DEF Wanted
<1>5. Wanted' /\ IsAchieved => IsAchieved' BY <1>a, <1>2, CommitTurns DEF Wanted
<1>6. IsArchived => IsArchived' BY <1>3 DEF OnceKept
<1>7. \A t \in Threads : Asks(t) => Asks(t)' BY <1>1 DEF Asks, AllCompleted
<1> QED BY <1>4, <1>5, <1>6, <1>7, DueFrom DEF Settled

\* The handler of a removal does not come to where the saga asks.
LEMMA NoRemovalAsks ==
    ASSUME PublishInv, SagaInv, NoRemoval, NEW t \in Threads, th[t].pc \in AfterGoal
    PROVE  th[t].ev.type # "ProjectGoalRemoved"
<1>a. ThreadHolds(t) /\ PlaceOK(t) BY DEF SagaInv, BatchInv, ThreadHolds
<1>1. CASE t = "boot"
  <2>1. th[t].ev = NoEvent BY <1>a, <1>1 DEF PlaceOK
  <2> QED BY <2>1 DEF NoEvent
<1>2. CASE t \in Streams
  <2>1. th[t].ev \in th[t].batch BY <1>a, <1>2 DEF PlaceOK
  <2>2. Same(th[t].ev, th[t].ev.seq) BY <1>a, <2>1 DEF ThreadHolds
  <2> QED BY <2>2 DEF Same, NoRemoval
<1> QED BY <1>1, <1>2, StreamsAreThreads

\* A thread that decides or dispatches asks by its copy of the row.
LEMMA AsksByCopy ==
    ASSUME PublishInv, NEW t \in Threads, th[t].pc \in AfterGoal
    PROVE  Asks(t) <=> /\ th[t].pc \in {"ask", "dispatch"}
                       /\ AllCompleted(th[t].goal) /\ th[t].goal.version > 0
<1>1. t = "boot" => ~seeded /\ th[t].pc # "seed"
  BY PlacesDiffer DEF PublishInv, ShapesOK, ThreadsOK
<1> QED BY <1>1 DEF Asks

\* The decisions keep DueInv: whoever stops asking has achieved the goal, or was
\* refused or overtaken.
LEMMA AskDue ==
    ASSUME PublishInv, SagaInv, FlagOK, NEW t \in Threads, AskStep(t)
    PROVE  DueInv'
<1>a. AskEffect(t) BY AskEffects
<1>b. /\ UNCHANGED <<phase, manual, seeded>> /\ th[t].pc \in AfterGoal
      /\ \A u \in Threads \ {t} : Untouched(u, {})
      /\ crossed => crossed'
      /\ refused => refused'
      /\ overtaken => overtaken'
  BY <1>a DEF AskEffect, Handling
<1>c. LogOK /\ "boot" \in Threads BY StreamsAreThreads DEF PublishInv, ShapesOK
<1>d. Asks(t) <=> /\ th[t].pc \in {"ask", "dispatch"}
                  /\ AllCompleted(th[t].goal) /\ th[t].goal.version > 0
  BY <1>b, AsksByCopy
<1>e. goalRow' = goalRow => (Wanted' => AllCompleted(ensureGoalState))
  BY NoRowIsNotDue DEF Wanted
<1>f. ASSUME log' = log, Wanted' PROVE th[t].ev.type # "ProjectGoalRemoved"
  <2>1. NoRemoval BY <1>f DEF Wanted, NoRemoval
  <2> QED BY <1>b, <2>1, NoRemovalAsks
<1>1. CASE AskNothing(t)
  <2>1. seeded' BY <1>1 DEF AskNothing, FlagOK
  <2>2. Asks("boot")' BY <2>1 DEF Asks
  <2>3. Settled' BY <1>c, <2>2 DEF Settled
  <2> QED BY <2>3, DueFrom
<1>2. CASE AskInVain(t)
  <2>1. log' = log /\ goalRow' = goalRow /\ ~ShouldAchieve(t)
        /\ overtaken' = (overtaken \/ (th[t].goal.achieved /\ ~IsAchieved))
    BY <1>2 DEF AskInVain
  <2>2. ASSUME Wanted', Asks(t) PROVE IsAchieved \/ IsArchived
    <3>1. th[t].goal.achieved \/ th[t].goal.archived
      BY <1>d, <1>f, <2>1, <2>2 DEF ShouldAchieve
    <3>2. th[t].goal.achieved => IsAchieved BY <2>1, <2>2 DEF Wanted
    <3>3. th[t].goal.archived => IsArchived
      BY DEF SagaInv, SaneInv, ThreadSane, GoalSane
    <3> QED BY <3>1, <3>2, <3>3
  <2> QED BY <1>b, <1>e, <2>1, <2>2, DueKept
<1>3. CASE RequestAchievement(t)
  <2>1. log' = log /\ ShouldAchieve(t) /\ th[t].pc = "ask"
        /\ WriteGoal(t, [th[t].goal EXCEPT !.requested = TRUE], "dispatch")
    BY <1>3 DEF RequestAchievement, MayAsk
  <2>2. Writes(t) /\ th'[t].pc = "dispatch" BY <2>1, WriteEffects
  <2>3. AllCompleted(th[t].goal) /\ th[t].goal.version > 0 BY <2>1 DEF ShouldAchieve
  <2>4. Like(th'[t].goal, th[t].goal) BY <2>2 DEF Writes
  <2>5. Asks(t)' BY <2>2, <2>3, <2>4 DEF Asks, AllCompleted, Like
  <2> QED BY <2>5, DueFrom DEF Settled
<1>4. CASE AskUnachievement(t)
  <2>1. log' = log /\ goalRow' = goalRow /\ ShouldUnachieve(t) BY <1>4 DEF AskUnachievement
  <2>2. ~Asks(t) BY <1>d, <2>1 DEF ShouldUnachieve
  <2> QED BY <1>b, <1>e, <2>1, <2>2, DueKept
<1>5. CASE DispatchAchieve(t)
  <2>0. goalRow' = goalRow /\ overtaken' = (overtaken \/ (AchieveKey(t) \in idem /\ ~IsAchieved))
    BY <1>5 DEF DispatchAchieve
  <2>2. CASE AchieveKey(t) \in idem
    <3>1. log' = log BY <1>5, <2>2 DEF DispatchAchieve
    <3>2. Wanted' => IsAchieved BY <2>0, <2>2 DEF Wanted
    <3> QED BY <1>b, <1>e, <2>0, <3>1, <3>2, DueKept
  <2>3. CASE AchieveKey(t) \notin idem /\ th[t].goal.version # GoalVersion
    <3>1. refused' BY <1>5, <2>3 DEF DispatchAchieve
    <3>2. ~Wanted' BY <3>1 DEF Wanted
    <3> QED BY <3>2, DueFrom
  <2>4. CASE AchieveKey(t) \notin idem /\ th[t].goal.version = GoalVersion
             /\ (IsAchieved \/ IsArchived)
    <3>1. log' = log BY <1>5, <2>4 DEF DispatchAchieve
    <3> QED BY <1>b, <1>e, <2>0, <2>4, <3>1, DueKept
  <2>5. CASE AchieveKey(t) \notin idem /\ th[t].goal.version = GoalVersion
             /\ ~(IsAchieved \/ IsArchived)
    <3>1. Commit(GoalEvent("GoalAchieved")) BY <1>5, <2>5 DEF DispatchAchieve
    <3>2. GoalEvent("GoalAchieved") \in Events BY <1>c, GoalEventOK
    <3>3. Commits(GoalEvent("GoalAchieved")) BY <1>c, <3>1, <3>2, AppendCommits DEF Commit
    <3>4. GoalEvent("GoalAchieved").agg = "goal" /\ GoalEvent("GoalAchieved").type = "GoalAchieved"
      BY DEF GoalEvent
    <3>5. IsAchieved' BY <1>c, <3>3, <3>4, CommitTurns
    <3> QED BY <3>5, DueFrom DEF Settled
  <2> QED BY <2>2, <2>3, <2>4, <2>5
<1>6. CASE FailAchieve(t)
  <2>1. ~Wanted' BY <1>6 DEF FailAchieve, Wanted
  <2> QED BY <2>1, DueFrom
<1>7. CASE UndoRequest(t)
  <2>1. log' = log /\ th[t].pc = "undo"
        /\ WriteGoal(t, [th[t].goal EXCEPT !.requested = FALSE], "undone")
    BY <1>7 DEF UndoRequest
  <2>2. Writes(t) BY <2>1, WriteEffects
  <2>3. ASSUME Wanted' PROVE AllCompleted(ensureGoalState)
    <3>1. ~th[t].stale /\ Like(goalRow', th[t].goal) BY <2>2, <2>3 DEF Wanted, Writes
    <3>2. th[t].goal = ensureGoalState
      BY <2>1, <3>1 DEF SagaInv, CopyInv, CopyOK, HoldsGoal
    <3> QED BY <2>3, <3>1, <3>2 DEF Wanted, AllCompleted, Like
  <2>4. ~Asks(t) BY <1>d, <2>1
  <2> QED BY <1>b, <2>1, <2>3, <2>4, DueKept
<1>8. CASE Undone(t) \/ UnachieveThrows(t)
  <2>1. log' = log /\ goalRow' = goalRow /\ th[t].pc \in {"undone", "unachieve"}
    BY <1>8 DEF Undone, UnachieveThrows
  <2>2. ~Asks(t) BY <1>d, <2>1
  <2> QED BY <1>b, <1>e, <2>1, <2>2, DueKept
<1>9. CASE DispatchUnachieve(t)
  <2>1. goalRow' = goalRow /\ overtaken' = (overtaken \/ AllCompleted(ensureGoalState))
    BY <1>9 DEF DispatchUnachieve
  <2>2. ~Wanted' BY <1>e, <2>1 DEF Wanted
  <2> QED BY <2>2, DueFrom
<1> QED BY <1>1, <1>2, <1>3, <1>4, <1>5, <1>6, <1>7, <1>8, <1>9 DEF AskStep

-----------------------------------------------------------------------------
(* Every step *)

\* A step that commits nothing keeps the log.
LEMMA SaneSame ==
    ASSUME PublishInv, SagaInv, log' = log
    PROVE  Sane(log)' /\ LogKept /\ LogOK
<1>1. Sane(log) /\ LogOK BY DEF SagaInv, SaneInv, PublishInv, ShapesOK
<1> QED BY <1>1, KeptStays DEF Sane

\* The parts of SagaInv.
LEMMA SagaFrom ==
    ASSUME BatchInv', SaneInv', CopyInv', AgreeInv', VersionInv', DueInv'
    PROVE  SagaInv'
  BY DEF SagaInv

\* As long as the saga has not subscribed there is nothing to agree about.
LEMMA NotLive ==
    ASSUME phase' # "live"
    PROVE  AgreeInv' /\ VersionInv' /\ DueInv'
  BY DEF AgreeInv, VersionInv, DueInv

\* The handlers keep SagaInv.
LEMMA HandlerSaga ==
    ASSUME PublishInv, SagaInv, FlagOK, PublishInv', NEW t \in Threads,
           Handler(t) \/ FailAchieve(t)
    PROVE  SagaInv'
<1>a. LogOK /\ BatchInv /\ Sane(log) BY DEF PublishInv, ShapesOK, SagaInv, SaneInv
<1>1. CASE HandleEvent(t)
  <2>1. HandleEffect(t) BY <1>1, HandleEffects
  <2>2. Handling(t) /\ LogKept BY <2>1, SaneSame DEF HandleEffect
  <2>3. BatchInv' BY <1>a, <2>2, HandlingHolds
  <2>4. SaneInv' BY <2>1, HandleSane
  <2>5. CopyInv' /\ AgreeInv' /\ VersionInv' /\ DueInv'
    BY <2>1, <2>3, <2>4, HandleCopies, HandleAgrees, HandleVersion, HandleDue
  <2> QED BY <2>3, <2>4, <2>5, SagaFrom
<1>2. CASE SaveProject(t)
  <2>1. SaveProjectEffect(t) BY <1>2, SaveProjectEffects
  <2>2. Handling(t) /\ LogKept BY <2>1, SaneSame DEF SaveProjectEffect
  <2>3. BatchInv' BY <1>a, <2>2, HandlingHolds
  <2>4. SaneInv' BY <2>1, SaveProjectSane
  <2>5. CopyInv' /\ AgreeInv' /\ VersionInv' /\ DueInv'
    BY <2>1, <2>3, <2>4, SaveProjectCopies, SaveProjectAgrees, SaveProjectVersion, SaveProjectDue
  <2> QED BY <2>3, <2>4, <2>5, SagaFrom
<1>3. CASE SaveGoal(t)
  <2>1. SaveGoalEffect(t) BY <1>3, SaveGoalEffects
  <2>2. Handling(t) /\ LogKept BY <2>1, SaneSame DEF SaveGoalEffect
  <2>3. BatchInv' BY <1>a, <2>2, HandlingHolds
  <2>4. SaneInv' BY <2>1, SaveGoalSane
  <2>5. CopyInv' /\ AgreeInv' /\ VersionInv'
    BY <2>1, <2>3, <2>4, SaveGoalCopies, SaveGoalAgrees, SaveGoalVersion
  <2>6. DueInv' BY <2>1, <2>5, SaveGoalDue
  <2> QED BY <2>3, <2>4, <2>5, <2>6, SagaFrom
<1>4. CASE AskStep(t)
  <2>1. AskEffect(t) BY <1>4, AskEffects
  <2>2. Handling(t) /\ LogKept BY <1>a, <2>1, AskKept DEF AskEffect
  <2>3. BatchInv' BY <1>a, <2>2, HandlingHolds
  <2>4. SaneInv' BY <2>1, AskSane
  <2>5. CopyInv' /\ AgreeInv' /\ VersionInv' /\ DueInv'
    BY <1>4, <2>1, <2>2, <2>3, <2>4, AskCopies, AskAgrees, AskVersion, AskDue
  <2> QED BY <2>3, <2>4, <2>5, SagaFrom
<1> QED BY <1>1, <1>2, <1>3, <1>4 DEF Handler, AskStep

\* The publisher keeps SagaInv.
LEMMA PublisherSaga ==
    ASSUME PublishInv, SagaInv, PublishInv', NEW s \in Streams, PublisherEffect(s)
    PROVE  SagaInv'
<1>a. s \in Threads /\ s # "boot" /\ "boot" \in Threads BY StreamsAreThreads
<1>1. /\ UNCHANGED <<log, phase, seeded, goalRow, projRow, crossed, refused, overtaken, manual>>
      /\ \A u \in Threads \ {s} : Untouched(u, {})
      /\ th[s].pc \in {"idle", "next"} /\ th'[s].pc \in {"idle", "next"}
      /\ th'[s].goal \in {th[s].goal, emptyGoalState}
      /\ BatchInv' /\ (phase = "live" => PendAll)
  BY DEF PublisherEffect
<1>2. Sane(log)' /\ LogKept BY <1>1, SaneSame
<1>3. SameThread("boot") BY <1>1, <1>a DEF Untouched
<1>4. SaneInv'
  <2>1. SaneInv BY DEF SagaInv
  <2> QED BY <1>1, <1>2, <2>1, OtherSane
<1>5. CopyInv'
  <2>1. InBatch("boot", 1) => InBatch("boot", 1)' BY <1>3 DEF SameThread, InBatch
  <2>2. CopyInv BY DEF SagaInv
  <2> QED BY <1>1, <2>1, <2>2, OtherCopies
<1>6. AgreeInv'
  <2>1. CASE phase = "live" BY <1>1, <1>4, <2>1, StillAgrees
  <2>2. CASE phase # "live" BY <1>1, <2>2, NotLive
  <2> QED BY <2>1, <2>2
<1>7. VersionInv' BY <1>1, <1>3, VersionSame
<1>8. DueInv'
  <2>1. Wanted' => AllCompleted(ensureGoalState) BY <1>1, NoRowIsNotDue DEF Wanted
  <2>2. ~Asks(s) BY <1>1, <1>a DEF Asks
  <2> QED BY <1>1, <1>a, <2>1, <2>2, DueKept
<1> QED BY <1>1, <1>4, <1>5, <1>6, <1>7, <1>8, SagaFrom

\* bootstrap() and the seed after a rebase keep SagaInv.
LEMMA SeedSaga ==
    ASSUME PublishInv, SagaInv, PublishInv', ReadSeed, phase' = "live",
           UNCHANGED <<log, cursor, goalRow, projRow>>, phase = "live" => crossed' = crossed
    PROVE  SagaInv'
<1>a. "boot" \in Threads /\ BatchInv /\ SaneInv BY StreamsAreThreads DEF SagaInv
<1>1. /\ BatchInv' /\ PendFull /\ \A u \in Threads \ {"boot"} : Untouched(u, {})
      /\ th'["boot"].pc = "next" /\ th'["boot"].goal = emptyGoalState
      /\ \A i \in 1..Len(log) : CanRead(log[i]) => InBatch("boot", i)'
  BY <1>a, SeedEffects
<1>2. Sane(log)' /\ LogKept /\ LogOK BY SaneSame
<1>3. SaneInv' BY <1>1, <1>2, <1>a, OtherSane
<1>4. CopyInv' BY SeedCopies
<1>5. AgreeInv' BY <1>1, <1>3, SeedAgrees
<1>6. VersionInv'
  <2>1. 1 \in 1..Len(log) /\ log[1].agg = "goal" BY <1>2, LogTyped DEF LogOK
  <2>2. InBatch("boot", 1)' BY <1>1, <2>1 DEF CanRead
  <2> QED BY <2>2 DEF VersionInv
<1>7. DueInv'
  <2>1. seeded' BY DEF ReadSeed
  <2>2. Asks("boot")' BY <2>1 DEF Asks
  <2>3. Settled' BY <1>a, <2>2 DEF Settled
  <2> QED BY <2>3, DueFrom
<1> QED BY <1>1, <1>3, <1>4, <1>5, <1>6, <1>7, SagaFrom

\* Without the master key bootstrap reads nothing, and the rows need agree no more.
LEMMA KeylessSaga ==
    ASSUME PublishInv, SagaInv, PublishInv', BootstrapWithoutKey \/ SeedWithoutKey
    PROVE  SagaInv'
<1>a. /\ BatchInv /\ SaneInv /\ CopyInv /\ "boot" \in Threads
      /\ ShapesOK /\ LogOK' /\ ~seeded' /\ crossed'
  <2>1. crossed' /\ seeded' = seeded BY DEF BootstrapWithoutKey, SeedWithoutKey
  <2>2. ~seeded
    BY StreamsAreThreads DEF PublishInv, ShapesOK, ThreadsOK, BootstrapWithoutKey, SeedWithoutKey
  <2> QED BY <2>1, <2>2, StreamsAreThreads DEF SagaInv, PublishInv, ShapesOK
<1>1. UNCHANGED <<log, cursor, goalRow, projRow>> /\ phase' = "live"
  BY <1>a DEF BootstrapWithoutKey, SeedWithoutKey, ShapesOK, ThreadsOK
<1>2. /\ \A u \in Threads \ {"boot"} : Untouched(u, {})
      /\ th'["boot"] = th["boot"] \/ th'["boot"] = IdleThread
      /\ th'["boot"].pc = "idle"
  <2>1. CASE BootstrapWithoutKey
    <3>1. th' = th /\ th["boot"].pc = "idle"
      BY <1>a, <2>1 DEF BootstrapWithoutKey, ShapesOK, ThreadsOK
    <3> QED BY <3>1 DEF Untouched, SameThread
  <2>2. CASE SeedWithoutKey
    <3>1. th' = [th EXCEPT !["boot"] = IdleThread] BY <2>2 DEF SeedWithoutKey, Set
    <3> QED BY <1>a, <3>1, IdleTyped, SetOthers DEF IdleThread
  <2> QED BY <2>1, <2>2
<1>3. ASSUME NEW u \in Threads PROVE ThreadHolds(u)'
  <2>1. ThreadHolds(u) BY <1>a DEF BatchInv
  <2>2. CASE th'[u] = IdleThread BY <1>a, <2>2, IdleHolds
  <2>3. CASE th'[u] # IdleThread
    <3>1. SameThread(u) BY <1>2, <2>3 DEF Untouched, SameThread
    <3>2. PlaceOK(u)' BY <1>1, <2>1, <3>1 DEF PlaceOK, SameThread, ThreadHolds
    <3> QED BY <1>1, <2>1, <3>1, <3>2 DEF ThreadHolds, Same, InBatch, SameThread
  <2> QED BY <2>2, <2>3
<1>4. BatchInv' BY <1>a, <1>3 DEF BatchInv, Behind
<1>5. Sane(log)' /\ LogKept BY <1>1, <1>a, SaneSame
<1>6. SaneInv'
  <2>1. th'["boot"].goal \in {emptyGoalState, th["boot"].goal} BY <1>2 DEF IdleThread
  <2>2. \A u \in Threads : \/ Untouched(u, {})
                           \/ /\ th'[u].goal \in {emptyGoalState, th[u].goal, ensureGoalState}
                              /\ th'[u].pc \notin {"saveProject", "saveGoal"}
    BY <1>2, <2>1
  <2> QED BY <1>1, <1>5, <1>a, <2>2, OtherSane
<1>7. CopyInv'
  <2>1. ASSUME NEW u \in Threads \ {"boot"} PROVE CopyOK(u)'
    <3>1. Untouched(u, {}) /\ CopyOK(u) BY <1>a, <1>2 DEF CopyInv
    <3>2. ensureGoalState' = ensureGoalState BY <1>1 DEF ensureGoalState
    <3>3. RowOf(th[u].ev.agg)' = RowOf(th[u].ev.agg)
      BY <1>1, <3>1 DEF RowOf, Untouched, SameThread
    <3> QED BY <1>a, <1>1, <3>1, <3>2, <3>3, CopyKept
  <2>2. CopyOK("boot")' BY <1>2 DEF CopyOK, HoldsGoal
  <2> QED BY <2>1, <2>2 DEF CopyInv
<1>8. AgreeInv' /\ VersionInv' /\ DueInv' BY <1>a DEF AgreeInv, VersionInv, DueInv
<1> QED BY <1>4, <1>6, <1>7, <1>8, SagaFrom

\* The end of bootstrap keeps SagaInv.
LEMMA EndReplaySaga ==
    ASSUME PublishInv, SagaInv, PublishInv', EndReplay
    PROVE  SagaInv'
<1>a. "boot" \in Threads /\ BatchInv /\ SaneInv BY StreamsAreThreads DEF SagaInv
<1>1. /\ BatchInv' /\ PendAll /\ \A u \in Threads \ {"boot"} : Untouched(u, {})
      /\ UNCHANGED <<log, phase, goalRow, projRow, crossed, refused, overtaken, manual>>
      /\ seeded' = FALSE /\ th["boot"].pc = "next" /\ th["boot"].batch = {}
      /\ th'["boot"].batch = {}
      /\ \/ /\ goalRow # NoRow /\ th'["boot"].pc = "ask" /\ th'["boot"].goal = goalRow
         \/ /\ goalRow = NoRow /\ th'["boot"].pc = "idle"
            /\ th'["boot"].goal = emptyGoalState
  BY <1>a, EndReplayEffects
<1>2. Sane(log)' /\ LogKept BY <1>1, SaneSame
<1>3. SaneInv'
  <2>1. th'["boot"].goal = ensureGoalState /\ th'["boot"].pc \notin {"saveProject", "saveGoal"}
    BY <1>1 DEF ensureGoalState
  <2>2. \A u \in Threads : \/ Untouched(u, {})
                           \/ /\ th'[u].goal \in {emptyGoalState, th[u].goal, ensureGoalState}
                              /\ th'[u].pc \notin {"saveProject", "saveGoal"}
    BY <1>1, <2>1
  <2> QED BY <1>1, <1>2, <1>a, <2>2, OtherSane
<1>4. CopyInv' BY EndReplayCopies
<1>5. AgreeInv' BY <1>1, <1>3, StillAgrees
<1>6. VersionInv'
  <2>1. th["boot"].pc # "seed" /\ ~InBatch("boot", 1) BY <1>1 DEF InBatch
  <2> QED BY <1>1, <2>1, VersionSame
<1>7. DueInv'
  <2>1. ASSUME Wanted' PROVE Settled'
    <3>1. th'["boot"].pc = "ask" /\ th'["boot"].goal = goalRow' BY <1>1, <2>1 DEF Wanted
    <3>2. goalRow'.version > 0 BY <1>1, <1>6, <2>1, <3>1 DEF Wanted, VersionInv, InBatch
    <3>3. Asks("boot")' BY <2>1, <3>1, <3>2 DEF Asks, Wanted
    <3> QED BY <1>a, <3>3 DEF Settled
  <2> QED BY <2>1, DueFrom
<1> QED BY <1>1, <1>3, <1>4, <1>5, <1>6, <1>7, SagaFrom

\* A rebase keeps SagaInv.
LEMMA RebaseSaga ==
    ASSUME PublishInv, SagaInv, PublishInv', Rebase
    PROVE  SagaInv'
<1>a. BatchInv /\ SaneInv /\ Sane(log) BY DEF SagaInv, SaneInv
<1>1. RebaseEffect BY <1>a, RebaseEffects
<1>2. /\ LogKept /\ Sane(log)' /\ BatchInv' /\ PendFull
      /\ \A u \in Threads \ {"boot"} : Untouched(u, HoldsGoal \cup {"saveProject"})
      /\ th'["boot"].pc = "seed" /\ th'["boot"].goal = th["boot"].goal
      /\ goalRow' = NoRow /\ \A p \in Projects : projRow'[p] = NoRow
  BY <1>1 DEF RebaseEffect
<1>3. SaneInv'
  <2>1. \A u \in Threads : \/ Untouched(u, {})
                           \/ /\ th'[u].goal \in {emptyGoalState, th[u].goal, ensureGoalState}
                              /\ th'[u].pc \notin {"saveProject", "saveGoal"}
    BY <1>2, UntouchedLess
  <2> QED BY <1>2, <1>a, <2>1, OtherSane
<1>4. CopyInv' BY <1>1, RebaseCopies
<1>5. AgreeInv' BY <1>2, <1>3, SeedAgrees
<1>6. VersionInv' BY <1>2 DEF VersionInv
<1>7. DueInv' BY <1>2 DEF DueInv
<1> QED BY <1>2, <1>3, <1>4, <1>5, <1>6, <1>7, SagaFrom

\* Users and other devices keep SagaInv.
LEMMA UserSaga ==
    ASSUME PublishInv, SagaInv, PublishInv', UserNext
    PROVE  SagaInv'
<1>a. LogOK /\ BatchInv /\ SaneInv /\ Sane(log) /\ CopyInv
  BY DEF PublishInv, ShapesOK, SagaInv, SaneInv
<1>1. UserEffect BY <1>a, UserEffects
<1>2. UNCHANGED <<cursor, phase, goalRow, projRow, seeded, th, crossed>>
  BY <1>1 DEF UserEffect
<1>3. PICK x \in Events : Commits(x) /\ Fits(x) BY <1>1 DEF UserEffect
<1>4. Sane(log)' /\ LogKept BY <1>a, <1>3, SaneCommits
<1>5. \A u \in Threads : Untouched(u, {}) /\ SameThread(u) BY <1>2 DEF Untouched, SameThread
<1>6. BatchInv' /\ PendAll BY <1>a, <1>2, <1>4, <1>5, StillHolds
<1>7. SaneInv' BY <1>a, <1>2, <1>4, <1>5, OtherSane
<1>8. CopyInv'
  <2>1. InBatch("boot", 1) => InBatch("boot", 1)' BY <1>2 DEF InBatch
  <2> QED BY <1>a, <1>2, <1>5, <2>1, OtherCopies
<1>9. AgreeInv' BY <1>1, <1>6, <1>7, UserAgrees
<1>10. VersionInv'
  <2>1. SameThread("boot") BY <1>5, StreamsAreThreads
  <2> QED BY <1>2, <2>1, VersionSame
<1>11. DueInv' BY <1>1, UserDue
<1> QED BY <1>6, <1>7, <1>8, <1>9, <1>10, <1>11, SagaFrom

\* Opening and closing the tab keep SagaInv.
LEMMA RestSaga ==
    ASSUME PublishInv, SagaInv, PublishInv', StartPublisher \/ Crash
    PROVE  SagaInv'
<1>a. BatchInv /\ SaneInv /\ ShapesOK BY DEF SagaInv, PublishInv
<1>1. BatchInv' BY <1>a, StartHolds, CrashHolds
<1>2. UNCHANGED <<log, goalRow, projRow>> /\ phase' # "live" BY DEF StartPublisher, Crash
<1>3. \A u \in Threads : th'[u].pc = "idle" /\ th'[u].goal \in {th[u].goal, emptyGoalState}
  <2>1. CASE StartPublisher
    BY <1>a, <2>1 DEF StartPublisher, ShapesOK, ThreadsOK
  <2>2. CASE Crash BY <2>2 DEF Crash, IdleThread
  <2> QED BY <2>1, <2>2
<1>4. Sane(log)' /\ LogKept BY <1>2, SaneSame
<1>5. SaneInv'
  <2>1. \A u \in Threads : /\ th'[u].goal \in {emptyGoalState, th[u].goal, ensureGoalState}
                           /\ th'[u].pc \notin {"saveProject", "saveGoal"}
    BY <1>3
  <2> QED BY <1>a, <1>2, <1>4, <2>1, OtherSane
<1>6. CopyInv' BY <1>3, RestCopies
<1>7. AgreeInv' /\ VersionInv' /\ DueInv' BY <1>2, NotLive
<1> QED BY <1>1, <1>5, <1>6, <1>7, SagaFrom

\* A stuttering step, and one that only sets the flag, keep SagaInv.
LEMMA StutterSaga ==
    ASSUME PublishInv, SagaInv, PublishInv', BeginReplay \/ UNCHANGED vars
    PROVE  SagaInv'
<1>a. BatchInv /\ SaneInv /\ CopyInv BY DEF SagaInv
<1>1. UNCHANGED <<log, cursor, phase, goalRow, projRow, seeded, th, crossed, refused,
                  overtaken, manual>>
  BY DEF vars, BeginReplay
<1>2. Sane(log)' /\ LogKept BY <1>1, SaneSame
<1>3. \A u \in Threads : Untouched(u, {}) /\ SameThread(u) BY <1>1 DEF Untouched, SameThread
<1>4. BatchInv' /\ PendAll BY <1>a, <1>1, <1>2, <1>3, StillHolds
<1>5. SaneInv' BY <1>a, <1>1, <1>2, <1>3, OtherSane
<1>6. CopyInv'
  <2>1. InBatch("boot", 1) => InBatch("boot", 1)' BY <1>1 DEF InBatch
  <2> QED BY <1>a, <1>1, <1>3, <2>1, OtherCopies
<1>7. AgreeInv' BY <1>1, <1>4, <1>5, StillAgrees
<1>b. "boot" \in Threads BY StreamsAreThreads
<1>8. VersionInv' BY <1>1, <1>3, <1>b, VersionSame
<1>9. DueInv'
  <2>1. Wanted' => AllCompleted(ensureGoalState) BY <1>1, NoRowIsNotDue DEF Wanted
  <2>2. Asks("boot") => Asks("boot")' BY <1>1, <1>3, <1>b, StillAsks
  <2> QED BY <1>1, <1>3, <1>b, <2>1, <2>2, DueKept
<1> QED BY <1>4, <1>5, <1>6, <1>7, <1>8, <1>9, SagaFrom

\* SagaInv holds at first.
LEMMA SagaStart == Init => SagaInv
<1> SUFFICES ASSUME Init PROVE SagaInv
  OBVIOUS
<1>1. PICK h \in Histories : log = h.log BY DEF Init
<1>2. LogOK /\ Len(log) \in Nat
  <2>1. LogOK BY PublishStart DEF PublishInv, ShapesOK
  <2> QED BY <2>1, LogTyped
<1>3. Sane(log) BY <1>1, ReactionConstants
<1>4. /\ phase = "down" /\ goalRow = NoRow /\ projRow = [p \in Projects |-> NoRow]
      /\ seeded = FALSE /\ th = [t \in Threads |-> IdleThread]
  BY DEF Init
<1>5. \A t \in Threads : /\ th[t].pc = "idle" /\ th[t].batch = {} /\ th[t].upTo = 0
                         /\ th[t].goal = emptyGoalState
  BY <1>4 DEF IdleThread
<1>6. BatchInv
  <2>1. Behind BY <1>4 DEF Behind
  <2>2. \A t \in Threads : PlaceOK(t) BY <1>5, PlacesDiffer DEF PlaceOK
  <2>3. \A t \in Threads : ThreadHolds(t) BY <1>2, <1>5, <2>2 DEF ThreadHolds
  <2> QED BY <2>1, <2>3 DEF BatchInv
<1>7. SaneInv
  <2>1. GoalSane(emptyGoalState) BY EmptySane
  <2>2. ensureGoalState = emptyGoalState BY <1>4 DEF ensureGoalState
  <2>3. \A p \in Projects : ProjSane(p, RowOf(p))
    BY <1>4 DEF RowOf, ProjSane, emptyProjectState, NoProject
  <2>4. \A t \in Threads : ThreadSane(t) BY <1>5, <2>1 DEF ThreadSane
  <2> QED BY <1>3, <2>1, <2>2, <2>3, <2>4 DEF SaneInv
<1>8. CopyInv BY <1>5 DEF CopyInv, CopyOK, HoldsGoal
<1>9. AgreeInv /\ VersionInv /\ DueInv BY <1>4 DEF AgreeInv, VersionInv, DueInv
<1> QED BY <1>6, <1>7, <1>8, <1>9 DEF SagaInv

\* Every step keeps SagaInv.
LEMMA SagaStep == PublishInv /\ SagaInv /\ FlagOK /\ [Next]_vars => SagaInv'
<1> SUFFICES ASSUME PublishInv, SagaInv, FlagOK, [Next]_vars PROVE SagaInv'
  OBVIOUS
<1>a. PublishInv' BY PublishStep
<1>b. BatchInv BY DEF SagaInv
<1>1. CASE UserNext BY <1>1, <1>a, UserSaga
<1>2. CASE StartPublisher \/ Crash BY <1>2, <1>a, RestSaga
<1>3. CASE Bootstrap
  <2>1. phase # "live" BY <1>3 DEF Bootstrap
  <2>2. ReadSeed /\ phase' = "live" /\ UNCHANGED <<log, cursor, goalRow, projRow>>
    BY <1>3 DEF Bootstrap
  <2> QED BY <1>a, <2>1, <2>2, SeedSaga
<1>4. CASE EndReplay BY <1>4, <1>a, EndReplaySaga
<1>5. CASE Rebase BY <1>5, <1>a, RebaseSaga
<1>6. CASE SeedAfterRebase
  <2>1. phase = "live"
    BY <1>6, StreamsAreThreads DEF SeedAfterRebase, PublishInv, ShapesOK, ThreadsOK
  <2>2. ReadSeed /\ UNCHANGED <<log, cursor, goalRow, projRow, phase, crossed>>
    BY <1>6 DEF SeedAfterRebase
  <2> QED BY <1>a, <2>1, <2>2, SeedSaga
<1>7. ASSUME NEW s \in Streams,
             ReadBatch(s) \/ DeferBatch(s) \/ PublishToNobody(s) \/ SavePosition(s)
      PROVE  SagaInv'
  <2>1. PublisherEffect(s)
    BY <1>7, <1>a, <1>b, ReadEffects, DeferEffects, NobodyEffects, SaveEffects
  <2> QED BY <1>a, <2>1, PublisherSaga
<1>8. ASSUME NEW t \in Threads, Handler(t) \/ FailAchieve(t) PROVE SagaInv'
  BY <1>8, <1>a, HandlerSaga
<1>9. CASE BeginReplay \/ UNCHANGED vars BY <1>9, <1>a, StutterSaga
<1>10. CASE BootstrapWithoutKey \/ SeedWithoutKey BY <1>10, <1>a, KeylessSaga
<1> QED BY <1>1, <1>2, <1>3, <1>4, <1>5, <1>6, <1>7, <1>8, <1>9, <1>10 DEF Next

-----------------------------------------------------------------------------
(* At rest *)

\* At rest nothing is outstanding.
LEMMA QuietPends ==
    ASSUME PublishInv, BatchInv, Quiet
    PROVE  PendG = {} /\ PendP = {}
<1>a. LogOK /\ "boot" \in Threads BY StreamsAreThreads DEF PublishInv, ShapesOK
<1>b. th["boot"].pc = "idle" /\ th["boot"].batch = {}
  <2>1. th["boot"].pc = "idle" BY <1>a DEF Quiet
  <2> QED BY <1>a, <2>1 DEF BatchInv, ThreadHolds, PlaceOK
<1>1. ASSUME NEW A \in {AfterGoal, AfterProject}, NEW i \in 1..Len(log), Open(A, i)
      PROVE  FALSE
  <2>1. Waits(A, Stream(log[i]), i) BY <1>1, <1>b DEF Open, Holds, InBatch
  <2>2. Stream(log[i]) \in Streams BY DEF Stream, Streams
  <2>3. i \in Fetched(Stream(log[i])) BY <2>1, <2>2, <1>a, LogTyped
    DEF Waits, Fetched, PublishInv, ShapesOK, TabOK
  <2> QED BY <2>2, <2>3 DEF Quiet
<1> QED BY <1>1 DEF PendG, PendP, Pend

\* At rest SagaInv is the agreement with the log.
LEMMA AgreesAtRest == PublishInv /\ SagaInv => SagaAgreesWithLog
<1> SUFFICES ASSUME PublishInv, SagaInv, Quiet, ~crossed, goalRow # NoRow
             PROVE  LET known == {p \in Projects : Exists(p) /\ Readable(p) /\ IsLinked(p)}
                        completed == {p \in known : Status(p) = "completed"}
                    IN  /\ goalRow.linked = known
                        /\ completed \subseteq goalRow.completed
                        /\ goalRow.completed \subseteq completed \cup {p \in known : Relapsed(p)}
                        /\ goalRow.achieved = IsAchieved
                        /\ goalRow.archived = IsArchived
                        /\ goalRow.version = log[LastOf(Of("goal"))].version
  BY DEF SagaAgreesWithLog
<1> DEFINE known == {p \in Projects : Exists(p) /\ Readable(p) /\ IsLinked(p)}
           completed == {p \in known : Status(p) = "completed"}
<1>1. LogGood /\ RowsSane /\ RowsAgree BY AgreeNow DEF Quiet
<1>2. PendG = {} /\ PendP = {} BY QuietPends DEF SagaInv
<1>3. ensureGoalState = goalRow BY DEF ensureGoalState
<1>4. goalRow \in GoalStates BY DEF PublishInv, ShapesOK, RowsOK
<1>5. GoalSane(goalRow) BY <1>1, <1>3 DEF RowsSane
<1>6. \A p \in Projects : Readable(p) =>
         /\ p \in goalRow.linked <=> IsLinked(p)
         /\ IsLinked(p) /\ Status(p) = "completed" => p \in goalRow.completed
         /\ p \in goalRow.completed =>
                Relapsed(p) \/ (IsLinked(p) /\ Status(p) = "completed")
  BY <1>1, <1>2, <1>3 DEF RowsAgree, LinksAgree, Explained
<1>7. \A p \in goalRow.linked : p \in Projects /\ Exists(p) /\ Readable(p)
  <2> SUFFICES ASSUME NEW p \in goalRow.linked PROVE p \in Projects /\ Exists(p) /\ Readable(p)
    OBVIOUS
  <2>1. p \in Projects BY <1>4 DEF GoalStates
  <2>2. PICK i \in Linking(p) : log[i].readable BY <1>5 DEF GoalSane, OnceLinked
  <2>3. i \in Of(p) BY <2>2 DEF Linking
  <2> QED BY <1>1, <2>1, <2>2, <2>3, ReadableOf DEF LogGood, Exists
<1>8. goalRow.linked = known BY <1>6, <1>7
<1>9. completed \subseteq goalRow.completed BY <1>6
<1>10. goalRow.completed \subseteq completed \cup {p \in known : Relapsed(p)}
  <2>1. goalRow.completed \subseteq known BY <1>5, <1>8 DEF GoalSane
  <2> QED BY <1>6, <2>1
<1>11. /\ goalRow.achieved <=> IsAchieved
       /\ goalRow.archived <=> IsArchived
       /\ goalRow.version = log[LastOf(Of("goal"))].version
  BY <1>1, <1>2, <1>3, <1>5 DEF RowsAgree, GoalAgrees, GoalSane
<1>12. goalRow.achieved \in BOOLEAN /\ goalRow.archived \in BOOLEAN
       /\ IsAchieved \in BOOLEAN /\ IsArchived \in BOOLEAN
  BY <1>4 DEF GoalStates, IsAchieved, IsArchived
<1> QED BY <1>8, <1>9, <1>10, <1>11, <1>12

\* At rest nobody asks, so what is due is achieved.
LEMMA AchievedAtRest == PublishInv /\ SagaInv => AchievedWhenDue
<1> SUFFICES ASSUME PublishInv, SagaInv, Due, ~crossed, ~refused, ~overtaken, ~manual
             PROVE  IsAchieved
  BY DEF AchievedWhenDue
<1>1. Quiet /\ goalRow # NoRow /\ AllCompleted(goalRow) /\ ~goalRow.archived /\ NoRemoval
  BY DEF Due, NoRemoval
<1>2. IsAchieved \/ IsArchived \/ \E t \in Threads : Asks(t)
  BY <1>1 DEF SagaInv, DueInv, Quiet
<1>3. IsArchived => goalRow.archived
  <2>1. RowsAgree BY <1>1, AgreeNow DEF Quiet
  <2>2. PendG = {} BY <1>1, QuietPends DEF SagaInv
  <2> QED BY <1>1, <2>1, <2>2 DEF RowsAgree, GoalAgrees, ensureGoalState
<1>4. ASSUME NEW t \in Threads PROVE ~Asks(t)
  <2>1. th[t].pc = "idle" BY <1>1 DEF Quiet
  <2>2. t = "boot" => ~seeded BY <2>1 DEF PublishInv, ShapesOK, ThreadsOK
  <2> QED BY <2>1, <2>2 DEF Asks
<1> QED BY <1>1, <1>2, <1>3, <1>4

\* At rest and uncrossed, the row of GoalAchievementSaga says what the log says: for
\* any log, any interleaving of the streams, bootstrap and users, and any number of
\* events, crashes, rebases, throwing handlers and deferred batches.
THEOREM SagaAlwaysAgrees == Spec => []SagaAgreesWithLog
<1>1. PublishInv /\ SagaInv => SagaAgreesWithLog BY AgreesAtRest
<1> QED BY <1>1, FlagStart, FlagStep, PublishStart, PublishStep, SagaStart, SagaStep, PTL DEF Spec

\* At rest GoalAchievementSaga has achieved every goal whose projects are all
\* completed, but for the exceptions AchievedWhenDue names.
THEOREM DueIsAchieved == Spec => []AchievedWhenDue
<1>1. PublishInv /\ SagaInv => AchievedWhenDue BY AchievedAtRest
<1> QED BY <1>1, FlagStart, FlagStep, PublishStart, PublishStep, SagaStart, SagaStep, PTL DEF Spec
=============================================================================
