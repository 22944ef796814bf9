------------------------ MODULE SyncSchedulerProofs ------------------------
(***************************************************************************)
(* Theorems about SyncScheduler, for any number of starts, syncOnce calls, *)
(* events and faults: the types, that a flag of a pull or a push in flight *)
(* always has somebody who will clear it, and that the back-off gates the  *)
(* pulls of an engine that was started once.                               *)
(***************************************************************************)
EXTENDS SyncScheduler, TLAPS

USE SchedulerConstants

-----------------------------------------------------------------------------
(* Signals *)

\* Resolving a signal (signalPull, signalPush) moves only loops that wait for one.
LEMMA SignalledLoops ==
  ASSUME NEW l \in [Loops -> LoopLabels], NEW label \in {"top", "go"}
  PROVE  /\ Signalled(l, label) \in [Loops -> LoopLabels]
         /\ \A i \in Loops : /\ Signalled(l, label)[i] = "busy" <=> l[i] = "busy"
                             /\ Signalled(l, label)[i] = "off" <=> l[i] = "off"
                             /\ l[i] = "sleep" => Signalled(l, label)[i] = "sleep"
  BY DEF Signalled, LoopLabels

\* Dropping a signal (the delay of a race is over) moves only those loops, too.
LEMMA DroppedLoops ==
  ASSUME NEW l \in [Loops -> LoopLabels], NEW j \in Loops
  PROVE  /\ Dropped(l, j) \in [Loops -> LoopLabels]
         /\ \A i \in Loops : /\ Dropped(l, j)[i] = "busy" <=> l[i] = "busy"
                             /\ Dropped(l, j)[i] = "off" <=> l[i] = "off"
                             /\ l[i] = "sleep" => Dropped(l, j)[i] = "sleep"
  BY DEF Dropped, LoopLabels

\* A new back-off outdates the sleeps through the old one and moves no other loop.
LEMMA OutsleptLoops ==
  ASSUME NEW l \in [Loops -> LoopLabels]
  PROVE  /\ Outslept(l) \in [Loops -> LoopLabels]
         /\ \A i \in Loops : /\ Outslept(l)[i] = "busy" <=> l[i] = "busy"
                             /\ Outslept(l)[i] = "off" <=> l[i] = "off"
  BY DEF Outslept, LoopLabels

\* waitForNextPull and waitForNextPush lead to a place in the loop.
LEMMA WaitLabels ==
  /\ \A st, b, r : PullWait(st, b, r) \in {"signal", "sleep", "top", "race"}
  /\ PushWait \in {"signal", "sleep", "go", "race"}
  BY DEF PullWait, PushWait

\* The pushes that wait for a pull are resumed by its end, the others stay.
LEMMA ResumedLabels ==
  ASSUME pushAt \in PushLabels
  PROVE  /\ Resumed \in PushLabels
         /\ Resumed = "none" <=> pushAt = "none"
         /\ Resumed \notin {"join", "wait", "inline"}
  BY DEF Resumed, PushLabels

-----------------------------------------------------------------------------
(* Types *)

LEMMA LoopNumbers ==
  /\ Loops \subseteq 1..MaxStarts /\ Loops \subseteq 0..Manual /\ Loops \subseteq 0..Pusher
  /\ Nobody \notin Loops /\ Manual \notin Loops /\ Pusher \notin Loops
  /\ Manual # Nobody /\ Pusher # Nobody /\ Manual # Pusher
  /\ Nobody \in 0..Manual /\ Manual \in 0..Manual
  /\ Nobody \in 0..Pusher /\ Manual \in 0..Pusher /\ Pusher \in 0..Pusher
  BY DEF Loops, Nobody, Manual, Pusher

\* pushOnce returns: what it sets has its type, and nobody else's push is touched.
LEMMA LeavePushTyped ==
  ASSUME PushOK, HostOK, NEW st \in Statuses, NEW b \in BOOLEAN, NEW r \in BOOLEAN,
         NEW again \in BOOLEAN, LeavePush(st, b, r, again)
  PROVE  /\ PushOK' /\ status' \in Statuses
         /\ manual' \in {"none", "pull", "pulling", "push", "pushing"} /\ batch' = 0
         /\ pusher' = Nobody /\ pushAt' = "none"
         /\ \A i \in Loops : sl'[i] = "off" => sl[i] = "off"
         /\ \A i \in Loops : i # pusher /\ sl[i] = "off" => sl'[i] = "off"
         /\ \A i \in Loops : sl'[i] = "busy" <=> sl[i] = "busy" /\ i # pusher
         /\ manual' = IF pusher = Manual THEN "none" ELSE manual
<1> DEFINE sig == IF again THEN Signalled(sl, "go") ELSE sl
           rest == Outslept(sig)
<1>1. sl \in [Loops -> LoopLabels] BY DEF PushOK
<1>2. /\ sig \in [Loops -> LoopLabels]
      /\ \A i \in Loops : /\ sig[i] = "busy" <=> sl[i] = "busy"
                          /\ sig[i] = "off" <=> sl[i] = "off"
  BY <1>1, SignalledLoops
<1>3. /\ rest \in [Loops -> LoopLabels]
      /\ \A i \in Loops : /\ rest[i] = "busy" <=> sl[i] = "busy"
                          /\ rest[i] = "off" <=> sl[i] = "off"
  <2> HIDE DEF sig
  <2> QED BY <1>2, OutsleptLoops
<1>4. sl' = IF pusher \in Loops THEN [rest EXCEPT ![pusher] = "top"] ELSE rest
  BY DEF LeavePush
<1> HIDE DEF rest
<1>5. /\ sl' \in [Loops -> LoopLabels]
      /\ \A i \in Loops : i # pusher => sl'[i] = rest[i]
      /\ pusher \in Loops => sl'[pusher] = "top"
  BY <1>3, <1>4 DEF LoopLabels
<1>6. /\ pusher' = Nobody /\ pushAt' = "none" /\ batch' = 0 /\ status' = st
      /\ pushReq' = r /\ pushBackoff' = b
      /\ manual' = IF pusher = Manual THEN "none" ELSE manual
  BY DEF LeavePush
<1>7. PushOK'
  BY <1>5, <1>6, LoopNumbers DEF PushOK, PushLabels
<1>8. /\ \A i \in Loops : sl'[i] = "off" => sl[i] = "off"
      /\ \A i \in Loops : i # pusher /\ sl[i] = "off" => sl'[i] = "off"
      /\ \A i \in Loops : sl'[i] = "busy" <=> sl[i] = "busy" /\ i # pusher
  BY <1>3, <1>5
<1> QED BY <1>6, <1>7, <1>8 DEF HostOK

\* A round of the pull loop.
LEMMA PullRoundTyped ==
  ASSUME PullOK, status \in Statuses, NEW i \in Loops, PullRound(i)
  PROVE  /\ pl' \in [Loops -> LoopLabels] /\ puller' \in 0..Pusher
         /\ pullReq' \in BOOLEAN /\ status' \in Statuses
<1>1. CASE ~running
  BY <1>1 DEF PullRound, PullOK, LoopLabels
<1>2. CASE running /\ puller = Nobody
  <2>1. /\ pl' = [pl EXCEPT ![i] = "busy"] /\ puller' = i /\ status' = "syncing"
        /\ pullReq' = FALSE
    BY <1>2 DEF PullRound
  <2> QED BY <2>1, LoopNumbers DEF PullOK, LoopLabels, Statuses
<1>3. CASE running /\ puller # Nobody
  <2>1. /\ pl' = [pl EXCEPT ![i] = PullWait(status, pullBackoff, FALSE)]
        /\ UNCHANGED <<puller, status>> /\ pullReq' = FALSE
    BY <1>3 DEF PullRound
  <2>2. PullWait(status, pullBackoff, FALSE) \in LoopLabels BY WaitLabels DEF LoopLabels
  <2> QED BY <2>1, <2>2 DEF PullOK
<1> QED BY <1>1, <1>2, <1>3

LEMMA TypesStart == Init => TypeOK
<1> SUFFICES ASSUME Init PROVE TypeOK
  OBVIOUS
<1>1. PullOK BY LoopNumbers DEF Init, PullOK, LoopLabels
<1>2. PushOK BY LoopNumbers DEF Init, PushOK, LoopLabels, PushLabels
<1>3. HostOK
  <2>1. starts \in 0..MaxStarts /\ manuals \in 0..MaxManual BY DEF Init
  <2>2. running \in BOOLEAN /\ subscribed \in BOOLEAN /\ timer \in BOOLEAN BY DEF Init
  <2>3. status \in Statuses /\ starting \subseteq Loops BY DEF Init, Statuses
  <2>4. manual \in {"none", "pull", "pulling", "push", "pushing"} BY DEF Init
  <2> QED BY <2>1, <2>2, <2>3, <2>4 DEF HostOK
<1>4. DataOK BY DEF Init, DataOK
<1> QED BY <1>1, <1>2, <1>3, <1>4 DEF TypeOK

\* The end of a pull, in any of its three outcomes.
LEMMA EndPullTyped ==
  ASSUME TypeOK, NEW st \in {"idle", "error", "fatal"}, EndPull(st)
  PROVE  TypeOK'
<1> DEFINE backoff == st = "error"
           requested == IF st = "error" THEN TRUE ELSE IF st = "fatal" THEN FALSE ELSE pullReq
           rest == Outslept(pl)
<1>1. rest \in [Loops -> LoopLabels] BY OutsleptLoops DEF TypeOK, PullOK
<1>2. pl' = IF puller \in Loops
            THEN [rest EXCEPT ![puller] =
                    IF running THEN PullWait(st, backoff, requested) ELSE "off"]
            ELSE rest
  BY DEF EndPull
<1>3. PullWait(st, backoff, requested) \in LoopLabels
  <2> HIDE DEF backoff, requested
  <2> QED BY WaitLabels DEF LoopLabels
<1>4. pl' \in [Loops -> LoopLabels]
  <2> HIDE DEF rest, backoff, requested
  <2> QED BY <1>1, <1>2, <1>3 DEF LoopLabels
<1>5. PullOK'
  BY <1>4, LoopNumbers DEF EndPull, TypeOK, PullOK
<1>6. PushOK'
  BY ResumedLabels DEF EndPull, TypeOK, PushOK
<1>7. HostOK'
  BY DEF EndPull, TypeOK, HostOK, Statuses
<1>8. DataOK'
  BY DEF EndPull, TypeOK, DataOK
<1> QED BY <1>5, <1>6, <1>7, <1>8 DEF TypeOK

\* The next attempt of a push, or its return without one.
LEMMA TriesAgainTyped ==
  ASSUME PushOK, HostOK, TriesAgain
  PROVE  /\ PushOK' /\ status' \in Statuses
         /\ manual' \in {"none", "pull", "pulling", "push", "pushing"} /\ batch' = 0
<1>1. CASE LeavePush(status, pushBackoff, pushReq, FALSE)
  BY <1>1, LeavePushTyped DEF PushOK, HostOK
<1>2. CASE /\ pushAt' = "load" /\ batch' = 0
           /\ UNCHANGED <<status, sl, pusher, pushReq, pushBackoff, manual>>
  BY <1>2 DEF PushOK, HostOK, PushLabels
<1> QED BY <1>1, <1>2 DEF TriesAgain

\* Every step keeps the types; `pending - batch` is never negative.
LEMMA TypesStep == TypeOK /\ [Next]_vars => TypeOK'
<1> SUFFICES ASSUME TypeOK, [Next]_vars PROVE TypeOK'
  OBVIOUS
<1> USE DEF TypeOK
<1>1. CASE EndsPull
  BY <1>1, EndPullTyped DEF EndsPull
<1>2. CASE PullBackoffEnds
  BY <1>2 DEF PullBackoffEnds, PullOK, PushOK, HostOK, DataOK, pushVars, hostVars, dataVars
<1>3. CASE PushAccepted
  <2>1. LeavePush("idle", FALSE, pushReq \/ pending > batch, pending > batch)
    BY <1>3 DEF PushAccepted
  <2>2. /\ PushOK' /\ status' \in Statuses /\ batch' = 0
        /\ manual' \in {"none", "pull", "pulling", "push", "pushing"}
    <3>1. "idle" \in Statuses /\ (pushReq \/ pending > batch) \in BOOLEAN
          /\ (pending > batch) \in BOOLEAN
      BY DEF Statuses
    <3> QED BY <2>1, <3>1, LeavePushTyped
  <2>3. PullOK' BY <1>3 DEF PushAccepted, PullOK, loopVars
  <2>4. HostOK' BY <1>3, <2>2 DEF PushAccepted, HostOK
  <2>5. DataOK' BY <1>3, <2>2 DEF PushAccepted, DataOK
  <2> QED BY <2>2, <2>3, <2>4, <2>5
<1>4. ASSUME NEW st \in {"error", "fatal"}, PushFailed(st) PROVE TypeOK'
  <2>1. LeavePush(st, st = "error", st = "error", st = "error")
    BY <1>4 DEF PushFailed
  <2>2. /\ PushOK' /\ status' \in Statuses /\ batch' = 0
        /\ manual' \in {"none", "pull", "pulling", "push", "pushing"}
    BY <2>1, LeavePushTyped DEF Statuses
  <2>3. PullOK' BY <1>4 DEF PushFailed, PullOK, loopVars
  <2>4. HostOK' BY <1>4, <2>2 DEF PushFailed, HostOK
  <2>5. DataOK' BY <1>4, <2>2 DEF PushFailed, DataOK
  <2> QED BY <2>2, <2>3, <2>4, <2>5
<1>5. CASE PushConflict
  <2>2. /\ PushOK' /\ status' \in Statuses /\ batch' = 0
        /\ manual' \in {"none", "pull", "pulling", "push", "pushing"}
    BY <1>5, TriesAgainTyped DEF PushConflict
  <2>3. PullOK' BY <1>5 DEF PushConflict, PullOK, loopVars
  <2>4. HostOK' BY <1>5, <2>2 DEF PushConflict, HostOK
  <2>5. DataOK' BY <1>5, <2>2 DEF PushConflict, DataOK
  <2> QED BY <2>2, <2>3, <2>4, <2>5
<1>6. CASE PushRefused
  BY <1>6 DEF PushRefused, PullOK, PushOK, HostOK, DataOK, loopVars, hostVars, PushLabels
<1>7. CASE LoadPending
  BY <1>7 DEF LoadPending, PullOK, PushOK, HostOK, DataOK, loopVars, hostVars, dataVars,
              PushLabels
<1>8. CASE PushNothing
  <2>1. LeavePush("idle", FALSE, FALSE, FALSE)
    BY <1>8 DEF PushNothing
  <2>2. /\ PushOK' /\ status' \in Statuses /\ batch' = 0
        /\ manual' \in {"none", "pull", "pulling", "push", "pushing"}
    BY <2>1, LeavePushTyped DEF Statuses
  <2>3. PullOK' /\ HostOK' /\ DataOK'
    BY <1>8, <2>2 DEF PushNothing, PullOK, HostOK, DataOK, loopVars, dataVars
  <2> QED BY <2>2, <2>3
<1>9. CASE CursorMoved
  <2>2. /\ PushOK' /\ status' \in Statuses /\ batch' = 0
        /\ manual' \in {"none", "pull", "pulling", "push", "pushing"}
    BY <1>9, TriesAgainTyped DEF CursorMoved
  <2>3. PullOK' /\ HostOK' /\ DataOK'
    BY <1>9, <2>2 DEF CursorMoved, PullOK, HostOK, DataOK, loopVars, dataVars
  <2> QED BY <2>2, <2>3
<1>10. CASE RequestImmediatePull
  <2>1. /\ pushAt' \in PushLabels /\ puller' \in 0..Pusher /\ pullReq' \in BOOLEAN
        /\ status' \in Statuses
    BY <1>10, LoopNumbers DEF RequestImmediatePull, PushLabels, Statuses, PullOK, HostOK
  <2>2. pl' \in [Loops -> LoopLabels]
    BY <1>10, SignalledLoops DEF RequestImmediatePull, PullOK
  <2> QED BY <1>10, <2>1, <2>2
          DEF RequestImmediatePull, PullOK, PushOK, HostOK, DataOK, hostVars, dataVars
<1>11. CASE CursorStuck
  <2>1. LeavePush("error", TRUE, TRUE, TRUE)
    BY <1>11 DEF CursorStuck
  <2>2. /\ PushOK' /\ status' \in Statuses /\ batch' = 0
        /\ manual' \in {"none", "pull", "pulling", "push", "pushing"}
    BY <2>1, LeavePushTyped DEF Statuses
  <2>3. PullOK' /\ HostOK' /\ DataOK'
    BY <1>11, <2>2 DEF CursorStuck, PullOK, HostOK, DataOK, loopVars, dataVars
  <2> QED BY <2>2, <2>3
<1>12. CASE PushBackoffEnds
  BY <1>12 DEF PushBackoffEnds, PullOK, PushOK, HostOK, DataOK, loopVars, hostVars, dataVars
<1>13. ASSUME NEW i \in Loops, PullTurn(i) PROVE TypeOK'
  <2>1. /\ pl' \in [Loops -> LoopLabels] /\ puller' \in 0..Pusher
        /\ pullReq' \in BOOLEAN /\ status' \in Statuses
    BY <1>13, PullRoundTyped DEF PullTurn, HostOK
  <2> QED BY <1>13, <2>1
          DEF PullTurn, PullOK, PushOK, HostOK, DataOK, pushVars, hostVars, dataVars
<1>14. ASSUME NEW i \in Loops, PullWakes(i) PROVE TypeOK'
  <2>1. pl' \in [Loops -> LoopLabels]
    BY <1>14, DroppedLoops DEF PullWakes, PullOK, LoopLabels
  <2> QED BY <1>14, <2>1
          DEF PullWakes, PullOK, PushOK, HostOK, DataOK, pushVars, hostVars, dataVars
<1>15. ASSUME NEW i \in Loops, PushTurn(i) PROVE TypeOK'
  <2>1. sl' \in [Loops -> LoopLabels]
    BY <1>15, WaitLabels DEF PushTurn, PushOK, LoopLabels
  <2> QED BY <1>15, <2>1
          DEF PushTurn, PullOK, PushOK, HostOK, DataOK, loopVars, hostVars, dataVars
<1>16. ASSUME NEW i \in Loops, PushWakes(i) PROVE TypeOK'
  <2>1. sl' \in [Loops -> LoopLabels]
    BY <1>16, DroppedLoops DEF PushWakes, PushOK, LoopLabels
  <2> QED BY <1>16, <2>1
          DEF PushWakes, PullOK, PushOK, HostOK, DataOK, loopVars, hostVars, dataVars
<1>17. ASSUME NEW i \in Loops, PushGo(i) PROVE TypeOK'
  <2>1. sl' \in [Loops -> LoopLabels]
    BY <1>17 DEF PushGo, PushOK, LoopLabels
  <2>2. /\ pusher' \in 0..Manual /\ pushAt' \in PushLabels /\ pushReq' \in BOOLEAN
        /\ status' \in Statuses
    BY <1>17, LoopNumbers DEF PushGo, BeginPush, PushOK, HostOK, PushLabels, Statuses
  <2> QED BY <1>17, <2>1, <2>2
          DEF PushGo, PullOK, PushOK, HostOK, DataOK, loopVars, hostVars, dataVars
<1>18. ASSUME NEW i \in Loops, Started(i) PROVE TypeOK'
  <2>1. /\ pl' \in [Loops -> LoopLabels] /\ puller' \in 0..Pusher
        /\ pullReq' \in BOOLEAN /\ status' \in Statuses
    BY <1>18, PullRoundTyped DEF Started, HostOK
  <2>2. sl' \in [Loops -> LoopLabels]
    BY <1>18, SignalledLoops DEF Started, PushOK, LoopLabels
  <2>3. HostOK' BY <1>18, <2>1 DEF Started, HostOK
  <2>4. PullOK' /\ PushOK' /\ DataOK'
    BY <1>18, <2>1, <2>2 DEF Started, PullOK, PushOK, HostOK, DataOK, dataVars
  <2> QED BY <2>3, <2>4
<1>19. CASE Append
  BY <1>19 DEF Append, PullOK, PushOK, HostOK, DataOK, loopVars, pushVars
<1>20. CASE TimerFires
  <2>1. sl' \in [Loops -> LoopLabels]
    BY <1>20, SignalledLoops DEF TimerFires, PushOK
  <2> QED BY <1>20, <2>1 DEF TimerFires, PullOK, PushOK, HostOK, DataOK, loopVars, dataVars
<1>21. CASE Start
  <2>1. starts' \in 0..MaxStarts /\ starting' \subseteq Loops
    BY <1>21 DEF Start, HostOK, Loops
  <2> QED BY <1>21, <2>1
          DEF Start, PullOK, PushOK, HostOK, DataOK, loopVars, pushVars, dataVars
<1>22. CASE SyncOnce
  BY <1>22 DEF SyncOnce, PullOK, PushOK, HostOK, DataOK, loopVars, pushVars, dataVars
<1>23. CASE ManualPull
  BY <1>23, LoopNumbers
  DEF ManualPull, PullOK, PushOK, HostOK, DataOK, pushVars, dataVars, Statuses
<1>24. CASE ManualPush
  BY <1>24, LoopNumbers
  DEF ManualPush, BeginPush, PullOK, PushOK, HostOK, DataOK, loopVars, dataVars, Statuses,
      PushLabels
<1>25. CASE Stop
  <2>1. /\ sl' \in [Loops -> LoopLabels] /\ pl' \in [Loops -> LoopLabels]
    BY <1>25, SignalledLoops DEF Stop, PushOK, PullOK
  <2> QED BY <1>25, <2>1
          DEF Stop, PullOK, PushOK, HostOK, DataOK, dataVars, PushLabels
<1>26. CASE ResetSyncState
  <2>1. /\ sl' \in [Loops -> LoopLabels] /\ pl' \in [Loops -> LoopLabels]
    BY <1>26, OutsleptLoops DEF ResetSyncState, PushOK, PullOK
  <2> QED BY <1>26, <2>1
          DEF ResetSyncState, PullOK, PushOK, HostOK, DataOK, hostVars, dataVars, Statuses
<1>27. CASE UNCHANGED vars
  BY <1>27 DEF vars, loopVars, pushVars, hostVars, dataVars, PullOK, PushOK, HostOK, DataOK
<1> QED
  BY <1>1, <1>2, <1>3, <1>4, <1>5, <1>6, <1>7, <1>8, <1>9, <1>10, <1>11, <1>12, <1>13,
     <1>14, <1>15, <1>16, <1>17, <1>18, <1>19, <1>20, <1>21, <1>22, <1>23, <1>24, <1>25,
     <1>26, <1>27
  DEF Next, EndsPush, LooksAgain

\* The engine's fields have their types for any number of starts, manual syncs,
\* events and faults, and a push never acknowledges more than is pending.
THEOREM Typed == Spec => []TypeOK
  BY TypesStart, TypesStep, PTL DEF Spec

-----------------------------------------------------------------------------
(* In-flight flags *)

\* A loop that has not been started, or whose start() still awaits its table row, is
\* off: it holds nothing.
FreshLoops ==
  \A i \in Loops : i > starts \/ i \in starting =>
    /\ i > starts => i \notin starting
    /\ pl[i] = "off" /\ sl[i] = "off"

\* pullState.inFlight is set exactly when a loop, syncOnce or a push awaits that
\* pull, which is the one that clears it.
PullHeld ==
  /\ \A i \in Loops : pl[i] = "busy" <=> puller = i
  /\ manual = "pulling" <=> puller = Manual
  /\ puller = Pusher => pushAt = "inline"

\* The same for pushState.inFlight.
PushHeld ==
  /\ \A i \in Loops : sl[i] = "busy" <=> pusher = i
  /\ manual = "pushing" <=> pusher = Manual
  /\ pusher = Nobody <=> pushAt = "none"

\* A push that awaits a pull awaits one that is in flight, or one that the loop of
\* a running engine was asked for.
WaitersHeld ==
  /\ pushAt \in {"join", "inline"} => puller # Nobody
  /\ pushAt = "wait" => running

FlightsAreHeld == FreshLoops /\ PullHeld /\ PushHeld /\ WaitersHeld

LEMMA HeldStart == Init => FlightsAreHeld
<1> SUFFICES ASSUME Init PROVE FlightsAreHeld
  OBVIOUS
<1>1. FreshLoops BY DEF Init, FreshLoops
<1>2. PullHeld BY LoopNumbers DEF Init, PullHeld
<1>3. PushHeld BY LoopNumbers DEF Init, PushHeld
<1>4. WaitersHeld BY DEF Init, WaitersHeld
<1> QED BY <1>1, <1>2, <1>3, <1>4 DEF FlightsAreHeld

\* A round that finds no pull in flight takes the flag; any other leaves it.
LEMMA PullRoundHeld ==
  ASSUME PullOK, PullHeld, NEW i \in Loops, pl[i] # "busy", PullRound(i)
  PROVE  /\ \A j \in Loops : pl'[j] = "busy" <=> puller' = j
         /\ \A j \in Loops : j # i => pl'[j] = pl[j]
         /\ puller' = puller \/ (puller = Nobody /\ puller' = i /\ running)
<1>1. CASE ~running
  BY <1>1 DEF PullRound, PullOK, PullHeld
<1>2. CASE running /\ puller = Nobody
  <2>1. /\ pl' = [pl EXCEPT ![i] = "busy"] /\ puller' = i
    BY <1>2 DEF PullRound
  <2> QED BY <1>2, <2>1, LoopNumbers DEF PullOK, PullHeld
<1>3. CASE running /\ puller # Nobody
  <2>1. /\ pl' = [pl EXCEPT ![i] = PullWait(status, pullBackoff, FALSE)]
        /\ puller' = puller
    BY <1>3 DEF PullRound
  <2>2. PullWait(status, pullBackoff, FALSE) # "busy" BY WaitLabels
  <2> QED BY <2>1, <2>2 DEF PullOK, PullHeld
<1> QED BY <1>1, <1>2, <1>3

\* The end of a pull clears the flag and resumes whoever awaits it.
LEMMA EndPullHeld ==
  ASSUME TypeOK, FlightsAreHeld, NEW st \in {"idle", "error", "fatal"}, EndPull(st)
  PROVE  FlightsAreHeld'
<1> DEFINE backoff == st = "error"
           requested == IF st = "error" THEN TRUE ELSE IF st = "fatal" THEN FALSE ELSE pullReq
           rest == Outslept(pl)
           where == IF running THEN PullWait(st, backoff, requested) ELSE "off"
<1>1. /\ rest \in [Loops -> LoopLabels]
      /\ \A i \in Loops : /\ rest[i] = "busy" <=> pl[i] = "busy"
                          /\ rest[i] = "off" <=> pl[i] = "off"
  BY OutsleptLoops DEF TypeOK, PullOK
<1>2. pl' = IF puller \in Loops THEN [rest EXCEPT ![puller] = where] ELSE rest
  BY DEF EndPull
<1>3. where # "busy"
  <2> HIDE DEF backoff, requested
  <2> QED BY WaitLabels
<1> HIDE DEF rest, where
<1>4. /\ \A i \in Loops : i # puller => pl'[i] = rest[i]
      /\ \A i \in Loops : i = puller => pl'[i] = where
  BY <1>1, <1>2
<1>5. /\ puller' = Nobody /\ pushAt' = Resumed
      /\ manual' = IF puller = Manual THEN "push" ELSE manual
      /\ UNCHANGED <<running, sl, pusher, starting, starts>>
  BY DEF EndPull
<1>6. FreshLoops'
  BY <1>1, <1>4, <1>5 DEF FlightsAreHeld, FreshLoops, PullHeld
<1>7. PullHeld'
  BY <1>1, <1>3, <1>4, <1>5, LoopNumbers DEF FlightsAreHeld, PullHeld
<1>8. PushHeld'
  BY <1>5, ResumedLabels DEF FlightsAreHeld, PushHeld, PullHeld, TypeOK, PushOK
<1>9. WaitersHeld'
  BY <1>5, ResumedLabels DEF FlightsAreHeld, WaitersHeld, TypeOK, PushOK
<1> QED BY <1>6, <1>7, <1>8, <1>9 DEF FlightsAreHeld

\* The return of pushOnce clears its flag.
LEMMA LeavePushHeld ==
  ASSUME TypeOK, FlightsAreHeld, NEW st \in Statuses, NEW b \in BOOLEAN, NEW r \in BOOLEAN,
         NEW again \in BOOLEAN, LeavePush(st, b, r, again),
         pushAt \notin {"inline", "none"},
         UNCHANGED <<running, loopVars, starting, starts>>
  PROVE  FlightsAreHeld'
<1>1. /\ pusher' = Nobody /\ pushAt' = "none"
      /\ \A i \in Loops : i # pusher /\ sl[i] = "off" => sl'[i] = "off"
      /\ \A i \in Loops : sl'[i] = "busy" <=> sl[i] = "busy" /\ i # pusher
      /\ manual' = IF pusher = Manual THEN "none" ELSE manual
  BY LeavePushTyped DEF TypeOK
<1>2. UNCHANGED <<running, pl, puller, starting, starts>>
  BY DEF loopVars
<1>3. FreshLoops'
  BY <1>1, <1>2 DEF FlightsAreHeld, FreshLoops, PushHeld
<1>4. PullHeld'
  BY <1>1, <1>2, LoopNumbers DEF FlightsAreHeld, PullHeld, PushHeld
<1>5. PushHeld'
  BY <1>1, <1>2, LoopNumbers DEF FlightsAreHeld, PushHeld
<1>6. WaitersHeld'
  BY <1>1 DEF WaitersHeld
<1> QED BY <1>3, <1>4, <1>5, <1>6 DEF FlightsAreHeld

LEMMA TriesAgainHeld ==
  ASSUME TypeOK, FlightsAreHeld, TriesAgain, pushAt \notin {"inline", "none"},
         UNCHANGED <<running, loopVars, starting, starts>>
  PROVE  FlightsAreHeld'
<1>1. CASE LeavePush(status, pushBackoff, pushReq, FALSE)
  BY <1>1, LeavePushHeld DEF TypeOK, PushOK, HostOK
<1>2. CASE /\ pushAt' = "load" /\ batch' = 0
           /\ UNCHANGED <<status, sl, pusher, pushReq, pushBackoff, manual>>
  BY <1>2, LoopNumbers
  DEF FlightsAreHeld, FreshLoops, PullHeld, PushHeld, WaitersHeld, loopVars
<1> QED BY <1>1, <1>2 DEF TriesAgain

\* Every step keeps the flags with their holders.
LEMMA HeldStep == TypeOK /\ FlightsAreHeld /\ [Next]_vars => FlightsAreHeld'
<1> SUFFICES ASSUME TypeOK, FlightsAreHeld, [Next]_vars PROVE FlightsAreHeld'
  OBVIOUS
<1>a. /\ pl \in [Loops -> LoopLabels] /\ sl \in [Loops -> LoopLabels]
      /\ pushAt \in PushLabels
  BY DEF TypeOK, PullOK, PushOK
<1>b. FreshLoops /\ PullHeld /\ PushHeld /\ WaitersHeld
  BY DEF FlightsAreHeld
<1>1. CASE EndsPull
  BY <1>1, EndPullHeld DEF EndsPull
<1>2. CASE PullBackoffEnds
  BY <1>2 DEF PullBackoffEnds, FlightsAreHeld, FreshLoops, PullHeld, PushHeld, WaitersHeld,
              pushVars, hostVars
<1>3. CASE PushAccepted
  <2>1. /\ "idle" \in Statuses /\ (pushReq \/ pending > batch) \in BOOLEAN
        /\ (pending > batch) \in BOOLEAN
    BY DEF Statuses
  <2>2. /\ LeavePush("idle", FALSE, pushReq \/ pending > batch, pending > batch)
        /\ pushAt = "sent" /\ UNCHANGED <<running, loopVars, starting, starts>>
    BY <1>3 DEF PushAccepted
  <2> QED BY <2>1, <2>2, LeavePushHeld
<1>4. ASSUME NEW st \in {"error", "fatal"}, PushFailed(st) PROVE FlightsAreHeld'
  <2>2. /\ LeavePush(st, st = "error", st = "error", st = "error")
        /\ pushAt = "sent" /\ UNCHANGED <<running, loopVars, starting, starts>>
    BY <1>4 DEF PushFailed
  <2> QED BY <2>2, LeavePushHeld DEF Statuses
<1>5. CASE PushConflict
  BY <1>5, TriesAgainHeld DEF PushConflict
<1>6. CASE PushRefused
  BY <1>6, LoopNumbers
  DEF PushRefused, FlightsAreHeld, FreshLoops, PullHeld, PushHeld, WaitersHeld,
      loopVars, hostVars
<1>7. CASE LoadPending
  BY <1>7, LoopNumbers
  DEF LoadPending, FlightsAreHeld, FreshLoops, PullHeld, PushHeld, WaitersHeld,
      loopVars, hostVars
<1>8. CASE PushNothing
  BY <1>8, LeavePushHeld DEF PushNothing, Statuses
<1>9. CASE CursorMoved
  BY <1>9, TriesAgainHeld DEF CursorMoved
<1>10. CASE RequestImmediatePull
  <2>1. \A i \in Loops : /\ pl'[i] = "busy" <=> pl[i] = "busy"
                         /\ pl'[i] = "off" <=> pl[i] = "off"
    BY <1>10, <1>a, SignalledLoops DEF RequestImmediatePull
  <2>2. /\ puller' = puller \/ (puller' = Pusher /\ puller = Nobody /\ pushAt' = "inline")
        /\ pushAt' \in {"inline", "recheck", "wait"} /\ pushAt = "check"
        /\ pushAt' = "inline" => puller' # Nobody
        /\ pushAt' = "wait" => running
        /\ UNCHANGED <<running, sl, pusher, starting, starts, manual>>
    BY <1>10, LoopNumbers DEF RequestImmediatePull, hostVars
  <2>3. FreshLoops' BY <1>b, <2>1, <2>2 DEF FreshLoops
  <2>4. PullHeld' BY <1>b, <2>1, <2>2, LoopNumbers DEF PullHeld
  <2>5. PushHeld' BY <1>b, <2>2 DEF PushHeld
  <2>6. WaitersHeld' BY <2>2 DEF WaitersHeld
  <2> QED BY <2>3, <2>4, <2>5, <2>6 DEF FlightsAreHeld
<1>11. CASE CursorStuck
  BY <1>11, LeavePushHeld DEF CursorStuck, Statuses
<1>12. CASE PushBackoffEnds
  BY <1>12 DEF PushBackoffEnds, FlightsAreHeld, FreshLoops, PullHeld, PushHeld, WaitersHeld,
               loopVars, hostVars
<1>13. ASSUME NEW i \in Loops, PullTurn(i) PROVE FlightsAreHeld'
  <2>1. /\ \A j \in Loops : pl'[j] = "busy" <=> puller' = j
        /\ \A j \in Loops : j # i => pl'[j] = pl[j]
        /\ puller' = puller \/ (puller = Nobody /\ puller' = i /\ running)
    BY <1>13, <1>b, PullRoundHeld DEF PullTurn, TypeOK
  <2>2. /\ UNCHANGED <<running, sl, pusher, pushAt, starting, starts, manual>>
        /\ pl[i] = "top"
    BY <1>13 DEF PullTurn, pushVars, hostVars
  <2>3. FreshLoops' BY <1>b, <2>1, <2>2 DEF FreshLoops
  <2>4. PullHeld' BY <1>b, <2>1, <2>2, LoopNumbers DEF PullHeld
  <2>5. PushHeld' BY <1>b, <2>2 DEF PushHeld
  <2>6. WaitersHeld' BY <1>b, <2>1, <2>2, LoopNumbers DEF WaitersHeld
  <2> QED BY <2>3, <2>4, <2>5, <2>6 DEF FlightsAreHeld
<1>14. ASSUME NEW i \in Loops, PullWakes(i) PROVE FlightsAreHeld'
  <2>1. \A j \in Loops : /\ pl'[j] = "busy" <=> pl[j] = "busy"
                         /\ pl'[j] = "off" <=> pl[j] = "off"
    <3>1. /\ Dropped(pl, i) \in [Loops -> LoopLabels]
          /\ \A j \in Loops : /\ Dropped(pl, i)[j] = "busy" <=> pl[j] = "busy"
                              /\ Dropped(pl, i)[j] = "off" <=> pl[j] = "off"
      BY <1>a, DroppedLoops
    <3>2. CASE pl[i] \in {"sleep", "stale", "timer"} /\ pl' = [pl EXCEPT ![i] = "top"]
      BY <3>2, <1>a
    <3>3. CASE pl[i] = "race" /\ pl' = [Dropped(pl, i) EXCEPT ![i] = "top"]
      BY <3>1, <3>3
    <3> QED BY <1>14, <3>2, <3>3 DEF PullWakes
  <2>2. UNCHANGED <<running, puller, sl, pusher, pushAt, starting, starts, manual>>
    BY <1>14 DEF PullWakes, pushVars, hostVars
  <2> QED BY <1>b, <2>1, <2>2 DEF FlightsAreHeld, FreshLoops, PullHeld, PushHeld, WaitersHeld
<1>15. ASSUME NEW i \in Loops, PushTurn(i) PROVE FlightsAreHeld'
  <2>1. /\ sl[i] = "top"
        /\ \A j \in Loops : j # i => sl'[j] = sl[j]
        /\ sl'[i] # "busy"
    BY <1>15, <1>a, WaitLabels DEF PushTurn
  <2>2. UNCHANGED <<running, pl, puller, pusher, pushAt, starting, starts, manual>>
    BY <1>15 DEF PushTurn, loopVars, hostVars
  <2> QED BY <1>b, <2>1, <2>2 DEF FlightsAreHeld, FreshLoops, PullHeld, PushHeld, WaitersHeld
<1>16. ASSUME NEW i \in Loops, PushWakes(i) PROVE FlightsAreHeld'
  <2>1. \A j \in Loops : /\ sl'[j] = "busy" <=> sl[j] = "busy"
                         /\ sl'[j] = "off" <=> sl[j] = "off"
    <3>1. /\ Dropped(sl, i) \in [Loops -> LoopLabels]
          /\ \A j \in Loops : /\ Dropped(sl, i)[j] = "busy" <=> sl[j] = "busy"
                              /\ Dropped(sl, i)[j] = "off" <=> sl[j] = "off"
      BY <1>a, DroppedLoops
    <3>2. CASE sl[i] \in {"sleep", "stale", "timer"} /\ sl' = [sl EXCEPT ![i] = "go"]
      BY <3>2, <1>a
    <3>3. CASE sl[i] = "race" /\ sl' = [Dropped(sl, i) EXCEPT ![i] = "go"]
      BY <3>1, <3>3
    <3> QED BY <1>16, <3>2, <3>3 DEF PushWakes
  <2>2. UNCHANGED <<running, pl, puller, pusher, pushAt, starting, starts, manual>>
    BY <1>16 DEF PushWakes, loopVars, hostVars
  <2> QED BY <1>b, <2>1, <2>2 DEF FlightsAreHeld, FreshLoops, PullHeld, PushHeld, WaitersHeld
<1>17. ASSUME NEW i \in Loops, PushGo(i) PROVE FlightsAreHeld'
  <2>1. /\ sl[i] = "go" /\ \A j \in Loops : j # i => sl'[j] = sl[j]
        /\ \/ sl'[i] # "busy" /\ pusher' = pusher /\ pushAt' = pushAt
           \/ sl'[i] = "busy" /\ pusher = Nobody /\ pusher' = i /\ pushAt' = "load"
    BY <1>17, <1>a DEF PushGo, BeginPush
  <2>2. UNCHANGED <<running, pl, puller, starting, starts, manual>>
    BY <1>17 DEF PushGo, loopVars, hostVars
  <2>3. FreshLoops' BY <1>b, <2>1, <2>2 DEF FreshLoops
  <2>4. PullHeld' BY <1>b, <2>1, <2>2, LoopNumbers DEF PullHeld, PushHeld
  <2>5. PushHeld' BY <1>b, <2>1, <2>2, LoopNumbers DEF PushHeld
  <2>6. WaitersHeld' BY <1>b, <2>1, <2>2 DEF WaitersHeld
  <2> QED BY <2>3, <2>4, <2>5, <2>6 DEF FlightsAreHeld
<1>18. ASSUME NEW i \in Loops, Started(i) PROVE FlightsAreHeld'
  <2>0. pl[i] = "off" /\ sl[i] = "off" /\ i \in starting /\ ~(i > starts)
    BY <1>18, <1>b DEF Started, FreshLoops
  <2>1. /\ \A j \in Loops : pl'[j] = "busy" <=> puller' = j
        /\ \A j \in Loops : j # i => pl'[j] = pl[j]
        /\ puller' = puller \/ (puller = Nobody /\ puller' = i /\ running)
    BY <1>18, <1>b, <2>0, PullRoundHeld DEF Started, TypeOK
  <2>2. \A j \in Loops : /\ j # i => (sl'[j] = "busy" <=> sl[j] = "busy")
                         /\ j # i => (sl'[j] = "off" <=> sl[j] = "off")
                         /\ sl'[i] = "top"
    BY <1>18, <1>a, SignalledLoops DEF Started
  <2>3. /\ UNCHANGED <<running, pusher, pushAt, starts>> /\ starting' = starting \ {i}
        /\ manual' = IF manual # "none" THEN manual ELSE IF running THEN "push" ELSE "pull"
    BY <1>18 DEF Started
  <2>4. FreshLoops' BY <1>b, <2>0, <2>1, <2>2, <2>3 DEF FreshLoops
  <2>5. PullHeld' BY <1>b, <2>1, <2>3, LoopNumbers DEF PullHeld
  <2>6. PushHeld' BY <1>b, <2>0, <2>2, <2>3 DEF PushHeld
  <2>7. WaitersHeld' BY <1>b, <2>1, <2>3, LoopNumbers DEF WaitersHeld
  <2> QED BY <2>4, <2>5, <2>6, <2>7 DEF FlightsAreHeld
<1>19. CASE Append
  BY <1>19 DEF Append, FlightsAreHeld, FreshLoops, PullHeld, PushHeld, WaitersHeld,
               loopVars, pushVars
<1>20. CASE TimerFires
  <2>1. \A i \in Loops : /\ sl'[i] = "busy" <=> sl[i] = "busy"
                         /\ sl'[i] = "off" <=> sl[i] = "off"
    BY <1>20, <1>a, SignalledLoops DEF TimerFires
  <2>2. UNCHANGED <<running, pl, puller, pusher, pushAt, starting, starts, manual>>
    BY <1>20 DEF TimerFires, loopVars
  <2> QED BY <1>b, <2>1, <2>2 DEF FlightsAreHeld, FreshLoops, PullHeld, PushHeld, WaitersHeld
<1>21. CASE Start
  <2>1. /\ UNCHANGED <<pl, puller, sl, pusher, pushAt, manual>>
        /\ running' = TRUE /\ starts' = starts + 1 /\ starting' = starting \cup {starts + 1}
    BY <1>21 DEF Start, loopVars, pushVars
  <2>2. starts \in 0..MaxStarts BY DEF TypeOK, HostOK
  <2>3. FreshLoops' BY <1>b, <2>1, <2>2 DEF FreshLoops, Loops
  <2> QED BY <1>b, <2>1, <2>3 DEF FlightsAreHeld, PullHeld, PushHeld, WaitersHeld
<1>22. CASE SyncOnce
  BY <1>22, <1>b DEF SyncOnce, FlightsAreHeld, FreshLoops, PullHeld, PushHeld, WaitersHeld,
               loopVars, pushVars
<1>23. CASE ManualPull
  <2>1. /\ UNCHANGED <<running, pl, sl, pusher, pushAt, starting, starts>> /\ manual = "pull"
        /\ \/ puller = Nobody /\ puller' = Manual /\ manual' = "pulling"
           \/ puller # Nobody /\ manual' = "push" /\ puller' = puller
    BY <1>23 DEF ManualPull, pushVars
  <2>2. FreshLoops' BY <1>b, <2>1 DEF FreshLoops
  <2>3. PullHeld' BY <1>b, <2>1, LoopNumbers DEF PullHeld
  <2>4. PushHeld' BY <1>b, <2>1 DEF PushHeld
  <2>5. WaitersHeld' BY <1>b, <2>1 DEF WaitersHeld
  <2> QED BY <2>2, <2>3, <2>4, <2>5 DEF FlightsAreHeld
<1>24. CASE ManualPush
  <2>1. /\ UNCHANGED <<running, pl, puller, sl, starting, starts>> /\ manual = "push"
        /\ \/ pusher = Nobody /\ pusher' = Manual /\ pushAt' = "load" /\ manual' = "pushing"
           \/ pusher # Nobody /\ manual' = "none" /\ pusher' = pusher /\ pushAt' = pushAt
    BY <1>24 DEF ManualPush, BeginPush, loopVars
  <2>2. FreshLoops' BY <1>b, <2>1 DEF FreshLoops
  <2>3. PullHeld' BY <1>b, <2>1, LoopNumbers DEF PullHeld, PushHeld
  <2>4. PushHeld' BY <1>b, <2>1, LoopNumbers DEF PushHeld
  <2>5. WaitersHeld' BY <1>b, <2>1 DEF WaitersHeld
  <2> QED BY <2>2, <2>3, <2>4, <2>5 DEF FlightsAreHeld
<1>25. CASE Stop
  <2>1. \A i \in Loops : /\ sl'[i] = "busy" <=> sl[i] = "busy"
                         /\ sl'[i] = "off" <=> sl[i] = "off"
                         /\ pl'[i] = "busy" <=> pl[i] = "busy"
                         /\ pl'[i] = "off" <=> pl[i] = "off"
    BY <1>25, <1>a, SignalledLoops DEF Stop
  <2>2. /\ UNCHANGED <<puller, pusher, starting, starts, manual>>
        /\ pushAt' = IF pushAt = "wait" THEN "recheck" ELSE pushAt
    BY <1>25 DEF Stop
  <2> QED BY <1>b, <2>1, <2>2 DEF FlightsAreHeld, FreshLoops, PullHeld, PushHeld, WaitersHeld
<1>26. CASE ResetSyncState
  <2>1. \A i \in Loops : /\ sl'[i] = "busy" <=> sl[i] = "busy"
                         /\ sl'[i] = "off" <=> sl[i] = "off"
                         /\ pl'[i] = "busy" <=> pl[i] = "busy"
                         /\ pl'[i] = "off" <=> pl[i] = "off"
    BY <1>26, <1>a, OutsleptLoops DEF ResetSyncState
  <2>2. UNCHANGED <<running, puller, pusher, pushAt, starting, starts, manual>>
    BY <1>26 DEF ResetSyncState, hostVars
  <2> QED BY <1>b, <2>1, <2>2 DEF FlightsAreHeld, FreshLoops, PullHeld, PushHeld, WaitersHeld
<1>27. CASE UNCHANGED vars
  BY <1>27 DEF vars, loopVars, pushVars, hostVars, FlightsAreHeld, FreshLoops, PullHeld,
               PushHeld, WaitersHeld
<1> QED
  BY <1>1, <1>2, <1>3, <1>4, <1>5, <1>6, <1>7, <1>8, <1>9, <1>10, <1>11, <1>12, <1>13,
     <1>14, <1>15, <1>16, <1>17, <1>18, <1>19, <1>20, <1>21, <1>22, <1>23, <1>24, <1>25,
     <1>26, <1>27
  DEF Next, EndsPush, LooksAgain

\* ADR-0008 ("single in-flight pull/push"): whatever stop(), start(), syncOnce() and
\* resetSyncState() are interleaved with, inFlight is set exactly while one loop or
\* caller awaits that pull or push, so it never stays set, and a push that waits
\* for a pull has one to wait for.
THEOREM InFlightIsHeld == Spec => []FlightsAreHeld
<1>1. Init => TypeOK /\ FlightsAreHeld BY TypesStart, HeldStart
<1>2. TypeOK /\ FlightsAreHeld /\ [Next]_vars => (TypeOK /\ FlightsAreHeld)'
  BY TypesStep, HeldStep
<1> QED BY <1>1, <1>2, PTL DEF Spec

-----------------------------------------------------------------------------
(* Back-off *)

\* As long as nobody called syncOnce: before the first start() nothing has
\* happened; after it, while the engine runs, only its one loop pulls, and during
\* a back-off that loop sleeps.
OneLoopPulls ==
  manuals = 0 =>
    /\ starts = 0 => /\ ~running /\ puller = Nobody /\ ~pullBackoff /\ manual = "none"
    /\ starts = 1 /\ running =>
         /\ puller \in {Nobody, 1} /\ manual \notin {"pull", "pulling"}
         /\ pullBackoff => /\ \A i \in Loops : pl[i] \in {"off", "sleep"}
                           /\ puller = Nobody /\ starting = {}

LEMMA GateStart == Init => OneLoopPulls
  BY DEF Init, OneLoopPulls

\* What a step of the engine does to the variables of OneLoopPulls when it is neither
\* a call from outside nor the start or the end of a pull.
LEMMA PushPartKeepsGate ==
  ASSUME TypeOK, FlightsAreHeld, OneLoopPulls,
         UNCHANGED <<running, pl, puller, pullBackoff, starting, starts, manuals>>,
         manual' = manual \/ manual' \in {"none", "push", "pushing"},
         manual = "none" => manual' = "none"
  PROVE  OneLoopPulls'
  BY DEF OneLoopPulls

LEMMA GateStep == TypeOK /\ FlightsAreHeld /\ OneLoopPulls /\ [Next]_vars => OneLoopPulls'
<1> SUFFICES ASSUME TypeOK, FlightsAreHeld, OneLoopPulls, [Next]_vars PROVE OneLoopPulls'
  OBVIOUS
<1>a. /\ pl \in [Loops -> LoopLabels] /\ starts \in Nat /\ manuals \in Nat
      /\ Loops \subseteq Nat /\ Nobody \notin Loops
  BY DEF TypeOK, PullOK, HostOK, Loops, Nobody
<1>b. FreshLoops /\ PullHeld /\ PushHeld /\ WaitersHeld
  BY DEF FlightsAreHeld
<1>c. starts = 0 /\ manuals = 0 => pushAt = "none" /\ starting = {}
  <2> SUFFICES ASSUME starts = 0, manuals = 0 PROVE pushAt = "none" /\ starting = {}
    OBVIOUS
  <2>1. \A i \in Loops : i > starts BY DEF Loops
  <2>2. \A i \in Loops : sl[i] = "off" /\ i \notin starting BY <1>b, <2>1 DEF FreshLoops
  <2>3. pusher \notin Loops BY <1>b, <2>2 DEF PushHeld
  <2>4. pusher # Manual BY <1>b DEF OneLoopPulls, PushHeld
  <2>5. pusher = Nobody BY <2>3, <2>4 DEF TypeOK, PushOK, Loops, Manual, Nobody
  <2> QED BY <1>b, <2>2, <2>5 DEF PushHeld, TypeOK, HostOK
<1>1. ASSUME NEW st \in {"idle", "error", "fatal"}, EndPull(st) PROVE OneLoopPulls'
  <2>1. /\ puller # Nobody /\ puller' = Nobody /\ pullBackoff' = (st = "error")
        /\ UNCHANGED <<running, starting, starts, manuals>>
        /\ manual' = IF puller = Manual THEN "push" ELSE manual
    BY <1>1 DEF EndPull
  <2>2. SUFFICES ASSUME manuals = 0 PROVE OneLoopPulls'
    BY <2>1 DEF OneLoopPulls
  <2>3. starts # 0 BY <2>1, <2>2 DEF OneLoopPulls
  <2>4. SUFFICES ASSUME starts = 1, running PROVE OneLoopPulls'
    BY <2>1, <2>3 DEF OneLoopPulls
  <2>5. puller = 1 BY <2>1, <2>2, <2>4 DEF OneLoopPulls
  <2>6. SUFFICES ASSUME st = "error"
                 PROVE  /\ \A i \in Loops : pl'[i] \in {"off", "sleep"}
                        /\ starting = {}
    BY <2>1, <2>2, <2>3, <2>4 DEF OneLoopPulls
  <2>7. 1 \in Loops BY <2>4 DEF TypeOK, HostOK, Loops
  <2>8. pl[1] = "busy" BY <1>b, <2>5, <2>7 DEF PullHeld
  <2>9. \A i \in Loops : i # 1 => i > starts BY <2>4 DEF Loops
  <2>10. starting = {} BY <1>b, <2>8, <2>9, <2>7 DEF FreshLoops, TypeOK, HostOK
  <2>11. PullWait(st, st = "error", TRUE) = "sleep" BY <2>6 DEF PullWait
  <2>12. pl' = [Outslept(pl) EXCEPT ![puller] = PullWait(st, st = "error", TRUE)]
    BY <1>1, <2>4, <2>5, <2>6, <2>7 DEF EndPull
  <2>13. /\ Outslept(pl) \in [Loops -> LoopLabels]
         /\ \A i \in Loops : Outslept(pl)[i] = "off" <=> pl[i] = "off"
    BY <1>a, OutsleptLoops
  <2>14. \A i \in Loops : i # 1 => pl'[i] = "off"
    BY <1>b, <2>5, <2>9, <2>12, <2>13 DEF FreshLoops
  <2>15. pl'[1] = "sleep" BY <2>5, <2>7, <2>11, <2>12, <2>13
  <2> QED BY <2>10, <2>14, <2>15
<1>2. CASE PullBackoffEnds
  BY <1>2 DEF PullBackoffEnds, OneLoopPulls, hostVars
<1>3. CASE PushAccepted \/ PushNothing \/ CursorMoved \/ CursorStuck \/ PushConflict
           \/ \E st \in {"error", "fatal"} : PushFailed(st)
  <2>1. UNCHANGED <<running, pl, puller, pullBackoff, starting, starts, manuals>>
    BY <1>3 DEF PushAccepted, PushNothing, CursorMoved, CursorStuck, PushConflict, PushFailed,
                loopVars
  <2>2. manual' = manual \/ manual' = "none"
    BY <1>3 DEF PushAccepted, PushNothing, CursorMoved, CursorStuck, PushConflict, PushFailed,
                TriesAgain, LeavePush
  <2> QED BY <2>1, <2>2, PushPartKeepsGate
<1>4. CASE PushRefused \/ LoadPending \/ PushBackoffEnds \/ Append \/ TimerFires
  BY <1>4, PushPartKeepsGate
  DEF PushRefused, LoadPending, PushBackoffEnds, Append, TimerFires, loopVars, hostVars
<1>5. CASE RequestImmediatePull
  <2>1. /\ UNCHANGED <<running, pullBackoff, starting, starts, manuals, manual>>
        /\ pushAt = "check"
        /\ running => puller' = puller
    BY <1>5 DEF RequestImmediatePull, hostVars
  <2>2. \A i \in Loops : pl[i] \in {"off", "sleep"} => pl'[i] \in {"off", "sleep"}
    BY <1>5, <1>a, SignalledLoops DEF RequestImmediatePull
  <2>3. manuals = 0 => starts # 0 BY <1>c, <2>1
  <2> QED BY <2>1, <2>2, <2>3 DEF OneLoopPulls
<1>6. ASSUME NEW i \in Loops, PullTurn(i) PROVE OneLoopPulls'
  <2>1. /\ UNCHANGED <<running, pullBackoff, starting, starts, manuals, manual>>
        /\ pl[i] = "top" /\ PullRound(i)
    BY <1>6 DEF PullTurn, hostVars
  <2>2. puller' = puller \/ puller' = i
    BY <1>b, <2>1, PullRoundHeld DEF TypeOK
  <2>3. i <= starts BY <1>a, <1>b, <2>1 DEF FreshLoops
  <2>4. SUFFICES ASSUME manuals = 0, starts = 1, running PROVE OneLoopPulls'
    BY <1>a, <2>1, <2>3 DEF OneLoopPulls, Loops
  <2>5. i = 1 BY <2>3, <2>4 DEF Loops
  <2>6. ~pullBackoff BY <2>1, <2>4 DEF OneLoopPulls
  <2> QED BY <2>1, <2>2, <2>4, <2>5, <2>6 DEF OneLoopPulls
<1>7. ASSUME NEW i \in Loops, PullWakes(i) PROVE OneLoopPulls'
  <2>1. /\ UNCHANGED <<running, puller, pullBackoff, starting, starts, manuals, manual>>
        /\ pl[i] = "sleep" => ~pullBackoff
        /\ pl[i] # "off"
    BY <1>7 DEF PullWakes, hostVars
  <2>2. manuals = 0 /\ starts = 1 /\ running => ~pullBackoff
    BY <2>1 DEF OneLoopPulls
  <2> QED BY <2>1, <2>2 DEF OneLoopPulls
<1>8. ASSUME NEW i \in Loops, PushTurn(i) \/ PushWakes(i) \/ PushGo(i) PROVE OneLoopPulls'
  BY <1>8, PushPartKeepsGate DEF PushTurn, PushWakes, PushGo, loopVars, hostVars
<1>9. ASSUME NEW i \in Loops, Started(i) PROVE OneLoopPulls'
  <2>1. /\ UNCHANGED <<running, pullBackoff, starts, manuals>> /\ PullRound(i)
        /\ manual' = IF manual # "none" THEN manual ELSE IF running THEN "push" ELSE "pull"
        /\ i \in starting
    BY <1>9 DEF Started
  <2>2. pl[i] = "off" /\ i <= starts BY <1>a, <1>b, <2>1 DEF FreshLoops
  <2>3. puller' = puller \/ puller' = i
    BY <1>b, <2>1, <2>2, PullRoundHeld DEF TypeOK
  <2>4. SUFFICES ASSUME manuals = 0, starts = 1, running PROVE OneLoopPulls'
    BY <1>a, <1>c, <2>1 DEF OneLoopPulls
  <2>5. i = 1 BY <2>2, <2>4 DEF Loops
  <2>6. ~pullBackoff BY <2>1, <2>4 DEF OneLoopPulls
  <2> QED BY <2>1, <2>3, <2>4, <2>5, <2>6 DEF OneLoopPulls
<1>10. CASE Start
  <2>1. /\ UNCHANGED <<puller, pullBackoff, manual, manuals>> /\ starts' = starts + 1
    BY <1>10 DEF Start, loopVars
  <2>2. starts' # 0 /\ (starts' = 1 => starts = 0) BY <1>a, <2>1
  <2> QED BY <2>1, <2>2 DEF OneLoopPulls
<1>11. CASE SyncOnce
  <2>1. manuals' # 0 BY <1>11, <1>a DEF SyncOnce
  <2> QED BY <2>1 DEF OneLoopPulls
<1>12. CASE ManualPull
  <2>1. /\ UNCHANGED <<running, starts, manuals>> /\ manual = "pull"
    BY <1>12 DEF ManualPull
  <2> QED BY <2>1 DEF OneLoopPulls
<1>13. CASE ManualPush
  BY <1>13, PushPartKeepsGate DEF ManualPush, loopVars
<1>14. CASE Stop
  <2>1. /\ running /\ ~running' /\ UNCHANGED <<starts, manuals>>
    BY <1>14 DEF Stop
  <2> QED BY <2>1 DEF OneLoopPulls
<1>15. CASE ResetSyncState
  <2>1. ~running /\ ~pullBackoff' /\ UNCHANGED <<running, puller, starts, manuals, manual>>
    BY <1>15 DEF ResetSyncState, hostVars
  <2> QED BY <2>1 DEF OneLoopPulls
<1>16. CASE UNCHANGED vars
  BY <1>16 DEF vars, loopVars, hostVars, OneLoopPulls
<1> QED
  BY <1>1, <1>2, <1>3, <1>4, <1>5, <1>6, <1>7, <1>8, <1>9, <1>10, <1>11, <1>12, <1>13,
     <1>14, <1>15, <1>16
  DEF Next, EndsPull, EndsPush, LooksAgain

\* No step of a running engine begins a pull during a back-off.
LEMMA GatedStep ==
  ASSUME TypeOK, FlightsAreHeld, OneLoopPulls, [Next]_vars,
         running, manuals = 0, starts <= 1, pullBackoff, puller = Nobody
  PROVE  puller' = Nobody
<1>1. starts = 1 BY DEF OneLoopPulls, TypeOK, HostOK
<1>2. /\ manual \notin {"pull", "pulling"} /\ starting = {}
      /\ \A i \in Loops : pl[i] \in {"off", "sleep"}
  BY <1>1 DEF OneLoopPulls
<1>3. ASSUME NEW i \in Loops, PullTurn(i) \/ PullWakes(i) \/ Started(i)
      PROVE  puller' = Nobody
  BY <1>2, <1>3 DEF PullTurn, PullWakes, Started
<1>4. ASSUME NEW i \in Loops, PushTurn(i) \/ PushWakes(i) \/ PushGo(i)
      PROVE  puller' = Nobody
  BY <1>4 DEF PushTurn, PushWakes, PushGo, loopVars
<1>5. CASE RequestImmediatePull
  BY <1>5 DEF RequestImmediatePull
<1>6. CASE PushAccepted \/ PushNothing \/ CursorMoved \/ CursorStuck \/ PushConflict
           \/ \E st \in {"error", "fatal"} : PushFailed(st)
  BY <1>6 DEF PushAccepted, PushNothing, CursorMoved, CursorStuck, PushConflict, PushFailed,
              loopVars
<1>7. CASE PushRefused \/ LoadPending \/ PushBackoffEnds \/ Append \/ TimerFires \/ Start
           \/ SyncOnce \/ ManualPush \/ Stop \/ ResetSyncState \/ PullBackoffEnds
  BY <1>7 DEF PushRefused, LoadPending, PushBackoffEnds, Append, TimerFires, Start, SyncOnce,
              ManualPush, Stop, ResetSyncState, PullBackoffEnds, loopVars
<1>8. CASE EndsPull \/ ManualPull
  BY <1>2, <1>8 DEF EndsPull, EndPull, ManualPull
<1>9. CASE UNCHANGED vars
  BY <1>9 DEF vars, loopVars
<1> QED
  BY <1>3, <1>4, <1>5, <1>6, <1>7, <1>8, <1>9 DEF Next, EndsPush, LooksAgain

\* ADR-0008 ("backoff gating"), for any number of events and faults: a running engine
\* that was started once and that nobody asks to sync begins no pull before the
\* back-off of the last failed one is over, whatever push conflicts ask for.
THEOREM BackoffHolds == Spec => BackoffGates
<1> DEFINE Inv == TypeOK /\ FlightsAreHeld /\ OneLoopPulls
           Gated == running /\ manuals = 0 /\ starts <= 1 /\ puller = Nobody
                    /\ puller' # Nobody => ~pullBackoff
<1>1. Init => Inv BY TypesStart, HeldStart, GateStart
<1>2. Inv /\ [Next]_vars => Inv' BY TypesStep, HeldStep, GateStep
<1>3. Inv /\ [Next]_vars => [Gated]_vars BY GatedStep
<1> QED BY <1>1, <1>2, <1>3, PTL DEF Spec, BackoffGates

=============================================================================
