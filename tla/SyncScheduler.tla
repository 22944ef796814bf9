---------------------------- MODULE SyncScheduler ----------------------------
(***************************************************************************)
(* When packages/sync-engine/src/SyncEngine.ts pulls and pushes: the pull  *)
(* loop and the push loop of start(), their signals, sleeps and back-off,  *)
(* the status both share, the debounced push request, syncOnce, stop and   *)
(* the push that waits for a pull (requestImmediatePull).  What a pull or  *)
(* a push does to the data is in SyncEngine; here each ends in one of its  *)
(* outcomes.                                                               *)
(*                                                                         *)
(* JavaScript runs to completion: an action is everything between two      *)
(* awaits that wait for a timer, a signal, the database or the network.    *)
(* Every start() that finds the engine stopped spawns a new pair of loops, *)
(* numbered 1..MaxStarts; a loop of an earlier start() that has not looked *)
(* at `running` in between goes on.                                        *)
(***************************************************************************)
EXTENDS Naturals

CONSTANTS
  LongPoll,    \* pullWaitMs > 0 (the default); FALSE: pullIntervalMs is used
  MaxStarts,   \* bound on effective calls of start()
  MaxManual,   \* bound on calls of syncOnce other than the one after start()
  MaxEvents,   \* bound on local events appended
  MaxFaults    \* bound on pulls and pushes that do not succeed

ASSUME SchedulerConstants ==
  /\ LongPoll \in BOOLEAN
  /\ MaxStarts \in Nat /\ MaxManual \in Nat /\ MaxEvents \in Nat /\ MaxFaults \in Nat

Loops == 1..MaxStarts
Nobody == 0                    \* nobody's pull (push) is in flight
Manual == MaxStarts + 1        \* the caller of syncOnce
Pusher == MaxStarts + 2        \* a push that pulls itself, after stop()

VARIABLES
  running, status,
  starting,      \* calls of start() whose ensureSyncMetaRow is not done
  starts,
  pl,            \* pl[i]: where pull loop i is
  puller,        \* whose pull is in flight (pullState.inFlight: puller # Nobody)
  pullReq,       \* pullState.requested
  pullBackoff,   \* pullState.notBeforeMs is in the future
  sl,            \* sl[i]: where push loop i is
  pusher,        \* whose push is in flight
  pushAt,        \* where that push is
  batch,         \* how many events it sends
  pushReq,       \* pushState.requested
  pushBackoff,   \* pushState.notBeforeMs is in the future
  subscribed,    \* subscribeToTables(['events']) is in effect
  timer,         \* pushTimer (and pushState.queued)
  manual,        \* where syncOnce is
  manuals, pending, appended, faults

loopVars == <<pl, puller, pullReq, pullBackoff>>
pushVars == <<sl, pusher, pushAt, batch, pushReq, pushBackoff>>
hostVars == <<starting, starts, subscribed, timer, manual, manuals>>
dataVars == <<pending, appended, faults>>
vars == <<running, status, loopVars, pushVars, hostVars, dataVars>>

Statuses == {"idle", "syncing", "error", "fatal"}   \* fatal: error with retryAt null
LoopLabels == {"off", "top", "busy", "sleep", "stale", "signal", "lost", "race", "timer", "go"}
PushLabels == {"none", "load", "empty", "sent", "join", "check", "wait", "inline", "recheck"}

Init ==
  /\ running = FALSE /\ status = "idle"
  /\ starting = {} /\ starts = 0
  /\ pl = [i \in Loops |-> "off"] /\ puller = Nobody
  /\ pullReq = FALSE /\ pullBackoff = FALSE
  /\ sl = [i \in Loops |-> "off"] /\ pusher = Nobody /\ pushAt = "none" /\ batch = 0
  /\ pushReq = FALSE /\ pushBackoff = FALSE
  /\ subscribed = FALSE /\ timer = FALSE
  /\ manual = "none" /\ manuals = 0
  /\ pending = 0 /\ appended = 0 /\ faults = 0

-----------------------------------------------------------------------------
(* Signals *)

\* signalPull and signalPush resolve the current signal: the loops that wait for
\* it go on, the pull loop to the head of its loop, the push loop to its push.
Signalled(l, label) ==
  [i \in Loops |-> IF l[i] \in {"signal", "race"} THEN label ELSE l[i]]

\* The end of a race by its delay drops the signal without resolving it: another
\* loop that waits for the same signal is never woken by it.
Dropped(l, i) ==
  [j \in Loops |-> IF j = i THEN l[j]
                   ELSE CASE l[j] = "signal" -> "lost"
                          [] l[j] = "race" -> "timer"
                          [] OTHER -> l[j]]

\* A loop that sleeps through a back-off somebody else has since changed wakes
\* at a time of its own.
Outslept(l) == [i \in Loops |-> IF l[i] = "sleep" THEN "stale" ELSE l[i]]

-----------------------------------------------------------------------------
(* The pull loop *)

\* Mistake: a request overrides the back-off.
EagerPullWait(st, backoff, requested) ==
  IF st = "fatal" THEN "signal"
  ELSE IF requested \/ LongPoll THEN "top"
  ELSE IF backoff THEN "sleep"
  ELSE "race"

\* waitForNextPull: where the loop goes ("top": it does not wait at all).
PullWait(st, backoff, requested) ==
  IF st = "fatal" THEN "signal"
  ELSE IF backoff THEN "sleep"
  ELSE IF requested \/ LongPoll THEN "top"
  ELSE "race"

\* One round: consumePullRequest, then pullOnce, which returns at once if a pull
\* is in flight; then waitForNextPull.
PullRound(i) ==
  IF ~running
  THEN pl' = [pl EXCEPT ![i] = "off"] /\ UNCHANGED <<puller, pullReq, status>>
  ELSE /\ pullReq' = FALSE
       /\ \/ /\ puller = Nobody
             /\ pl' = [pl EXCEPT ![i] = "busy"]
             /\ puller' = i
             /\ status' = "syncing"
          \/ /\ puller # Nobody
             /\ pl' = [pl EXCEPT ![i] = PullWait(status, pullBackoff, FALSE)]
             /\ UNCHANGED <<puller, status>>

PullTurn(i) ==
  /\ pl[i] = "top"
  /\ PullRound(i)
  /\ UNCHANGED <<running, pullBackoff, pushVars, hostVars, dataVars>>

\* The push that awaits the end of a pull.  Mistake: resolvePullWaiters is left out.
NoWaiterResumed ==
  CASE pushAt = "join" -> "check"
    [] pushAt = "inline" -> "recheck"
    [] OTHER -> pushAt
Resumed ==
  CASE pushAt = "join" -> "check"
    [] pushAt \in {"wait", "inline"} -> "recheck"
    [] OTHER -> pushAt

\* pullOnceInternal ends with status st; whoever pulled goes on.  If it inserted
\* rows, the subscription to the table schedules a push.
EndPull(st) ==
  LET backoff == st = "error"
      requested == IF st = "error" THEN TRUE ELSE IF st = "fatal" THEN FALSE ELSE pullReq
      rest == Outslept(pl)
  IN  /\ puller # Nobody
      /\ st # "idle" => faults < MaxFaults
      /\ faults' = IF st # "idle" THEN faults + 1 ELSE faults
      /\ status' = st
      /\ pullBackoff' = backoff
      /\ pullReq' = requested
      /\ puller' = Nobody
      /\ pushAt' = Resumed
      /\ pl' = IF puller \in Loops
               THEN [rest EXCEPT ![puller] =
                       IF running THEN PullWait(st, backoff, requested) ELSE "off"]
               ELSE rest
      /\ manual' = IF puller = Manual THEN "push" ELSE manual
      /\ \E inserted \in BOOLEAN : timer' = (timer \/ (inserted /\ subscribed /\ running))
      /\ UNCHANGED <<running, sl, pusher, batch, pushReq, pushBackoff,
                     starting, starts, subscribed, manuals, pending, appended>>

\* Time passes: notBeforeMs is no longer in the future.
PullBackoffEnds ==
  /\ pullBackoff
  /\ pullBackoff' = FALSE
  /\ UNCHANGED <<running, status, pl, puller, pullReq, pushVars, hostVars, dataVars>>

\* A sleep of the pull loop, or the delay of its race, is over.
PullWakes(i) ==
  /\ \/ pl[i] = "sleep" /\ ~pullBackoff /\ pl' = [pl EXCEPT ![i] = "top"]
     \/ pl[i] \in {"stale", "timer"} /\ pl' = [pl EXCEPT ![i] = "top"]
     \/ pl[i] = "race" /\ pl' = [Dropped(pl, i) EXCEPT ![i] = "top"]
  /\ UNCHANGED <<running, status, puller, pullReq, pullBackoff, pushVars, hostVars, dataVars>>

-----------------------------------------------------------------------------
(* The push loop *)

\* waitForNextPush.
PushWait ==
  IF status = "fatal" THEN "signal"
  ELSE IF pushBackoff THEN "sleep"
  ELSE IF pushReq THEN "go"
  ELSE "race"

PushTurn(i) ==
  /\ sl[i] = "top"
  /\ sl' = [sl EXCEPT ![i] = IF running THEN PushWait ELSE "off"]
  /\ UNCHANGED <<running, status, loopVars, pusher, pushAt, batch, pushReq, pushBackoff,
                 hostVars, dataVars>>

PushBackoffEnds ==
  /\ pushBackoff
  /\ pushBackoff' = FALSE
  /\ UNCHANGED <<running, status, loopVars, sl, pusher, pushAt, batch, pushReq, hostVars, dataVars>>

\* Mistake: no fallback interval, only a signal ends the race.
PushWakesBySignal(i) ==
  /\ \/ sl[i] = "sleep" /\ ~pushBackoff /\ sl' = [sl EXCEPT ![i] = "go"]
     \/ sl[i] \in {"stale", "timer"} /\ sl' = [sl EXCEPT ![i] = "go"]
  /\ UNCHANGED <<running, status, loopVars, pusher, pushAt, batch, pushReq, pushBackoff,
                 hostVars, dataVars>>

PushWakes(i) ==
  /\ \/ sl[i] = "sleep" /\ ~pushBackoff /\ sl' = [sl EXCEPT ![i] = "go"]
     \/ sl[i] \in {"stale", "timer"} /\ sl' = [sl EXCEPT ![i] = "go"]
     \/ sl[i] = "race" /\ sl' = [Dropped(sl, i) EXCEPT ![i] = "go"]
  /\ UNCHANGED <<running, status, loopVars, pusher, pushAt, batch, pushReq, pushBackoff,
                 hostVars, dataVars>>

\* pushOnce by `who`: returns at once if a push is in flight.
BeginPush(who) ==
  IF pusher = Nobody THEN pusher' = who /\ pushAt' = "load" /\ status' = "syncing"
  ELSE UNCHANGED <<pusher, pushAt, status>>

\* The loop is past its wait: the request is cleared and pushOnce is called.
PushGo(i) ==
  /\ sl[i] = "go"
  /\ \/ /\ ~running
        /\ sl' = [sl EXCEPT ![i] = "off"]
        /\ UNCHANGED <<pushReq, pusher, pushAt, status>>
     \/ /\ running
        /\ pushReq' = FALSE
        /\ BeginPush(i)
        /\ sl' = [sl EXCEPT ![i] = IF pusher = Nobody THEN "busy" ELSE "top"]
  /\ UNCHANGED <<running, loopVars, batch, pushBackoff, hostVars, dataVars>>

\* loadPendingEvents.
LoadPending ==
  /\ pushAt = "load"
  /\ batch' = pending
  /\ pushAt' = IF pending = 0 THEN "empty" ELSE "sent"
  /\ UNCHANGED <<running, status, loopVars, sl, pusher, pushReq, pushBackoff, hostVars, dataVars>>

\* pushOnce returns with status st.  `again`: requestPush was called.
LeavePush(st, backoff, requested, again) ==
  LET rest == Outslept(IF again THEN Signalled(sl, "go") ELSE sl)
  IN  /\ status' = st
      /\ pushBackoff' = backoff
      /\ pushReq' = requested
      /\ pusher' = Nobody /\ pushAt' = "none" /\ batch' = 0
      /\ sl' = IF pusher \in Loops THEN [rest EXCEPT ![pusher] = "top"] ELSE rest
      /\ manual' = IF pusher = Manual THEN "none" ELSE manual

\* No pending row: the request is cleared although it may be a later one.
PushNothing ==
  /\ pushAt = "empty"
  /\ LeavePush("idle", FALSE, FALSE, FALSE)
  /\ UNCHANGED <<running, loopVars, starting, starts, subscribed, timer, manuals, dataVars>>

\* Mistake: everything appended so far counts as acknowledged.
PushAcceptedForAll ==
  /\ pushAt = "sent"
  /\ pending' = pending - appended
  /\ LeavePush("idle", FALSE, pushReq \/ pending > batch, pending > batch)
  /\ UNCHANGED <<running, loopVars, starting, starts, subscribed, timer, manuals, appended, faults>>

\* The server accepts the batch; what is still pending is requested at once.
PushAccepted ==
  /\ pushAt = "sent"
  /\ pending' = pending - batch
  /\ LeavePush("idle", FALSE, pushReq \/ pending > batch, pending > batch)
  /\ UNCHANGED <<running, loopVars, starting, starts, subscribed, timer, manuals, appended, faults>>

\* A retryable error backs off and requests a push; a non-retryable one clears
\* the request.
PushFailed(st) ==
  /\ pushAt = "sent"
  /\ faults < MaxFaults
  /\ faults' = faults + 1
  /\ LeavePush(st, st = "error", st = "error", st = "error")
  /\ UNCHANGED <<running, loopVars, starting, starts, subscribed, timer, manuals, pending, appended>>

\* The next attempt, or none is left and pushOnce falls out of its loop with the
\* status as it is.
TriesAgain ==
  \/ /\ pushAt' = "load" /\ batch' = 0
     /\ UNCHANGED <<status, sl, pusher, pushReq, pushBackoff, manual>>
  \/ LeavePush(status, pushBackoff, pushReq, FALSE)

\* A conflict whose missing events have been applied.
PushConflict ==
  /\ pushAt = "sent"
  /\ faults < MaxFaults
  /\ faults' = faults + 1
  /\ TriesAgain
  /\ UNCHANGED <<running, loopVars, starting, starts, subscribed, timer, manuals, pending, appended>>

\* A conflict without missing events: awaitPullIfInFlight.
PushRefused ==
  /\ pushAt = "sent"
  /\ faults < MaxFaults
  /\ faults' = faults + 1
  /\ pushAt' = IF puller # Nobody THEN "join" ELSE "check"
  /\ UNCHANGED <<running, status, loopVars, sl, pusher, batch, pushReq, pushBackoff,
                 hostVars, pending, appended>>

\* The cursor has moved past expectedHead ...
CursorMoved ==
  /\ pushAt \in {"check", "recheck"}
  /\ TriesAgain
  /\ UNCHANGED <<running, loopVars, starting, starts, subscribed, timer, manuals, dataVars>>

\* ... or has not: requestImmediatePull.  A stopped engine pulls in line, unless a
\* pull is in flight; a running one joins that pull, or asks the loop for one and
\* becomes a waiter.
RequestImmediatePull ==
  /\ pushAt = "check"
  /\ \/ /\ ~running /\ puller = Nobody
        /\ pushAt' = "inline" /\ puller' = Pusher /\ status' = "syncing"
        /\ UNCHANGED <<pl, pullReq>>
     \/ /\ ~running /\ puller # Nobody
        /\ pushAt' = "recheck"
        /\ UNCHANGED <<pl, puller, pullReq, status>>
     \/ /\ running /\ puller # Nobody
        /\ pushAt' = "inline"
        /\ UNCHANGED <<pl, puller, pullReq, status>>
     \/ /\ running /\ puller = Nobody
        /\ pushAt' = "wait" /\ pullReq' = TRUE
        /\ pl' = Signalled(pl, "top")
        /\ UNCHANGED <<puller, status>>
  /\ UNCHANGED <<running, pullBackoff, sl, pusher, batch, pushReq, pushBackoff, hostVars, dataVars>>

\* The pull was in vain: a retryable conflict.
CursorStuck ==
  /\ pushAt = "recheck"
  /\ LeavePush("error", TRUE, TRUE, TRUE)
  /\ UNCHANGED <<running, loopVars, starting, starts, subscribed, timer, manuals, dataVars>>

-----------------------------------------------------------------------------
(* Local events, and the callers of the engine *)

\* An event is appended; the subscription debounces a push request (schedulePush).
Append ==
  /\ appended < MaxEvents
  /\ appended' = appended + 1
  /\ pending' = pending + 1
  /\ timer' = (timer \/ (subscribed /\ running))
  /\ UNCHANGED <<running, status, loopVars, pushVars, starting, starts, subscribed,
                 manual, manuals, faults>>

TimerFires ==
  /\ timer
  /\ timer' = FALSE
  /\ pushReq' = TRUE
  /\ sl' = Signalled(sl, "go")
  /\ UNCHANGED <<running, status, loopVars, pusher, pushAt, batch, pushBackoff,
                 starting, starts, subscribed, manual, manuals, dataVars>>

\* start(), followed by syncOnce() as the application does.
Start ==
  /\ ~running /\ starts < MaxStarts
  /\ running' = TRUE
  /\ starts' = starts + 1
  /\ starting' = starting \cup {starts + 1}
  /\ UNCHANGED <<status, loopVars, pushVars, subscribed, timer, manual, manuals, dataVars>>

\* ensureSyncMetaRow is done: subscribe, request the initial push, and run both
\* loops up to their first await.  The pullOnce of the syncOnce that follows finds
\* that pull in flight, unless the engine has been stopped meanwhile.
Started(i) ==
  /\ i \in starting
  /\ starting' = starting \ {i}
  /\ subscribed' = TRUE
  /\ pushReq' = (pushReq \/ running)
  /\ sl' = [IF running THEN Signalled(sl, "go") ELSE sl EXCEPT ![i] = "top"]
  /\ manual' = IF manual # "none" THEN manual ELSE IF running THEN "push" ELSE "pull"
  /\ PullRound(i)
  /\ UNCHANGED <<running, pullBackoff, pusher, pushAt, batch, pushBackoff,
                 starts, timer, manuals, dataVars>>

SyncOnce ==
  /\ manual = "none" /\ manuals < MaxManual
  /\ manual' = "pull"
  /\ manuals' = manuals + 1
  /\ UNCHANGED <<running, status, loopVars, pushVars, starting, starts, subscribed, timer, dataVars>>

\* syncOnce: pullOnce, which returns at once if a pull is in flight ...
ManualPull ==
  /\ manual = "pull"
  /\ IF puller = Nobody
     THEN puller' = Manual /\ status' = "syncing" /\ manual' = "pulling"
     ELSE manual' = "push" /\ UNCHANGED <<puller, status>>
  /\ UNCHANGED <<running, pl, pullReq, pullBackoff, pushVars,
                 starting, starts, subscribed, timer, manuals, dataVars>>

\* ... then pushOnce.
ManualPush ==
  /\ manual = "push"
  /\ BeginPush(Manual)
  /\ manual' = IF pusher = Nobody THEN "pushing" ELSE "none"
  /\ UNCHANGED <<running, loopVars, sl, batch, pushReq, pushBackoff,
                 starting, starts, subscribed, timer, manuals, dataVars>>

\* stop(): the transport is aborted (a pull or push in flight then fails), the
\* timer and the subscription go, every waiter is released.
Stop ==
  /\ running
  /\ running' = FALSE
  /\ subscribed' = FALSE /\ timer' = FALSE
  /\ pl' = Signalled(pl, "top")
  /\ sl' = Signalled(sl, "go")
  /\ pushAt' = IF pushAt = "wait" THEN "recheck" ELSE pushAt
  /\ UNCHANGED <<status, puller, pullReq, pullBackoff, pusher, batch, pushReq, pushBackoff,
                 starting, starts, manual, manuals, dataVars>>

\* resetSyncState, allowed while stopped.
ResetSyncState ==
  /\ ~running
  /\ pullBackoff' = FALSE /\ pushBackoff' = FALSE
  /\ status' = "idle"
  /\ pl' = Outslept(pl) /\ sl' = Outslept(sl)
  /\ UNCHANGED <<running, puller, pullReq, pusher, pushAt, batch, pushReq, hostVars, dataVars>>

-----------------------------------------------------------------------------
EndsPull == \E st \in {"idle", "error", "fatal"} : EndPull(st)
EndsPush == PushAccepted \/ (\E st \in {"error", "fatal"} : PushFailed(st))
            \/ PushConflict \/ PushRefused
LooksAgain == CursorMoved \/ RequestImmediatePull \/ CursorStuck

Next ==
  \/ EndsPull \/ PullBackoffEnds
  \/ EndsPush \/ LoadPending \/ PushNothing \/ LooksAgain \/ PushBackoffEnds
  \/ \E i \in Loops : PullTurn(i) \/ PullWakes(i) \/ PushTurn(i) \/ PushWakes(i)
                      \/ PushGo(i) \/ Started(i)
  \/ Append \/ TimerFires \/ Start \/ SyncOnce \/ ManualPull \/ ManualPush \/ Stop
  \/ ResetSyncState

Spec == Init /\ [][Next]_vars

\* Timers fire, database and network calls end, and the event loop runs every
\* ready continuation.  The user and the command handlers owe nothing.
Fairness ==
  /\ WF_vars(EndsPull) /\ WF_vars(PullBackoffEnds) /\ WF_vars(PushBackoffEnds)
  /\ WF_vars(EndsPush) /\ WF_vars(LoadPending) /\ WF_vars(PushNothing)
  /\ WF_vars(LooksAgain) /\ WF_vars(TimerFires)
  /\ WF_vars(ManualPull) /\ WF_vars(ManualPush)
  /\ \A i \in Loops : /\ WF_vars(PullTurn(i)) /\ WF_vars(PullWakes(i)) /\ WF_vars(Started(i))
                      /\ WF_vars(PushTurn(i)) /\ WF_vars(PushWakes(i)) /\ WF_vars(PushGo(i))

FairSpec == Spec /\ Fairness

-----------------------------------------------------------------------------
(* Properties *)

\* Every field of the engine has the type the code gives it, and a push holds no
\* more events than are pending.
PullOK ==
  /\ pl \in [Loops -> LoopLabels] /\ puller \in 0..Pusher
  /\ pullReq \in BOOLEAN /\ pullBackoff \in BOOLEAN
PushOK ==
  /\ sl \in [Loops -> LoopLabels] /\ pusher \in 0..Manual /\ pushAt \in PushLabels
  /\ pushReq \in BOOLEAN /\ pushBackoff \in BOOLEAN
HostOK ==
  /\ running \in BOOLEAN /\ status \in Statuses
  /\ starting \subseteq Loops /\ starts \in 0..MaxStarts
  /\ subscribed \in BOOLEAN /\ timer \in BOOLEAN
  /\ manual \in {"none", "pull", "pulling", "push", "pushing"} /\ manuals \in 0..MaxManual
DataOK ==
  /\ appended \in 0..MaxEvents /\ pending \in 0..appended /\ batch \in 0..pending
  /\ faults \in 0..MaxFaults
TypeOK == PullOK /\ PushOK /\ HostOK /\ DataOK

\* ADR-0008 ("single in-flight pull/push", against "pull storms"): no pull loop is
\* ever in a round in which it neither pulls nor waits.  Such a round has no
\* await that yields to the event loop, so it repeats for ever.
NoPullStorm ==
  \A i \in Loops : ~(/\ pl[i] = "top" /\ running /\ puller # Nobody
                     /\ PullWait(status, pullBackoff, FALSE) = "top")

\* ADR-0008 ("backoff gating"): a running engine starts no pull before the
\* back-off of the last failed one is over, whatever push conflicts ask for;
\* as long as nobody calls syncOnce, which pulls at once and may fail while the
\* loop is on its way to a pull, and start() was called once: the loop of another
\* start() begins with a pull too.
BackoffGates ==
  [][running /\ manuals = 0 /\ starts <= 1 /\ puller = Nobody /\ puller' # Nobody
     => ~pullBackoff]_vars

\* A push that waits for a pull is always resumed: by the end of the pull, or
\* by stop().
WaitingPushResumes ==
  (pushAt \in {"join", "wait", "inline"}) ~> (pushAt \notin {"join", "wait", "inline"})

\* A local event is eventually pushed by a running engine, although its request
\* may be cleared by a push that found nothing, unless the push loop is parked
\* on a non-retryable error.
EventsPushed ==
  [](pending > 0 => <>(pending = 0 \/ ~running \/ \E i \in Loops : sl[i] = "signal"))
=============================================================================
