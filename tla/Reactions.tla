----------------------------- MODULE Reactions -----------------------------
(***************************************************************************)
(* What happens after an event is committed: CommittedEventPublisher reads *)
(* the goals and the projects of table events, each in a stream of its     *)
(* own, and publishes them on the in-memory bus; GoalAchievementSaga keeps *)
(* a row per project and a row for the goal in process_manager_state and   *)
(* dispatches AchieveGoal and UnachieveGoal.                               *)
(*                                                                         *)
(* One goal and several projects.  Three threads run handlers of the saga: *)
(* the two streams and bootstrap() (or onRebaseRequired(), which calls     *)
(* it).  A step ends at an await of the store or of the command bus.  A    *)
(* command is one step here; Commands has its insides.  seenGoalIds is     *)
(* left out: the one goal is in every seed.                                *)
(***************************************************************************)
EXTENDS Integers, Sequences, FiniteSets

CONSTANTS
    Projects,      \* ids of projects
    Histories      \* the logs to start from, as the first pull brought them, each with a
                   \* bound on later events of users and devices and a bound on faults
                   \* (closed tabs, failing commands, missing master keys, rebases):
                   \* [log, more, faults]

VARIABLES
    log,         \* table events in commit order
    pos,         \* projection_meta: the saved position of each stream
    cursor,      \* lastSequence of each stream in memory
    phase,       \* "down", "starting" (publisher.start), "live" (saga subscribed)
    ran,         \* streams whose first run has ended since the start
    wake,        \* streams that were notified and have not read since
    goalRow,     \* the saga's stored state of the goal
    projRow,     \* the saga's stored state of each project
    idem,        \* idempotency keys of carried out commands
    seeded,      \* bootstrap has read the events to replay and has more of them to handle
    replaying,   \* the saga's flag, set once the events are decrypted
    th,          \* the threads
    budget,      \* what is left of the bounds
    served,      \* history: commit sequences whose publishing ended
    crossed,     \* history: a row was written over, or behind, another thread's
                 \* write, the status of a project was forgotten, or bootstrap was
                 \* given no events
    refused,     \* history: a command of the saga was refused or failed since the seed
    overtaken,   \* history: since the seed the saga decided on an achievement, or on
                 \* projects, that the log or another thread had moved on from
    manual,      \* history: a user took an achievement back
    bootFailed   \* history: the domain refused what bootstrap() asked for, so it threw

vars == <<log, pos, cursor, phase, ran, wake, goalRow, projRow, idem, seeded, replaying, th,
          budget, served, crossed, refused, overtaken, manual, bootFailed>>

Streams == {"goals", "projects"}
Threads == Streams \cup {"boot"}
NoProject == "none"
NoRow == [absent |-> TRUE]

\* The events.  Each carries its commit sequence, its position in the log.
GoalEvents == [agg : {"goal"}, version : Nat, seq : Nat,
               type : {"GoalCreated", "GoalRefined", "GoalAchieved", "GoalUnachieved",
                       "GoalArchived"}]
ProjectEvents == [agg : Projects, linked : BOOLEAN, readable : BOOLEAN, seq : Nat,
                  status : {"planned", "completed", NoProject},
                  type : {"ProjectCreated", "ProjectStatusTransitioned",
                          "ProjectGoalAdded", "ProjectGoalRemoved"}]
Events == GoalEvents \cup ProjectEvents

\* What the domain commits: versions count from 1; the first event of a project,
\* and no other, creates it; a project has a status; links are added and removed;
\* and the one key of a project reads all of its events or none.
Sane(s) ==
    \A i \in 1..Len(s) :
        /\ s[i].agg = "goal" => s[i].version > 0
        /\ s[i].agg # "goal" =>
               /\ s[i].type = "ProjectGoalAdded" => s[i].linked
               /\ s[i].type = "ProjectGoalRemoved" => ~s[i].linked
               /\ s[i].type \in {"ProjectCreated", "ProjectStatusTransitioned"}
                  => s[i].status # NoProject
               /\ s[i].type = "ProjectCreated" <=> \A j \in 1..(i - 1) : s[j].agg # s[i].agg
               /\ \A j \in 1..Len(s) : s[j].agg = s[i].agg => s[j].readable = s[i].readable

\* A history begins with the goal.
ASSUME ReactionConstants ==
    /\ "goal" \notin Projects
    /\ \A h \in Histories :
           /\ h.more \in Nat /\ h.faults \in Nat
           /\ h.log \in Seq(Events) /\ Len(h.log) > 0 /\ h.log[1].agg = "goal"
           /\ \A i \in 1..Len(h.log) : h.log[i].seq = i
           /\ Sane(h.log)

emptyGoalState == [linked |-> {}, completed |-> {}, achieved |-> FALSE, archived |-> FALSE,
                   requested |-> FALSE, version |-> 0]
emptyProjectState == [linked |-> FALSE, status |-> NoProject]

Stream(e) == IF e.agg = "goal" THEN "goals" ELSE "projects"

NoEvent == [agg |-> "goal", type |-> "SystemReconciliation", seq |-> 0]
IdleThread == [pc |-> "idle", batch |-> {}, upTo |-> 0, ev |-> NoEvent,
               goal |-> emptyGoalState, proj |-> emptyProjectState, stale |-> FALSE,
               throws |-> FALSE]

Init ==
    /\ pos = [s \in Streams |-> 0] /\ cursor = pos
    /\ phase = "down" /\ ran = {} /\ wake = {}
    /\ goalRow = NoRow /\ projRow = [p \in Projects |-> NoRow]
    /\ idem = {} /\ seeded = FALSE /\ replaying = FALSE
    /\ th = [t \in Threads |-> IdleThread]
    /\ \E h \in Histories :
           /\ log = h.log
           /\ budget = [user |-> h.more, faults |-> h.faults]
    /\ served = {} /\ crossed = FALSE /\ refused = FALSE
    /\ overtaken = FALSE /\ manual = FALSE /\ bootFailed = FALSE

-----------------------------------------------------------------------------
(* What the log says. *)

Of(a) == {i \in 1..Len(log) : log[i].agg = a}
LastOf(S) == CHOOSE i \in S : \A j \in S : j <= i
GoalVersion == CHOOSE v \in {log[i].version : i \in Of("goal")} :
                   \A i \in Of("goal") : log[i].version <= v
Turns == {i \in Of("goal") : log[i].type \in {"GoalAchieved", "GoalUnachieved"}}
IsAchieved == Turns # {} /\ log[LastOf(Turns)].type = "GoalAchieved"
IsArchived == \E i \in Of("goal") : log[i].type = "GoalArchived"
Exists(p) == Of(p) # {}
Readable(p) == \A i \in Of(p) : log[i].readable

\* Links and status of a project after its events.
Linking(p) == {i \in Of(p) : log[i].type \in {"ProjectCreated", "ProjectGoalAdded",
                                              "ProjectGoalRemoved"}}
IsLinked(p) == Linking(p) # {} /\ log[LastOf(Linking(p))].linked
Statuses(p) == {i \in Of(p) : log[i].type \in {"ProjectCreated", "ProjectStatusTransitioned"}}
Status(p) == log[LastOf(Statuses(p))].status

\* The project was completed and taken up again while it was not linked.
LinkedAt(p, n) ==
    LET before == {i \in Linking(p) : i <= n}
    IN  before # {} /\ log[LastOf(before)].linked
Relapsed(p) ==
    \E i, j \in Statuses(p) : i < j /\ log[i].status = "completed"
                              /\ log[j].status # "completed" /\ ~LinkedAt(p, j)

-----------------------------------------------------------------------------
(* Events come in. *)

GoalEvent(type) == [agg |-> "goal", type |-> type, version |-> GoalVersion + 1,
                    seq |-> Len(log) + 1]
ProjectEvent(p, type, linked, status, readable) ==
    [agg |-> p, type |-> type, linked |-> linked, status |-> status,
     readable |-> readable, seq |-> Len(log) + 1]

\* The commit notifies every stream of an open tab.
Commit(e) ==
    /\ log' = Append(log, e)
    /\ wake' = IF phase = "down" THEN {} ELSE Streams

\* A user, or a device whose event was pulled, records an event.  The key of
\* another user's project may be missing.
UserEvent(e) ==
    /\ budget.user > 0
    /\ budget' = [budget EXCEPT !.user = @ - 1]
    /\ Commit(e)
    /\ UNCHANGED <<pos, cursor, phase, ran, goalRow, projRow, idem, seeded, replaying, th,
                   served, crossed, refused, overtaken, bootFailed>>

CreateProject(p, linked, status, readable) ==
    /\ ~Exists(p) /\ manual' = manual
    /\ UserEvent(ProjectEvent(p, "ProjectCreated", linked, status, readable))

TransitionStatus(p, status) ==
    /\ Exists(p) /\ Status(p) # status /\ manual' = manual
    /\ UserEvent(ProjectEvent(p, "ProjectStatusTransitioned", FALSE, status, Readable(p)))

LinkGoal(p) ==
    /\ Exists(p) /\ ~IsLinked(p) /\ manual' = manual
    /\ UserEvent(ProjectEvent(p, "ProjectGoalAdded", TRUE, NoProject, Readable(p)))

UnlinkGoal(p) ==
    /\ Exists(p) /\ IsLinked(p) /\ manual' = manual
    /\ UserEvent(ProjectEvent(p, "ProjectGoalRemoved", FALSE, NoProject, Readable(p)))

\* GoalRefined stands for the goal events that only change the version.
EditGoal == ~IsArchived /\ manual' = manual /\ UserEvent(GoalEvent("GoalRefined"))
ArchiveGoal == ~IsArchived /\ manual' = manual /\ UserEvent(GoalEvent("GoalArchived"))
UnachieveByUser ==
    /\ ~IsArchived /\ IsAchieved /\ manual' = TRUE
    /\ UserEvent(GoalEvent("GoalUnachieved"))

-----------------------------------------------------------------------------
(* Threads. *)

Set(t, r) == th' = [th EXCEPT ![t] = r]
Goto(t, pc) == th' = [th EXCEPT ![t].pc = pc]

\* The other threads that hold a copy of a row no longer hold what is stored.
Outdated(f, t, pcs) ==
    [u \in Threads |-> IF u # t /\ f[u].pc \in pcs THEN [f[u] EXCEPT !.stale = TRUE] ELSE f[u]]
HoldsGoal == {"saveGoal", "ask", "dispatch", "undo"}

\* A write crosses another thread's when the copy is stale, or a stream writes
\* while older events are read to be replayed.
Crosses(t) == crossed \/ th[t].stale \/ (t # "boot" /\ seeded)

WriteGoal(t, row, pc) ==
    /\ goalRow' = row
    /\ th' = Outdated([th EXCEPT ![t].pc = pc, ![t].goal = row], t, HoldsGoal)
    /\ crossed' = Crosses(t)

\* A batch is handled in the order of the commits.
Earliest(batch) == CHOOSE e \in batch : \A f \in batch : e.seq <= f.seq

\* The handler of the event returned; the next one of the batch is served.
Served(t) ==
    [th[t] EXCEPT !.pc = "next", !.batch = @ \ {th[t].ev}, !.goal = emptyGoalState,
                  !.proj = emptyProjectState, !.stale = FALSE, !.ev = NoEvent]
HandlerDone(t) ==
    /\ Set(t, IF th[t].batch = {} THEN IdleThread ELSE Served(t))
    /\ served' = IF t = "boot" \/ th[t].batch = {} THEN served
                 ELSE served \cup {th[t].ev.seq}

\* publish() rejects: the position stays, and so does nothing else of the batch;
\* ProjectionTaskRunner forgets a rerun that was asked for.
Throw(t) ==
    /\ Set(t, IdleThread)
    /\ wake' = wake \ {t}

-----------------------------------------------------------------------------
(* CommittedEventPublisher. *)

\* start(): the positions are loaded and both streams run once.
StartPublisher ==
    /\ phase = "down"
    /\ phase' = "starting" /\ ran' = {} /\ wake' = Streams
    /\ cursor' = pos
    /\ UNCHANGED <<log, pos, goalRow, projRow, idem, seeded, replaying, th, budget, served,
                   crossed, refused, overtaken, manual, bootFailed>>

Fetched(s) == {i \in 1..Len(log) : i > cursor[s] /\ Stream(log[i]) = s}
CanRead(e) == e.agg = "goal" \/ e.readable

\* runProcessStream: the events after the position; an event whose key is
\* missing is passed over for good.
ReadBatch(s) ==
    /\ phase # "down" /\ s \in wake /\ th[s].pc = "idle"
    /\ wake' = wake \ {s}
    /\ IF Fetched(s) = {} THEN th' = th /\ ran' = ran \cup {s}
       ELSE /\ Set(s, [IdleThread EXCEPT
                          !.pc = "next", !.upTo = LastOf(Fetched(s)),
                          !.batch = {log[i] : i \in {j \in Fetched(s) : CanRead(log[j])}}])
            /\ ran' = ran
    /\ UNCHANGED <<log, pos, cursor, phase, goalRow, projRow, idem, seeded, replaying, budget,
                   served, crossed, refused, overtaken, manual, bootFailed>>

\* "Master key not set": the publisher defers the batch.
DeferBatch(s) ==
    /\ phase # "down" /\ s \in wake /\ th[s].pc = "idle" /\ Fetched(s) # {}
    /\ budget.faults > 0 /\ budget' = [budget EXCEPT !.faults = @ - 1]
    /\ wake' = wake \ {s} /\ ran' = ran \cup {s}
    /\ UNCHANGED <<log, pos, cursor, phase, goalRow, projRow, idem, seeded, replaying, th, served,
                   crossed, refused, overtaken, manual, bootFailed>>

\* Mistake: the position is saved before the events are published.
SavePositionFirst(s) ==
    /\ th[s].pc = "next"
    /\ cursor' = [cursor EXCEPT ![s] = th[s].upTo]
    /\ pos' = [pos EXCEPT ![s] = th[s].upTo]
    /\ th' = IF th[s].batch = {} THEN [th EXCEPT ![s] = IdleThread] ELSE th
    /\ ran' = IF th[s].batch = {} THEN ran \cup {s} ELSE ran
    /\ UNCHANGED <<log, phase, wake, goalRow, projRow, idem, seeded, replaying, budget, served,
                   crossed, refused, overtaken, manual, bootFailed>>

\* All events are published: saveLastSequence.
SavePosition(s) ==
    /\ th[s].pc = "next" /\ th[s].batch = {}
    /\ cursor' = [cursor EXCEPT ![s] = th[s].upTo]
    /\ pos' = [pos EXCEPT ![s] = th[s].upTo]
    /\ Set(s, IdleThread)
    /\ ran' = ran \cup {s}
    /\ UNCHANGED <<log, phase, wake, goalRow, projRow, idem, seeded, replaying, budget, served,
                   crossed, refused, overtaken, manual, bootFailed>>

\* The bus calls no handler as long as the saga has not subscribed.
PublishToNobody(s) ==
    /\ th[s].pc = "next" /\ th[s].batch # {} /\ phase = "starting"
    /\ th' = [th EXCEPT ![s].batch = {}]
    /\ served' = served \cup {e.seq : e \in th[s].batch}
    /\ UNCHANGED <<log, pos, cursor, phase, ran, wake, goalRow, projRow, idem, seeded, replaying,
                   budget, crossed, refused, overtaken, manual, bootFailed>>

ensureGoalState == IF goalRow = NoRow THEN emptyGoalState ELSE goalRow

-----------------------------------------------------------------------------
(* bootstrap *)

\* The saga subscribes once publisher.start() has returned and reads all events.
Seed == {log[i] : i \in {j \in 1..Len(log) : CanRead(log[j])}}
ReadSeed ==
    /\ th' = [th EXCEPT !["boot"] = [IdleThread EXCEPT !.pc = "next", !.batch = Seed,
                                                  !.upTo = Len(log)]]
    /\ seeded' = TRUE
    /\ refused' = FALSE /\ overtaken' = FALSE

Bootstrap ==
    /\ phase = "starting" /\ ran = Streams
    /\ phase' = "live"
    /\ crossed' = FALSE
    /\ ReadSeed
    /\ UNCHANGED <<log, pos, cursor, ran, wake, goalRow, projRow, idem, replaying, budget,
                   served, manual, bootFailed>>

\* "Master key not set", in a store that was just switched to: there is nothing to
\* replay and no goal to look at, and bootstrap returns.
BootstrapWithoutKey ==
    /\ phase = "starting" /\ ran = Streams
    /\ budget.faults > 0 /\ budget' = [budget EXCEPT !.faults = @ - 1]
    /\ phase' = "live"
    /\ crossed' = TRUE
    /\ UNCHANGED <<log, pos, cursor, ran, wake, goalRow, projRow, idem, seeded, replaying, th,
                   served, refused, overtaken, manual, bootFailed>>

\* The events are decrypted, which awaits; the streams went on meanwhile.
BeginReplay ==
    /\ seeded /\ ~replaying
    /\ replaying' = TRUE
    /\ UNCHANGED <<log, pos, cursor, phase, ran, wake, goalRow, projRow, idem, seeded, th,
                   budget, served, crossed, refused, overtaken, manual, bootFailed>>

\* Mistake: the flag is not reset when there is nothing to look at.
EndReplayLater ==
    /\ replaying /\ th["boot"].pc = "next" /\ th["boot"].batch = {}
    /\ seeded' = FALSE /\ replaying' = TRUE
    /\ Set("boot", [IdleThread EXCEPT !.pc = "ask", !.goal = ensureGoalState])
    /\ UNCHANGED <<log, pos, cursor, phase, ran, wake, goalRow, projRow, idem, budget,
                   served, crossed, refused, overtaken, manual, bootFailed>>

\* The last replayed event was handled: the goal is looked at once more.
EndReplay ==
    /\ replaying /\ th["boot"].pc = "next" /\ th["boot"].batch = {}
    /\ seeded' = FALSE /\ replaying' = FALSE
    /\ Set("boot", IF goalRow = NoRow THEN IdleThread
                   ELSE [IdleThread EXCEPT !.pc = "ask", !.goal = goalRow])
    /\ UNCHANGED <<log, pos, cursor, phase, ran, wake, goalRow, projRow, idem, budget,
                   served, crossed, refused, overtaken, manual, bootFailed>>

\* A remote goal event takes the version of a pending local one, which is counted
\* up (PendingEventVersionRewriter), and the sync engine asks for a rebase:
\* resetAll.
Rebase ==
    /\ phase = "live" /\ th["boot"].pc = "idle" /\ budget.faults > 0
    /\ LET i == LastOf(Of("goal"))
       IN  /\ log[i].version = GoalVersion /\ i > 1
           /\ log' = Append([log EXCEPT ![i].version = @ + 1],
                            [GoalEvent("GoalRefined") EXCEPT !.version = GoalVersion])
    /\ wake' = Streams
    /\ goalRow' = NoRow /\ projRow' = [p \in Projects |-> NoRow]
    /\ budget' = [budget EXCEPT !.faults = @ - 1]
    /\ crossed' = FALSE
    /\ th' = Outdated([th EXCEPT !["boot"].pc = "seed"], "boot", HoldsGoal \cup {"saveProject"})
    /\ UNCHANGED <<pos, cursor, phase, ran, idem, seeded, replaying, served, refused, overtaken,
                   manual, bootFailed>>

SeedAfterRebase ==
    /\ th["boot"].pc = "seed"
    /\ ReadSeed
    /\ UNCHANGED <<log, pos, cursor, phase, ran, wake, goalRow, projRow, idem, replaying,
                   budget, served, crossed, manual, bootFailed>>

\* The same without the key: the rows stay away.
SeedWithoutKey ==
    /\ th["boot"].pc = "seed"
    /\ Set("boot", IdleThread)
    /\ crossed' = TRUE
    /\ UNCHANGED <<log, pos, cursor, phase, ran, wake, goalRow, projRow, idem, seeded,
                   replaying, budget, served, refused, overtaken, manual, bootFailed>>

-----------------------------------------------------------------------------
(* The saga's handlers. *)

\* handleEvent: the handler of the event's type begins with what it reads.
HandleEvent(t) ==
    /\ th[t].pc = "next" /\ th[t].batch # {} /\ phase = "live"
    /\ t = "boot" => replaying
    /\ LET e == Earliest(th[t].batch)
       IN  th' = [th EXCEPT ![t].ev = e,
                     ![t].pc = IF e.agg = "goal" THEN "saveGoal" ELSE "saveProject",
                     ![t].goal = IF e.agg = "goal" THEN ensureGoalState ELSE emptyGoalState,
                     ![t].proj = IF e.agg = "goal" \/ e.type = "ProjectCreated"
                                    \/ projRow[e.agg] = NoRow
                                 THEN emptyProjectState ELSE projRow[e.agg]]
    /\ UNCHANGED <<log, pos, cursor, phase, ran, wake, goalRow, projRow, idem, seeded, replaying,
                   budget, served, crossed, refused, overtaken, manual, bootFailed>>

\* What the event makes of the project's state.
ProjectAfter(proj, e) ==
    CASE e.type = "ProjectCreated" -> [linked |-> e.linked, status |-> e.status]
      [] e.type = "ProjectGoalAdded" -> [proj EXCEPT !.linked = TRUE]
      [] e.type = "ProjectGoalRemoved" -> [proj EXCEPT !.linked = FALSE]
      [] OTHER -> [proj EXCEPT !.status = e.status]

\* The project's row is saved; without a goal that is all, with one the goal's
\* row is read next.  The removal of a goal from a project that has none, such as
\* one that is delivered again, removes the row and with it the known status.
SaveProject(t) ==
    /\ th[t].pc = "saveProject"
    /\ LET e == th[t].ev
           p == e.agg
           after == ProjectAfter(th[t].proj, e)
           touches == after.linked \/ (e.type = "ProjectGoalRemoved" /\ th[t].proj.linked)
           drop == e.type = "ProjectGoalRemoved" /\ ~th[t].proj.linked
       IN  /\ projRow' = [projRow EXCEPT ![p] = IF drop THEN NoRow ELSE after]
           /\ th' = Outdated([th EXCEPT ![t] =
                        IF touches THEN [@ EXCEPT !.pc = "saveGoal", !.proj = after,
                                                  !.goal = ensureGoalState, !.stale = FALSE]
                        ELSE Served(t)], t, {"saveProject"})
           /\ served' = IF touches \/ t = "boot" THEN served ELSE served \cup {e.seq}
           /\ crossed' = (Crosses(t) \/ drop)
    /\ UNCHANGED <<log, pos, cursor, phase, ran, wake, goalRow, idem, seeded, replaying, budget,
                   refused, overtaken, manual, bootFailed>>

\* addLinkedProject, removeLinkedProject, addCompletedProject, removeCompletedProject.
Linked(g, p) == [g EXCEPT !.linked = @ \cup {p}]
Unlinked(g, p) == [g EXCEPT !.linked = @ \ {p}, !.completed = @ \ {p}]
WithCompletion(g, p, done) ==
    [g EXCEPT !.completed = IF done THEN @ \cup {p} ELSE @]

\* Mistake: a project that is no longer completed is still counted.
KeepsCompleted(g, e, proj) ==
    LET p == e.agg
        done == proj.status = "completed"
    IN  CASE e.type = "GoalAchieved" ->
                 [g EXCEPT !.achieved = TRUE, !.requested = FALSE, !.version = e.version]
          [] e.type = "GoalUnachieved" ->
                 [g EXCEPT !.achieved = FALSE, !.requested = FALSE, !.version = e.version]
          [] e.type = "GoalArchived" ->
                 [g EXCEPT !.archived = TRUE, !.requested = FALSE, !.version = e.version]
          [] e.type \in {"GoalCreated", "GoalRefined"} -> [g EXCEPT !.version = e.version]
          [] e.type = "ProjectGoalRemoved" -> Unlinked(g, p)
          [] OTHER -> WithCompletion(Linked(g, p), p, done)

\* What the event makes of the goal's state.
GoalAfter(g, e, proj) ==
    LET p == e.agg
        done == proj.status = "completed"
    IN  CASE e.type \in {"GoalAchieved", "GoalUnachieved"} ->
                 [g EXCEPT !.achieved = (e.type = "GoalAchieved"), !.requested = FALSE,
                           !.version = e.version]
          [] e.type = "GoalArchived" ->
                 [g EXCEPT !.archived = TRUE, !.requested = FALSE, !.version = e.version]
          [] e.type \in {"GoalCreated", "GoalRefined"} -> [g EXCEPT !.version = e.version]
          [] e.type = "ProjectGoalRemoved" -> Unlinked(g, p)
          [] e.type = "ProjectStatusTransitioned" /\ ~done ->
                 [Linked(g, p) EXCEPT !.completed = @ \ {p}]
          [] OTHER -> WithCompletion(Linked(g, p), p, done)

\* That is all for an event of the goal and for a replayed one.
SaveGoal(t) ==
    /\ th[t].pc = "saveGoal"
    /\ LET row == GoalAfter(th[t].goal, th[t].ev, th[t].proj)
           last == t = "boot" \/ th[t].ev.agg = "goal"
       IN  /\ goalRow' = row
           /\ th' = Outdated([th EXCEPT ![t] = IF last THEN Served(t)
                                               ELSE [@ EXCEPT !.pc = "ask", !.goal = row]],
                             t, HoldsGoal)
           /\ served' = IF t # "boot" /\ last THEN served \cup {th[t].ev.seq} ELSE served
    /\ crossed' = Crosses(t)
    /\ UNCHANGED <<log, pos, cursor, phase, ran, wake, projRow, idem, seeded, replaying, budget,
                   refused, overtaken, manual, bootFailed>>

AllCompleted(g) == g.linked # {} /\ g.linked \subseteq g.completed

\* Nothing more while bootstrap replays history, for an event of a stream either.
AskNothing(t) ==
    /\ th[t].pc = "ask" /\ th[t].ev # NoEvent /\ replaying
    /\ HandlerDone(t)
    /\ UNCHANGED <<log, pos, cursor, phase, ran, wake, goalRow, projRow, idem, seeded, replaying,
                   budget, crossed, refused, overtaken, manual, bootFailed>>

\* maybeAchieveGoal up to the command: the request is stored first.  Every call
\* passes forceRetry when a request is stored, so one never prevents another.
MayAsk(t) ==
    /\ th[t].pc = "ask"
    /\ th[t].ev = NoEvent \/ ~replaying

\* Mistake: a stored request is taken for one that is under way.
ShouldAchieveOnce(t) ==
    LET g == th[t].goal
    IN  /\ th[t].ev.type # "ProjectGoalRemoved" /\ ~g.requested
        /\ ~g.achieved /\ ~g.archived /\ AllCompleted(g) /\ g.version > 0

ShouldAchieve(t) ==
    LET g == th[t].goal
    IN  /\ th[t].ev.type # "ProjectGoalRemoved"
        /\ ~g.achieved /\ ~g.archived /\ AllCompleted(g) /\ g.version > 0

ShouldUnachieve(t) ==
    LET g == th[t].goal
    IN  /\ g.achieved \/ g.requested
        /\ ~g.archived /\ g.linked # {} /\ ~AllCompleted(g) /\ g.version > 0

RequestAchievement(t) ==
    /\ MayAsk(t) /\ ShouldAchieve(t)
    /\ WriteGoal(t, [th[t].goal EXCEPT !.requested = TRUE], "dispatch")
    /\ UNCHANGED <<log, pos, cursor, phase, ran, wake, projRow, idem, seeded, replaying, budget,
                   served, refused, overtaken, manual, bootFailed>>

\* Neither an achievement nor its opposite is due.
AskInVain(t) ==
    /\ MayAsk(t) /\ ~ShouldAchieve(t) /\ ~ShouldUnachieve(t)
    /\ HandlerDone(t)
    /\ overtaken' = (overtaken \/ (th[t].goal.achieved /\ ~IsAchieved))
    /\ UNCHANGED <<log, pos, cursor, phase, ran, wake, goalRow, projRow, idem, seeded, replaying,
                   budget, crossed, refused, manual, bootFailed>>

\* maybeUnachieveGoal up to the command; nothing is stored.
AskUnachievement(t) ==
    /\ MayAsk(t) /\ ~ShouldAchieve(t) /\ ShouldUnachieve(t)
    /\ Goto(t, "unachieve")
    /\ UNCHANGED <<log, pos, cursor, phase, ran, wake, goalRow, projRow, idem, seeded, replaying,
                   budget, served, crossed, refused, overtaken, manual, bootFailed>>

\* The key names the triggering event; bootstrap makes up a new event each time.
AchieveKey(t) == <<"achieve", th[t].ev.seq>>

\* The command does nothing when its key is recorded, is refused when the goal
\* has another version, and achieves the goal otherwise.  All projects are
\* completed, so maybeUnachieveGoal has nothing to do after it.
DispatchAchieve(t) ==
    /\ th[t].pc = "dispatch"
    /\ IF AchieveKey(t) \in idem
       THEN HandlerDone(t) /\ UNCHANGED <<log, wake, idem, refused>>
       ELSE IF th[t].goal.version # GoalVersion
       THEN Goto(t, "undo") /\ refused' = TRUE /\ UNCHANGED <<log, wake, idem, served>>
       ELSE IF IsAchieved \/ IsArchived
       THEN /\ th' = [th EXCEPT ![t].pc = "undo", ![t].throws = TRUE]
            /\ UNCHANGED <<log, wake, idem, refused, served>>
       ELSE /\ Commit(GoalEvent("GoalAchieved")) /\ refused' = refused
            /\ idem' = IF th[t].ev = NoEvent THEN idem ELSE idem \cup {AchieveKey(t)}
            /\ HandlerDone(t)
    /\ overtaken' = (overtaken \/ (AchieveKey(t) \in idem /\ ~IsAchieved))
    /\ UNCHANGED <<pos, cursor, phase, ran, goalRow, projRow, seeded, replaying, budget,
                   crossed, manual, bootFailed>>

\* The command fails with any other error.
FailAchieve(t) ==
    /\ th[t].pc = "dispatch" /\ budget.faults > 0
    /\ budget' = [budget EXCEPT !.faults = @ - 1]
    /\ th' = [th EXCEPT ![t].pc = "undo", ![t].throws = TRUE]
    /\ refused' = TRUE
    /\ UNCHANGED <<log, pos, cursor, phase, ran, wake, goalRow, projRow, idem, seeded, replaying,
                   served, crossed, overtaken, manual, bootFailed>>

\* The request is taken back; only ConcurrencyError is swallowed.
UndoRequest(t) ==
    /\ th[t].pc = "undo"
    /\ WriteGoal(t, [th[t].goal EXCEPT !.requested = FALSE], "undone")
    /\ UNCHANGED <<log, pos, cursor, phase, ran, wake, projRow, idem, seeded, replaying, budget,
                   served, refused, overtaken, manual, bootFailed>>

Undone(t) ==
    /\ th[t].pc = "undone"
    /\ IF th[t].throws THEN Throw(t) /\ served' = served
       ELSE HandlerDone(t) /\ wake' = wake
    /\ UNCHANGED <<log, pos, cursor, phase, ran, goalRow, projRow, idem, seeded, replaying,
                   budget, crossed, refused, overtaken, manual, bootFailed>>

UnachieveKey(t) == <<"unachieve", th[t].goal.version>>

DispatchUnachieve(t) ==
    /\ th[t].pc = "unachieve"
    /\ UnachieveKey(t) \in idem \/ th[t].goal.version # GoalVersion \/ (IsAchieved /\ ~IsArchived)
    /\ HandlerDone(t)
    /\ IF UnachieveKey(t) \in idem THEN UNCHANGED <<log, wake, idem, refused>>
       ELSE IF th[t].goal.version # GoalVersion
       THEN refused' = TRUE /\ UNCHANGED <<log, wake, idem>>
       ELSE /\ Commit(GoalEvent("GoalUnachieved")) /\ refused' = refused
            /\ idem' = idem \cup {UnachieveKey(t)}
    /\ overtaken' = (overtaken \/ AllCompleted(ensureGoalState))
    /\ UNCHANGED <<pos, cursor, phase, ran, goalRow, projRow, seeded, replaying, budget, crossed,
                   manual, bootFailed>>

\* The domain refuses to take back what was not achieved: the handler throws.
UnachieveThrows(t) ==
    /\ th[t].pc = "unachieve"
    /\ UnachieveKey(t) \notin idem /\ th[t].goal.version = GoalVersion
    /\ ~IsAchieved \/ IsArchived
    /\ Throw(t)
    /\ bootFailed' = (bootFailed \/ t = "boot")
    /\ UNCHANGED <<log, pos, cursor, phase, ran, goalRow, projRow, idem, seeded, replaying,
                   budget, served, crossed, refused, overtaken, manual>>

-----------------------------------------------------------------------------

\* The tab is closed at any point: memory is lost, the tables stay.
Crash ==
    /\ phase # "down" /\ budget.faults > 0
    /\ budget' = [budget EXCEPT !.faults = @ - 1]
    /\ phase' = "down" /\ ran' = {} /\ wake' = {}
    /\ cursor' = [s \in Streams |-> 0]
    /\ th' = [t \in Threads |-> IdleThread]
    /\ seeded' = FALSE /\ replaying' = FALSE
    /\ UNCHANGED <<log, pos, goalRow, projRow, idem, served, crossed, refused, overtaken,
                   manual, bootFailed>>

UserNext ==
    \/ \E p \in Projects :
        \/ \E linked \in BOOLEAN, s \in {"planned", "completed"} :
               CreateProject(p, linked, s, TRUE)
        \/ CreateProject(p, TRUE, "planned", FALSE)
        \/ \E s \in {"planned", "completed"} : TransitionStatus(p, s)
        \/ LinkGoal(p) \/ UnlinkGoal(p)
    \/ EditGoal \/ ArchiveGoal \/ UnachieveByUser

Handler(t) ==
    \/ HandleEvent(t) \/ SaveProject(t) \/ SaveGoal(t)
    \/ AskNothing(t) \/ AskInVain(t) \/ RequestAchievement(t) \/ AskUnachievement(t)
    \/ DispatchAchieve(t) \/ UndoRequest(t) \/ Undone(t)
    \/ DispatchUnachieve(t) \/ UnachieveThrows(t)

Next ==
    \/ UserNext
    \/ StartPublisher \/ Bootstrap \/ BootstrapWithoutKey \/ BeginReplay \/ EndReplay
    \/ Rebase \/ SeedAfterRebase \/ SeedWithoutKey
    \/ \E s \in Streams : ReadBatch(s) \/ DeferBatch(s) \/ PublishToNobody(s) \/ SavePosition(s)
    \/ \E t \in Threads : Handler(t) \/ FailAchieve(t)
    \/ Crash

Spec == Init /\ [][Next]_vars

-----------------------------------------------------------------------------
(* Properties *)

\* Everything of the open tab has come to rest: each stream is at the end of the
\* log and bootstrap has returned.
Quiet ==
    /\ phase = "live" /\ wake = {}
    /\ \A t \in Threads : th[t].pc = "idle"
    /\ \A s \in Streams : Fetched(s) = {}

\* Events, rows and threads have their shapes; the streams of an open tab stand
\* where the table says; the saga's flag is set only while bootstrap replays.
GoalStates == [linked : SUBSET Projects, completed : SUBSET Projects, achieved : BOOLEAN,
               archived : BOOLEAN, requested : BOOLEAN, version : Nat]
ProjectStates == [linked : BOOLEAN, status : {"planned", "completed", NoProject}]
ThreadStates == [pc : {"idle", "next", "saveProject", "saveGoal", "ask", "dispatch", "undo",
                       "undone", "unachieve", "seed"},
                 batch : SUBSET Events, upTo : Nat, ev : Events \cup {NoEvent},
                 goal : GoalStates, proj : ProjectStates, stale : BOOLEAN, throws : BOOLEAN]
LogOK ==
    /\ log \in Seq(Events) /\ Len(log) > 0 /\ log[1].agg = "goal"
    /\ \A i \in 1..Len(log) : log[i].seq = i
RowsOK ==
    /\ goalRow \in GoalStates \cup {NoRow}
    /\ projRow \in [Projects -> ProjectStates \cup {NoRow}]
    /\ pos \in [Streams -> Nat] /\ \A s \in Streams : pos[s] <= Len(log)
TabOK ==
    /\ phase \in {"down", "starting", "live"}
    /\ ran \subseteq Streams /\ wake \subseteq Streams /\ seeded \in BOOLEAN
    /\ cursor \in [Streams -> Nat] /\ (phase # "down" => cursor = pos)
    /\ budget \in [user : Nat, faults : Nat]
ThreadsOK ==
    /\ th \in [Threads -> ThreadStates]
    /\ \A t \in Threads :
           /\ th[t].pc # "idle" => phase # "down" /\ (t = "boot" => phase = "live")
           /\ th[t].pc = "saveProject" => th[t].ev \in ProjectEvents
           /\ th[t].pc = "saveGoal" => th[t].ev # NoEvent
    /\ seeded <=> th["boot"].pc \in {"next", "saveProject", "saveGoal"}
    /\ ~seeded => th["boot"].batch = {}
ShapesOK == LogOK /\ RowsOK /\ TabOK /\ ThreadsOK
FlagOK == replaying \in BOOLEAN /\ (replaying => seeded)
TypeOK == ShapesOK /\ FlagOK

\* Events are published at least once: a position that was saved has no readable
\* event before it whose handlers did not finish, wherever a tab was closed or
\* a handler threw.
PublishedBeforeSaved ==
    \A i \in 1..Len(log) :
        i <= pos[Stream(log[i])] /\ CanRead(log[i]) => i \in served

\* At rest, when no two threads crossed and no removal was delivered twice, the
\* saga's row says what the log says: links, completions, achievement and
\* archive, whatever else was delivered twice, replayed or reset.  The version is
\* that of the goal event that was committed last.  Only of a project that was
\* taken up again before it was linked the completion may be left over: the
\* handlers of a new project and of a new link never take one away.
SagaAgreesWithLog ==
    Quiet /\ ~crossed /\ goalRow # NoRow =>
        LET known == {p \in Projects : Exists(p) /\ Readable(p) /\ IsLinked(p)}
            completed == {p \in known : Status(p) = "completed"}
        IN  /\ goalRow.linked = known
            /\ completed \subseteq goalRow.completed
            /\ goalRow.completed \subseteq completed \cup {p \in known : Relapsed(p)}
            /\ goalRow.achieved = IsAchieved
            /\ goalRow.archived = IsArchived
            /\ goalRow.version = log[LastOf(Of("goal"))].version

\* At rest every project of the goal is completed.  The removal of the last
\* unfinished project does not ask for the achievement, so there is none.
Due == Quiet /\ goalRow # NoRow /\ AllCompleted(goalRow) /\ ~goalRow.archived
       /\ \A i \in 1..Len(log) : log[i].type # "ProjectGoalRemoved"

\* At rest a goal whose projects are all completed is achieved, unless a user
\* took it back, threads crossed, a command was refused or failed, or the saga was
\* overtaken while it decided.
AchievedWhenDue ==
    Due /\ ~crossed /\ ~refused /\ ~overtaken /\ ~manual => IsAchieved

\* docs/architecture/application-layer.md: the saga "automatically achieves a goal
\* when all linked projects are completed".
AchievesWhenCompleted == Due /\ ~crossed /\ ~refused /\ ~manual => IsAchieved

\* The same sentence says that the saga "tracks project completion".
CompletionsAreDerived ==
    Quiet /\ ~crossed /\ goalRow # NoRow =>
        \A p \in goalRow.completed : Status(p) = "completed"

\* docs/architecture/failure-modes.md: a crash may leave achievementRequested set,
\* and bootstrap reconciles.
BootstrapReconciles == ~bootFailed
=============================================================================
