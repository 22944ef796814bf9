--------------------------- MODULE SagaInvariant ---------------------------
(***************************************************************************)
(* Why the saga's rows agree with the log when all is at rest: an          *)
(* invariant of every state in between, strong enough to be inductive.     *)
(* Besides what is in the rows it says what is still to come: which events *)
(* each thread has read, or has yet to read, and has not saved.            *)
(***************************************************************************)
EXTENDS Reactions

-----------------------------------------------------------------------------
(* What is outstanding *)

\* The places of a handler after the goal's row, and after the project's row, was
\* saved.
AfterGoal == {"ask", "dispatch", "undo", "undone", "unachieve"}
AfterProject == AfterGoal \cup {"saveGoal"}

InBatch(t, i) == \E e \in th[t].batch : e.seq = i

\* Thread t has read event i, and its handler has not come to a place in A.
Holds(A, t, i) == InBatch(t, i) /\ ~(th[t].pc \in A /\ th[t].ev.seq = i)
\* Event i is behind the position of its stream s, which has not read it, or holds it.
Waits(A, s, i) == cursor[s] < i /\ (th[s].pc = "idle" \/ th[s].upTo < i \/ Holds(A, s, i))
\* Some thread will still come to a place in A with event i.
Open(A, i) ==
    \/ th["boot"].pc = "seed"
    \/ Holds(A, "boot", i)
    \/ Waits(A, Stream(log[i]), i)
\* The events that the goal's row, and the projects' rows, need not show yet.
Pend(A) == {i \in 1..Len(log) : CanRead(log[i]) /\ Open(A, i)}
PendG == Pend(AfterGoal)
PendP == Pend(AfterProject)

-----------------------------------------------------------------------------
(* The batches *)

\* e is event i of the log as it was read: a rebase may have counted it up since.
Same(e, i) ==
    /\ i \in 1..Len(log) /\ CanRead(e)
    /\ \/ e = log[i]
       \/ /\ e.agg = "goal" /\ log[i].agg = "goal" /\ e.type = log[i].type
          /\ e.seq = log[i].seq /\ e.version > 0
          /\ \E j \in 1..Len(log) : i < j /\ log[j].agg = "goal"

\* The place of a thread in its handler, and the event that is handled there.
PlaceOK(t) ==
    /\ th[t].pc \in {"saveProject", "saveGoal"} \/ (t \in Streams /\ th[t].pc \in AfterGoal) =>
           th[t].ev \in th[t].batch /\ \A e \in th[t].batch : th[t].ev.seq <= e.seq
    /\ t = "boot" /\ th[t].pc \in AfterGoal => th[t].ev = NoEvent
    /\ t = "goals" => th[t].pc \notin AfterGoal
    /\ th[t].pc = "idle" => th[t].batch = {}
    /\ t \in Streams =>
           th[t].pc # "seed" /\ (th[t].pc # "idle" => cursor[t] <= th[t].upTo)
    /\ phase # "live" => th[t].pc \in {"idle", "next"}
\* A batch is the end of what was read of the log.
ThreadHolds(t) ==
    /\ PlaceOK(t)
    /\ th[t].upTo <= Len(log)
    /\ \A e \in th[t].batch : Same(e, e.seq) /\ (t \in Streams => Stream(e) = t /\ cursor[t] < e.seq)
    /\ \A i \in 1..Len(log) :
           /\ t \in Streams => Stream(log[i]) = t
           /\ CanRead(log[i]) /\ i <= th[t].upTo
           /\ \E e \in th[t].batch : e.seq < i
           => InBatch(t, i)
\* What bootstrap has not read waits for its stream.
Behind ==
    seeded /\ ~crossed =>
        \A i \in 1..Len(log) :
            th["boot"].upTo < i /\ CanRead(log[i]) =>
                /\ Waits(AfterGoal, Stream(log[i]), i)
                /\ log[i].agg # "goal" => Waits(AfterProject, Stream(log[i]), i)
BatchInv == (\A t \in Threads : ThreadHolds(t)) /\ Behind

-----------------------------------------------------------------------------
(* Whatever a row or a copy of one says was in the log once. *)

OnceLinked(p) == \E i \in Linking(p) : log[i].linked /\ log[i].readable
OnceCompleted(p) == \E i \in Statuses(p) : log[i].status = "completed"
OnceAchieved == \E i \in Turns : log[i].type = "GoalAchieved"
GoalSane(g) ==
    /\ g.completed \subseteq g.linked
    /\ \A p \in g.linked : OnceLinked(p)
    /\ \A p \in g.completed : OnceCompleted(p)
    /\ g.archived => IsArchived
    /\ g.achieved => OnceAchieved
ProjSane(p, r) == (r.linked => OnceLinked(p)) /\ (r.status = "completed" => OnceCompleted(p))
RowOf(p) == IF projRow[p] = NoRow THEN emptyProjectState ELSE projRow[p]
ThreadSane(t) ==
    /\ GoalSane(th[t].goal)
    /\ th[t].pc = "saveProject" \/ (th[t].pc = "saveGoal" /\ th[t].ev.agg # "goal")
       => ProjSane(th[t].ev.agg, th[t].proj)
SaneInv ==
    /\ Sane(log)
    /\ GoalSane(ensureGoalState) /\ \A p \in Projects : ProjSane(p, RowOf(p))
    /\ \A t \in Threads : ThreadSane(t)

-----------------------------------------------------------------------------
(* A copy that is not marked as stale is what is stored. *)

CopyOK(t) ==
    /\ th[t].pc \in HoldsGoal /\ ~th[t].stale => th[t].goal = ensureGoalState
    /\ th[t].pc = "saveProject" /\ ~th[t].stale /\ th[t].ev.type # "ProjectCreated"
       => th[t].proj = RowOf(th[t].ev.agg)
    /\ th[t].pc = "saveGoal" /\ th[t].ev.agg # "goal" =>
          /\ ~th[t].stale /\ ~crossed => th[t].proj = projRow[th[t].ev.agg]
          /\ th[t].ev.type # "ProjectGoalRemoved" => th[t].proj.linked
          /\ th[t].ev.type = "ProjectCreated" => th[t].ev.linked
          /\ seeded /\ ~crossed /\ t = "projects" /\ ~th[t].stale => InBatch("boot", 1)
CopyInv == \A t \in Threads : CopyOK(t)

-----------------------------------------------------------------------------
(* The rows agree with the log, as far as nothing is outstanding. *)

\* The link of the project when event i comes to be handled.
Before(p, i) == {j \in Linking(p) \cap PendP : j <= i}
Meets(p, i) ==
    IF Before(p, i) = {} THEN RowOf(p).linked ELSE log[LastOf(Before(p, i))].linked
\* The handler of event i will take the completion away.
Clears(p, i) ==
    \/ log[i].type = "ProjectGoalRemoved"
    \/ log[i].type = "ProjectStatusTransitioned" /\ log[i].status # "completed" /\ Meets(p, i)
\* Why the goal's row may count the project as completed.
Explained(p) ==
    \/ Relapsed(p)
    \/ IsLinked(p) /\ Status(p) = "completed"
    \/ \E i \in Of(p) \cap PendG : Clears(p, i)

GoalAgrees ==
    /\ Turns \cap PendG = {} => (ensureGoalState.achieved <=> IsAchieved)
    /\ (\A i \in Of("goal") \cap PendG : log[i].type # "GoalArchived") /\ IsArchived
       => ensureGoalState.archived
    /\ Of("goal") \cap PendG = {} =>
           ensureGoalState.version = log[LastOf(Of("goal"))].version
ProjectAgrees(p) ==
    /\ Linking(p) \cap PendP = {} => (RowOf(p).linked <=> IsLinked(p))
    /\ Statuses(p) \cap PendP = {} /\ Exists(p) => RowOf(p).status = Status(p)
LinksAgree(p) ==
    /\ Linking(p) \cap PendG = {} => (p \in ensureGoalState.linked <=> IsLinked(p))
    /\ Of(p) \cap PendG = {} /\ IsLinked(p) /\ Status(p) = "completed"
       => p \in ensureGoalState.completed
    /\ p \in ensureGoalState.completed => Explained(p)
AgreeInv ==
    phase = "live" /\ ~crossed =>
        /\ GoalAgrees
        /\ \A p \in Projects : Readable(p) => ProjectAgrees(p) /\ LinksAgree(p)

-----------------------------------------------------------------------------
(* A goal whose projects are all completed is achieved, or a thread is about to ask. *)

\* A row of an open tab has a version once bootstrap has saved its first event.
VersionInv ==
    phase = "live" /\ ~crossed =>
        \/ th["boot"].pc = "seed" \/ InBatch("boot", 1)
        \/ goalRow # NoRow /\ goalRow.version > 0

Asks(t) ==
    \/ t = "boot" /\ (th[t].pc = "seed" \/ seeded)
    \/ th[t].pc \in {"ask", "dispatch"} /\ AllCompleted(th[t].goal) /\ th[t].goal.version > 0
NoRemoval == \A i \in 1..Len(log) : log[i].type # "ProjectGoalRemoved"
DueInv ==
    phase = "live" /\ ~crossed /\ ~refused /\ ~overtaken /\ ~manual
    /\ NoRemoval /\ goalRow # NoRow /\ AllCompleted(goalRow)
    => IsAchieved \/ IsArchived \/ \E t \in Threads : Asks(t)

\* The inductive invariant, with PublishInv of ReactionsProofs.
SagaInv == BatchInv /\ SaneInv /\ CopyInv /\ AgreeInv /\ VersionInv /\ DueInv
=============================================================================
