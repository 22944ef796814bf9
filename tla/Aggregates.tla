---------------------------- MODULE Aggregates ----------------------------
(***************************************************************************)
(* The two event-sourced aggregates: Goal and Project of packages/domain,  *)
(* and the projections of the same events in packages/infrastructure.      *)
(*                                                                         *)
(* An operation takes the aggregate and a command and answers whether it   *)
(* is allowed and the events it emits.  Names, texts and months are        *)
(* values, dates are numbers, time stamps and actors are left out.         *)
(***************************************************************************)
EXTENDS Integers, Sequences, FiniteSets

\* The field has no value yet, or the project has no goal.
None == "none"

\* The answer of an operation: an assertion that fails throws and emits nothing.
Emit(allowed, event) ==
    [ok |-> allowed, events |-> IF allowed THEN <<event>> ELSE <<>>]
Nothing == [ok |-> TRUE, events |-> <<>>]

\* Applies the events of a sequence one after the other (loadFromHistory).
Fold(On(_, _), start, events) ==
    LET after[i \in 0..Len(events)] ==
            IF i = 0 THEN start ELSE On(after[i - 1], events[i])
    IN  after[Len(events)]

-----------------------------------------------------------------------------
(* The domain events: one constructor per event class, with the payload its   *)
(* specification serialises.                                                  *)

\* The four texts of a new goal start with one value.
GoalCreated(v) == [type |-> "GoalCreated", value |-> v]
GoalRefined(v) == [type |-> "GoalRefined", value |-> v]
GoalRecategorized(v) == [type |-> "GoalRecategorized", value |-> v]
GoalRescheduled(v) == [type |-> "GoalRescheduled", value |-> v]
GoalPrioritized(v) == [type |-> "GoalPrioritized", value |-> v]
GoalAchieved == [type |-> "GoalAchieved"]
GoalUnachieved == [type |-> "GoalUnachieved"]
GoalArchived == [type |-> "GoalArchived"]
GoalAccessGranted(u) == [type |-> "GoalAccessGranted", user |-> u]
GoalAccessRevoked(u) == [type |-> "GoalAccessRevoked", user |-> u]

ProjectCreated(v, s, from, to, g) ==
    [type |-> "ProjectCreated", value |-> v, status |-> s, start |-> from,
     target |-> to, goal |-> g]
ProjectRenamed(v) == [type |-> "ProjectRenamed", value |-> v]
ProjectDescribed(v) == [type |-> "ProjectDescribed", value |-> v]
ProjectStatusTransitioned(v) == [type |-> "ProjectStatusTransitioned", value |-> v]
ProjectRescheduled(from, to) ==
    [type |-> "ProjectRescheduled", start |-> from, target |-> to]
ProjectGoalAdded(g) == [type |-> "ProjectGoalAdded", goal |-> g]
ProjectGoalRemoved == [type |-> "ProjectGoalRemoved"]
ProjectMilestoneAdded(m, v, d) ==
    [type |-> "ProjectMilestoneAdded", milestone |-> m, value |-> v, date |-> d]
ProjectMilestoneRenamed(m, v) ==
    [type |-> "ProjectMilestoneRenamed", milestone |-> m, value |-> v]
ProjectMilestoneRescheduled(m, d) ==
    [type |-> "ProjectMilestoneRescheduled", milestone |-> m, date |-> d]
ProjectMilestoneArchived(m) == [type |-> "ProjectMilestoneArchived", milestone |-> m]
ProjectArchived == [type |-> "ProjectArchived"]

GoalEventTypes ==
    {"GoalCreated", "GoalRefined", "GoalRecategorized", "GoalRescheduled",
     "GoalPrioritized", "GoalAchieved", "GoalUnachieved", "GoalArchived",
     "GoalAccessGranted", "GoalAccessRevoked"}
ProjectEventTypes ==
    {"ProjectCreated", "ProjectStatusTransitioned", "ProjectRescheduled",
     "ProjectRenamed", "ProjectDescribed", "ProjectGoalAdded", "ProjectGoalRemoved",
     "ProjectMilestoneAdded", "ProjectMilestoneRescheduled", "ProjectMilestoneRenamed",
     "ProjectMilestoneArchived", "ProjectArchived"}
EventTypes(k) == IF k = "goal" THEN GoalEventTypes ELSE ProjectEventTypes

-----------------------------------------------------------------------------
(* Goal *)

\* new Goal(id): nothing has happened.
NewGoal == [version |-> 0, summary |-> None, slice |-> None, targetMonth |-> None,
            priority |-> None, achieved |-> FALSE, archived |-> FALSE, access |-> {}]

createGoal(c) == Emit(TRUE, GoalCreated(c.value))

\* The four edits refuse an archived goal and a value that changes nothing.
changeSummary(g, c) ==
    Emit(~g.archived /\ c.value # g.summary, GoalRefined(c.value))
changeSlice(g, c) ==
    Emit(~g.archived /\ c.value # g.slice, GoalRecategorized(c.value))
changeTargetMonth(g, c) ==
    Emit(~g.archived /\ c.value # g.targetMonth, GoalRescheduled(c.value))
changePriority(g, c) ==
    Emit(~g.archived /\ c.value # g.priority, GoalPrioritized(c.value))

\* Mistake: a goal that is achieved may be achieved again.
achieveAgain(g) == Emit(~g.archived, GoalAchieved)

achieve(g) == Emit(~g.archived /\ ~g.achieved, GoalAchieved)
unachieve(g) == Emit(~g.archived /\ g.achieved, GoalUnachieved)

\* Archiving an archived goal is allowed and does nothing.
archiveGoal(g) == IF g.archived THEN Nothing ELSE Emit(TRUE, GoalArchived)

\* access: the users with an active entry of the access list.
grantAccess(g, c) ==
    Emit(~g.archived /\ c.user \notin g.access, GoalAccessGranted(c.user))
revokeAccess(g, c) ==
    Emit(~g.archived /\ c.user \in g.access, GoalAccessRevoked(c.user))

\* The handler of the event's type.
OnGoalEvent(g, e) ==
    CASE e.type = "GoalCreated" ->
             [g EXCEPT !.summary = e.value, !.slice = e.value,
                       !.targetMonth = e.value, !.priority = e.value]
      [] e.type = "GoalRefined" -> [g EXCEPT !.summary = e.value]
      [] e.type = "GoalRecategorized" -> [g EXCEPT !.slice = e.value]
      [] e.type = "GoalRescheduled" -> [g EXCEPT !.targetMonth = e.value]
      [] e.type = "GoalPrioritized" -> [g EXCEPT !.priority = e.value]
      [] e.type = "GoalAchieved" -> [g EXCEPT !.achieved = TRUE]
      [] e.type = "GoalUnachieved" -> [g EXCEPT !.achieved = FALSE]
      [] e.type = "GoalArchived" -> [g EXCEPT !.archived = TRUE]
      [] e.type = "GoalAccessGranted" -> [g EXCEPT !.access = @ \cup {e.user}]
      [] e.type = "GoalAccessRevoked" -> [g EXCEPT !.access = @ \ {e.user}]

\* Mistake: only an event that changes what is shown counts.
applyShownToSnapshot(s, e) ==
    IF e.type \in {"GoalAccessGranted", "GoalAccessRevoked"} THEN s
    ELSE [OnGoalEvent(s, e) EXCEPT !.access = {}, !.version = @ + 1]

\* The read model's own fold of the same events: it starts with the creation
\* and keeps no access list.
applyEventToSnapshot(s, e) ==
    IF e.type = "GoalCreated"
    THEN [NewGoal EXCEPT !.version = s.version + 1, !.summary = e.value, !.slice = e.value,
                         !.targetMonth = e.value, !.priority = e.value]
    ELSE IF s.summary = None THEN s
    ELSE LET t == [s EXCEPT !.version = @ + 1]
         IN  CASE e.type = "GoalRefined" -> [t EXCEPT !.summary = e.value]
               [] e.type = "GoalRecategorized" -> [t EXCEPT !.slice = e.value]
               [] e.type = "GoalRescheduled" -> [t EXCEPT !.targetMonth = e.value]
               [] e.type = "GoalPrioritized" -> [t EXCEPT !.priority = e.value]
               [] e.type \in {"GoalAchieved", "GoalUnachieved"} ->
                      [t EXCEPT !.achieved = (e.type = "GoalAchieved")]
               [] e.type = "GoalArchived" -> [t EXCEPT !.archived = TRUE]
               [] OTHER -> t

-----------------------------------------------------------------------------
(* Project *)

\* new Project(id).  throws: a handler threw while history was replayed.
NewProject == [version |-> 0, name |-> None, status |-> None, start |-> 0, target |-> 0,
               description |-> None, goalId |-> None, milestones |-> <<>>,
               archived |-> FALSE, throws |-> FALSE]

Within(d, p) == p.start <= d /\ d <= p.target
Milestones(p) == {p.milestones[i] : i \in 1..Len(p.milestones)}
HasMilestone(p, m) == \E x \in Milestones(p) : x.id = m

\* findMilestone: the first one with the id.
findMilestone(p, m) ==
    p.milestones[CHOOSE i \in 1..Len(p.milestones) :
                    /\ p.milestones[i].id = m
                    /\ \A j \in 1..(i - 1) : p.milestones[j].id # m]

\* filter: every milestone but those with the id, in their order.
Without(ms, m) ==
    Fold(LAMBDA kept, x : IF x.id = m THEN kept ELSE Append(kept, x), <<>>, ms)

createProject(c) ==
    Emit(c.start <= c.target, ProjectCreated(c.value, c.status, c.start, c.target, c.goal))
changeName(p, c) ==
    Emit(~p.archived /\ c.value # p.name, ProjectRenamed(c.value))
changeDescription(p, c) ==
    Emit(~p.archived /\ c.value # p.description, ProjectDescribed(c.value))
changeStatus(p, c) ==
    Emit(~p.archived /\ c.value # p.status, ProjectStatusTransitioned(c.value))

\* New dates keep their order and every milestone in between.
changeDates(p, c) ==
    Emit(/\ ~p.archived /\ c.start <= c.target
         /\ \A m \in Milestones(p) : Within(m.date, c),
         ProjectRescheduled(c.start, c.target))

addGoal(p, c) ==
    Emit(~p.archived /\ p.goalId = None, ProjectGoalAdded(c.goal))
removeGoal(p) ==
    IF ~p.archived /\ p.goalId = None THEN Nothing
    ELSE Emit(~p.archived, ProjectGoalRemoved)

addMilestone(p, c) ==
    Emit(~p.archived /\ Within(c.date, p) /\ ~HasMilestone(p, c.milestone),
         ProjectMilestoneAdded(c.milestone, c.value, c.date))
changeMilestoneName(p, c) ==
    Emit(/\ ~p.archived /\ HasMilestone(p, c.milestone)
         /\ findMilestone(p, c.milestone).name # c.value,
         ProjectMilestoneRenamed(c.milestone, c.value))
changeMilestoneTargetDate(p, c) ==
    Emit(/\ ~p.archived /\ Within(c.date, p) /\ HasMilestone(p, c.milestone)
         /\ findMilestone(p, c.milestone).date # c.date,
         ProjectMilestoneRescheduled(c.milestone, c.date))
archiveMilestone(p, c) ==
    Emit(~p.archived /\ HasMilestone(p, c.milestone),
         ProjectMilestoneArchived(c.milestone))
archiveProject(p) == Emit(~p.archived, ProjectArchived)

\* The aggregate's handler changes the first milestone with the id, and throws
\* when there is none.
OnMilestone(p, e, Change(_)) ==
    IF ~HasMilestone(p, e.milestone) THEN [p EXCEPT !.throws = TRUE]
    ELSE LET m == findMilestone(p, e.milestone)
             i == CHOOSE j \in 1..Len(p.milestones) :
                    p.milestones[j] = m /\ \A k \in 1..(j - 1) : p.milestones[k] # m
         IN  [p EXCEPT !.milestones[i] = Change(m)]

OnProjectEvent(p, e) ==
    CASE e.type = "ProjectCreated" ->
             [p EXCEPT !.name = e.value, !.status = e.status, !.start = e.start,
                       !.target = e.target, !.description = e.value, !.goalId = e.goal]
      [] e.type = "ProjectStatusTransitioned" -> [p EXCEPT !.status = e.value]
      [] e.type = "ProjectRescheduled" -> [p EXCEPT !.start = e.start, !.target = e.target]
      [] e.type = "ProjectRenamed" -> [p EXCEPT !.name = e.value]
      [] e.type = "ProjectDescribed" -> [p EXCEPT !.description = e.value]
      [] e.type = "ProjectGoalAdded" -> [p EXCEPT !.goalId = e.goal]
      [] e.type = "ProjectGoalRemoved" -> [p EXCEPT !.goalId = None]
      [] e.type = "ProjectMilestoneAdded" ->
             [p EXCEPT !.milestones =
                  Append(@, [id |-> e.milestone, name |-> e.value, date |-> e.date])]
      [] e.type = "ProjectMilestoneRescheduled" ->
             OnMilestone(p, e, LAMBDA m : [m EXCEPT !.date = e.date])
      [] e.type = "ProjectMilestoneRenamed" ->
             OnMilestone(p, e, LAMBDA m : [m EXCEPT !.name = e.value])
      [] e.type = "ProjectMilestoneArchived" ->
             [p EXCEPT !.milestones = Without(@, e.milestone)]
      [] e.type = "ProjectArchived" -> [p EXCEPT !.archived = TRUE]

\* The read model's fold: a milestone event changes every milestone with the id
\* and never throws.
applyProjectEventToSnapshot(s, e) ==
    LET each(Change(_)) ==
            [i \in 1..Len(s.milestones) |->
                IF s.milestones[i].id = e.milestone THEN Change(s.milestones[i])
                ELSE s.milestones[i]]
        t == [s EXCEPT !.version = @ + 1]
    IN  IF e.type = "ProjectCreated"
        THEN [NewProject EXCEPT !.version = s.version + 1, !.name = e.value,
                                !.status = e.status, !.start = e.start, !.target = e.target,
                                !.description = e.value, !.goalId = e.goal]
        ELSE IF s.name = None THEN s
        ELSE CASE e.type = "ProjectStatusTransitioned" -> [t EXCEPT !.status = e.value]
               [] e.type = "ProjectRescheduled" ->
                      [t EXCEPT !.start = e.start, !.target = e.target]
               [] e.type = "ProjectRenamed" -> [t EXCEPT !.name = e.value]
               [] e.type = "ProjectDescribed" -> [t EXCEPT !.description = e.value]
               [] e.type \in {"ProjectGoalAdded", "ProjectGoalRemoved"} ->
                      [t EXCEPT !.goalId = IF e.type = "ProjectGoalAdded" THEN e.goal ELSE None]
               [] e.type = "ProjectMilestoneAdded" ->
                      [t EXCEPT !.milestones =
                           Append(@, [id |-> e.milestone, name |-> e.value, date |-> e.date])]
               [] e.type = "ProjectMilestoneRescheduled" ->
                      [t EXCEPT !.milestones = each(LAMBDA m : [m EXCEPT !.date = e.date])]
               [] e.type = "ProjectMilestoneRenamed" ->
                      [t EXCEPT !.milestones = each(LAMBDA m : [m EXCEPT !.name = e.value])]
               [] e.type = "ProjectMilestoneArchived" ->
                      [t EXCEPT !.milestones = Without(@, e.milestone)]
               [] e.type = "ProjectArchived" -> [t EXCEPT !.archived = TRUE]
               [] OTHER -> s
=============================================================================
