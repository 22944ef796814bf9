---------------------------- MODULE MCReactions ----------------------------
(* The publisher and the saga with a few events. *)
EXTENDS SagaInvariant, TLC

CONSTANTS p1, p2

Goal(type, v, n) == [agg |-> "goal", type |-> type, version |-> v, seq |-> n]
Project(p, status, n) == [agg |-> p, type |-> "ProjectCreated", linked |-> TRUE,
                          status |-> status, readable |-> TRUE, seq |-> n]
Transition(p, status, n) ==
    [Project(p, status, n) EXCEPT !.type = "ProjectStatusTransitioned", !.linked = FALSE]

\* The completed project of an achieved goal is taken up and completed again.
Reopened ==
    {[log |-> <<Goal("GoalCreated", 1, 1), Project(p1, "completed", 2)>>,
      more |-> 2, faults |-> 0]}

\* A project that was completed and taken up again before it is linked; the tab is
\* closed once.
Relinked ==
    {[log |-> <<Goal("GoalCreated", 1, 1), [Project(p1, "completed", 2) EXCEPT !.linked = FALSE],
                Transition(p1, "planned", 3)>>, more |-> 1, faults |-> 1]}

\* A new goal; a goal with one of its two projects completed; a goal with a
\* completed project, where things go wrong; and the two above.
MCHistories ==
    {[log |-> <<Goal("GoalCreated", 1, 1)>>, more |-> 1, faults |-> 0],
     [log |-> <<Goal("GoalCreated", 1, 1), Project(p2, "planned", 2),
                Project(p1, "completed", 3)>>, more |-> 2, faults |-> 0],
     [log |-> <<Goal("GoalCreated", 1, 1), Project(p1, "completed", 2)>>,
      more |-> 1, faults |-> 1]}
    \cup Reopened \cup Relinked

\* Where the one project begins completed, threads cross before things go wrong or
\* not at all; in the other histories they may cross at any time.
Explored ==
    crossed /\ Len(log) > 1 /\ log[2] = Project(p1, "completed", 2) => budget.faults = 1
=============================================================================
