---------------------------- MODULE MCCommands ----------------------------
(* Commands on a goal or on a project with a milestone. *)
EXTENDS Commands, TLC

Symmetry == Permutations(Keys) \cup Permutations(Handlers)

MCHistory ==
    [goal |-> <<GoalCreated("a")>>,
     project |-> <<ProjectCreated("a", "planned", 1, 3, None),
                   ProjectMilestoneAdded("m", "a", 3)>>]

MCCreates ==
    [goal |-> {CreateGoal("a")},
     project |-> {CreateProject("a", "planned", s, 3, None) : s \in {1, 4}}]

\* One command of every type, the milestone ones for a milestone that is there
\* and one that is not.
MCOffered ==
    [goal |-> {ChangeGoalSummary("b"), ChangeGoalSlice("b"), ChangeGoalTargetMonth("b"),
               ChangeGoalPriority("b"), ArchiveGoal, AchieveGoal, UnachieveGoal,
               GrantGoalAccess("u"), RevokeGoalAccess("u")},
     project |-> {ChangeProjectStatus("b"), ChangeProjectName("b"),
                  ChangeProjectDescription("b"), ChangeProjectDates(1, 2),
                  ChangeProjectDates(1, 4), AddProjectGoal("g"), RemoveProjectGoal,
                  ArchiveProject, AddProjectMilestone("m", "a", 3),
                  AddProjectMilestone("n", "b", 2),
                  ChangeProjectMilestoneTargetDate("m", 2),
                  ChangeProjectMilestoneTargetDate("m", 5),
                  ChangeProjectMilestoneName("m", "b"),
                  ChangeProjectMilestoneName("n", "b"), ArchiveProjectMilestone("m")}]

MCRemote ==
    [goal |-> {GoalArchived}, project |-> {ProjectMilestoneArchived("m")}]
=============================================================================
