--------------------------- MODULE CommandsProofs ---------------------------
(***************************************************************************)
(* Theorems about Commands.  The invariant rests on what replaying a       *)
(* history does to the version of an aggregate, which is proved first.     *)
(***************************************************************************)
EXTENDS Commands, TLAPS, SequenceTheorems, FiniteSetTheorems, NaturalsInduction,
        WellFoundedInduction

USE DEF None

-----------------------------------------------------------------------------
(* Sequences of values of any kind *)

LEMMA SeqOfAny == ASSUME NEW R, NEW s \in Seq(R) PROVE IsSeq(s)
  BY DEF IsSeq

LEMMA SeqDomain == ASSUME NEW s, IsSeq(s) PROVE Len(s) \in Nat /\ DOMAIN s = 1..Len(s)
  BY DEF IsSeq

LEMMA SeqOne ==
    ASSUME NEW e
    PROVE  /\ IsSeq(<<e>>) /\ Len(<<e>>) = 1 /\ <<e>>[1] = e
           /\ IsSeq(<<>>) /\ Len(<<>>) = 0
  BY DEF IsSeq

LEMMA SeqJoin ==
    ASSUME NEW s, IsSeq(s), NEW t, IsSeq(t)
    PROVE  /\ IsSeq(s \o t) /\ Len(s \o t) = Len(s) + Len(t)
           /\ \A i \in 1..Len(s) : (s \o t)[i] = s[i]
           /\ \A i \in 1..Len(t) : (s \o t)[Len(s) + i] = t[i]
<1> DEFINE R == {s[i] : i \in DOMAIN s} \cup {t[i] : i \in DOMAIN t}
<1>1. s \in Seq(R) /\ t \in Seq(R)
  BY DEF IsSeq
<1>2. /\ s \o t \in Seq(R) /\ Len(s \o t) = Len(s) + Len(t)
      /\ \A i \in 1..Len(s) : (s \o t)[i] = s[i]
      /\ \A i \in 1..Len(t) : (s \o t)[Len(s) + i] = t[i]
  BY <1>1
<1> QED BY <1>2, SeqOfAny

LEMMA AppendJoins == ASSUME NEW s, IsSeq(s), NEW x PROVE Append(s, x) = s \o <<x>>
  BY SeqDomain DEF IsSeq

LEMMA SeqPart ==
    ASSUME NEW s, IsSeq(s), NEW m \in Nat, NEW n \in Nat, 1 <= m, m <= n + 1, n <= Len(s)
    PROVE  /\ IsSeq(SubSeq(s, m, n)) /\ Len(SubSeq(s, m, n)) = n - m + 1
           /\ \A i \in 1..(n - m + 1) : SubSeq(s, m, n)[i] = s[m + i - 1]
<1> DEFINE R == {s[i] : i \in DOMAIN s}
<1>1. s \in Seq(R)
  BY DEF IsSeq
<1>2. SubSeq(s, m, n) \in Seq(R)
  BY <1>1
<1>3. Len(SubSeq(s, m, n)) = n - m + 1
  BY <1>1
<1>4. \A i \in 1..(n - m + 1) : SubSeq(s, m, n)[i] = s[m + i - 1]
  BY <1>1
<1> QED BY <1>2, <1>3, <1>4, SeqOfAny

LEMMA SeqSame ==
    ASSUME NEW s, IsSeq(s), NEW t, IsSeq(t), Len(s) = Len(t),
           \A i \in 1..Len(s) : s[i] = t[i]
    PROVE  s = t
<1>1. s = [i \in 1..Len(s) |-> s[i]]
  BY DEF IsSeq
<1>2. t = [i \in 1..Len(t) |-> t[i]]
  BY DEF IsSeq
<1> QED BY ONLY <1>1, <1>2, Len(s) = Len(t), \A i \in 1..Len(s) : s[i] = t[i]

LEMMA WholeSeq == ASSUME NEW s, IsSeq(s) PROVE SubSeq(s, 1, Len(s)) = s
<1> DEFINE u == SubSeq(s, 1, Len(s))
<1>1. Len(s) \in Nat
  BY SeqDomain
<1>2. IsSeq(u) /\ Len(u) = Len(s) - 1 + 1 /\ \A i \in 1..(Len(s) - 1 + 1) : u[i] = s[1 + i - 1]
  BY <1>1, SeqPart
<1> HIDE DEF u
<1>3. Len(u) = Len(s) /\ \A i \in 1..Len(u) : u[i] = s[i]
  BY <1>1, <1>2
<1>4. u = s
  BY <1>2, <1>3, SeqSame
<1> QED BY <1>4 DEF u

LEMMA LeastNumber ==
    ASSUME NEW T \in SUBSET Nat, T # {}
    PROVE  \E x \in T : \A y \in T : x <= y
<1>1. PICK x \in T : \A y \in T : ~(<<y, x>> \in OpToRel(<, Nat))
  BY NatLessThanWellFounded, WFMin
<1>2. \A y \in T : ~(y < x)
  BY <1>1 DEF OpToRel
<1> QED BY <1>2

-----------------------------------------------------------------------------
(* Folds over histories: replay, the read model, and a filter *)

\* The operators that are folded: k is the kind of aggregate, or the id left out.
Step(m, k, a, e) ==
    CASE m = "replay" -> On(k, a, e)
      [] m = "show" -> Shows(k, a, e)
      [] m = "without" -> IF e.id = k THEN a ELSE Append(a, e)

\* The states an aggregate goes through when events are applied to it.
Runs(f, m, k, a, events) ==
    f = [i \in 0..Len(events) |-> IF i = 0 THEN a ELSE Step(m, k, f[i - 1], events[i])]
Run(m, k, a, events) == CHOOSE f : Runs(f, m, k, a, events)
Result(m, k, a, events) == Run(m, k, a, events)[Len(events)]

LEMMA RunExists ==
    ASSUME NEW m, NEW k, NEW a, NEW events, IsSeq(events)
    PROVE  Runs(Run(m, k, a, events), m, k, a, events)
<1> DEFINE P(f, n) == f = [i \in 0..n |-> IF i = 0 THEN a ELSE Step(m, k, f[i - 1], events[i])]
           Bad == {n \in Nat : ~ \E f : P(f, n)}
<1>1. Bad = {}
  <2>1. SUFFICES ASSUME Bad # {} PROVE FALSE
    OBVIOUS
  <2>2. PICK n \in Bad : \A i \in Bad : n <= i
    BY <2>1, LeastNumber
  <2>3. n # 0
    <3>1. P([i \in 0..0 |-> a], 0)
      OBVIOUS
    <3> QED BY <3>1
  <2>4. n - 1 \in Nat /\ n - 1 \notin Bad
    <3>1. n - 1 \in Nat /\ ~(n <= n - 1)
      BY <2>2, <2>3
    <3> HIDE DEF Bad
    <3> QED BY <2>2, <3>1
  <2>5. PICK f : P(f, n - 1)
    BY <2>4
  <2> DEFINE g == [i \in 0..n |-> IF i = n THEN Step(m, k, f[n - 1], events[n]) ELSE f[i]]
  <2>6. P(g, n)
    BY <2>5, <2>3, <2>4
  <2> QED BY <2>6, <2>2
<1>2. Len(events) \in Nat
  BY SeqDomain
<1>3. \E f : Runs(f, m, k, a, events)
  BY <1>1, <1>2 DEF Runs
<1> QED BY <1>3 DEF Run

LEMMA RunIsUnique ==
    ASSUME NEW m, NEW k, NEW a, NEW events, IsSeq(events), NEW f, Runs(f, m, k, a, events)
    PROVE  Result(m, k, a, events) = f[Len(events)]
<1> DEFINE g == Run(m, k, a, events)
           Bad == {n \in Nat : n <= Len(events) /\ f[n] # g[n]}
<1>1. Runs(g, m, k, a, events) /\ Len(events) \in Nat
  BY RunExists, SeqDomain
<1> HIDE DEF g
<1>2. Bad = {}
  <2>1. SUFFICES ASSUME Bad # {} PROVE FALSE
    OBVIOUS
  <2>2. PICK n \in Bad : \A i \in Bad : n <= i
    BY <2>1, LeastNumber
  <2>3. f[0] = a /\ g[0] = a
    BY <1>1 DEF Runs
  <2>4. n # 0
    BY <2>2, <2>3
  <2>5. f[n - 1] = g[n - 1]
    BY <2>2, <2>4
  <2>6. f[n] = Step(m, k, f[n - 1], events[n]) /\ g[n] = Step(m, k, g[n - 1], events[n])
    BY <1>1, <2>2, <2>4 DEF Runs
  <2> QED BY <2>2, <2>5, <2>6
<1>3. f[Len(events)] = g[Len(events)]
  BY <1>1, <1>2
<1> QED BY <1>3 DEF g, Result

LEMMA AppliedIsLast ==
    ASSUME NEW k, NEW a, NEW events, IsSeq(events)
    PROVE  Applied(k, a, events) = Result("replay", k, a, events)
<1> DEFINE P(f) == f = [i \in 0..Len(events) |-> IF i = 0 THEN a ELSE On(k, f[i - 1], events[i])]
           g == CHOOSE f : P(f)
<1>1. Applied(k, a, events) = g[Len(events)]
  BY Zenon DEF Applied, Fold
<1>2. \A f : P(f) <=> Runs(f, "replay", k, a, events)
  BY DEF Runs, Step
<1> HIDE DEF P
<1>3. P(g)
  BY <1>2, RunExists
<1>4. Runs(g, "replay", k, a, events)
  BY <1>2, <1>3
<1> HIDE DEF g
<1> QED BY <1>1, <1>4, RunIsUnique

LEMMA ShownIsLast ==
    ASSUME NEW k, NEW events, IsSeq(events)
    PROVE  Shown(k, events) = Result("show", k, New(k), events)
<1> DEFINE P(f) == f = [i \in 0..Len(events) |-> IF i = 0 THEN New(k) ELSE Shows(k, f[i - 1], events[i])]
           g == CHOOSE f : P(f)
<1>1. Shown(k, events) = g[Len(events)]
  BY Zenon DEF Shown, Fold
<1>2. \A f : P(f) <=> Runs(f, "show", k, New(k), events)
  BY DEF Runs, Step
<1> HIDE DEF P
<1>3. P(g)
  BY <1>2, RunExists
<1>4. Runs(g, "show", k, New(k), events)
  BY <1>2, <1>3
<1> HIDE DEF g
<1> QED BY <1>1, <1>4, RunIsUnique

LEMMA WithoutIsLast ==
    ASSUME NEW id, NEW ms, IsSeq(ms)
    PROVE  Without(ms, id) = Result("without", id, <<>>, ms)
<1> DEFINE P(f) == f = [i \in 0..Len(ms) |-> IF i = 0 THEN <<>>
                                              ELSE IF ms[i].id = id THEN f[i - 1]
                                              ELSE Append(f[i - 1], ms[i])]
           g == CHOOSE f : P(f)
<1>1. Without(ms, id) = g[Len(ms)]
  BY Zenon DEF Without, Fold
<1>2. \A f : P(f) <=> Runs(f, "without", id, <<>>, ms)
  BY DEF Runs, Step
<1> HIDE DEF P
<1>3. P(g)
  BY <1>2, RunExists
<1>4. Runs(g, "without", id, <<>>, ms)
  BY <1>2, <1>3
<1> HIDE DEF g
<1> QED BY <1>1, <1>4, RunIsUnique

\* Applying two histories one after the other is applying the joined history.
LEMMA ResultJoins ==
    ASSUME NEW m, NEW k, NEW a, NEW u, IsSeq(u), NEW v, IsSeq(v)
    PROVE  Result(m, k, a, u \o v) = Result(m, k, Result(m, k, a, u), v)
<1> DEFINE w == u \o v
           F == Run(m, k, a, w)
           f == [i \in 0..Len(u) |-> F[i]]
           g == [i \in 0..Len(v) |-> F[Len(u) + i]]
<1>1. /\ IsSeq(w) /\ Len(w) = Len(u) + Len(v) /\ Len(u) \in Nat /\ Len(v) \in Nat
      /\ \A i \in 1..Len(u) : w[i] = u[i]
      /\ \A i \in 1..Len(v) : w[Len(u) + i] = v[i]
  <2>1. Len(u) \in Nat /\ Len(v) \in Nat
    BY SeqDomain
  <2>2. IsSeq(w) /\ Len(w) = Len(u) + Len(v)
    BY SeqJoin
  <2>3. \A i \in 1..Len(u) : w[i] = u[i]
    BY SeqJoin
  <2>4. \A i \in 1..Len(v) : w[Len(u) + i] = v[i]
    BY SeqJoin
  <2> HIDE DEF w
  <2> QED BY <2>1, <2>2, <2>3, <2>4
<1> HIDE DEF w
<1>2. Runs(F, m, k, a, w)
  BY <1>1, RunExists
<1>3. Result(m, k, a, w) = F[Len(w)]
  BY DEF Result
<1> HIDE DEF F
<1>4. /\ F[0] = a
      /\ \A i \in 1..Len(w) : F[i] = Step(m, k, F[i - 1], w[i])
  BY <1>1, <1>2 DEF Runs
<1>5. Runs(f, m, k, a, u)
  BY <1>1, <1>4 DEF Runs
<1>6. Result(m, k, a, u) = F[Len(u)]
  <2>1. Result(m, k, a, u) = f[Len(u)]
    BY <1>5, RunIsUnique
  <2> QED BY <2>1, <1>1
<1>7. Runs(g, m, k, F[Len(u)], v)
  <2>1. \A i \in 1..Len(v) : F[Len(u) + i] = Step(m, k, F[Len(u) + (i - 1)], v[i])
    <3> TAKE i \in 1..Len(v)
    <3>1. Len(u) + i \in 1..Len(w) /\ (Len(u) + i) - 1 = Len(u) + (i - 1)
      BY <1>1
    <3>2. F[Len(u) + i] = Step(m, k, F[(Len(u) + i) - 1], w[Len(u) + i])
      BY <3>1, <1>4
    <3> QED BY <3>1, <3>2, <1>1
  <2> QED BY <2>1, <1>1 DEF Runs
<1>8. Result(m, k, F[Len(u)], v) = F[Len(w)]
  <2>1. Result(m, k, F[Len(u)], v) = g[Len(v)]
    BY <1>7, RunIsUnique
  <2> QED BY <2>1, <1>1
<1> QED BY <1>3, <1>6, <1>8 DEF w

LEMMA ResultOfNothing ==
    ASSUME NEW m, NEW k, NEW a PROVE Result(m, k, a, <<>>) = a
<1>1. Runs([i \in 0..0 |-> a], m, k, a, <<>>)
  BY SeqOne DEF Runs
<1> QED BY <1>1, RunIsUnique, SeqOne

LEMMA ResultOfOne ==
    ASSUME NEW m, NEW k, NEW a, NEW e PROVE Result(m, k, a, <<e>>) = Step(m, k, a, e)
<1> DEFINE t == <<e>>
<1>1. IsSeq(t) /\ Len(t) = 1 /\ t[1] = e
  BY SeqOne
<1> HIDE DEF t
<1> DEFINE f == [i \in 0..1 |-> IF i = 0 THEN a ELSE Step(m, k, a, e)]
<1>2. Runs(f, m, k, a, t)
  BY <1>1 DEF Runs
<1>3. Result(m, k, a, t) = f[1]
  BY <1>1, <1>2, RunIsUnique
<1> QED BY <1>3 DEF t

LEMMA AppliedJoins ==
    ASSUME NEW k, NEW a, NEW u, IsSeq(u), NEW v, IsSeq(v)
    PROVE  Applied(k, a, u \o v) = Applied(k, Applied(k, a, u), v)
<1>1. IsSeq(u \o v)
  BY SeqJoin
<1> QED BY <1>1, AppliedIsLast, ResultJoins

LEMMA AppliedNothing ==
    ASSUME NEW k, NEW a PROVE Applied(k, a, <<>>) = a
<1> DEFINE z == <<>>
<1>1. IsSeq(z) /\ Result("replay", k, a, z) = a
  BY SeqOne, ResultOfNothing
<1> HIDE DEF z
<1>2. Applied(k, a, z) = a
  BY <1>1, AppliedIsLast
<1> QED BY <1>2 DEF z

\* One more event.
LEMMA ReplayGrows ==
    ASSUME NEW k, NEW s, IsSeq(s), NEW e
    PROVE  /\ Replay(k, s \o <<e>>) = On(k, Replay(k, s), e)
           /\ Shown(k, s \o <<e>>) = Shows(k, Shown(k, s), e)
<1> DEFINE t == <<e>>
<1>1. IsSeq(t) /\ IsSeq(s \o t)
  BY SeqOne, SeqJoin
<1>2. \A m, a : Result(m, k, a, t) = Step(m, k, a, e)
  BY ResultOfOne
<1> HIDE DEF t
<1>3. \A m, a : Result(m, k, a, s \o t) = Step(m, k, Result(m, k, a, s), e)
  BY <1>1, <1>2, ResultJoins
<1>4. Replay(k, s \o t) = Step("replay", k, Replay(k, s), e)
  BY <1>1, <1>3, AppliedIsLast DEF Replay
<1>5. Shown(k, s \o t) = Step("show", k, Shown(k, s), e)
  BY <1>1, <1>3, ShownIsLast
<1> QED BY <1>4, <1>5 DEF t, Step

LEMMA ReplayOfNothing ==
    ASSUME NEW k PROVE Replay(k, <<>>) = New(k) /\ Shown(k, <<>>) = New(k)
<1>1. Replay(k, <<>>) = New(k)
  BY AppliedNothing DEF Replay
<1>2. Shown(k, <<>>) = New(k)
  <2> DEFINE z == <<>>
  <2>1. IsSeq(z) /\ Result("show", k, New(k), z) = New(k)
    BY SeqOne, ResultOfNothing
  <2> HIDE DEF z
  <2>2. Shown(k, z) = New(k)
    BY <2>1, ShownIsLast
  <2> QED BY <2>2 DEF z
<1> QED BY <1>1, <1>2

\* A state of an aggregate, as far as its version goes.
IsState(a) ==
    /\ a = [f \in DOMAIN a |-> a[f]]
    /\ "version" \in DOMAIN a
    /\ a.version \in Nat

LEMMA VersionCounted ==
    ASSUME NEW a, IsState(a)
    PROVE  LET b == [a EXCEPT !.version = @ + 1]
           IN  IsState(b) /\ b.version = a.version + 1
  BY DEF IsState

LEMMA MilestoneHandled ==
    ASSUME NEW a, IsState(a), NEW e, NEW Change(_)
    PROVE  IsState(OnMilestone(a, e, Change)) /\ OnMilestone(a, e, Change).version = a.version
<1> DEFINE m == findMilestone(a, e.milestone)
           i == CHOOSE j \in 1..Len(a.milestones) :
                    a.milestones[j] = m /\ \A k \in 1..(j - 1) : a.milestones[k] # m
<1>1. OnMilestone(a, e, Change) = IF ~HasMilestone(a, e.milestone) THEN [a EXCEPT !.throws = TRUE]
                                  ELSE [a EXCEPT !.milestones[i] = Change(m)]
  BY DEF OnMilestone
<1> HIDE DEF i, m
<1> QED BY <1>1 DEF IsState

\* No handler touches the version.
LEMMA GoalEventHandled ==
    ASSUME NEW a, IsState(a), NEW e, e.type \in GoalEventTypes
    PROVE  IsState(OnGoalEvent(a, e)) /\ OnGoalEvent(a, e).version = a.version
  BY DEF IsState, GoalEventTypes, OnGoalEvent

LEMMA ProjectEventHandled ==
    ASSUME NEW a, IsState(a), NEW e, e.type \in ProjectEventTypes
    PROVE  IsState(OnProjectEvent(a, e)) /\ OnProjectEvent(a, e).version = a.version
<1> DEFINE b == OnProjectEvent(a, e)
<1>1. CASE e.type \in {"ProjectCreated", "ProjectStatusTransitioned", "ProjectRescheduled",
                       "ProjectRenamed", "ProjectDescribed", "ProjectGoalAdded"}
  BY <1>1 DEF IsState, OnProjectEvent
<1>2. CASE e.type \in {"ProjectGoalRemoved", "ProjectArchived"}
  BY <1>2 DEF IsState, OnProjectEvent
<1>3. CASE e.type = "ProjectMilestoneAdded"
  <2>1. b = [a EXCEPT !.milestones =
                 Append(@, [id |-> e.milestone, name |-> e.value, date |-> e.date])]
    BY <1>3 DEF OnProjectEvent
  <2> HIDE DEF b
  <2>2. IsState(b) /\ b.version = a.version
    BY <2>1 DEF IsState
  <2> QED BY <2>2 DEF b
<1>4. CASE e.type = "ProjectMilestoneArchived"
  <2>1. b = [a EXCEPT !.milestones = Without(@, e.milestone)]
    BY <1>4 DEF OnProjectEvent
  <2> HIDE DEF b
  <2>2. IsState(b) /\ b.version = a.version
    BY <2>1 DEF IsState
  <2> QED BY <2>2 DEF b
<1>5. CASE e.type = "ProjectMilestoneRescheduled"
  <2>1. b = OnMilestone(a, e, LAMBDA m : [m EXCEPT !.date = e.date])
    BY <1>5 DEF OnProjectEvent
  <2>2. IsState(b) /\ b.version = a.version
    BY <2>1, MilestoneHandled
  <2> QED BY <2>2
<1>6. CASE e.type = "ProjectMilestoneRenamed"
  <2>1. b = OnMilestone(a, e, LAMBDA m : [m EXCEPT !.name = e.value])
    BY <1>6 DEF OnProjectEvent
  <2>2. IsState(b) /\ b.version = a.version
    BY <2>1, MilestoneHandled
  <2> QED BY <2>2
<1> QED BY <1>1, <1>2, <1>3, <1>4, <1>5, <1>6 DEF ProjectEventTypes

LEMMA EventCounted ==
    ASSUME NEW k \in {"goal", "project"}, NEW a, IsState(a), NEW e, e.type \in EventTypes(k)
    PROVE  IsState(On(k, a, e)) /\ On(k, a, e).version = a.version + 1
<1>1. CASE k = "goal"
  <2>1. On(k, a, e) = [OnGoalEvent(a, e) EXCEPT !.version = @ + 1]
    BY <1>1 DEF On
  <2>2. IsState(OnGoalEvent(a, e)) /\ OnGoalEvent(a, e).version = a.version
    BY <1>1, GoalEventHandled DEF EventTypes
  <2> QED BY <2>1, <2>2, VersionCounted
<1>2. CASE k = "project"
  <2>1. On(k, a, e) = [OnProjectEvent(a, e) EXCEPT !.version = @ + 1]
    BY <1>2 DEF On
  <2>2. IsState(OnProjectEvent(a, e)) /\ OnProjectEvent(a, e).version = a.version
    BY <1>2, ProjectEventHandled DEF EventTypes
  <2> QED BY <2>1, <2>2, VersionCounted
<1> QED BY <1>1, <1>2

\* A history of n events takes the version n further.
LEMMA HistoryCounted ==
    ASSUME NEW k \in {"goal", "project"}, NEW a, IsState(a), NEW events, IsSeq(events),
           \A i \in 1..Len(events) : events[i].type \in EventTypes(k)
    PROVE  /\ IsState(Applied(k, a, events))
           /\ Applied(k, a, events).version = a.version + Len(events)
<1> DEFINE f == Run("replay", k, a, events)
           Good(n) == IsState(f[n]) /\ f[n].version = a.version + n
           Bad == {n \in Nat : n <= Len(events) /\ ~Good(n)}
<1>1. Runs(f, "replay", k, a, events) /\ Len(events) \in Nat
  BY RunExists, SeqDomain
<1>2. Applied(k, a, events) = f[Len(events)]
  BY AppliedIsLast DEF Result
<1> HIDE DEF f
<1>3. f[0] = a /\ \A i \in 1..Len(events) : f[i] = On(k, f[i - 1], events[i])
  BY <1>1 DEF Runs, Step
<1>4. Bad = {}
  <2>1. SUFFICES ASSUME Bad # {} PROVE FALSE
    OBVIOUS
  <2>2. PICK n \in Bad : \A i \in Bad : n <= i
    BY <2>1, LeastNumber
  <2>3. Good(0)
    BY <1>3 DEF IsState
  <2>4. n \in 1..Len(events) /\ n - 1 \in Nat /\ ~(n <= n - 1)
    BY <1>1, <2>2, <2>3
  <2>5. n - 1 \notin Bad
    <3> HIDE DEF Bad
    <3> QED BY <2>2, <2>4
  <2>6. Good(n - 1)
    BY <2>4, <2>5
  <2>7. IsState(f[n]) /\ f[n].version = f[n - 1].version + 1
    BY <2>4, <2>6, <1>3, EventCounted
  <2>8. f[n].version = a.version + n
    BY <2>4, <2>6, <2>7 DEF IsState
  <2> QED BY <2>2, <2>7, <2>8
<1> QED BY <1>1, <1>2, <1>4

LEMMA NewIsState ==
    ASSUME NEW k PROVE IsState(New(k)) /\ New(k).version = 0
  BY DEF IsState, New, NewGoal, NewProject

-----------------------------------------------------------------------------
(* What a handler decides *)

\* The answer of an operation: at most one event, of the aggregate's types.
Answers(d, types) ==
    d.events = <<>> \/ \E e \in {d.events[1]} : d.events = <<e>> /\ e.type \in types

LEMMA EmitAnswers ==
    ASSUME NEW p, NEW e, NEW types, e.type \in types
    PROVE  /\ Answers(Emit(p, e), types)
           /\ Emit(p, e).ok => Emit(p, e).events # <<>>
<1>1. CASE p
  <2>1. Emit(p, e).events = <<e>>
    BY <1>1 DEF Emit
  <2> QED BY <2>1 DEF Answers
<1>2. CASE ~p
  <2>1. Emit(p, e).events = <<>> /\ ~Emit(p, e).ok
    BY <1>2 DEF Emit
  <2> QED BY <2>1 DEF Answers
<1> QED BY <1>1, <1>2

LEMMA NothingAnswers == ASSUME NEW types PROVE Answers(Nothing, types)
  BY DEF Answers, Nothing

LEMMA GoalDecides ==
    ASSUME NEW c, NEW a, c.type \in GoalCommands
    PROVE  /\ Answers(Decide(c, a), GoalEventTypes)
           /\ IsCreate(c) /\ Decide(c, a).ok => Decide(c, a).events # <<>>
<1> USE DEF GoalEventTypes
<1>1. CASE c.type = "CreateGoal"
  <2>1. Decide(c, a) = Emit(TRUE, GoalCreated(c.value))
    BY <1>1 DEF Decide, createGoal, GoalEdits, ProjectEdits
  <2> QED BY <2>1, EmitAnswers DEF GoalCreated
<1>2. CASE c.type \in GoalEdits
  <2>1. Decide(c, a) = DecideGoalEdit(c, a)
    BY <1>2 DEF Decide, GoalEdits, ProjectEdits
  <2>2. PICK p \in BOOLEAN, e \in {GoalRefined(c.value), GoalRecategorized(c.value),
                                   GoalRescheduled(c.value), GoalPrioritized(c.value)} :
            Decide(c, a) = Emit(p, e)
    BY <1>2, <2>1 DEF DecideGoalEdit, GoalEdits, changeSummary, changeSlice,
                      changeTargetMonth, changePriority
  <2>3. e.type \in GoalEventTypes
    BY DEF GoalRefined, GoalRecategorized, GoalRescheduled, GoalPrioritized
  <2> QED BY <2>2, <2>3, EmitAnswers, <1>2 DEF IsCreate, GoalEdits
<1>3. CASE c.type \in {"ArchiveGoal", "AchieveGoal", "UnachieveGoal"}
  <2>1. Decide(c, a) = DecideGoalStatus(c, a)
    BY <1>3 DEF Decide, GoalEdits, ProjectEdits
  <2>2. \/ Decide(c, a) = Nothing
        \/ \E p \in BOOLEAN, e \in {GoalArchived, GoalAchieved, GoalUnachieved} :
               Decide(c, a) = Emit(p, e)
    BY <1>3, <2>1 DEF DecideGoalStatus, archiveGoal, achieve, unachieve
  <2>3. \A e \in {GoalArchived, GoalAchieved, GoalUnachieved} : e.type \in GoalEventTypes
    BY DEF GoalArchived, GoalAchieved, GoalUnachieved
  <2> QED BY <2>2, <2>3, EmitAnswers, NothingAnswers, <1>3 DEF IsCreate
<1>4. CASE c.type \in {"GrantGoalAccess", "RevokeGoalAccess"}
  <2>1. Decide(c, a) = DecideGoalAccess(c, a)
    BY <1>4 DEF Decide, GoalEdits, ProjectEdits
  <2>2. PICK p \in BOOLEAN, e \in {GoalAccessGranted(c.user), GoalAccessRevoked(c.user)} :
            Decide(c, a) = Emit(p, e)
    BY <1>4, <2>1 DEF DecideGoalAccess, grantAccess, revokeAccess
  <2>3. e.type \in GoalEventTypes
    BY DEF GoalAccessGranted, GoalAccessRevoked
  <2> QED BY <2>2, <2>3, EmitAnswers, <1>4 DEF IsCreate
<1> QED BY <1>1, <1>2, <1>3, <1>4 DEF GoalCommands

LEMMA ProjectDecides ==
    ASSUME NEW c, NEW a, c.type \in ProjectCommands
    PROVE  /\ Answers(Decide(c, a), ProjectEventTypes)
           /\ IsCreate(c) /\ Decide(c, a).ok => Decide(c, a).events # <<>>
<1> USE DEF ProjectEventTypes
<1>1. CASE c.type = "CreateProject"
  <2>1. Decide(c, a) = Emit(c.start <= c.target,
                            ProjectCreated(c.value, c.status, c.start, c.target, c.goal))
    BY <1>1 DEF Decide, createProject, GoalEdits, ProjectEdits
  <2>2. ProjectCreated(c.value, c.status, c.start, c.target, c.goal).type \in ProjectEventTypes
    BY DEF ProjectCreated
  <2> QED BY <2>1, <2>2, EmitAnswers
<1>2. CASE c.type \in ProjectEdits
  <2>1. Decide(c, a) = DecideProjectEdit(c, a)
    BY <1>2 DEF Decide, GoalEdits, ProjectEdits
  <2>2. PICK p \in BOOLEAN,
             e \in {ProjectStatusTransitioned(c.value), ProjectRescheduled(c.start, c.target),
                    ProjectRenamed(c.value), ProjectDescribed(c.value)} :
            Decide(c, a) = Emit(p, e)
    BY <1>2, <2>1 DEF DecideProjectEdit, ProjectEdits, changeStatus, changeDates, changeName,
                      changeDescription
  <2>3. e.type \in ProjectEventTypes
    BY DEF ProjectStatusTransitioned, ProjectRescheduled, ProjectRenamed, ProjectDescribed
  <2> QED BY <2>2, <2>3, EmitAnswers, <1>2 DEF IsCreate, ProjectEdits
<1>3. CASE c.type \in {"AddProjectGoal", "RemoveProjectGoal"}
  <2>1. Decide(c, a) = DecideProjectGoal(c, a)
    BY <1>3 DEF Decide, GoalEdits, ProjectEdits
  <2>2. \/ Decide(c, a) = Nothing
        \/ \E p \in BOOLEAN, e \in {ProjectGoalAdded(c.goal), ProjectGoalRemoved} :
               Decide(c, a) = Emit(p, e)
    BY <1>3, <2>1 DEF DecideProjectGoal, addGoal, removeGoal
  <2>3. \A e \in {ProjectGoalAdded(c.goal), ProjectGoalRemoved} : e.type \in ProjectEventTypes
    BY DEF ProjectGoalAdded, ProjectGoalRemoved
  <2> QED BY <2>2, <2>3, EmitAnswers, NothingAnswers, <1>3 DEF IsCreate
<1>4. CASE c.type = "ArchiveProject"
  <2>1. PICK p \in BOOLEAN : Decide(c, a) = Emit(p, ProjectArchived)
    BY <1>4 DEF Decide, GoalEdits, ProjectEdits, archiveProject
  <2> QED BY <2>1, EmitAnswers, <1>4 DEF IsCreate, ProjectArchived
<1>5. CASE c.type \in {"AddProjectMilestone", "ChangeProjectMilestoneTargetDate",
                       "ChangeProjectMilestoneName", "ArchiveProjectMilestone"}
  <2>1. Decide(c, a) = DecideMilestone(c, a)
    BY <1>5 DEF Decide, GoalEdits, ProjectEdits
  <2>2. PICK p \in BOOLEAN,
             e \in {ProjectMilestoneAdded(c.milestone, c.value, c.date),
                    ProjectMilestoneRescheduled(c.milestone, c.date),
                    ProjectMilestoneRenamed(c.milestone, c.value),
                    ProjectMilestoneArchived(c.milestone)} :
            Decide(c, a) = Emit(p, e)
    BY <1>5, <2>1 DEF DecideMilestone, addMilestone, changeMilestoneTargetDate,
                      changeMilestoneName, archiveMilestone
  <2>3. e.type \in ProjectEventTypes
    BY DEF ProjectMilestoneAdded, ProjectMilestoneRescheduled, ProjectMilestoneRenamed,
           ProjectMilestoneArchived
  <2> QED BY <2>2, <2>3, EmitAnswers, <1>5 DEF IsCreate
<1> QED BY <1>1, <1>2, <1>3, <1>4, <1>5 DEF ProjectCommands

\* The events an aggregate starts with are of its types.
LEMMA HistoryTyped ==
    ASSUME NEW k \in Kinds
    PROVE  /\ IsSeq(History[k]) /\ Len(History[k]) \in Nat
           /\ \A i \in 1..Len(History[k]) : History[k][i].type \in EventTypes(k)
<1>1. IsSeq(History[k])
  BY CommandConstants
<1>2. ASSUME NEW i \in 1..Len(History[k]) PROVE History[k][i].type \in EventTypes(k)
  <2>1. PICK c \in Creates[k] \cup Offered[k] :
            Decide(c, Replay(k, SubSeq(History[k], 1, i - 1))).events = <<History[k][i]>>
    BY CommandConstants
  <2> DEFINE d == Decide(c, Replay(k, SubSeq(History[k], 1, i - 1)))
             e == History[k][i]
  <2>2. c.type \in CommandTypes(k) /\ k \in {"goal", "project"}
    BY CommandConstants
  <2>3. Answers(d, EventTypes(k))
    BY <2>2, GoalDecides, ProjectDecides DEF CommandTypes, EventTypes
  <2>4. d.events = <<e>>
    BY <2>1
  <2> HIDE DEF d, e
  <2>5. e.type \in EventTypes(k)
    BY <2>3, <2>4 DEF Answers
  <2> QED BY <2>5 DEF e
<1> QED BY <1>1, <1>2, SeqDomain

-----------------------------------------------------------------------------
(* The inductive invariant *)

\* A handler has decided and not yet appended.
Holds(h) == th[h].pc \in {"key", "max", "append"}

\* What a handler decided is one event of the aggregate, on top of a version the
\* rows had; once appended, the rows reach as far as the aggregate in its memory.
DecisionOK(h) ==
    /\ Holds(h) =>
           /\ IsSeq(th[h].out) /\ Len(th[h].out) = 1
           /\ th[h].out[1].type \in EventTypes(kind)
           /\ IsState(th[h].memory)
           /\ 0 < th[h].memory.version /\ th[h].memory.version <= MaxVersion + 1
    /\ th[h].pc \in {"max", "append"} => hasKey
    /\ th[h].pc = "rows" => IsState(th[h].memory) /\ th[h].memory.version <= MaxVersion
    /\ th[h].pc = "snapshot" =>
           /\ IsState(th[h].memory)
           /\ 0 < th[h].memory.version /\ th[h].memory.version <= MaxVersion

\* A key is queued only when its command was sent.
QueuesSent ==
    \A h \in Handlers : \A i \in 1..Len(th[h].queue) : ~Fresh(th[h].queue[i])

\* A command that creates was sent without a version.
KnownOK(x) == x.pc # "idle" /\ IsCreate(cmd[Head(x.queue)]) => x.known = 0

\* A handler nobody overtook is about to append on top of a version that every
\* earlier effect of its key is behind, and what it is about to record was
\* carried out.
EffectOK(h) ==
    /\ KnownOK(th[h])
    /\ Holds(h) => th[h].known <= MaxVersion
    /\ Holds(h) /\ th[h].behind = FALSE =>
           \A i \in DOMAIN done[Key(h)] : done[Key(h)][i].known < th[h].known
    /\ th[h].pc \in {"snapshot", "record", "insertKey"} =>
           done[Key(h)] # <<>> \/ Key(h) \in noops

\* The version a sender knew is behind the rows as soon as its command took
\* effect, which is why it is refused when it is sent again with that version.
EffectsShow == \A k \in Keys : \A i \in DOMAIN done[k] : done[k][i].known < MaxVersion

CommandInv ==
    /\ TypeOK /\ IsState(snap) /\ QueuesSent /\ EffectsShow /\ ExactlyOnce
    /\ \A h \in Handlers : DecisionOK(h) /\ EffectOK(h)

\* A snapshot that is the replay of rows; there is none while there is room for
\* rows before others.
GoodFor(s, r, k, ev) ==
    s.version > 0 =>
        r = 0 /\ s.version <= Len(ev) /\ s = Replay(k, SubSeq(ev, 1, s.version))

\* What a handler nobody overtook has read or is about to write is the replay of
\* rows.
SoundFor(x, r, k, ev) ==
    ~x.behind =>
        /\ x.pc = "rows" => GoodFor(x.memory, r, k, ev)
        /\ x.pc \in {"key", "max", "append"} => r = 0 /\ x.memory = Replay(k, ev \o x.out)
        /\ x.pc = "snapshot" => r = 0 /\ x.memory = Replay(k, ev)

SnapshotsHold ==
    ~raced =>
        /\ GoodFor(snap, room, kind, Events)
        /\ \A h \in Handlers : SoundFor(th[h], room, kind, Events)

-----------------------------------------------------------------------------
(* The rows and the aggregate loaded from them *)

LEMMA EventsOfRows ==
    ASSUME RowsOK
    PROVE  /\ IsSeq(Events) /\ Len(Events) = Len(rows) /\ Len(rows) \in Nat
           /\ \A i \in 1..Len(rows) :
                  Events[i] = rows[i].event /\ Events[i].type \in EventTypes(kind)
<1>1. Len(rows) \in Nat
  BY SeqDomain DEF RowsOK
<1>2. Events = [i \in 1..Len(rows) |-> rows[i].event]
  BY DEF Events
<1>3. IsSeq(Events) /\ Len(Events) = Len(rows)
  BY <1>1, <1>2 DEF IsSeq
<1> QED BY <1>1, <1>2, <1>3 DEF RowsOK

LEMMA Versions ==
    ASSUME RowsOK
    PROVE  /\ Len(rows) \in Nat /\ room \in Nat /\ remote \in Nat
           /\ MaxVersion \in Nat /\ MaxVersion = Len(rows) + room
<1>1. Len(rows) \in Nat
  BY SeqDomain DEF RowsOK
<1>2. MaxRemote \in Nat
  BY CommandConstants
<1>3. remote \in Nat
  BY <1>2 DEF RowsOK
<1>4. room \in Nat
  BY <1>3 DEF RowsOK
<1> QED BY <1>1, <1>3, <1>4 DEF MaxVersion

LEMMA CountUpTo ==
    ASSUME NEW n \in Nat
    PROVE  IsFiniteSet(1..n) /\ Cardinality(1..n) = n
<1>1. 1 \in Int /\ n \in Int
  OBVIOUS
<1>2. IsFiniteSet(1..n) /\ Cardinality(1..n) = IF 1 > n THEN 0 ELSE n - 1 + 1
  BY ONLY <1>1, FS_Interval
<1> QED BY <1>2

LEMMA SyncedRows ==
    ASSUME RowsOK
    PROVE  /\ Synced \in Nat /\ Synced <= Len(rows)
           /\ Pending = {} => Synced = Len(rows)
<1>1. Len(rows) \in Nat
  BY Versions
<1>2. IsFiniteSet(1..Len(rows)) /\ Cardinality(1..Len(rows)) = Len(rows)
  BY <1>1, CountUpTo
<1>3. Pending \subseteq 1..Len(rows)
  BY DEF Pending
<1>4. /\ IsFiniteSet(Pending) /\ Cardinality(Pending) <= Len(rows)
  BY <1>2, <1>3, FS_Subset
<1>5. Cardinality(Pending) \in Nat
  BY <1>4, FS_CardinalityType
<1>6. Pending = {} => Cardinality(Pending) = 0
  BY FS_EmptySet
<1> QED BY <1>1, <1>4, <1>5, <1>6 DEF Synced

\* The rows after a snapshot, counted.
LEMMA UpToCounts ==
    ASSUME RowsOK, NEW n \in Nat, n <= MaxVersion
    PROVE  /\ UpTo(n) \in Nat /\ UpTo(n) <= Len(rows) /\ n <= UpTo(n) + room
           /\ room = 0 => UpTo(n) = n
<1>1. Synced \in Nat /\ Synced <= Len(rows)
  BY SyncedRows
<1>2. Len(rows) \in Nat /\ room \in Nat /\ MaxVersion = Len(rows) + room
  BY Versions
<1> QED BY <1>1, <1>2 DEF UpTo

\* The aggregate has the version of its last row, with and without a snapshot; at
\* most the versions that were freed are counted on top.
LEMMA LoadCounted ==
    ASSUME RowsOK, NEW s, IsState(s), s.version <= MaxVersion
    PROVE  /\ IsState(Load(s)) /\ Load(s).version <= MaxVersion
           /\ room = 0 => Load(s).version = Len(rows)
<1>0. kind \in {"goal", "project"}
  BY CommandConstants DEF RowsOK
<1>v. Len(rows) \in Nat /\ room \in Nat /\ MaxVersion = Len(rows) + room
  BY Versions
<1>1. CASE s.version = 0
  <2>1. Load(s) = Applied(kind, New(kind), Events)
    BY <1>1 DEF Load, Replay
  <2>2. \A i \in 1..Len(Events) : Events[i].type \in EventTypes(kind)
    BY EventsOfRows
  <2>3. /\ IsState(Applied(kind, New(kind), Events))
        /\ Applied(kind, New(kind), Events).version = New(kind).version + Len(Events)
    BY <1>0, <2>2, EventsOfRows, NewIsState, HistoryCounted
  <2>4. IsState(Load(s)) /\ Load(s).version = Len(rows)
    BY <2>1, <2>3, NewIsState, EventsOfRows
  <2> QED BY <1>v, <2>4
<1>2. CASE s.version # 0
  <2> DEFINE n == UpTo(s.version)
             part == SubSeq(Events, n + 1, Len(rows))
  <2>0. s.version \in Nat
    BY DEF IsState
  <2>1. /\ n \in Nat /\ n + 1 \in Nat /\ n <= Len(rows)
        /\ s.version <= n + room /\ (room = 0 => n = s.version)
    BY <2>0, UpToCounts
  <2>2. Load(s) = Applied(kind, s, part)
    BY <1>2 DEF Load
  <2> HIDE DEF n
  <2>3. /\ IsSeq(part) /\ Len(part) = Len(rows) - (n + 1) + 1
        /\ \A i \in 1..(Len(rows) - (n + 1) + 1) : part[i] = Events[n + 1 + i - 1]
    BY <1>v, <2>1, EventsOfRows, SeqPart
  <2> HIDE DEF part
  <2>4. Len(part) = Len(rows) - n
    BY <1>v, <2>1, <2>3
  <2>5. \A i \in 1..Len(part) : part[i].type \in EventTypes(kind)
    <3> TAKE i \in 1..Len(part)
    <3>1. n + 1 + i - 1 \in 1..Len(rows)
      BY <1>v, <2>1, <2>4
    <3> QED BY <3>1, <1>v, <2>3, <2>4, <2>1, EventsOfRows
  <2>6. IsState(Load(s)) /\ Load(s).version = s.version + Len(part)
    BY <1>0, <2>2, <2>3, <2>5, HistoryCounted
  <2> QED BY <1>v, <2>0, <2>1, <2>4, <2>6
<1> QED BY <1>1, <1>2

LEMMA EffectTyped ==
    ASSUME NEW s \in Seq([known : Nat, behind : BOOLEAN]), NEW i \in DOMAIN s
    PROVE  i \in 1..Len(s) /\ s[i].known \in Nat
<1> DEFINE R == [known : Nat, behind : BOOLEAN]
<1>1. s \in Seq(R)
  OBVIOUS
<1> HIDE DEF R
<1>2. DOMAIN s = 1..Len(s)
  BY <1>1, SeqOfAny, SeqDomain
<1>3. s[i] \in R
  BY <1>1, <1>2
<1> QED BY <1>2, <1>3 DEF R

-----------------------------------------------------------------------------
(* Steps of a handler *)

Shaped(x) == x = [f \in DOMAIN Idle |-> x[f]]

LEMMA IdleFields ==
    /\ DOMAIN Idle = {"pc", "queue", "known", "memory", "out", "start", "behind"}
    /\ Shaped(Idle) /\ Idle.pc = "idle" /\ Idle.queue = <<>> /\ Idle.start = 0
    /\ Idle.known = 0
    /\ Idle.behind = FALSE
  BY DEF Idle, Shaped

LEMMA Edited ==
    ASSUME HandlersOK, NEW h \in Handlers, NEW x, Shaped(x), th' = [th EXCEPT ![h] = x]
    PROVE  /\ th' = [g \in Handlers |-> [f \in DOMAIN Idle |-> th'[g][f]]]
           /\ th'[h] = x
           /\ \A g \in Handlers : g # h => th'[g] = th[g]
<1>1. DOMAIN th' = Handlers /\ DOMAIN th = Handlers
  BY DEF HandlersOK
<1>2. th'[h] = x /\ \A g \in Handlers : g # h => th'[g] = th[g]
  BY <1>1
<1>3. \A g \in Handlers : th'[g] = [f \in DOMAIN Idle |-> th'[g][f]]
  BY <1>2 DEF HandlersOK, Shaped
<1> QED BY <1>1, <1>2, <1>3

\* What is left of a queue.
Rest(q, x) == x.queue = q \/ x.queue = <<>> \/ (q # <<>> /\ x.queue = Tail(q))

LEMMA QueuesShrink ==
    ASSUME HandlersOK, QueuesSent, cmd' = cmd, NEW h \in Handlers,
           th'[h].queue \in Seq(Keys), Rest(th[h].queue, th'[h]),
           \A g \in Handlers : g # h => th'[g].queue = th[g].queue
    PROVE  QueuesSent'
<1>1. \A g \in Handlers : th[g].queue \in Seq(Keys) /\ th'[g].queue \in Seq(Keys)
  BY DEF HandlersOK
<1>2. \A g \in Handlers : \E d \in {0, 1} : \A i \in 1..Len(th'[g].queue) :
          i + d \in 1..Len(th[g].queue) /\ th'[g].queue[i] = th[g].queue[i + d]
  <2> TAKE g \in Handlers
  <2>1. CASE th'[g].queue = th[g].queue
    <3>1. \A i \in 1..Len(th'[g].queue) :
              i + 0 \in 1..Len(th[g].queue) /\ th'[g].queue[i] = th[g].queue[i + 0]
      BY <1>1, <2>1
    <3> QED BY <3>1
  <2>2. CASE th'[g].queue = <<>>
    <3>1. \A i \in 1..Len(th'[g].queue) : FALSE
      BY <2>2
    <3> QED BY <3>1
  <2>3. CASE th[g].queue # <<>> /\ th'[g].queue = Tail(th[g].queue)
    <3>1. \A i \in 1..Len(th'[g].queue) :
              i + 1 \in 1..Len(th[g].queue) /\ th'[g].queue[i] = th[g].queue[i + 1]
      BY <1>1, <2>3
    <3> QED BY <3>1
  <2> QED BY <2>1, <2>2, <2>3 DEF Rest
<1>5. \A g \in Handlers : \A i \in 1..Len(th'[g].queue) : ~(cmd[th'[g].queue[i]] = NoCommand)
  <2> TAKE g \in Handlers
  <2> TAKE i \in 1..Len(th'[g].queue)
  <2>1. PICK x \in 1..Len(th[g].queue) : th'[g].queue[i] = th[g].queue[x]
    BY <1>2
  <2>2. ~Fresh(th[g].queue[x])
    BY DEF QueuesSent
  <2> QED BY <2>1, <2>2 DEF Fresh
<1> QED BY <1>5 DEF QueuesSent, Fresh

\* The key of a busy handler.
LEMMA KeyOfHandler ==
    ASSUME HandlersOK, QueuesSent, NEW h \in Handlers, th[h].pc # "idle"
    PROVE  /\ th[h].queue \in Seq(Keys) /\ Len(th[h].queue) > 0
           /\ Key(h) = th[h].queue[1] /\ Key(h) \in Keys /\ ~Fresh(Key(h))
<1>1. th[h].queue \in Seq(Keys) /\ th[h].queue # <<>>
  BY DEF HandlersOK
<1>2. Len(th[h].queue) > 0 /\ 1 \in 1..Len(th[h].queue) /\ Key(h) = th[h].queue[1]
  BY <1>1 DEF Key
<1> QED BY <1>1, <1>2 DEF QueuesSent

\* Handlers that did not step go on as before, while rows and keys grow.
LEMMA OthersGoOn ==
    ASSUME CommandInv, NEW g \in Handlers,
           th'[g].pc = th[g].pc, th'[g].queue = th[g].queue, th'[g].out = th[g].out,
           th'[g].memory = th[g].memory, th'[g].known = th[g].known,
           kind' = kind, cmd' = cmd, noops \subseteq noops', hasKey => hasKey',
           MaxVersion' \in Nat, MaxVersion <= MaxVersion',
           th[g].pc # "idle" /\ done[Key(g)] # <<>> => done'[Key(g)] # <<>>,
           Holds(g) /\ th'[g].behind = FALSE =>
               th[g].behind = FALSE /\ done'[Key(g)] = done[Key(g)]
    PROVE  DecisionOK(g)' /\ EffectOK(g)'
<1>0. DecisionOK(g) /\ EffectOK(g) /\ MaxVersion \in Nat /\ th[g].known \in Nat
  BY Versions DEF CommandInv, TypeOK, HandlersOK
<1>1. DecisionOK(g)'
  <2>1. Holds(g)' => Holds(g)
    BY DEF Holds
  <2>2. Holds(g) => th[g].memory.version <= MaxVersion' + 1
    BY <1>0 DEF DecisionOK, IsState
  <2>3. th[g].pc \in {"snapshot", "rows"} => th[g].memory.version <= MaxVersion'
    BY <1>0 DEF DecisionOK, IsState
  <2> QED BY <1>0, <2>1, <2>2, <2>3 DEF DecisionOK
<1>2. EffectOK(g)'
  <2>1. Key(g)' = Key(g) /\ Holds(g)' = Holds(g)
    BY DEF Key, Holds
  <2>2. KnownOK(th[g])'
    BY <1>0 DEF EffectOK, KnownOK
  <2>3. Holds(g) => th'[g].known <= MaxVersion'
    BY <1>0 DEF EffectOK
  <2>4. Holds(g) /\ th'[g].behind = FALSE =>
            \A i \in DOMAIN done'[Key(g)] : done'[Key(g)][i].known < th'[g].known
    BY <1>0 DEF EffectOK
  <2>5. th[g].pc \in {"snapshot", "record", "insertKey"} =>
            done'[Key(g)] # <<>> \/ Key(g) \in noops'
    BY <1>0 DEF EffectOK
  <2> QED BY <2>1, <2>2, <2>3, <2>4, <2>5 DEF EffectOK
<1> QED BY <1>1, <1>2

Labels == {"idle", "check", "load", "rows", "key", "max", "append", "snapshot", "record", "insertKey"}

\* What a handler may become.
ThreadOK(x) ==
    /\ Shaped(x) /\ x.pc \in Labels /\ x.queue \in Seq(Keys)
    /\ x.pc = "idle" <=> x.queue = <<>>
    /\ x.known \in Nat /\ x.start \in Nat /\ x.behind \in BOOLEAN

\* A step of one handler that neither sends commands nor writes rows.
LEMMA CalmStep ==
    ASSUME CommandInv, NEW h \in Handlers, NEW x, ThreadOK(x), Rest(th[h].queue, x),
           th' = [th EXCEPT ![h] = x],
           UNCHANGED <<kind, rows, room, cmd, remote, done>>,
           hasKey' \in BOOLEAN, hasKey => hasKey',
           noops \subseteq noops', noops' \subseteq Keys, idem' \subseteq Keys,
           \A k \in idem' \ idem : done[k] # <<>> \/ k \in noops',
           IsState(snap'), snap'.version <= MaxVersion,
           DecisionOK(h)', EffectOK(h)'
    PROVE  CommandInv'
<1>1. /\ th' = [g \in Handlers |-> [f \in DOMAIN Idle |-> th'[g][f]]]
      /\ th'[h] = x
      /\ \A g \in Handlers : g # h => th'[g] = th[g]
  BY Edited DEF CommandInv, TypeOK, ThreadOK
<1>2. HandlersOK'
  <2>1. \A g \in Handlers :
           /\ th'[g].pc \in Labels
           /\ th'[g].queue \in Seq(Keys)
           /\ th'[g].pc = "idle" <=> th'[g].queue = <<>>
           /\ th'[g].known \in Nat /\ th'[g].start \in Nat /\ th'[g].behind \in BOOLEAN
    BY <1>1 DEF CommandInv, TypeOK, HandlersOK, ThreadOK, Labels
  <2>2. DOMAIN Idle' = DOMAIN Idle
    BY DEF Idle, NoSnapshot
  <2> QED BY <1>1, <2>1, <2>2 DEF HandlersOK, Labels
<1>3. RowsOK' /\ KeysOK' /\ snap'.version <= MaxVersion' /\ MaxVersion' = MaxVersion
  BY DEF CommandInv, TypeOK, RowsOK, KeysOK, Fresh, MaxVersion
<1>4. QueuesSent'
  BY <1>1, QueuesShrink DEF CommandInv, TypeOK, ThreadOK
<1>5. EffectsShow' /\ ExactlyOnce'
  BY <1>3 DEF CommandInv, EffectsShow, ExactlyOnce, OncePerKey, RecordedIsDone, Fresh
<1>6. \A g \in Handlers : DecisionOK(g)' /\ EffectOK(g)'
  <2> TAKE g \in Handlers
  <2>1. CASE g = h
    BY <2>1
  <2>2. CASE g # h
    <3>1. MaxVersion' \in Nat /\ MaxVersion <= MaxVersion' /\ done' = done
      BY <1>3, Versions DEF CommandInv, TypeOK
    <3>2. th'[g] = th[g]
      BY <1>1, <2>2
    <3>3. /\ th'[g].pc = th[g].pc /\ th'[g].queue = th[g].queue /\ th'[g].out = th[g].out
          /\ th'[g].memory = th[g].memory /\ th'[g].known = th[g].known
          /\ th'[g].behind = FALSE => th[g].behind = FALSE
      BY <3>2
    <3> QED BY <3>1, <3>3, OthersGoOn
  <2> QED BY <2>1, <2>2
<1> QED BY <1>2, <1>3, <1>4, <1>5, <1>6 DEF CommandInv, TypeOK

\* A handler that ends, or begins with its next command, has nothing to keep.
LEMMA QuietStep ==
    ASSUME CommandInv, NEW h \in Handlers, NEW x, ThreadOK(x), Rest(th[h].queue, x),
           th' = [th EXCEPT ![h] = x], x.pc \in {"idle", "check", "load"}, KnownOK(x),
           UNCHANGED <<kind, rows, room, cmd, remote, done, hasKey, noops, snap>>,
           idem' \subseteq Keys,
           \A k \in idem' \ idem : done[k] # <<>> \/ k \in noops
    PROVE  CommandInv'
<1>1. th'[h] = x
  BY Edited DEF CommandInv, TypeOK, ThreadOK
<1>2. DecisionOK(h)' /\ EffectOK(h)'
  BY <1>1 DEF DecisionOK, EffectOK, Holds, KnownOK
<1>3. /\ hasKey' \in BOOLEAN /\ (hasKey => hasKey')
      /\ noops \subseteq noops' /\ noops' \subseteq Keys
      /\ \A k \in idem' \ idem : done[k] # <<>> \/ k \in noops'
  BY DEF CommandInv, TypeOK, RowsOK, KeysOK
<1>4. IsState(snap') /\ snap'.version <= MaxVersion
  BY DEF CommandInv, TypeOK
<1> QED BY <1>2, <1>3, <1>4, CalmStep

LEMMA FailThread ==
    ASSUME NEW h \in Handlers
    PROVE  ThreadOK(Idle) /\ Rest(th[h].queue, Idle) /\ Idle.pc = "idle" /\ KnownOK(Idle)
<1>1. <<>> \in Seq(Keys)
  OBVIOUS
<1>2. Idle.pc \in Labels /\ Idle.queue \in Seq(Keys) /\ Idle.start \in Nat
      /\ Idle.known \in Nat
  BY <1>1, IdleFields DEF Labels
<1>4. Idle.behind \in BOOLEAN
  BY IdleFields, Zenon
<1>3. (Idle.pc = "idle") <=> (Idle.queue = <<>>)
  BY IdleFields
<1>5. KnownOK(Idle)
  BY IdleFields DEF KnownOK
<1> QED BY <1>2, <1>3, <1>4, <1>5, IdleFields, Zenon DEF ThreadOK, Rest

LEMMA BegunThread ==
    ASSUME NEW ks \in Seq(Keys), ks # <<>>, NEW v \in Nat
    PROVE  /\ ThreadOK(Begun(ks, v)) /\ Begun(ks, v).pc = "check" /\ Begun(ks, v).queue = ks
           /\ Begun(ks, v).known = v
<1> DEFINE x == Begun(ks, v)
<1>1. /\ Shaped(x) /\ x.pc = "check" /\ x.queue = ks /\ x.known = v /\ x.start = 0
      /\ x.behind = FALSE
  BY DEF Begun, Idle, Shaped
<1> HIDE DEF x
<1>2. x.pc \in Labels /\ x.start \in Nat /\ x.known \in Nat
  BY <1>1 DEF Labels
<1>3. x.behind \in BOOLEAN
  BY <1>1, Zenon
<1>4. (x.pc = "idle") <=> (x.queue = <<>>)
  BY <1>1
<1>5. ThreadOK(x)
  BY <1>1, <1>2, <1>3, <1>4, Zenon DEF ThreadOK
<1> QED BY <1>1, <1>5 DEF x

LEMMA RestOfQueue ==
    ASSUME NEW q \in Seq(Keys), Len(q) > 1
    PROVE  /\ Tail(q) \in Seq(Keys) /\ Tail(q) # <<>> /\ q # <<>>
           /\ Head(Tail(q)) = q[2] /\ q[2] \in Keys /\ 2 \in 1..Len(q)
<1>0. Len(q) \in Nat
  BY SeqOfAny, SeqDomain
<1>1. q # <<>>
  BY <1>0
<1>2. Tail(q) \in Seq(Keys) /\ Len(Tail(q)) = Len(q) - 1 /\ Tail(q)[1] = q[2]
  BY <1>0, <1>1
<1>3. Tail(q) # <<>>
  <2>1. Len(Tail(q)) # 0
    BY <1>0, <1>2
  <2> QED BY <2>1, SeqOne
<1>4. Head(Tail(q)) = Tail(q)[1]
  BY <1>2, <1>3
<1>5. 2 \in 1..Len(q) /\ q[2] \in Keys
  BY <1>0
<1> QED BY <1>1, <1>2, <1>3, <1>4, <1>5

LEMMA ReturnThread ==
    ASSUME CommandInv, NEW h \in Handlers, th[h].pc # "idle", Return(h)
    PROVE  \E x : /\ ThreadOK(x) /\ Rest(th[h].queue, x) /\ th' = [th EXCEPT ![h] = x]
                  /\ x.pc \in {"idle", "check"} /\ KnownOK(x)
<1>0. th[h].queue \in Seq(Keys) /\ Len(th[h].queue) > 0
  BY KeyOfHandler DEF CommandInv, TypeOK
<1>1. CASE Len(th[h].queue) = 1
  <2>1. th' = [th EXCEPT ![h] = Idle]
    BY <1>1 DEF Return
  <2> QED BY <2>1, FailThread
<1>2. CASE Len(th[h].queue) # 1
  <2> DEFINE q == th[h].queue
             v == cmd[q[2]].known
             x == Begun(Tail(q), v)
  <2>1. th' = [th EXCEPT ![h] = x]
    BY <1>2 DEF Return, CommandInv, TypeOK, HandlersOK
  <2>2. /\ Tail(q) \in Seq(Keys) /\ Tail(q) # <<>> /\ q # <<>> /\ Head(Tail(q)) = q[2]
        /\ q[2] \in Keys
        /\ 2 \in 1..Len(q)
    <3>0. q \in Seq(Keys) /\ Len(q) > 0 /\ Len(q) # 1
      BY <1>0, <1>2
    <3> HIDE DEF q
    <3>1. Len(q) \in Nat
      BY <3>0, SeqOfAny, SeqDomain
    <3>2. Len(q) > 1
      <4> DEFINE n == Len(q)
      <4>1. n \in Nat /\ n > 0 /\ n # 1
        BY <3>0, <3>1
      <4> HIDE DEF n
      <4>2. n > 1
        BY <4>1
      <4> QED BY <4>2 DEF n
    <3> QED BY <3>0, <3>2, RestOfQueue
  <2>3. ~Fresh(q[2])
    BY <2>2 DEF CommandInv, QueuesSent
  <2>4. v \in Nat /\ (IsCreate(cmd[q[2]]) => v = 0)
    BY <2>2, <2>3 DEF CommandInv, TypeOK, KeysOK
  <2> HIDE DEF v, x
  <2>5. ThreadOK(x) /\ x.pc = "check" /\ x.queue = Tail(q) /\ x.known = v
    <3> DEFINE t == Tail(q)
    <3>1. t \in Seq(Keys) /\ t # <<>> /\ x = Begun(t, v)
      BY <2>2 DEF x
    <3> HIDE DEF t
    <3>2. ThreadOK(x) /\ x.pc = "check" /\ x.queue = t /\ x.known = v
      BY <2>4, <3>1, BegunThread
    <3> QED BY <3>2 DEF t
  <2>6. Rest(q, x)
    BY <2>2, <2>5 DEF Rest
  <2>7. KnownOK(x)
    BY <2>2, <2>4, <2>5 DEF KnownOK
  <2> QED BY <2>1, <2>5, <2>6, <2>7
<1> QED BY <1>1, <1>2

LEMMA GotoThread ==
    ASSUME CommandInv, NEW h \in Handlers, th[h].pc # "idle",
           NEW pc \in Labels \ {"idle"}, Goto(h, pc)
    PROVE  \E x : /\ ThreadOK(x) /\ Rest(th[h].queue, x) /\ th' = [th EXCEPT ![h] = x]
                  /\ x.pc = pc /\ x.queue = th[h].queue /\ x.out = th[h].out
                  /\ x.memory = th[h].memory /\ x.behind = th[h].behind
                  /\ x.known = th[h].known /\ KnownOK(x)
<1> DEFINE x == [th[h] EXCEPT !.pc = pc]
<1>1. th' = [th EXCEPT ![h] = x]
  BY DEF Goto
<1>2. Shaped(th[h]) /\ th[h].start \in Nat /\ th[h].known \in Nat /\ th[h].behind \in BOOLEAN
      /\ th[h].queue \in Seq(Keys) /\ th[h].queue # <<>>
  BY DEF CommandInv, TypeOK, HandlersOK, Shaped
<1>3. /\ Shaped(x) /\ x.pc = pc /\ x.queue = th[h].queue /\ x.out = th[h].out
      /\ x.memory = th[h].memory /\ x.behind = th[h].behind /\ x.start = th[h].start
      /\ x.known = th[h].known
  BY <1>2, IdleFields DEF Shaped
<1> HIDE DEF x
<1>4. ThreadOK(x) /\ Rest(th[h].queue, x)
  BY <1>2, <1>3 DEF ThreadOK, Rest
<1>5. KnownOK(x)
  BY <1>3 DEF CommandInv, EffectOK, KnownOK
<1> QED BY <1>1, <1>3, <1>4, <1>5

LEMMA CheckDuplicateKeeps ==
    ASSUME CommandInv, NEW h \in Handlers, CheckDuplicate(h) PROVE CommandInv'
<1>0. th[h].pc = "check" /\ UNCHANGED <<kind, rows, room, cmd, remote, done, hasKey, noops, snap, idem>>
  BY DEF CheckDuplicate
<1>1. /\ idem' \subseteq Keys /\ \A k \in idem' \ idem : done[k] # <<>> \/ k \in noops
  BY <1>0 DEF CommandInv, TypeOK, KeysOK
<1>2. PICK x : /\ ThreadOK(x) /\ Rest(th[h].queue, x) /\ th' = [th EXCEPT ![h] = x]
               /\ x.pc \in {"idle", "check", "load"} /\ KnownOK(x)
  BY <1>0, ReturnThread, GotoThread DEF CheckDuplicate, Labels
<1> QED BY <1>0, <1>1, <1>2, QuietStep

LEMMA EndsKeep ==
    ASSUME CommandInv, NEW h \in Handlers, Conflict(h) \/ Crash(h) PROVE CommandInv'
<1>0. /\ th' = [th EXCEPT ![h] = Idle]
      /\ UNCHANGED <<kind, rows, room, cmd, remote, done, hasKey, noops, snap, idem>>
  BY DEF Conflict, Crash, Fail
<1>1. /\ idem' \subseteq Keys /\ \A k \in idem' \ idem : done[k] # <<>> \/ k \in noops
  BY <1>0 DEF CommandInv, TypeOK, KeysOK
<1> QED BY <1>0, <1>1, FailThread, QuietStep

LEMMA RecordInsertKeeps ==
    ASSUME CommandInv, NEW h \in Handlers, RecordInsert(h) PROVE CommandInv'
<1>0. /\ th[h].pc = "insertKey" /\ Return(h) /\ idem' = idem \cup {Key(h)}
      /\ UNCHANGED <<kind, rows, room, cmd, remote, done, hasKey, noops, snap>>
  BY DEF RecordInsert
<1>1. /\ Key(h) \in Keys /\ (done[Key(h)] # <<>> \/ Key(h) \in noops)
  BY <1>0, KeyOfHandler DEF CommandInv, TypeOK, EffectOK
<1>2. /\ idem' \subseteq Keys /\ \A k \in idem' \ idem : done[k] # <<>> \/ k \in noops
  BY <1>0, <1>1 DEF CommandInv, TypeOK, KeysOK
<1>3. PICK x : /\ ThreadOK(x) /\ Rest(th[h].queue, x) /\ th' = [th EXCEPT ![h] = x]
               /\ x.pc \in {"idle", "check"} /\ KnownOK(x)
  BY <1>0, ReturnThread
<1> QED BY <1>0, <1>2, <1>3, QuietStep

LEMMA RecordLookupKeeps ==
    ASSUME CommandInv, NEW h \in Handlers, RecordLookup(h) PROVE CommandInv'
<1>0. /\ th[h].pc = "record"
      /\ UNCHANGED <<kind, rows, room, cmd, remote, done, hasKey, noops, snap, idem>>
  BY DEF RecordLookup
<1>1. /\ idem' \subseteq Keys /\ \A k \in idem' \ idem : done[k] # <<>> \/ k \in noops
  BY <1>0 DEF CommandInv, TypeOK, KeysOK
<1>2. CASE Return(h)
  <2>1. PICK x : /\ ThreadOK(x) /\ Rest(th[h].queue, x) /\ th' = [th EXCEPT ![h] = x]
                 /\ x.pc \in {"idle", "check"} /\ KnownOK(x)
    BY <1>0, <1>2, ReturnThread
  <2> QED BY <1>0, <1>1, <2>1, QuietStep
<1>3. CASE Goto(h, "insertKey")
  <2>1. PICK x : /\ ThreadOK(x) /\ Rest(th[h].queue, x) /\ th' = [th EXCEPT ![h] = x]
                 /\ x.pc = "insertKey" /\ x.queue = th[h].queue /\ KnownOK(x)
    BY <1>0, <1>3, GotoThread DEF Labels
  <2>2. th'[h] = x
    BY <2>1, Edited DEF CommandInv, TypeOK, ThreadOK
  <2>3. DecisionOK(h)'
    BY <2>1, <2>2 DEF DecisionOK, Holds
  <2>4. EffectOK(h)'
    <3>1. Key(h)' = Key(h) /\ EffectOK(h)
      BY <2>1, <2>2 DEF Key, CommandInv
    <3> QED BY <1>0, <2>1, <2>2, <3>1 DEF EffectOK, Holds, KnownOK
  <2>5. /\ hasKey' \in BOOLEAN /\ (hasKey => hasKey')
        /\ noops \subseteq noops' /\ noops' \subseteq Keys
        /\ \A k \in idem' \ idem : done[k] # <<>> \/ k \in noops'
    BY <1>0, <1>1 DEF CommandInv, TypeOK, RowsOK, KeysOK
  <2>6. IsState(snap') /\ snap'.version <= MaxVersion
    BY <1>0 DEF CommandInv, TypeOK
  <2> QED BY <1>0, <1>1, <2>1, <2>3, <2>4, <2>5, <2>6, CalmStep
<1> QED BY <1>2, <1>3 DEF RecordLookup

LEMMA SaveAggregateKeyKeeps ==
    ASSUME CommandInv, NEW h \in Handlers, SaveAggregateKey(h) PROVE CommandInv'
<1>0. /\ th[h].pc = "key" /\ Goto(h, "max") /\ hasKey' = TRUE
      /\ UNCHANGED <<kind, rows, room, cmd, remote, done, noops, snap, idem>>
  BY DEF SaveAggregateKey
<1>1. PICK x : /\ ThreadOK(x) /\ Rest(th[h].queue, x) /\ th' = [th EXCEPT ![h] = x]
               /\ x.pc = "max" /\ x.queue = th[h].queue /\ x.out = th[h].out
               /\ x.memory = th[h].memory /\ x.behind = th[h].behind
               /\ x.known = th[h].known /\ KnownOK(x)
  BY <1>0, GotoThread DEF Labels
<1>2. th'[h] = x
  BY <1>1, Edited DEF CommandInv, TypeOK, ThreadOK
<1>3. DecisionOK(h) /\ EffectOK(h) /\ Holds(h)
  BY <1>0 DEF CommandInv, Holds
<1>4. DecisionOK(h)'
  BY <1>0, <1>1, <1>2, <1>3 DEF DecisionOK, Holds, MaxVersion
<1>5. EffectOK(h)'
  <2>1. Key(h)' = Key(h) /\ KnownOK(th[h])'
    BY <1>0, <1>1, <1>2 DEF Key, KnownOK
  <2> QED BY <1>0, <1>1, <1>2, <1>3, <2>1 DEF EffectOK, Holds, MaxVersion
<1>6. /\ idem' \subseteq Keys /\ noops \subseteq noops' /\ noops' \subseteq Keys
      /\ \A k \in idem' \ idem : done[k] # <<>> \/ k \in noops'
  BY <1>0 DEF CommandInv, TypeOK, KeysOK
<1>7. IsState(snap') /\ snap'.version <= MaxVersion
  BY <1>0 DEF CommandInv, TypeOK
<1> QED BY <1>0, <1>1, <1>4, <1>5, <1>6, <1>7, CalmStep

LEMMA ReadMaxVersionKeeps ==
    ASSUME CommandInv, NEW h \in Handlers, ReadMaxVersion(h) PROVE CommandInv'
<1> DEFINE x == [th[h] EXCEPT !.pc = "append", !.start = StartVersion(h)]
<1>0. /\ th[h].pc = "max" /\ th' = [th EXCEPT ![h] = x]
      /\ UNCHANGED <<kind, rows, room, cmd, remote, done, noops, snap, idem, hasKey>>
  BY DEF ReadMaxVersion
<1>1. Shaped(th[h]) /\ th[h].behind \in BOOLEAN /\ th[h].known \in Nat /\ th[h].queue \in Seq(Keys) /\ th[h].queue # <<>>
  BY <1>0 DEF CommandInv, TypeOK, HandlersOK, Shaped
<1>2. StartVersion(h) \in Nat
  <2>1. MaxVersion \in Nat /\ snap.version \in Nat
    BY Versions DEF CommandInv, TypeOK, IsState
  <2> QED BY <2>1 DEF StartVersion
<1>3. /\ Shaped(x) /\ x.pc = "append" /\ x.queue = th[h].queue /\ x.out = th[h].out
      /\ x.memory = th[h].memory /\ x.behind = th[h].behind /\ x.start = StartVersion(h)
      /\ x.known = th[h].known
  BY <1>1, IdleFields DEF Shaped
<1> HIDE DEF x
<1>4. ThreadOK(x) /\ Rest(th[h].queue, x)
  BY <1>1, <1>2, <1>3 DEF ThreadOK, Rest, Labels
<1>5. th'[h] = x
  BY <1>0, <1>4, Edited DEF CommandInv, TypeOK, ThreadOK
<1>6. DecisionOK(h) /\ EffectOK(h) /\ Holds(h)
  BY <1>0 DEF CommandInv, Holds
<1>7. DecisionOK(h)'
  BY <1>0, <1>3, <1>5, <1>6 DEF DecisionOK, Holds, MaxVersion
<1>8. EffectOK(h)'
  <2>1. Key(h)' = Key(h) /\ KnownOK(th[h])'
    BY <1>0, <1>3, <1>5, <1>6 DEF Key, KnownOK, EffectOK
  <2> QED BY <1>0, <1>3, <1>5, <1>6, <2>1 DEF EffectOK, Holds, MaxVersion
<1>9. /\ idem' \subseteq Keys /\ noops \subseteq noops' /\ noops' \subseteq Keys
      /\ hasKey' \in BOOLEAN /\ (hasKey => hasKey')
      /\ \A k \in idem' \ idem : done[k] # <<>> \/ k \in noops'
  BY <1>0 DEF CommandInv, TypeOK, KeysOK, RowsOK
<1>10. IsState(snap') /\ snap'.version <= MaxVersion
  BY <1>0 DEF CommandInv, TypeOK
<1> QED BY <1>0, <1>4, <1>7, <1>8, <1>9, <1>10, CalmStep

LEMMA PurgeKeeps ==
    ASSUME CommandInv, NEW h \in Handlers, PurgeCorruptSnapshot(h) PROVE CommandInv'
<1>0. /\ snap' = NoSnapshot
      /\ UNCHANGED <<kind, rows, room, cmd, th, remote, done, noops, idem, hasKey>>
      /\ MaxVersion' = MaxVersion
  BY DEF PurgeCorruptSnapshot, MaxVersion
<1>1. IsState(snap') /\ snap'.version = 0
  BY <1>0 DEF NoSnapshot, IsState
<1>2. RowsOK' /\ KeysOK' /\ QueuesSent' /\ EffectsShow' /\ ExactlyOnce'
  BY <1>0 DEF CommandInv, TypeOK, RowsOK, KeysOK, QueuesSent, EffectsShow, ExactlyOnce,
              OncePerKey, RecordedIsDone, Fresh
<1>3. HandlersOK'
  BY <1>0 DEF CommandInv, TypeOK, HandlersOK, Idle, NoSnapshot
<1>4. snap'.version <= MaxVersion'
  BY <1>0, <1>1, Versions DEF CommandInv, TypeOK
<1>5. \A g \in Handlers : DecisionOK(g)' /\ EffectOK(g)'
  BY <1>0 DEF CommandInv, DecisionOK, EffectOK, Holds, Key, KnownOK
<1> QED BY <1>1, <1>2, <1>3, <1>4, <1>5 DEF CommandInv, TypeOK

LEMMA WrittenThread ==
    ASSUME CommandInv, NEW h \in Handlers, th[h].pc # "idle"
    PROVE  /\ ThreadOK(Written(h)) /\ Rest(th[h].queue, Written(h))
           /\ Written(h).pc = "record" /\ Written(h).queue = th[h].queue
           /\ KnownOK(Written(h))
<1> DEFINE x == Written(h)
<1>1. th[h].queue \in Seq(Keys) /\ th[h].queue # <<>>
  BY DEF CommandInv, TypeOK, HandlersOK
<1>2. /\ Shaped(x) /\ x.pc = "record" /\ x.queue = th[h].queue /\ x.start = 0
      /\ x.behind = FALSE /\ x.known = 0
  BY DEF Written, Idle, Shaped
<1> HIDE DEF x
<1>3. x.pc \in Labels /\ x.start \in Nat /\ x.known \in Nat
  BY <1>2 DEF Labels
<1>4. x.behind \in BOOLEAN
  BY <1>2, Zenon
<1>5. (x.pc = "idle") <=> (x.queue = <<>>)
  BY <1>1, <1>2
<1>6. ThreadOK(x) /\ Rest(th[h].queue, x)
  BY <1>1, <1>2, <1>3, <1>4, <1>5, Zenon DEF ThreadOK, Rest
<1>7. KnownOK(x)
  BY <1>2 DEF KnownOK
<1> QED BY <1>2, <1>6, <1>7 DEF x

LEMMA PersistSnapshotKeeps ==
    ASSUME CommandInv, NEW h \in Handlers, PersistSnapshot(h) PROVE CommandInv'
<1>0. /\ th[h].pc = "snapshot" /\ th' = [th EXCEPT ![h] = Written(h)] /\ snap' = th[h].memory
      /\ UNCHANGED <<kind, rows, room, cmd, remote, done, noops, idem, hasKey>>
  BY DEF PersistSnapshot
<1>1. DecisionOK(h) /\ EffectOK(h)
  BY DEF CommandInv
<1>2. IsState(snap') /\ snap'.version <= MaxVersion
  BY <1>0, <1>1 DEF DecisionOK
<1>3. /\ ThreadOK(Written(h)) /\ Rest(th[h].queue, Written(h))
      /\ Written(h).pc = "record" /\ Written(h).queue = th[h].queue
      /\ KnownOK(Written(h))
  BY <1>0, WrittenThread
<1>4. th'[h] = Written(h)
  BY <1>0, <1>3, Edited DEF CommandInv, TypeOK, ThreadOK
<1>5. DecisionOK(h)'
  BY <1>3, <1>4 DEF DecisionOK, Holds
<1>6. EffectOK(h)'
  <2>1. Key(h)' = Key(h)
    BY <1>3, <1>4 DEF Key
  <2> QED BY <1>0, <1>1, <1>3, <1>4, <2>1 DEF EffectOK, Holds, KnownOK
<1>7. /\ idem' \subseteq Keys /\ noops \subseteq noops' /\ noops' \subseteq Keys
      /\ hasKey' \in BOOLEAN /\ (hasKey => hasKey')
      /\ \A k \in idem' \ idem : done[k] # <<>> \/ k \in noops'
  BY <1>0 DEF CommandInv, TypeOK, KeysOK, RowsOK
<1> QED BY <1>0, <1>2, <1>3, <1>5, <1>6, <1>7, CalmStep

-----------------------------------------------------------------------------
(* Decisions *)

\* What a handler becomes that decided.
GoesOnWith(h, x, events, before) ==
    /\ ThreadOK(x) /\ Rest(th[h].queue, x) /\ th' = [th EXCEPT ![h] = x]
    /\ x.pc = IF events = <<>> THEN "record" ELSE IF hasKey THEN "max" ELSE "key"
    /\ x.queue = th[h].queue /\ x.out = events
    /\ x.memory = Applied(kind, before, events)
    /\ x.known = th[h].known /\ KnownOK(x)
    /\ x.behind = FALSE => th[h].behind = FALSE /\ room = 0

LEMMA DecidedThread ==
    ASSUME CommandInv, NEW h \in Handlers, th[h].pc \in {"load", "rows"}, NEW events,
           NEW before, Decided(h, events, before)
    PROVE  \E x : GoesOnWith(h, x, events, before)
<1> DEFINE pc == IF events = <<>> THEN "record" ELSE IF hasKey THEN "max" ELSE "key"
           after == Applied(kind, before, events)
           b == th[h].behind \/ room > 0
           x == [th[h] EXCEPT !.pc = pc, !.out = events, !.memory = after, !.behind = b]
<1>1. th' = [th EXCEPT ![h] = x]
  BY DEF Decided, CommandInv, TypeOK, HandlersOK
<1>2. pc \in {"record", "max", "key"}
  OBVIOUS
<1> HIDE DEF pc, after
<1>b. b \in BOOLEAN /\ (b = FALSE => th[h].behind = FALSE /\ room = 0)
  <2>1. room \in Nat /\ th[h].behind \in BOOLEAN
    BY Versions DEF CommandInv, TypeOK, HandlersOK
  <2> QED BY <2>1
<1> HIDE DEF b
<1>3. /\ Shaped(th[h]) /\ th[h].behind \in BOOLEAN /\ th[h].start \in Nat
      /\ th[h].known \in Nat
      /\ th[h].queue \in Seq(Keys) /\ th[h].queue # <<>>
  BY DEF CommandInv, TypeOK, HandlersOK, Shaped
<1>4. /\ Shaped(x) /\ x.pc = pc /\ x.queue = th[h].queue /\ x.out = events
      /\ x.memory = after /\ x.behind = b /\ x.start = th[h].start /\ x.known = th[h].known
  BY <1>3, IdleFields DEF Shaped
<1> HIDE DEF x
<1>5. ThreadOK(x) /\ Rest(th[h].queue, x)
  BY <1>b, <1>2, <1>3, <1>4 DEF ThreadOK, Rest, Labels
<1>6. KnownOK(x)
  BY <1>4 DEF CommandInv, EffectOK, KnownOK
<1>7. x.behind = FALSE => th[h].behind = FALSE /\ room = 0
  BY <1>b, <1>4
<1>8. GoesOnWith(h, x, events, before)
  BY <1>1, <1>4, <1>5, <1>6, <1>7 DEF pc, after, GoesOnWith
<1> QED BY <1>8

\* A handler that goes on with what it decided.
LEMMA DecisionKeeps ==
    ASSUME CommandInv, NEW h \in Handlers, th[h].pc \in {"load", "rows"},
           NEW d, Answers(d, EventTypes(kind)), NEW before, IsState(before),
           before.version <= MaxVersion, Decided(h, d.events, before),
           UNCHANGED <<kind, rows, room, snap, hasKey, idem, cmd, remote, done>>,
           noops' = IF d.events = <<>> THEN noops \cup {Key(h)} ELSE noops,
           th[h].known <= MaxVersion,
           room = 0 => \A i \in DOMAIN done[Key(h)] : done[Key(h)][i].known < th[h].known
    PROVE  CommandInv'
<1>0. Key(h) \in Keys /\ kind \in {"goal", "project"} /\ MaxVersion \in Nat
      /\ MaxVersion' = MaxVersion
  BY KeyOfHandler, CommandConstants, Versions DEF CommandInv, TypeOK, RowsOK, MaxVersion
<1>p. PICK x : GoesOnWith(h, x, d.events, before)
  BY DecidedThread
<1>1. /\ ThreadOK(x) /\ Rest(th[h].queue, x) /\ th' = [th EXCEPT ![h] = x]
      /\ x.pc = IF d.events = <<>> THEN "record" ELSE IF hasKey THEN "max" ELSE "key"
      /\ x.queue = th[h].queue /\ x.out = d.events
      /\ x.memory = Applied(kind, before, d.events)
      /\ x.known = th[h].known /\ KnownOK(x)
      /\ x.behind = FALSE => th[h].behind = FALSE /\ room = 0
  BY <1>p DEF GoesOnWith
<1>2. th'[h] = x /\ Key(h)' = Key(h) /\ KnownOK(th[h])'
  <2>1. th'[h] = x
    BY <1>1, Edited DEF CommandInv, TypeOK, ThreadOK
  <2> QED BY <1>1, <2>1 DEF Key, KnownOK
<1>3. DecisionOK(h)'
  <2>1. CASE d.events = <<>>
    BY <1>1, <1>2, <2>1 DEF DecisionOK, Holds
  <2>2. CASE d.events # <<>>
    <3>1. /\ IsSeq(d.events) /\ Len(d.events) = 1 /\ d.events[1].type \in EventTypes(kind)
      BY <2>2, SeqOne DEF Answers
    <3>2. \A i \in 1..Len(d.events) : d.events[i].type \in EventTypes(kind)
      BY <3>1
    <3>3. IsState(x.memory) /\ x.memory.version = before.version + Len(d.events)
      <4>1. /\ IsState(Applied(kind, before, d.events))
            /\ Applied(kind, before, d.events).version = before.version + Len(d.events)
        <5> DEFINE ev == d.events
        <5>1. IsSeq(ev) /\ \A i \in 1..Len(ev) : ev[i].type \in EventTypes(kind)
          BY <3>1, <3>2
        <5> HIDE DEF ev
        <5>2. /\ IsState(Applied(kind, before, ev))
              /\ Applied(kind, before, ev).version = before.version + Len(ev)
          BY <1>0, <5>1, HistoryCounted
        <5> QED BY <5>2 DEF ev
      <4>2. x.memory = Applied(kind, before, d.events)
        BY <1>1
      <4> QED BY <4>1, <4>2
    <3>4. 0 < x.memory.version /\ x.memory.version <= MaxVersion + 1
      BY <1>0, <3>1, <3>3 DEF IsState
    <3>5. x.pc = IF hasKey THEN "max" ELSE "key"
      BY <1>1, <2>2
    <3> QED BY <1>0, <1>1, <1>2, <3>1, <3>3, <3>4, <3>5 DEF DecisionOK, Holds
  <2> QED BY <2>1, <2>2
<1>4. EffectOK(h)'
  <2>1. CASE d.events = <<>>
    BY <1>1, <1>2, <2>1 DEF EffectOK, Holds
  <2>2. CASE d.events # <<>>
    <3>1. x.pc \in {"max", "key"} /\ th'[h].known = th[h].known /\ done' = done
      BY <1>1, <1>2, <2>2
    <3>2. th'[h].known <= MaxVersion'
      BY <1>0, <3>1
    <3>3. th'[h].behind = FALSE =>
              \A i \in DOMAIN done'[Key(h)'] : done'[Key(h)'][i].known < th'[h].known
      BY <1>1, <1>2, <3>1
    <3> QED BY <1>2, <3>1, <3>2, <3>3 DEF EffectOK, Holds
  <2> QED BY <2>1, <2>2
<1>5. /\ idem' \subseteq Keys /\ noops \subseteq noops' /\ noops' \subseteq Keys
      /\ hasKey' \in BOOLEAN /\ (hasKey => hasKey')
      /\ \A k \in idem' \ idem : done[k] # <<>> \/ k \in noops'
  BY <1>0 DEF CommandInv, TypeOK, KeysOK, RowsOK
<1>6. IsState(snap') /\ snap'.version <= MaxVersion
  BY DEF CommandInv, TypeOK
<1> QED BY <1>1, <1>3, <1>4, <1>5, <1>6, CalmStep

LEMMA CommandAnswers ==
    ASSUME CommandInv, NEW h \in Handlers, th[h].pc # "idle", NEW a
    PROVE  /\ Answers(Decide(Cmd(h), a), EventTypes(kind))
           /\ IsCreate(Cmd(h)) /\ Decide(Cmd(h), a).ok => Decide(Cmd(h), a).events # <<>>
<1>1. Cmd(h).type \in CommandTypes(kind) /\ kind \in {"goal", "project"}
  BY KeyOfHandler, CommandConstants DEF CommandInv, TypeOK, RowsOK, KeysOK, Cmd
<1> QED BY <1>1, GoalDecides, ProjectDecides DEF CommandTypes, EventTypes

LEMMA LoadForCreateKeeps ==
    ASSUME CommandInv, NEW h \in Handlers, LoadForCreate(h) PROVE CommandInv'
<1> DEFINE d == Decide(Cmd(h), New(kind))
<1>0. /\ th[h].pc = "load" /\ IsCreate(Cmd(h))
      /\ UNCHANGED <<kind, rows, room, snap, hasKey, idem, cmd, remote, done, noops>>
  BY DEF LoadForCreate
<1>1. /\ idem' \subseteq Keys /\ \A k \in idem' \ idem : done[k] # <<>> \/ k \in noops
  BY <1>0 DEF CommandInv, TypeOK, KeysOK
<1>2. CASE hasKey /\ rows # <<>>
  <2>1. PICK x : /\ ThreadOK(x) /\ Rest(th[h].queue, x) /\ th' = [th EXCEPT ![h] = x]
                 /\ x.pc \in {"idle", "check"} /\ KnownOK(x)
    BY <1>0, <1>2, ReturnThread DEF LoadForCreate
  <2> QED BY <1>0, <1>1, <2>1, QuietStep
<1>3. CASE ~(hasKey /\ rows # <<>>) /\ ~d.ok
  <2>1. th' = [th EXCEPT ![h] = Idle]
    BY <1>3 DEF LoadForCreate, Fail
  <2> QED BY <1>0, <1>1, <2>1, FailThread, QuietStep
<1>4. CASE ~(hasKey /\ rows # <<>>) /\ d.ok
  <2>1. Decided(h, d.events, New(kind))
    BY <1>4 DEF LoadForCreate
  <2>2. Answers(d, EventTypes(kind)) /\ d.events # <<>>
    BY <1>0, <1>4, CommandAnswers
  <2>3. rows = <<>> /\ Len(rows) = 0
    BY <1>4, SeqOne DEF CommandInv, TypeOK, RowsOK
  <2>4. Key(h) \in Keys /\ MaxVersion \in Nat /\ (room = 0 => MaxVersion = 0)
    BY <1>0, <2>3, KeyOfHandler, Versions DEF CommandInv, TypeOK
  <2>5. room = 0 => \A i \in DOMAIN done[Key(h)] : done[Key(h)][i].known < th[h].known
    <3> SUFFICES ASSUME room = 0, NEW i \in DOMAIN done[Key(h)] PROVE FALSE
      OBVIOUS
    <3>1. done[Key(h)] \in Seq([known : Nat, behind : BOOLEAN])
      BY <2>4 DEF CommandInv, TypeOK, KeysOK
    <3>2. done[Key(h)][i].known \in Nat
      BY <3>1, EffectTyped
    <3>3. done[Key(h)][i].known < 0
      BY <2>4 DEF CommandInv, EffectsShow
    <3> QED BY <3>2, <3>3
  <2>6. th[h].known = 0
    BY <1>0 DEF CommandInv, EffectOK, KnownOK, Cmd, Key
  <2>7. th[h].known <= MaxVersion /\ New(kind).version <= MaxVersion
    BY <2>4, <2>6, NewIsState
  <2> HIDE DEF d
  <2> QED BY <1>0, <2>1, <2>2, <2>5, <2>7, NewIsState, DecisionKeeps
<1> QED BY <1>2, <1>3, <1>4

LEMMA ReadThread ==
    ASSUME CommandInv, NEW h \in Handlers, ReadSnapshot(h)
    PROVE  \E x : /\ ThreadOK(x) /\ Rest(th[h].queue, x) /\ th' = [th EXCEPT ![h] = x]
                  /\ x.pc = "rows" /\ x.queue = th[h].queue /\ x.memory = snap
                  /\ x.behind = th[h].behind /\ KnownOK(x)
<1> DEFINE x == [th[h] EXCEPT !.pc = "rows", !.memory = snap]
<1>1. th' = [th EXCEPT ![h] = x] /\ th[h].pc = "load"
  BY DEF ReadSnapshot
<1>2. /\ Shaped(th[h]) /\ th[h].start \in Nat /\ th[h].known \in Nat
      /\ th[h].behind \in BOOLEAN /\ th[h].queue \in Seq(Keys) /\ th[h].queue # <<>>
  BY <1>1 DEF CommandInv, TypeOK, HandlersOK, Shaped
<1>3. /\ Shaped(x) /\ x.pc = "rows" /\ x.queue = th[h].queue /\ x.memory = snap
      /\ x.behind = th[h].behind /\ x.start = th[h].start /\ x.known = th[h].known
  BY <1>2, IdleFields DEF Shaped
<1> HIDE DEF x
<1>4. ThreadOK(x) /\ Rest(th[h].queue, x)
  BY <1>2, <1>3 DEF ThreadOK, Rest, Labels
<1>5. KnownOK(x)
  BY <1>1, <1>3 DEF CommandInv, EffectOK, KnownOK
<1> QED BY <1>1, <1>3, <1>4, <1>5

LEMMA ReadSnapshotKeeps ==
    ASSUME CommandInv, NEW h \in Handlers, ReadSnapshot(h) PROVE CommandInv'
<1>0. UNCHANGED <<kind, rows, room, snap, hasKey, idem, cmd, remote, done, noops>>
  BY DEF ReadSnapshot
<1>1. PICK x : /\ ThreadOK(x) /\ Rest(th[h].queue, x) /\ th' = [th EXCEPT ![h] = x]
               /\ x.pc = "rows" /\ x.queue = th[h].queue /\ x.memory = snap /\ KnownOK(x)
  BY ReadThread
<1>2. th'[h] = x /\ MaxVersion' = MaxVersion
  BY <1>0, <1>1, Edited DEF CommandInv, TypeOK, ThreadOK, MaxVersion
<1>3. DecisionOK(h)'
  BY <1>1, <1>2 DEF DecisionOK, Holds, CommandInv, TypeOK
<1>4. EffectOK(h)'
  BY <1>0, <1>1, <1>2 DEF EffectOK, Holds, KnownOK
<1>5. /\ idem' \subseteq Keys /\ noops \subseteq noops' /\ noops' \subseteq Keys
      /\ hasKey' \in BOOLEAN /\ (hasKey => hasKey')
      /\ \A k \in idem' \ idem : done[k] # <<>> \/ k \in noops'
  BY <1>0 DEF CommandInv, TypeOK, KeysOK, RowsOK
<1>6. IsState(snap') /\ snap'.version <= MaxVersion
  BY <1>0 DEF CommandInv, TypeOK
<1> QED BY <1>0, <1>1, <1>3, <1>4, <1>5, <1>6, CalmStep

LEMMA LoadAndDecideKeeps ==
    ASSUME CommandInv, NEW h \in Handlers, LoadAndDecide(h) PROVE CommandInv'
<1> DEFINE a == Load(th[h].memory)
           d == Decide(Cmd(h), a)
<1>0. /\ th[h].pc = "rows"
      /\ UNCHANGED <<kind, rows, room, snap, hasKey, idem, cmd, remote, done>>
  BY DEF LoadAndDecide
<1>1. CASE MayDecide(a, th[h].known) /\ d.ok /\ hasKey
  <2>1. /\ Decided(h, d.events, a)
        /\ noops' = IF d.events = <<>> THEN noops \cup {Key(h)} ELSE noops
    BY <1>1 DEF LoadAndDecide
  <2>2. Answers(d, EventTypes(kind))
    BY <1>0, CommandAnswers
  <2>3. IsState(a) /\ a.version <= MaxVersion /\ (room = 0 => a.version = Len(rows))
    <3>1. IsState(th[h].memory) /\ th[h].memory.version <= MaxVersion
      BY <1>0 DEF CommandInv, DecisionOK
    <3> QED BY <3>1, LoadCounted DEF CommandInv, TypeOK
  <2>4. Key(h) \in Keys /\ MaxVersion = Len(rows) + room /\ Len(rows) \in Nat
    BY <1>0, KeyOfHandler, Versions DEF CommandInv, TypeOK
  <2>5. th[h].known = a.version
    BY <1>1 DEF MayDecide
  <2>6. room = 0 => \A i \in DOMAIN done[Key(h)] : done[Key(h)][i].known < th[h].known
    <3>1. room = 0 => th[h].known = MaxVersion
      BY <2>3, <2>4, <2>5
    <3> QED BY <2>4, <3>1 DEF CommandInv, EffectsShow
  <2> HIDE DEF d, a
  <2>7. th[h].known <= MaxVersion
    BY <2>3, <2>5
  <2>8. th[h].pc \in {"load", "rows"}
    BY <1>0
  <2> QED BY <1>0, <2>1, <2>2, <2>3, <2>6, <2>7, <2>8, DecisionKeeps
<1>2. CASE ~(MayDecide(a, th[h].known) /\ d.ok /\ hasKey)
  <2>1. th' = [th EXCEPT ![h] = Idle] /\ noops' = noops
    BY <1>2 DEF LoadAndDecide, Fail
  <2>2. /\ idem' \subseteq Keys /\ \A k \in idem' \ idem : done[k] # <<>> \/ k \in noops
    BY <1>0 DEF CommandInv, TypeOK, KeysOK
  <2> QED BY <1>0, <2>1, <2>2, FailThread, QuietStep
<1> QED BY <1>1, <1>2

-----------------------------------------------------------------------------
(* Rows *)

WellFormed(r) ==
    /\ r = [event |-> r.event, pending |-> r.pending]
    /\ r.event.type \in EventTypes(kind)
    /\ r.pending \in BOOLEAN

AllRows(s) == IsSeq(s) /\ \A i \in 1..Len(s) : WellFormed(s[i])

LEMMA RowsAreWellFormed == ASSUME RowsOK PROVE AllRows(rows) /\ Len(rows) \in Nat
  BY SeqDomain DEF RowsOK, AllRows, WellFormed

LEMMA JoinedRows ==
    ASSUME NEW s, NEW t, AllRows(s), AllRows(t)
    PROVE  AllRows(s \o t) /\ Len(s \o t) = Len(s) + Len(t)
<1>1. IsSeq(s) /\ IsSeq(t) /\ Len(s) \in Nat /\ Len(t) \in Nat
  BY SeqDomain DEF AllRows
<1>2. IsSeq(s \o t) /\ Len(s \o t) = Len(s) + Len(t)
  BY <1>1, SeqJoin
<1>3. \A i \in 1..Len(s) : (s \o t)[i] = s[i]
  BY <1>1, SeqJoin
<1>4. \A i \in 1..Len(t) : (s \o t)[Len(s) + i] = t[i]
  BY <1>1, SeqJoin
<1>5. \A i \in 1..Len(s \o t) : WellFormed((s \o t)[i])
  <2> TAKE i \in 1..Len(s \o t)
  <2>1. CASE i \in 1..Len(s)
    BY <1>3, <2>1 DEF AllRows
  <2>2. CASE i \notin 1..Len(s)
    <3>1. i - Len(s) \in 1..Len(t) /\ Len(s) + (i - Len(s)) = i
      BY <1>1, <1>2, <2>2
    <3>2. (s \o t)[i] = t[i - Len(s)]
      BY <1>4, <3>1
    <3> QED BY <3>1, <3>2 DEF AllRows
  <2> QED BY <2>1, <2>2
<1> QED BY <1>2, <1>5 DEF AllRows

LEMMA PartOfRows ==
    ASSUME NEW s, AllRows(s), NEW m \in Nat, NEW n \in Nat, 1 <= m, m <= n + 1, n <= Len(s)
    PROVE  AllRows(SubSeq(s, m, n)) /\ Len(SubSeq(s, m, n)) = n - m + 1
<1>1. IsSeq(s) /\ Len(s) \in Nat
  BY SeqDomain DEF AllRows
<1>2. IsSeq(SubSeq(s, m, n)) /\ Len(SubSeq(s, m, n)) = n - m + 1
  BY <1>1, SeqPart
<1>3. \A i \in 1..(n - m + 1) : SubSeq(s, m, n)[i] = s[m + i - 1]
  BY <1>1, SeqPart
<1>4. \A i \in 1..(n - m + 1) : WellFormed(SubSeq(s, m, n)[i])
  <2> TAKE i \in 1..(n - m + 1)
  <2>1. m + i - 1 \in 1..Len(s)
    BY <1>1
  <2> QED BY <1>3, <2>1 DEF AllRows
<1> QED BY <1>2, <1>4 DEF AllRows

LEMMA OneRow ==
    ASSUME NEW e, e.type \in EventTypes(kind), NEW p \in BOOLEAN
    PROVE  AllRows(<<[event |-> e, pending |-> p]>>) /\ Len(<<[event |-> e, pending |-> p]>>) = 1
<1> DEFINE r == [event |-> e, pending |-> p]
<1>1. WellFormed(r)
  BY DEF WellFormed
<1> HIDE DEF r
<1>2. IsSeq(<<r>>) /\ Len(<<r>>) = 1 /\ <<r>>[1] = r
  BY SeqOne
<1>3. AllRows(<<r>>) /\ Len(<<r>>) = 1
  BY <1>1, <1>2 DEF AllRows
<1> QED BY <1>3 DEF r

\* RowsOK after a step that changed the rows, and perhaps the keys.
LEMMA RowsOKAgain ==
    ASSUME RowsOK, kind' = kind, AllRows(rows'), hasKey' \in BOOLEAN,
           rows' # <<>> \/ room' > 0 => hasKey', remote' \in 0..MaxRemote, room' \in 0..remote'
    PROVE  RowsOK'
<1>1. IsSeq(rows') /\ \A i \in 1..Len(rows') : WellFormed(rows'[i])
  BY DEF AllRows
<1>2. IsSeq(rows)' /\ kind' \in Kinds
  BY <1>1 DEF IsSeq, RowsOK
<1>3. \A i \in 1..Len(rows') :
           /\ rows'[i] = [event |-> rows'[i].event, pending |-> rows'[i].pending]
           /\ rows'[i].event.type \in EventTypes(kind')
           /\ rows'[i].pending \in BOOLEAN
  BY <1>1 DEF WellFormed
<1> QED BY <1>2, <1>3 DEF RowsOK

-----------------------------------------------------------------------------
(* Steps that write rows *)

LEMMA FallsBehind ==
    ASSUME NEW x, Shaped(x), NEW y, y = [x EXCEPT !.behind = TRUE]
    PROVE  /\ Shaped(y) /\ y.pc = x.pc /\ y.queue = x.queue /\ y.out = x.out
           /\ y.memory = x.memory /\ y.start = x.start /\ y.known = x.known
  BY IdleFields DEF Shaped

LEMMA IsBehind ==
    ASSUME NEW x, Shaped(x), NEW y, y = [x EXCEPT !.behind = TRUE] PROVE y.behind = TRUE
  BY IdleFields DEF Shaped

Threads(f) ==
    /\ f = [g \in Handlers |-> [x \in DOMAIN Idle |-> f[g][x]]]
    /\ \A g \in Handlers : f[g].behind \in BOOLEAN

\* The threads are those of f, some of them behind.
SameBut(f, e, pcs) ==
    /\ th' = [g \in Handlers |-> [x \in DOMAIN Idle |-> th'[g][x]]]
    /\ \A g \in Handlers :
           /\ th'[g].pc = f[g].pc /\ th'[g].queue = f[g].queue
           /\ th'[g].out = f[g].out /\ th'[g].memory = f[g].memory
           /\ th'[g].start = f[g].start /\ th'[g].known = f[g].known /\ th'[g].behind \in BOOLEAN
           /\ g # e /\ f[g].pc \in pcs => th'[g].behind = TRUE
           /\ th'[g].behind = FALSE => f[g].behind = FALSE
    /\ \A g \in Handlers : g = e => th'[g] = f[g]

LEMMA Overtaken ==
    ASSUME NEW f, Threads(f), NEW e, NEW pcs, th' = Overtake(f, e, pcs)
    PROVE  SameBut(f, e, pcs)
<1>1. \A g \in Handlers : Shaped(f[g])
  BY DEF Shaped, Threads
<1>2. \A g \in Handlers :
          th'[g] = IF g # e /\ f[g].pc \in pcs THEN [f[g] EXCEPT !.behind = TRUE] ELSE f[g]
  BY DEF Overtake
<1>3. \A g \in Handlers :
          /\ Shaped(th'[g])
          /\ th'[g].pc = f[g].pc /\ th'[g].queue = f[g].queue
          /\ th'[g].out = f[g].out /\ th'[g].memory = f[g].memory
          /\ th'[g].start = f[g].start /\ th'[g].known = f[g].known
  <2> TAKE g \in Handlers
  <2>1. CASE g # e /\ f[g].pc \in pcs
    <3>1. th'[g] = [f[g] EXCEPT !.behind = TRUE]
      BY <1>2, <2>1
    <3>2. Shaped(f[g])
      BY <1>1
    <3> QED BY <3>1, <3>2, FallsBehind
  <2>2. CASE ~(g # e /\ f[g].pc \in pcs)
    <3>1. th'[g] = f[g]
      BY <1>2, <2>2
    <3> QED BY <1>1, <3>1
  <2> QED BY <2>1, <2>2
<1>4. \A g \in Handlers :
          /\ th'[g].behind = TRUE \/ th'[g].behind = f[g].behind
          /\ g # e /\ f[g].pc \in pcs => th'[g].behind = TRUE
  <2> TAKE g \in Handlers
  <2>1. CASE g # e /\ f[g].pc \in pcs
    <3>1. th'[g] = [f[g] EXCEPT !.behind = TRUE]
      BY <1>2, <2>1
    <3>2. th'[g].behind = TRUE
      BY <1>1, <3>1, IsBehind
    <3> QED BY <3>2
  <2>2. CASE ~(g # e /\ f[g].pc \in pcs)
    <3>1. th'[g] = f[g]
      BY <1>2, <2>2
    <3> QED BY <2>2, <3>1
  <2> QED BY <2>1, <2>2
<1>5. \A g \in Handlers : th'[g].behind \in BOOLEAN
  BY <1>4 DEF Threads
<1>6. \A g \in Handlers : th'[g].behind = FALSE => f[g].behind = FALSE
  BY <1>4
<1>7. th' = [g \in Handlers |-> [x \in DOMAIN Idle |-> th'[g][x]]]
  <2>1. DOMAIN th' = Handlers /\ th' = [g \in Handlers |-> th'[g]]
    BY DEF Overtake
  <2> QED BY <2>1, <1>3 DEF Shaped
<1>8. \A g \in Handlers : g = e => th'[g] = f[g]
  BY <1>2
<1> QED BY <1>3, <1>4, <1>5, <1>6, <1>7, <1>8 DEF SameBut

\* HandlersOK and QueuesSent after a step that overtook handlers.
LEMMA OvertakenOK ==
    ASSUME HandlersOK, QueuesSent, cmd' = cmd, NEW f, NEW e, NEW pcs,
           Threads(f),
           \A g \in Handlers :
               /\ f[g].behind \in BOOLEAN /\ f[g].start \in Nat /\ f[g].known \in Nat
               /\ f[g].pc \in Labels
               /\ f[g].queue = th[g].queue /\ (f[g].pc = "idle" <=> th[g].pc = "idle"),
           th' = Overtake(f, e, pcs)
    PROVE  HandlersOK' /\ QueuesSent'
<1>1. /\ th' = [g \in Handlers |-> [x \in DOMAIN Idle |-> th'[g][x]]]
      /\ \A g \in Handlers :
             /\ th'[g].pc = f[g].pc /\ th'[g].queue = f[g].queue
             /\ th'[g].start = f[g].start /\ th'[g].known = f[g].known /\ th'[g].behind \in BOOLEAN
  <2>1. SameBut(f, e, pcs)
    BY Overtaken
  <2> QED BY <2>1 DEF SameBut
<1>2. \A g \in Handlers :
          /\ th'[g].pc \in Labels /\ th'[g].queue \in Seq(Keys)
          /\ th'[g].start \in Nat /\ th'[g].known \in Nat /\ th'[g].behind \in BOOLEAN
  BY <1>1 DEF HandlersOK
<1>3. \A g \in Handlers : th'[g].pc = "idle" <=> th'[g].queue = <<>>
  BY <1>1 DEF HandlersOK
<1>4. DOMAIN Idle' = DOMAIN Idle
  BY DEF Idle, NoSnapshot
<1>5. HandlersOK'
  BY <1>1, <1>2, <1>3, <1>4 DEF HandlersOK, Labels
<1>6. \A g \in Handlers : th'[g].queue = th[g].queue
  BY <1>1
<1>7. QueuesSent'
  <2>3. \A g \in Handlers : \A i \in 1..Len(th'[g].queue) : ~(cmd'[th'[g].queue[i]] = NoCommand)
    BY <1>6 DEF QueuesSent, Fresh
  <2> QED BY <2>3 DEF QueuesSent, Fresh
<1> QED BY <1>5, <1>7

\* What a handler becomes that appended its events.
Inserted(h) == IF kind = "project" THEN [th[h] EXCEPT !.pc = "snapshot"] ELSE Written(h)

LEMMA InsertedThread ==
    ASSUME CommandInv, NEW h \in Handlers, th[h].pc = "append"
    PROVE  /\ ThreadOK(Inserted(h)) /\ Inserted(h).queue = th[h].queue
           /\ Inserted(h).pc \in {"snapshot", "record"} /\ KnownOK(Inserted(h))
           /\ Inserted(h).pc = "snapshot" => /\ Inserted(h).memory = th[h].memory
                                             /\ Inserted(h).behind = th[h].behind
<1>1. CASE kind = "project"
  <2> DEFINE x == [th[h] EXCEPT !.pc = "snapshot"]
  <2>1. /\ Shaped(th[h]) /\ th[h].behind \in BOOLEAN /\ th[h].start \in Nat /\ th[h].known \in Nat
        /\ th[h].queue \in Seq(Keys) /\ th[h].queue # <<>>
    BY DEF CommandInv, TypeOK, HandlersOK, Shaped
  <2>2. /\ Shaped(x) /\ x.pc = "snapshot" /\ x.queue = th[h].queue
        /\ x.memory = th[h].memory /\ x.behind = th[h].behind /\ x.start = th[h].start
        /\ x.known = th[h].known
    BY <2>1, IdleFields DEF Shaped
  <2> HIDE DEF x
  <2>3. ThreadOK(x)
    BY <2>1, <2>2 DEF ThreadOK, Labels
  <2>4. Inserted(h) = x
    BY <1>1 DEF Inserted, x
  <2>5. KnownOK(x)
    BY <2>2 DEF CommandInv, EffectOK, KnownOK
  <2> QED BY <2>2, <2>3, <2>4, <2>5
<1>2. CASE kind # "project"
  <2>1. Inserted(h) = Written(h)
    BY <1>2 DEF Inserted
  <2> QED BY <2>1, WrittenThread
<1> QED BY <1>1, <1>2

LEMMA InsertRows ==
    ASSUME CommandInv, NEW h \in Handlers, Insert(h)
    PROVE  /\ rows' = rows \o <<[event |-> th[h].out[1], pending |-> TRUE]>>
           /\ AllRows(rows') /\ Len(rows') = Len(rows) + 1 /\ Len(rows) \in Nat
<1>1. th[h].pc = "append" /\ DecisionOK(h)
  BY DEF Insert, CommandInv
<1>2. Len(th[h].out) = 1 /\ th[h].out[1].type \in EventTypes(kind)
  BY <1>1 DEF DecisionOK, Holds
<1> DEFINE r == [event |-> th[h].out[1], pending |-> TRUE]
           t == [i \in 1..1 |-> [event |-> th[h].out[i], pending |-> TRUE]]
<1>3. rows' = rows \o t
  BY <1>2 DEF Insert
<1>4. t = <<r>>
  <2>1. t = [i \in 1..1 |-> r]
    OBVIOUS
  <2> HIDE DEF t, r
  <2> QED BY <2>1
<1>5. AllRows(<<r>>) /\ Len(<<r>>) = 1
  BY <1>2, OneRow
<1> HIDE DEF t, r
<1>6. AllRows(rows) /\ Len(rows) \in Nat
  BY RowsAreWellFormed DEF CommandInv, TypeOK
<1>7. AllRows(rows') /\ Len(rows') = Len(rows) + 1
  BY <1>3, <1>4, <1>5, <1>6, JoinedRows
<1> QED BY <1>3, <1>4, <1>6, <1>7 DEF r

LEMMA DoneGrows ==
    ASSUME NEW R, NEW s \in Seq(R), NEW r \in R
    PROVE  /\ Len(s) \in Nat /\ DOMAIN s = 1..Len(s)
           /\ DOMAIN Append(s, r) = 1..(Len(s) + 1) /\ Append(s, r) # <<>>
           /\ \A i \in 1..Len(s) : Append(s, r)[i] = s[i]
           /\ Append(s, r)[Len(s) + 1] = r
<1>1. Append(s, r) \in Seq(R) /\ Len(Append(s, r)) = Len(s) + 1 /\ Len(s) \in Nat
  OBVIOUS
<1>2. /\ \A i \in 1..Len(s) : Append(s, r)[i] = s[i]
      /\ Append(s, r)[Len(s) + 1] = r
  OBVIOUS
<1>3. Append(s, r) # <<>>
  BY <1>1, SeqOne
<1> QED BY <1>1, <1>2, <1>3

LEMMA InsertKeeps ==
    ASSUME CommandInv, NEW h \in Handlers, Insert(h) PROVE CommandInv'
<1> DEFINE f == [th EXCEPT ![h] = Inserted(h)]
           r == [known |-> th[h].known, behind |-> th[h].behind]
<1>0. /\ th[h].pc = "append" /\ th' = Overtake(f, h, Late)
      /\ done' = [done EXCEPT ![Key(h)] = Append(@, r)]
      /\ UNCHANGED <<kind, room, snap, hasKey, idem, cmd, remote, noops>>
  BY DEF Insert, Inserted
<1>1. /\ ThreadOK(Inserted(h)) /\ Inserted(h).queue = th[h].queue
      /\ Inserted(h).pc \in {"snapshot", "record"} /\ KnownOK(Inserted(h))
      /\ Inserted(h).pc = "snapshot" => Inserted(h).memory = th[h].memory
  BY <1>0, InsertedThread
<1>2. AllRows(rows') /\ Len(rows') = Len(rows) + 1 /\ Len(rows) \in Nat
  BY InsertRows
<1>3. DecisionOK(h) /\ EffectOK(h) /\ Holds(h)
  BY <1>0 DEF CommandInv, Holds
<1>4. /\ Key(h) \in Keys /\ ~Fresh(Key(h)) /\ r \in [known : Nat, behind : BOOLEAN]
      /\ r.known = th[h].known /\ r.behind = th[h].behind /\ r.known <= MaxVersion
  <2>1. th[h].known \in Nat /\ th[h].behind \in BOOLEAN /\ th[h].known <= MaxVersion
    BY <1>3 DEF EffectOK, CommandInv, TypeOK, HandlersOK
  <2>2. Key(h) \in Keys /\ ~Fresh(Key(h))
    BY <1>0, KeyOfHandler DEF CommandInv, TypeOK
  <2> QED BY <2>1, <2>2
<1> HIDE DEF r
<1>v. MaxVersion \in Nat /\ MaxVersion' = MaxVersion + 1
  BY <1>0, <1>2, Versions DEF CommandInv, TypeOK, MaxVersion
<1>5. /\ DOMAIN f = Handlers /\ f[h] = Inserted(h)
      /\ \A g \in Handlers : g # h => f[g] = th[g]
  BY DEF CommandInv, TypeOK, HandlersOK
<1> HIDE DEF f
<1>6. f = [g \in Handlers |-> [x \in DOMAIN Idle |-> f[g][x]]]
  <2>1. \A g \in Handlers : f[g] = [x \in DOMAIN Idle |-> f[g][x]]
    BY <1>1, <1>5 DEF CommandInv, TypeOK, HandlersOK, ThreadOK, Shaped
  <2>2. f = [g \in Handlers |-> f[g]]
    BY <1>5 DEF f, CommandInv, TypeOK, HandlersOK
  <2> QED BY <2>1, <2>2
<1>7. \A g \in Handlers :
          /\ f[g].behind \in BOOLEAN /\ f[g].start \in Nat /\ f[g].known \in Nat
          /\ f[g].pc \in Labels
          /\ f[g].queue = th[g].queue /\ (f[g].pc = "idle" <=> th[g].pc = "idle")
  BY <1>0, <1>1, <1>5 DEF CommandInv, TypeOK, HandlersOK, ThreadOK, Labels
<1>8. HandlersOK' /\ QueuesSent'
  <2>1. Threads(f)
    BY <1>6, <1>7 DEF Threads
  <2> QED BY <1>0, <1>7, <2>1, OvertakenOK DEF CommandInv, TypeOK
<1>9. /\ \A g \in Handlers :
             /\ th'[g].pc = f[g].pc /\ th'[g].queue = f[g].queue
             /\ th'[g].out = f[g].out /\ th'[g].memory = f[g].memory
             /\ th'[g].known = f[g].known
             /\ g # h /\ f[g].pc \in Late => th'[g].behind = TRUE
      /\ th'[h] = f[h]
  <2>1. Threads(f)
    BY <1>6, <1>7 DEF Threads
  <2>2. SameBut(f, h, Late)
    BY <1>0, <2>1, Overtaken
  <2> QED BY <2>2 DEF SameBut
<1>10. RowsOK'
  <2>1. hasKey
    BY <1>0, <1>3 DEF DecisionOK
  <2> QED BY <1>0, <1>2, <2>1, RowsOKAgain DEF CommandInv, TypeOK, RowsOK
<1>11. /\ done' \in [Keys -> Seq([known : Nat, behind : BOOLEAN])]
       /\ done'[Key(h)] = Append(done[Key(h)], r)
       /\ \A k \in Keys : k # Key(h) => done'[k] = done[k]
       /\ \A k \in Keys : done[k] \in Seq([known : Nat, behind : BOOLEAN])
  BY <1>0, <1>4 DEF CommandInv, TypeOK, KeysOK
<1>d. /\ done[Key(h)] \in Seq([known : Nat, behind : BOOLEAN])
      /\ Len(done[Key(h)]) \in Nat /\ DOMAIN done[Key(h)] = 1..Len(done[Key(h)])
      /\ DOMAIN done'[Key(h)] = 1..(Len(done[Key(h)]) + 1)
      /\ \A i \in 1..Len(done[Key(h)]) : done'[Key(h)][i] = done[Key(h)][i]
      /\ done'[Key(h)][Len(done[Key(h)]) + 1] = r
      /\ done'[Key(h)] # <<>>
  <2>1. done[Key(h)] \in Seq([known : Nat, behind : BOOLEAN])
    BY <1>4, <1>11
  <2> QED BY <1>4, <1>11, <2>1, DoneGrows
<1>12. KeysOK'
  BY <1>0, <1>11 DEF CommandInv, TypeOK, KeysOK, Fresh
<1>13. EffectsShow'
  <2> SUFFICES ASSUME NEW k \in Keys, NEW i \in DOMAIN done'[k]
               PROVE  done'[k][i].known < MaxVersion'
    BY DEF EffectsShow
  <2>1. CASE k = Key(h) /\ i = Len(done[k]) + 1
    BY <1>v, <1>4, <1>d, <2>1
  <2>2. CASE k # Key(h) \/ i # Len(done[k]) + 1
    <3>1. i \in DOMAIN done[k] /\ done'[k][i] = done[k][i]
      <4>1. CASE k # Key(h)
        BY <1>11, <4>1
      <4>2. CASE k = Key(h)
        <5>1. i \in 1..(Len(done[Key(h)]) + 1) /\ i # Len(done[Key(h)]) + 1
          BY <1>d, <2>2, <4>2
        <5>2. i \in 1..Len(done[Key(h)])
          BY <1>d, <5>1
        <5> QED BY <1>d, <4>2, <5>2
      <4> QED BY <4>1, <4>2
    <3>2. done[k][i].known < MaxVersion
      BY <3>1 DEF CommandInv, EffectsShow
    <3>3. done[k][i].known \in Nat
      BY <1>11, <3>1, EffectTyped
    <3> QED BY <1>v, <3>1, <3>2, <3>3
  <2> QED BY <2>1, <2>2
<1>14. ExactlyOnce'
  <2>1. OncePerKey'
    <3> SUFFICES ASSUME NEW k \in Keys, NEW i \in DOMAIN done'[k], NEW j \in DOMAIN done'[k],
                        i < j, ~done'[k][j].behind
                 PROVE  done'[k][i].known < done'[k][j].known
      BY DEF OncePerKey
    <3>1. CASE k # Key(h)
      <4>1. done'[k] = done[k]
        BY <1>11, <3>1
      <4> QED BY <4>1 DEF CommandInv, ExactlyOnce, OncePerKey
    <3>2. CASE k = Key(h) /\ j # Len(done[k]) + 1
      <4>1. /\ i \in DOMAIN done[k] /\ done'[k][i] = done[k][i]
            /\ j \in DOMAIN done[k] /\ done'[k][j] = done[k][j]
        <5>1. /\ i \in 1..(Len(done[Key(h)]) + 1) /\ j \in 1..(Len(done[Key(h)]) + 1)
              /\ j # Len(done[Key(h)]) + 1
          BY <1>d, <3>2
        <5>2. i \in 1..Len(done[Key(h)]) /\ j \in 1..Len(done[Key(h)])
          BY <1>d, <5>1
        <5> QED BY <1>d, <3>2, <5>2
      <4> QED BY <4>1 DEF CommandInv, ExactlyOnce, OncePerKey
    <3>3. CASE k = Key(h) /\ j = Len(done[k]) + 1
      <4>1. i \in DOMAIN done[k] /\ done'[k][i] = done[k][i] /\ done'[k][j] = r
        BY <1>d, <3>3
      <4>2. th[h].behind = FALSE
        <5>1. ~th[h].behind
          BY <1>4, <4>1
        <5>2. th[h].behind \in BOOLEAN
          BY DEF CommandInv, TypeOK, HandlersOK
        <5> QED BY <5>1, <5>2
      <4>3. done[k][i].known < th[h].known
        BY <1>3, <3>3, <4>1, <4>2 DEF EffectOK
      <4> QED BY <1>4, <4>1, <4>3
    <3> QED BY <3>1, <3>2, <3>3
  <2>2. RecordedIsDone'
    <3>1. \A k \in Keys : done[k] # <<>> => done'[k] # <<>>
      BY <1>11, <1>d
    <3> QED BY <1>0, <3>1 DEF CommandInv, TypeOK, KeysOK, ExactlyOnce, RecordedIsDone
  <2> QED BY <2>1, <2>2 DEF ExactlyOnce
<1>15. \A g \in Handlers : DecisionOK(g)' /\ EffectOK(g)'
  <2> TAKE g \in Handlers
  <2>1. CASE g = h
    <3>1. th'[h] = Inserted(h) /\ Key(h)' = Key(h)
      BY <1>1, <1>5, <1>9 DEF Key
    <3>2. DecisionOK(h)'
      BY <1>v, <1>1, <1>3, <3>1 DEF DecisionOK, Holds
    <3>3. EffectOK(h)'
      BY <1>0, <1>1, <1>d, <3>1 DEF EffectOK, Holds, KnownOK
    <3> QED BY <2>1, <3>2, <3>3
  <2>2. CASE g # h
    <3>1. /\ th'[g].pc = th[g].pc /\ th'[g].queue = th[g].queue
          /\ th'[g].out = th[g].out /\ th'[g].memory = th[g].memory
          /\ th'[g].known = th[g].known
      BY <1>5, <1>9, <2>2
    <3>2. th[g].pc # "idle" /\ done[Key(g)] # <<>> => done'[Key(g)] # <<>>
      <4>1. th[g].pc # "idle" => Key(g) \in Keys
        BY KeyOfHandler DEF CommandInv, TypeOK
      <4> QED BY <1>11, <1>d, <4>1
    <3>3. Holds(g) => th'[g].behind = TRUE
      BY <1>5, <1>9, <2>2 DEF Holds, Late
    <3>4. Holds(g) /\ th'[g].behind = FALSE =>
              th[g].behind = FALSE /\ done'[Key(g)] = done[Key(g)]
      BY <3>3
    <3>5. MaxVersion' \in Nat /\ MaxVersion <= MaxVersion'
      BY <1>v
    <3> QED BY <1>0, <3>1, <3>2, <3>4, <3>5, OthersGoOn
  <2> QED BY <2>1, <2>2
<1>16. IsState(snap') /\ snap'.version <= MaxVersion'
  BY <1>0, <1>v DEF CommandInv, TypeOK, IsState
<1> QED BY <1>8, <1>10, <1>12, <1>13, <1>14, <1>15, <1>16 DEF CommandInv, TypeOK

\* The handlers are as they were, some of them behind.
NoneGotOn ==
    \A g \in Handlers :
        /\ th'[g].pc = th[g].pc /\ th'[g].queue = th[g].queue
        /\ th'[g].out = th[g].out /\ th'[g].memory = th[g].memory
        /\ th'[g].known = th[g].known
        /\ th'[g].behind = FALSE => th[g].behind = FALSE

\* A step of the sync engine: no handler gets on, and no version is lost.
LEMMA SyncStep ==
    ASSUME CommandInv, AllRows(rows'), MaxVersion' \in Nat, MaxVersion <= MaxVersion', hasKey,
           UNCHANGED <<kind, hasKey, idem, cmd, done, noops>>,
           remote' \in 0..MaxRemote, room' \in 0..remote',
           IsState(snap'), snap'.version <= MaxVersion',
           HandlersOK', QueuesSent', NoneGotOn
    PROVE  CommandInv'
<1>0. MaxVersion \in Nat /\ done \in [Keys -> Seq([known : Nat, behind : BOOLEAN])]
  BY Versions DEF CommandInv, TypeOK, KeysOK
<1>1. RowsOK'
  BY RowsOKAgain DEF CommandInv, TypeOK, RowsOK
<1>2. KeysOK' /\ ExactlyOnce'
  BY DEF CommandInv, TypeOK, KeysOK, Fresh, ExactlyOnce, OncePerKey, RecordedIsDone
<1>3. EffectsShow'
  <2> SUFFICES ASSUME NEW k \in Keys, NEW i \in DOMAIN done[k]
               PROVE  done[k][i].known < MaxVersion'
    BY DEF EffectsShow
  <2>1. done[k][i].known < MaxVersion
    BY DEF CommandInv, EffectsShow
  <2>2. done[k][i].known \in Nat
    BY <1>0, EffectTyped
  <2> QED BY <1>0, <2>1, <2>2
<1>4. \A g \in Handlers : DecisionOK(g)' /\ EffectOK(g)'
  <2> TAKE g \in Handlers
  <2>1. /\ th'[g].pc = th[g].pc /\ th'[g].queue = th[g].queue
        /\ th'[g].out = th[g].out /\ th'[g].memory = th[g].memory
        /\ th'[g].known = th[g].known
        /\ th'[g].behind = FALSE => th[g].behind = FALSE
    BY DEF NoneGotOn
  <2> QED BY <1>0, <2>1, OthersGoOn
<1> QED BY <1>1, <1>2, <1>3, <1>4 DEF CommandInv, TypeOK

LEMMA ThreadsOfHandlers ==
    ASSUME HandlersOK
    PROVE  /\ Threads(th)
           /\ \A g \in Handlers :
                  /\ th[g].behind \in BOOLEAN /\ th[g].start \in Nat /\ th[g].known \in Nat
                  /\ th[g].pc \in Labels
  BY DEF HandlersOK, Threads, Labels

\* Handlers that are only overtaken.
LEMMA OnlyOvertaken ==
    ASSUME CommandInv, cmd' = cmd, NEW pcs, th' = Overtake(th, None, pcs)
    PROVE  /\ HandlersOK' /\ QueuesSent' /\ NoneGotOn
           /\ \A g \in Handlers : th[g].pc \in pcs => th'[g].behind = TRUE
<1>1. Threads(th)
  BY ThreadsOfHandlers DEF CommandInv, TypeOK
<1>2. HandlersOK' /\ QueuesSent'
  <2>1. \A g \in Handlers :
            /\ th[g].behind \in BOOLEAN /\ th[g].start \in Nat /\ th[g].known \in Nat
            /\ th[g].pc \in Labels
            /\ th[g].queue = th[g].queue /\ (th[g].pc = "idle" <=> th[g].pc = "idle")
    BY ThreadsOfHandlers DEF CommandInv, TypeOK
  <2> QED BY <1>1, <2>1, OvertakenOK DEF CommandInv, TypeOK
<1>3. SameBut(th, None, pcs)
  BY <1>1, Overtaken
<1>4. None \notin Handlers
  BY CommandConstants
<1> QED BY <1>2, <1>3, <1>4 DEF SameBut, NoneGotOn

\* There is a row, so there is a key.
LEMMA RowsHaveKey ==
    ASSUME CommandInv, Len(rows) > 0 PROVE hasKey
<1>1. rows # <<>>
  BY SeqOne
<1> QED BY <1>1 DEF CommandInv, TypeOK, RowsOK

LEMMA MakeRoomKeeps == ASSUME CommandInv, MakeRoom PROVE CommandInv'
<1>0. /\ Synced > 0 /\ remote < MaxRemote /\ room' = room + 1 /\ remote' = remote + 1
      /\ snap' = NoSnapshot /\ th' = Overtake(th, None, Late \cup {"rows"})
      /\ UNCHANGED <<kind, rows, hasKey, idem, cmd, done, noops>>
  BY DEF MakeRoom
<1>1. /\ Len(rows) \in Nat /\ room \in Nat /\ remote \in Nat /\ MaxVersion = Len(rows) + room
      /\ room <= remote /\ MaxRemote \in Nat
  BY Versions, CommandConstants DEF CommandInv, TypeOK, RowsOK
<1>2. AllRows(rows') /\ MaxVersion' = MaxVersion + 1
  BY <1>0, <1>1, RowsAreWellFormed DEF CommandInv, TypeOK, MaxVersion, AllRows, WellFormed, IsSeq
<1>3. hasKey
  BY <1>0, <1>1, SyncedRows, RowsHaveKey DEF CommandInv, TypeOK
<1>4. remote' \in 0..MaxRemote /\ room' \in 0..remote'
  BY <1>0, <1>1
<1>5. IsState(snap') /\ snap'.version <= MaxVersion'
  BY <1>0, <1>1, <1>2 DEF NoSnapshot, IsState
<1>6. HandlersOK' /\ QueuesSent' /\ NoneGotOn
  BY <1>0, OnlyOvertaken
<1>7. MaxVersion' \in Nat /\ MaxVersion <= MaxVersion'
  BY <1>1, <1>2
<1> QED BY <1>0, <1>2, <1>3, <1>4, <1>5, <1>6, <1>7, SyncStep

\* Rows made of events of the aggregate.
LEMMA RowsOfEvents ==
    ASSUME NEW n \in Nat, NEW es, NEW p \in BOOLEAN,
           \A i \in 1..n : es[i].type \in EventTypes(kind)
    PROVE  LET s == [i \in 1..n |-> [event |-> es[i], pending |-> p]]
           IN  AllRows(s) /\ Len(s) = n
<1> DEFINE r(i) == [event |-> es[i], pending |-> p]
           s == [i \in 1..n |-> r(i)]
<1>1. \A i \in 1..n : WellFormed(r(i))
  BY DEF WellFormed
<1> HIDE DEF r
<1>2. IsSeq(s) /\ Len(s) = n /\ \A i \in 1..n : s[i] = r(i)
  BY DEF IsSeq
<1>3. AllRows(s)
  BY <1>1, <1>2 DEF AllRows
<1> QED BY <1>2, <1>3 DEF r

LEMMA RemoteTyped ==
    ASSUME RowsOK PROVE \A e \in Remote[kind] : e.type \in EventTypes(kind)
  BY CommandConstants DEF RowsOK

\* The rows with remote events behind the synchronised ones.
LEMMA FillRoomRows ==
    ASSUME RowsOK, NEW es \in [1..room -> Remote[kind]], FillRoom(es)
    PROVE  AllRows(rows') /\ Len(rows') = Len(rows) + room
<1> DEFINE n == Synced
           u == SubSeq(rows, 1, n)
           v == SubSeq(rows, n + 1, Len(rows))
           r == [i \in 1..room |-> [event |-> es[i], pending |-> FALSE]]
<1>0. /\ AllRows(rows) /\ Len(rows) \in Nat /\ n \in Nat /\ n <= Len(rows) /\ n + 1 \in Nat
      /\ room \in Nat
  BY RowsAreWellFormed, SyncedRows, Versions
<1>1. rows' = u \o r \o v
  BY DEF FillRoom
<1>2. AllRows(r) /\ Len(r) = room
  <2>1. \A i \in 1..room : es[i].type \in EventTypes(kind)
    BY RemoteTyped
  <2> QED BY <1>0, <2>1, RowsOfEvents
<1> HIDE DEF n
<1>3. AllRows(u) /\ Len(u) = n
  BY <1>0, PartOfRows
<1>4. AllRows(v) /\ Len(v) = Len(rows) - n
  BY <1>0, PartOfRows
<1> HIDE DEF u, v, r
<1>5. AllRows(u \o r) /\ Len(u \o r) = n + room
  BY <1>0, <1>2, <1>3, JoinedRows
<1>6. AllRows((u \o r) \o v) /\ Len((u \o r) \o v) = Len(u \o r) + Len(v)
  BY <1>4, <1>5, JoinedRows
<1> QED BY <1>0, <1>1, <1>4, <1>5, <1>6

LEMMA FillRoomKeeps ==
    ASSUME CommandInv, NEW es \in [1..room -> Remote[kind]], FillRoom(es) PROVE CommandInv'
<1>0. /\ room > 0 /\ room' = 0 /\ th' = Overtake(th, None, Late)
      /\ UNCHANGED <<kind, snap, hasKey, idem, cmd, remote, done, noops>>
  BY DEF FillRoom
<1>1. /\ Len(rows) \in Nat /\ room \in Nat /\ remote \in Nat /\ MaxVersion = Len(rows) + room
  BY Versions DEF CommandInv, TypeOK, RowsOK
<1>2. AllRows(rows') /\ Len(rows') = Len(rows) + room
  BY FillRoomRows DEF CommandInv, TypeOK
<1>3. MaxVersion' = MaxVersion
  BY <1>0, <1>1, <1>2 DEF MaxVersion
<1>4. remote' \in 0..MaxRemote /\ room' \in 0..remote'
  BY <1>0, <1>1 DEF CommandInv, TypeOK, RowsOK
<1>5. IsState(snap') /\ snap'.version <= MaxVersion'
  BY <1>0, <1>3 DEF CommandInv, TypeOK
<1>6. HandlersOK' /\ QueuesSent' /\ NoneGotOn
  BY <1>0, OnlyOvertaken
<1>7. MaxVersion' \in Nat /\ MaxVersion <= MaxVersion'
  BY <1>1, <1>3
<1>8. hasKey
  BY <1>0 DEF CommandInv, TypeOK, RowsOK
<1> QED BY <1>0, <1>2, <1>4, <1>5, <1>6, <1>7, <1>8, SyncStep

LEMMA RemoteEventKeeps ==
    ASSUME CommandInv, NEW e \in Remote[kind], RemoteEvent(e) PROVE CommandInv'
<1>0. /\ rows # <<>> /\ remote < MaxRemote /\ remote' = remote + 1
      /\ rows' = Append(rows, [event |-> e, pending |-> FALSE])
      /\ th' = Overtake(th, None, Late)
      /\ UNCHANGED <<kind, room, snap, hasKey, idem, cmd, done, noops>>
  BY DEF RemoteEvent
<1>1. /\ Len(rows) \in Nat /\ room \in Nat /\ remote \in Nat /\ MaxVersion = Len(rows) + room
      /\ room <= remote /\ MaxRemote \in Nat
  BY Versions, CommandConstants DEF CommandInv, TypeOK, RowsOK
<1>2. AllRows(rows') /\ Len(rows') = Len(rows) + 1
  <2> DEFINE r == <<[event |-> e, pending |-> FALSE]>>
  <2>1. rows' = rows \o r
    <3>1. IsSeq(rows)
      BY DEF CommandInv, TypeOK, RowsOK
    <3> QED BY <1>0, <3>1, AppendJoins
  <2>2. AllRows(r) /\ Len(r) = 1
    BY RemoteTyped, OneRow DEF CommandInv, TypeOK
  <2> HIDE DEF r
  <2>3. AllRows(rows)
    BY RowsAreWellFormed DEF CommandInv, TypeOK
  <2> QED BY <2>1, <2>2, <2>3, JoinedRows
<1>3. MaxVersion' = MaxVersion + 1
  BY <1>0, <1>1, <1>2 DEF MaxVersion
<1>4. remote' \in 0..MaxRemote /\ room' \in 0..remote'
  BY <1>0, <1>1
<1>5. IsState(snap') /\ snap'.version <= MaxVersion'
  BY <1>0, <1>1, <1>3 DEF CommandInv, TypeOK, IsState
<1>6. HandlersOK' /\ QueuesSent' /\ NoneGotOn
  BY <1>0, OnlyOvertaken
<1>7. MaxVersion' \in Nat /\ MaxVersion <= MaxVersion'
  BY <1>1, <1>3
<1>8. hasKey
  BY <1>0 DEF CommandInv, TypeOK, RowsOK
<1> QED BY <1>0, <1>2, <1>4, <1>5, <1>6, <1>7, <1>8, SyncStep

\* A push changes no event.
LEMMA PushedRows ==
    ASSUME RowsOK, Pushed
    PROVE  /\ AllRows(rows') /\ Len(rows') = Len(rows)
           /\ \A i \in 1..Len(rows) : rows'[i].event = rows[i].event
<1>0. AllRows(rows) /\ Len(rows) \in Nat /\ Synced \in Nat
  BY RowsAreWellFormed, SyncedRows
<1> DEFINE n == Synced + 1
<1>1. n \in Nat /\ rows' = [rows EXCEPT ![n].pending = FALSE]
  BY <1>0 DEF Pushed
<1> HIDE DEF n
<1>2. DOMAIN rows = 1..Len(rows) /\ rows \in Seq({rows[i] : i \in DOMAIN rows})
  BY <1>0, SeqDomain DEF AllRows, IsSeq
<1>3. \A i \in 1..Len(rows) :
          rows'[i] = IF i = n THEN [rows[i] EXCEPT !.pending = FALSE] ELSE rows[i]
  BY <1>1, <1>2
<1>4. \A i \in 1..Len(rows) : WellFormed(rows'[i]) /\ rows'[i].event = rows[i].event
  <2> TAKE i \in 1..Len(rows)
  <2>1. WellFormed(rows[i])
    BY <1>0 DEF AllRows
  <2>2. CASE i = n
    <3>1. rows'[i] = [event |-> rows[i].event, pending |-> FALSE]
      BY <1>3, <2>1, <2>2 DEF WellFormed
    <3> QED BY <2>1, <3>1 DEF WellFormed
  <2>3. CASE i # n
    BY <1>3, <2>1, <2>3
  <2> QED BY <2>2, <2>3
<1>5. IsSeq(rows') /\ Len(rows') = Len(rows)
  <2>1. DOMAIN rows' = 1..Len(rows) /\ rows' = [i \in 1..Len(rows) |-> rows'[i]]
    BY <1>1, <1>2
  <2> QED BY <1>0, <2>1 DEF IsSeq
<1> QED BY <1>4, <1>5 DEF AllRows

LEMMA PushedKeeps == ASSUME CommandInv, Pushed PROVE CommandInv'
<1>0. UNCHANGED <<kind, room, snap, hasKey, idem, cmd, th, remote, done, noops>>
  BY DEF Pushed
<1>1. AllRows(rows') /\ Len(rows') = Len(rows) /\ Len(rows) \in Nat
  BY PushedRows, RowsAreWellFormed DEF CommandInv, TypeOK
<1>v. MaxVersion' = MaxVersion /\ MaxVersion \in Nat
  BY <1>0, <1>1, Versions DEF CommandInv, TypeOK, MaxVersion
<1>2. hasKey
  <2>1. Pending # {} /\ \A i \in Pending : i \in 1..Len(rows)
    BY DEF Pushed, Pending
  <2>2. rows # <<>>
    BY <1>1, <2>1, SeqOne
  <2> QED BY <2>2 DEF CommandInv, TypeOK, RowsOK
<1>3. /\ remote' \in 0..MaxRemote /\ room' \in 0..remote'
      /\ IsState(snap') /\ snap'.version <= MaxVersion'
  BY <1>0, <1>v DEF CommandInv, TypeOK, RowsOK
<1>4. HandlersOK' /\ QueuesSent'
  BY <1>0 DEF CommandInv, TypeOK, HandlersOK, QueuesSent, Fresh, Idle, NoSnapshot
<1>5. NoneGotOn
  BY <1>0 DEF NoneGotOn
<1>6. MaxVersion' \in Nat /\ MaxVersion <= MaxVersion'
  BY <1>v
<1> QED BY <1>0, <1>1, <1>2, <1>3, <1>4, <1>5, <1>6, SyncStep

-----------------------------------------------------------------------------
(* Commands are sent *)

\* An idle handler starts; commands that were sent before stay as they are.
LEMMA StartKeeps ==
    ASSUME CommandInv, NEW h \in Handlers, th[h].pc = "idle",
           NEW ks \in Seq(Keys), ks # <<>>, NEW v \in Nat, Start(h, ks, v), KeysOK',
           UNCHANGED <<kind, rows, room, snap, hasKey, idem, remote, done, noops>>,
           \A k \in Keys : ~Fresh(k) => cmd'[k] = cmd[k],
           \A i \in 1..Len(ks) : cmd'[ks[i]] # NoCommand,
           IsCreate(cmd'[ks[1]]) => v = 0
    PROVE  CommandInv'
<1> DEFINE x == Begun(ks, v)
<1>1. th' = [th EXCEPT ![h] = x]
  BY DEF Start
<1>2. ThreadOK(x) /\ x.pc = "check" /\ x.queue = ks /\ x.known = v
  BY BegunThread
<1> HIDE DEF x
<1>3. /\ th' = [g \in Handlers |-> [f \in DOMAIN Idle |-> th'[g][f]]]
      /\ th'[h] = x
      /\ \A g \in Handlers : g # h => th'[g] = th[g]
  BY <1>1, <1>2, Edited DEF CommandInv, TypeOK, ThreadOK
<1>4. HandlersOK'
  <2>1. \A g \in Handlers :
           /\ th'[g].pc \in Labels
           /\ th'[g].queue \in Seq(Keys)
           /\ th'[g].pc = "idle" <=> th'[g].queue = <<>>
           /\ th'[g].known \in Nat /\ th'[g].start \in Nat /\ th'[g].behind \in BOOLEAN
    <3> TAKE g \in Handlers
    <3>1. CASE g = h
      BY <1>2, <1>3, <3>1 DEF ThreadOK
    <3>2. CASE g # h
      BY <1>3, <3>2 DEF CommandInv, TypeOK, HandlersOK, Labels
    <3> QED BY <3>1, <3>2
  <2>2. DOMAIN Idle' = DOMAIN Idle
    BY DEF Idle, NoSnapshot
  <2> QED BY <1>3, <2>1, <2>2 DEF HandlersOK, Labels
<1>5. \A g \in Handlers : th[g].queue \in Seq(Keys)
  BY DEF CommandInv, TypeOK, HandlersOK
<1>6. \A k \in Keys : ~(cmd[k] = NoCommand) => ~(cmd'[k] = NoCommand)
  BY DEF Fresh
<1>7. QueuesSent'
  <2>3. \A g \in Handlers : \A i \in 1..Len(th'[g].queue) : ~(cmd'[th'[g].queue[i]] = NoCommand)
    <3> TAKE g \in Handlers
    <3> TAKE i \in 1..Len(th'[g].queue)
    <3>1. CASE g = h
      BY <1>2, <1>3, <3>1
    <3>2. CASE g # h
      <4>1. th'[g] = th[g] /\ i \in 1..Len(th[g].queue) /\ th[g].queue[i] \in Keys
        BY <1>3, <1>5, <3>2
      <4>2. ~(cmd[th[g].queue[i]] = NoCommand)
        BY <4>1 DEF CommandInv, QueuesSent, Fresh
      <4> QED BY <1>6, <4>1, <4>2
    <3> QED BY <3>1, <3>2
  <2> QED BY <2>3 DEF QueuesSent, Fresh
<1>8. /\ RowsOK' /\ ExactlyOnce' /\ EffectsShow' /\ IsState(snap') /\ snap'.version <= MaxVersion'
  BY DEF CommandInv, TypeOK, RowsOK, ExactlyOnce, OncePerKey, RecordedIsDone, EffectsShow,
         MaxVersion
<1>10. \A g \in Handlers : DecisionOK(g)' /\ EffectOK(g)'
  <2> TAKE g \in Handlers
  <2>1. CASE g = h
    <3>1. Head(ks) = ks[1]
      OBVIOUS
    <3>2. KnownOK(th[h])'
      BY <1>2, <1>3, <3>1 DEF KnownOK
    <3> QED BY <1>2, <1>3, <2>1, <3>2 DEF DecisionOK, EffectOK, Holds
  <2>2. CASE g # h
    <3>1. th'[g] = th[g] /\ Key(g)' = Key(g) /\ DecisionOK(g) /\ EffectOK(g)
      BY <1>3, <2>2 DEF Key, CommandInv
    <3>2. DecisionOK(g)'
      BY <3>1 DEF DecisionOK, Holds, MaxVersion
    <3>3. KnownOK(th[g])'
      <4>1. CASE th[g].pc = "idle"
        BY <3>1, <4>1 DEF KnownOK
      <4>2. CASE th[g].pc # "idle"
        <5>1. Key(g) \in Keys /\ ~Fresh(Key(g)) /\ Key(g) = Head(th[g].queue)
          BY <4>2, KeyOfHandler DEF CommandInv, TypeOK, Key
        <5>2. cmd'[Head(th[g].queue)] = cmd[Head(th[g].queue)]
          BY <5>1
        <5> QED BY <3>1, <5>2 DEF EffectOK, KnownOK
      <4> QED BY <4>1, <4>2
    <3>4. EffectOK(g)'
      BY <3>1, <3>3 DEF EffectOK, Holds, MaxVersion
    <3> QED BY <3>2, <3>4
  <2> QED BY <2>1, <2>2
<1> QED BY <1>4, <1>7, <1>8, <1>10 DEF CommandInv, TypeOK

LEMMA SentFields ==
    ASSUME NEW c, "type" \in DOMAIN c, NEW v
    PROVE  Sent(c, v).known = v /\ Sent(c, v).type = c.type
  BY DEF Sent

\* A command of the aggregate, as it is sent.
Proper(c) ==
    /\ c.known \in Nat /\ c.type \in CommandTypes(kind)
    /\ IsCreate(c) => c.known = 0

LEMMA ProperIsCommand == ASSUME NEW c, Proper(c) PROVE c # NoCommand
<1>1. c.type # "none"
  BY DEF Proper, CommandTypes, GoalCommands, ProjectCommands, GoalEdits, ProjectEdits
<1> QED BY <1>1 DEF NoCommand

LEMMA SentCreate ==
    ASSUME RowsOK, NEW c \in Creates[kind]
    PROVE  Proper(Sent(c, 0)) /\ Sent(c, 0).known = 0
<1>1. "type" \in DOMAIN c /\ c.type \in CommandTypes(kind)
  BY CommandConstants DEF RowsOK
<1>2. Sent(c, 0).known = 0 /\ Sent(c, 0).type = c.type
  BY <1>1, SentFields
<1> QED BY <1>1, <1>2 DEF Proper

LEMMA SentOffered ==
    ASSUME RowsOK, NEW c \in Offered[kind], NEW v \in Nat
    PROVE  Proper(Sent(c, v)) /\ Sent(c, v).known = v
<1>1. "type" \in DOMAIN c /\ c.type \in CommandTypes(kind) /\ ~IsCreate(c)
  BY CommandConstants DEF RowsOK
<1>2. Sent(c, v).known = v /\ Sent(c, v).type = c.type
  BY <1>1, SentFields
<1> QED BY <1>1, <1>2 DEF Proper, IsCreate

\* A fresh key gets a command.
LEMMA KeysOKAgain ==
    ASSUME KeysOK, NEW k \in Keys, Fresh(k), NEW c, Proper(c), cmd' = [cmd EXCEPT ![k] = c],
           UNCHANGED <<kind, idem, done, noops>>
    PROVE  /\ KeysOK' /\ cmd'[k] = c /\ cmd'[k] # NoCommand
           /\ \A j \in Keys : ~Fresh(j) => cmd'[j] = cmd[j]
<1>1. /\ cmd'[k] = c /\ \A j \in Keys : j # k => cmd'[j] = cmd[j]
      /\ cmd' = [j \in Keys |-> cmd'[j]]
  BY DEF KeysOK
<1>2. \A j \in Keys : ~(cmd'[j] = NoCommand) =>
           /\ cmd'[j].known \in Nat /\ cmd'[j].type \in CommandTypes(kind)
           /\ IsCreate(cmd'[j]) => cmd'[j].known = 0
  BY <1>1 DEF KeysOK, Proper, Fresh
<1>3. KeysOK'
  BY <1>1, <1>2 DEF KeysOK, Fresh
<1> QED BY <1>1, <1>3, ProperIsCommand

LEMMA OneKey ==
    ASSUME NEW k \in Keys
    PROVE  /\ <<k>> \in Seq(Keys) /\ <<k>> # <<>> /\ Len(<<k>>) = 1 /\ <<k>>[1] = k
           /\ \A i \in 1..Len(<<k>>) : <<k>>[i] = k
  OBVIOUS

LEMMA SendOneKeeps ==
    ASSUME CommandInv, NEW h \in Handlers, NEW k \in Keys, th[h].pc = "idle", Fresh(k),
           NEW c, Proper(c), cmd' = [cmd EXCEPT ![k] = c], Start(h, <<k>>, c.known),
           UNCHANGED <<kind, rows, room, snap, hasKey, idem, remote, done, noops>>
    PROVE  CommandInv'
<1>1. /\ KeysOK' /\ cmd'[k] = c /\ cmd'[k] # NoCommand
      /\ \A j \in Keys : ~Fresh(j) => cmd'[j] = cmd[j]
  BY KeysOKAgain DEF CommandInv, TypeOK
<1> DEFINE ks == <<k>>
           v == c.known
<1>2. v \in Nat /\ (IsCreate(cmd'[k]) => v = 0)
  BY <1>1 DEF Proper
<1>3. ks \in Seq(Keys) /\ ks # <<>> /\ ks[1] = k /\ \A i \in 1..Len(ks) : ks[i] = k
  BY OneKey
<1>4. Start(h, ks, v)
  OBVIOUS
<1> HIDE DEF ks, v
<1>5. \A i \in 1..Len(ks) : cmd'[ks[i]] # NoCommand
  BY <1>1, <1>3
<1> QED BY <1>1, <1>2, <1>3, <1>4, <1>5, StartKeeps

LEMMA SubmitKeeps ==
    ASSUME CommandInv, NEW h \in Handlers, NEW k \in Keys, SubmitCreate(h, k) \/ Submit(h, k)
    PROVE  CommandInv'
<1>0. /\ th[h].pc = "idle" /\ Fresh(k)
      /\ UNCHANGED <<kind, rows, room, snap, hasKey, idem, remote, done, noops>>
  BY DEF SubmitCreate, Submit
<1>1. PICK c : Proper(c) /\ cmd' = [cmd EXCEPT ![k] = c] /\ Start(h, <<k>>, c.known)
  <2>1. CASE SubmitCreate(h, k)
    <3>1. PICK d \in Creates[kind] : cmd' = [cmd EXCEPT ![k] = Sent(d, 0)]
      BY <2>1 DEF SubmitCreate
    <3>2. Proper(Sent(d, 0)) /\ Sent(d, 0).known = 0
      BY SentCreate DEF CommandInv, TypeOK
    <3>3. Start(h, <<k>>, 0)
      BY <2>1 DEF SubmitCreate
    <3> QED BY <3>1, <3>2, <3>3
  <2>2. CASE Submit(h, k)
    <3>1. PICK d \in Offered[kind], v \in 1..MaxVersion :
              cmd' = [cmd EXCEPT ![k] = Sent(d, v)] /\ Start(h, <<k>>, v)
      BY <2>2 DEF Submit
    <3>2. v \in Nat
      BY <3>1, Versions DEF CommandInv, TypeOK
    <3>3. Proper(Sent(d, v)) /\ Sent(d, v).known = v
      BY <3>2, SentOffered DEF CommandInv, TypeOK
    <3> QED BY <3>1, <3>3
  <2> QED BY <2>1, <2>2
<1> QED BY <1>0, <1>1, SendOneKeeps

LEMMA ResendKeeps ==
    ASSUME CommandInv, NEW h \in Handlers, NEW k \in Keys, Resend(h, k) PROVE CommandInv'
<1>0. /\ th[h].pc = "idle" /\ ~Fresh(k)
      /\ UNCHANGED <<kind, rows, room, snap, hasKey, idem, cmd, remote, done, noops>>
  BY DEF Resend
<1>1. KeysOK' /\ cmd'[k] # NoCommand /\ \A j \in Keys : ~Fresh(j) => cmd'[j] = cmd[j]
  BY <1>0 DEF CommandInv, TypeOK, KeysOK, Fresh
<1>2. PICK v \in Nat : Start(h, <<k>>, v)
  <2>1. MaxVersion \in Nat /\ cmd[k].known \in Nat
    BY <1>0, Versions DEF CommandInv, TypeOK, KeysOK
  <2> QED BY <2>1 DEF Resend
<1>3. ~IsCreate(cmd'[k])
  BY <1>0 DEF Resend, IsCreate
<1> DEFINE ks == <<k>>
<1>4. ks \in Seq(Keys) /\ ks # <<>> /\ ks[1] = k /\ \A i \in 1..Len(ks) : ks[i] = k
  BY OneKey
<1>5. Start(h, ks, v)
  BY <1>2
<1> HIDE DEF ks
<1>6. (\A i \in 1..Len(ks) : cmd'[ks[i]] # NoCommand) /\ (IsCreate(cmd'[ks[1]]) => v = 0)
  BY <1>1, <1>3, <1>4
<1> QED BY <1>0, <1>1, <1>4, <1>5, <1>6, StartKeeps

LEMMA SubmitFormKeeps ==
    ASSUME CommandInv, NEW h \in Handlers, NEW j \in Keys, NEW k \in Keys, SubmitForm(h, j, k)
    PROVE  CommandInv'
<1>0. /\ th[h].pc = "idle" /\ Fresh(j) /\ Fresh(k) /\ j # k
      /\ UNCHANGED <<kind, rows, room, snap, hasKey, idem, remote, done, noops>>
  BY DEF SubmitForm
<1>1. PICK c, d \in Offered[kind], v \in 1..MaxVersion :
          /\ cmd' = [cmd EXCEPT ![j] = Sent(c, v), ![k] = Sent(d, v + 1)]
          /\ Start(h, <<j, k>>, v)
  BY DEF SubmitForm
<1> DEFINE x == Sent(c, v)
           y == Sent(d, v + 1)
<1>2. v \in Nat /\ v + 1 \in Nat
  BY Versions DEF CommandInv, TypeOK
<1>3. Proper(x) /\ Proper(y) /\ x.known = v
  BY <1>2, SentOffered DEF CommandInv, TypeOK
<1>4. cmd' = [cmd EXCEPT ![j] = x, ![k] = y]
  BY <1>1
<1> HIDE DEF x, y
<1>5. /\ cmd'[j] = x /\ cmd'[k] = y /\ \A i \in Keys : i # j /\ i # k => cmd'[i] = cmd[i]
      /\ cmd' = [i \in Keys |-> cmd'[i]]
  BY <1>0, <1>4 DEF CommandInv, TypeOK, KeysOK
<1>6. x # NoCommand /\ y # NoCommand
  BY <1>3, ProperIsCommand
<1>7. \A i \in Keys : ~Fresh(i) => cmd'[i] = cmd[i]
  BY <1>0, <1>5
<1>8. KeysOK'
  <2>1. \A i \in Keys : ~(cmd'[i] = NoCommand) =>
             /\ cmd'[i].known \in Nat /\ cmd'[i].type \in CommandTypes(kind)
             /\ IsCreate(cmd'[i]) => cmd'[i].known = 0
    BY <1>3, <1>5 DEF CommandInv, TypeOK, KeysOK, Proper, Fresh
  <2> QED BY <1>0, <1>5, <2>1 DEF CommandInv, TypeOK, KeysOK, Fresh
<1> DEFINE ks == <<j, k>>
<1>10. ks \in Seq(Keys) /\ Len(ks) = 2 /\ ks[1] = j /\ ks[2] = k /\ ks # <<>>
  OBVIOUS
<1>11. Start(h, ks, v)
  BY <1>1
<1> HIDE DEF ks
<1>12. \A i \in 1..Len(ks) : i = 1 \/ i = 2
  BY <1>10
<1>14. \A i \in 1..Len(ks) : cmd'[ks[i]] # NoCommand
  BY <1>5, <1>6, <1>10, <1>12
<1>15. IsCreate(cmd'[ks[1]]) => v = 0
  BY <1>3, <1>5, <1>10 DEF Proper
<1> QED BY <1>0, <1>2, <1>7, <1>8, <1>10, <1>11, <1>14, <1>15, StartKeeps

-----------------------------------------------------------------------------
(* The invariant *)

LEMMA InitCommands == Init => CommandInv
<1> SUFFICES ASSUME Init PROVE CommandInv
  OBVIOUS
<1>1. /\ kind \in Kinds /\ snap = NoSnapshot /\ idem = {} /\ noops = {} /\ remote = 0
      /\ cmd = [k \in Keys |-> NoCommand] /\ done = [k \in Keys |-> <<>>] /\ room = 0
      /\ th = [h \in Handlers |-> Idle]
  BY DEF Init
<1>2. AllRows(rows) /\ hasKey \in BOOLEAN /\ (rows # <<>> => hasKey)
  <2>1. CASE rows = <<>> /\ hasKey = FALSE
    <3>1. IsSeq(rows) /\ Len(rows) = 0
      BY <2>1, SeqOne
    <3>2. AllRows(rows)
      BY <3>1 DEF AllRows
    <3>3. hasKey \in BOOLEAN
      BY <2>1, Zenon
    <3> QED BY <2>1, <3>2, <3>3
  <2>2. CASE /\ rows = [i \in 1..Len(History[kind]) |->
                          [event |-> History[kind][i], pending |-> FALSE]]
             /\ hasKey = TRUE
    <3> DEFINE n == Len(History[kind])
               e(i) == History[kind][i]
    <3>1. n \in Nat /\ \A i \in 1..n : e(i).type \in EventTypes(kind)
      BY <1>1, HistoryTyped
    <3>2. rows = [i \in 1..n |-> [event |-> e(i), pending |-> FALSE]]
      BY <2>2
    <3> HIDE DEF n, e
    <3>3. IsSeq(rows) /\ Len(rows) = n
      <4> DEFINE r(i) == [event |-> e(i), pending |-> FALSE]
      <4>1. rows = [i \in 1..n |-> r(i)]
        BY <3>2
      <4> HIDE DEF r
      <4> QED BY <3>1, <4>1 DEF IsSeq
    <3>4. \A i \in 1..n : WellFormed(rows[i])
      <4> TAKE i \in 1..n
      <4>1. rows[i] = [event |-> e(i), pending |-> FALSE]
        BY <3>2
      <4> QED BY <3>1, <4>1 DEF WellFormed
    <3> QED BY <2>2, <3>3, <3>4 DEF AllRows
  <2> QED BY <2>1, <2>2 DEF Init
<1>3. Len(rows) \in Nat /\ MaxRemote \in Nat
  BY <1>2, SeqDomain, CommandConstants DEF AllRows
<1>4. RowsOK
  BY <1>1, <1>2, <1>3 DEF RowsOK, AllRows, WellFormed
<1>5. KeysOK
  BY <1>1 DEF KeysOK, Fresh
<1>6. \A h \in Handlers : ThreadOK(th[h]) /\ th[h] = Idle
  BY <1>1, FailThread
<1>7. HandlersOK
  <2>1. \A h \in Handlers : th[h] = [f \in DOMAIN Idle |-> th[h][f]]
    BY <1>6 DEF ThreadOK, Shaped
  <2>2. th = [h \in Handlers |-> th[h]]
    BY <1>1
  <2>3. th = [h \in Handlers |-> [f \in DOMAIN Idle |-> th[h][f]]]
    BY <2>1, <2>2
  <2> QED BY <1>6, <2>3 DEF HandlersOK, ThreadOK, Labels
<1>8. IsState(snap) /\ snap.version <= MaxVersion
  BY <1>1, <1>3 DEF NoSnapshot, IsState, MaxVersion
<1>9. QueuesSent
  BY <1>6, IdleFields, SeqOne DEF QueuesSent
<1>10. EffectsShow /\ ExactlyOnce
  BY <1>1 DEF EffectsShow, ExactlyOnce, OncePerKey, RecordedIsDone
<1>11. \A h \in Handlers : DecisionOK(h) /\ EffectOK(h)
  BY <1>6, IdleFields DEF DecisionOK, EffectOK, Holds, KnownOK
<1> QED BY <1>4, <1>5, <1>7, <1>8, <1>9, <1>10, <1>11 DEF CommandInv, TypeOK

LEMMA StepCommands == CommandInv /\ [Next]_vars => CommandInv'
<1> SUFFICES ASSUME CommandInv, [Next]_vars PROVE CommandInv'
  OBVIOUS
<1>1. CASE UNCHANGED vars
  <2>0. UNCHANGED <<kind, rows, room, snap, hasKey, idem, cmd, th, remote, done, noops>>
    BY <1>1 DEF vars
  <2>1. RowsOK' /\ KeysOK' /\ QueuesSent' /\ EffectsShow' /\ ExactlyOnce'
    BY <2>0 DEF CommandInv, TypeOK, RowsOK, KeysOK, QueuesSent, EffectsShow, ExactlyOnce,
                OncePerKey, RecordedIsDone, Fresh, MaxVersion
  <2>2. HandlersOK'
    BY <2>0 DEF CommandInv, TypeOK, HandlersOK, Idle, NoSnapshot
  <2>3. IsState(snap') /\ snap'.version <= MaxVersion'
    BY <2>0 DEF CommandInv, TypeOK, MaxVersion
  <2>4. \A g \in Handlers : DecisionOK(g)' /\ EffectOK(g)'
    BY <2>0 DEF CommandInv, DecisionOK, EffectOK, KnownOK, Holds, Key, MaxVersion
  <2> QED BY <2>1, <2>2, <2>3, <2>4 DEF CommandInv, TypeOK
<1>2. ASSUME NEW h \in Handlers, NEW k \in Keys,
             SubmitCreate(h, k) \/ Submit(h, k) \/ Resend(h, k)
      PROVE  CommandInv'
  BY <1>2, SubmitKeeps, ResendKeeps
<1>3. ASSUME NEW h \in Handlers, NEW j \in Keys, NEW k \in Keys, SubmitForm(h, j, k)
      PROVE  CommandInv'
  BY <1>3, SubmitFormKeeps
<1>4. ASSUME NEW h \in Handlers, CheckDuplicate(h) \/ LoadForCreate(h)
             \/ ReadSnapshot(h) \/ LoadAndDecide(h)
      PROVE  CommandInv'
  BY <1>4, CheckDuplicateKeeps, LoadForCreateKeeps, ReadSnapshotKeeps, LoadAndDecideKeeps
<1>5. ASSUME NEW h \in Handlers,
             PurgeCorruptSnapshot(h) \/ SaveAggregateKey(h) \/ ReadMaxVersion(h)
      PROVE  CommandInv'
  BY <1>5, PurgeKeeps, SaveAggregateKeyKeeps, ReadMaxVersionKeeps
<1>6. ASSUME NEW h \in Handlers, Insert(h) \/ Conflict(h) \/ PersistSnapshot(h)
      PROVE  CommandInv'
  BY <1>6, InsertKeeps, EndsKeep, PersistSnapshotKeeps
<1>7. ASSUME NEW h \in Handlers, RecordLookup(h) \/ RecordInsert(h) \/ Crash(h)
      PROVE  CommandInv'
  BY <1>7, RecordLookupKeeps, RecordInsertKeeps, EndsKeep
<1>8. ASSUME NEW e \in Remote[kind], RemoteEvent(e) PROVE CommandInv'
  BY <1>8, RemoteEventKeeps
<1>9. CASE Pushed
  BY <1>9, PushedKeeps
<1>10. CASE MakeRoom
  BY <1>10, MakeRoomKeeps
<1>11. ASSUME NEW es \in [1..room -> Remote[kind]], FillRoom(es) PROVE CommandInv'
  BY <1>11, FillRoomKeeps
<1> QED BY <1>1, <1>2, <1>3, <1>4, <1>5, <1>6, <1>7, <1>8, <1>9, <1>10, <1>11 DEF Next

LEMMA CommandsAlways == Spec => []CommandInv
  BY InitCommands, StepCommands, PTL DEF Spec

\* Rows, commands and handlers keep their shapes, and no snapshot is ever ahead
\* of the rows: save() can always number the next event (BaseRepository).
THEOREM CommandsTyped == Spec => []TypeOK
<1>1. CommandInv => TypeOK
  BY DEF CommandInv
<1> QED BY <1>1, CommandsAlways, PTL

\* However often a command is sent, by however many sagas at once, wherever its
\* handlers stop and whatever others do: a second effect of its key was asked for
\* by a sender that knew a version the first had led to, or comes from a handler
\* that was overtaken between load and append; and a key is recorded only for a
\* command that was carried out (isDuplicateCommand, assertKnownVersion, record).
THEOREM CommandsTakeEffectOnce == Spec => []ExactlyOnce
<1>1. CommandInv => ExactlyOnce
  BY DEF CommandInv
<1> QED BY <1>1, CommandsAlways, PTL

-----------------------------------------------------------------------------
(* What load() answers *)

LEMMA SplitSeq ==
    ASSUME NEW s, IsSeq(s), NEW n \in Nat, n <= Len(s)
    PROVE  /\ SubSeq(s, 1, n) \o SubSeq(s, n + 1, Len(s)) = s
           /\ IsSeq(SubSeq(s, 1, n)) /\ IsSeq(SubSeq(s, n + 1, Len(s)))
<1> DEFINE u == SubSeq(s, 1, n)
           v == SubSeq(s, n + 1, Len(s))
           w == u \o v
<1>0. Len(s) \in Nat /\ n + 1 \in Nat
  BY SeqDomain
<1>1. IsSeq(u) /\ Len(u) = n /\ \A i \in 1..n : u[i] = s[i]
  <2>1. IsSeq(u) /\ Len(u) = n - 1 + 1 /\ \A i \in 1..(n - 1 + 1) : u[i] = s[1 + i - 1]
    BY <1>0, SeqPart
  <2>2. n - 1 + 1 = n /\ \A i \in 1..n : 1 + i - 1 = i
    OBVIOUS
  <2> QED BY <2>1, <2>2
<1>2. IsSeq(v) /\ Len(v) = Len(s) - n /\ \A i \in 1..(Len(s) - n) : v[i] = s[n + i]
  <2>1. /\ IsSeq(v) /\ Len(v) = Len(s) - (n + 1) + 1
        /\ \A i \in 1..(Len(s) - (n + 1) + 1) : v[i] = s[n + 1 + i - 1]
    BY <1>0, SeqPart
  <2>2. Len(s) - (n + 1) + 1 = Len(s) - n /\ \A i \in 1..(Len(s) - n) : n + 1 + i - 1 = n + i
    BY <1>0
  <2> QED BY <2>1, <2>2
<1> HIDE DEF u, v
<1>3. /\ IsSeq(w) /\ Len(w) = Len(u) + Len(v)
      /\ \A i \in 1..Len(u) : w[i] = u[i]
      /\ \A i \in 1..Len(v) : w[Len(u) + i] = v[i]
  <2>1. IsSeq(u) /\ IsSeq(v)
    BY <1>1, <1>2
  <2> QED BY <2>1, SeqJoin
<1>4. Len(w) = Len(s)
  BY <1>0, <1>1, <1>2, <1>3
<1>5. \A i \in 1..Len(w) : w[i] = s[i]
  <2> TAKE i \in 1..Len(w)
  <2>1. CASE i <= n
    <3>1. i \in 1..n
      BY <1>0, <1>4, <2>1
    <3> QED BY <1>1, <1>3, <3>1
  <2>2. CASE i > n
    <3>1. i - n \in 1..(Len(s) - n) /\ n + (i - n) = i
      BY <1>0, <1>4, <2>2
    <3> QED BY <1>1, <1>2, <1>3, <3>1
  <2> QED BY <1>0, <1>4, <2>1, <2>2
<1> HIDE DEF w
<1>6. w = s
  BY <1>3, <1>4, <1>5, SeqSame
<1> QED BY <1>1, <1>2, <1>6 DEF u, v, w

\* The first events stay the same when events are added at the end.
LEMMA SameStart ==
    ASSUME NEW s, IsSeq(s), NEW t, IsSeq(t), NEW n \in Nat, n <= Len(s)
    PROVE  SubSeq(s \o t, 1, n) = SubSeq(s, 1, n)
<1> DEFINE w == s \o t
           u == SubSeq(s, 1, n)
           x == SubSeq(w, 1, n)
<1>1. /\ IsSeq(w) /\ Len(w) = Len(s) + Len(t) /\ Len(s) \in Nat /\ Len(t) \in Nat
      /\ \A i \in 1..Len(s) : w[i] = s[i]
  BY SeqJoin, SeqDomain
<1> HIDE DEF w
<1>2. n <= Len(w) /\ 1 <= n + 1 /\ n - 1 + 1 = n
  BY <1>1
<1>3. IsSeq(u) /\ Len(u) = n /\ \A i \in 1..n : u[i] = s[1 + i - 1]
  <2>1. IsSeq(u) /\ Len(u) = n - 1 + 1 /\ \A i \in 1..(n - 1 + 1) : u[i] = s[1 + i - 1]
    BY <1>2, SeqPart
  <2> QED BY <1>2, <2>1
<1>4. IsSeq(x) /\ Len(x) = n /\ \A i \in 1..n : x[i] = w[1 + i - 1]
  <2>1. IsSeq(x) /\ Len(x) = n - 1 + 1 /\ \A i \in 1..(n - 1 + 1) : x[i] = w[1 + i - 1]
    BY <1>1, <1>2, SeqPart
  <2> QED BY <1>2, <2>1
<1> HIDE DEF u, x
<1>5. \A i \in 1..n : x[i] = u[i]
  <2> TAKE i \in 1..n
  <2>1. 1 + i - 1 = i /\ i \in 1..Len(s)
    BY <1>1
  <2> QED BY <1>1, <1>3, <1>4, <2>1
<1>6. x = u
  BY <1>3, <1>4, <1>5, SeqSame
<1> QED BY <1>6 DEF x, u, w

\* Loading from a snapshot that is a replay is a replay.
LEMMA LoadOfGood ==
    ASSUME CommandInv, NEW s, IsState(s), GoodFor(s, room, kind, Events)
    PROVE  Load(s) = Replay(kind, Events)
<1>1. CASE s.version = 0
  BY <1>1 DEF Load
<1>2. CASE s.version # 0
  <2> DEFINE n == s.version
             u == SubSeq(Events, 1, n)
             v == SubSeq(Events, n + 1, Len(rows))
  <2>1. n \in Nat /\ n > 0
    BY <1>2 DEF IsState
  <2>2. /\ room = 0 /\ n <= Len(Events) /\ s = Applied(kind, New(kind), u)
    BY <2>1 DEF GoodFor, Replay
  <2>3. IsSeq(Events) /\ Len(Events) = Len(rows) /\ n <= Len(rows) /\ n <= MaxVersion
    BY <2>1, <2>2, EventsOfRows, Versions DEF CommandInv, TypeOK
  <2>4. UpTo(n) = n
    BY <2>1, <2>2, <2>3, UpToCounts DEF CommandInv, TypeOK
  <2>5. Load(s) = Applied(kind, s, v)
    BY <1>2, <2>4 DEF Load
  <2>6. u \o v = Events /\ IsSeq(u) /\ IsSeq(v)
    <3> HIDE DEF n
    <3> QED BY <2>1, <2>3, SplitSeq
  <2> HIDE DEF u, v
  <2>7. Applied(kind, New(kind), u \o v) = Applied(kind, Applied(kind, New(kind), u), v)
    <3>1. IsSeq(u) /\ IsSeq(v)
      BY <2>6
    <3> QED BY <3>1, AppliedJoins
  <2> QED BY <2>2, <2>5, <2>6, <2>7 DEF Replay
<1> QED BY <1>1, <1>2

LEMMA LoadFromSnapshot ==
    ASSUME CommandInv, SnapshotsHold PROVE LoadIsReplay
<1> SUFFICES ASSUME ~raced, NEW s \in {snap} \cup InMemory PROVE Load(s) = Replay(kind, Events)
  BY DEF LoadIsReplay
<1>1. CASE s = snap
  BY <1>1, LoadOfGood DEF CommandInv, SnapshotsHold
<1>2. CASE s \in InMemory
  <2>1. PICK h \in Handlers : th[h].pc = "rows" /\ ~th[h].behind /\ s = th[h].memory
    BY <1>2 DEF InMemory
  <2>2. IsState(s)
    BY <2>1 DEF CommandInv, DecisionOK
  <2>3. SoundFor(th[h], room, kind, Events)
    BY DEF SnapshotsHold
  <2>4. GoodFor(s, room, kind, Events)
    BY <2>1, <2>3 DEF SoundFor
  <2> QED BY <2>2, <2>4, LoadOfGood
<1> QED BY <1>1, <1>2

\* A handler that does not hold what it would write, was overtaken, or still
\* holds what it held.
Stays(x, y) ==
    \/ y.behind = TRUE
    \/ y.pc \notin Late \cup {"rows"}
    \/ /\ y.behind = x.behind
       /\ y.memory = x.memory /\ y.out = x.out
       /\ y.pc \in {"key", "max", "append"} <=> x.pc \in {"key", "max", "append"}
       /\ y.pc = "snapshot" <=> x.pc = "snapshot"
       /\ y.pc = "rows" <=> x.pc = "rows"

GoesOn(g) == Stays(th[g], th'[g])

LEMMA NothingHeld ==
    ASSUME NEW y, y.behind = TRUE \/ y.pc \notin Late \cup {"rows"}, NEW r, NEW k, NEW ev
    PROVE  SoundFor(y, r, k, ev)
  BY DEF SoundFor, Late

LEMMA SoundStays ==
    ASSUME NEW x, NEW y, NEW r, NEW k, NEW ev, SoundFor(x, r, k, ev), Stays(x, y)
    PROVE  SoundFor(y, r, k, ev)
<1>1. CASE y.behind = TRUE \/ y.pc \notin Late \cup {"rows"}
  BY <1>1, NothingHeld
<1>2. CASE /\ y.behind = x.behind
           /\ y.memory = x.memory /\ y.out = x.out
           /\ y.pc \in {"key", "max", "append"} <=> x.pc \in {"key", "max", "append"}
           /\ y.pc = "snapshot" <=> x.pc = "snapshot"
           /\ y.pc = "rows" <=> x.pc = "rows"
  BY <1>2 DEF SoundFor
<1> QED BY <1>1, <1>2 DEF Stays

\* No snapshot: nothing to be wrong about.
LEMMA NoneIsGood ==
    ASSUME NEW s, s.version = 0, NEW r, NEW k, NEW ev PROVE GoodFor(s, r, k, ev)
  BY DEF GoodFor

LEMMA SnapshotsAgain ==
    ASSUME SnapshotsHold, kind' = kind, raced' = raced, room' = room, Events' = Events,
           snap' = snap \/ snap'.version = 0,
           \A g \in Handlers : GoesOn(g)
    PROVE  SnapshotsHold'
<1> SUFFICES ASSUME ~raced
             PROVE  /\ GoodFor(snap', room, kind, Events)
                    /\ \A h \in Handlers : SoundFor(th'[h], room, kind, Events)
  BY DEF SnapshotsHold
<1>1. GoodFor(snap', room, kind, Events)
  BY NoneIsGood DEF SnapshotsHold
<1>2. \A h \in Handlers : SoundFor(th'[h], room, kind, Events)
  BY SoundStays DEF SnapshotsHold, GoesOn
<1> QED BY <1>1, <1>2

LEMMA SameEvents == ASSUME rows' = rows PROVE Events' = Events
  BY DEF Events

LEMMA OneGoesOn ==
    ASSUME CommandInv, NEW h \in Handlers, NEW x, ThreadOK(x), th' = [th EXCEPT ![h] = x],
           \/ x.pc \notin Late \cup {"rows"}
           \/ /\ x.memory = th[h].memory /\ x.out = th[h].out /\ x.behind = th[h].behind
              /\ x.pc \in {"key", "max", "append"} /\ Holds(h)
    PROVE  \A g \in Handlers : GoesOn(g)
<1>1. th'[h] = x /\ \A g \in Handlers : g # h => th'[g] = th[g]
  BY Edited DEF CommandInv, TypeOK, ThreadOK
<1>2. GoesOn(h)
  BY <1>1 DEF GoesOn, Stays, Holds, Late
<1>3. \A g \in Handlers : g # h => GoesOn(g)
  BY <1>1 DEF GoesOn, Stays
<1> QED BY <1>2, <1>3

LEMMA StillGoOn == ASSUME th' = th PROVE \A g \in Handlers : GoesOn(g)
  BY DEF GoesOn, Stays

\* Steps that write neither rows nor a snapshot and decide nothing.
Calm(h) ==
    \/ CheckDuplicate(h) \/ PurgeCorruptSnapshot(h) \/ SaveAggregateKey(h)
    \/ ReadMaxVersion(h) \/ Conflict(h) \/ RecordLookup(h) \/ RecordInsert(h) \/ Crash(h)

LEMMA CalmGoesOn ==
    ASSUME CommandInv, NEW h \in Handlers, Calm(h)
    PROVE  /\ UNCHANGED <<kind, rows, room, cmd, raced, remote>> /\ (snap' = snap \/ snap'.version = 0)
           /\ \A g \in Handlers : GoesOn(g)
<1> USE DEF Calm
<1>0. UNCHANGED <<kind, rows, room, cmd, raced, remote>> /\ (snap' = snap \/ snap'.version = 0)
  BY DEF CheckDuplicate, PurgeCorruptSnapshot, SaveAggregateKey, ReadMaxVersion, Conflict,
         RecordLookup, RecordInsert, Crash, NoSnapshot
<1>1. ASSUME th[h].pc # "idle", Return(h) PROVE \A g \in Handlers : GoesOn(g)
  <2>1. PICK x : /\ ThreadOK(x) /\ th' = [th EXCEPT ![h] = x] /\ x.pc \in {"idle", "check"}
    BY <1>1, ReturnThread
  <2> QED BY <2>1, OneGoesOn DEF Late
<1>2. ASSUME Fail(h) PROVE \A g \in Handlers : GoesOn(g)
  <2>1. th' = [th EXCEPT ![h] = Idle]
    BY <1>2 DEF Fail
  <2> QED BY <2>1, FailThread, OneGoesOn DEF Late
<1>3. ASSUME th[h].pc # "idle", NEW pc \in {"load", "insertKey"}, Goto(h, pc)
      PROVE  \A g \in Handlers : GoesOn(g)
  <2>1. PICK x : /\ ThreadOK(x) /\ th' = [th EXCEPT ![h] = x] /\ x.pc = pc
    BY <1>3, GotoThread DEF Labels
  <2> QED BY <2>1, OneGoesOn DEF Late
<1>4. ASSUME CheckDuplicate(h) \/ RecordLookup(h) \/ RecordInsert(h) PROVE \A g \in Handlers : GoesOn(g)
  BY <1>1, <1>3, <1>4 DEF CheckDuplicate, RecordLookup, RecordInsert
<1>5. ASSUME Conflict(h) \/ Crash(h) PROVE \A g \in Handlers : GoesOn(g)
  BY <1>2, <1>5 DEF Conflict, Crash
<1>6. ASSUME PurgeCorruptSnapshot(h) PROVE \A g \in Handlers : GoesOn(g)
  BY <1>6, StillGoOn DEF PurgeCorruptSnapshot
<1>7. ASSUME SaveAggregateKey(h) PROVE \A g \in Handlers : GoesOn(g)
  <2>1. th[h].pc = "key" /\ Goto(h, "max")
    BY <1>7 DEF SaveAggregateKey
  <2>2. PICK x : /\ ThreadOK(x) /\ th' = [th EXCEPT ![h] = x]
                 /\ x.pc = "max" /\ x.out = th[h].out
                 /\ x.memory = th[h].memory /\ x.behind = th[h].behind
    BY <2>1, GotoThread DEF Labels
  <2> QED BY <2>1, <2>2, OneGoesOn DEF Holds
<1>8. ASSUME ReadMaxVersion(h) PROVE \A g \in Handlers : GoesOn(g)
  <2> DEFINE x == [th[h] EXCEPT !.pc = "append", !.start = StartVersion(h)]
  <2>1. th[h].pc = "max" /\ th' = [th EXCEPT ![h] = x]
    BY <1>8 DEF ReadMaxVersion
  <2>2. /\ Shaped(th[h]) /\ th[h].behind \in BOOLEAN /\ th[h].known \in Nat /\ th[h].queue \in Seq(Keys)
        /\ th[h].queue # <<>>
    BY <2>1 DEF CommandInv, TypeOK, HandlersOK, Shaped
  <2>3. StartVersion(h) \in Nat
    <3>1. MaxVersion \in Nat /\ snap.version \in Nat
      BY Versions DEF CommandInv, TypeOK, IsState
    <3> QED BY <3>1 DEF StartVersion
  <2>4. /\ Shaped(x) /\ x.pc = "append" /\ x.queue = th[h].queue /\ x.out = th[h].out
        /\ x.memory = th[h].memory /\ x.behind = th[h].behind /\ x.start = StartVersion(h)
        /\ x.known = th[h].known
    BY <2>2, IdleFields DEF Shaped
  <2> HIDE DEF x
  <2>5. ThreadOK(x)
    BY <2>2, <2>3, <2>4 DEF ThreadOK, Labels
  <2> QED BY <2>1, <2>4, <2>5, OneGoesOn DEF Holds
<1>9. \A g \in Handlers : GoesOn(g)
  BY <1>4, <1>5, <1>6, <1>7, <1>8
<1> QED BY <1>0, <1>9

LEMMA CalmSnapshots ==
    ASSUME CommandInv, SnapshotsHold, NEW h \in Handlers, Calm(h) PROVE SnapshotsHold'
  BY CalmGoesOn, SameEvents, SnapshotsAgain

LEMMA SendGoesOn ==
    ASSUME CommandInv, NEW h \in Handlers, NEW j \in Keys, NEW k \in Keys,
           SubmitCreate(h, k) \/ Submit(h, k) \/ Resend(h, k) \/ SubmitForm(h, j, k)
    PROVE  /\ UNCHANGED <<kind, rows, room, snap, raced, remote>>
           /\ \A g \in Handlers : GoesOn(g)
<1>0. UNCHANGED <<kind, rows, room, snap, raced, remote>>
  BY DEF SubmitCreate, Submit, Resend, SubmitForm
<1>1. PICK ks \in Seq(Keys), v \in Nat : ks # <<>> /\ Start(h, ks, v)
  <2>1. <<k>> \in Seq(Keys) /\ <<k>> # <<>> /\ <<j, k>> \in Seq(Keys) /\ <<j, k>> # <<>>
    OBVIOUS
  <2>2. MaxVersion \in Nat /\ (~Fresh(k) => cmd[k].known \in Nat)
    BY Versions DEF CommandInv, TypeOK, KeysOK
  <2>3. \A v \in 1..MaxVersion : v \in Nat
    BY <2>2
  <2>4. CASE SubmitCreate(h, k)
    BY <2>1, <2>4 DEF SubmitCreate
  <2>5. CASE Submit(h, k)
    BY <2>1, <2>3, <2>5 DEF Submit
  <2>6. CASE Resend(h, k)
    BY <2>1, <2>2, <2>3, <2>6 DEF Resend
  <2>7. CASE SubmitForm(h, j, k)
    BY <2>1, <2>3, <2>7 DEF SubmitForm
  <2> QED BY <2>4, <2>5, <2>6, <2>7
<1> DEFINE x == Begun(ks, v)
<1>2. th' = [th EXCEPT ![h] = x] /\ ThreadOK(x) /\ x.pc = "check"
  BY <1>1, BegunThread DEF Start
<1> HIDE DEF x
<1>3. \A g \in Handlers : GoesOn(g)
  BY <1>2, OneGoesOn DEF Late
<1> QED BY <1>0, <1>3

LEMMA SendSnapshots ==
    ASSUME CommandInv, SnapshotsHold, NEW h \in Handlers, NEW j \in Keys, NEW k \in Keys,
           SubmitCreate(h, k) \/ Submit(h, k) \/ Resend(h, k) \/ SubmitForm(h, j, k)
    PROVE  SnapshotsHold'
  BY SendGoesOn, SameEvents, SnapshotsAgain

LEMMA PushedSame ==
    ASSUME CommandInv, Pushed
    PROVE  UNCHANGED <<kind, room, snap, cmd, th, raced, remote>> /\ Events' = Events
<1>0. UNCHANGED <<kind, room, snap, cmd, th, raced, remote>>
  BY DEF Pushed
<1>1. Events' = Events
  <2>1. Len(rows') = Len(rows) /\ \A i \in 1..Len(rows) : rows'[i].event = rows[i].event
    BY PushedRows DEF CommandInv, TypeOK
  <2> QED BY <2>1 DEF Events
<1> QED BY <1>0, <1>1

LEMMA PushedSnapshots ==
    ASSUME CommandInv, SnapshotsHold, Pushed PROVE SnapshotsHold'
  BY PushedSame, StillGoOn, SnapshotsAgain

\* The aggregate in memory is the replay of all rows, under their number.
LEMMA PersistSnapshots ==
    ASSUME CommandInv, SnapshotsHold, NEW h \in Handlers, PersistSnapshot(h)
    PROVE  SnapshotsHold'
<1>0. /\ th[h].pc = "snapshot" /\ th' = [th EXCEPT ![h] = Written(h)] /\ snap' = th[h].memory
      /\ raced' = (raced \/ th[h].behind) /\ UNCHANGED <<kind, rows, room>>
  BY DEF PersistSnapshot
<1>1. \A g \in Handlers : GoesOn(g)
  BY <1>0, WrittenThread, OneGoesOn DEF Late
<1>2. Events' = Events
  BY <1>0, SameEvents
<1> SUFFICES ASSUME ~raced, ~th[h].behind
             PROVE  /\ GoodFor(snap', room, kind, Events)
                    /\ \A g \in Handlers : SoundFor(th'[g], room, kind, Events)
  BY <1>0, <1>2 DEF SnapshotsHold
<1>3. snap' = Replay(kind, Events) /\ room = 0
  <2>1. SoundFor(th[h], room, kind, Events)
    BY DEF SnapshotsHold
  <2> QED BY <1>0, <2>1 DEF SoundFor
<1>4. Replay(kind, Events).version = Len(Events) /\ IsSeq(Events) /\ Len(Events) \in Nat
  <2>1. /\ IsSeq(Events) /\ Len(Events) \in Nat /\ kind \in {"goal", "project"}
        /\ \A i \in 1..Len(Events) : Events[i].type \in EventTypes(kind)
    BY EventsOfRows, CommandConstants DEF CommandInv, TypeOK, RowsOK
  <2>2. Applied(kind, New(kind), Events).version = New(kind).version + Len(Events)
    BY <2>1, NewIsState, HistoryCounted
  <2> QED BY <2>1, <2>2, NewIsState DEF Replay
<1>5. SubSeq(Events, 1, Len(Events)) = Events
  BY <1>4, WholeSeq
<1>6. \A g \in Handlers : SoundFor(th'[g], room, kind, Events)
  BY <1>1, SoundStays DEF SnapshotsHold, GoesOn
<1>7. GoodFor(snap', room, kind, Events)
  <2> DEFINE ev == Events
             s == snap'
  <2>1. s = Replay(kind, ev) /\ s.version = Len(ev) /\ Len(ev) \in Nat /\ SubSeq(ev, 1, Len(ev)) = ev
    BY <1>3, <1>4, <1>5
  <2> HIDE DEF ev, s
  <2>2. s.version <= Len(ev)
    BY <2>1
  <2>3. s = Replay(kind, SubSeq(ev, 1, s.version))
    BY <2>1, Zenon
  <2>4. GoodFor(s, room, kind, ev)
    BY <1>3, <2>2, <2>3, Zenon DEF GoodFor
  <2> QED BY <2>4 DEF ev, s
<1> QED BY <1>6, <1>7

\* A handler reads the snapshot.
LEMMA ReadSnapshots ==
    ASSUME CommandInv, SnapshotsHold, NEW h \in Handlers, ReadSnapshot(h) PROVE SnapshotsHold'
<1>0. UNCHANGED <<kind, rows, room, snap, raced>>
  BY DEF ReadSnapshot
<1>1. PICK x : /\ ThreadOK(x) /\ th' = [th EXCEPT ![h] = x] /\ x.pc = "rows" /\ x.memory = snap
  BY ReadThread
<1>2. th'[h] = x /\ \A g \in Handlers : g # h => th'[g] = th[g]
  BY <1>1, Edited DEF CommandInv, TypeOK, ThreadOK
<1>3. Events' = Events
  BY <1>0, SameEvents
<1> SUFFICES ASSUME ~raced
             PROVE  /\ GoodFor(snap, room, kind, Events)
                    /\ \A g \in Handlers : SoundFor(th'[g], room, kind, Events)
  BY <1>0, <1>3 DEF SnapshotsHold
<1>4. GoodFor(snap, room, kind, Events)
  BY DEF SnapshotsHold
<1>5. SoundFor(x, room, kind, Events)
  BY <1>1, <1>4 DEF SoundFor
<1>6. \A g \in Handlers : g # h => SoundFor(th'[g], room, kind, Events)
  BY <1>2 DEF SnapshotsHold
<1> QED BY <1>2, <1>4, <1>5, <1>6

\* A handler decides on the replay of all rows.
LEMMA DecidedSnapshots ==
    ASSUME CommandInv, SnapshotsHold, NEW h \in Handlers, th[h].pc \in {"load", "rows"},
           NEW d, Answers(d, EventTypes(kind)), NEW before, Decided(h, d.events, before),
           ~raced /\ th[h].behind = FALSE => before = Replay(kind, Events),
           UNCHANGED <<kind, rows, room, snap, raced>>
    PROVE  SnapshotsHold'
<1>p. PICK x : GoesOnWith(h, x, d.events, before)
  BY DecidedThread
<1>1. /\ ThreadOK(x) /\ th' = [th EXCEPT ![h] = x]
      /\ x.pc = IF d.events = <<>> THEN "record" ELSE IF hasKey THEN "max" ELSE "key"
      /\ x.out = d.events /\ x.memory = Applied(kind, before, d.events)
      /\ x.behind = FALSE => th[h].behind = FALSE /\ room = 0
  BY <1>p DEF GoesOnWith
<1>2. th'[h] = x /\ \A g \in Handlers : g # h => th'[g] = th[g]
  BY <1>1, Edited DEF CommandInv, TypeOK, ThreadOK
<1>3. Events' = Events
  BY SameEvents
<1> SUFFICES ASSUME ~raced
             PROVE  /\ GoodFor(snap, room, kind, Events)
                    /\ \A g \in Handlers : SoundFor(th'[g], room, kind, Events)
  BY <1>3 DEF SnapshotsHold
<1>4. SoundFor(x, room, kind, Events)
  <2>0. x.behind \in BOOLEAN
    BY <1>1 DEF ThreadOK
  <2>1. CASE x.behind = TRUE \/ d.events = <<>>
    <3>1. x.behind = TRUE \/ x.pc \notin Late \cup {"rows"}
      BY <1>1, <2>1 DEF Late
    <3> QED BY <3>1, NothingHeld
  <2>2. CASE x.behind = FALSE /\ d.events # <<>>
    <3> DEFINE ev == Events
               out == d.events
    <3>0. before = Replay(kind, ev) /\ room = 0
      BY <1>1, <2>2
    <3>1. IsSeq(ev) /\ IsSeq(out)
      BY <2>2, EventsOfRows, SeqOne DEF Answers, CommandInv, TypeOK
    <3>2. x.memory = Applied(kind, Applied(kind, New(kind), ev), out) /\ x.out = out
      BY <1>1, <3>0 DEF Replay
    <3>3. x.pc \in {"max", "key"}
      BY <1>1, <2>2
    <3>4. Replay(kind, ev \o out) = Applied(kind, New(kind), ev \o out)
      BY DEF Replay
    <3> HIDE DEF ev, out
    <3>5. Applied(kind, New(kind), ev \o out) = Applied(kind, Applied(kind, New(kind), ev), out)
      BY <3>1, AppliedJoins
    <3>6. x.memory = Replay(kind, ev \o x.out)
      BY <3>2, <3>4, <3>5
    <3>7. SoundFor(x, room, kind, ev)
      BY <3>0, <3>3, <3>6 DEF SoundFor
    <3> QED BY <3>7 DEF ev
  <2> QED BY <2>0, <2>1, <2>2
<1>5. \A g \in Handlers : g # h => SoundFor(th'[g], room, kind, Events)
  BY <1>2 DEF SnapshotsHold
<1> QED BY <1>2, <1>4, <1>5 DEF SnapshotsHold

LEMMA LoadSnapshots ==
    ASSUME CommandInv, SnapshotsHold, NEW h \in Handlers,
           LoadForCreate(h) \/ LoadAndDecide(h)
    PROVE  SnapshotsHold'
<1>0. th[h].pc \in {"load", "rows"} /\ UNCHANGED <<kind, rows, room, snap, raced>>
  BY DEF LoadForCreate, LoadAndDecide
<1>1. ASSUME Return(h) \/ Fail(h) PROVE SnapshotsHold'
  <2>1. PICK x : /\ ThreadOK(x) /\ th' = [th EXCEPT ![h] = x] /\ x.pc \in {"idle", "check"}
    BY <1>0, <1>1, ReturnThread, FailThread DEF Fail
  <2>2. \A g \in Handlers : GoesOn(g)
    BY <2>1, OneGoesOn DEF Late
  <2> QED BY <1>0, <2>2, SameEvents, SnapshotsAgain
<1>2. ASSUME LoadForCreate(h) PROVE SnapshotsHold'
  <2> DEFINE d == Decide(Cmd(h), New(kind))
  <2>1. CASE hasKey /\ rows # <<>>
    BY <1>1, <1>2, <2>1 DEF LoadForCreate
  <2>2. CASE ~(hasKey /\ rows # <<>>) /\ ~d.ok
    BY <1>1, <1>2, <2>2 DEF LoadForCreate
  <2>3. CASE ~(hasKey /\ rows # <<>>) /\ d.ok
    <3>1. Decided(h, d.events, New(kind))
      BY <1>2, <2>3 DEF LoadForCreate
    <3>2. Answers(d, EventTypes(kind))
      BY <1>0, CommandAnswers
    <3>3. Events = <<>>
      <4>1. Len(rows) = 0
        BY <2>3, SeqOne DEF CommandInv, TypeOK, RowsOK
      <4>2. IsSeq(Events) /\ Len(Events) = 0
        BY <4>1, EventsOfRows DEF CommandInv, TypeOK
      <4> DEFINE ev == Events
      <4> HIDE DEF ev
      <4>3. IsSeq(ev) /\ Len(ev) = 0
        BY <4>2 DEF ev
      <4>4. ev = <<>>
        BY <4>3, SeqOne, SeqSame
      <4> QED BY <4>4 DEF ev
    <3>4. New(kind) = Replay(kind, Events)
      BY <3>3, AppliedNothing DEF Replay
    <3> HIDE DEF d
    <3> QED BY <1>0, <3>1, <3>2, <3>4, DecidedSnapshots
  <2> QED BY <2>1, <2>2, <2>3
<1>3. ASSUME LoadAndDecide(h) PROVE SnapshotsHold'
  <2> DEFINE a == Load(th[h].memory)
             d == Decide(Cmd(h), a)
  <2>1. CASE ~(MayDecide(a, th[h].known) /\ d.ok /\ hasKey)
    BY <1>1, <1>3, <2>1 DEF LoadAndDecide
  <2>2. CASE MayDecide(a, th[h].known) /\ d.ok /\ hasKey
    <3>1. Decided(h, d.events, a) /\ th[h].pc = "rows"
      BY <1>3, <2>2 DEF LoadAndDecide
    <3>2. Answers(d, EventTypes(kind))
      BY <1>0, CommandAnswers
    <3>3. ~raced /\ th[h].behind = FALSE => a = Replay(kind, Events)
      <4>1. th[h].behind = FALSE => th[h].memory \in InMemory
        BY <3>1 DEF InMemory
      <4> QED BY <4>1, LoadFromSnapshot DEF LoadIsReplay
    <3> HIDE DEF d, a
    <3> QED BY <1>0, <3>1, <3>2, <3>3, DecidedSnapshots
  <2> QED BY <2>1, <2>2
<1> QED BY <1>2, <1>3

\* The events of rows that are joined.
LEMMA EventsJoin ==
    ASSUME RowsOK, NEW e, NEW p, rows' = rows \o <<[event |-> e, pending |-> p]>>
    PROVE  Events' = Events \o <<e>>
<1> DEFINE r == [event |-> e, pending |-> p]
<1>0. r.event = e
  OBVIOUS
<1>1. rows' = rows \o <<r>>
  OBVIOUS
<1> HIDE DEF r
<1>2. /\ IsSeq(rows) /\ IsSeq(<<r>>) /\ Len(<<r>>) = 1 /\ <<r>>[1] = r /\ Len(rows) \in Nat
      /\ IsSeq(<<e>>) /\ Len(<<e>>) = 1 /\ <<e>>[1] = e
  BY SeqOne, SeqDomain DEF RowsOK
<1>3. /\ IsSeq(rows') /\ Len(rows') = Len(rows) + 1
      /\ \A i \in 1..Len(rows) : rows'[i] = rows[i]
      /\ rows'[Len(rows) + 1] = r
  <2> DEFINE t == <<r>>
  <2>1. IsSeq(t) /\ Len(t) = 1 /\ t[1] = r /\ rows' = rows \o t
    BY <1>1, <1>2
  <2> HIDE DEF t
  <2>2. /\ IsSeq(rows \o t) /\ Len(rows \o t) = Len(rows) + Len(t)
        /\ \A i \in 1..Len(rows) : (rows \o t)[i] = rows[i]
        /\ \A i \in 1..Len(t) : (rows \o t)[Len(rows) + i] = t[i]
    BY <1>2, <2>1, SeqJoin
  <2>3. (rows \o t)[Len(rows) + 1] = t[1]
    BY <2>1, <2>2
  <2> QED BY <2>1, <2>2, <2>3
<1> DEFINE old == Events
           new == [i \in 1..Len(rows') |-> rows'[i].event]
           t == <<e>>
           w == old \o t
<1>4. Events' = new
  BY DEF Events
<1>5. IsSeq(old) /\ Len(old) = Len(rows) /\ \A i \in 1..Len(rows) : old[i] = rows[i].event
  BY EventsOfRows
<1>6. IsSeq(new) /\ Len(new) = Len(rows) + 1
  <2>1. Len(rows') \in Nat
    BY <1>2, <1>3
  <2>2. IsSeq(new) /\ Len(new) = Len(rows')
    BY <2>1 DEF IsSeq
  <2> QED BY <1>3, <2>2
<1>7. \A i \in 1..(Len(rows) + 1) : new[i] = rows'[i].event
  BY <1>3
<1>8. IsSeq(t) /\ Len(t) = 1 /\ t[1] = e
  BY <1>2
<1> HIDE DEF old, new, t
<1>9. /\ IsSeq(w) /\ Len(w) = Len(old) + Len(t)
      /\ \A i \in 1..Len(old) : w[i] = old[i]
      /\ \A i \in 1..Len(t) : w[Len(old) + i] = t[i]
  <2>1. IsSeq(old) /\ IsSeq(t)
    BY <1>5, <1>8
  <2> QED BY <2>1, SeqJoin
<1> HIDE DEF w
<1>10. \A i \in 1..Len(new) : new[i] = w[i]
  <2> TAKE i \in 1..Len(new)
  <2>1. CASE i <= Len(rows)
    <3>1. i \in 1..Len(rows)
      BY <1>2, <1>6, <2>1
    <3> QED BY <1>2, <1>3, <1>5, <1>7, <1>9, <3>1
  <2>2. CASE i > Len(rows)
    <3>1. i = Len(rows) + 1
      BY <1>2, <1>6, <2>2
    <3> QED BY <1>0, <1>2, <1>3, <1>5, <1>7, <1>8, <1>9, <3>1
  <2> QED BY <1>2, <1>6, <2>1, <2>2
<1>11. Len(new) = Len(w)
  BY <1>5, <1>6, <1>8, <1>9
<1>12. new = w
  BY <1>6, <1>9, <1>10, <1>11, SeqSame
<1> QED BY <1>4, <1>12 DEF w, old, t

\* What was read stays good when rows are appended.
LEMMA GoodGrows ==
    ASSUME NEW s, s.version \in Nat, NEW r, NEW k, NEW ev, IsSeq(ev), NEW t, IsSeq(t),
           GoodFor(s, r, k, ev)
    PROVE  GoodFor(s, r, k, ev \o t)
<1> SUFFICES ASSUME s.version > 0
             PROVE  /\ r = 0 /\ s.version <= Len(ev \o t)
                    /\ s = Replay(k, SubSeq(ev \o t, 1, s.version))
  BY DEF GoodFor
<1>1. r = 0 /\ s.version <= Len(ev) /\ s = Replay(k, SubSeq(ev, 1, s.version))
  BY DEF GoodFor
<1>2. Len(ev) \in Nat /\ Len(t) \in Nat /\ Len(ev \o t) = Len(ev) + Len(t)
  BY SeqDomain, SeqJoin
<1>3. SubSeq(ev \o t, 1, s.version) = SubSeq(ev, 1, s.version)
  BY <1>1, SameStart
<1>4. s.version <= Len(ev \o t)
  <2> DEFINE m == Len(ev)
             n == Len(t)
             v == s.version
  <2>1. v \in Nat /\ m \in Nat /\ n \in Nat /\ v <= m
    BY <1>1, <1>2
  <2>2. v <= m + n
    <3> HIDE DEF m, n, v
    <3> QED BY <2>1
  <2> QED BY <1>2, <2>2
<1>5. s = Replay(k, SubSeq(ev \o t, 1, s.version))
  BY <1>1, <1>3, Zenon
<1> QED BY <1>1, <1>4, <1>5

\* A handler that is overtaken if it could still write.
FellBehind(x, y) ==
    /\ y.pc = x.pc /\ y.memory = x.memory /\ y.behind \in BOOLEAN
    /\ x.pc \in Late => y.behind = TRUE
    /\ y.behind = FALSE => x.behind = FALSE
OthersFallBehind(h) == \A g \in Handlers : g # h => FellBehind(th[g], th'[g])

LEMMA BehindGrows ==
    ASSUME CommandInv, SnapshotsHold, ~raced, NEW g \in Handlers, NEW t, IsSeq(Events), IsSeq(t),
           FellBehind(th[g], th'[g])
    PROVE  SoundFor(th'[g], room, kind, Events \o t)
<1>0. /\ th'[g].pc = th[g].pc /\ th'[g].memory = th[g].memory /\ th'[g].behind \in BOOLEAN
      /\ th[g].pc \in Late => th'[g].behind = TRUE
      /\ th'[g].behind = FALSE => th[g].behind = FALSE
  BY DEF FellBehind
<1>1. CASE th'[g].behind = TRUE \/ th'[g].pc \notin Late \cup {"rows"}
  BY <1>1, NothingHeld
<1>2. CASE th'[g].behind = FALSE /\ th'[g].pc = "rows"
  <2>1. GoodFor(th[g].memory, room, kind, Events) /\ th[g].memory.version \in Nat
    <3>1. SoundFor(th[g], room, kind, Events)
      BY DEF SnapshotsHold
    <3> QED BY <1>0, <1>2, <3>1 DEF SoundFor, CommandInv, DecisionOK, IsState
  <2>2. GoodFor(th'[g].memory, room, kind, Events \o t)
    BY <1>0, <2>1, GoodGrows
  <2> QED BY <1>2, <2>2 DEF SoundFor
<1> QED BY <1>0, <1>1, <1>2

LEMMA InsertGrows ==
    ASSUME CommandInv, NEW h \in Handlers, Insert(h)
    PROVE  /\ th[h].pc = "append" /\ raced' = (raced \/ th[h].behind)
           /\ UNCHANGED <<kind, room, snap, cmd, remote>>
           /\ th'[h] = Inserted(h) /\ OthersFallBehind(h)
           /\ Events' = Events \o th[h].out
           /\ \E e : th[h].out = <<e>>
<1> DEFINE f == [th EXCEPT ![h] = Inserted(h)]
<1>0. /\ th[h].pc = "append" /\ th' = Overtake(f, h, Late) /\ raced' = (raced \/ th[h].behind)
      /\ UNCHANGED <<kind, room, snap, cmd, remote>>
  BY DEF Insert, Inserted
<1>1. /\ ThreadOK(Inserted(h)) /\ Inserted(h).pc \in {"snapshot", "record"}
      /\ Inserted(h).pc = "snapshot" => Inserted(h).memory = th[h].memory
  BY <1>0, InsertedThread
<1>2. /\ DOMAIN f = Handlers /\ f[h] = Inserted(h)
      /\ \A g \in Handlers : g # h => f[g] = th[g]
  BY DEF CommandInv, TypeOK, HandlersOK
<1>3. f = [g \in Handlers |-> f[g]]
  BY DEF CommandInv, TypeOK, HandlersOK
<1> HIDE DEF f
<1>4. Threads(f)
  <2>1. \A g \in Handlers : f[g] = [x \in DOMAIN Idle |-> f[g][x]]
    BY <1>1, <1>2 DEF CommandInv, TypeOK, HandlersOK, ThreadOK, Shaped
  <2>2. \A g \in Handlers : f[g].behind \in BOOLEAN
    BY <1>1, <1>2 DEF CommandInv, TypeOK, HandlersOK, ThreadOK
  <2> QED BY <1>3, <2>1, <2>2 DEF Threads
<1>5. SameBut(f, h, Late)
  BY <1>0, <1>4, Overtaken
<1>6. th'[h] = Inserted(h)
  BY <1>2, <1>5 DEF SameBut
<1>7. OthersFallBehind(h)
  BY <1>2, <1>5 DEF SameBut, OthersFallBehind, FellBehind
<1> DEFINE e == th[h].out[1]
<1>8. Events' = Events \o <<e>>
  BY InsertRows, EventsJoin DEF CommandInv, TypeOK
<1>9. th[h].out = <<e>>
  <2>1. IsSeq(th[h].out) /\ Len(th[h].out) = 1
    BY <1>0 DEF CommandInv, DecisionOK, Holds
  <2> DEFINE out == th[h].out
  <2>2. IsSeq(out) /\ Len(out) = 1 /\ e = out[1]
    BY <2>1
  <2> HIDE DEF out, e
  <2>3. IsSeq(<<e>>) /\ Len(<<e>>) = 1 /\ <<e>>[1] = e
    BY SeqOne
  <2>4. \A i \in 1..Len(out) : out[i] = <<e>>[i]
    BY <2>2, <2>3
  <2>5. out = <<e>>
    <3> DEFINE t == <<e>>
    <3>1. IsSeq(t) /\ Len(t) = Len(out) /\ \A i \in 1..Len(out) : out[i] = t[i]
      BY <2>2, <2>3, <2>4
    <3> HIDE DEF t
    <3>2. out = t
      BY <2>2, <3>1, SeqSame
    <3> QED BY <3>2 DEF t
  <2> QED BY <2>5 DEF out
<1> HIDE DEF e
<1>10. Events' = Events \o th[h].out
  BY <1>8, <1>9
<1> QED BY <1>0, <1>6, <1>7, <1>9, <1>10

\* The handler that appends is the only one that may still write.
LEMMA InsertSnapshots ==
    ASSUME CommandInv, SnapshotsHold, NEW h \in Handlers, Insert(h)
    PROVE  SnapshotsHold'
<1>0. th[h].pc = "append" /\ raced' = (raced \/ th[h].behind) /\ UNCHANGED <<kind, room, snap>>
  BY InsertGrows
<1>1. /\ ThreadOK(Inserted(h)) /\ Inserted(h).pc \in {"snapshot", "record"}
      /\ Inserted(h).pc = "snapshot" => Inserted(h).memory = th[h].memory
  BY <1>0, InsertedThread
<1>2. th'[h] = Inserted(h) /\ OthersFallBehind(h)
  BY InsertGrows
<1>4. Events' = Events \o th[h].out
  BY InsertGrows
<1> DEFINE ev == Events \o th[h].out
<1> SUFFICES ASSUME ~raced, ~th[h].behind
             PROVE  /\ GoodFor(snap, room, kind, ev)
                    /\ \A g \in Handlers : SoundFor(th'[g], room, kind, ev)
  BY <1>0, <1>4 DEF SnapshotsHold
<1>5. IsSeq(Events) /\ IsSeq(th[h].out)
  BY <1>0, EventsOfRows DEF CommandInv, TypeOK, DecisionOK, Holds
<1>6. GoodFor(snap, room, kind, ev)
  <2>1. GoodFor(snap, room, kind, Events) /\ snap.version \in Nat
    BY DEF SnapshotsHold, CommandInv, IsState
  <2> QED BY <1>5, <2>1, GoodGrows
<1>7. ASSUME NEW g \in Handlers PROVE SoundFor(th'[g], room, kind, ev)
  <2>1. CASE g = h
    <3>1. th[h].memory = Replay(kind, ev) /\ room = 0
      <4>1. SoundFor(th[h], room, kind, Events)
        BY DEF SnapshotsHold
      <4> QED BY <1>0, <4>1 DEF SoundFor
    <3>2. th'[g].pc \in {"snapshot", "record"}
      BY <1>1, <1>2, <2>1
    <3>3. th'[g].pc = "snapshot" => th'[g].memory = th[h].memory
      BY <1>1, <1>2, <2>1
    <3> HIDE DEF ev
    <3> QED BY <3>1, <3>2, <3>3 DEF SoundFor
  <2>2. CASE g # h
    <3>1. FellBehind(th[g], th'[g])
      BY <1>2, <2>2 DEF OthersFallBehind
    <3> QED BY <1>5, <3>1, BehindGrows
  <2> QED BY <2>1, <2>2
<1> QED BY <1>6, <1>7

\* A transaction of the sync engine that frees a version takes the snapshot with
\* it, and nobody goes on with what was read before.
LEMMA MakeRoomSnapshots ==
    ASSUME CommandInv, SnapshotsHold, MakeRoom PROVE SnapshotsHold'
<1>0. /\ snap' = NoSnapshot /\ th' = Overtake(th, None, Late \cup {"rows"})
      /\ UNCHANGED <<kind, rows, cmd, raced>>
  BY DEF MakeRoom
<1>1. \A g \in Handlers : th[g].pc \in Late \cup {"rows"} => th'[g].behind = TRUE
  BY <1>0, OnlyOvertaken
<1>2. \A g \in Handlers : th'[g].pc = th[g].pc
  BY <1>0, OnlyOvertaken DEF NoneGotOn
<1>3. \A g \in Handlers : SoundFor(th'[g], room', kind', Events')
  BY <1>1, <1>2, NothingHeld
<1>4. GoodFor(snap', room', kind', Events')
  BY <1>0, NoneIsGood DEF NoSnapshot
<1> QED BY <1>3, <1>4 DEF SnapshotsHold

\* While there is room no snapshot holds, so that none is wrong once it is filled.
LEMMA FillRoomSnapshots ==
    ASSUME CommandInv, SnapshotsHold, NEW es \in [1..room -> Remote[kind]], FillRoom(es)
    PROVE  SnapshotsHold'
<1>0. /\ room > 0 /\ th' = Overtake(th, None, Late) /\ UNCHANGED <<kind, snap, cmd, raced>>
  BY DEF FillRoom
<1>1. \A g \in Handlers : th[g].pc \in Late => th'[g].behind = TRUE
  BY <1>0, OnlyOvertaken
<1>2. NoneGotOn /\ HandlersOK'
  BY <1>0, OnlyOvertaken
<1> SUFFICES ASSUME ~raced
             PROVE  /\ GoodFor(snap, room', kind, Events')
                    /\ \A g \in Handlers : SoundFor(th'[g], room', kind, Events')
  BY <1>0 DEF SnapshotsHold
<1>r. room \in Nat
  BY Versions DEF CommandInv, TypeOK
<1>3. ASSUME NEW s, IsState(s), GoodFor(s, room, kind, Events) PROVE s.version = 0
  BY <1>0, <1>3, <1>r DEF IsState, GoodFor
<1>4. GoodFor(snap, room', kind, Events')
  <2>1. GoodFor(snap, room, kind, Events) /\ IsState(snap)
    BY DEF SnapshotsHold, CommandInv
  <2>2. snap.version = 0
    BY <1>3, <2>1
  <2> QED BY <2>2, NoneIsGood
<1>5. ASSUME NEW g \in Handlers PROVE SoundFor(th'[g], room', kind, Events')
  <2>0. /\ th'[g].pc = th[g].pc /\ th'[g].memory = th[g].memory
        /\ th'[g].behind = FALSE => th[g].behind = FALSE
        /\ th'[g].behind \in BOOLEAN
    BY <1>2 DEF NoneGotOn, HandlersOK
  <2>1. CASE th'[g].behind = TRUE \/ th'[g].pc \notin Late \cup {"rows"}
    BY <2>1, NothingHeld
  <2>2. CASE th'[g].behind = FALSE /\ th'[g].pc = "rows"
    <3>1. GoodFor(th[g].memory, room, kind, Events) /\ IsState(th[g].memory)
      <4>1. SoundFor(th[g], room, kind, Events)
        BY DEF SnapshotsHold
      <4> QED BY <2>0, <2>2, <4>1 DEF SoundFor, CommandInv, DecisionOK
    <3>2. th[g].memory.version = 0
      BY <1>3, <3>1
    <3>3. GoodFor(th'[g].memory, room', kind, Events')
      BY <2>0, <3>2, NoneIsGood
    <3> QED BY <2>2, <3>3 DEF SoundFor
  <2> QED BY <1>1, <2>0, <2>1, <2>2
<1> QED BY <1>4, <1>5

LEMMA RemoteSnapshots ==
    ASSUME CommandInv, SnapshotsHold, NEW e \in Remote[kind], RemoteEvent(e)
    PROVE  SnapshotsHold'
<1>0. /\ rows' = Append(rows, [event |-> e, pending |-> FALSE])
      /\ th' = Overtake(th, None, Late) /\ UNCHANGED <<kind, room, snap, cmd, raced>>
  BY DEF RemoteEvent
<1>1. /\ \A g \in Handlers : th[g].pc \in Late => th'[g].behind = TRUE
      /\ NoneGotOn /\ HandlersOK'
  BY <1>0, OnlyOvertaken
<1>2. Events' = Events \o <<e>>
  <2>1. IsSeq(rows) /\ RowsOK
    BY DEF CommandInv, TypeOK, RowsOK
  <2>2. rows' = rows \o <<[event |-> e, pending |-> FALSE]>>
    BY <1>0, <2>1, AppendJoins
  <2> QED BY <2>1, <2>2, EventsJoin
<1> DEFINE t == <<e>>
           ev == Events \o t
<1>3. IsSeq(t) /\ IsSeq(Events) /\ Events' = ev
  BY <1>2, SeqOne, EventsOfRows DEF CommandInv, TypeOK
<1> HIDE DEF t
<1> SUFFICES ASSUME ~raced
             PROVE  /\ GoodFor(snap, room, kind, ev)
                    /\ \A g \in Handlers : SoundFor(th'[g], room, kind, ev)
  BY <1>0, <1>3 DEF SnapshotsHold
<1>4. GoodFor(snap, room, kind, ev)
  <2>1. GoodFor(snap, room, kind, Events) /\ snap.version \in Nat
    BY DEF SnapshotsHold, CommandInv, IsState
  <2> QED BY <1>3, <2>1, GoodGrows
<1>5. ASSUME NEW g \in Handlers PROVE SoundFor(th'[g], room, kind, ev)
  <2>1. FellBehind(th[g], th'[g])
    BY <1>1 DEF FellBehind, NoneGotOn, HandlersOK
  <2> QED BY <1>3, <2>1, BehindGrows
<1> QED BY <1>4, <1>5

LEMMA InitSnapshots == Init => SnapshotsHold
<1> SUFFICES ASSUME Init PROVE SnapshotsHold
  OBVIOUS
<1>1. snap.version = 0 /\ \A h \in Handlers : th[h].pc = "idle"
  BY IdleFields DEF Init, NoSnapshot
<1>2. \A h \in Handlers : SoundFor(th[h], room, kind, Events)
  BY <1>1, NothingHeld DEF Late
<1>3. GoodFor(snap, room, kind, Events)
  BY <1>1, NoneIsGood
<1> QED BY <1>2, <1>3 DEF SnapshotsHold

LEMMA StepSnapshots == CommandInv /\ SnapshotsHold /\ [Next]_vars => SnapshotsHold'
<1> SUFFICES ASSUME CommandInv, SnapshotsHold, [Next]_vars PROVE SnapshotsHold'
  OBVIOUS
<1>1. CASE UNCHANGED vars
  <2>1. UNCHANGED <<kind, rows, room, snap, th, raced>>
    BY <1>1 DEF vars
  <2> QED BY <2>1, SameEvents, StillGoOn, SnapshotsAgain
<1>2. ASSUME NEW h \in Handlers, NEW k \in Keys,
             SubmitCreate(h, k) \/ Submit(h, k) \/ Resend(h, k)
      PROVE  SnapshotsHold'
  BY <1>2, SendSnapshots
<1>3. ASSUME NEW h \in Handlers, NEW j \in Keys, NEW k \in Keys, SubmitForm(h, j, k)
      PROVE  SnapshotsHold'
  BY <1>3, SendSnapshots
<1>4. ASSUME NEW h \in Handlers, CheckDuplicate(h) \/ LoadForCreate(h)
             \/ ReadSnapshot(h) \/ LoadAndDecide(h)
      PROVE  SnapshotsHold'
  BY <1>4, CalmSnapshots, ReadSnapshots, LoadSnapshots DEF Calm
<1>5. ASSUME NEW h \in Handlers,
             PurgeCorruptSnapshot(h) \/ SaveAggregateKey(h) \/ ReadMaxVersion(h)
      PROVE  SnapshotsHold'
  BY <1>5, CalmSnapshots DEF Calm
<1>6. ASSUME NEW h \in Handlers, Insert(h) \/ Conflict(h) \/ PersistSnapshot(h)
      PROVE  SnapshotsHold'
  BY <1>6, InsertSnapshots, CalmSnapshots, PersistSnapshots DEF Calm
<1>7. ASSUME NEW h \in Handlers, RecordLookup(h) \/ RecordInsert(h) \/ Crash(h)
      PROVE  SnapshotsHold'
  BY <1>7, CalmSnapshots DEF Calm
<1>8. ASSUME NEW e \in Remote[kind], RemoteEvent(e) PROVE SnapshotsHold'
  BY <1>8, RemoteSnapshots
<1>9. CASE Pushed
  BY <1>9, PushedSnapshots
<1>10. CASE MakeRoom
  BY <1>10, MakeRoomSnapshots
<1>11. ASSUME NEW es \in [1..room -> Remote[kind]], FillRoom(es) PROVE SnapshotsHold'
  BY <1>11, FillRoomSnapshots
<1> QED BY <1>1, <1>2, <1>3, <1>4, <1>5, <1>6, <1>7, <1>8, <1>9, <1>10, <1>11 DEF Next

\* As long as no handler wrote what it had decided before another write, or while
\* the sync engine was about to insert rows before others, load() answers the
\* replay of all rows, also to a handler that has read the snapshot and not yet
\* the rows: neither snapshots nor the two transactions of the sync engine, a
\* handler that stops between append and snapshot, or a purged snapshot can be seen.
THEOREM LoadsAreReplays == Spec => []LoadIsReplay
<1>1. Spec => [](CommandInv /\ SnapshotsHold)
  BY InitCommands, StepCommands, InitSnapshots, StepSnapshots, PTL DEF Spec
<1>2. CommandInv /\ SnapshotsHold => LoadIsReplay
  BY LoadFromSnapshot
<1> QED BY <1>1, <1>2, PTL

-----------------------------------------------------------------------------
(* The rules of the aggregates over whole histories *)

Turns(s) == {i \in 1..Len(s) : s[i].type \in {"GoalAchieved", "GoalUnachieved"}}

\* The goal a history leads to: archived after its last event at most, achieved
\* if its last turn says so.
GoalFits(a, s) ==
    /\ a = [version |-> a.version, summary |-> a.summary, slice |-> a.slice,
            targetMonth |-> a.targetMonth, priority |-> a.priority,
            achieved |-> a.achieved, archived |-> a.archived, access |-> a.access]
    /\ a.version \in Nat /\ a.achieved \in BOOLEAN /\ a.archived \in BOOLEAN
    /\ s # <<>> => a.summary # None
    /\ ~a.archived => \A i \in 1..Len(s) : s[i].type # "GoalArchived"
    /\ a.achieved => Turns(s) # {}
    /\ \A i \in Turns(s) :
           (\A j \in Turns(s) : j <= i) => (a.achieved <=> s[i].type = "GoalAchieved")

MilestoneOK(m) == m = [id |-> m.id, name |-> m.name, date |-> m.date] /\ m.date \in Int

\* The project a history leads to.
ProjectFits(a, s) ==
    /\ a = [version |-> a.version, name |-> a.name, status |-> a.status, start |-> a.start,
            target |-> a.target, description |-> a.description, goalId |-> a.goalId,
            milestones |-> a.milestones, archived |-> a.archived, throws |-> a.throws]
    /\ a.version \in Nat /\ a.start \in Int /\ a.target \in Int
    /\ a.archived \in BOOLEAN /\ a.throws = FALSE
    /\ IsSeq(a.milestones) /\ \A i \in 1..Len(a.milestones) : MilestoneOK(a.milestones[i])
    /\ s # <<>> => a.name # None
    /\ ~a.archived => \A i \in 1..Len(s) : s[i].type # "ProjectArchived"

\* A history the commands of the aggregate lead to.
Lawful(k, s) ==
    /\ IsSeq(s)
    /\ \A i \in 1..Len(s) : s[i].type \in EventTypes(k)
    /\ Legal(k, s)
    /\ Shown(k, s) = Visible(k, Replay(k, s))
    /\ k = "goal" => GoalFits(Replay(k, s), s)
    /\ k = "project" => ProjectFits(Replay(k, s), s)

\* The rows are such a history, and stay one when a handler that nobody overtook
\* appends what it decided.
LawfulInv ==
    ~raced /\ remote = 0 =>
        /\ Lawful(kind, Events)
        /\ \A h \in Handlers :
               Holds(h) /\ ~th[h].behind => Lawful(kind, Events \o th[h].out)

\* A history with one more event.
LEMMA Grown ==
    ASSUME NEW s, IsSeq(s), NEW e
    PROVE  /\ IsSeq(s \o <<e>>) /\ Len(s) \in Nat /\ Len(s \o <<e>>) = Len(s) + 1
           /\ \A i \in 1..Len(s) : (s \o <<e>>)[i] = s[i]
           /\ (s \o <<e>>)[Len(s) + 1] = e
           /\ s \o <<e>> # <<>>
<1> DEFINE t == <<e>>
<1>1. IsSeq(t) /\ Len(t) = 1 /\ t[1] = e /\ Len(s) \in Nat /\ Len(<<>>) = 0
  BY SeqOne, SeqDomain
<1> HIDE DEF t
<1>2. /\ IsSeq(s \o t) /\ Len(s \o t) = Len(s) + Len(t)
      /\ \A i \in 1..Len(s) : (s \o t)[i] = s[i]
      /\ \A i \in 1..Len(t) : (s \o t)[Len(s) + i] = t[i]
  <2>1. IsSeq(s) /\ IsSeq(t)
    BY <1>1
  <2> QED BY <2>1, SeqJoin
<1>3. (s \o t)[Len(s) + 1] = e
  BY <1>1, <1>2
<1>4. Len(s \o t) # Len(<<>>)
  BY <1>1, <1>2
<1>5. s \o t # <<>>
  BY <1>4
<1> QED BY <1>1, <1>2, <1>3, <1>5 DEF t

\* w is s with one more event.
Continues(w, s, e) ==
    /\ IsSeq(s) /\ IsSeq(w) /\ Len(s) \in Nat /\ Len(w) = Len(s) + 1 /\ w # <<>>
    /\ \A i \in 1..Len(s) : w[i] = s[i]
    /\ w[Len(s) + 1] = e

LEMMA NothingAfterArchive ==
    ASSUME NEW w, NEW s, NEW e, Continues(w, s, e), NEW ends,
           \A i \in 1..Len(s) : s[i].type \notin ends
    PROVE  \A i, j \in 1..Len(w) : i < j => w[i].type \notin ends
<1> SUFFICES ASSUME NEW i \in 1..Len(w), NEW j \in 1..Len(w), i < j PROVE w[i].type \notin ends
  OBVIOUS
<1>1. i \in 1..Len(s)
  BY DEF Continues
<1> QED BY <1>1 DEF Continues

LEMMA NothingIsEmpty == ASSUME NEW s, IsSeq(s), Len(s) = 0 PROVE s = <<>>
  BY SeqOne, SeqSame

-----------------------------------------------------------------------------
(* Goals *)

LEMMA TurnsGrow ==
    ASSUME NEW w, NEW s, NEW e, Continues(w, s, e)
    PROVE  /\ Turns(s) \subseteq 1..Len(s)
           /\ Turns(w) = Turns(s) \cup
                  (IF e.type \in {"GoalAchieved", "GoalUnachieved"} THEN {Len(s) + 1} ELSE {})
<1>1. 1..Len(w) = 1..Len(s) \cup {Len(s) + 1}
  BY DEF Continues
<1>2. \A i \in 1..Len(s) : i \in Turns(w) <=> i \in Turns(s)
  BY <1>1 DEF Turns, Continues
<1>3. Len(s) + 1 \in Turns(w) <=> e.type \in {"GoalAchieved", "GoalUnachieved"}
  BY <1>1 DEF Turns, Continues
<1>4. Turns(s) \subseteq 1..Len(s) /\ Turns(w) \subseteq 1..Len(w)
  BY DEF Turns
<1> HIDE DEF Turns
<1> QED BY <1>1, <1>2, <1>3, <1>4

\* The next turn is the other one than the last.
LEMMA AlternatesOn ==
    ASSUME NEW w, NEW s, NEW e, Continues(w, s, e), Alternates(s),
           e.type = "GoalUnachieved" => Turns(s) # {},
           \A i \in Turns(s) : (\A j \in Turns(s) : j <= i) => s[i].type # e.type
    PROVE  Alternates(w)
<1> DEFINE n == Len(s) + 1
<1>0. n \in Nat /\ \A i \in 1..Len(s) : i \in Nat /\ i < n
  BY DEF Continues
<1>1. /\ Turns(s) \subseteq 1..Len(s)
      /\ Turns(w) = Turns(s) \cup (IF e.type \in {"GoalAchieved", "GoalUnachieved"} THEN {n} ELSE {})
  BY TurnsGrow
<1>2. \A j \in Turns(s) :
        /\ (\A i \in Turns(s) : j <= i) => s[j].type = "GoalAchieved"
        /\ \A i \in Turns(s) : i < j /\ (\A t \in Turns(s) : t <= i \/ j <= t) => s[i].type # s[j].type
  BY DEF Alternates, Turns
<1>3. w[n] = e /\ \A i \in Turns(s) : w[i] = s[i]
  BY <1>1 DEF Continues
<1>4. \A i \in Turns(w) : w[i].type \in {"GoalAchieved", "GoalUnachieved"}
  BY DEF Turns
<1> SUFFICES ASSUME NEW j \in Turns(w)
             PROVE  /\ (\A i \in Turns(w) : j <= i) => w[j].type = "GoalAchieved"
                    /\ \A i \in Turns(w) : i < j /\ (\A t \in Turns(w) : t <= i \/ j <= t)
                                           => w[i].type # w[j].type
  BY DEF Alternates, Turns
<1> HIDE DEF n
<1>5. CASE j \in Turns(s)
  <2>1. (\A i \in Turns(w) : j <= i) => w[j].type = "GoalAchieved"
    BY <1>1, <1>2, <1>3, <1>5
  <2>2. ASSUME NEW i \in Turns(w), i < j, \A t \in Turns(w) : t <= i \/ j <= t
        PROVE  w[i].type # w[j].type
    <3>1. i \in Turns(s)
      BY <1>0, <1>1, <1>5, <2>2
    <3> QED BY <1>1, <1>2, <1>3, <1>5, <2>2, <3>1
  <2> QED BY <2>1, <2>2
<1>6. CASE j = n
  <2>1. ASSUME \A i \in Turns(w) : j <= i PROVE w[j].type = "GoalAchieved"
    <3>1. Turns(s) = {}
      BY <1>0, <1>1, <1>6, <2>1
    <3>2. e.type # "GoalUnachieved"
      BY <3>1
    <3> QED BY <1>3, <1>4, <1>6, <3>2
  <2>2. ASSUME NEW i \in Turns(w), i < j, \A t \in Turns(w) : t <= i \/ j <= t
        PROVE  w[i].type # w[j].type
    <3>1. i \in Turns(s)
      BY <1>0, <1>1, <1>6, <2>2
    <3>2. \A t \in Turns(s) : t <= i
      BY <1>0, <1>1, <1>6, <2>2
    <3> QED BY <1>3, <1>6, <3>1, <3>2
  <2> QED BY <2>1, <2>2
<1> QED BY <1>1, <1>5, <1>6

\* An event an unarchived goal may emit.
GoalEdit(a, e) ==
    \/ e.type = "GoalRefined" /\ e.value # None
    \/ e.type \in {"GoalRecategorized", "GoalRescheduled", "GoalPrioritized", "GoalArchived",
                   "GoalAccessGranted", "GoalAccessRevoked"}
    \/ e.type = "GoalAchieved" /\ ~a.achieved
    \/ e.type = "GoalUnachieved" /\ a.achieved

LEMMA EmitOne ==
    ASSUME NEW p, NEW x, NEW e, Emit(p, x).ok, Emit(p, x).events = <<e>>
    PROVE  p /\ e = x
  BY DEF Emit

LEMMA GoalEmits ==
    ASSUME NEW c, c.type \in GoalCommands, ValidCommand(c), NEW a, NEW e,
           Decide(c, a).ok, Decide(c, a).events = <<e>>
    PROVE  /\ IsCreate(c) => e.type = "GoalCreated" /\ e.value # None
           /\ ~IsCreate(c) => ~a.archived /\ GoalEdit(a, e)
<1> USE DEF IsCreate
<1>1. CASE c.type = "CreateGoal"
  <2>1. Decide(c, a) = Emit(TRUE, GoalCreated(c.value))
    BY <1>1 DEF Decide, createGoal, GoalEdits, ProjectEdits
  <2>2. e = GoalCreated(c.value)
    BY <2>1 DEF Emit
  <2> QED BY <1>1, <2>2 DEF GoalCreated, ValidCommand
<1>2. CASE c.type \in GoalEdits
  <2>1. Decide(c, a) = DecideGoalEdit(c, a)
    BY <1>2 DEF Decide, GoalEdits, ProjectEdits
  <2>2. CASE c.type = "ChangeGoalSummary"
    <3>1. Decide(c, a) = Emit(~a.archived /\ c.value # a.summary, GoalRefined(c.value))
      BY <2>1, <2>2 DEF DecideGoalEdit, changeSummary
    <3>2. ~a.archived /\ e = GoalRefined(c.value)
      BY <3>1 DEF Emit
    <3> QED BY <2>2, <3>2 DEF GoalRefined, ValidCommand, GoalEdit
  <2>3. CASE c.type = "ChangeGoalSlice"
    <3>1. Decide(c, a) = Emit(~a.archived /\ c.value # a.slice, GoalRecategorized(c.value))
      BY <2>1, <2>3 DEF DecideGoalEdit, changeSlice
    <3>2. ~a.archived /\ e = GoalRecategorized(c.value)
      BY <3>1 DEF Emit
    <3> QED BY <2>3, <3>2 DEF GoalRecategorized, GoalEdit
  <2>4. CASE c.type = "ChangeGoalTargetMonth"
    <3>1. Decide(c, a) = Emit(~a.archived /\ c.value # a.targetMonth, GoalRescheduled(c.value))
      BY <2>1, <2>4 DEF DecideGoalEdit, changeTargetMonth
    <3>2. ~a.archived /\ e = GoalRescheduled(c.value)
      BY <3>1 DEF Emit
    <3> QED BY <2>4, <3>2 DEF GoalRescheduled, GoalEdit
  <2>5. CASE c.type = "ChangeGoalPriority"
    <3>1. Decide(c, a) = Emit(~a.archived /\ c.value # a.priority, GoalPrioritized(c.value))
      BY <2>1, <2>5 DEF DecideGoalEdit, changePriority
    <3>2. ~a.archived /\ e = GoalPrioritized(c.value)
      BY <3>1 DEF Emit
    <3> QED BY <2>5, <3>2 DEF GoalPrioritized, GoalEdit
  <2> QED BY <1>2, <2>2, <2>3, <2>4, <2>5 DEF GoalEdits
<1>3. CASE c.type = "ArchiveGoal"
  <2>1. Decide(c, a) = IF a.archived THEN Nothing ELSE Emit(TRUE, GoalArchived)
    BY <1>3 DEF Decide, DecideGoalStatus, archiveGoal, GoalEdits, ProjectEdits
  <2>2. ~a.archived
    <3>1. Nothing.events # <<e>>
      BY DEF Nothing
    <3> QED BY <2>1, <3>1
  <2>3. e = GoalArchived
    BY <2>1, <2>2 DEF Emit
  <2> QED BY <1>3, <2>2, <2>3 DEF GoalArchived, GoalEdit
<1>4. CASE c.type = "AchieveGoal"
  <2>1. Decide(c, a) = Emit(~a.archived /\ ~a.achieved, GoalAchieved)
    BY <1>4 DEF Decide, DecideGoalStatus, achieve, GoalEdits, ProjectEdits
  <2>2. ~a.archived /\ ~a.achieved /\ e = GoalAchieved
    BY <2>1 DEF Emit
  <2> QED BY <1>4, <2>2 DEF GoalAchieved, GoalEdit
<1>5. CASE c.type = "UnachieveGoal"
  <2>1. Decide(c, a) = Emit(~a.archived /\ a.achieved, GoalUnachieved)
    BY <1>5 DEF Decide, DecideGoalStatus, unachieve, GoalEdits, ProjectEdits
  <2>2. ~a.archived /\ a.achieved /\ e = GoalUnachieved
    BY <2>1 DEF Emit
  <2> QED BY <1>5, <2>2 DEF GoalUnachieved, GoalEdit
<1>6. CASE c.type = "GrantGoalAccess"
  <2>1. Decide(c, a) = Emit(~a.archived /\ c.user \notin a.access, GoalAccessGranted(c.user))
    BY <1>6 DEF Decide, DecideGoalAccess, grantAccess, GoalEdits, ProjectEdits
  <2>2. ~a.archived /\ e = GoalAccessGranted(c.user)
    BY <2>1 DEF Emit
  <2> QED BY <1>6, <2>2 DEF GoalAccessGranted, GoalEdit
<1>7. CASE c.type = "RevokeGoalAccess"
  <2>1. Decide(c, a) = Emit(~a.archived /\ c.user \in a.access, GoalAccessRevoked(c.user))
    BY <1>7 DEF Decide, DecideGoalAccess, revokeAccess, GoalEdits, ProjectEdits
  <2>2. ~a.archived /\ e = GoalAccessRevoked(c.user)
    BY <2>1 DEF Emit
  <2> QED BY <1>7, <2>2 DEF GoalAccessRevoked, GoalEdit
<1> QED BY <1>1, <1>2, <1>3, <1>4, <1>5, <1>6, <1>7 DEF GoalCommands

\* What an event makes of a goal.
GoalStep(a, e, b) ==
    /\ b = [version |-> b.version, summary |-> b.summary, slice |-> b.slice,
            targetMonth |-> b.targetMonth, priority |-> b.priority,
            achieved |-> b.achieved, archived |-> b.archived, access |-> b.access]
    /\ b.version = a.version + 1
    /\ b.summary = IF e.type \in {"GoalCreated", "GoalRefined"} THEN e.value ELSE a.summary
    /\ b.slice = IF e.type \in {"GoalCreated", "GoalRecategorized"} THEN e.value ELSE a.slice
    /\ b.targetMonth =
           IF e.type \in {"GoalCreated", "GoalRescheduled"} THEN e.value ELSE a.targetMonth
    /\ b.priority = IF e.type \in {"GoalCreated", "GoalPrioritized"} THEN e.value ELSE a.priority
    /\ b.achieved = IF e.type = "GoalAchieved" THEN TRUE
                    ELSE IF e.type = "GoalUnachieved" THEN FALSE ELSE a.achieved
    /\ b.archived = IF e.type = "GoalArchived" THEN TRUE ELSE a.archived

LEMMA GoalAfter ==
    ASSUME NEW a, NEW s, GoalFits(a, s), NEW e, e.type \in GoalEventTypes, NEW b, b = On("goal", a, e)
    PROVE  GoalStep(a, e, b)
<1> DEFINE x == OnGoalEvent(a, e)
<1>1. b = [x EXCEPT !.version = @ + 1]
  BY DEF On
<1>2. /\ x = [version |-> x.version, summary |-> x.summary, slice |-> x.slice,
              targetMonth |-> x.targetMonth, priority |-> x.priority,
              achieved |-> x.achieved, archived |-> x.archived, access |-> x.access]
      /\ x.version = a.version
      /\ x.summary = IF e.type \in {"GoalCreated", "GoalRefined"} THEN e.value ELSE a.summary
      /\ x.slice = IF e.type \in {"GoalCreated", "GoalRecategorized"} THEN e.value ELSE a.slice
      /\ x.targetMonth =
             IF e.type \in {"GoalCreated", "GoalRescheduled"} THEN e.value ELSE a.targetMonth
      /\ x.priority = IF e.type \in {"GoalCreated", "GoalPrioritized"} THEN e.value ELSE a.priority
      /\ x.achieved = IF e.type = "GoalAchieved" THEN TRUE
                      ELSE IF e.type = "GoalUnachieved" THEN FALSE ELSE a.achieved
      /\ x.archived = IF e.type = "GoalArchived" THEN TRUE ELSE a.archived
  BY DEF GoalFits, GoalEventTypes, OnGoalEvent
<1> HIDE DEF x
<1> QED BY <1>1, <1>2 DEF GoalStep

\* A goal without its access list.
LEMMA GoalExcept ==
    ASSUME NEW a,
           a = [version |-> a.version, summary |-> a.summary, slice |-> a.slice,
                targetMonth |-> a.targetMonth, priority |-> a.priority,
                achieved |-> a.achieved, archived |-> a.archived, access |-> a.access]
    PROVE  [a EXCEPT !.access = {}] =
               [version |-> a.version, summary |-> a.summary, slice |-> a.slice,
                targetMonth |-> a.targetMonth, priority |-> a.priority,
                achieved |-> a.achieved, archived |-> a.archived, access |-> {}]
<1>1. PICK v, s, l, t, p, c, r, x :
          a = [version |-> v, summary |-> s, slice |-> l, targetMonth |-> t, priority |-> p,
               achieved |-> c, archived |-> r, access |-> x]
  OBVIOUS
<1>2. [a EXCEPT !.access = {}] =
          [version |-> v, summary |-> s, slice |-> l, targetMonth |-> t, priority |-> p,
           achieved |-> c, archived |-> r, access |-> {}]
  BY <1>1
<1>3. /\ a.version = v /\ a.summary = s /\ a.slice = l /\ a.targetMonth = t
      /\ a.priority = p /\ a.achieved = c /\ a.archived = r
  BY <1>1
<1> QED BY <1>2, <1>3, Zenon

\* The read model's step and the goal's lead to what is shown of the same goal.
LEMMA GoalShown ==
    ASSUME NEW a, NEW s, GoalFits(a, s), NEW e, e.type \in GoalEventTypes,
           \/ e.type = "GoalCreated" /\ a = NewGoal
           \/ e.type # "GoalCreated" /\ a.summary # None
    PROVE  applyEventToSnapshot([a EXCEPT !.access = {}], e) = [On("goal", a, e) EXCEPT !.access = {}]
<1> DEFINE b == On("goal", a, e)
           v == [a EXCEPT !.access = {}]
           r == applyEventToSnapshot(v, e)
           p == [b EXCEPT !.access = {}]
<1>1. GoalStep(a, e, b)
  BY GoalAfter
<1> USE DEF GoalStep
<1> HIDE DEF b
<1>2. p = [version |-> b.version, summary |-> b.summary, slice |-> b.slice,
           targetMonth |-> b.targetMonth, priority |-> b.priority,
           achieved |-> b.achieved, archived |-> b.archived, access |-> {}]
  BY <1>1, GoalExcept
<1>3. v = [version |-> a.version, summary |-> a.summary, slice |-> a.slice,
           targetMonth |-> a.targetMonth, priority |-> a.priority,
           achieved |-> a.achieved, archived |-> a.archived, access |-> {}]
  BY GoalExcept DEF GoalFits
<1> HIDE DEF v, p
<1>4. CASE e.type = "GoalCreated"
  <2>1. r = [NewGoal EXCEPT !.version = v.version + 1, !.summary = e.value, !.slice = e.value,
                            !.targetMonth = e.value, !.priority = e.value]
    BY <1>4 DEF applyEventToSnapshot
  <2> HIDE DEF r
  <2>2. a = NewGoal /\ v.version = a.version
    BY <1>3, <1>4
  <2>3. r = [version |-> 1, summary |-> e.value, slice |-> e.value, targetMonth |-> e.value,
             priority |-> e.value, achieved |-> FALSE, archived |-> FALSE, access |-> {}]
    <3>1. v.version + 1 = 1
      BY <2>2 DEF NewGoal
    <3>2. r = [NewGoal EXCEPT !.version = 1, !.summary = e.value, !.slice = e.value,
                              !.targetMonth = e.value, !.priority = e.value]
      BY <2>1, <3>1
    <3> QED BY <3>2 DEF NewGoal
  <2>4. /\ b.version = 1 /\ b.summary = e.value /\ b.slice = e.value
        /\ b.targetMonth = e.value /\ b.priority = e.value
        /\ b.achieved = FALSE /\ b.archived = FALSE
    BY <1>1, <1>4, <2>2 DEF NewGoal
  <2>5. r = p
    BY <1>2, <2>3, <2>4
  <2> QED BY <2>5 DEF r, v, p, b
<1>5. CASE e.type # "GoalCreated"
  <2> DEFINE t == [v EXCEPT !.version = @ + 1]
  <2>1. t = [version |-> a.version + 1, summary |-> a.summary, slice |-> a.slice,
             targetMonth |-> a.targetMonth, priority |-> a.priority,
             achieved |-> a.achieved, archived |-> a.archived, access |-> {}]
    BY <1>3
  <2>2. r = CASE e.type = "GoalRefined" -> [t EXCEPT !.summary = e.value]
              [] e.type = "GoalRecategorized" -> [t EXCEPT !.slice = e.value]
              [] e.type = "GoalRescheduled" -> [t EXCEPT !.targetMonth = e.value]
              [] e.type = "GoalPrioritized" -> [t EXCEPT !.priority = e.value]
              [] e.type \in {"GoalAchieved", "GoalUnachieved"} ->
                     [t EXCEPT !.achieved = (e.type = "GoalAchieved")]
              [] e.type = "GoalArchived" -> [t EXCEPT !.archived = TRUE]
              [] OTHER -> t
    BY <1>3, <1>5 DEF applyEventToSnapshot
  <2> HIDE DEF r, t
  <2>3. r = p
    BY <1>1, <1>2, <1>5, <2>1, <2>2 DEF GoalEventTypes
  <2> QED BY <2>3 DEF r, v, p, b
<1> QED BY <1>4, <1>5

\* A lawful history stays one with the event a command emits.
LEMMA GoalGoesOn ==
    ASSUME NEW s, Lawful("goal", s), NEW e, e.type \in GoalEventTypes,
           \/ s = <<>> /\ e.type = "GoalCreated" /\ e.value # None
           \/ s # <<>> /\ ~Replay("goal", s).archived /\ GoalEdit(Replay("goal", s), e)
    PROVE  Lawful("goal", s \o <<e>>)
<1> DEFINE w == s \o <<e>>
           a == Replay("goal", s)
           b == Replay("goal", w)
<1>0. IsSeq(s)
  BY DEF Lawful
<1>1. Continues(w, s, e)
  BY <1>0, Grown DEF Continues
<1>2. b = On("goal", a, e) /\ Shown("goal", w) = Shows("goal", Shown("goal", s), e)
  BY <1>0, ReplayGrows
<1>3. s = <<>> => a = NewGoal /\ Len(s) = 0
  BY ReplayOfNothing, SeqOne DEF New
<1>4. GoalFits(a, s) /\ Alternates(s) /\ Shown("goal", s) = [a EXCEPT !.access = {}]
  BY DEF Lawful, Legal, Visible
<1>5. ~a.archived
  BY <1>3 DEF NewGoal
<1> HIDE DEF w, a, b
<1>6. GoalStep(a, e, b)
  <2>1. GoalFits(a, s) /\ b = On("goal", a, e) /\ e.type \in GoalEventTypes
    BY <1>2, <1>4
  <2> QED BY <2>1, GoalAfter
<1> USE DEF GoalStep
<1>7. /\ Turns(s) \subseteq 1..Len(s)
      /\ Turns(w) = Turns(s) \cup
             (IF e.type \in {"GoalAchieved", "GoalUnachieved"} THEN {Len(s) + 1} ELSE {})
  BY <1>1, TurnsGrow
<1>8. /\ e.type = "GoalAchieved" => ~a.achieved
      /\ e.type = "GoalUnachieved" => a.achieved
  BY DEF GoalEdit, a
<1>9. GoalFits(b, w)
  <2>1. b.version \in Nat /\ b.achieved \in BOOLEAN /\ b.archived \in BOOLEAN
    <3>1. a.version \in Nat /\ a.achieved \in BOOLEAN /\ a.archived \in BOOLEAN
      BY <1>4 DEF GoalFits
    <3>2. b.version \in Nat
      BY <1>6, <3>1
    <3>3. b.achieved \in {TRUE, FALSE, a.achieved} /\ b.archived \in {TRUE, a.archived}
      BY <1>6, Zenon
    <3> QED BY <3>1, <3>2, <3>3
  <2>2. b.summary # None
    <3>1. CASE s = <<>>
      BY <1>6, <3>1
    <3>2. CASE s # <<>>
      BY <1>4, <1>6, <3>2 DEF GoalFits, GoalEdit, a
    <3> QED BY <3>1, <3>2
  <2>3. ~b.archived => \A i \in 1..Len(w) : w[i].type # "GoalArchived"
    <3> SUFFICES ASSUME ~b.archived, NEW i \in 1..Len(w) PROVE w[i].type # "GoalArchived"
      OBVIOUS
    <3>1. CASE i \in 1..Len(s)
      BY <1>1, <1>4, <1>5, <3>1 DEF GoalFits, Continues
    <3>2. CASE i = Len(s) + 1
      BY <1>1, <1>6, <3>2 DEF Continues
    <3> QED BY <1>1, <3>1, <3>2 DEF Continues
  <2>4. b.achieved => Turns(w) # {}
    <3>1. a.achieved => Turns(s) # {}
      BY <1>4 DEF GoalFits
    <3>2. CASE e.type = "GoalAchieved"
      BY <1>7, <3>2
    <3>3. CASE e.type # "GoalAchieved"
      BY <1>6, <1>7, <3>1, <3>3
    <3> QED BY <3>2, <3>3
  <2>5. ASSUME NEW i \in Turns(w), \A j \in Turns(w) : j <= i
        PROVE  b.achieved <=> w[i].type = "GoalAchieved"
    <3>1. CASE e.type \in {"GoalAchieved", "GoalUnachieved"}
      <4>1. i = Len(s) + 1
        BY <1>1, <1>7, <2>5, <3>1 DEF Continues
      <4>2. w[i] = e
        BY <1>1, <4>1 DEF Continues
      <4> QED BY <1>6, <3>1, <4>2
    <3>2. CASE e.type \notin {"GoalAchieved", "GoalUnachieved"}
      <4>1. i \in Turns(s) /\ \A j \in Turns(s) : j <= i
        BY <1>7, <2>5, <3>2
      <4>2. w[i] = s[i] /\ b.achieved = a.achieved
        BY <1>1, <1>6, <1>7, <3>2, <4>1 DEF Continues
      <4> QED BY <1>4, <4>1, <4>2 DEF GoalFits
    <3> QED BY <3>1, <3>2
  <2> QED BY <1>6, <2>1, <2>2, <2>3, <2>4, <2>5 DEF GoalFits
<1>10. Legal("goal", w)
  <2>1. Alternates(w)
    <3>1. e.type = "GoalUnachieved" => Turns(s) # {}
      BY <1>4, <1>8 DEF GoalFits
    <3>2. \A i \in Turns(s) : (\A j \in Turns(s) : j <= i) => s[i].type # e.type
      <4> SUFFICES ASSUME NEW i \in Turns(s), \A j \in Turns(s) : j <= i PROVE s[i].type # e.type
        OBVIOUS
      <4>1. a.achieved <=> s[i].type = "GoalAchieved"
        BY <1>4 DEF GoalFits
      <4>2. s[i].type \in {"GoalAchieved", "GoalUnachieved"}
        BY DEF Turns
      <4> QED BY <1>8, <4>1, <4>2
    <3> QED BY <1>1, <1>4, <3>1, <3>2, AlternatesOn
  <2>2. \A i \in 1..Len(s) : s[i].type \notin {"GoalArchived", "ProjectArchived"}
    <3>1. \A i \in 1..Len(s) : s[i].type \in GoalEventTypes
      BY DEF Lawful, EventTypes
    <3> QED BY <1>4, <1>5, <3>1 DEF GoalFits, GoalEventTypes
  <2>3. \A i, j \in 1..Len(w) : i < j => w[i].type \notin {"GoalArchived", "ProjectArchived"}
    BY <1>1, <2>2, NothingAfterArchive
  <2> QED BY <2>1, <2>3 DEF Legal
<1>11. \A i \in 1..Len(w) : w[i].type \in EventTypes("goal")
  <2> TAKE i \in 1..Len(w)
  <2>1. CASE i \in 1..Len(s)
    BY <1>1, <2>1 DEF Lawful, Continues
  <2>2. CASE i = Len(s) + 1
    BY <1>1, <2>2 DEF Continues, EventTypes
  <2> QED BY <1>1, <2>1, <2>2 DEF Continues
<1>12. Shown("goal", w) = Visible("goal", b)
  <2>1. \/ e.type = "GoalCreated" /\ a = NewGoal
        \/ e.type # "GoalCreated" /\ a.summary # None
    BY <1>3, <1>4 DEF GoalFits, GoalEdit
  <2>2. applyEventToSnapshot([a EXCEPT !.access = {}], e) = [On("goal", a, e) EXCEPT !.access = {}]
    BY <1>4, <2>1, GoalShown
  <2> QED BY <1>2, <1>4, <2>2 DEF Shows, Visible
<1>13. Lawful("goal", w)
  BY <1>1, <1>9, <1>10, <1>11, <1>12 DEF Lawful, Continues, b
<1> QED BY <1>13 DEF w

-----------------------------------------------------------------------------
(* Milestones *)

\* Milestones with distinct ids between two dates.
Fit(ms, from, to) ==
    /\ IsSeq(ms)
    /\ \A i \in 1..Len(ms) : MilestoneOK(ms[i]) /\ from <= ms[i].date /\ ms[i].date <= to
    /\ \A i, j \in 1..Len(ms) : ms[i].id = ms[j].id => i = j

LEMMA Appended ==
    ASSUME NEW s, IsSeq(s), NEW x
    PROVE  /\ IsSeq(Append(s, x)) /\ Len(s) \in Nat /\ Len(Append(s, x)) = Len(s) + 1
           /\ \A i \in 1..Len(s) : Append(s, x)[i] = s[i]
           /\ Append(s, x)[Len(s) + 1] = x
<1> DEFINE R == {s[i] : i \in DOMAIN s} \cup {x}
<1>1. s \in Seq(R) /\ x \in R
  BY DEF IsSeq
<1>2. /\ Append(s, x) \in Seq(R) /\ Len(s) \in Nat /\ Len(Append(s, x)) = Len(s) + 1
      /\ \A i \in 1..Len(s) : Append(s, x)[i] = s[i]
      /\ Append(s, x)[Len(s) + 1] = x
  BY <1>1
<1> QED BY <1>2, SeqOfAny

LEMMA AppendFits ==
    ASSUME NEW ms, NEW from \in Int, NEW to \in Int, Fit(ms, from, to), NEW x, MilestoneOK(x),
           from <= x.date, x.date <= to, \A i \in 1..Len(ms) : ms[i].id # x.id
    PROVE  Fit(Append(ms, x), from, to)
<1> DEFINE w == Append(ms, x)
<1>1. /\ IsSeq(w) /\ Len(ms) \in Nat /\ Len(w) = Len(ms) + 1
      /\ \A i \in 1..Len(ms) : w[i] = ms[i]
      /\ w[Len(ms) + 1] = x
  BY Appended DEF Fit
<1> HIDE DEF w
<1>2. \A i \in 1..Len(w) : i \in 1..Len(ms) \/ i = Len(ms) + 1
  BY <1>1
<1>3. \A i \in 1..Len(w) : MilestoneOK(w[i]) /\ from <= w[i].date /\ w[i].date <= to
  BY <1>1, <1>2 DEF Fit
<1>4. \A i, j \in 1..Len(w) : w[i].id = w[j].id => i = j
  BY <1>1, <1>2 DEF Fit
<1>5. Fit(w, from, to)
  BY <1>1, <1>3, <1>4 DEF Fit
<1> QED BY <1>5 DEF w

\* Milestones without one of them keep the rules.
LEMMA WithoutFits ==
    ASSUME NEW ms, NEW from \in Int, NEW to \in Int, Fit(ms, from, to), NEW id
    PROVE  Fit(Without(ms, id), from, to)
<1> DEFINE z == <<>>
           f == Run("without", id, z, ms)
           Good(n) == /\ Fit(f[n], from, to)
                      /\ \A i \in 1..Len(f[n]) : \E j \in 1..n : f[n][i] = ms[j]
           Bad == {n \in Nat : n <= Len(ms) /\ ~Good(n)}
<1>0. IsSeq(ms) /\ IsSeq(z) /\ Len(z) = 0
  BY SeqOne DEF Fit
<1>1. Without(ms, id) = f[Len(ms)]
  BY <1>0, WithoutIsLast DEF Result
<1> HIDE DEF z
<1>2. Runs(f, "without", id, z, ms) /\ Len(ms) \in Nat
  BY <1>0, RunExists, SeqDomain
<1> HIDE DEF f
<1>3. /\ f[0] = z
      /\ \A i \in 1..Len(ms) : f[i] = IF ms[i].id = id THEN f[i - 1] ELSE Append(f[i - 1], ms[i])
  <2>1. f[0] = z /\ \A i \in 1..Len(ms) : f[i] = Step("without", id, f[i - 1], ms[i])
    BY <1>2 DEF Runs
  <2>2. \A x, m : Step("without", id, x, m) = IF m.id = id THEN x ELSE Append(x, m)
    BY DEF Step
  <2> QED BY <2>1, <2>2
<1>4. Bad = {}
  <2>1. SUFFICES ASSUME Bad # {} PROVE FALSE
    OBVIOUS
  <2>2. PICK n \in Bad : \A i \in Bad : n <= i
    BY <2>1, LeastNumber
  <2>3. n # 0
    <3>1. Fit(z, from, to)
      BY <1>0 DEF Fit
    <3>2. Good(0)
      BY <1>0, <1>3, <3>1
    <3> QED BY <2>2, <3>2
  <2>4. n - 1 \in Nat /\ n \in 1..Len(ms) /\ n - 1 \notin Bad
    <3>1. n - 1 \in Nat /\ ~(n <= n - 1) /\ n \in 1..Len(ms)
      BY <1>2, <2>2, <2>3
    <3> HIDE DEF Bad
    <3> QED BY <2>2, <3>1
  <2>5. Good(n - 1)
    <3>1. n - 1 <= Len(ms)
      BY <1>2, <2>4
    <3> HIDE DEF Good
    <3> QED BY <2>4, <3>1
  <2>6. CASE ms[n].id = id
    <3>1. f[n] = f[n - 1]
      BY <1>3, <2>4, <2>6
    <3>2. Good(n)
      BY <2>4, <2>5, <3>1
    <3> QED BY <2>2, <3>2
  <2>7. CASE ms[n].id # id
    <3> DEFINE g == f[n - 1]
               m == ms[n]
    <3>1. f[n] = Append(g, m)
      BY <1>3, <2>4, <2>7
    <3>2. Fit(g, from, to) /\ \A i \in 1..Len(g) : \E j \in 1..(n - 1) : g[i] = ms[j]
      BY <2>5
    <3>3. MilestoneOK(m) /\ from <= m.date /\ m.date <= to
      BY <2>4 DEF Fit
    <3>4. \A i \in 1..Len(g) : g[i].id # m.id
      <4> SUFFICES ASSUME NEW i \in 1..Len(g), g[i].id = m.id PROVE FALSE
        OBVIOUS
      <4>1. PICK j \in 1..(n - 1) : g[i] = ms[j]
        BY <3>2
      <4>2. j \in 1..Len(ms) /\ j # n
        BY <2>4
      <4> QED BY <2>4, <4>1, <4>2 DEF Fit
    <3>5. /\ Len(g) \in Nat /\ Len(Append(g, m)) = Len(g) + 1
          /\ \A i \in 1..Len(g) : Append(g, m)[i] = g[i]
          /\ Append(g, m)[Len(g) + 1] = m
      BY <3>2, Appended DEF Fit
    <3> HIDE DEF g
    <3>6. Fit(Append(g, m), from, to)
      BY <3>2, <3>3, <3>4, AppendFits
    <3> DEFINE w == Append(g, m)
    <3> HIDE DEF w
    <3>7. ASSUME NEW i \in 1..Len(w) PROVE \E j \in 1..n : w[i] = ms[j]
      <4>1. CASE i \in 1..Len(g)
        <5>1. PICK j \in 1..(n - 1) : g[i] = ms[j]
          BY <3>2, <4>1
        <5>2. j \in 1..n /\ w[i] = ms[j]
          BY <2>4, <3>5, <4>1, <5>1 DEF w
        <5> QED BY <5>2
      <4>2. CASE i = Len(g) + 1
        BY <2>4, <3>5, <4>2 DEF w
      <4> QED BY <3>5, <4>1, <4>2 DEF w
    <3>8. Good(n)
      BY <3>1, <3>6, <3>7 DEF w
    <3> QED BY <2>2, <3>8
  <2> QED BY <2>6, <2>7
<1>5. Good(Len(ms))
  BY <1>2, <1>4
<1> QED BY <1>1, <1>5

\* A milestone after an event about it.
Touched(m, e) ==
    IF e.type = "ProjectMilestoneRenamed" THEN [m EXCEPT !.name = e.value]
    ELSE [m EXCEPT !.date = e.date]

\* Every milestone with the id of the event, touched.
Each(ms, e) ==
    [i \in 1..Len(ms) |-> IF ms[i].id = e.milestone THEN Touched(ms[i], e) ELSE ms[i]]

LEMMA EachFits ==
    ASSUME NEW ms, NEW from \in Int, NEW to \in Int, Fit(ms, from, to), NEW e,
           e.type = "ProjectMilestoneRenamed" \/ (e.date \in Int /\ from <= e.date /\ e.date <= to)
    PROVE  Fit(Each(ms, e), from, to)
<1> DEFINE w == Each(ms, e)
<1>1. Len(ms) \in Nat
  BY SeqDomain DEF Fit
<1>2. IsSeq(w) /\ Len(w) = Len(ms)
  BY <1>1 DEF Each, IsSeq
<1>3. \A i \in 1..Len(ms) : w[i] = IF ms[i].id = e.milestone THEN Touched(ms[i], e) ELSE ms[i]
  BY DEF Each
<1>4. ASSUME NEW m, MilestoneOK(m), from <= m.date, m.date <= to
      PROVE  LET t == Touched(m, e)
             IN  MilestoneOK(t) /\ t.id = m.id /\ from <= t.date /\ t.date <= to
  <2> DEFINE t == Touched(m, e)
  <2>1. CASE e.type = "ProjectMilestoneRenamed"
    <3>1. t = [m EXCEPT !.name = e.value]
      BY <2>1 DEF Touched
    <3> HIDE DEF t
    <3>2. MilestoneOK(t) /\ t.id = m.id /\ t.date = m.date
      BY <1>4, <3>1 DEF MilestoneOK
    <3> QED BY <1>4, <3>2 DEF t
  <2>2. CASE e.type # "ProjectMilestoneRenamed"
    <3>1. t = [m EXCEPT !.date = e.date]
      BY <2>2 DEF Touched
    <3> HIDE DEF t
    <3>2. MilestoneOK(t) /\ t.id = m.id /\ t.date = e.date
      BY <1>4, <2>2, <3>1 DEF MilestoneOK
    <3> QED BY <2>2, <3>2 DEF t
  <2> QED BY <2>1, <2>2
<1> HIDE DEF w
<1>5. \A i \in 1..Len(w) :
          MilestoneOK(w[i]) /\ w[i].id = ms[i].id /\ from <= w[i].date /\ w[i].date <= to
  BY <1>2, <1>3, <1>4 DEF Fit
<1>6. Fit(w, from, to)
  BY <1>2, <1>5 DEF Fit
<1> QED BY <1>6 DEF w

\* The first milestone with an id is the only one, and the handler of the
\* aggregate touches that one: it does what the read model does.
LEMMA FirstIsOnly ==
    ASSUME NEW a, NEW e, NEW from, NEW to, Fit(a.milestones, from, to), HasMilestone(a, e.milestone)
    PROVE  \E i \in 1..Len(a.milestones) :
               /\ a.milestones[i].id = e.milestone
               /\ findMilestone(a, e.milestone) = a.milestones[i]
               /\ (CHOOSE j \in 1..Len(a.milestones) :
                      /\ a.milestones[j] = findMilestone(a, e.milestone)
                      /\ \A k \in 1..(j - 1) : a.milestones[k] # findMilestone(a, e.milestone)) = i
<1> DEFINE ms == a.milestones
           id == e.milestone
           F(j) == ms[j].id = id /\ \A k \in 1..(j - 1) : ms[k].id # id
<1>0. Len(ms) \in Nat
  BY SeqDomain DEF Fit
<1>1. PICK i \in 1..Len(ms) : ms[i].id = id
  BY DEF HasMilestone, Milestones
<1>2. \A j \in 1..Len(ms) : ms[j].id = id => j = i
  BY <1>1 DEF Fit
<1>3. \A k \in 1..(i - 1) : k \in 1..Len(ms) /\ k # i
  BY <1>0
<1>4. \A k \in 1..(i - 1) : ms[k].id # id
  BY <1>2, <1>3
<1>5. (CHOOSE j \in 1..Len(ms) : F(j)) = i
  BY <1>1, <1>2, <1>4
<1>6. findMilestone(a, id) = ms[i]
  BY <1>5 DEF findMilestone
<1> DEFINE m == findMilestone(a, id)
           G(j) == ms[j] = m /\ \A k \in 1..(j - 1) : ms[k] # m
<1> HIDE DEF m
<1>7. m = ms[i]
  BY <1>6 DEF m
<1>8. G(i) /\ \A j \in 1..Len(ms) : G(j) => j = i
  BY <1>1, <1>2, <1>4, <1>7
<1>9. (CHOOSE j \in 1..Len(ms) : G(j)) = i
  <2> HIDE DEF G
  <2> QED BY <1>8
<1> QED BY <1>1, <1>6, <1>9 DEF m

-----------------------------------------------------------------------------
(* Projects *)

\* Events that need a milestone to be there.
Touches == {"ProjectMilestoneRenamed", "ProjectMilestoneRescheduled"}

NextMilestones(ms, e) ==
    IF e.type = "ProjectMilestoneAdded"
    THEN Append(ms, [id |-> e.milestone, name |-> e.value, date |-> e.date])
    ELSE IF e.type \in Touches THEN Each(ms, e)
    ELSE IF e.type = "ProjectMilestoneArchived" THEN Without(ms, e.milestone)
    ELSE ms

ProjectShape(a) ==
    a = [version |-> a.version, name |-> a.name, status |-> a.status, start |-> a.start,
         target |-> a.target, description |-> a.description, goalId |-> a.goalId,
         milestones |-> a.milestones, archived |-> a.archived, throws |-> a.throws]

\* What an event makes of a project, its version aside.
ProjectChange(a, e, b) ==
    /\ ProjectShape(b)
    /\ b.name = IF e.type \in {"ProjectCreated", "ProjectRenamed"} THEN e.value ELSE a.name
    /\ b.status = IF e.type = "ProjectCreated" THEN e.status
                  ELSE IF e.type = "ProjectStatusTransitioned" THEN e.value ELSE a.status
    /\ b.start = IF e.type \in {"ProjectCreated", "ProjectRescheduled"} THEN e.start ELSE a.start
    /\ b.target = IF e.type \in {"ProjectCreated", "ProjectRescheduled"} THEN e.target ELSE a.target
    /\ b.description = IF e.type \in {"ProjectCreated", "ProjectDescribed"} THEN e.value
                       ELSE a.description
    /\ b.goalId = IF e.type \in {"ProjectCreated", "ProjectGoalAdded"} THEN e.goal
                  ELSE IF e.type = "ProjectGoalRemoved" THEN None ELSE a.goalId
    /\ b.milestones = NextMilestones(a.milestones, e)
    /\ b.archived = IF e.type = "ProjectArchived" THEN TRUE ELSE a.archived
    /\ b.throws = FALSE

LEMMA SameChange ==
    ASSUME NEW a, NEW e, NEW b, NEW c, ProjectChange(a, e, b), ProjectChange(a, e, c),
           b.version = c.version
    PROVE  b = c
<1>1. /\ b.name = c.name /\ b.status = c.status /\ b.start = c.start /\ b.target = c.target
      /\ b.description = c.description /\ b.goalId = c.goalId
      /\ b.milestones = c.milestones /\ b.archived = c.archived /\ b.throws = c.throws
  <2>1. b.name = c.name
    BY DEF ProjectChange
  <2>2. b.status = c.status
    BY DEF ProjectChange
  <2>3. b.start = c.start
    BY DEF ProjectChange
  <2>4. b.target = c.target
    BY DEF ProjectChange
  <2>5. b.description = c.description
    BY DEF ProjectChange
  <2>6. b.goalId = c.goalId
    BY DEF ProjectChange
  <2>7. b.milestones = c.milestones
    BY DEF ProjectChange
  <2>8. b.archived = c.archived
    BY DEF ProjectChange
  <2>9. b.throws = c.throws
    BY DEF ProjectChange
  <2> QED BY <2>1, <2>2, <2>3, <2>4, <2>5, <2>6, <2>7, <2>8, <2>9
<1>2. ProjectShape(b) /\ ProjectShape(c)
  BY DEF ProjectChange
<1> QED BY <1>1, <1>2, Zenon DEF ProjectShape

\* Only the version.
LEMMA ProjectCounts ==
    ASSUME NEW a, NEW e, NEW x, ProjectChange(a, e, x), NEW v,
           NEW b, b = [x EXCEPT !.version = v]
    PROVE  ProjectChange(a, e, b) /\ b.version = v
<1>1. ProjectShape(x)
  BY DEF ProjectChange
<1>2. /\ ProjectShape(b) /\ b.version = v
      /\ b.name = x.name /\ b.status = x.status /\ b.start = x.start /\ b.target = x.target
      /\ b.description = x.description /\ b.goalId = x.goalId
      /\ b.milestones = x.milestones /\ b.archived = x.archived /\ b.throws = x.throws
  BY <1>1 DEF ProjectShape
<1> QED BY <1>2, Zenon DEF ProjectChange

SimpleEvents ==
    {"ProjectCreated", "ProjectStatusTransitioned", "ProjectRescheduled", "ProjectRenamed",
     "ProjectDescribed", "ProjectGoalAdded", "ProjectGoalRemoved", "ProjectArchived"}

LEMMA SimpleChange ==
    ASSUME NEW a, ProjectShape(a), a.throws = FALSE, NEW e, e.type \in SimpleEvents
    PROVE  ProjectChange(a, e, OnProjectEvent(a, e))
<1> DEFINE x == OnProjectEvent(a, e)
<1>1. NextMilestones(a.milestones, e) = a.milestones
  BY DEF NextMilestones, SimpleEvents, Touches
<1>2. CASE e.type = "ProjectCreated"
  <2>1. x = [a EXCEPT !.name = e.value, !.status = e.status, !.start = e.start,
                      !.target = e.target, !.description = e.value, !.goalId = e.goal]
    BY <1>2 DEF OnProjectEvent
  <2> HIDE DEF x
  <2>2. ProjectChange(a, e, x)
    BY <1>1, <1>2, <2>1 DEF ProjectShape, ProjectChange
  <2> QED BY <2>2 DEF x
<1>3. CASE e.type = "ProjectStatusTransitioned"
  <2>1. x = [a EXCEPT !.status = e.value]
    BY <1>3 DEF OnProjectEvent
  <2> HIDE DEF x
  <2>2. ProjectChange(a, e, x)
    BY <1>1, <1>3, <2>1 DEF ProjectShape, ProjectChange
  <2> QED BY <2>2 DEF x
<1>4. CASE e.type = "ProjectRescheduled"
  <2>1. x = [a EXCEPT !.start = e.start, !.target = e.target]
    BY <1>4 DEF OnProjectEvent
  <2> HIDE DEF x
  <2>2. ProjectChange(a, e, x)
    BY <1>1, <1>4, <2>1 DEF ProjectShape, ProjectChange
  <2> QED BY <2>2 DEF x
<1>5. CASE e.type = "ProjectRenamed"
  <2>1. x = [a EXCEPT !.name = e.value]
    BY <1>5 DEF OnProjectEvent
  <2> HIDE DEF x
  <2>2. ProjectChange(a, e, x)
    BY <1>1, <1>5, <2>1 DEF ProjectShape, ProjectChange
  <2> QED BY <2>2 DEF x
<1>6. CASE e.type = "ProjectDescribed"
  <2>1. x = [a EXCEPT !.description = e.value]
    BY <1>6 DEF OnProjectEvent
  <2> HIDE DEF x
  <2>2. ProjectChange(a, e, x)
    BY <1>1, <1>6, <2>1 DEF ProjectShape, ProjectChange
  <2> QED BY <2>2 DEF x
<1>7. CASE e.type = "ProjectGoalAdded"
  <2>1. x = [a EXCEPT !.goalId = e.goal]
    BY <1>7 DEF OnProjectEvent
  <2> HIDE DEF x
  <2>2. ProjectChange(a, e, x)
    BY <1>1, <1>7, <2>1 DEF ProjectShape, ProjectChange
  <2> QED BY <2>2 DEF x
<1>8. CASE e.type = "ProjectGoalRemoved"
  <2>1. x = [a EXCEPT !.goalId = None]
    BY <1>8 DEF OnProjectEvent
  <2> HIDE DEF x
  <2>2. ProjectChange(a, e, x)
    BY <1>1, <1>8, <2>1 DEF ProjectShape, ProjectChange
  <2> QED BY <2>2 DEF x
<1>9. CASE e.type = "ProjectArchived"
  <2>1. x = [a EXCEPT !.archived = TRUE]
    BY <1>9 DEF OnProjectEvent
  <2> HIDE DEF x
  <2>2. ProjectChange(a, e, x)
    BY <1>1, <1>9, <2>1 DEF ProjectShape, ProjectChange
  <2> QED BY <2>2 DEF x
<1> QED BY <1>2, <1>3, <1>4, <1>5, <1>6, <1>7, <1>8, <1>9 DEF SimpleEvents

\* Events about milestones change the milestones.
MilestoneEvents ==
    {"ProjectMilestoneAdded", "ProjectMilestoneRenamed", "ProjectMilestoneRescheduled",
     "ProjectMilestoneArchived"}

LEMMA OnlyMilestones ==
    ASSUME NEW a, ProjectShape(a), a.throws = FALSE, NEW e, e.type \in MilestoneEvents,
           NEW x, NEW ms, x = [a EXCEPT !.milestones = ms], ms = NextMilestones(a.milestones, e)
    PROVE  ProjectChange(a, e, x)
<1>1. /\ ProjectShape(x) /\ x.milestones = ms
      /\ x.name = a.name /\ x.status = a.status /\ x.start = a.start /\ x.target = a.target
      /\ x.description = a.description /\ x.goalId = a.goalId
      /\ x.archived = a.archived /\ x.throws = a.throws
  BY DEF ProjectShape
<1>2. e.type \notin SimpleEvents
  BY DEF MilestoneEvents, SimpleEvents
<1>3. /\ e.type # "ProjectCreated" /\ e.type # "ProjectRenamed" /\ e.type # "ProjectArchived"
      /\ e.type # "ProjectStatusTransitioned" /\ e.type # "ProjectRescheduled"
      /\ e.type # "ProjectDescribed" /\ e.type # "ProjectGoalAdded" /\ e.type # "ProjectGoalRemoved"
  BY <1>2 DEF SimpleEvents
<1> QED BY <1>1, <1>3 DEF ProjectChange

LEMMA MilestoneTouched ==
    ASSUME NEW a, ProjectShape(a), a.throws = FALSE, NEW e,
           e.type \in Touches,
           NEW from, NEW to, Fit(a.milestones, from, to), HasMilestone(a, e.milestone)
    PROVE  ProjectChange(a, e, OnProjectEvent(a, e))
<1> DEFINE ms == a.milestones
           m == findMilestone(a, e.milestone)
           i == CHOOSE j \in 1..Len(ms) : ms[j] = m /\ \A k \in 1..(j - 1) : ms[k] # m
           x == OnProjectEvent(a, e)
<1>1. /\ i \in 1..Len(ms) /\ ms[i].id = e.milestone /\ m = ms[i]
  BY FirstIsOnly
<1>2. x = [a EXCEPT !.milestones[i] = Touched(m, e)]
  <2>1. CASE e.type = "ProjectMilestoneRenamed"
    BY <2>1 DEF OnProjectEvent, OnMilestone, Touched
  <2>2. CASE e.type = "ProjectMilestoneRescheduled"
    BY <2>2 DEF OnProjectEvent, OnMilestone, Touched
  <2> QED BY <2>1, <2>2 DEF Touches
<1> HIDE DEF i, m, x
<1> DEFINE w == [ms EXCEPT ![i] = Touched(m, e)]
<1>3. x = [a EXCEPT !.milestones = w]
  BY <1>2
<1>4. w = Each(ms, e)
  <2>1. IsSeq(ms) /\ \A j, k \in 1..Len(ms) : ms[j].id = ms[k].id => j = k
    BY DEF Fit
  <2> HIDE DEF ms
  <2>2. \A j \in 1..Len(ms) : ms[j].id = e.milestone => j = i
    BY <1>1, <2>1
  <2>3. DOMAIN ms = 1..Len(ms)
    BY <2>1, SeqDomain
  <2>4. ms = [j \in 1..Len(ms) |-> ms[j]]
    BY <2>1 DEF IsSeq
  <2> QED BY <1>1, <2>2, <2>3, <2>4 DEF Each
<1>5. w = NextMilestones(ms, e)
  BY <1>4 DEF NextMilestones, Touches
<1> HIDE DEF w
<1>6. e.type \in MilestoneEvents
  BY DEF MilestoneEvents, Touches
<1>7. ProjectChange(a, e, x)
  BY <1>3, <1>5, <1>6, OnlyMilestones
<1> QED BY <1>7 DEF x

\* What an event makes of a project.
LEMMA ProjectAfter ==
    ASSUME NEW a, ProjectShape(a), a.version \in Nat, a.throws = FALSE,
           NEW e, e.type \in ProjectEventTypes,
           NEW from, NEW to, Fit(a.milestones, from, to),
           e.type \in Touches
               => HasMilestone(a, e.milestone)
    PROVE  /\ ProjectChange(a, e, On("project", a, e))
           /\ On("project", a, e).version = a.version + 1
<1> DEFINE x == OnProjectEvent(a, e)
           b == On("project", a, e)
           ms == NextMilestones(a.milestones, e)
<1>1. ProjectChange(a, e, x)
  <2>1. CASE e.type \in SimpleEvents
    BY <2>1, SimpleChange
  <2>2. CASE e.type \in Touches
    <3>1. HasMilestone(a, e.milestone)
      BY <2>2
    <3> QED BY <2>2, <3>1, MilestoneTouched
  <2>3. CASE e.type \in {"ProjectMilestoneAdded", "ProjectMilestoneArchived"}
    <3>1. x = [a EXCEPT !.milestones = ms]
      <4>1. CASE e.type = "ProjectMilestoneAdded"
        BY <4>1 DEF OnProjectEvent, NextMilestones, Touches
      <4>2. CASE e.type = "ProjectMilestoneArchived"
        BY <4>2 DEF OnProjectEvent, NextMilestones, Touches
      <4> QED BY <2>3, <4>1, <4>2
    <3>2. ms = NextMilestones(a.milestones, e) /\ e.type \in MilestoneEvents
      BY <2>3 DEF MilestoneEvents
    <3> HIDE DEF x, ms
    <3> QED BY <3>1, <3>2, OnlyMilestones
  <2> QED BY <2>1, <2>2, <2>3 DEF ProjectEventTypes, SimpleEvents, Touches
<1>2. IsState(a)
  BY DEF ProjectShape, IsState
<1>3. b.version = a.version + 1
  BY <1>2, EventCounted DEF EventTypes
<1>4. b = [x EXCEPT !.version = x.version + 1]
  BY DEF On
<1> HIDE DEF x, b
<1>5. ProjectChange(a, e, b)
  BY <1>1, <1>4, ProjectCounts
<1> QED BY <1>3, <1>5 DEF b

\* The read model's step and the project's lead to the same project.
LEMMA ProjectShown ==
    ASSUME NEW a, ProjectShape(a), a.version \in Nat, a.throws = FALSE,
           NEW e, e.type \in ProjectEventTypes,
           NEW from, NEW to, Fit(a.milestones, from, to),
           e.type \in Touches
               => HasMilestone(a, e.milestone),
           \/ e.type = "ProjectCreated" /\ a = NewProject
           \/ e.type # "ProjectCreated" /\ a.name # None
    PROVE  applyProjectEventToSnapshot(a, e) = On("project", a, e)
<1> DEFINE r == applyProjectEventToSnapshot(a, e)
           b == On("project", a, e)
           t == [a EXCEPT !.version = @ + 1]
           ms == NextMilestones(a.milestones, e)
<1>1. ProjectChange(a, e, b) /\ b.version = a.version + 1
  BY ProjectAfter
<1>2. ProjectShape(t) /\ t.version = a.version + 1 /\ t.milestones = a.milestones
      /\ t.name = a.name /\ t.status = a.status /\ t.start = a.start /\ t.target = a.target
      /\ t.description = a.description /\ t.goalId = a.goalId
      /\ t.archived = a.archived /\ t.throws = a.throws
  BY DEF ProjectShape
<1> HIDE DEF b
<1>3. ProjectChange(a, e, r) /\ r.version = a.version + 1
  <2>1. CASE e.type = "ProjectCreated"
    <3>1. r = [NewProject EXCEPT !.version = a.version + 1, !.name = e.value,
                                 !.status = e.status, !.start = e.start, !.target = e.target,
                                 !.description = e.value, !.goalId = e.goal]
      BY <2>1 DEF applyProjectEventToSnapshot
    <3>2. a = NewProject /\ ms = a.milestones
      BY <2>1 DEF NextMilestones, Touches
    <3> HIDE DEF r
    <3> QED BY <2>1, <3>1, <3>2 DEF NewProject, ProjectChange, ProjectShape
  <2>2. CASE e.type \in SimpleEvents \ {"ProjectCreated"}
    <3>0. ms = a.milestones
      BY <2>2 DEF NextMilestones, SimpleEvents, Touches
    <3>1. CASE e.type = "ProjectStatusTransitioned"
      <4>1. r = [t EXCEPT !.status = e.value]
        BY <3>1 DEF applyProjectEventToSnapshot
      <4> HIDE DEF r, t
      <4> QED BY <1>2, <3>0, <3>1, <4>1 DEF ProjectChange, ProjectShape
    <3>2. CASE e.type = "ProjectRescheduled"
      <4>1. r = [t EXCEPT !.start = e.start, !.target = e.target]
        BY <3>2 DEF applyProjectEventToSnapshot
      <4> HIDE DEF r, t
      <4> QED BY <1>2, <3>0, <3>2, <4>1 DEF ProjectChange, ProjectShape
    <3>3. CASE e.type = "ProjectRenamed"
      <4>1. r = [t EXCEPT !.name = e.value]
        BY <3>3 DEF applyProjectEventToSnapshot
      <4> HIDE DEF r, t
      <4> QED BY <1>2, <3>0, <3>3, <4>1 DEF ProjectChange, ProjectShape
    <3>4. CASE e.type = "ProjectDescribed"
      <4>1. r = [t EXCEPT !.description = e.value]
        BY <3>4 DEF applyProjectEventToSnapshot
      <4> HIDE DEF r, t
      <4> QED BY <1>2, <3>0, <3>4, <4>1 DEF ProjectChange, ProjectShape
    <3>5. CASE e.type = "ProjectGoalAdded"
      <4>1. r = [t EXCEPT !.goalId = e.goal]
        BY <3>5 DEF applyProjectEventToSnapshot
      <4> HIDE DEF r, t
      <4> QED BY <1>2, <3>0, <3>5, <4>1 DEF ProjectChange, ProjectShape
    <3>6. CASE e.type = "ProjectGoalRemoved"
      <4>1. r = [t EXCEPT !.goalId = None]
        BY <3>6 DEF applyProjectEventToSnapshot
      <4> HIDE DEF r, t
      <4> QED BY <1>2, <3>0, <3>6, <4>1 DEF ProjectChange, ProjectShape
    <3>7. CASE e.type = "ProjectArchived"
      <4>1. r = [t EXCEPT !.archived = TRUE]
        BY <3>7 DEF applyProjectEventToSnapshot
      <4> HIDE DEF r, t
      <4> QED BY <1>2, <3>0, <3>7, <4>1 DEF ProjectChange, ProjectShape
    <3> QED BY <2>2, <3>1, <3>2, <3>3, <3>4, <3>5, <3>6, <3>7 DEF SimpleEvents
  <2>3. CASE e.type \in MilestoneEvents
    <3>1. r = [t EXCEPT !.milestones = ms]
      <4>1. CASE e.type = "ProjectMilestoneAdded"
        BY <4>1, <1>2 DEF applyProjectEventToSnapshot, NextMilestones, Touches
      <4>2. CASE e.type = "ProjectMilestoneArchived"
        BY <4>2, <1>2 DEF applyProjectEventToSnapshot, NextMilestones, Touches
      <4>3. CASE e.type = "ProjectMilestoneRenamed"
        <5>1. ms = Each(a.milestones, e)
          BY <4>3 DEF NextMilestones, Touches
        <5> QED BY <4>3, <5>1 DEF applyProjectEventToSnapshot, Each, Touched
      <4>4. CASE e.type = "ProjectMilestoneRescheduled"
        <5>1. ms = Each(a.milestones, e)
          BY <4>4 DEF NextMilestones, Touches
        <5> QED BY <4>4, <5>1 DEF applyProjectEventToSnapshot, Each, Touched
      <4> QED BY <2>3, <4>1, <4>2, <4>3, <4>4 DEF MilestoneEvents
    <3> DEFINE x == [a EXCEPT !.milestones = ms]
    <3>2. ProjectChange(a, e, x)
      <4>1. ms = NextMilestones(a.milestones, e)
        OBVIOUS
      <4> HIDE DEF ms
      <4> QED BY <2>3, <4>1, OnlyMilestones
    <3> HIDE DEF ms, r
    <3>3. r = [x EXCEPT !.version = a.version + 1]
      BY <3>1 DEF ProjectShape
    <3> HIDE DEF x
    <3> QED BY <3>2, <3>3, ProjectCounts
  <2> QED BY <2>1, <2>2, <2>3 DEF ProjectEventTypes, SimpleEvents, MilestoneEvents
<1> HIDE DEF r
<1>4. r = b
  BY <1>1, <1>3, SameChange
<1> QED BY <1>4 DEF r, b

\* An event an unarchived project may emit.
ProjectEdit(a, e) ==
    \/ e.type = "ProjectRenamed" /\ e.value # None
    \/ e.type \in {"ProjectStatusTransitioned", "ProjectDescribed", "ProjectGoalAdded",
                   "ProjectGoalRemoved", "ProjectArchived", "ProjectMilestoneArchived"}
    \/ /\ e.type = "ProjectRescheduled"
       /\ e.start \in Int /\ e.target \in Int /\ e.start <= e.target
       /\ \A m \in Milestones(a) : e.start <= m.date /\ m.date <= e.target
    \/ /\ e.type = "ProjectMilestoneAdded"
       /\ e.date \in Int /\ Within(e.date, a) /\ ~HasMilestone(a, e.milestone)
    \/ e.type = "ProjectMilestoneRenamed" /\ HasMilestone(a, e.milestone)
    \/ /\ e.type = "ProjectMilestoneRescheduled"
       /\ e.date \in Int /\ Within(e.date, a) /\ HasMilestone(a, e.milestone)

LEMMA ProjectEmits ==
    ASSUME NEW c, c.type \in ProjectCommands, ValidCommand(c), NEW a, NEW e,
           Decide(c, a).ok, Decide(c, a).events = <<e>>
    PROVE  /\ IsCreate(c) => /\ e.type = "ProjectCreated" /\ e.value # None
                             /\ e.start \in Int /\ e.target \in Int /\ e.start <= e.target
           /\ ~IsCreate(c) => ~a.archived /\ ProjectEdit(a, e)
<1> USE DEF IsCreate
<1>1. CASE c.type = "CreateProject"
  <2>1. Decide(c, a) = Emit(c.start <= c.target,
                            ProjectCreated(c.value, c.status, c.start, c.target, c.goal))
    BY <1>1 DEF Decide, createProject, GoalEdits, ProjectEdits
  <2>2. c.start <= c.target /\ e = ProjectCreated(c.value, c.status, c.start, c.target, c.goal)
    BY <2>1 DEF Emit
  <2>3. c.start \in Int /\ c.target \in Int /\ c.value # None
    BY <1>1 DEF ValidCommand
  <2>4. e.type = "ProjectCreated" /\ e.value = c.value /\ e.start = c.start /\ e.target = c.target
    BY <2>2 DEF ProjectCreated
  <2> QED BY <1>1, <2>2, <2>3, <2>4
<1>2. CASE c.type \in ProjectEdits
  <2>1. Decide(c, a) = DecideProjectEdit(c, a)
    BY <1>2 DEF Decide, GoalEdits, ProjectEdits
  <2>2. CASE c.type = "ChangeProjectName"
    <3>1. Decide(c, a) = Emit(~a.archived /\ c.value # a.name, ProjectRenamed(c.value))
      BY <2>1, <2>2 DEF DecideProjectEdit, changeName
    <3>2. ~a.archived /\ e = ProjectRenamed(c.value)
      BY <3>1 DEF Emit
    <3> QED BY <2>2, <3>2 DEF ProjectRenamed, ValidCommand, ProjectEdit
  <2>3. CASE c.type = "ChangeProjectStatus"
    <3>1. Decide(c, a) = Emit(~a.archived /\ c.value # a.status, ProjectStatusTransitioned(c.value))
      BY <2>1, <2>3 DEF DecideProjectEdit, changeStatus
    <3>2. ~a.archived /\ e = ProjectStatusTransitioned(c.value)
      BY <3>1 DEF Emit
    <3> QED BY <2>3, <3>2 DEF ProjectStatusTransitioned, ProjectEdit
  <2>4. CASE c.type = "ChangeProjectDescription"
    <3>1. Decide(c, a) = Emit(~a.archived /\ c.value # a.description, ProjectDescribed(c.value))
      BY <2>1, <2>4 DEF DecideProjectEdit, changeDescription
    <3>2. ~a.archived /\ e = ProjectDescribed(c.value)
      BY <3>1 DEF Emit
    <3> QED BY <2>4, <3>2 DEF ProjectDescribed, ProjectEdit
  <2>5. CASE c.type = "ChangeProjectDates"
    <3> DEFINE p == /\ ~a.archived /\ c.start <= c.target
                    /\ \A m \in Milestones(a) : Within(m.date, c)
               x == ProjectRescheduled(c.start, c.target)
    <3>1. Decide(c, a) = Emit(p, x)
      BY <2>1, <2>5 DEF DecideProjectEdit, changeDates
    <3> HIDE DEF p, x
    <3>2. p /\ e = x
      BY <3>1 DEF Emit
    <3>3. ~a.archived /\ c.start <= c.target /\ \A m \in Milestones(a) : Within(m.date, c)
      BY <3>2 DEF p
    <3>4. e.type = "ProjectRescheduled" /\ e.start = c.start /\ e.target = c.target
      BY <3>2 DEF x, ProjectRescheduled
    <3>5. c.start \in Int /\ c.target \in Int
      BY <2>5 DEF ValidCommand
    <3>6. ProjectEdit(a, e)
      BY <3>3, <3>4, <3>5 DEF ProjectEdit, Within
    <3> QED BY <2>5, <3>3, <3>6
  <2> QED BY <1>2, <2>2, <2>3, <2>4, <2>5 DEF ProjectEdits
<1>3. CASE c.type = "AddProjectGoal"
  <2>1. Decide(c, a) = Emit(~a.archived /\ a.goalId = None, ProjectGoalAdded(c.goal))
    BY <1>3 DEF Decide, DecideProjectGoal, addGoal, GoalEdits, ProjectEdits
  <2>2. ~a.archived /\ e = ProjectGoalAdded(c.goal)
    BY <2>1 DEF Emit
  <2> QED BY <1>3, <2>2 DEF ProjectGoalAdded, ProjectEdit
<1>4. CASE c.type = "RemoveProjectGoal"
  <2>1. Decide(c, a) = IF ~a.archived /\ a.goalId = None THEN Nothing
                       ELSE Emit(~a.archived, ProjectGoalRemoved)
    BY <1>4 DEF Decide, DecideProjectGoal, removeGoal, GoalEdits, ProjectEdits
  <2>2. Decide(c, a) = Emit(~a.archived, ProjectGoalRemoved)
    <3>1. Nothing.events # <<e>>
      BY DEF Nothing
    <3> QED BY <2>1, <3>1
  <2>3. ~a.archived /\ e = ProjectGoalRemoved
    BY <2>2 DEF Emit
  <2> QED BY <1>4, <2>3 DEF ProjectGoalRemoved, ProjectEdit
<1>5. CASE c.type = "ArchiveProject"
  <2>1. Decide(c, a) = Emit(~a.archived, ProjectArchived)
    BY <1>5 DEF Decide, archiveProject, GoalEdits, ProjectEdits
  <2>2. ~a.archived /\ e = ProjectArchived
    BY <2>1 DEF Emit
  <2> QED BY <1>5, <2>2 DEF ProjectArchived, ProjectEdit
<1>6. CASE c.type \in {"AddProjectMilestone", "ChangeProjectMilestoneTargetDate",
                       "ChangeProjectMilestoneName", "ArchiveProjectMilestone"}
  <2>1. Decide(c, a) = DecideMilestone(c, a)
    BY <1>6 DEF Decide, GoalEdits, ProjectEdits
  <2>2. CASE c.type = "AddProjectMilestone"
    <3> DEFINE p == ~a.archived /\ Within(c.date, a) /\ ~HasMilestone(a, c.milestone)
               x == ProjectMilestoneAdded(c.milestone, c.value, c.date)
    <3>1. Decide(c, a) = Emit(p, x)
      BY <2>1, <2>2 DEF DecideMilestone, addMilestone
    <3> HIDE DEF p, x
    <3>2. p /\ e = x
      BY <3>1 DEF Emit
    <3>3. ~a.archived /\ Within(c.date, a) /\ ~HasMilestone(a, c.milestone)
      BY <3>2 DEF p
    <3>4. e.type = "ProjectMilestoneAdded" /\ e.milestone = c.milestone /\ e.date = c.date
      BY <3>2 DEF x, ProjectMilestoneAdded
    <3>5. c.date \in Int
      BY <2>2 DEF ValidCommand
    <3>6. ProjectEdit(a, e)
      BY <3>3, <3>4, <3>5 DEF ProjectEdit
    <3> QED BY <2>2, <3>3, <3>6
  <2>3. CASE c.type = "ChangeProjectMilestoneTargetDate"
    <3> DEFINE p == /\ ~a.archived /\ Within(c.date, a) /\ HasMilestone(a, c.milestone)
                    /\ findMilestone(a, c.milestone).date # c.date
               x == ProjectMilestoneRescheduled(c.milestone, c.date)
    <3>1. Decide(c, a) = Emit(p, x)
      BY <2>1, <2>3 DEF DecideMilestone, changeMilestoneTargetDate
    <3> HIDE DEF p, x
    <3>2. p /\ e = x
      BY <3>1 DEF Emit
    <3>3. ~a.archived /\ Within(c.date, a) /\ HasMilestone(a, c.milestone)
      BY <3>2 DEF p
    <3>4. e.type = "ProjectMilestoneRescheduled" /\ e.milestone = c.milestone /\ e.date = c.date
      BY <3>2 DEF x, ProjectMilestoneRescheduled
    <3>5. c.date \in Int
      BY <2>3 DEF ValidCommand
    <3>6. ProjectEdit(a, e)
      BY <3>3, <3>4, <3>5 DEF ProjectEdit
    <3> QED BY <2>3, <3>3, <3>6
  <2>4. CASE c.type = "ChangeProjectMilestoneName"
    <3> DEFINE p == /\ ~a.archived /\ HasMilestone(a, c.milestone)
                    /\ findMilestone(a, c.milestone).name # c.value
               x == ProjectMilestoneRenamed(c.milestone, c.value)
    <3>1. Decide(c, a) = Emit(p, x)
      BY <2>1, <2>4 DEF DecideMilestone, changeMilestoneName
    <3> HIDE DEF p, x
    <3>2. p /\ e = x
      BY <3>1 DEF Emit
    <3>3. ~a.archived /\ HasMilestone(a, c.milestone)
      BY <3>2 DEF p
    <3>4. e.type = "ProjectMilestoneRenamed" /\ e.milestone = c.milestone
      BY <3>2 DEF x, ProjectMilestoneRenamed
    <3>5. ProjectEdit(a, e)
      BY <3>3, <3>4 DEF ProjectEdit
    <3> QED BY <2>4, <3>3, <3>5
  <2>5. CASE c.type = "ArchiveProjectMilestone"
    <3>1. Decide(c, a) = Emit(~a.archived /\ HasMilestone(a, c.milestone),
                              ProjectMilestoneArchived(c.milestone))
      BY <2>1, <2>5 DEF DecideMilestone, archiveMilestone
    <3>2. ~a.archived /\ e = ProjectMilestoneArchived(c.milestone)
      BY <3>1 DEF Emit
    <3> QED BY <2>5, <3>2 DEF ProjectMilestoneArchived, ProjectEdit
  <2> QED BY <1>6, <2>2, <2>3, <2>4, <2>5
<1> QED BY <1>1, <1>2, <1>3, <1>4, <1>5, <1>6 DEF ProjectCommands

\* The order of a project's dates and milestones in terms of its milestones.
LEMMA ScheduledIsFit ==
    ASSUME NEW a, IsSeq(a.milestones),
           \A i \in 1..Len(a.milestones) : MilestoneOK(a.milestones[i])
    PROVE  Scheduled(a) <=> a.start <= a.target /\ Fit(a.milestones, a.start, a.target)
  BY DEF Scheduled, Fit, Milestones, Within

\* A lawful history stays one with the event a command emits.
LEMMA ProjectGoesOn ==
    ASSUME NEW s, Lawful("project", s), NEW e, e.type \in ProjectEventTypes,
           \/ /\ s = <<>> /\ e.type = "ProjectCreated" /\ e.value # None
              /\ e.start \in Int /\ e.target \in Int /\ e.start <= e.target
           \/ s # <<>> /\ ~Replay("project", s).archived /\ ProjectEdit(Replay("project", s), e)
    PROVE  Lawful("project", s \o <<e>>)
<1> DEFINE w == s \o <<e>>
           a == Replay("project", s)
           b == Replay("project", w)
           ms == a.milestones
<1>0. IsSeq(s)
  BY DEF Lawful
<1>1. Continues(w, s, e)
  BY <1>0, Grown DEF Continues
<1>2. b = On("project", a, e) /\ Shown("project", w) = Shows("project", Shown("project", s), e)
  BY <1>0, ReplayGrows
<1>3. s = <<>> => a = NewProject /\ Len(s) = 0
  BY ReplayOfNothing, SeqOne DEF New
<1>4. ProjectFits(a, s) /\ Alternates(s) /\ Scheduled(a) /\ Shown("project", s) = a
  BY DEF Lawful, Legal, Visible
<1>5. ~a.archived
  BY <1>3 DEF NewProject
<1>6. \/ /\ s = <<>> /\ e.type = "ProjectCreated" /\ e.value # None /\ a = NewProject
         /\ e.start \in Int /\ e.target \in Int /\ e.start <= e.target
      \/ s # <<>> /\ ProjectEdit(a, e)
  BY <1>3
<1>7. \A i \in 1..Len(s) : s[i].type \in ProjectEventTypes
  BY DEF Lawful, EventTypes
<1> HIDE DEF w, a, b
<1>8. /\ ProjectShape(a) /\ a.version \in Nat /\ a.throws = FALSE /\ a.start \in Int /\ a.target \in Int
      /\ a.archived \in BOOLEAN
      /\ a.start <= a.target /\ Fit(ms, a.start, a.target)
  BY <1>4, ScheduledIsFit DEF ProjectFits, ProjectShape
<1>9. e.type \in Touches => HasMilestone(a, e.milestone)
  BY <1>6 DEF ProjectEdit, Touches
<1>10. ProjectChange(a, e, b) /\ b.version = a.version + 1
  BY <1>2, <1>8, <1>9, ProjectAfter
<1>11. b = Shows("project", a, e)
  <2>1. \/ e.type = "ProjectCreated" /\ a = NewProject
        \/ e.type # "ProjectCreated" /\ a.name # None
    BY <1>4, <1>6 DEF ProjectFits, ProjectEdit
  <2>2. applyProjectEventToSnapshot(a, e) = On("project", a, e)
    BY <1>8, <1>9, <2>1, ProjectShown
  <2> QED BY <1>2, <2>2 DEF Shows
<1>12. b.start \in Int /\ b.target \in Int /\ b.start <= b.target /\ Fit(b.milestones, b.start, b.target)
  <2>1. b.milestones = NextMilestones(ms, e)
    BY <1>10 DEF ProjectChange
  <2>2. CASE e.type = "ProjectCreated"
    <3>1. b.start = e.start /\ b.target = e.target /\ b.milestones = ms /\ ms = <<>>
      BY <1>6, <1>10, <2>1, <2>2 DEF ProjectChange, NextMilestones, Touches, NewProject, ProjectEdit
    <3>2. e.start \in Int /\ e.target \in Int /\ e.start <= e.target
      BY <1>6, <2>2 DEF ProjectEdit
    <3> DEFINE z == <<>>
    <3>3. IsSeq(z) /\ Len(z) = 0
      BY SeqOne
    <3> HIDE DEF z
    <3>4. Fit(z, b.start, b.target)
      BY <3>3 DEF Fit
    <3> QED BY <3>1, <3>2, <3>4 DEF z
  <2>3. CASE e.type = "ProjectRescheduled"
    <3>1. b.start = e.start /\ b.target = e.target /\ b.milestones = ms
      BY <1>10, <2>1, <2>3 DEF ProjectChange, NextMilestones, Touches
    <3>2. /\ e.start \in Int /\ e.target \in Int /\ e.start <= e.target
          /\ \A m \in Milestones(a) : e.start <= m.date /\ m.date <= e.target
      BY <1>6, <2>3 DEF ProjectEdit
    <3>3. \A i \in 1..Len(ms) : e.start <= ms[i].date /\ ms[i].date <= e.target
      BY <3>2 DEF Milestones
    <3> QED BY <1>8, <3>1, <3>2, <3>3 DEF Fit
  <2>4. CASE e.type \notin {"ProjectCreated", "ProjectRescheduled"}
    <3>1. b.start = a.start /\ b.target = a.target
      BY <1>10, <2>4 DEF ProjectChange
    <3>2. ProjectEdit(a, e)
      BY <1>6, <2>4
    <3>3. CASE e.type = "ProjectMilestoneAdded"
      <4> DEFINE x == [id |-> e.milestone, name |-> e.value, date |-> e.date]
      <4>1. e.date \in Int /\ Within(e.date, a) /\ ~HasMilestone(a, e.milestone)
        BY <3>2, <3>3 DEF ProjectEdit
      <4>2. MilestoneOK(x) /\ x.id = e.milestone /\ x.date = e.date
        BY <4>1 DEF MilestoneOK
      <4>3. b.milestones = Append(ms, x)
        BY <2>1, <3>3 DEF NextMilestones
      <4> HIDE DEF x
      <4>4. \A i \in 1..Len(ms) : ms[i].id # x.id
        BY <4>1, <4>2 DEF HasMilestone, Milestones
      <4>5. a.start <= x.date /\ x.date <= a.target
        BY <4>1, <4>2 DEF Within
      <4> QED BY <1>8, <3>1, <4>2, <4>3, <4>4, <4>5, AppendFits
    <3>4. CASE e.type \in Touches
      <4>1. b.milestones = Each(ms, e)
        BY <2>1, <3>4 DEF NextMilestones, Touches
      <4>2. e.type = "ProjectMilestoneRenamed"
            \/ (e.date \in Int /\ a.start <= e.date /\ e.date <= a.target)
        BY <3>2, <3>4 DEF ProjectEdit, Within, Touches
      <4> QED BY <1>8, <3>1, <4>1, <4>2, EachFits
    <3>5. CASE e.type = "ProjectMilestoneArchived"
      <4>1. b.milestones = Without(ms, e.milestone)
        BY <2>1, <3>5 DEF NextMilestones, Touches
      <4> QED BY <1>8, <3>1, <4>1, WithoutFits
    <3>6. CASE e.type \notin MilestoneEvents
      <4>1. b.milestones = ms
        BY <2>1, <3>6 DEF NextMilestones, Touches, MilestoneEvents
      <4> QED BY <1>8, <3>1, <4>1
    <3> QED BY <3>3, <3>4, <3>5, <3>6 DEF Touches, MilestoneEvents
  <2> QED BY <2>2, <2>3, <2>4
<1>13. ProjectFits(b, w)
  <2>1. b.version \in Nat /\ b.throws = FALSE /\ ProjectShape(b)
    BY <1>8, <1>10 DEF ProjectChange
  <2>2. b.archived \in BOOLEAN
    <3>1. b.archived \in {TRUE, a.archived}
      BY <1>10 DEF ProjectChange
    <3> QED BY <1>8, <3>1
  <2>3. b.name # None
    <3>1. CASE s = <<>>
      BY <1>6, <1>10, <3>1 DEF ProjectChange
    <3>2. CASE s # <<>>
      <4>1. a.name # None
        BY <1>4, <3>2 DEF ProjectFits
      <4>2. b.name = IF e.type \in {"ProjectCreated", "ProjectRenamed"} THEN e.value ELSE a.name
        BY <1>10 DEF ProjectChange
      <4>3. ProjectEdit(a, e)
        BY <1>6, <3>2
      <4> QED BY <4>1, <4>2, <4>3 DEF ProjectEdit
    <3> QED BY <3>1, <3>2
  <2>4. ~b.archived => \A i \in 1..Len(w) : w[i].type # "ProjectArchived"
    <3> SUFFICES ASSUME ~b.archived, NEW i \in 1..Len(w) PROVE w[i].type # "ProjectArchived"
      OBVIOUS
    <3>1. CASE i \in 1..Len(s)
      BY <1>1, <1>4, <1>5, <3>1 DEF ProjectFits, Continues
    <3>2. CASE i = Len(s) + 1
      <4>1. b.archived = IF e.type = "ProjectArchived" THEN TRUE ELSE a.archived
        BY <1>10 DEF ProjectChange
      <4> QED BY <1>1, <3>2, <4>1 DEF Continues
    <3> QED BY <1>1, <3>1, <3>2 DEF Continues
  <2> QED BY <1>12, <2>1, <2>2, <2>3, <2>4 DEF ProjectFits, ProjectShape, Fit
<1>14. Legal("project", w)
  <2>1. Alternates(w)
    <3>1. Turns(s) = {} /\ e.type \notin {"GoalAchieved", "GoalUnachieved"}
      BY <1>7 DEF Turns, ProjectEventTypes
    <3> QED BY <1>1, <1>4, <3>1, AlternatesOn
  <2>2. \A i \in 1..Len(s) : s[i].type \notin {"GoalArchived", "ProjectArchived"}
    BY <1>4, <1>5, <1>7 DEF ProjectFits, ProjectEventTypes
  <2>3. \A i, j \in 1..Len(w) : i < j => w[i].type \notin {"GoalArchived", "ProjectArchived"}
    BY <1>1, <2>2, NothingAfterArchive
  <2>4. Scheduled(b) /\ ~b.throws
    BY <1>12, <1>13, ScheduledIsFit DEF ProjectFits
  <2> QED BY <2>1, <2>3, <2>4 DEF Legal, b
<1>15. \A i \in 1..Len(w) : w[i].type \in EventTypes("project")
  <2> TAKE i \in 1..Len(w)
  <2>1. CASE i \in 1..Len(s)
    BY <1>1, <1>7, <2>1 DEF Continues, EventTypes
  <2>2. CASE i = Len(s) + 1
    BY <1>1, <2>2 DEF Continues, EventTypes
  <2> QED BY <1>1, <2>1, <2>2 DEF Continues
<1>16. Shown("project", w) = Visible("project", b)
  BY <1>2, <1>4, <1>11 DEF Visible
<1>17. Lawful("project", w)
  BY <1>1, <1>13, <1>14, <1>15, <1>16 DEF Lawful, Continues, b
<1> QED BY <1>17 DEF w

-----------------------------------------------------------------------------
(* Histories *)

LEMMA LawfulEmpty == ASSUME NEW k \in {"goal", "project"} PROVE Lawful(k, <<>>)
<1> DEFINE z == <<>>
<1>1. IsSeq(z) /\ Len(z) = 0 /\ z = <<>>
  BY SeqOne
<1>2. Replay(k, z) = New(k) /\ Shown(k, z) = New(k)
  BY ReplayOfNothing
<1> HIDE DEF z
<1>3. Turns(z) = {} /\ Alternates(z)
  BY <1>1 DEF Turns, Alternates
<1>4. CASE k = "goal"
  <2>1. GoalFits(NewGoal, z)
    BY <1>1, <1>3 DEF GoalFits, NewGoal
  <2>2. [NewGoal EXCEPT !.access = {}] = NewGoal
    <3>1. /\ NewGoal = [version |-> NewGoal.version, summary |-> NewGoal.summary,
                        slice |-> NewGoal.slice, targetMonth |-> NewGoal.targetMonth,
                        priority |-> NewGoal.priority, achieved |-> NewGoal.achieved,
                        archived |-> NewGoal.archived, access |-> NewGoal.access]
          /\ NewGoal.access = {}
      BY DEF NewGoal
    <3> QED BY <3>1, GoalExcept
  <2> QED BY <1>1, <1>2, <1>3, <1>4, <2>1, <2>2 DEF Lawful, Legal, Visible, New, z
<1>5. CASE k = "project"
  <2>1. NewProject.milestones = z /\ NewProject.start = 0 /\ NewProject.target = 0 /\ ~NewProject.throws
    BY <1>1 DEF NewProject
  <2>2. Scheduled(NewProject)
    BY <1>1, <2>1 DEF Scheduled, Milestones
  <2>3. ProjectFits(NewProject, z)
    <3>1. \A i \in 1..Len(z) : MilestoneOK(z[i]) /\ z[i].type # "ProjectArchived"
      BY <1>1
    <3> QED BY <1>1, <2>1, <3>1 DEF ProjectFits, NewProject
  <2> QED BY <1>1, <1>2, <1>3, <1>5, <2>1, <2>2, <2>3 DEF Lawful, Legal, Visible, New, z
<1> QED BY <1>4, <1>5

\* What a command decides on a lawful history keeps it lawful.
LEMMA CommandGoesOn ==
    ASSUME NEW k \in {"goal", "project"}, NEW s, Lawful(k, s), NEW c, c.type \in CommandTypes(k),
           ValidCommand(c), IsCreate(c) <=> s = <<>>, NEW e,
           Decide(c, Replay(k, s)).ok, Decide(c, Replay(k, s)).events = <<e>>
    PROVE  Lawful(k, s \o <<e>>)
<1> DEFINE a == Replay(k, s)
           d == Decide(c, a)
<1>1. d.ok /\ d.events = <<e>>
  OBVIOUS
<1>2. e.type \in EventTypes(k)
  <2>1. Answers(d, EventTypes(k))
    BY GoalDecides, ProjectDecides DEF CommandTypes, EventTypes
  <2> HIDE DEF d
  <2> QED BY <1>1, <2>1 DEF Answers
<1>3. CASE k = "goal"
  <2>1. c.type \in GoalCommands /\ e.type \in GoalEventTypes
    BY <1>2, <1>3 DEF CommandTypes, EventTypes
  <2>2. /\ IsCreate(c) => e.type = "GoalCreated" /\ e.value # None
        /\ ~IsCreate(c) => ~a.archived /\ GoalEdit(a, e)
    <3> HIDE DEF a
    <3> QED BY <1>1, <2>1, GoalEmits
  <2> QED BY <1>3, <2>1, <2>2, GoalGoesOn
<1>4. CASE k = "project"
  <2>1. c.type \in ProjectCommands /\ e.type \in ProjectEventTypes
    BY <1>2, <1>4 DEF CommandTypes, EventTypes
  <2>2. /\ IsCreate(c) => /\ e.type = "ProjectCreated" /\ e.value # None
                          /\ e.start \in Int /\ e.target \in Int /\ e.start <= e.target
        /\ ~IsCreate(c) => ~a.archived /\ ProjectEdit(a, e)
    <3> HIDE DEF a
    <3> QED BY <1>1, <2>1, ProjectEmits
  <2> QED BY <1>4, <2>1, <2>2, ProjectGoesOn
<1> QED BY <1>3, <1>4

LEMMA PartGrows ==
    ASSUME NEW s, IsSeq(s), NEW n \in 1..Len(s)
    PROVE  /\ SubSeq(s, 1, n) = SubSeq(s, 1, n - 1) \o <<s[n]>>
           /\ SubSeq(s, 1, n - 1) = <<>> <=> n = 1
<1> DEFINE m == n - 1
           u == SubSeq(s, 1, m)
           v == SubSeq(s, 1, n)
           e == s[n]
           t == <<e>>
           w == u \o t
<1>0. Len(s) \in Nat /\ n \in Nat /\ m \in Nat /\ m + 1 = n /\ n <= Len(s) /\ m <= Len(s) /\ 1 <= n
  BY SeqDomain
<1> HIDE DEF m
<1>1. IsSeq(u) /\ Len(u) = m - 1 + 1 /\ \A i \in 1..(m - 1 + 1) : u[i] = s[1 + i - 1]
  BY <1>0, SeqPart
<1>2. IsSeq(v) /\ Len(v) = n - 1 + 1 /\ \A i \in 1..(n - 1 + 1) : v[i] = s[1 + i - 1]
  BY <1>0, SeqPart
<1> HIDE DEF u, v, e
<1>3. /\ IsSeq(w) /\ Len(w) = Len(u) + 1
      /\ \A i \in 1..Len(u) : w[i] = u[i]
      /\ w[Len(u) + 1] = e
  BY <1>1, Grown
<1> HIDE DEF w
<1>4. Len(v) = Len(w) /\ Len(u) = m
  BY <1>0, <1>1, <1>2, <1>3
<1>5. ASSUME NEW i \in 1..Len(v) PROVE v[i] = w[i]
  <2>1. v[i] = s[i]
    BY <1>0, <1>2
  <2>2. CASE i <= m
    <3>1. i \in 1..Len(u) /\ i \in 1..(m - 1 + 1) /\ 1 + i - 1 = i
      BY <1>0, <1>4, <2>2
    <3> QED BY <1>1, <1>3, <2>1, <3>1
  <2>3. CASE i > m
    <3>1. i = n /\ i = Len(u) + 1
      BY <1>0, <1>2, <1>4, <2>3
    <3> QED BY <1>3, <2>1, <3>1 DEF e
  <2> QED BY <1>0, <2>2, <2>3
<1>6. v = w
  BY <1>2, <1>3, <1>4, <1>5, SeqSame
<1>7. u = <<>> <=> n = 1
  <2>1. u = <<>> <=> Len(u) = 0
    BY <1>1, NothingIsEmpty, SeqOne
  <2> QED BY <1>0, <1>4, <2>1
<1> QED BY <1>6, <1>7 DEF v, w, u, e, m

LEMMA HistoryLawful == ASSUME NEW k \in Kinds PROVE Lawful(k, History[k])
<1> DEFINE H == History[k]
           Good(n) == Lawful(k, SubSeq(H, 1, n))
           Bad == {n \in Nat : n <= Len(H) /\ ~Good(n)}
<1>1. IsSeq(H) /\ Len(H) \in Nat /\ k \in {"goal", "project"}
  BY HistoryTyped, CommandConstants
<1>2. ASSUME NEW i \in 1..Len(H)
      PROVE  \E c \in IF i = 1 THEN Creates[k] ELSE Offered[k] :
                 /\ Decide(c, Replay(k, SubSeq(H, 1, i - 1))).ok
                 /\ Decide(c, Replay(k, SubSeq(H, 1, i - 1))).events = <<H[i]>>
  BY CommandConstants
<1>3. \A c \in Creates[k] \cup Offered[k] : c.type \in CommandTypes(k) /\ ValidCommand(c)
  BY CommandConstants
<1>4. (\A c \in Creates[k] : IsCreate(c)) /\ \A c \in Offered[k] : ~IsCreate(c)
  BY CommandConstants
<1> HIDE DEF H
<1>5. Bad = {}
  <2>1. SUFFICES ASSUME Bad # {} PROVE FALSE
    OBVIOUS
  <2>2. PICK n \in Bad : \A i \in Bad : n <= i
    BY <2>1, LeastNumber
  <2>3. n # 0
    <3>1. SubSeq(H, 1, 0) = <<>>
      <4> DEFINE u == SubSeq(H, 1, 0)
      <4>1. IsSeq(u) /\ Len(u) = 0 - 1 + 1
        BY <1>1, SeqPart
      <4> HIDE DEF u
      <4>2. u = <<>>
        BY <4>1, NothingIsEmpty
      <4> QED BY <4>2 DEF u
    <3>2. Good(0)
      BY <1>1, <3>1, LawfulEmpty
    <3> QED BY <2>2, <3>2
  <2>4. n - 1 \in Nat /\ n \in 1..Len(H) /\ n - 1 \notin Bad
    <3>1. n - 1 \in Nat /\ ~(n <= n - 1) /\ n \in 1..Len(H)
      BY <1>1, <2>2, <2>3
    <3> HIDE DEF Bad
    <3> QED BY <2>2, <3>1
  <2>5. Good(n - 1)
    <3>1. n - 1 <= Len(H)
      BY <1>1, <2>4
    <3> HIDE DEF Good
    <3> QED BY <2>4, <3>1
  <2> DEFINE s == SubSeq(H, 1, n - 1)
             e == H[n]
  <2>6. SubSeq(H, 1, n) = s \o <<e>> /\ (s = <<>> <=> n = 1) /\ Lawful(k, s)
    BY <1>1, <2>4, <2>5, PartGrows
  <2>7. PICK c \in IF n = 1 THEN Creates[k] ELSE Offered[k] :
            Decide(c, Replay(k, s)).ok /\ Decide(c, Replay(k, s)).events = <<e>>
    BY <1>2, <2>4
  <2> HIDE DEF s, e
  <2>8. c.type \in CommandTypes(k) /\ ValidCommand(c) /\ (IsCreate(c) <=> s = <<>>)
    BY <1>3, <1>4, <2>6, <2>7
  <2>9. Lawful(k, s \o <<e>>)
    BY <1>1, <2>6, <2>7, <2>8, CommandGoesOn
  <2>10. Good(n)
    BY <2>6, <2>9
  <2> QED BY <2>2, <2>10
<1>6. Good(Len(H))
  <2> HIDE DEF Good
  <2> QED BY <1>1, <1>5
<1>7. SubSeq(H, 1, Len(H)) = H
  BY <1>1, WholeSeq
<1> QED BY <1>6, <1>7 DEF H

-----------------------------------------------------------------------------
(* The rows stay a lawful history *)

\* Every command that was sent is one its value objects let through.
CommandsValid == \A k \in Keys : ~Fresh(k) => ValidCommand(cmd[k])

LEMMA SentValid ==
    ASSUME NEW c, "type" \in DOMAIN c, ValidCommand(c), NEW v PROVE ValidCommand(Sent(c, v))
<1> DEFINE d == Sent(c, v)
<1>1. d.type = c.type
  BY SentFields
<1>2. \A f \in {"value", "start", "target", "date"} : f \in DOMAIN c => f \in DOMAIN d /\ d[f] = c[f]
  BY DEF Sent
<1> HIDE DEF d
<1>3. ValidCommand(d)
  BY <1>1, <1>2 DEF ValidCommand
<1> QED BY <1>3 DEF d

LEMMA StepValid == CommandInv /\ CommandsValid /\ [Next]_vars => CommandsValid'
<1> SUFFICES ASSUME CommandInv, CommandsValid, [Next]_vars PROVE CommandsValid'
  OBVIOUS
<1>0. kind \in Kinds /\ cmd = [k \in Keys |-> cmd[k]]
  BY DEF CommandInv, TypeOK, RowsOK, KeysOK
<1>1. \A c \in Creates[kind] \cup Offered[kind] : "type" \in DOMAIN c /\ ValidCommand(c)
  BY <1>0, CommandConstants
<1>2. \A c \in Creates[kind] \cup Offered[kind] : \A v : ValidCommand(Sent(c, v))
  BY <1>1, SentValid
<1>3. CASE cmd' = cmd
  BY <1>3 DEF CommandsValid, Fresh
<1>4. ASSUME NEW k \in Keys, NEW c \in Creates[kind] \cup Offered[kind], NEW v,
             cmd' = [cmd EXCEPT ![k] = Sent(c, v)]
      PROVE  CommandsValid'
  <2>1. cmd'[k] = Sent(c, v) /\ \A j \in Keys : j # k => cmd'[j] = cmd[j]
    BY <1>0, <1>4
  <2> QED BY <1>2, <2>1 DEF CommandsValid, Fresh
<1>5. ASSUME NEW h \in Handlers, NEW j \in Keys, NEW k \in Keys, SubmitForm(h, j, k)
      PROVE  CommandsValid'
  <2>1. PICK c \in Offered[kind], d \in Offered[kind], v \in 1..MaxVersion :
            cmd' = [cmd EXCEPT ![j] = Sent(c, v), ![k] = Sent(d, v + 1)]
    BY <1>5 DEF SubmitForm
  <2>2. \A i \in Keys : cmd'[i] \in {Sent(c, v), Sent(d, v + 1)} \/ cmd'[i] = cmd[i]
    BY <1>0, <2>1
  <2> QED BY <1>2, <2>2 DEF CommandsValid, Fresh
<1>6. ASSUME NEW h \in Handlers, NEW k \in Keys, SubmitCreate(h, k) PROVE CommandsValid'
  BY <1>4, <1>6 DEF SubmitCreate
<1>7. ASSUME NEW h \in Handlers, NEW k \in Keys, Submit(h, k) PROVE CommandsValid'
  BY <1>4, <1>7 DEF Submit
<1>8. ASSUME NEW h \in Handlers, NEW k \in Keys, Resend(h, k) PROVE CommandsValid'
  BY <1>3, <1>8 DEF Resend
<1>9. ASSUME NEW h \in Handlers,
             \/ CheckDuplicate(h) \/ LoadForCreate(h) \/ ReadSnapshot(h) \/ LoadAndDecide(h)
             \/ PurgeCorruptSnapshot(h) \/ SaveAggregateKey(h) \/ ReadMaxVersion(h)
             \/ Insert(h) \/ Conflict(h) \/ PersistSnapshot(h)
             \/ RecordLookup(h) \/ RecordInsert(h) \/ Crash(h)
      PROVE  CommandsValid'
  BY <1>3, <1>9 DEF CheckDuplicate, LoadForCreate, ReadSnapshot, LoadAndDecide,
         PurgeCorruptSnapshot, SaveAggregateKey, ReadMaxVersion, Insert, Conflict, PersistSnapshot, RecordLookup,
         RecordInsert, Crash
<1>10. CASE \/ Pushed \/ MakeRoom \/ \E e \in Remote[kind] : RemoteEvent(e)
            \/ \E es \in [1..room -> Remote[kind]] : FillRoom(es)
  BY <1>3, <1>10 DEF Pushed, RemoteEvent, MakeRoom, FillRoom
<1>11. CASE UNCHANGED vars
  BY <1>3, <1>11 DEF vars
<1> QED BY <1>5, <1>6, <1>7, <1>8, <1>9, <1>10, <1>11 DEF Next

LEMMA LawfulAgain ==
    ASSUME LawfulInv, UNCHANGED <<kind, remote>>, raced => raced', Events' = Events,
           \A g \in Handlers : GoesOn(g)
    PROVE  LawfulInv'
<1> SUFFICES ASSUME ~raced, remote = 0
             PROVE  /\ Lawful(kind, Events)
                    /\ \A h \in Handlers :
                           Holds(h)' /\ ~th'[h].behind => Lawful(kind, Events \o th'[h].out)
  BY DEF LawfulInv
<1>1. ASSUME NEW h \in Handlers, Holds(h)', ~th'[h].behind
      PROVE  Lawful(kind, Events \o th'[h].out)
  <2>1. th'[h].out = th[h].out /\ th'[h].behind = th[h].behind /\ Holds(h)
    BY <1>1 DEF GoesOn, Stays, Late, Holds
  <2> QED BY <1>1, <2>1 DEF LawfulInv
<1> QED BY <1>1 DEF LawfulInv

\* What a handler decides on the replay of all rows.
LEMMA DecidedLawful ==
    ASSUME CommandInv, CommandsValid, LawfulInv, NEW h \in Handlers,
           th[h].pc \in {"load", "rows"}, NEW d, NEW before, d = Decide(Cmd(h), before), d.ok,
           ~raced /\ th[h].behind = FALSE => before = Replay(kind, Events),
           remote = 0 => (IsCreate(Cmd(h)) <=> rows = <<>>),
           Decided(h, d.events, before), UNCHANGED <<kind, rows, room, raced, remote>>
    PROVE  LawfulInv'
<1>p. PICK x : GoesOnWith(h, x, d.events, before)
  BY DecidedThread
<1>1. /\ ThreadOK(x) /\ th' = [th EXCEPT ![h] = x]
      /\ x.pc = IF d.events = <<>> THEN "record" ELSE IF hasKey THEN "max" ELSE "key"
      /\ x.out = d.events
  BY <1>p DEF GoesOnWith
<1>b. x.behind \in BOOLEAN /\ (x.behind = FALSE => th[h].behind = FALSE)
  BY <1>p DEF GoesOnWith, ThreadOK
<1>2. th'[h] = x /\ \A g \in Handlers : g # h => th'[g] = th[g]
  BY <1>1, Edited DEF CommandInv, TypeOK, ThreadOK
<1>3. Events' = Events
  BY SameEvents
<1> SUFFICES ASSUME ~raced, remote = 0
             PROVE  /\ Lawful(kind, Events)
                    /\ \A g \in Handlers :
                           Holds(g)' /\ ~th'[g].behind => Lawful(kind, Events \o th'[g].out)
  BY <1>3 DEF LawfulInv
<1>4. ASSUME x.pc \in {"key", "max", "append"}, x.behind = FALSE
      PROVE  Lawful(kind, Events \o x.out)
  <2>0. before = Replay(kind, Events)
    BY <1>4, <1>b
  <2>1. d.events # <<>>
    BY <1>1, <1>4
  <2>2. Answers(d, EventTypes(kind))
    BY CommandAnswers
  <2>3. PICK e : d.events = <<e>>
    BY <2>1, <2>2 DEF Answers
  <2>4. Cmd(h).type \in CommandTypes(kind) /\ ValidCommand(Cmd(h))
    BY KeyOfHandler DEF CommandInv, TypeOK, KeysOK, CommandsValid, Cmd
  <2>5. kind \in {"goal", "project"} /\ (rows = <<>> <=> Events = <<>>)
    <3>1. IsSeq(Events) /\ Len(Events) = Len(rows) /\ IsSeq(rows) /\ kind \in {"goal", "project"}
      BY EventsOfRows, CommandConstants DEF CommandInv, TypeOK, RowsOK
    <3>2. rows = <<>> <=> Len(rows) = 0
      BY <3>1, NothingIsEmpty, SeqOne
    <3> DEFINE ev == Events
    <3>3. IsSeq(ev) /\ Len(ev) = Len(rows)
      BY <3>1
    <3> HIDE DEF ev
    <3>4. ev = <<>> <=> Len(ev) = 0
      BY <3>3, NothingIsEmpty, SeqOne
    <3> QED BY <3>1, <3>2, <3>3, <3>4 DEF ev
  <2>6. Lawful(kind, Events)
    BY DEF LawfulInv
  <2> DEFINE ev == Events
             c == Cmd(h)
  <2>7. /\ kind \in {"goal", "project"} /\ Lawful(kind, ev) /\ c.type \in CommandTypes(kind)
        /\ ValidCommand(c) /\ (IsCreate(c) <=> ev = <<>>)
        /\ Decide(c, Replay(kind, ev)).ok /\ Decide(c, Replay(kind, ev)).events = <<e>>
    BY <2>0, <2>3, <2>4, <2>5, <2>6
  <2> HIDE DEF ev, c
  <2>8. Lawful(kind, ev \o <<e>>)
    BY <2>7, CommandGoesOn
  <2> QED BY <1>1, <2>3, <2>8 DEF ev
<1>5. ASSUME NEW g \in Handlers, Holds(g)', ~th'[g].behind
      PROVE  Lawful(kind, Events \o th'[g].out)
  <2>1. CASE g = h
    BY <1>2, <1>4, <1>5, <1>b, <2>1 DEF Holds
  <2>2. CASE g # h
    BY <1>2, <1>5, <2>2 DEF LawfulInv, Holds
  <2> QED BY <2>1, <2>2
<1> QED BY <1>5 DEF LawfulInv

LEMMA LoadLawful ==
    ASSUME CommandInv, SnapshotsHold, CommandsValid, LawfulInv, NEW h \in Handlers,
           LoadForCreate(h) \/ LoadAndDecide(h)
    PROVE  LawfulInv'
<1>0. th[h].pc \in {"load", "rows"} /\ UNCHANGED <<kind, rows, room, raced, remote>>
  BY DEF LoadForCreate, LoadAndDecide
<1>1. ASSUME Return(h) \/ Fail(h) PROVE LawfulInv'
  <2>1. PICK x : /\ ThreadOK(x) /\ th' = [th EXCEPT ![h] = x] /\ x.pc \in {"idle", "check"}
    BY <1>0, <1>1, ReturnThread, FailThread DEF Fail
  <2>2. \A g \in Handlers : GoesOn(g)
    BY <2>1, OneGoesOn DEF Late
  <2> QED BY <1>0, <2>2, SameEvents, LawfulAgain
<1>2. ASSUME LoadForCreate(h) PROVE LawfulInv'
  <2> DEFINE d == Decide(Cmd(h), New(kind))
  <2>1. CASE hasKey /\ rows # <<>>
    BY <1>1, <1>2, <2>1 DEF LoadForCreate
  <2>2. CASE ~(hasKey /\ rows # <<>>) /\ ~d.ok
    BY <1>1, <1>2, <2>2 DEF LoadForCreate
  <2>3. CASE ~(hasKey /\ rows # <<>>) /\ d.ok
    <3>1. Decided(h, d.events, New(kind)) /\ IsCreate(Cmd(h))
      BY <1>2, <2>3 DEF LoadForCreate
    <3>2. rows = <<>>
      BY <2>3 DEF CommandInv, TypeOK, RowsOK
    <3>3. Events = <<>>
      <4>1. Len(rows) = 0
        BY <3>2, SeqOne
      <4> DEFINE ev == Events
      <4>2. IsSeq(ev) /\ Len(ev) = 0
        BY <4>1, EventsOfRows DEF CommandInv, TypeOK
      <4> HIDE DEF ev
      <4>3. ev = <<>>
        BY <4>2, NothingIsEmpty
      <4> QED BY <4>3 DEF ev
    <3>4. New(kind) = Replay(kind, Events)
      BY <3>3, AppliedNothing DEF Replay
    <3>5. d = Decide(Cmd(h), New(kind)) /\ d.ok
      BY <2>3
    <3> HIDE DEF d
    <3> QED BY <1>0, <3>1, <3>2, <3>4, <3>5, DecidedLawful
  <2> QED BY <2>1, <2>2, <2>3
<1>3. ASSUME LoadAndDecide(h) PROVE LawfulInv'
  <2> DEFINE a == Load(th[h].memory)
             d == Decide(Cmd(h), a)
  <2>1. CASE ~(MayDecide(a, th[h].known) /\ d.ok /\ hasKey)
    BY <1>1, <1>3, <2>1 DEF LoadAndDecide
  <2>2. CASE MayDecide(a, th[h].known) /\ d.ok /\ hasKey
    <3>1. Decided(h, d.events, a) /\ th[h].pc = "rows"
      BY <1>3, <2>2 DEF LoadAndDecide
    <3>2. ~raced /\ th[h].behind = FALSE => a = Replay(kind, Events)
      <4>1. th[h].behind = FALSE => th[h].memory \in InMemory
        BY <3>1 DEF InMemory
      <4> QED BY <4>1, LoadFromSnapshot DEF LoadIsReplay
    <3>3. a.version > 0 /\ a.version = th[h].known
      BY <2>2 DEF MayDecide
    <3>4. d = Decide(Cmd(h), a) /\ d.ok
      BY <2>2
    <3>5. room = 0 => a.version = Len(rows)
      <4>1. IsState(th[h].memory) /\ th[h].memory.version <= MaxVersion
        BY <3>1 DEF CommandInv, DecisionOK
      <4> QED BY <4>1, LoadCounted DEF CommandInv, TypeOK
    <3> HIDE DEF d, a
    <3>6. ~IsCreate(Cmd(h))
      BY <3>1, <3>3 DEF CommandInv, EffectOK, KnownOK, Cmd, Key
    <3>7. remote = 0 => rows # <<>>
      <4>1. remote = 0 => room = 0
        BY DEF CommandInv, TypeOK, RowsOK
      <4>2. remote = 0 => Len(rows) > 0
        BY <3>3, <3>5, <4>1
      <4> QED BY <4>2, SeqOne
    <3> QED BY <1>0, <3>1, <3>2, <3>4, <3>6, <3>7, DecidedLawful
  <2> QED BY <2>1, <2>2
<1> QED BY <1>2, <1>3

\* The event a handler appends is the one its decision made lawful, and everybody
\* else who decided before is behind.
LEMMA InsertLawful ==
    ASSUME CommandInv, LawfulInv, NEW h \in Handlers, Insert(h) PROVE LawfulInv'
<1>1. /\ th[h].pc = "append" /\ raced' = (raced \/ th[h].behind) /\ UNCHANGED <<kind, remote>>
      /\ th'[h] = Inserted(h)
      /\ OthersFallBehind(h)
      /\ Events' = Events \o th[h].out
  BY InsertGrows
<1>2. Inserted(h).pc \in {"snapshot", "record"}
  BY <1>1, InsertedThread
<1>3. \A g \in Handlers : ~(Holds(g)' /\ ~th'[g].behind)
  BY <1>1, <1>2 DEF Holds, Late, OthersFallBehind, FellBehind
<1>4. ~raced /\ ~th[h].behind /\ remote = 0 => Lawful(kind, Events \o th[h].out)
  BY <1>1 DEF LawfulInv, Holds
<1> QED BY <1>1, <1>3, <1>4 DEF LawfulInv

LEMMA PersistLawful ==
    ASSUME CommandInv, LawfulInv, NEW h \in Handlers, PersistSnapshot(h) PROVE LawfulInv'
<1>0. /\ th[h].pc = "snapshot" /\ th' = [th EXCEPT ![h] = Written(h)]
      /\ raced' = (raced \/ th[h].behind) /\ UNCHANGED <<kind, rows, room, remote>>
  BY DEF PersistSnapshot
<1>1. \A g \in Handlers : GoesOn(g)
  BY <1>0, WrittenThread, OneGoesOn DEF Late
<1>2. Events' = Events
  BY <1>0, SameEvents
<1>3. raced => raced'
  BY <1>0
<1> QED BY <1>0, <1>1, <1>2, <1>3, LawfulAgain

LEMMA SyncLawful ==
    ASSUME CommandInv, LawfulInv,
           \/ MakeRoom
           \/ \E es \in [1..room -> Remote[kind]] : FillRoom(es)
           \/ \E e \in Remote[kind] : RemoteEvent(e)
    PROVE  LawfulInv'
<1>0. remote \in Nat /\ room \in 0..remote
  BY Versions DEF CommandInv, TypeOK, RowsOK
<1>1. remote' # 0
  <2>1. MakeRoom => remote' = remote + 1
    BY DEF MakeRoom
  <2>2. \A es : FillRoom(es) => remote' = remote /\ room > 0
    BY DEF FillRoom
  <2>3. \A e : RemoteEvent(e) => remote' = remote + 1
    BY DEF RemoteEvent
  <2>4. remote' = remote + 1 \/ (remote' = remote /\ room > 0)
    BY <2>1, <2>2, <2>3
  <2> QED BY <1>0, <2>4
<1> QED BY <1>1 DEF LawfulInv

LEMMA ReadLawful ==
    ASSUME CommandInv, LawfulInv, NEW h \in Handlers, ReadSnapshot(h) PROVE LawfulInv'
<1>0. UNCHANGED <<kind, rows, raced, remote>>
  BY DEF ReadSnapshot
<1>1. PICK x : ThreadOK(x) /\ th' = [th EXCEPT ![h] = x] /\ x.pc = "rows"
  BY ReadThread
<1>2. th'[h] = x /\ \A g \in Handlers : g # h => th'[g] = th[g]
  BY <1>1, Edited DEF CommandInv, TypeOK, ThreadOK
<1>3. Events' = Events
  BY <1>0, SameEvents
<1>4. \A g \in Handlers : Holds(g)' => Holds(g) /\ th'[g] = th[g]
  BY <1>1, <1>2 DEF Holds
<1> QED BY <1>0, <1>3, <1>4 DEF LawfulInv

LEMMA InitLawful == Init => CommandsValid /\ LawfulInv
<1> SUFFICES ASSUME Init PROVE CommandsValid /\ LawfulInv
  OBVIOUS
<1>1. kind \in Kinds /\ kind \in {"goal", "project"} /\ \A h \in Handlers : th[h].pc = "idle"
  BY IdleFields, CommandConstants DEF Init
<1>2. CommandsValid
  BY DEF Init, CommandsValid, Fresh
<1>3. Lawful(kind, Events)
  <2> DEFINE H == History[kind]
             ev == Events
  <2>1. CASE rows = <<>>
    <3>1. IsSeq(ev) /\ Len(ev) = 0
      BY <2>1, SeqOne DEF Events, IsSeq
    <3> HIDE DEF ev
    <3>2. ev = <<>>
      BY <3>1, NothingIsEmpty
    <3> QED BY <1>1, <3>2, LawfulEmpty DEF ev
  <2>2. CASE rows = [i \in 1..Len(H) |-> [event |-> H[i], pending |-> FALSE]]
    <3>1. IsSeq(H) /\ Len(H) \in Nat
      BY <1>1, HistoryTyped
    <3>2. Lawful(kind, H)
      BY <1>1, HistoryLawful
    <3> HIDE DEF H
    <3>3. Len(rows) = Len(H) /\ \A i \in 1..Len(H) : rows[i].event = H[i]
      BY <2>2, <3>1
    <3>4. Events = [i \in 1..Len(H) |-> H[i]]
      BY <3>3 DEF Events
    <3>5. [i \in 1..Len(H) |-> H[i]] = H
      BY <3>1 DEF IsSeq
    <3> QED BY <3>2, <3>4, <3>5
  <2> QED BY <2>1, <2>2 DEF Init
<1> QED BY <1>1, <1>2, <1>3 DEF LawfulInv, Holds

LEMMA StepLawful ==
    CommandInv /\ SnapshotsHold /\ CommandsValid /\ LawfulInv /\ [Next]_vars => LawfulInv'
<1> SUFFICES ASSUME CommandInv, SnapshotsHold, CommandsValid, LawfulInv, [Next]_vars
             PROVE  LawfulInv'
  OBVIOUS
<1>1. CASE UNCHANGED vars
  <2>1. UNCHANGED <<kind, rows, room, th, raced, remote>>
    BY <1>1 DEF vars
  <2> QED BY <2>1, SameEvents, StillGoOn, LawfulAgain
<1>2. ASSUME NEW h \in Handlers, NEW j \in Keys, NEW k \in Keys,
             SubmitCreate(h, k) \/ Submit(h, k) \/ Resend(h, k) \/ SubmitForm(h, j, k)
      PROVE  LawfulInv'
  BY <1>2, SendGoesOn, SameEvents, LawfulAgain
<1>3. ASSUME NEW h \in Handlers, Calm(h) PROVE LawfulInv'
  BY <1>3, CalmGoesOn, SameEvents, LawfulAgain
<1>4. ASSUME NEW h \in Handlers, LoadForCreate(h) \/ LoadAndDecide(h) PROVE LawfulInv'
  BY <1>4, LoadLawful
<1>5. ASSUME NEW h \in Handlers, Insert(h) \/ PersistSnapshot(h) \/ ReadSnapshot(h)
      PROVE  LawfulInv'
  BY <1>5, InsertLawful, PersistLawful, ReadLawful
<1>6. CASE \/ MakeRoom \/ \E e \in Remote[kind] : RemoteEvent(e)
           \/ \E es \in [1..room -> Remote[kind]] : FillRoom(es)
  BY <1>6, SyncLawful
<1>7. CASE Pushed
  BY <1>7, PushedSame, StillGoOn, LawfulAgain
<1> QED BY <1>1, <1>2, <1>3, <1>4, <1>5, <1>6, <1>7 DEF Next, Calm

LEMMA LawfulAlways == Spec => []LawfulInv
<1>1. Init => CommandInv /\ SnapshotsHold /\ CommandsValid /\ LawfulInv
  BY InitCommands, InitSnapshots, InitLawful
<1>2. CommandInv /\ SnapshotsHold /\ CommandsValid /\ LawfulInv /\ [Next]_vars
      => (CommandInv /\ SnapshotsHold /\ CommandsValid /\ LawfulInv)'
  BY StepCommands, StepSnapshots, StepValid, StepLawful
<1> QED BY <1>1, <1>2, PTL DEF Spec

\* The rules of Goal and Project hold over whole histories: nothing follows an
\* archive, achievements alternate, dates stay in order with distinct milestones
\* between them, and replaying never throws, whatever handlers interleave, as
\* long as no handler wrote over another and no remote event came in between.
THEOREM HistoriesStayLegal == Spec => []HistoryLegal
<1>1. LawfulInv => HistoryLegal
  BY DEF LawfulInv, Lawful, HistoryLegal
<1> QED BY <1>1, LawfulAlways, PTL

\* The projections' own fold of the rows shows what the aggregate itself holds,
\* the version users send back included.
THEOREM ReadModelsAgree == Spec => []ReadModelAgrees
<1>1. LawfulInv => ReadModelAgrees
  BY DEF LawfulInv, Lawful, ReadModelAgrees
<1> QED BY <1>1, LawfulAlways, PTL
=============================================================================
