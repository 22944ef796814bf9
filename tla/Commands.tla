----------------------------- MODULE Commands -----------------------------
(***************************************************************************)
(* Commands on one aggregate, a goal or a project: the forms of the user   *)
(* interface, GoalCommandHandler and ProjectCommandHandler, the            *)
(* repositories with their snapshots, the append to the event store and    *)
(* the idempotency keys.                                                   *)
(*                                                                         *)
(* Several handlers run at once (two tabs, or a form and the saga); an     *)
(* action is the code between two requests to the database.  The sync      *)
(* engine renumbers pending rows and then inserts remote events, in two    *)
(* transactions, and marks local ones as synchronised.                     *)
(***************************************************************************)
EXTENDS Aggregates

CONSTANTS
    Handlers,      \* command handlers that may run at the same time
    Keys,          \* idempotency keys; a key identifies a command
    Kinds,         \* a subset of {"goal", "project"}
    History,       \* History[kind]: the events the aggregate starts with
    Creates,       \* Creates[kind]: the commands that create it
    Offered,       \* Offered[kind]: the other commands users and sagas send
    Remote,        \* Remote[kind]: events another device may have recorded
    MaxRemote,     \* bound on remote events
    MaxEffects     \* bound: a key with so many effects is not sent again

VARIABLES
    kind,     \* what the aggregate is
    rows,     \* its rows in table events in version order: [event, pending]
    room,     \* versions freed before the pending rows, not yet taken
    snap,     \* its row in table snapshots: the aggregate's state, or NoSnapshot
    hasKey,   \* the key store has the aggregate's key
    idem,     \* table idempotency_keys: the recorded keys
    cmd,      \* the command of a key, with the version its first sender knew
    th,       \* the handlers
    remote,   \* remote events so far
    done,     \* history: the effects of a key, with the version their sender knew
    noops,    \* history: keys whose command was carried out without an event
    raced     \* history: a handler wrote what it had decided before another write

vars == <<kind, rows, room, snap, hasKey, idem, cmd, th, remote, done, noops, raced>>

NoSnapshot == [version |-> 0]
NoCommand == [type |-> "none"]

\* A handler: the keys of the commands to come, the version the sender of the
\* first knew, the aggregate in memory, the events to append and their first
\* version.  History: it is behind when rows it has not read were written, or
\* were about to be.
Idle == [pc |-> "idle", queue |-> <<>>, known |-> 0, memory |-> NoSnapshot,
         out |-> <<>>, start |-> 0, behind |-> FALSE]

Events == [i \in 1..Len(rows) |-> rows[i].event]
Key(h) == Head(th[h].queue)
Cmd(h) == cmd[Key(h)]
Pending == {i \in 1..Len(rows) : rows[i].pending}
Synced == Len(rows) - Cardinality(Pending)
MaxVersion == Len(rows) + room
IsCreate(c) == c.type \in {"CreateGoal", "CreateProject"}

\* apply: the handler of the event's type, then the version.
On(k, a, e) ==
    [(IF k = "goal" THEN OnGoalEvent(a, e) ELSE OnProjectEvent(a, e))
     EXCEPT !.version = @ + 1]
New(k) == IF k = "goal" THEN NewGoal ELSE NewProject

\* loadFromHistory: the events applied to an aggregate, one after the other.
Applied(k, a, events) == Fold(LAMBDA x, e : On(k, x, e), a, events)

\* reconstitute: history replayed into a new aggregate.
Replay(k, events) == Applied(k, New(k), events)

\* How many rows have a version up to v: the pending ones come after the room.
UpTo(v) ==
    IF v <= Synced THEN v ELSE IF v <= Synced + room THEN Synced ELSE v - room

\* load: a snapshot that was read, and the events with a later version (a goal
\* never has a snapshot: only ProjectRepository writes the table).
Load(s) ==
    IF s.version = 0 THEN Replay(kind, Events)
    ELSE Applied(kind, s, SubSeq(Events, UpTo(s.version) + 1, Len(rows)))

Init ==
    /\ kind \in Kinds
    /\ \/ rows = <<>> /\ hasKey = FALSE
       \/ /\ rows = [i \in 1..Len(History[kind]) |->
                        [event |-> History[kind][i], pending |-> FALSE]]
          /\ hasKey = TRUE
    /\ room = 0
    /\ snap = NoSnapshot
    /\ idem = {}
    /\ cmd = [k \in Keys |-> NoCommand]
    /\ th = [h \in Handlers |-> Idle]
    /\ remote = 0
    /\ done = [k \in Keys |-> <<>>]
    /\ noops = {}
    /\ raced = FALSE

-----------------------------------------------------------------------------
(* The commands: one constructor per command class.  The version its sender   *)
(* knew is added when the command is sent.                                    *)

CreateGoal(v) == [type |-> "CreateGoal", value |-> v]
ChangeGoalSummary(v) == [type |-> "ChangeGoalSummary", value |-> v]
ChangeGoalSlice(v) == [type |-> "ChangeGoalSlice", value |-> v]
ChangeGoalTargetMonth(v) == [type |-> "ChangeGoalTargetMonth", value |-> v]
ChangeGoalPriority(v) == [type |-> "ChangeGoalPriority", value |-> v]
ArchiveGoal == [type |-> "ArchiveGoal"]
AchieveGoal == [type |-> "AchieveGoal"]
UnachieveGoal == [type |-> "UnachieveGoal"]
GrantGoalAccess(u) == [type |-> "GrantGoalAccess", user |-> u]
RevokeGoalAccess(u) == [type |-> "RevokeGoalAccess", user |-> u]

CreateProject(v, s, from, to, g) ==
    [type |-> "CreateProject", value |-> v, status |-> s, start |-> from,
     target |-> to, goal |-> g]
ChangeProjectStatus(v) == [type |-> "ChangeProjectStatus", value |-> v]
ChangeProjectDates(from, to) ==
    [type |-> "ChangeProjectDates", start |-> from, target |-> to]
ChangeProjectName(v) == [type |-> "ChangeProjectName", value |-> v]
ChangeProjectDescription(v) == [type |-> "ChangeProjectDescription", value |-> v]
AddProjectGoal(g) == [type |-> "AddProjectGoal", goal |-> g]
RemoveProjectGoal == [type |-> "RemoveProjectGoal"]
ArchiveProject == [type |-> "ArchiveProject"]
AddProjectMilestone(m, v, d) ==
    [type |-> "AddProjectMilestone", milestone |-> m, value |-> v, date |-> d]
ChangeProjectMilestoneTargetDate(m, d) ==
    [type |-> "ChangeProjectMilestoneTargetDate", milestone |-> m, date |-> d]
ChangeProjectMilestoneName(m, v) ==
    [type |-> "ChangeProjectMilestoneName", milestone |-> m, value |-> v]
ArchiveProjectMilestone(m) == [type |-> "ArchiveProjectMilestone", milestone |-> m]

-----------------------------------------------------------------------------
(* What the handlers decide: one operator per group of command types. *)

DecideGoalEdit(c, g) ==
    CASE c.type = "ChangeGoalSummary" -> changeSummary(g, c)
      [] c.type = "ChangeGoalSlice" -> changeSlice(g, c)
      [] c.type = "ChangeGoalTargetMonth" -> changeTargetMonth(g, c)
      [] c.type = "ChangeGoalPriority" -> changePriority(g, c)

DecideGoalStatus(c, g) ==
    CASE c.type = "ArchiveGoal" -> archiveGoal(g)
      [] c.type = "AchieveGoal" -> achieve(g)
      [] c.type = "UnachieveGoal" -> unachieve(g)

DecideGoalAccess(c, g) ==
    CASE c.type = "GrantGoalAccess" -> grantAccess(g, c)
      [] c.type = "RevokeGoalAccess" -> revokeAccess(g, c)

DecideProjectEdit(c, p) ==
    CASE c.type = "ChangeProjectStatus" -> changeStatus(p, c)
      [] c.type = "ChangeProjectDates" -> changeDates(p, c)
      [] c.type = "ChangeProjectName" -> changeName(p, c)
      [] c.type = "ChangeProjectDescription" -> changeDescription(p, c)

DecideProjectGoal(c, p) ==
    CASE c.type = "AddProjectGoal" -> addGoal(p, c)
      [] c.type = "RemoveProjectGoal" -> removeGoal(p)

DecideMilestone(c, p) ==
    CASE c.type = "AddProjectMilestone" -> addMilestone(p, c)
      [] c.type = "ChangeProjectMilestoneTargetDate" -> changeMilestoneTargetDate(p, c)
      [] c.type = "ChangeProjectMilestoneName" -> changeMilestoneName(p, c)
      [] c.type = "ArchiveProjectMilestone" -> archiveMilestone(p, c)

GoalEdits == {"ChangeGoalSummary", "ChangeGoalSlice", "ChangeGoalTargetMonth",
              "ChangeGoalPriority"}
ProjectEdits == {"ChangeProjectStatus", "ChangeProjectDates", "ChangeProjectName",
                 "ChangeProjectDescription"}

GoalCommands == GoalEdits \cup
    {"CreateGoal", "ArchiveGoal", "AchieveGoal", "UnachieveGoal", "GrantGoalAccess",
     "RevokeGoalAccess"}
ProjectCommands == ProjectEdits \cup
    {"CreateProject", "AddProjectGoal", "RemoveProjectGoal", "ArchiveProject",
     "AddProjectMilestone", "ChangeProjectMilestoneTargetDate",
     "ChangeProjectMilestoneName", "ArchiveProjectMilestone"}
CommandTypes(k) == IF k = "goal" THEN GoalCommands ELSE ProjectCommands

Decide(c, a) ==
    CASE c.type = "CreateGoal" -> createGoal(c)
      [] c.type = "CreateProject" -> createProject(c)
      [] c.type \in GoalEdits -> DecideGoalEdit(c, a)
      [] c.type \in {"ArchiveGoal", "AchieveGoal", "UnachieveGoal"} -> DecideGoalStatus(c, a)
      [] c.type \in {"GrantGoalAccess", "RevokeGoalAccess"} -> DecideGoalAccess(c, a)
      [] c.type \in ProjectEdits -> DecideProjectEdit(c, a)
      [] c.type \in {"AddProjectGoal", "RemoveProjectGoal"} -> DecideProjectGoal(c, a)
      [] c.type = "ArchiveProject" -> archiveProject(a)
      [] OTHER -> DecideMilestone(c, a)

\* What the value objects of a command make sure of: names are not empty, dates
\* are dates.
ValidCommand(c) ==
    /\ c.type \in {"CreateGoal", "ChangeGoalSummary", "CreateProject", "ChangeProjectName"}
           => "value" \in DOMAIN c /\ c.value # None
    /\ c.type \in {"CreateProject", "ChangeProjectDates"}
           => {"start", "target"} \subseteq DOMAIN c /\ c.start \in Int /\ c.target \in Int
    /\ c.type \in {"AddProjectMilestone", "ChangeProjectMilestoneTargetDate"}
           => "date" \in DOMAIN c /\ c.date \in Int

IsSeq(s) == s \in Seq({s[i] : i \in DOMAIN s})

\* The commands a handler is registered for, the events of the aggregate, and a
\* history that such commands led to.
ASSUME CommandConstants ==
    /\ Kinds \subseteq {"goal", "project"}
    /\ MaxRemote \in Nat /\ MaxEffects \in Nat
    /\ None \notin Handlers
    /\ \A k \in Kinds :
           /\ \A e \in Remote[k] : e.type \in EventTypes(k)
           /\ \A c \in Creates[k] \cup Offered[k] :
                  "type" \in DOMAIN c /\ c.type \in CommandTypes(k) /\ ValidCommand(c)
           /\ \A c \in Creates[k] : IsCreate(c)
           /\ \A c \in Offered[k] : ~IsCreate(c)
           /\ IsSeq(History[k])
           /\ \A i \in 1..Len(History[k]) :
                  \E c \in IF i = 1 THEN Creates[k] ELSE Offered[k] :
                      LET d == Decide(c, Replay(k, SubSeq(History[k], 1, i - 1)))
                      IN  d.ok /\ d.events = <<History[k][i]>>

-----------------------------------------------------------------------------
(* Users: forms and single commands. *)

\* A handler begins with the first of some commands, sent with version v.
Begun(ks, v) == [Idle EXCEPT !.pc = "check", !.queue = ks, !.known = v]
Start(h, ks, v) == th' = [th EXCEPT ![h] = Begun(ks, v)]
Fresh(k) == cmd[k] = NoCommand

\* A command with the version its sender knew.
Sent(c, v) == [f \in DOMAIN c \cup {"known"} |-> IF f = "known" THEN v ELSE c[f]]

\* createGoal, create: a new id, so one command creates the aggregate.
SubmitCreate(h, k) ==
    /\ th[h].pc = "idle" /\ Fresh(k)
    /\ \A j \in Keys : ~IsCreate(cmd[j])
    /\ rows = <<>>
    /\ \E c \in Creates[kind] : cmd' = [cmd EXCEPT ![k] = Sent(c, 0)]
    /\ Start(h, <<k>>, 0)
    /\ UNCHANGED <<kind, rows, room, snap, hasKey, idem, remote, done, noops, raced>>

\* One command with the version the read model shows (it may lag behind the
\* rows), or the saga's.
Submit(h, k) ==
    /\ th[h].pc = "idle" /\ Fresh(k) /\ rows # <<>>
    /\ \E c \in Offered[kind], v \in 1..MaxVersion :
           cmd' = [cmd EXCEPT ![k] = Sent(c, v)] /\ Start(h, <<k>>, v)
    /\ UNCHANGED <<kind, rows, room, snap, hasKey, idem, remote, done, noops, raced>>

\* updateGoal, updateProject: a form sends an edit per changed field and counts
\* the known version up itself.
SubmitForm(h, j, k) ==
    /\ th[h].pc = "idle" /\ Fresh(j) /\ Fresh(k) /\ j # k /\ rows # <<>>
    /\ \E c, d \in {c \in Offered[kind] : c.type \in GoalEdits \cup ProjectEdits},
          v \in 1..MaxVersion :
           /\ c.type # d.type
           /\ cmd' = [cmd EXCEPT ![j] = Sent(c, v), ![k] = Sent(d, v + 1)]
           /\ Start(h, <<j, k>>, v)
    /\ UNCHANGED <<kind, rows, room, snap, hasKey, idem, remote, done, noops, raced>>

\* Forms draw a new key for every command; the keys that come again are the
\* saga's, goal-achieve:<goal>:<event> and goal-unachieve:<goal>:<version>.  Every
\* tab runs a saga, and one that is restarted reacts again: the key may be sent
\* while another handler is busy with it, AchieveGoal with a newer version.
Resend(h, k) ==
    /\ th[h].pc = "idle" /\ ~Fresh(k) /\ Len(done[k]) < MaxEffects
    /\ \/ cmd[k].type = "AchieveGoal" /\ \E v \in 1..MaxVersion : Start(h, <<k>>, v)
       \/ cmd[k].type = "UnachieveGoal" /\ Start(h, <<k>>, cmd[k].known)
    /\ UNCHANGED <<kind, rows, room, snap, hasKey, idem, cmd, remote, done, noops, raced>>

-----------------------------------------------------------------------------
(* The handlers, step by step. *)

Goto(h, pc) == th' = [th EXCEPT ![h].pc = pc]

\* What is left to do is to record the key.
Written(h) == [Idle EXCEPT !.pc = "record", !.queue = th[h].queue]

\* The handler threw: the form that sent the command gives up its other edits.
Fail(h) == th' = [th EXCEPT ![h] = Idle]

\* The handler returned: the form goes on with its next edit.
Return(h) ==
    th' = [th EXCEPT ![h] =
              IF Len(@.queue) = 1 THEN Idle
              ELSE Begun(Tail(@.queue), cmd[@.queue[2]].known)]

\* isDuplicateCommand.
CheckDuplicate(h) ==
    /\ th[h].pc = "check"
    /\ IF Key(h) \in idem THEN Return(h) ELSE Goto(h, "load")
    /\ UNCHANGED <<kind, rows, room, snap, hasKey, idem, cmd, remote, done, noops, raced>>

\* What a handler that may write carries on with.  While the sync engine is about
\* to insert events before the pending rows, what was read is already behind.
Decided(h, events, before) ==
    th' = [th EXCEPT ![h].pc = IF events = <<>> THEN "record"
                               ELSE IF hasKey THEN "max" ELSE "key",
                     ![h].out = events,
                     ![h].memory = Applied(kind, before, events),
                     ![h].behind = @ \/ room > 0]

\* handleCreate: an aggregate that has a key and events is the answer of an
\* earlier attempt; a key without events is used again.
LoadForCreate(h) ==
    /\ th[h].pc = "load" /\ IsCreate(Cmd(h))
    /\ IF hasKey /\ rows # <<>> THEN Return(h)
       ELSE LET d == Decide(Cmd(h), New(kind))
            IN  IF d.ok THEN Decided(h, d.events, New(kind)) ELSE Fail(h)
    /\ UNCHANGED <<kind, rows, room, snap, hasKey, idem, cmd, remote, done, noops, raced>>

\* The snapshot is read before the rows.
ReadSnapshot(h) ==
    /\ th[h].pc = "load" /\ ~IsCreate(Cmd(h))
    /\ th' = [th EXCEPT ![h].pc = "rows", ![h].memory = snap]
    /\ UNCHANGED <<kind, rows, room, snap, hasKey, idem, cmd, remote, done, noops, raced>>

\* Mistake: assertKnownVersion is left out.
MayDecideAtAnyVersion(a, v) ==
    /\ a.version > 0
    /\ kind = "project" => ~a.throws

\* The aggregate a handler may go on with: it exists, could be replayed, and has
\* the version the sender knew (assertKnownVersion).
MayDecide(a, v) ==
    /\ a.version > 0
    /\ kind = "project" => ~a.throws
    /\ a.version = v

LoadAndDecide(h) ==
    /\ th[h].pc = "rows"
    /\ LET a == Load(th[h].memory)
           d == Decide(Cmd(h), a)
       IN  IF MayDecide(a, th[h].known) /\ d.ok /\ hasKey
           THEN /\ Decided(h, d.events, a)
                /\ noops' = IF d.events = <<>> THEN noops \cup {Key(h)} ELSE noops
           ELSE Fail(h) /\ noops' = noops
    /\ UNCHANGED <<kind, rows, room, snap, hasKey, idem, cmd, remote, done, raced>>

\* A snapshot that does not decrypt is removed, by load() or by save(), and the
\* events are replayed.
PurgeCorruptSnapshot(h) ==
    /\ th[h].pc \in {"load", "max"} /\ snap.version > 0
    /\ snap' = NoSnapshot
    /\ UNCHANGED <<kind, rows, room, hasKey, idem, cmd, th, remote, done, noops, raced>>

SaveAggregateKey(h) ==
    /\ th[h].pc = "key"
    /\ hasKey' = TRUE
    /\ Goto(h, "max")
    /\ UNCHANGED <<kind, rows, room, snap, idem, cmd, remote, done, noops, raced>>

\* save: the first version comes from the table as it is now, not from the
\* aggregate that was loaded.  (The snapshot is read before the maximum, which
\* TypeOK shows to be no smaller.)
StartVersion(h) == 1 + (IF snap.version > MaxVersion THEN snap.version ELSE MaxVersion)

ReadMaxVersion(h) ==
    /\ th[h].pc = "max"
    /\ th' = [th EXCEPT ![h].pc = "append", ![h].start = StartVersion(h)]
    /\ UNCHANGED <<kind, rows, room, snap, hasKey, idem, cmd, remote, done, noops, raced>>

\* Every handler between its load and its last write has been overtaken.
Late == {"key", "max", "append", "snapshot"}
Overtake(f, except, pcs) ==
    [x \in Handlers |->
        IF x # except /\ f[x].pc \in pcs
        THEN [f[x] EXCEPT !.behind = TRUE] ELSE f[x]]

\* appendForAggregate: the maximum is read again and UNIQUE(aggregate_id, version)
\* backs it, so the batch is inserted only if no row came in between.
Insert(h) ==
    /\ th[h].pc = "append" /\ th[h].start = MaxVersion + 1
    /\ rows' = rows \o [i \in 1..Len(th[h].out) |-> [event |-> th[h].out[i], pending |-> TRUE]]
    /\ th' = Overtake([th EXCEPT ![h] = IF kind = "project" THEN [@ EXCEPT !.pc = "snapshot"]
                                        ELSE Written(h)], h, Late)
    /\ done' = [done EXCEPT ![Key(h)] =
                   Append(@, [known |-> th[h].known, behind |-> th[h].behind])]
    /\ raced' = (raced \/ th[h].behind)
    /\ UNCHANGED <<kind, room, snap, hasKey, idem, cmd, remote, noops>>

\* ConcurrencyError of the append.
Conflict(h) ==
    /\ th[h].pc = "append" /\ th[h].start # MaxVersion + 1
    /\ Fail(h)
    /\ UNCHANGED <<kind, rows, room, snap, hasKey, idem, cmd, remote, done, noops, raced>>

\* Mistake: the version of the snapshot is counted once more.
PersistSnapshotAhead(h) ==
    /\ th[h].pc = "snapshot"
    /\ snap' = [th[h].memory EXCEPT !.version = @ + 1]
    /\ th' = [th EXCEPT ![h] = Written(h)]
    /\ raced' = (raced \/ th[h].behind)
    /\ UNCHANGED <<kind, rows, room, hasKey, idem, cmd, remote, done, noops>>

\* ProjectRepository.persistSnapshot: the aggregate in memory under its version.
PersistSnapshot(h) ==
    /\ th[h].pc = "snapshot"
    /\ snap' = th[h].memory
    /\ th' = [th EXCEPT ![h] = Written(h)]
    /\ raced' = (raced \/ th[h].behind)
    /\ UNCHANGED <<kind, rows, room, hasKey, idem, cmd, remote, done, noops>>

\* SqliteIdempotencyStore.record: a look-up and an insert.
RecordLookup(h) ==
    /\ th[h].pc = "record"
    /\ IF Key(h) \in idem THEN Return(h) ELSE Goto(h, "insertKey")
    /\ UNCHANGED <<kind, rows, room, snap, hasKey, idem, cmd, remote, done, noops, raced>>

RecordInsert(h) ==
    /\ th[h].pc = "insertKey"
    /\ idem' = idem \cup {Key(h)}
    /\ Return(h)
    /\ UNCHANGED <<kind, rows, room, snap, hasKey, cmd, remote, done, noops, raced>>

\* The tab is closed, or a request to the database fails.
Crash(h) ==
    /\ th[h].pc # "idle"
    /\ Fail(h)
    /\ UNCHANGED <<kind, rows, room, snap, hasKey, idem, cmd, remote, done, noops, raced>>

-----------------------------------------------------------------------------
(* The sync engine. *)

\* Mistake: the snapshot survives the renumbering.
MakeRoomKeepsSnapshot ==
    /\ Synced > 0 /\ Pending # {} /\ remote < MaxRemote
    /\ room' = room + 1 /\ remote' = remote + 1
    /\ th' = Overtake(th, None, Late \cup {"rows"})
    /\ UNCHANGED <<kind, rows, snap, hasKey, idem, cmd, done, noops, raced>>

\* Other devices know the aggregate once its first row was pushed.  The version of
\* a remote event is that of a pending row: rewritePendingVersions
\* counts the pending versions up and deletes the snapshot, in a transaction.  The
\* next event of the page finds the version after it taken again, and a pull that
\* fails now leaves the room to its retry.
MakeRoom ==
    /\ Synced > 0 /\ Pending # {} /\ remote < MaxRemote
    /\ room' = room + 1 /\ remote' = remote + 1
    /\ snap' = NoSnapshot
    /\ th' = Overtake(th, None, Late \cup {"rows"})
    /\ UNCHANGED <<kind, rows, hasKey, idem, cmd, done, noops, raced>>

\* The batch of the page: the remote events take the room.
FillRoom(es) ==
    /\ room > 0 /\ Len(es) = room
    /\ rows' = SubSeq(rows, 1, Synced) \o [i \in 1..Len(es) |-> [event |-> es[i], pending |-> FALSE]]
                   \o SubSeq(rows, Synced + 1, Len(rows))
    /\ room' = 0
    /\ th' = Overtake(th, None, Late)
    /\ UNCHANGED <<kind, snap, hasKey, idem, cmd, remote, done, noops, raced>>

\* The version of a remote event is free; if a handler takes it before the batch,
\* the batch inserts nothing and the pull fails.
RemoteEvent(e) ==
    /\ rows # <<>> /\ Pending = {} /\ remote < MaxRemote
    /\ rows' = Append(rows, [event |-> e, pending |-> FALSE])
    /\ remote' = remote + 1
    /\ th' = Overtake(th, None, Late)
    /\ UNCHANGED <<kind, room, snap, hasKey, idem, cmd, done, noops, raced>>

\* A push is answered: the first pending row is synchronised.  The server refuses
\* a push while there are events this device has not pulled.
Pushed ==
    /\ Pending # {} /\ room = 0
    /\ rows' = [rows EXCEPT ![Synced + 1].pending = FALSE]
    /\ UNCHANGED <<kind, room, snap, hasKey, idem, cmd, th, remote, done, noops, raced>>

Next ==
    \/ \E h \in Handlers :
        \/ \E k \in Keys : SubmitCreate(h, k) \/ Submit(h, k) \/ Resend(h, k)
        \/ \E j, k \in Keys : SubmitForm(h, j, k)
        \/ CheckDuplicate(h) \/ LoadForCreate(h) \/ ReadSnapshot(h) \/ LoadAndDecide(h)
        \/ PurgeCorruptSnapshot(h) \/ SaveAggregateKey(h) \/ ReadMaxVersion(h)
        \/ Insert(h) \/ Conflict(h) \/ PersistSnapshot(h)
        \/ RecordLookup(h) \/ RecordInsert(h) \/ Crash(h)
    \/ MakeRoom
    \/ \E es \in [1..room -> Remote[kind]] : FillRoom(es)
    \/ \E e \in Remote[kind] : RemoteEvent(e)
    \/ Pushed

Spec == Init /\ [][Next]_vars

-----------------------------------------------------------------------------
(* Properties *)

RowsOK ==
    /\ kind \in Kinds
    /\ IsSeq(rows)
    /\ \A i \in 1..Len(rows) :
           /\ rows[i] = [event |-> rows[i].event, pending |-> rows[i].pending]
           /\ rows[i].event.type \in EventTypes(kind)
           /\ rows[i].pending \in BOOLEAN
    /\ hasKey \in BOOLEAN /\ (rows # <<>> \/ room > 0 => hasKey)
    /\ remote \in 0..MaxRemote /\ room \in 0..remote

KeysOK ==
    /\ idem \subseteq Keys /\ noops \subseteq Keys
    /\ done \in [Keys -> Seq([known : Nat, behind : BOOLEAN])]
    /\ cmd = [k \in Keys |-> cmd[k]]
    /\ \A k \in Keys : ~Fresh(k) =>
           /\ cmd[k].known \in Nat /\ cmd[k].type \in CommandTypes(kind)
           /\ IsCreate(cmd[k]) => cmd[k].known = 0

HandlersOK ==
    /\ th = [h \in Handlers |-> [f \in DOMAIN Idle |-> th[h][f]]]
    /\ \A h \in Handlers :
           /\ th[h].pc \in {"idle", "check", "load", "rows", "key", "max", "append",
                            "snapshot", "record", "insertKey"}
           /\ th[h].queue \in Seq(Keys)
           /\ th[h].pc = "idle" <=> th[h].queue = <<>>
           /\ th[h].known \in Nat /\ th[h].start \in Nat /\ th[h].behind \in BOOLEAN

\* Rows, commands and handlers have their shapes, and no snapshot is ahead of
\* the rows: save() would then number past the table and every later append
\* would fail, so the project could never be written again.
TypeOK == RowsOK /\ KeysOK /\ HandlersOK /\ snap.version <= MaxVersion

\* What a handler goes on from that has read the snapshot and not yet the rows.
InMemory == {th[h].memory : h \in {h \in Handlers : th[h].pc = "rows" /\ ~th[h].behind}}

\* As long as no handler wrote what it had decided before somebody else's write,
\* load() answers the replay of all rows: snapshots, the two transactions of the
\* sync engine, rows appended between its two reads, crashes between append and
\* snapshot and purged snapshots do not show.
LoadIsReplay ==
    ~raced => \A s \in {snap} \cup InMemory : Load(s) = Replay(kind, Events)

\* A goal is achieved and taken back by turns, and achieved first.
Alternates(events) ==
    LET turns == {i \in 1..Len(events) : events[i].type \in {"GoalAchieved", "GoalUnachieved"}}
    IN  \A j \in turns :
            /\ (\A i \in turns : j <= i) => events[j].type = "GoalAchieved"
            /\ \A i \in turns : i < j /\ (\A t \in turns : t <= i \/ j <= t)
                               => events[i].type # events[j].type

\* The dates of a project are in order, its milestones between them and distinct.
Scheduled(p) ==
    /\ p.start <= p.target
    /\ \A m \in Milestones(p) : Within(m.date, p)
    /\ \A i, j \in 1..Len(p.milestones) : p.milestones[i].id = p.milestones[j].id => i = j

Legal(k, events) ==
    /\ \A i, j \in 1..Len(events) : i < j => events[i].type \notin {"GoalArchived", "ProjectArchived"}
    /\ Alternates(events)
    /\ k = "project" => Scheduled(Replay(k, events)) /\ ~Replay(k, events).throws

\* The rules of the aggregates hold over whole histories: dates in order,
\* milestones inside them and distinct, nothing after an archive, achievements
\* alternate, history can be replayed.  Without remote events and races.
HistoryLegal == ~raced /\ remote = 0 => Legal(kind, Events)

\* An effect is repeated only knowingly: of two effects of a key, the later one
\* was asked for by a sender that knew the version the earlier one led to, or its
\* handler was overtaken between load and append.  Wherever handlers crash and
\* however many of them are busy with the key.
OncePerKey ==
    \A k \in Keys : \A i, j \in DOMAIN done[k] :
        i < j /\ ~done[k][j].behind => done[k][i].known < done[k][j].known

\* A recorded key stands for a command that was carried out: a command that is
\* answered as a duplicate was not lost.
RecordedIsDone == \A k \in idem : done[k] # <<>> \/ k \in noops

\* The idempotency key makes a command safe to send again: neither repeated
\* unknowingly nor answered as done when it was not.
ExactlyOnce == OncePerKey /\ RecordedIsDone

\* What the read model makes of a history, and what it should: it keeps no access
\* list of a goal.
Shows(k, s, e) == IF k = "goal" THEN applyEventToSnapshot(s, e) ELSE applyProjectEventToSnapshot(s, e)
Shown(k, events) == Fold(LAMBDA s, e : Shows(k, s, e), New(k), events)
Visible(k, a) == IF k = "goal" THEN [a EXCEPT !.access = {}] ELSE a

\* The read model's fold of the rows shows what the aggregate itself holds: its
\* version, which users send back as knownVersion, included.
ReadModelAgrees ==
    ~raced /\ remote = 0 => Shown(kind, Events) = Visible(kind, Replay(kind, Events))

\* docs/architecture/workflows.md: no silent overwrites on the device.  An event
\* is appended only while the aggregate has the version its sender knew.
NoSilentOverwrite ==
    [][\A h \in Handlers :
          th[h].pc = "append" /\ done'[Key(h)] # done[Key(h)]
          => Len(rows) = th[h].known]_vars

\* docs/architecture/testing-strategy.md:63: "replays do not double-apply effects
\* (eventId/idempotency keys)".
EffectOnce == \A k \in Keys : Len(done[k]) <= 1

\* PendingEventVersionRewriter.ts:91: "version shifts invalidate" snapshots: none
\* that is kept misses an event.
SnapshotsValid == Load(snap) = Replay(kind, Events)
=============================================================================
