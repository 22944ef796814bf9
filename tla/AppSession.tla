----------------------------- MODULE AppSession -----------------------------
(***************************************************************************)
(* The life of a local identity in one tab of the web application          *)
(* (apps/web/src/providers/AppProvider.tsx): onboarding, unlocking, work,  *)
(* backup, reset and restore, with the page closed or a request failing at *)
(* any point.                                                              *)
(*                                                                         *)
(* On the device: two items of localStorage (meta, saved), the vault that  *)
(* the key service keeps for each store, the event database of each store, *)
(* and IndexedDB mo-local-keys, which all stores share and which holds the *)
(* key of every aggregate, wrapped with the application's master key.  In  *)
(* the page: the state of AppProvider and the services of one store.       *)
(*                                                                         *)
(* A user id is also the id of its store.  Passphrases are left out: a     *)
(* wrong one is a request that fails.  A flow is a chain of requests, and  *)
(* each request is a step.  The user waits for one flow to end before      *)
(* starting another (every form only disables its own button).             *)
(***************************************************************************)
EXTENDS Naturals

CONSTANTS
  Users,    \* uuids: user ids and store ids; bounds how often one is drawn
  Keys,     \* master keys (32 random bytes); bounds how often one is drawn
  Aggs,     \* goals and projects the user creates
  None

\* A vault is absent, empty (created, without a master key) or holds a key.
Absent == "absent"
Empty == "empty"

VARIABLES
  meta,      \* localStorage mo-local-user: the user, or None
  saved,     \* localStorage mo-local-store-id
  vault,     \* vault[u]: what mo-key-service-u holds
  db,        \* db[u]: aggregates with events in mo-eventstore-u.db
  wrapped,   \* mo-local-keys: <<aggregate, master key it is wrapped with>>
  backups,   \* exported key vaults, kept by the user: <<user, master key>>
  dumps,     \* exported databases, kept by the user: <<user, aggregates>>
  storeId,   \* the store the page is to show
  services,  \* the store its services are open for, or None
  master,    \* the key store's master key, or None
  initError, \* the services of storeId could not be created
  session,   \* [status, user]
  flow,      \* the flow under way and the step it waits for
  drawn,     \* history: the uuids and keys drawn, the aggregates begun
  made       \* history: aggregates created here since the last reset

disk == <<meta, saved, vault, db, wrapped>>
files == <<backups, dumps>>
page == <<storeId, services, master, initError, session>>
vars == <<meta, saved, vault, db, wrapped, backups, dumps, storeId, services,
          master, initError, session, flow, drawn, made>>

ASSUME AppConstants ==
  /\ Users # {}
  /\ None \notin Users \cup Keys \cup Aggs
  /\ Users \cap Keys = {} /\ {Absent, Empty} \cap Keys = {}

NoDump == <<None, {}>>
NoFlow == [kind |-> "none", at |-> "end", user |-> None, key |-> None, dump |-> NoDump]
Flow(kind, at, user) == [NoFlow EXCEPT !.kind = kind, !.at = at, !.user = user]
Idle == flow = NoFlow

Session(status, user) == [status |-> status, user |-> user]

\* The first effect of AppProvider, on a page that finds m and s in localStorage:
\* the user is asked to unlock the identity there is, or to create one.
Mounted(m, s) ==
  /\ meta' = m
  /\ storeId' = (IF m # None THEN m ELSE s)
  /\ saved' = (IF m # None THEN m ELSE s)
  /\ session' = (IF m # None THEN Session("locked", m) ELSE Session("needs-onboarding", None))
  /\ services' = None /\ master' = None /\ initError' = FALSE
  /\ flow' = NoFlow

Init ==
  /\ meta = None
  /\ \E u \in Users : saved = u /\ storeId = u /\ drawn = {u}
  /\ vault = [u \in Users |-> Absent]
  /\ db = [u \in Users |-> {}]
  /\ wrapped = {} /\ backups = {} /\ dumps = {}
  /\ services = None /\ master = None /\ initError = FALSE
  /\ session = Session("needs-onboarding", None)
  /\ flow = NoFlow /\ made = {}

\* The page is closed or crashes, whatever it is doing, and is opened again.
Reload ==
  /\ Mounted(meta, saved)
  /\ UNCHANGED <<vault, db, wrapped, files, drawn, made>>

-----------------------------------------------------------------------------
(* The services of storeId are created; switchToStore waits for them. *)

\* Mistake: switchToStore is not told.
InitFailsSilently ==
  /\ services = None /\ ~initError
  /\ initError' = TRUE
  /\ UNCHANGED <<disk, files, storeId, services, master, session, flow, drawn, made>>

InitServices ==
  /\ services = None /\ ~initError
  /\ services' = storeId
  /\ flow' = IF flow.at = "switch" THEN [flow EXCEPT !.at = "create"] ELSE flow
  /\ UNCHANGED <<disk, files, storeId, master, initError, session, drawn, made>>

\* The page shows the error and offers a reset; a waiting switchToStore rejects.
InitFails ==
  /\ services = None /\ ~initError
  /\ initError' = TRUE
  /\ flow' = NoFlow
  /\ UNCHANGED <<disk, files, storeId, services, master, session, drawn, made>>

-----------------------------------------------------------------------------
(* Requests to the key service, and the steps of the flows *)

\* The forms are shown once the services are there.
Shown(status) == Idle /\ services # None /\ session.status = status

At(kinds, at) == flow.kind \in kinds /\ flow.at = at
Goto(at) == flow' = [flow EXCEPT !.at = at]

Onboard ==
  /\ Shown("needs-onboarding")
  /\ Keys \ drawn # {}   \* bound
  /\ flow' = Flow("onboard", "create", storeId)
  /\ UNCHANGED <<disk, files, page, drawn, made>>

Unlock ==
  /\ Shown("locked") /\ meta # None
  /\ flow' = Flow("unlock", "unlock", meta)
  /\ UNCHANGED <<disk, files, page, drawn, made>>

\* The services of another store replace the ones the page has, with their keys.
SwitchToStore(u) ==
  /\ storeId' = u
  /\ services' = IF services = u THEN services ELSE None
  /\ master' = IF services = u THEN master ELSE None

\* restoreBackup: the identity of the backup becomes the page's store.
Restore ==
  /\ Shown("needs-onboarding")
  /\ \E b \in backups, d \in dumps \cup {NoDump} :
       /\ d[1] \in {b[1], None}
       /\ flow' = [Flow("restore", IF services = b[1] THEN "create" ELSE "switch", b[1])
                     EXCEPT !.key = b[2], !.dump = d]
       /\ SwitchToStore(b[1])
  /\ UNCHANGED <<disk, files, initError, session, drawn, made>>

\* createVault replaces whatever vault the store has.
CreateVault ==
  /\ At({"onboard", "restore"}, "create")
  /\ vault' = [vault EXCEPT ![services] = Empty]
  /\ Goto("unlock")
  /\ UNCHANGED <<meta, saved, db, wrapped, files, page, drawn, made>>

\* unlock opens a session of the vault.  Each flow goes on in its own way.
UnlockVault ==
  /\ At({"onboard", "unlock", "restore"}, "unlock")
  /\ vault[services] # Absent
  /\ Goto(CASE flow.kind = "onboard" -> "store"
            [] flow.kind = "unlock"  -> "master"
            [] flow.kind = "restore" -> "import")
  /\ UNCHANGED <<disk, files, page, drawn, made>>

\* storeAppMasterKey with a key drawn in the page.
StoreAppMasterKey ==
  /\ At({"onboard"}, "store")
  /\ \E k \in Keys \ drawn :
       /\ vault' = [vault EXCEPT ![services] = k]
       /\ master' = k
       /\ drawn' = drawn \cup {k}
  /\ Goto("enroll")
  /\ UNCHANGED <<meta, saved, db, wrapped, files, storeId, services, initError, session, made>>

\* getAppMasterKey.  A restore also remembers its store here, before the database
\* and the projections are restored.
GetAppMasterKey ==
  /\ At({"unlock", "restore"}, "master")
  /\ vault[services] \in Keys
  /\ master' = vault[services]
  /\ saved' = IF flow.kind = "restore" THEN flow.user ELSE saved
  /\ Goto(IF flow.kind = "unlock" THEN "enroll"
          ELSE IF flow.dump = NoDump THEN "rebuild" ELSE "importDb")
  /\ UNCHANGED <<meta, vault, db, wrapped, files, storeId, services, initError, session, drawn, made>>

\* enrollPasskeyIfRequested: its failure is ignored and its success changes
\* nothing here.
Enroll ==
  /\ At({"onboard", "unlock"}, "enroll")
  /\ Goto("finish")
  /\ UNCHANGED <<disk, files, page, drawn, made>>

\* stepUp and importKeyVault: the backup's vault replaces the new one.
ImportKeyVault ==
  /\ At({"restore"}, "import")
  /\ vault' = [vault EXCEPT ![services] = flow.key]
  /\ Goto("relock")
  /\ UNCHANGED <<meta, saved, db, wrapped, files, page, drawn, made>>

\* lock, and unlock of the imported vault.
Relock ==
  /\ At({"restore"}, "relock")
  /\ vault[services] # Absent
  /\ Goto("master")
  /\ UNCHANGED <<disk, files, page, drawn, made>>

ImportMainDatabase ==
  /\ At({"restore"}, "importDb")
  /\ db' = [db EXCEPT ![services] = flow.dump[2]]
  /\ Goto("rebuild")
  /\ UNCHANGED <<meta, saved, vault, wrapped, files, page, drawn, made>>

RebuildProjections ==
  /\ At({"restore"}, "rebuild")
  /\ Goto("finish")
  /\ UNCHANGED <<disk, files, page, drawn, made>>

\* saveMeta and setSession.
Finish ==
  /\ At({"onboard", "unlock", "restore"}, "finish")
  /\ meta' = flow.user
  /\ session' = Session("ready", flow.user)
  /\ flow' = NoFlow
  /\ UNCHANGED <<saved, vault, db, wrapped, files, storeId, services, master, initError, drawn, made>>

\* A request is answered with an error (a wrong passphrase, say): the flow throws,
\* the form shows the error, and nothing is undone.
RequestFails ==
  /\ flow.kind # "reset"
  /\ flow.at \notin {"end", "switch", "enroll", "finish"}
  /\ flow' = NoFlow
  /\ UNCHANGED <<disk, files, page, drawn, made>>

-----------------------------------------------------------------------------
(* Work in a session that is ready *)

\* CreateGoal, CreateProject: a key is drawn for the aggregate and saved, wrapped
\* with the master key, before its first event.
Create ==
  /\ Shown("ready")
  /\ \E a \in Aggs \ drawn :
       /\ flow' = [Flow("work", "key", services) EXCEPT !.key = a]
       /\ drawn' = drawn \cup {a}
  /\ UNCHANGED <<disk, files, page, made>>

\* saveAggregateKey, then goalRepo.save.  Mistake: the other way round.
SaveFirst ==
  \/ /\ At({"work"}, "key")
     /\ db' = [db EXCEPT ![services] = @ \cup {flow.key}]
     /\ made' = made \cup {flow.key}
     /\ Goto("save")
     /\ UNCHANGED <<meta, saved, vault, wrapped, files, page, drawn>>
  \/ /\ At({"work"}, "save")
     /\ wrapped' = wrapped \cup {<<flow.key, master>>}
     /\ flow' = NoFlow
     /\ UNCHANGED <<meta, saved, vault, db, files, page, drawn, made>>

SaveAggregate ==
  \/ /\ At({"work"}, "key")
     /\ wrapped' = wrapped \cup {<<flow.key, master>>}
     /\ Goto("save")
     /\ UNCHANGED <<meta, saved, vault, db, files, page, drawn, made>>
  \/ /\ At({"work"}, "save")
     /\ db' = [db EXCEPT ![services] = @ \cup {flow.key}]
     /\ made' = made \cup {flow.key}
     /\ flow' = NoFlow
     /\ UNCHANGED <<meta, saved, vault, wrapped, files, page, drawn>>

\* exportKeyVaultBackup: stepUp, exportKeyVault, and a file for the user.
ExportKeyVaultBackup ==
  /\ Shown("ready")
  /\ vault[services] \in Keys
  /\ backups' = backups \cup {<<session.user, vault[services]>>}
  /\ UNCHANGED <<disk, dumps, page, flow, drawn, made>>

\* exportMainDatabase, from the same dialog.
ExportMainDatabase ==
  /\ Shown("ready")
  /\ dumps' = dumps \cup {<<session.user, db[services]>>}
  /\ UNCHANGED <<disk, backups, page, flow, drawn, made>>

-----------------------------------------------------------------------------
(* resetLocalState, from the unlock form or from the error page *)

Reset ==
  /\ Idle
  /\ initError \/ (services # None /\ session.status = "locked")
  /\ Users \ drawn # {}   \* bound
  /\ flow' = Flow("reset", "wipe", storeId)
  /\ made' = {}
  /\ UNCHANGED <<disk, files, page, drawn>>

\* dbShutdown and the removal of OPFS entries; an error ends it early and is
\* only logged.
WipeOpfs ==
  /\ At({"reset"}, "wipe")
  /\ \E gone \in SUBSET Users : db' = [u \in Users |-> IF u \in gone THEN {} ELSE db[u]]
  /\ Goto("forget")
  /\ UNCHANGED <<meta, saved, vault, wrapped, files, page, drawn, made>>

\* The rest runs without a pause: the databases are deleted (unless another
\* connection blocks it), the user is forgotten, a new store is named, and the
\* page reloads.
Forget ==
  /\ At({"reset"}, "forget")
  /\ wrapped' \in {{}, wrapped}
  /\ \E v \in {Absent, vault[flow.user]} : vault' = [vault EXCEPT ![flow.user] = v]
  /\ \E u \in Users \ drawn : Mounted(None, u) /\ drawn' = drawn \cup {u}
  /\ UNCHANGED <<db, files, made>>

-----------------------------------------------------------------------------
Step ==
  \/ InitServices
  \/ CreateVault \/ UnlockVault \/ StoreAppMasterKey \/ GetAppMasterKey \/ Enroll
  \/ ImportKeyVault \/ Relock \/ ImportMainDatabase \/ RebuildProjections \/ Finish
  \/ SaveAggregate
  \/ WipeOpfs \/ Forget

UserActs ==
  \/ Onboard \/ Unlock \/ Restore
  \/ Create \/ ExportKeyVaultBackup \/ ExportMainDatabase \/ Reset

Next == Step \/ InitFails \/ RequestFails \/ UserActs \/ Reload

Spec == Init /\ [][Next]_vars

\* The services are created or fail, and a request is answered or fails.
Fairness == WF_vars(Step \/ InitFails \/ RequestFails)

FairSpec == Spec /\ Fairness

-----------------------------------------------------------------------------
(* Properties *)

\* Every item of storage and field of the page has its shape, and services are
\* only ever those of the store the page shows.
TypeOK ==
  /\ meta \in Users \cup {None} /\ saved \in Users
  /\ vault \in [Users -> Keys \cup {Absent, Empty}]
  /\ db \in [Users -> SUBSET Aggs]
  /\ wrapped \subseteq Aggs \X Keys
  /\ storeId \in Users /\ services \in {storeId, None}
  /\ master \in Keys \cup {None}
  /\ session.status \in {"needs-onboarding", "locked", "ready"}

\* Whenever the page would ask for the passphrase of an identity, its vault holds
\* a master key, and what the user has made here since the last reset is in that
\* identity's database with its keys wrapped by that master key: a page closed
\* after any request of any flow loses nothing.
WorkReopens == meta # None =>
  /\ vault[meta] \in Keys
  /\ \A a \in made : a \in db[meta] /\ <<a, vault[meta]>> \in wrapped

\* A session that is ready works in the store of its user, with the master key
\* that the vault of this store will give back after the next unlock, and a page
\* that is opened now would ask for the same user.
ReadyIsOpen == session.status = "ready" =>
  /\ session.user = storeId /\ meta = storeId
  /\ services = storeId => master = vault[storeId]

\* Both together: the device and the page agree on whose data they hold and which
\* key opens it.
SessionsReopen == WorkReopens /\ ReadyIsOpen

\* Every flow ends, also a restore that waits for the services of another store.
FlowsEnd == (flow # NoFlow) ~> (flow = NoFlow)

\* INV-012: a key backup, restored together with the database, makes every event
\* of the database readable.
BackupSuffices == (session.status = "ready" /\ services # None) =>
  \A a \in db[services] : <<a, master>> \in wrapped
=============================================================================
