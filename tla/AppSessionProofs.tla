-------------------------- MODULE AppSessionProofs --------------------------
(***************************************************************************)
(* Theorems about AppSession, for any sets of identities, keys and         *)
(* aggregates.                                                             *)
(***************************************************************************)
EXTENDS AppSession, TLAPS

\* What the steps of the flows rest on.
Statuses == {"needs-onboarding", "locked", "ready"}
FilesOK ==
  /\ session \in [status : Statuses, user : Users \cup {None}]
  /\ backups \subseteq Users \X Keys /\ dumps \subseteq Users \X SUBSET Aggs
  /\ made \subseteq Aggs
FlowKinds == {"none", "onboard", "unlock", "restore", "work", "reset"}
Steps == {"end", "switch", "create", "unlock", "store", "enroll", "finish", "import", "relock",
          "master", "importDb", "rebuild", "key", "save", "wipe", "forget"}
Dumps == (Users \X SUBSET Aggs) \cup {NoDump}
FlowOK ==
  flow \in [kind : FlowKinds, at : Steps, user : Users \cup {None},
            key : Keys \cup Aggs \cup {None}, dump : Dumps]

\* The page asks for the identity of localStorage, and onboards only when there is none.
PageInv ==
  /\ meta = None => session = Session("needs-onboarding", None) /\ made = {}
  /\ meta # None => /\ meta = storeId /\ session.status \in {"locked", "ready"}
                    /\ session.user = meta
  /\ initError => services = None
  /\ session.status = "ready" => services = storeId /\ master = vault[storeId]

\* What holds at the steps of each flow: the identity it is about, and the master key it
\* has stored or read.
Opened == services = storeId /\ vault[services] \in Keys /\ master = vault[services]
Onboarding ==
  /\ flow.at \in {"create", "unlock", "store", "enroll", "finish"}
  /\ meta = None /\ flow.user = storeId /\ services = storeId
  /\ flow.at \in {"enroll", "finish"} => Opened
Restoring ==
  /\ flow.at \in {"switch", "create", "unlock", "import", "relock", "master", "importDb",
                  "rebuild", "finish"}
  /\ meta = None /\ flow.user = storeId /\ flow.key \in Keys
  /\ flow.at # "switch" => services = storeId
  /\ flow.at = "importDb" => flow.dump # NoDump
  /\ flow.at \in {"importDb", "rebuild", "finish"} => Opened
Unlocking ==
  /\ flow.at \in {"unlock", "master", "enroll", "finish"}
  /\ session.status = "locked" /\ flow.user = meta /\ services = storeId
  /\ flow.at \in {"enroll", "finish"} => Opened
Working ==
  /\ flow.at \in {"key", "save"} /\ session.status = "ready" /\ flow.key \in Aggs
  /\ flow.at = "save" => <<flow.key, master>> \in wrapped
Resetting ==
  flow.at \in {"wipe", "forget"} /\ made = {} /\ session.status # "ready" /\ flow.user \in Users
FlowInv ==
  /\ flow.kind = "none" => flow.at = "end"
  /\ flow.kind = "onboard" => Onboarding
  /\ flow.kind = "restore" => Restoring
  /\ flow.kind = "unlock" => Unlocking
  /\ flow.kind = "work" => Working
  /\ flow.kind = "reset" => Resetting

AppInv == TypeOK /\ FilesOK /\ FlowOK /\ PageInv /\ FlowInv /\ WorkReopens

\* A flow that ends.
LEMMA FlowEnds ==
  ASSUME flow' = NoFlow
  PROVE  FlowOK' /\ FlowInv'
<1>1. FlowOK'
  BY DEF NoFlow, FlowOK, FlowKinds, Steps, Dumps
<1>2. flow'.kind = "none" /\ flow'.at = "end"
  BY DEF NoFlow
<1> QED
  BY <1>1, <1>2 DEF FlowInv

\* A flow that starts.
LEMMA FlowStarts ==
  ASSUME NEW kind \in FlowKinds, NEW at \in Steps, NEW u \in Users, flow' = Flow(kind, at, u)
  PROVE  FlowOK' /\ flow'.kind = kind /\ flow'.at = at /\ flow'.user = u
<1>1. NoFlow \in [kind : FlowKinds, at : Steps, user : Users \cup {None},
                  key : Keys \cup Aggs \cup {None}, dump : Dumps]
  BY DEF NoFlow, FlowKinds, Steps, Dumps
<1> QED
  BY <1>1 DEF Flow, FlowOK

\* A flow that goes on.
LEMMA FlowGoes ==
  ASSUME FlowOK, NEW at \in Steps, Goto(at)
  PROVE  /\ FlowOK' /\ flow'.at = at
         /\ flow'.kind = flow.kind /\ flow'.user = flow.user
         /\ flow'.key = flow.key /\ flow'.dump = flow.dump
BY DEF Goto, FlowOK

\* The steps that change neither the device nor the page.
LEMMA QuietStep ==
  ASSUME AppInv, UNCHANGED <<disk, files, page>>, made' = made \/ made' = {}
  PROVE  TypeOK' /\ FilesOK' /\ PageInv' /\ WorkReopens'
BY DEF AppInv, TypeOK, FilesOK, PageInv, WorkReopens, disk, files, page

\* The user starts something: nothing on the device changes yet.
LEMMA UserActsInv ==
  ASSUME AppInv, Onboard \/ Unlock \/ Create \/ Reset
  PROVE  AppInv'
<1>0. TypeOK /\ FilesOK /\ FlowOK /\ PageInv /\ FlowInv /\ WorkReopens
  BY DEF AppInv
<1>1. UNCHANGED <<disk, files, page>> /\ made' \in {made, {}}
  BY DEF Onboard, Unlock, Create, Reset
<1>2. TypeOK' /\ FilesOK' /\ PageInv' /\ WorkReopens'
  BY <1>1, QuietStep
<1>3. FlowOK' /\ FlowInv'
  <2>0. UNCHANGED <<meta, storeId, services, master, session, initError, vault, wrapped>>
    BY <1>1 DEF disk, page
  <2>n. services # None => services = storeId /\ services \in Users
    BY <1>0, AppConstants DEF TypeOK
  <2>1. CASE Onboard
    <3>1. FlowOK' /\ flow'.kind = "onboard" /\ flow'.at = "create" /\ flow'.user = storeId
      BY <1>0, <2>1, FlowStarts DEF Onboard, TypeOK, FlowKinds, Steps
    <3>2. services = storeId /\ meta = None
      BY <1>0, <2>1, <2>n DEF Onboard, Shown, PageInv
    <3> QED
      BY <2>0, <3>1, <3>2 DEF FlowInv, Onboarding
  <2>2. CASE Unlock
    <3>1. services = storeId /\ meta \in Users /\ session.status = "locked"
      BY <1>0, <2>2, <2>n DEF Unlock, Shown, TypeOK
    <3>2. FlowOK' /\ flow'.kind = "unlock" /\ flow'.at = "unlock" /\ flow'.user = meta
      BY <2>2, <3>1, FlowStarts DEF Unlock, FlowKinds, Steps
    <3> QED
      BY <2>0, <3>1, <3>2 DEF FlowInv, Unlocking
  <2>3. CASE Create
    <3>1. PICK a \in Aggs : flow' = [Flow("work", "key", services) EXCEPT !.key = a]
      BY <2>3 DEF Create
    <3>2. services \in Users /\ session.status = "ready"
      BY <2>3, <2>n DEF Create, Shown
    <3>3. FlowOK' /\ flow'.kind = "work" /\ flow'.at = "key" /\ flow'.key \in Aggs
      BY <3>1, <3>2 DEF FlowOK, Flow, NoFlow, FlowKinds, Steps, Dumps
    <3> QED
      BY <2>0, <3>2, <3>3 DEF FlowInv, Working
  <2>4. CASE Reset
    <3>1. FlowOK' /\ flow'.kind = "reset" /\ flow'.at = "wipe" /\ flow'.user = storeId
      BY <1>0, <2>4, FlowStarts DEF Reset, TypeOK, FlowKinds, Steps
    <3>2. session.status # "ready"
      <4>1. initError => services = None
        BY <1>0 DEF PageInv
      <4>2. session.status = "ready" => services # None
        BY <1>0, AppConstants DEF PageInv, TypeOK
      <4> QED
        BY <2>4, <4>1, <4>2 DEF Reset
    <3> QED
      BY <1>0, <2>0, <2>4, <3>1, <3>2 DEF FlowInv, Resetting, Reset, TypeOK
  <2> QED
    BY <2>1, <2>2, <2>3, <2>4
<1> QED
  BY <1>2, <1>3 DEF AppInv

\* The page turns to the store of a backup, which is not the store of anybody here.
LEMMA RestoreInv ==
  ASSUME AppInv, Restore
  PROVE  AppInv'
<1>0. TypeOK /\ FilesOK /\ FlowOK /\ PageInv /\ FlowInv /\ WorkReopens
  BY DEF AppInv
<1>1. PICK b \in backups, d \in dumps \cup {NoDump} :
        /\ flow' = [Flow("restore", IF services = b[1] THEN "create" ELSE "switch", b[1])
                      EXCEPT !.key = b[2], !.dump = d]
        /\ SwitchToStore(b[1])
  BY DEF Restore
<1>2. b[1] \in Users /\ b[2] \in Keys /\ d \in Dumps
  BY <1>0 DEF FilesOK, Dumps
<1>3. /\ FlowOK' /\ flow'.kind = "restore" /\ flow'.user = b[1] /\ flow'.key = b[2]
      /\ flow'.at = IF services = b[1] THEN "create" ELSE "switch"
  BY <1>1, <1>2 DEF FlowOK, Flow, NoFlow, FlowKinds, Steps, Dumps
<1>4. /\ meta = None /\ session.status # "ready" /\ ~initError
      /\ UNCHANGED <<meta, saved, vault, db, wrapped, backups, dumps, made, session, initError>>
  <2>1. services # None /\ session.status = "needs-onboarding"
    BY DEF Restore, Shown
  <2> QED
    BY <1>0, <2>1 DEF PageInv, Restore, disk, files
<1>5. /\ storeId' = b[1] /\ services' \in {b[1], None} /\ (services = b[1] => services' = b[1])
      /\ master' \in {master, None}
  BY <1>1 DEF SwitchToStore
<1>6. TypeOK' /\ FilesOK' /\ PageInv' /\ WorkReopens'
  BY <1>0, <1>2, <1>4, <1>5 DEF TypeOK, FilesOK, PageInv, WorkReopens
<1>7. FlowInv'
  BY <1>2, <1>3, <1>4, <1>5 DEF FlowInv, Restoring
<1> QED
  BY <1>3, <1>6, <1>7 DEF AppInv

\* The page is opened: it shows what localStorage says.
LEMMA MountedInv ==
  ASSUME AppInv, NEW m \in Users \cup {None}, NEW s \in Users, Mounted(m, s),
         m = None \/ (m = meta /\ UNCHANGED <<vault, db, wrapped>>), m = None => made = {},
         vault' \in [Users -> Keys \cup {Absent, Empty}], wrapped' \subseteq wrapped,
         UNCHANGED <<db, files, made>>
  PROVE  AppInv'
<1>0. TypeOK /\ FilesOK /\ FlowOK /\ PageInv /\ FlowInv /\ WorkReopens
  BY DEF AppInv
<1>1. /\ meta' = m /\ flow' = NoFlow /\ services' = None /\ master' = None /\ initError' = FALSE
      /\ m # None => storeId' = m /\ saved' = m /\ session' = Session("locked", m)
      /\ m = None => storeId' = s /\ saved' = s /\ session' = Session("needs-onboarding", None)
  BY DEF Mounted
<1>2. FlowOK' /\ FlowInv'
  BY <1>1, FlowEnds
<1>3. \A x \in Users \cup {None}, st \in Statuses :
        /\ Session(st, x) \in [status : Statuses, user : Users \cup {None}]
        /\ Session(st, x).status = st /\ Session(st, x).user = x
  BY DEF Session
<1>4. /\ session' \in [status : Statuses, user : Users \cup {None}]
      /\ session'.status # "ready"
      /\ m # None => session'.status = "locked" /\ session'.user = m
  BY <1>1, <1>3 DEF Statuses
<1>5. TypeOK' /\ FilesOK'
  BY <1>0, <1>1, <1>4 DEF TypeOK, FilesOK, files, Statuses
<1>6. PageInv' /\ WorkReopens'
  BY <1>0, <1>1, <1>4 DEF PageInv, WorkReopens
<1> QED
  BY <1>2, <1>5, <1>6 DEF AppInv

\* The services are there, or they are not.
LEMMA InitInv ==
  ASSUME AppInv, InitServices \/ InitFails
  PROVE  AppInv'
<1>0. TypeOK /\ FilesOK /\ FlowOK /\ PageInv /\ FlowInv /\ WorkReopens
  BY DEF AppInv
<1>1. /\ services = None /\ ~initError /\ storeId \in Users /\ storeId # None
      /\ UNCHANGED <<meta, saved, vault, db, wrapped, backups, dumps, storeId, master, session, made>>
  BY <1>0, AppConstants DEF InitServices, InitFails, TypeOK, disk, files
<1>2. session.status # "ready"
  BY <1>0, <1>1 DEF PageInv
<1>3. CASE InitServices
  <2>1. services' = storeId /\ initError' = initError
    BY <1>3 DEF InitServices
  <2>2. TypeOK' /\ FilesOK' /\ PageInv' /\ WorkReopens'
    BY <1>0, <1>1, <1>2, <2>1 DEF TypeOK, FilesOK, PageInv, WorkReopens
  <2>3. CASE flow.at = "switch"
    <3>1. Goto("create")
      BY <1>3, <2>3 DEF InitServices, Goto
    <3>2. /\ FlowOK' /\ flow'.at = "create" /\ flow'.kind = flow.kind
          /\ flow'.user = flow.user /\ flow'.key = flow.key
      BY <1>0, <3>1, FlowGoes DEF Steps
    <3>3. flow.kind = "restore"
      BY <1>0, <2>3 DEF FlowInv, FlowOK, FlowKinds, Onboarding, Unlocking, Working, Resetting
    <3>4. FlowInv'
      BY <1>0, <1>1, <2>1, <3>2, <3>3 DEF FlowInv, Restoring
    <3> QED
      BY <2>2, <3>2, <3>4 DEF AppInv
  <2>4. CASE flow.at # "switch"
    <3>1. flow' = flow
      BY <1>3, <2>4 DEF InitServices
    <3>2. flow.kind \in {"none", "reset"}
      BY <1>0, <1>1, <1>2, <2>4
         DEF FlowInv, FlowOK, FlowKinds, Onboarding, Unlocking, Restoring, Working
    <3>3. FlowOK' /\ FlowInv'
      BY <1>0, <1>1, <3>1, <3>2 DEF FlowOK, FlowInv, Resetting
    <3> QED
      BY <2>2, <3>3 DEF AppInv
  <2> QED
    BY <2>3, <2>4
<1>4. CASE InitFails
  <2>1. services' = services /\ initError' = TRUE /\ flow' = NoFlow
    BY <1>4 DEF InitFails
  <2>2. TypeOK' /\ FilesOK' /\ PageInv' /\ WorkReopens'
    BY <1>0, <1>1, <1>2, <2>1 DEF TypeOK, FilesOK, PageInv, WorkReopens
  <2> QED
    BY <2>1, <2>2, FlowEnds DEF AppInv
<1> QED
  BY <1>3, <1>4

\* A step of a flow that only moves on.
LEMMA QuietFlow ==
  ASSUME AppInv, UnlockVault \/ Enroll \/ Relock \/ RebuildProjections
  PROVE  AppInv'
<1>0. TypeOK /\ FilesOK /\ FlowOK /\ PageInv /\ FlowInv /\ WorkReopens
  BY DEF AppInv
<1>1. UNCHANGED <<disk, files, page, made>>
  BY DEF UnlockVault, Enroll, Relock, RebuildProjections
<1>2. TypeOK' /\ FilesOK' /\ PageInv' /\ WorkReopens'
  BY <1>1, QuietStep
<1>3. UNCHANGED <<meta, storeId, services, master, session, initError, vault, wrapped, made>>
  BY <1>1 DEF disk, page
<1>4. ASSUME NEW at \in Steps, Goto(at)
      PROVE  /\ FlowOK' /\ flow'.at = at /\ flow'.kind = flow.kind /\ flow'.user = flow.user
             /\ flow'.key = flow.key /\ flow'.dump = flow.dump
  BY <1>0, <1>4, FlowGoes
<1>5. CASE UnlockVault
  <2>1. CASE flow.kind = "onboard"
    <3>1. Goto("store") /\ flow.at = "unlock"
      BY <1>5, <2>1 DEF UnlockVault, At
    <3> QED
      BY <1>0, <1>2, <1>3, <1>4, <2>1, <3>1 DEF AppInv, FlowInv, Onboarding, Steps
  <2>2. CASE flow.kind = "unlock"
    <3>1. Goto("master") /\ flow.at = "unlock"
      BY <1>5, <2>2 DEF UnlockVault, At
    <3> QED
      BY <1>0, <1>2, <1>3, <1>4, <2>2, <3>1 DEF AppInv, FlowInv, Unlocking, Steps
  <2>3. CASE flow.kind = "restore"
    <3>1. Goto("import") /\ flow.at = "unlock"
      BY <1>5, <2>3 DEF UnlockVault, At
    <3> QED
      BY <1>0, <1>2, <1>3, <1>4, <2>3, <3>1 DEF AppInv, FlowInv, Restoring, Steps
  <2> QED
    BY <1>5, <2>1, <2>2, <2>3 DEF UnlockVault, At
<1>6. CASE Enroll
  <2>1. Goto("finish") /\ flow.at = "enroll" /\ flow.kind \in {"onboard", "unlock"}
    BY <1>6 DEF Enroll, At
  <2> QED
    BY <1>0, <1>2, <1>3, <1>4, <2>1 DEF AppInv, FlowInv, Onboarding, Unlocking, Opened, Steps
<1>7. CASE Relock
  <2>1. Goto("master") /\ flow.at = "relock" /\ flow.kind = "restore"
    BY <1>7 DEF Relock, At
  <2> QED
    BY <1>0, <1>2, <1>3, <1>4, <2>1 DEF AppInv, FlowInv, Restoring, Steps
<1>8. CASE RebuildProjections
  <2>1. Goto("finish") /\ flow.at = "rebuild" /\ flow.kind = "restore"
    BY <1>8 DEF RebuildProjections, At
  <2> QED
    BY <1>0, <1>2, <1>3, <1>4, <2>1 DEF AppInv, FlowInv, Restoring, Opened, Steps
<1> QED
  BY <1>5, <1>6, <1>7, <1>8

\* The vault of a store is written only while nobody has an identity here.
LEMMA VaultInv ==
  ASSUME AppInv, CreateVault \/ StoreAppMasterKey \/ ImportKeyVault
  PROVE  AppInv'
<1>0. TypeOK /\ FilesOK /\ FlowOK /\ PageInv /\ FlowInv /\ WorkReopens
  BY DEF AppInv
<1>1. /\ flow.kind \in {"onboard", "restore"} /\ flow.at \in {"create", "store", "import"}
      /\ UNCHANGED <<meta, saved, db, wrapped, backups, dumps, storeId, services, initError,
                     session, made>>
  BY DEF CreateVault, StoreAppMasterKey, ImportKeyVault, At, files, page
<1>2. /\ meta = None /\ services = storeId /\ flow.user = storeId /\ storeId \in Users
      /\ flow.kind = "restore" => flow.key \in Keys
  BY <1>0, <1>1 DEF FlowInv, Onboarding, Restoring, TypeOK
<1>3. session.status # "ready"
  BY <1>0, <1>2 DEF PageInv, Session
<1>4. PICK x \in Keys \cup {Absent, Empty}, at \in Steps :
        /\ vault' = [vault EXCEPT ![services] = x]
        /\ Goto(at) /\ (at = "unlock" \/ at = "relock" \/ (at = "enroll" /\ x \in Keys /\ master' = x))
        /\ at = "unlock" => flow.at = "create"
        /\ at = "relock" => flow.kind = "restore"
        /\ at = "enroll" => flow.kind = "onboard"
        /\ master' \in Keys \cup {None}
  <2>1. CASE CreateVault
    BY <1>0, <2>1 DEF CreateVault, At, Steps, page, TypeOK
  <2>2. CASE StoreAppMasterKey
    <3>1. PICK k \in Keys : vault' = [vault EXCEPT ![services] = k] /\ master' = k
      BY <2>2 DEF StoreAppMasterKey
    <3>2. Goto("enroll") /\ flow.kind = "onboard"
      BY <2>2 DEF StoreAppMasterKey, At
    <3> QED
      BY <3>1, <3>2 DEF Steps
  <2>3. CASE ImportKeyVault
    <3>1. /\ flow.kind = "restore" /\ Goto("relock") /\ master' = master
          /\ vault' = [vault EXCEPT ![services] = flow.key]
      BY <2>3 DEF ImportKeyVault, At, page
    <3> QED
      BY <1>0, <1>2, <3>1 DEF Steps, TypeOK
  <2> QED
    BY <2>1, <2>2, <2>3
<1>5. /\ FlowOK' /\ flow'.at = at /\ flow'.kind = flow.kind /\ flow'.user = flow.user
      /\ flow'.key = flow.key
  BY <1>0, <1>4, FlowGoes
<1>6. TypeOK' /\ FilesOK' /\ PageInv' /\ WorkReopens'
  BY <1>0, <1>1, <1>2, <1>3, <1>4 DEF TypeOK, FilesOK, PageInv, WorkReopens
<1>7. vault'[services] = x
  BY <1>0, <1>2, <1>4 DEF TypeOK
<1>8. FlowInv'
  <2>1. CASE flow.kind = "onboard"
    BY <1>1, <1>2, <1>4, <1>5, <1>7, <2>1 DEF FlowInv, Onboarding, Opened
  <2>2. CASE flow.kind = "restore"
    BY <1>1, <1>2, <1>4, <1>5, <2>2 DEF FlowInv, Restoring
  <2> QED
    BY <1>1, <2>1, <2>2
<1> QED
  BY <1>5, <1>6, <1>8 DEF AppInv

\* The master key is read from the vault of the page's store.
LEMMA MasterInv ==
  ASSUME AppInv, GetAppMasterKey
  PROVE  AppInv'
<1>0. TypeOK /\ FilesOK /\ FlowOK /\ PageInv /\ FlowInv /\ WorkReopens
  BY DEF AppInv
<1>1. /\ flow.kind \in {"unlock", "restore"} /\ flow.at = "master"
      /\ vault[services] \in Keys /\ master' = vault[services]
      /\ saved' = IF flow.kind = "restore" THEN flow.user ELSE saved
      /\ UNCHANGED <<meta, vault, db, wrapped, backups, dumps, storeId, services, initError,
                     session, made>>
  BY DEF GetAppMasterKey, At, files
<1>2. PICK at \in Steps : /\ Goto(at)
                          /\ flow.kind = "unlock" => at = "enroll"
                          /\ flow.kind = "restore" => \/ at = "rebuild"
                                                      \/ at = "importDb" /\ flow.dump # NoDump
  BY <1>1 DEF GetAppMasterKey, Steps
<1>3. /\ FlowOK' /\ flow'.at = at /\ flow'.kind = flow.kind /\ flow'.user = flow.user
      /\ flow'.key = flow.key /\ flow'.dump = flow.dump
  BY <1>0, <1>2, FlowGoes
<1>4. /\ services = storeId
      /\ flow.kind = "restore" => flow.user = storeId
      /\ session.status # "ready"
  BY <1>0, <1>1 DEF FlowInv, Unlocking, Restoring, PageInv, Session
<1>5. TypeOK' /\ FilesOK' /\ PageInv' /\ WorkReopens'
  BY <1>0, <1>1, <1>4 DEF TypeOK, FilesOK, PageInv, WorkReopens
<1>6. FlowInv'
  BY <1>0, <1>1, <1>2, <1>3, <1>4 DEF FlowInv, Unlocking, Restoring, Opened
<1> QED
  BY <1>3, <1>5, <1>6 DEF AppInv

\* The rows of the backup replace the rows of a store nobody has worked in.
LEMMA ImportDbInv ==
  ASSUME AppInv, ImportMainDatabase
  PROVE  AppInv'
<1>0. TypeOK /\ FilesOK /\ FlowOK /\ PageInv /\ FlowInv /\ WorkReopens
  BY DEF AppInv
<1>1. /\ flow.kind = "restore" /\ flow.at = "importDb" /\ Goto("rebuild")
      /\ db' = [db EXCEPT ![services] = flow.dump[2]]
      /\ UNCHANGED <<meta, saved, vault, wrapped, backups, dumps, storeId, services, master,
                     initError, session, made>>
  BY DEF ImportMainDatabase, At, files, page
<1>2. Restoring
  BY <1>0, <1>1 DEF FlowInv
<1>3. flow.dump[2] \in SUBSET Aggs
  BY <1>0, <1>1, <1>2 DEF Restoring, FlowOK, Dumps
<1>4. /\ FlowOK' /\ flow'.at = "rebuild" /\ flow'.kind = flow.kind /\ flow'.user = flow.user
      /\ flow'.key = flow.key
  BY <1>0, <1>1, FlowGoes DEF Steps
<1>5. TypeOK' /\ FilesOK' /\ PageInv' /\ WorkReopens'
  BY <1>0, <1>1, <1>2, <1>3 DEF TypeOK, FilesOK, PageInv, WorkReopens, Restoring
<1>6. FlowInv'
  BY <1>1, <1>2, <1>4 DEF FlowInv, Restoring, Opened
<1> QED
  BY <1>4, <1>5, <1>6 DEF AppInv

\* saveMeta comes last: what it names can be opened.
LEMMA FinishInv ==
  ASSUME AppInv, Finish
  PROVE  AppInv'
<1>0. TypeOK /\ FilesOK /\ FlowOK /\ PageInv /\ FlowInv /\ WorkReopens
  BY DEF AppInv
<1>1. /\ flow.kind \in {"onboard", "unlock", "restore"} /\ flow.at = "finish"
      /\ meta' = flow.user /\ session' = Session("ready", flow.user) /\ flow' = NoFlow
      /\ UNCHANGED <<saved, vault, db, wrapped, backups, dumps, storeId, services, master,
                     initError, made>>
  BY DEF Finish, At, files
<1>2. /\ Opened /\ flow.user = storeId /\ storeId \in Users /\ storeId # None
      /\ meta # None => meta = flow.user
      /\ meta = None => made = {}
  BY <1>0, <1>1, AppConstants DEF FlowInv, Onboarding, Unlocking, Restoring, PageInv, TypeOK, Session
<1>3. /\ session' \in [status : Statuses, user : Users \cup {None}]
      /\ session'.status = "ready" /\ session'.user = storeId
  BY <1>1, <1>2 DEF Session, Statuses
<1>4. TypeOK' /\ FilesOK' /\ PageInv'
  BY <1>0, <1>1, <1>2, <1>3 DEF TypeOK, FilesOK, PageInv, Opened
<1>5. WorkReopens'
  BY <1>0, <1>1, <1>2 DEF WorkReopens, Opened
<1> QED
  BY <1>1, <1>4, <1>5, FlowEnds DEF AppInv

\* An aggregate's key is wrapped with the master key before its first event is stored.
LEMMA SaveInv ==
  ASSUME AppInv, SaveAggregate
  PROVE  AppInv'
<1>0. TypeOK /\ FilesOK /\ FlowOK /\ PageInv /\ FlowInv /\ WorkReopens
  BY DEF AppInv
<1>1. /\ flow.kind = "work"
      /\ UNCHANGED <<meta, saved, vault, backups, dumps, storeId, services, master, initError, session>>
  BY DEF SaveAggregate, At, files, page
<1>2. Working /\ session.status = "ready" /\ flow.key \in Aggs
  BY <1>0, <1>1 DEF FlowInv, Working
<1>3. /\ meta = storeId /\ meta \in Users /\ services = storeId /\ master = vault[storeId]
      /\ vault[meta] \in Keys /\ meta # None
  <2>1. meta # None
    BY <1>0, <1>2 DEF PageInv, Session
  <2> QED
    BY <1>0, <1>2, <2>1 DEF PageInv, WorkReopens, TypeOK
<1>4. CASE flow.at = "key"
  <2>1. wrapped' = wrapped \cup {<<flow.key, master>>} /\ Goto("save") /\ UNCHANGED <<db, made>>
    BY <1>4 DEF SaveAggregate, At
  <2>2. FlowOK' /\ flow'.at = "save" /\ flow'.kind = "work" /\ flow'.key = flow.key
    BY <1>0, <1>1, <2>1, FlowGoes DEF Steps
  <2>3. TypeOK' /\ FilesOK' /\ PageInv' /\ WorkReopens'
    BY <1>0, <1>1, <1>2, <1>3, <2>1 DEF TypeOK, FilesOK, PageInv, WorkReopens
  <2>4. FlowInv'
    BY <1>1, <1>2, <2>1, <2>2 DEF FlowInv, Working
  <2> QED
    BY <2>2, <2>3, <2>4 DEF AppInv
<1>5. CASE flow.at = "save"
  <2>1. /\ db' = [db EXCEPT ![services] = @ \cup {flow.key}] /\ made' = made \cup {flow.key}
        /\ flow' = NoFlow /\ wrapped' = wrapped
    BY <1>5 DEF SaveAggregate, At
  <2>2. TypeOK' /\ FilesOK' /\ PageInv'
    BY <1>0, <1>1, <1>2, <1>3, <2>1 DEF TypeOK, FilesOK, PageInv
  <2>3. <<flow.key, vault[meta]>> \in wrapped
    BY <1>2, <1>3, <1>5 DEF Working
  <2>4. WorkReopens'
    BY <1>0, <1>1, <1>3, <2>1, <2>3 DEF WorkReopens, TypeOK
  <2> QED
    BY <2>1, <2>2, <2>4, FlowEnds DEF AppInv
<1> QED
  BY <1>2, <1>4, <1>5 DEF Working

\* A reset forgets what was made before it removes anything.
LEMMA ResetInv ==
  ASSUME AppInv, WipeOpfs \/ Forget
  PROVE  AppInv'
<1>0. TypeOK /\ FilesOK /\ FlowOK /\ PageInv /\ FlowInv /\ WorkReopens
  BY DEF AppInv
<1>1. Resetting /\ flow.kind = "reset"
  BY <1>0 DEF WipeOpfs, Forget, At, FlowInv
<1>2. CASE WipeOpfs
  <2>1. /\ Goto("forget") /\ db' \in [Users -> SUBSET Aggs]
        /\ UNCHANGED <<meta, saved, vault, wrapped, backups, dumps, storeId, services, master,
                       initError, session, made>>
    BY <1>0, <1>2 DEF WipeOpfs, TypeOK, files, page
  <2>2. FlowOK' /\ flow'.at = "forget" /\ flow'.kind = "reset" /\ flow'.user = flow.user
    BY <1>0, <1>1, <2>1, FlowGoes DEF Steps
  <2>3. TypeOK' /\ FilesOK' /\ PageInv' /\ WorkReopens'
    BY <1>0, <1>1, <2>1 DEF TypeOK, FilesOK, PageInv, WorkReopens, Resetting
  <2>4. FlowInv'
    BY <1>1, <2>1, <2>2 DEF FlowInv, Resetting
  <2> QED
    BY <2>2, <2>3, <2>4 DEF AppInv
<1>3. CASE Forget
  <2>1. PICK u \in Users : Mounted(None, u)
    BY <1>3 DEF Forget
  <2>2. wrapped' \subseteq wrapped /\ UNCHANGED <<db, files, made>>
    BY <1>3 DEF Forget
  <2>3. vault' \in [Users -> Keys \cup {Absent, Empty}]
    BY <1>0, <1>1, <1>3 DEF Forget, TypeOK, Resetting
  <2> QED
    BY <1>1, <2>1, <2>2, <2>3, MountedInv DEF Resetting
<1> QED
  BY <1>2, <1>3

\* The steps that leave all as it is but a file, or give a flow up.
LEMMA OtherInv ==
  ASSUME AppInv, ExportKeyVaultBackup \/ ExportMainDatabase \/ RequestFails \/ UNCHANGED vars
  PROVE  AppInv'
<1>0. TypeOK /\ FilesOK /\ FlowOK /\ PageInv /\ FlowInv /\ WorkReopens
  BY DEF AppInv
<1>1. CASE RequestFails
  <2>1. UNCHANGED <<disk, files, page, made>> /\ flow' = NoFlow
    BY <1>1 DEF RequestFails
  <2> QED
    BY <2>1, QuietStep, FlowEnds DEF AppInv
<1>2. CASE ExportKeyVaultBackup \/ ExportMainDatabase \/ UNCHANGED vars
  <2>1. /\ UNCHANGED <<meta, saved, vault, db, wrapped, storeId, services, master, initError,
                       session, flow, made>>
    BY <1>2 DEF ExportKeyVaultBackup, ExportMainDatabase, vars, disk, page
  <2>2. backups' \subseteq Users \X Keys /\ dumps' \subseteq Users \X SUBSET Aggs
    <3>1. session.status = "ready" => session.user \in Users /\ services \in Users
      BY <1>0, AppConstants DEF PageInv, TypeOK, Session
    <3>2. CASE ExportKeyVaultBackup
      BY <1>0, <3>1, <3>2 DEF ExportKeyVaultBackup, Shown, FilesOK
    <3>3. CASE ExportMainDatabase
      BY <1>0, <3>1, <3>3 DEF ExportMainDatabase, Shown, FilesOK, TypeOK
    <3>4. CASE UNCHANGED vars
      BY <1>0, <3>4 DEF vars, FilesOK
    <3> QED
      BY <1>2, <3>2, <3>3, <3>4
  <2>3. TypeOK' /\ FilesOK' /\ PageInv' /\ WorkReopens'
    BY <1>0, <2>1, <2>2 DEF TypeOK, FilesOK, PageInv, WorkReopens
  <2>4. FlowOK' /\ FlowInv'
    BY <1>0, <2>1 DEF FlowOK, FlowInv, Onboarding, Restoring, Unlocking, Working, Resetting, Opened
  <2> QED
    BY <2>3, <2>4 DEF AppInv
<1> QED
  BY <1>1, <1>2

\* Every step keeps the invariant.
LEMMA AppNext ==
  ASSUME AppInv, [Next]_vars
  PROVE  AppInv'
<1>1. CASE Reload
  <2>1. Mounted(meta, saved) /\ UNCHANGED <<vault, db, wrapped, files, made>>
    BY <1>1 DEF Reload
  <2>2. meta \in Users \cup {None} /\ saved \in Users /\ (meta = None => made = {})
    BY DEF AppInv, TypeOK, PageInv
  <2>3. vault' \in [Users -> Keys \cup {Absent, Empty}]
    BY <2>1 DEF AppInv, TypeOK
  <2> QED
    BY <2>1, <2>2, <2>3, MountedInv
<1> QED
  BY <1>1, UserActsInv, RestoreInv, InitInv, QuietFlow, VaultInv, MasterInv, ImportDbInv,
     FinishInv, SaveInv, ResetInv, OtherInv DEF Next, Step, UserActs

\* A device nobody has used.
LEMMA AppInit == Init => AppInv
<1> SUFFICES ASSUME Init PROVE AppInv
  OBVIOUS
<1>1. /\ session \in [status : Statuses, user : Users \cup {None}]
      /\ session.status = "needs-onboarding"
  BY DEF Init, Session, Statuses
<1>2. TypeOK /\ FilesOK
  BY <1>1 DEF Init, TypeOK, FilesOK
<1>3. FlowOK /\ flow.kind = "none" /\ flow.at = "end"
  BY DEF Init, NoFlow, FlowOK, FlowKinds, Steps, Dumps
<1>4. PageInv /\ FlowInv /\ WorkReopens
  BY <1>1, <1>3 DEF Init, PageInv, FlowInv, WorkReopens
<1> QED
  BY <1>2, <1>3, <1>4 DEF AppInv

\* The device and the page have their shapes.
THEOREM Typed == Spec => []TypeOK
<1>1. AppInv => TypeOK
  BY DEF AppInv
<1> QED
  BY <1>1, AppInit, AppNext, PTL DEF Spec

\* A page closed after any request of any flow loses nothing: the identity it would ask
\* for has a vault with a master key, which opens what was made with it, and a session
\* that is ready uses that key.
THEOREM WorkAlwaysReopens == Spec => []SessionsReopen
<1>1. AppInv => SessionsReopen
  BY AppConstants DEF AppInv, SessionsReopen, PageInv, ReadyIsOpen, Session
<1> QED
  BY <1>1, AppInit, AppNext, PTL DEF Spec

=============================================================================
