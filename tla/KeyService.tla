------------------------------ MODULE KeyService ------------------------------
(***************************************************************************)
(* The key service of one store: the Rust core (key-service-core), its     *)
(* binding for the browser (key-service-wasm) and the worker that serves   *)
(* it to every tab (key-service-web).                                      *)
(*                                                                         *)
(* A key vault is a header, which wraps the vault key under a passphrase,  *)
(* and a chain of encrypted records, one per stored key.  The core works   *)
(* on a copy of the storage in memory (mem); after each request the worker *)
(* drains what the request wrote into one IndexedDB transaction (disk).    *)
(* Sessions live in the core only, and all of them share one loaded vault  *)
(* (state).  A request runs without interruption, so a request is one      *)
(* step; a request that is refused and writes nothing is no step.          *)
(*                                                                         *)
(* Cryptography is symbolic: a wrap or a record opens under the key and    *)
(* the associated data it was sealed with and under nothing else; the hash *)
(* of a record is its number.  The passphrase a user enters is the one the *)
(* header is wrapped under (another one is refused and changes nothing).   *)
(* One scope with one signing device stands for the signer roster.         *)
(***************************************************************************)
EXTENDS Integers, Sequences, FiniteSets, SequencesExt

CONSTANTS
  Sessions,      \* session ids the core may draw
  Refs,          \* references of the scope's signed states
  None,          \* no value
  Keep,          \* a storage entry a request does not write
  NormalTtl,     \* normal_session_ttl_ms
  StepUpTtl,     \* step_up_session_ttl_ms
  MaxHandles,    \* max_handles_per_session
  MaxRefs,       \* max_scope_state_refs_per_scope
  MaxTime,       \* bound: ticks of the clock
  MaxVaults,     \* bound: vaults created
  MaxImports,    \* bound: imports of a backup
  MaxKdfs,       \* bound: passphrases set
  MaxRecords,    \* bound: records appended
  MaxGrants,     \* bound: grants of the scope's chain
  MaxFaults      \* bound: writes to IndexedDB that fail

ASSUME TtlAssumption == /\ NormalTtl \in Nat \ {0}
                        /\ StepUpTtl \in Nat \ {0}
ASSUME LimitAssumption == /\ MaxHandles \in Nat \ {0}
                          /\ MaxRefs \in Nat \ {0}
ASSUME BoundAssumption ==
  /\ MaxTime \in Nat /\ MaxVaults \in Nat /\ MaxImports \in Nat
  /\ MaxKdfs \in Nat /\ MaxRecords \in Nat /\ MaxGrants \in Nat
  /\ MaxFaults \in Nat
VARIABLES
  up,        \* the worker runs and has loaded the storage
  now,       \* the clock
  sessions,  \* the session manager's map
  state,     \* the loaded vault and the signer roster, or None
  mem,       \* the core's copy of the storage
  disk,      \* IndexedDB
  records,   \* every record container made so far, by number
  backup,    \* the last exported vault, or None
  used,      \* how often each bounded thing has happened
  acked,     \* records whose key a client was told is stored
  harm       \* what has happened that the chain does not survive

vars == <<up, now, sessions, state, mem, disk, records, backup, used, acked,
          harm>>

RecordIds == 1..MaxRecords
Vaults    == 1..MaxVaults
Grants    == 0..(MaxGrants - 1)

(***************************************************************************)
(* Keys a vault stores: the user's key pair, the device's signing keys,    *)
(* the scope key, the application's master key and a key per grant.        *)
(***************************************************************************)
Items == {"user", "device", "scope", "master"} \X {0} \cup {"resource"} \X Grants

Header   == [vault : Vaults, key : Vaults, kdf : 1..MaxKdfs]
Record   == [seq : RecordIds, prev : RecordIds \cup {0}, vault : Vaults,
             key : Vaults, item : Items]
Storage  == [header : Header \cup {None}, presence : Header \cup {None},
             index : SUBSET RecordIds, have : SUBSET RecordIds]
Session  == [kind : {"normal", "stepUp"}, expires : Int, proved : Int,
             key : Vaults, known : BOOLEAN, handles : Seq(Items), gen : Nat]
Loaded   == [head : RecordIds \cup {0}, hash : RecordIds \cup {0},
             keys : SUBSET Items, signer : BOOLEAN, refs : Seq(Refs),
             chain : Grants \cup {-1}, hollow : BOOLEAN, gen : Nat]
Backup   == [header : Header, recs : SUBSET RecordIds]
Harms    == {"lost", "aborted", "torn", "hollow", "swapped"}
Used     == [vaults : 0..MaxVaults, imports : 0..MaxImports, kdfs : 0..MaxKdfs,
             faults : 0..MaxFaults]

(* None and Keep are not values a program variable can have.               *)
ASSUME ValueAssumption ==
  /\ None # Keep
  /\ \A v \in {None, Keep} : /\ v \notin Session /\ v \notin Loaded
                             /\ v \notin Header /\ v \notin Backup
  /\ \A ids \in SUBSET RecordIds : Keep # ids
  /\ IsFiniteSet(Sessions)

EmptyStorage == [header |-> None, presence |-> None, index |-> {}, have |-> {}]

Generation == used.vaults + used.imports

-------------------------------------------------------------------------------
(* The storage: entries a request puts, and the worker's draining of them. *)

NoWrite == [header |-> Keep, presence |-> Keep, index |-> Keep, recs |-> {}]

Put(store, w) ==
  [header   |-> IF w.header = Keep THEN store.header ELSE w.header,
   presence |-> IF w.presence = Keep THEN store.presence ELSE w.presence,
   index    |-> IF w.index = Keep THEN store.index ELSE w.index,
   have     |-> store.have \cup w.recs]

(* putEntries: one transaction.  It is stored and acknowledged; or a put   *)
(* fails and the client is told; or the requests succeed, which is when    *)
(* the promise resolves, and the transaction aborts at its commit.         *)
PutEntriesNoIndex(w, acks, hurt) ==
  /\ mem' = Put(mem, w)
  /\ disk' = Put(disk, [w EXCEPT !.index = Keep])
  /\ acked' = acks
  /\ harm' = harm \cup hurt
  /\ UNCHANGED used

PutEntries(w, acks, hurt) ==
  /\ mem' = Put(mem, w)
  /\ \/ /\ disk' = Put(disk, w)
        /\ acked' = acks
        /\ harm' = harm \cup hurt
        /\ UNCHANGED used
     \/ /\ used.faults < MaxFaults
        /\ used' = [used EXCEPT !.faults = @ + 1]
        /\ UNCHANGED <<disk, acked>>
        /\ harm' = harm \cup hurt \cup {"lost"}
     \/ /\ used.faults < MaxFaults
        /\ used' = [used EXCEPT !.faults = @ + 1]
        /\ UNCHANGED disk
        /\ acked' = acks
        /\ harm' = harm \cup hurt \cup {"lost", "aborted"}

-------------------------------------------------------------------------------
(* The vault: which stored records load under a key, and what they give.   *)

(* load_all_record_containers: an indexed record that is missing is skipped *)
Containers(store) == store.index \cap store.have

Before(R, i) == IF records[i].seq = 1 THEN {0}
                ELSE {j \in R : records[j].seq = records[i].seq - 1}

(* apply_containers: numbered 1..n, each naming the one before it, each    *)
(* sealed under this key for this vault.                                   *)
Loads(store, key) ==
  LET R == Containers(store) IN
  \A i \in R :
    /\ records[i].seq \in 1..Cardinality(R)
    /\ \A j \in R : records[j].seq = records[i].seq => i = j
    /\ records[i].prev \in Before(R, i)
    /\ records[i].vault = store.header.vault
    /\ records[i].key = key

Materialized(R) == {records[i].item : i \in R}

LoadKeyvault(store) ==
  LET R == Containers(store) IN
  [head   |-> Cardinality(R),
   hash   |-> IF R = {} THEN 0
              ELSE CHOOSE i \in R : records[i].seq = Cardinality(R),
   keys   |-> Materialized(R), signer |-> FALSE, refs |-> <<>>,
   chain  |-> -1, hollow |-> FALSE, gen |-> Generation]

(* the state ingest_scope_state makes when none is loaded: no records *)
HollowState ==
  [head |-> 0, hash |-> 0, keys |-> {}, signer |-> FALSE, refs |-> <<>>,
   chain |-> -1, hollow |-> TRUE, gen |-> Generation]

(* an append harms the chain unless it continues the vault just loaded *)
AppendHarm(s) ==
  (IF state.hollow THEN {"hollow"} ELSE {})
    \cup (IF state.gen # Generation \/ sessions[s].gen # Generation
          THEN {"swapped"} ELSE {})

(* the container append_record makes of an item after head and hash *)
Container(s, item, seq, prev) ==
  [seq |-> seq, prev |-> prev, vault |-> mem.header.vault,
   key |-> sessions[s].key, item |-> item]

(* append_record and persist_record_container: the container follows the   *)
(* head of the loaded state, not of the storage; its id joins the index.   *)
Append1(s, item, st) ==
  LET id == Len(records) + 1 IN
  /\ Len(records) < MaxRecords
  /\ state.head < MaxRecords
  /\ records' = Append(records, Container(s, item, state.head + 1, state.hash))
  /\ state' = [st EXCEPT !.head = @ + 1, !.hash = id, !.keys = @ \cup {item}]
  /\ PutEntries([NoWrite EXCEPT !.recs = {id}, !.index = mem.index \cup {id}],
                acked \cup {id}, AppendHarm(s))

-------------------------------------------------------------------------------
(* Sessions and handles.                                                   *)

Fresh(s) == sessions[s] = None
Known(s) == up /\ sessions[s] # None /\ sessions[s].known
Valid(s) == Known(s) /\ now <= sessions[s].expires
SteppedUp(s) == Valid(s) /\ sessions[s].kind = "stepUp"

InsertHandleLate(handles, item) ==
  Append(IF Len(handles) > MaxHandles
         THEN SubSeq(handles, Len(handles) - MaxHandles + 2, Len(handles))
         ELSE handles, item)

(* insert_handle: the least recently used handles make room *)
InsertHandle(handles, item) ==
  Append(IF Len(handles) >= MaxHandles
         THEN SubSeq(handles, Len(handles) - MaxHandles + 2, Len(handles))
         ELSE handles, item)

(* touch_handle: a handle that is used becomes the most recent one *)
Touch(handles, i) == Append(RemoveAt(handles, i), handles[i])

(* ScopeStateRefTracker.insert: a queue without repetitions, oldest out *)
InsertRef(refs, r) ==
  IF \E i \in DOMAIN refs : refs[i] = r THEN refs
  ELSE LET q == Append(refs, r)
       IN  IF Len(q) > MaxRefs THEN Tail(q) ELSE q

-------------------------------------------------------------------------------
Init ==
  /\ up = FALSE
  /\ now = 0
  /\ sessions = [s \in Sessions |-> None]
  /\ state = None
  /\ mem = EmptyStorage
  /\ disk = EmptyStorage
  /\ records = <<>>
  /\ backup = None
  /\ used = [vaults |-> 0, imports |-> 0, kdfs |-> 0, faults |-> 0]
  /\ acked = {}
  /\ harm = {}

(* createRuntime: the first hello loads the storage into a new core.       *)
CreateRuntime ==
  /\ ~up
  /\ up' = TRUE
  /\ mem' = disk
  /\ UNCHANGED <<now, sessions, state, disk, records, backup, used, acked, harm>>

(* The last tab closes, or the browser stops the worker: memory is gone.   *)
WorkerDies ==
  /\ up
  /\ up' = FALSE
  /\ mem' = EmptyStorage
  /\ sessions' = [s \in Sessions |-> None]
  /\ state' = None
  /\ UNCHANGED <<now, disk, records, backup, used, acked, harm>>

Tick ==
  /\ now < MaxTime
  /\ now' = now + 1
  /\ UNCHANGED <<up, sessions, state, mem, disk, records, backup, used, acked,
                 harm>>

(* create_new_vault: a new vault id, vault key and wrap; the index is      *)
(* emptied, the entry of the user-presence unlock stays as it is.  It asks *)
(* for no session and does not look for an earlier vault.                  *)
CreateVault ==
  /\ up
  /\ used.vaults < MaxVaults
  /\ used.kdfs < MaxKdfs
  /\ LET v == used.vaults + 1
         k == used.kdfs + 1
         w == [NoWrite EXCEPT !.header = [vault |-> v, key |-> v, kdf |-> k],
                              !.index = {}]
         more == [used EXCEPT !.vaults = v, !.kdfs = k]
     IN  /\ mem' = Put(mem, w)
         /\ \/ /\ disk' = Put(disk, w)
               /\ used' = more
               /\ acked' = {}
               /\ UNCHANGED harm
            \/ /\ used.faults < MaxFaults
               /\ used' = [more EXCEPT !.faults = @ + 1]
               /\ harm' = harm \cup {"lost", "torn"}
               /\ UNCHANGED <<disk, acked>>
  /\ UNCHANGED <<up, now, sessions, state, records, backup>>

(* finish_unlock: the session is in the map before the vault is loaded; if *)
(* the records do not load the caller gets an error and never its id.      *)
FinishUnlock(s, key, proof) ==
  /\ Fresh(s)
  /\ sessions' =
       [sessions EXCEPT ![s] =
          [kind |-> "normal", expires |-> now + NormalTtl, proved |-> proof,
           key |-> key, known |-> Loads(mem, key), handles |-> <<>>,
           gen |-> Generation]]
  /\ state' = IF Loads(mem, key) THEN LoadKeyvault(mem) ELSE state
  /\ UNCHANGED <<up, now, mem, disk, records, backup, used, acked, harm>>

UnlockPassphrase(s) ==
  /\ up
  /\ mem.header # None
  /\ FinishUnlock(s, mem.header.key, now)

(* The wrap's associated data names the vault and the header's KDF, as     *)
(* they were when the unlock was enabled.                                  *)
UnlockUserPresence(s) ==
  /\ up
  /\ mem.header # None
  /\ mem.presence # None
  /\ mem.presence.vault = mem.header.vault
  /\ mem.presence.kdf = mem.header.kdf
  /\ FinishUnlock(s, mem.presence.key, 0 - StepUpTtl - 1)

(* step_up: the passphrase again, for the session's own vault key.         *)
StepUp(s) ==
  /\ Valid(s)
  /\ mem.header # None
  /\ mem.header.key = sessions[s].key
  /\ sessions' = [sessions EXCEPT ![s].kind = "stepUp",
                                  ![s].expires = now + StepUpTtl,
                                  ![s].proved = now]
  /\ UNCHANGED <<up, now, state, mem, disk, records, backup, used, acked, harm>>

RenewSessionAnyKind(s) ==
  /\ Valid(s)
  /\ sessions' = [sessions EXCEPT ![s].expires = now + NormalTtl]
  /\ UNCHANGED <<up, now, state, mem, disk, records, backup, used, acked, harm>>

RenewSession(s) ==
  /\ Valid(s)
  /\ sessions[s].kind # "stepUp"
  /\ sessions' = [sessions EXCEPT ![s].expires = now + NormalTtl]
  /\ UNCHANGED <<up, now, state, mem, disk, records, backup, used, acked, harm>>

LockKeepsVault(s) ==
  /\ Known(s)
  /\ sessions' = [sessions EXCEPT ![s] = None]
  /\ UNCHANGED <<up, now, state, mem, disk, records, backup, used, acked, harm>>

(* lock, and the worker's signal for the same session (idle, blur): the    *)
(* session and the vault every session shares are dropped.                 *)
Lock(s) ==
  /\ Known(s)
  /\ sessions' = [sessions EXCEPT ![s] = None]
  /\ state' = None
  /\ UNCHANGED <<up, now, mem, disk, records, backup, used, acked, harm>>

(* ensure_session_valid: any request of a session past its time.           *)
Expire(s) ==
  /\ Known(s)
  /\ now > sessions[s].expires
  /\ sessions' = [sessions EXCEPT ![s] = None]
  /\ state' = None
  /\ UNCHANGED <<up, now, mem, disk, records, backup, used, acked, harm>>

(* export_keyvault: the header and the records that are there.             *)
ExportKeyvault(s) ==
  /\ SteppedUp(s)
  /\ mem.header # None
  /\ backup' = [header |-> mem.header, recs |-> Containers(mem)]
  /\ UNCHANGED <<up, now, sessions, state, mem, disk, records, used, acked, harm>>

(* import_keyvault: header, records and index are overwritten; the loaded  *)
(* state and the sessions are not told.  The chain is not validated.       *)
ImportKeyvault(s) ==
  /\ SteppedUp(s)
  /\ backup # None
  /\ used.imports < MaxImports
  /\ LET w == [header |-> backup.header, presence |-> Keep,
               index |-> backup.recs, recs |-> backup.recs]
         more == [used EXCEPT !.imports = @ + 1]
     IN  /\ mem' = Put(mem, w)
         /\ \/ /\ disk' = Put(disk, w)
               /\ used' = more
               /\ acked' = backup.recs
               /\ UNCHANGED harm
            \/ /\ used.faults < MaxFaults
               /\ used' = [more EXCEPT !.faults = @ + 1]
               /\ harm' = harm \cup {"lost", "torn"}
               /\ UNCHANGED <<disk, acked>>
  /\ UNCHANGED <<up, now, sessions, state, records, backup>>

SwapHarm(s) == IF sessions[s].gen # Generation THEN {"swapped"} ELSE {}

(* change_passphrase: a new KDF and a new wrap of the session's vault key  *)
ChangePassphrase(s) ==
  /\ SteppedUp(s)
  /\ mem.header # None
  /\ used.kdfs < MaxKdfs
  /\ LET w == [NoWrite EXCEPT !.header =
                 [vault |-> mem.header.vault, key |-> sessions[s].key,
                  kdf |-> used.kdfs + 1]]
         more == [used EXCEPT !.kdfs = @ + 1]
     IN  /\ mem' = Put(mem, w)
         /\ \/ /\ disk' = Put(disk, w)
               /\ used' = more
               /\ harm' = harm \cup SwapHarm(s)
            \/ /\ used.faults < MaxFaults
               /\ used' = [more EXCEPT !.faults = @ + 1]
               /\ harm' = harm \cup {"lost"} \cup SwapHarm(s)
               /\ UNCHANGED disk
  /\ UNCHANGED <<up, now, sessions, state, records, backup, acked>>

(* enable_user_presence_unlock wraps the session's vault key.              *)
EnableUserPresence(s) ==
  /\ SteppedUp(s)
  /\ mem.header # None
  /\ PutEntries([NoWrite EXCEPT !.presence =
                   [vault |-> mem.header.vault, key |-> sessions[s].key,
                    kdf |-> mem.header.kdf]],
                acked, SwapHarm(s))
  /\ UNCHANGED <<up, now, sessions, state, records, backup>>

DisableUserPresence(s) ==
  /\ SteppedUp(s)
  /\ PutEntries([NoWrite EXCEPT !.presence = None], acked, {})
  /\ UNCHANGED <<up, now, sessions, state, records, backup>>

-------------------------------------------------------------------------------
(* Keys.                                                                   *)

(* store_app_master_key through persist_resource_key                       *)
StoreAppMasterKey(s) ==
  /\ Valid(s)
  /\ mem.header # None
  /\ state # None
  /\ Append1(s, <<"master", 0>>, state)
  /\ UNCHANGED <<up, now, sessions, backup>>

(* init_identity: the user's key pair and the device's signing keys, two   *)
(* records written in one request.  Only a host of the core itself can     *)
(* call it: the browser binding does not offer it.                         *)
InitIdentity(s) ==
  /\ Valid(s)
  /\ mem.header # None
  /\ state # None
  /\ Len(records) + 1 < MaxRecords
  /\ state.head + 1 < MaxRecords
  /\ LET a == Len(records) + 1
         b == Len(records) + 2
         n == state.head
     IN  /\ records' = records \o
              <<Container(s, <<"user", 0>>, n + 1, state.hash),
                Container(s, <<"device", 0>>, n + 2, a)>>
         /\ state' = [state EXCEPT !.head = n + 2, !.hash = b,
                        !.keys = @ \cup {<<"user", 0>>, <<"device", 0>>}]
         /\ PutEntries([NoWrite EXCEPT !.recs = {a, b},
                                       !.index = mem.index \cup {a, b}],
                       acked \cup {a, b}, AppendHarm(s))
  /\ UNCHANGED <<up, now, sessions, backup>>

(* ingest_scope_state: a state is made first when none is loaded, whatever *)
(* becomes of the rest.  The first signer of the scope is taken only with  *)
(* its fingerprint given (pinned); later the payload must be signed by it. *)
IngestScopeState(s, r, genuine, pinned) ==
  LET base == IF state = None THEN HollowState ELSE state
      taken == genuine /\ (base.signer \/ pinned)
  IN  /\ Valid(s)
      /\ mem.header # None
      /\ state' = IF taken
                  THEN [base EXCEPT !.signer = TRUE, !.refs = InsertRef(@, r)]
                  ELSE base
      /\ UNCHANGED <<up, now, sessions, mem, disk, records, backup, used,
                     acked, harm>>

(* what an envelope or a grant signed for scope state r must find *)
Trusts(r) == /\ state # None
             /\ state.signer
             /\ \E i \in DOMAIN state.refs : state.refs[i] = r

(* ingest_key_envelope: the scope key, opened with the user's key pair.    *)
IngestKeyEnvelope(s, r) ==
  /\ Valid(s)
  /\ Trusts(r)
  /\ <<"user", 0>> \in state.keys
  /\ Append1(s, <<"scope", 0>>, state)
  /\ UNCHANGED <<up, now, sessions, backup>>

(* open_scope: a handle to the scope key.                                  *)
OpenScope(s) ==
  /\ Valid(s)
  /\ state # None
  /\ <<"scope", 0>> \in state.keys
  /\ sessions' = [sessions EXCEPT ![s].handles =
                                     InsertHandle(@, <<"scope", 0>>)]
  /\ UNCHANGED <<up, now, state, mem, disk, records, backup, used, acked, harm>>

(* open_resource: the grant must be the next of the chain; the chain moves *)
(* on before the key is unwrapped, and an unwrap that fails (the handle's  *)
(* key is not the one the grant was made with) leaves it there.            *)
OpenResource(s, i, g, r, opens) ==
  /\ Valid(s)
  /\ i \in DOMAIN sessions[s].handles
  /\ sessions[s].handles[i] = <<"scope", 0>>
  /\ Trusts(r)
  /\ g = state.chain + 1
  /\ LET touched == Touch(sessions[s].handles, i)
     IN  \/ /\ opens
            /\ Append1(s, <<"resource", g>>, [state EXCEPT !.chain = g])
            /\ sessions' = [sessions EXCEPT ![s].handles =
                              InsertHandle(touched, <<"resource", g>>)]
         \/ /\ ~opens
            /\ state' = [state EXCEPT !.chain = g]
            /\ sessions' = [sessions EXCEPT ![s].handles = touched]
            /\ UNCHANGED <<mem, disk, records, used, acked, harm>>
  /\ UNCHANGED <<up, now, backup>>

(* encrypt and decrypt with a handle: only its place in the order changes. *)
UseHandle(s, i) ==
  /\ Valid(s)
  /\ i \in DOMAIN sessions[s].handles
  /\ sessions' = [sessions EXCEPT ![s].handles = Touch(@, i)]
  /\ UNCHANGED <<up, now, state, mem, disk, records, backup, used, acked, harm>>

CloseHandle(s, i) ==
  /\ Valid(s)
  /\ i \in DOMAIN sessions[s].handles
  /\ sessions' = [sessions EXCEPT ![s].handles = RemoveAt(@, i)]
  /\ UNCHANGED <<up, now, state, mem, disk, records, backup, used, acked, harm>>

-------------------------------------------------------------------------------
(* The requests of a session: those that open and close it, those that     *)
(* change the vault, and those that bring in and use shared keys.          *)
SessionRequest(s) ==
  \/ UnlockPassphrase(s) \/ UnlockUserPresence(s) \/ StepUp(s)
  \/ RenewSession(s) \/ Lock(s) \/ Expire(s)

VaultRequest(s) ==
  \/ ExportKeyvault(s) \/ ImportKeyvault(s) \/ ChangePassphrase(s)
  \/ EnableUserPresence(s) \/ DisableUserPresence(s)
  \/ StoreAppMasterKey(s) \/ InitIdentity(s)

KeyRequest(s) ==
  \/ \E r \in Refs, genuine, pinned \in BOOLEAN :
       IngestScopeState(s, r, genuine, pinned)
  \/ \E r \in Refs : IngestKeyEnvelope(s, r)
  \/ OpenScope(s)
  \/ \E i \in 1..MaxHandles : UseHandle(s, i) \/ CloseHandle(s, i)
  \/ \E i \in 1..MaxHandles, g \in Grants, r \in Refs, opens \in BOOLEAN :
       OpenResource(s, i, g, r, opens)

Request(s) == SessionRequest(s) \/ VaultRequest(s) \/ KeyRequest(s)

Next ==
  \/ CreateRuntime \/ WorkerDies \/ Tick \/ CreateVault
  \/ \E s \in Sessions : Request(s)

Spec == Init /\ [][Next]_vars

-------------------------------------------------------------------------------
(* The variables' types; a session never holds more handles than the       *)
(* policy allows (insert_handle), nor a scope more references.             *)
TypeOK ==
  /\ up \in BOOLEAN
  /\ now \in 0..MaxTime
  /\ sessions \in [Sessions -> Session \cup {None}]
  /\ \A s \in Sessions :
       sessions[s] # None => Len(sessions[s].handles) <= MaxHandles
  /\ state \in Loaded \cup {None}
  /\ state # None => Len(state.refs) <= MaxRefs
  /\ mem \in Storage /\ disk \in Storage
  /\ records \in Seq(Record)
  /\ backup \in Backup \cup {None}
  /\ used \in Used
  /\ acked \subseteq RecordIds
  /\ harm \subseteq Harms

(* Unless a write failed, records were appended to a state that was not    *)
(* read from the storage (ingest_scope_state after a lock), or a session   *)
(* outlived the vault it was opened on (create or import underneath it),   *)
(* the stored vault loads under its own key and gives every key a client   *)
(* was told is stored (apply_containers accepts what append_record and     *)
(* persist_record_container wrote, whoever unlocked, locked or died).      *)
VaultReloads ==
  harm = {} /\ disk.header # None =>
    /\ Loads(disk, disk.header.key)
    /\ Materialized(acked) \subseteq Materialized(Containers(disk))
    /\ up => mem = disk

(* Every record a client was told is stored is in IndexedDB and in its     *)
(* index (persistWrites before the answer), also after failed writes of    *)
(* others.  What loses one is a transaction that aborts at its commit, and *)
(* an import or a new vault whose write failed: the core goes on with the  *)
(* new index and stores it with the next key.                              *)
AckedOnDisk ==
  harm \cap {"aborted", "torn"} = {} => acked \subseteq Containers(disk)

(* What a client was told is stored can be unlocked again: it is in the    *)
(* storage, and the storage loads.                                         *)
KeysSurvive == VaultReloads /\ AckedOnDisk

(* A session that export, import, change of passphrase and presence        *)
(* enrolment accept has proved the passphrase within the step-up lifetime  *)
(* (INV-KS-06): renewing or unlocking by presence never stands in for it.  *)
StepUpIsFresh ==
  \A s \in Sessions : SteppedUp(s) => now - sessions[s].proved <= StepUpTtl

(* No vault stays in memory without a session (lock and expiry drop it).   *)
LockedIsGone ==
  state # None => \E s \in Sessions : sessions[s] # None

(* What the RFC says of the passkey unlock: enabled for the vault that is  *)
(* stored, it opens it, also after a change of passphrase.                 *)
PresenceSurvivesPassphrase ==
  (/\ harm = {} /\ up /\ mem.header # None /\ mem.presence # None
   /\ mem.presence.vault = mem.header.vault)
     => mem.presence.kdf = mem.header.kdf
===============================================================================
