-------------------------- MODULE KeyServiceProofs --------------------------
(***************************************************************************)
(* Theorems about KeyService, for any set of sessions and references, any  *)
(* lifetimes and limits and any bound on what happens.                     *)
(***************************************************************************)
EXTENDS KeyService, FiniteSetTheorems, SequenceTheorems, TLAPS

\* The entries a request puts.
Write == [header : Header \cup {None, Keep}, presence : Header \cup {None, Keep},
          index : (SUBSET RecordIds) \cup {Keep}, recs : SUBSET RecordIds]

\* Stored ids are ids of containers that were made.
IdsExist ==
  /\ Len(records) <= MaxRecords
  /\ \A st \in {mem, disk} : st.index \cup st.have \subseteq 1..Len(records)
  /\ backup # None => backup.recs \subseteq 1..Len(records)

TypeInv == TypeOK /\ IdsExist

\* A session is open on a vault the running core has (finish_unlock).
Opened == \A s \in Sessions : sessions[s] # None => up /\ mem.header # None

-----------------------------------------------------------------------------
(* Sequences of handles and references *)

\* Removing an entry leaves the others (lru bookkeeping of the handles).
LEMMA RemoveAtType ==
  ASSUME NEW S, NEW q \in Seq(S), NEW i \in DOMAIN q
  PROVE  RemoveAt(q, i) \in Seq(S) /\ Len(RemoveAt(q, i)) = Len(q) - 1
<1>1. i \in 1..Len(q) /\ Len(q) \in Nat
  OBVIOUS
<1> DEFINE a == SubSeq(q, 1, i - 1)
           b == SubSeq(q, i + 1, Len(q))
<1>2. a \in Seq(S) /\ Len(a) = i - 1
  BY <1>1, SubSeqProperties
<1>3. b \in Seq(S) /\ Len(b) = Len(q) - i
  BY <1>1, SubSeqProperties
<1>4. RemoveAt(q, i) = a \o b
  BY DEF RemoveAt
<1> HIDE DEF a, b
<1>5. a \o b \in Seq(S) /\ Len(a \o b) = Len(a) + Len(b)
  BY <1>2, <1>3, ConcatProperties, Zenon
<1>6. Len(a \o b) = Len(q) - 1
  BY <1>1, <1>2, <1>3, <1>5
<1> QED
  BY <1>4, <1>5, <1>6

\* Using a handle keeps their number (touch_handle).
LEMMA TouchType ==
  ASSUME NEW q \in Seq(Items), NEW i \in DOMAIN q
  PROVE  Touch(q, i) \in Seq(Items) /\ Len(Touch(q, i)) = Len(q)
<1>1. RemoveAt(q, i) \in Seq(Items) /\ Len(RemoveAt(q, i)) = Len(q) - 1 /\ q[i] \in Items
  BY RemoveAtType
<1> QED
  BY <1>1 DEF Touch

\* insert_handle keeps the limit.
LEMMA InsertHandleType ==
  ASSUME NEW q \in Seq(Items), Len(q) <= MaxHandles, NEW item \in Items
  PROVE  InsertHandle(q, item) \in Seq(Items) /\ Len(InsertHandle(q, item)) <= MaxHandles
<1>1. Len(q) \in Nat /\ MaxHandles \in Nat /\ 1 <= MaxHandles
  BY LimitAssumption
<1>2. CASE Len(q) >= MaxHandles
  <2>1. Len(q) = MaxHandles /\ Len(q) - MaxHandles + 2 = 2
    BY <1>1, <1>2
  <2>2. q # <<>>
    BY <1>1, <2>1
  <2>3. Tail(q) \in Seq(Items) /\ Len(Tail(q)) = Len(q) - 1
    BY <2>2
  <2>4. SubSeq(q, 2, Len(q)) = Tail(q)
    BY <2>2, TailIsSubSeq
  <2>5. InsertHandle(q, item) = Append(Tail(q), item)
    BY <1>2, <2>1, <2>4 DEF InsertHandle
  <2> QED
    BY <1>1, <2>1, <2>3, <2>5
<1>3. CASE ~(Len(q) >= MaxHandles)
  BY <1>1, <1>3 DEF InsertHandle
<1> QED
  BY <1>2, <1>3

\* ScopeStateRefTracker.insert keeps the limit.
LEMMA InsertRefType ==
  ASSUME NEW q \in Seq(Refs), Len(q) <= MaxRefs, NEW r \in Refs
  PROVE  InsertRef(q, r) \in Seq(Refs) /\ Len(InsertRef(q, r)) <= MaxRefs
<1>1. /\ Append(q, r) \in Seq(Refs) /\ Len(Append(q, r)) = Len(q) + 1
      /\ Tail(Append(q, r)) \in Seq(Refs) /\ Len(Tail(Append(q, r))) = Len(q)
  OBVIOUS
<1> QED
  BY <1>1, LimitAssumption DEF InsertRef

-----------------------------------------------------------------------------
(* Storage *)

\* What a write leaves in a store.
LEMMA PutType ==
  ASSUME NEW st \in Storage, NEW w \in Write
  PROVE  /\ Put(st, w) \in Storage
         /\ Put(st, w).header = IF w.header = Keep THEN st.header ELSE w.header
         /\ Put(st, w).presence = IF w.presence = Keep THEN st.presence ELSE w.presence
         /\ Put(st, w).index = IF w.index = Keep THEN st.index ELSE w.index
         /\ Put(st, w).have = st.have \cup w.recs
<1> DEFINE h == IF w.header = Keep THEN st.header ELSE w.header
           p == IF w.presence = Keep THEN st.presence ELSE w.presence
           x == IF w.index = Keep THEN st.index ELSE w.index
<1>1. st.header \in Header \cup {None} /\ w.header \in Header \cup {None, Keep}
  BY DEF Storage, Write
<1>2. st.presence \in Header \cup {None} /\ w.presence \in Header \cup {None, Keep}
  BY DEF Storage, Write
<1>3. st.index \in SUBSET RecordIds /\ w.index \in (SUBSET RecordIds) \cup {Keep}
  BY DEF Storage, Write
<1>4. st.have \cup w.recs \in SUBSET RecordIds
  BY DEF Storage, Write
<1>5. /\ h \in Header \cup {None}
      /\ p \in Header \cup {None}
      /\ x \in SUBSET RecordIds
  <2>1. h \in Header \cup {None}
    BY <1>1, Zenon
  <2>2. p \in Header \cup {None}
    BY <1>2, Zenon
  <2>3. x \in SUBSET RecordIds
    BY <1>3
  <2> QED
    BY <2>1, <2>2, <2>3
<1>6. Put(st, w) = [header |-> h, presence |-> p, index |-> x, have |-> st.have \cup w.recs]
  BY DEF Put
<1> HIDE DEF h, p, x
<1>7. Put(st, w) \in Storage
  BY <1>4, <1>5, <1>6 DEF Storage
<1>8. /\ Put(st, w).header = h /\ Put(st, w).presence = p /\ Put(st, w).index = x
      /\ Put(st, w).have = st.have \cup w.recs
  BY <1>6
<1> QED
  BY <1>7, <1>8 DEF h, p, x

\* The worker's transaction: the core has the entries, the disk has them or not.
LEMMA PutEntriesType ==
  ASSUME TypeOK, NEW w \in Write, NEW acks \in SUBSET RecordIds, NEW hurt \in SUBSET Harms,
         PutEntries(w, acks, hurt)
  PROVE  /\ mem' = Put(mem, w) /\ disk' \in {disk, Put(disk, w)}
         /\ mem' \in Storage /\ disk' \in Storage
         /\ used' \in Used /\ used'.vaults = used.vaults /\ used'.imports = used.imports
         /\ acked' \in {acked, acks} /\ harm' \subseteq Harms
<1>1. mem \in Storage /\ disk \in Storage /\ used \in Used
  BY DEF TypeOK
<1>2. Put(mem, w) \in Storage /\ Put(disk, w) \in Storage
  BY <1>1, PutType
<1>3. mem' = Put(mem, w) /\ disk' \in {disk, Put(disk, w)} /\ acked' \in {acked, acks}
  BY DEF PutEntries
<1>4. harm' \subseteq Harms
  BY DEF PutEntries, TypeOK, Harms
<1>5. \/ used' = used
      \/ used.faults < MaxFaults /\ used' = [used EXCEPT !.faults = @ + 1]
  BY DEF PutEntries
<1>6. used' \in Used /\ used'.vaults = used.vaults /\ used'.imports = used.imports
  BY <1>1, <1>5, BoundAssumption DEF Used
<1> QED
  BY <1>1, <1>2, <1>3, <1>4, <1>6

\* Writing ids that exist keeps IdsExist for a store.
LEMMA PutIds ==
  ASSUME NEW st \in Storage, NEW w \in Write, NEW n \in Nat,
         st.index \cup st.have \subseteq 1..n,
         w.index # Keep => w.index \subseteq 1..n, w.recs \subseteq 1..n
  PROVE  Put(st, w).index \cup Put(st, w).have \subseteq 1..n
BY PutType

-----------------------------------------------------------------------------
(* Type correctness *)

\* A numbering of R by 1..Cardinality(R) without repetition reaches its last number.
LEMMA LastOfChain ==
  ASSUME NEW R, IsFiniteSet(R), R # {}, NEW f \in [R -> 1..Cardinality(R)],
         \A i, j \in R : f[i] = f[j] => i = j
  PROVE  \E i \in R : f[i] = Cardinality(R)
<1> DEFINE n == Cardinality(R)
<1>1. n \in Nat /\ n # 0
  BY FS_CardinalityType, FS_EmptySet
<1>2. f \in Injection(R, 1..n)
  BY DEF Injection, IsInjective
<1>3. IsFiniteSet(1..n) /\ Cardinality(1..n) = n
  BY <1>1, FS_Interval
<1>4. f \in Surjection(R, 1..n)
  BY <1>2, <1>3, FS_Injection
<1>5. n \in 1..n
  BY <1>1
<1> QED
  BY <1>4, <1>5 DEF Surjection

\* The records of a typed store: finitely many, all made.
LEMMA ContainersType ==
  ASSUME TypeInv, NEW st \in {mem, disk}
  PROVE  /\ Containers(st) \subseteq 1..Len(records) /\ Containers(st) \subseteq RecordIds
         /\ IsFiniteSet(Containers(st))
         /\ Cardinality(Containers(st)) \in 0..MaxRecords
         /\ Materialized(Containers(st)) \subseteq Items
<1>1. Containers(st) \subseteq 1..Len(records) /\ Containers(st) \subseteq RecordIds
  BY DEF TypeInv, TypeOK, IdsExist, Containers, Storage
<1>2. IsFiniteSet(RecordIds) /\ Cardinality(RecordIds) = MaxRecords
  BY FS_Interval, BoundAssumption DEF RecordIds
<1>3. /\ IsFiniteSet(Containers(st))
      /\ Cardinality(Containers(st)) <= MaxRecords
      /\ Cardinality(Containers(st)) \in Nat
  BY <1>1, <1>2, FS_Subset, FS_CardinalityType
<1>4. \A i \in 1..Len(records) : records[i].item \in Items
  <2>1. \A i \in 1..Len(records) : records[i] \in Record
    BY DEF TypeInv, TypeOK
  <2> QED
    BY <2>1 DEF Record
<1>5. Materialized(Containers(st)) \subseteq Items
  BY <1>1, <1>4 DEF Materialized
<1> QED
  BY <1>1, <1>3, <1>5, BoundAssumption

\* A store that loads has a last record.
LEMMA LoadsLast ==
  ASSUME TypeInv, NEW st \in {mem, disk}, NEW key, Loads(st, key), Containers(st) # {}
  PROVE  \E i \in Containers(st) : records[i].seq = Cardinality(Containers(st))
<1> DEFINE R == Containers(st)
           f == [i \in R |-> records[i].seq]
<1>1. IsFiniteSet(R)
  BY ContainersType
<1>2. f \in [R -> 1..Cardinality(R)] /\ \A i, j \in R : f[i] = f[j] => i = j
  BY DEF Loads
<1>3. \E i \in R : f[i] = Cardinality(R)
  <2> HIDE DEF f, R
  <2> QED BY <1>1, <1>2, LastOfChain DEF R
<1> QED
  BY <1>3

\* A vault that loads is a typed state (LoadKeyvault).
LEMMA LoadKeyvaultType ==
  ASSUME TypeInv, NEW key, Loads(mem, key)
  PROVE  LoadKeyvault(mem) \in Loaded /\ LoadKeyvault(mem).refs = <<>>
<1> DEFINE R == Containers(mem)
           h == IF R = {} THEN 0 ELSE CHOOSE i \in R : records[i].seq = Cardinality(R)
<1>1. Cardinality(R) \in RecordIds \cup {0}
  <2>1. Cardinality(R) \in 0..MaxRecords
    BY ContainersType
  <2> HIDE DEF R
  <2> QED BY <2>1, BoundAssumption DEF RecordIds
<1>2. h \in RecordIds \cup {0}
  <2>1. R \subseteq RecordIds
    BY ContainersType
  <2>2. R # {} => \E i \in R : records[i].seq = Cardinality(R)
    BY LoadsLast
  <2> HIDE DEF R
  <2> QED BY <2>1, <2>2
<1>3. Materialized(R) \in SUBSET Items
  BY ContainersType
<1>4. Generation \in Nat
  BY DEF TypeInv, TypeOK, Used, Generation
<1>5. -1 \in Grants \cup {-1} /\ <<>> \in Seq(Refs)
  OBVIOUS
<1>6. LoadKeyvault(mem) = [head |-> Cardinality(R), hash |-> h, keys |-> Materialized(R),
                           signer |-> FALSE, refs |-> <<>>, chain |-> -1,
                           hollow |-> FALSE, gen |-> Generation]
  BY DEF LoadKeyvault
<1> HIDE DEF R, h
<1> QED
  BY <1>1, <1>2, <1>3, <1>4, <1>5, <1>6 DEF Loaded

\* A request that writes nothing: the sessions and the loaded vault may change.
LEMMA TypeFrame ==
  ASSUME TypeInv, UNCHANGED <<now, mem, disk, records, backup, used, acked, harm>>,
         up' \in BOOLEAN,
         sessions' \in [Sessions -> Session \cup {None}],
         \A s \in Sessions : sessions'[s] # None => Len(sessions'[s].handles) <= MaxHandles,
         state' \in Loaded \cup {None}, state' # None => Len(state'.refs) <= MaxRefs
  PROVE  TypeInv'
BY DEF TypeInv, TypeOK, IdsExist

\* One session changes.
LEMMA SessionFrame ==
  ASSUME TypeInv, NEW s \in Sessions, NEW v \in Session \cup {None},
         v # None => Len(v.handles) <= MaxHandles,
         sessions' = [sessions EXCEPT ![s] = v]
  PROVE  /\ sessions' \in [Sessions -> Session \cup {None}]
         /\ \A t \in Sessions : sessions'[t] # None => Len(sessions'[t].handles) <= MaxHandles
BY DEF TypeInv, TypeOK

\* The worker starts and dies, and time passes.
LEMMA TypeWorker ==
  ASSUME TypeInv, CreateRuntime \/ WorkerDies \/ Tick
  PROVE  TypeInv'
<1>1. CASE CreateRuntime
  BY <1>1 DEF CreateRuntime, TypeInv, TypeOK, IdsExist
<1>2. CASE WorkerDies
  <2>1. EmptyStorage \in Storage /\ EmptyStorage.index = {} /\ EmptyStorage.have = {}
    BY DEF EmptyStorage, Storage
  <2> HIDE DEF EmptyStorage
  <2>2. IdsExist'
    BY <1>2, <2>1 DEF WorkerDies, TypeInv, IdsExist
  <2>3. \A s \in Sessions : sessions'[s] = None
    BY <1>2 DEF WorkerDies
  <2>4. TypeOK'
    BY <1>2, <2>1, <2>3 DEF WorkerDies, TypeInv, TypeOK
  <2> QED
    BY <2>2, <2>4 DEF TypeInv
<1>3. CASE Tick
  <2>1. now' \in 0..MaxTime
    BY <1>3, BoundAssumption DEF Tick, TypeInv, TypeOK
  <2> QED
    BY <1>3, <2>1 DEF Tick, TypeInv, TypeOK, IdsExist
<1> QED
  BY <1>1, <1>2, <1>3

\* Both unlocks (finish_unlock).
LEMMA TypeUnlock ==
  ASSUME TypeInv, NEW s \in Sessions, UnlockPassphrase(s) \/ UnlockUserPresence(s)
  PROVE  TypeInv'
<1>1. PICK key \in Vaults, proof \in Int : FinishUnlock(s, key, proof)
  <2>1. mem.header # None => mem.header.key \in Vaults
    BY DEF TypeInv, TypeOK, Storage, Header
  <2>2. mem.presence # None => mem.presence.key \in Vaults
    BY DEF TypeInv, TypeOK, Storage, Header
  <2>3. now \in Int /\ 0 - StepUpTtl - 1 \in Int
    BY TtlAssumption, BoundAssumption DEF TypeInv, TypeOK
  <2> QED
    BY <2>1, <2>2, <2>3 DEF UnlockPassphrase, UnlockUserPresence
<1> DEFINE v == [kind |-> "normal", expires |-> now + NormalTtl, proved |-> proof,
                 key |-> key, known |-> Loads(mem, key), handles |-> <<>>,
                 gen |-> Generation]
<1>2. v \in Session /\ v.handles = <<>>
  <2>1. Generation \in Nat /\ now + NormalTtl \in Int
    BY TtlAssumption, BoundAssumption DEF TypeInv, TypeOK, Used, Generation
  <2>2. Loads(mem, key) \in BOOLEAN
    BY DEF Loads
  <2> QED
    BY <2>1, <2>2 DEF Session
<1>3. sessions' = [sessions EXCEPT ![s] = v]
  BY <1>1 DEF FinishUnlock
<1>4. Len(v.handles) <= MaxHandles
  BY <1>2, LimitAssumption
<1>5. state' \in Loaded \cup {None} /\ (state' # None => Len(state'.refs) <= MaxRefs)
  <2>1. CASE Loads(mem, key)
    BY <1>1, <2>1, LoadKeyvaultType, LimitAssumption DEF FinishUnlock
  <2>2. CASE ~Loads(mem, key)
    BY <1>1, <2>2 DEF FinishUnlock, TypeInv, TypeOK
  <2> QED
    BY <2>1, <2>2
<1>6. UNCHANGED <<up, now, mem, disk, records, backup, used, acked, harm>>
  BY <1>1 DEF FinishUnlock
<1> HIDE DEF v
<1> QED
  BY <1>2, <1>3, <1>4, <1>5, <1>6, SessionFrame, TypeFrame DEF TypeInv, TypeOK

\* A request that changes the fields of a session which is there.
LEMMA SessionFields ==
  ASSUME TypeInv, NEW s \in Sessions, sessions[s] # None
  PROVE  /\ sessions[s] \in Session
         /\ sessions[s].kind \in {"normal", "stepUp"} /\ sessions[s].expires \in Int
         /\ sessions[s].proved \in Int /\ sessions[s].key \in Vaults
         /\ sessions[s].known \in BOOLEAN /\ sessions[s].handles \in Seq(Items)
         /\ sessions[s].gen \in Nat /\ Len(sessions[s].handles) <= MaxHandles
<1>1. sessions[s] \in Session
  BY DEF TypeInv, TypeOK
<1>2. Len(sessions[s].handles) <= MaxHandles
  BY DEF TypeInv, TypeOK
<1> QED
  BY <1>1, <1>2 DEF Session

\* Only the handles of one session change.
LEMMA HandlesFrame ==
  ASSUME TypeInv, NEW s \in Sessions, sessions[s] # None,
         NEW q \in Seq(Items), Len(q) <= MaxHandles,
         sessions' = [sessions EXCEPT ![s].handles = q]
  PROVE  /\ sessions' \in [Sessions -> Session \cup {None}]
         /\ \A t \in Sessions : sessions'[t] # None => Len(sessions'[t].handles) <= MaxHandles
<1> DEFINE v == [sessions[s] EXCEPT !.handles = q]
<1>1. sessions' = [sessions EXCEPT ![s] = v]
  OBVIOUS
<1>2. v \in Session /\ v.handles = q
  BY SessionFields DEF Session
<1> HIDE DEF v
<1> QED
  BY <1>1, <1>2, SessionFrame

\* Requests that change the lifetime of a session, or end it.
LEMMA TypeSession ==
  ASSUME TypeInv, NEW s \in Sessions,
         StepUp(s) \/ RenewSession(s) \/ Lock(s) \/ Expire(s)
  PROVE  TypeInv'
<1>0. sessions[s] # None
  BY DEF StepUp, RenewSession, Lock, Expire, Valid, Known
<1>1. CASE StepUp(s)
  <2> DEFINE v == [sessions[s] EXCEPT !.kind = "stepUp", !.expires = now + StepUpTtl,
                                      !.proved = now]
  <2>1. sessions' = [sessions EXCEPT ![s] = v]
    BY <1>1 DEF StepUp
  <2>2. now \in Int /\ now + StepUpTtl \in Int
    BY TtlAssumption, BoundAssumption DEF TypeInv, TypeOK
  <2>3. v \in Session /\ v.handles = sessions[s].handles
    BY <1>0, <2>2, SessionFields DEF Session
  <2> HIDE DEF v
  <2>4. Len(v.handles) <= MaxHandles
    BY <1>0, <2>3, SessionFields
  <2> QED
    BY <1>1, <2>1, <2>3, <2>4, SessionFrame, TypeFrame DEF StepUp, TypeInv, TypeOK
<1>2. CASE RenewSession(s)
  <2> DEFINE v == [sessions[s] EXCEPT !.expires = now + NormalTtl]
  <2>1. sessions' = [sessions EXCEPT ![s] = v]
    BY <1>2 DEF RenewSession
  <2>2. now + NormalTtl \in Int
    BY TtlAssumption, BoundAssumption DEF TypeInv, TypeOK
  <2>3. v \in Session /\ v.handles = sessions[s].handles
    BY <1>0, <2>2, SessionFields DEF Session
  <2> HIDE DEF v
  <2>4. Len(v.handles) <= MaxHandles
    BY <1>0, <2>3, SessionFields
  <2> QED
    BY <1>2, <2>1, <2>3, <2>4, SessionFrame, TypeFrame DEF RenewSession, TypeInv, TypeOK
<1>3. CASE Lock(s) \/ Expire(s)
  <2>1. /\ sessions' = [sessions EXCEPT ![s] = None] /\ state' = None
        /\ UNCHANGED <<up, now, mem, disk, records, backup, used, acked, harm>>
    BY <1>3 DEF Lock, Expire
  <2> QED
    BY <2>1, SessionFrame, TypeFrame DEF TypeInv, TypeOK
<1> QED
  BY <1>1, <1>2, <1>3

\* The scope key is one of the items a vault stores.
LEMMA ItemsOf ==
  /\ <<"scope", 0>> \in Items /\ <<"master", 0>> \in Items
  /\ <<"user", 0>> \in Items /\ <<"device", 0>> \in Items
  /\ \A g \in Grants : <<"resource", g>> \in Items
BY DEF Items

\* How a request may change the handles of its session.
LEMMA HandlesMove ==
  ASSUME TypeInv, NEW s \in Sessions,
         \/ OpenScope(s)
         \/ \E i \in 1..MaxHandles : UseHandle(s, i) \/ CloseHandle(s, i)
         \/ \E i \in 1..MaxHandles, g \in Grants, r \in Refs, opens \in BOOLEAN :
              OpenResource(s, i, g, r, opens)
  PROVE  /\ sessions[s] # None
         /\ \E h \in Seq(Items) : /\ Len(h) <= MaxHandles
                                  /\ sessions' = [sessions EXCEPT ![s].handles = h]
<1>0. sessions[s] # None
  BY DEF OpenScope, UseHandle, CloseHandle, OpenResource, Valid, Known
<1> DEFINE q == sessions[s].handles
           Moved(h) == /\ h \in Seq(Items) /\ Len(h) <= MaxHandles
                       /\ sessions' = [sessions EXCEPT ![s].handles = h]
<1>1. q \in Seq(Items) /\ Len(q) <= MaxHandles /\ Len(q) \in Nat
  BY <1>0, SessionFields
<1>2. CASE OpenScope(s)
  <2>1. sessions' = [sessions EXCEPT ![s].handles = InsertHandle(q, <<"scope", 0>>)]
    BY <1>2 DEF OpenScope
  <2>2. Moved(InsertHandle(q, <<"scope", 0>>))
    BY <1>1, <2>1, InsertHandleType, ItemsOf
  <2> QED
    BY <1>0, <2>2
<1>3. ASSUME NEW i \in 1..MaxHandles, UseHandle(s, i) PROVE \E h : Moved(h)
  <2>1. sessions' = [sessions EXCEPT ![s].handles = Touch(q, i)] /\ i \in DOMAIN q
    BY <1>3 DEF UseHandle
  <2> QED
    BY <1>1, <2>1, TouchType
<1>4. ASSUME NEW i \in 1..MaxHandles, CloseHandle(s, i) PROVE \E h : Moved(h)
  <2>1. sessions' = [sessions EXCEPT ![s].handles = RemoveAt(q, i)] /\ i \in DOMAIN q
    BY <1>4 DEF CloseHandle
  <2>2. RemoveAt(q, i) \in Seq(Items) /\ Len(RemoveAt(q, i)) <= MaxHandles
    BY <1>1, <2>1, RemoveAtType, LimitAssumption
  <2> QED
    BY <2>1, <2>2
<1>5. ASSUME NEW i \in 1..MaxHandles, NEW g \in Grants, NEW r \in Refs, NEW opens \in BOOLEAN,
             OpenResource(s, i, g, r, opens)
      PROVE  \E h : Moved(h)
  <2> DEFINE t == Touch(q, i)
  <2>1. i \in DOMAIN q
    BY <1>5 DEF OpenResource
  <2>2. t \in Seq(Items) /\ Len(t) <= MaxHandles
    BY <1>1, <2>1, TouchType
  <2>3. \/ sessions' = [sessions EXCEPT ![s].handles = t]
        \/ sessions' = [sessions EXCEPT ![s].handles = InsertHandle(t, <<"resource", g>>)]
    BY <1>5 DEF OpenResource
  <2> HIDE DEF t
  <2>4. /\ InsertHandle(t, <<"resource", g>>) \in Seq(Items)
        /\ Len(InsertHandle(t, <<"resource", g>>)) <= MaxHandles
    BY <2>2, InsertHandleType, ItemsOf
  <2> QED
    BY <2>2, <2>3, <2>4
<1> QED
  BY <1>0, <1>2, <1>3, <1>4, <1>5

\* Requests that change a session's handles and nothing else.
LEMMA TypeHandles ==
  ASSUME TypeInv, NEW s \in Sessions,
         OpenScope(s) \/ \E i \in 1..MaxHandles : UseHandle(s, i) \/ CloseHandle(s, i)
  PROVE  TypeInv'
<1>1. PICK h \in Seq(Items) : /\ Len(h) <= MaxHandles
                              /\ sessions' = [sessions EXCEPT ![s].handles = h]
  BY HandlesMove
<1>2. sessions[s] # None
  BY HandlesMove
<1>3. UNCHANGED <<up, now, state, mem, disk, records, backup, used, acked, harm>>
  BY DEF OpenScope, UseHandle, CloseHandle
<1> QED
  BY <1>1, <1>2, <1>3, HandlesFrame, TypeFrame DEF TypeInv, TypeOK

\* A request that writes: what it must give for the types to hold after it.
LEMMA TypeWrites ==
  ASSUME TypeInv, NEW w \in Write,
         mem' = Put(mem, w), disk' \in {disk, Put(disk, w)},
         records' \in Seq(Record), Len(records) <= Len(records'), Len(records') <= MaxRecords,
         w.index # Keep => w.index \subseteq 1..Len(records'), w.recs \subseteq 1..Len(records'),
         used' \in Used, acked' \subseteq RecordIds, harm' \subseteq Harms,
         UNCHANGED <<up, now, backup>>,
         sessions' \in [Sessions -> Session \cup {None}],
         \A t \in Sessions : sessions'[t] # None => Len(sessions'[t].handles) <= MaxHandles,
         state' \in Loaded \cup {None}, state' # None => Len(state'.refs) <= MaxRefs
  PROVE  TypeInv'
<1> DEFINE n == Len(records')
<1>1. n \in Nat /\ Len(records) \in Nat /\ 1..Len(records) \subseteq 1..n
  BY DEF TypeInv, TypeOK
<1>2. /\ mem \in Storage /\ disk \in Storage
      /\ mem.index \cup mem.have \subseteq 1..Len(records)
      /\ disk.index \cup disk.have \subseteq 1..Len(records)
      /\ backup # None => backup.recs \subseteq 1..Len(records)
  BY DEF TypeInv, TypeOK, IdsExist
<1> HIDE DEF n
<1>3. mem' \in Storage /\ mem'.index \cup mem'.have \subseteq 1..n
  <2>1. Put(mem, w).index \cup Put(mem, w).have \subseteq 1..n
    BY <1>1, <1>2, PutIds DEF n
  <2> QED
    BY <2>1, <1>2, PutType
<1>4. disk' \in Storage /\ disk'.index \cup disk'.have \subseteq 1..n
  <2>1. Put(disk, w).index \cup Put(disk, w).have \subseteq 1..n
    BY <1>1, <1>2, PutIds DEF n
  <2>2. Put(disk, w) \in Storage
    BY <1>2, PutType
  <2>3. disk.index \cup disk.have \subseteq 1..n
    BY <1>1, <1>2
  <2> QED
    BY <2>1, <2>2, <2>3, <1>2
<1>5. backup' # None => backup'.recs \subseteq 1..n
  BY <1>1, <1>2
<1>6. IdsExist'
  BY <1>3, <1>4, <1>5 DEF IdsExist, n
<1>7. TypeOK'
  BY <1>3, <1>4 DEF TypeInv, TypeOK
<1> QED
  BY <1>6, <1>7 DEF TypeInv

\* A request that writes entries without making a record.
LEMMA TypeEntries ==
  ASSUME TypeInv, NEW w \in Write,
         mem' = Put(mem, w), disk' \in {disk, Put(disk, w)},
         w.index # Keep => w.index \subseteq 1..Len(records), w.recs \subseteq 1..Len(records),
         used' \in Used, acked' \subseteq RecordIds, harm' \subseteq Harms,
         UNCHANGED <<up, now, sessions, state, records, backup>>
  PROVE  TypeInv'
<1>1. /\ records' \in Seq(Record) /\ Len(records') <= MaxRecords
      /\ Len(records) <= Len(records')
  BY DEF TypeInv, TypeOK, IdsExist
<1>2. sessions' \in [Sessions -> Session \cup {None}]
  BY DEF TypeInv, TypeOK
<1>3. \A t \in Sessions : sessions'[t] # None => Len(sessions'[t].handles) <= MaxHandles
  BY DEF TypeInv, TypeOK
<1>4. state' \in Loaded \cup {None} /\ (state' # None => Len(state'.refs) <= MaxRefs)
  BY DEF TypeInv, TypeOK
<1>5. w.index # Keep => w.index \subseteq 1..Len(records')
  OBVIOUS
<1>6. w.recs \subseteq 1..Len(records') /\ UNCHANGED <<up, now, backup>>
  OBVIOUS
<1> QED
  BY <1>1, <1>2, <1>3, <1>4, <1>5, <1>6, TypeWrites, Zenon

\* A header of a vault that was made, and the entries made of one.
LEMMA WriteTypes ==
  /\ NoWrite \in Write /\ NoWrite.header = Keep /\ NoWrite.presence = Keep
  /\ NoWrite.index = Keep /\ NoWrite.recs = {}
  /\ \A h \in Header \cup {None} : [NoWrite EXCEPT !.presence = h] \in Write
  /\ \A h \in Header : /\ [NoWrite EXCEPT !.header = h] \in Write
                       /\ [NoWrite EXCEPT !.header = h, !.index = {}] \in Write
  /\ \A x, r \in SUBSET RecordIds : [NoWrite EXCEPT !.recs = r, !.index = x] \in Write
BY DEF NoWrite, Write

\* A write that fails is counted.
LEMMA FaultType ==
  ASSUME NEW u \in Used, u.faults < MaxFaults
  PROVE  [u EXCEPT !.faults = @ + 1] \in Used
<1>1. u.faults + 1 \in 0..MaxFaults
  BY BoundAssumption DEF Used
<1> QED
  BY <1>1 DEF Used

\* create_new_vault.
LEMMA TypeCreateVault ==
  ASSUME TypeInv, CreateVault
  PROVE  TypeInv'
<1> DEFINE v == used.vaults + 1
           k == used.kdfs + 1
           h == [vault |-> v, key |-> v, kdf |-> k]
           w == [NoWrite EXCEPT !.header = h, !.index = {}]
           more == [used EXCEPT !.vaults = v, !.kdfs = k]
<1>1. mem' = Put(mem, w) /\ disk' \in {disk, Put(disk, w)}
  BY DEF CreateVault
<1>2. used \in Used /\ used.vaults < MaxVaults /\ used.kdfs < MaxKdfs
  BY DEF CreateVault, TypeInv, TypeOK
<1>3. h \in Header
  BY <1>2, BoundAssumption DEF Header, Used, Vaults
<1>4. w \in Write /\ w.index = {} /\ w.recs = {}
  <2> HIDE DEF h
  <2>1. w \in Write
    BY <1>3, WriteTypes
  <2> QED
    BY <2>1, WriteTypes DEF NoWrite
<1>5. more \in Used /\ more.faults = used.faults
  <2>1. v \in 0..MaxVaults /\ k \in 0..MaxKdfs
    BY <1>2, BoundAssumption DEF Used
  <2> HIDE DEF v, k
  <2> QED
    BY <1>2, <2>1 DEF Used
<1>6. used' \in Used
  <2>1. used' = more \/ (used.faults < MaxFaults /\ used' = [more EXCEPT !.faults = @ + 1])
    BY DEF CreateVault
  <2> HIDE DEF more
  <2> QED
    BY <1>5, <2>1, FaultType
<1>7. acked' \subseteq RecordIds /\ harm' \subseteq Harms
  BY DEF CreateVault, TypeInv, TypeOK, Harms
<1>8. UNCHANGED <<up, now, sessions, state, records, backup>>
  BY DEF CreateVault
<1> HIDE DEF w
<1>9. /\ w.index # Keep => w.index \subseteq 1..Len(records)
      /\ w.recs \subseteq 1..Len(records)
  BY <1>4
<1> QED
  BY <1>1, <1>4, <1>6, <1>7, <1>8, <1>9, TypeEntries, Zenon


\* The vault requests: export, import, passphrase, user presence.
LEMMA TypeVault ==
  ASSUME TypeInv, NEW s \in Sessions,
         \/ ExportKeyvault(s) \/ ImportKeyvault(s) \/ ChangePassphrase(s)
         \/ EnableUserPresence(s) \/ DisableUserPresence(s)
  PROVE  TypeInv'
<1>0. /\ sessions[s] # None /\ used \in Used /\ mem \in Storage
      /\ acked \subseteq RecordIds /\ harm \subseteq Harms
  BY DEF ExportKeyvault, ImportKeyvault, ChangePassphrase, EnableUserPresence,
         DisableUserPresence, SteppedUp, Valid, Known, TypeInv, TypeOK
<1>a. mem.header # None => /\ mem.header \in Header /\ mem.header.vault \in Vaults
                           /\ mem.header.kdf \in 1..MaxKdfs
  BY <1>0 DEF Storage, Header
<1>b. sessions[s].key \in Vaults
  BY <1>0, SessionFields
<1>c. SwapHarm(s) \in SUBSET Harms
  BY DEF SwapHarm, Harms
<1>1. CASE ExportKeyvault(s)
  <2>1. Containers(mem) \subseteq 1..Len(records) /\ Containers(mem) \subseteq RecordIds
    BY ContainersType
  <2>2. backup' \in Backup /\ backup'.recs \subseteq 1..Len(records)
    BY <1>1, <1>a, <2>1 DEF ExportKeyvault, Backup
  <2>3. UNCHANGED <<up, now, sessions, state, mem, disk, records, used, acked, harm>>
    BY <1>1 DEF ExportKeyvault
  <2> QED
    BY <2>2, <2>3 DEF TypeInv, TypeOK, IdsExist
<1>2. CASE ImportKeyvault(s)
  <2> DEFINE w == [header |-> backup.header, presence |-> Keep,
                   index |-> backup.recs, recs |-> backup.recs]
             more == [used EXCEPT !.imports = @ + 1]
  <2>1. backup \in Backup /\ backup.recs \subseteq 1..Len(records)
    BY <1>2 DEF ImportKeyvault, TypeInv, TypeOK, IdsExist
  <2>2. w \in Write /\ w.index = backup.recs /\ w.recs = backup.recs
    BY <2>1 DEF Write, Backup
  <2>3. mem' = Put(mem, w) /\ disk' \in {disk, Put(disk, w)}
    BY <1>2 DEF ImportKeyvault
  <2>4. more \in Used /\ more.faults = used.faults
    <3>1. used.imports + 1 \in 0..MaxImports
      BY <1>0, <1>2, BoundAssumption DEF Used, ImportKeyvault
    <3> QED
      BY <1>0, <3>1 DEF Used
  <2>5. used' \in Used
    <3>1. used' = more \/ (used.faults < MaxFaults /\ used' = [more EXCEPT !.faults = @ + 1])
      BY <1>2 DEF ImportKeyvault
    <3> HIDE DEF more
    <3> QED
      BY <2>4, <3>1, FaultType
  <2>6. acked' \subseteq RecordIds /\ harm' \subseteq Harms
    BY <1>0, <1>2, <2>1 DEF ImportKeyvault, Harms, Backup
  <2>7. UNCHANGED <<up, now, sessions, state, records, backup>>
    BY <1>2 DEF ImportKeyvault
  <2> HIDE DEF w
  <2> QED
    BY <2>1, <2>2, <2>3, <2>5, <2>6, <2>7, TypeEntries
<1>3. CASE ChangePassphrase(s)
  <2> DEFINE h == [vault |-> mem.header.vault, key |-> sessions[s].key, kdf |-> used.kdfs + 1]
             w == [NoWrite EXCEPT !.header = h]
             more == [used EXCEPT !.kdfs = @ + 1]
  <2>1. h \in Header
    <3>1. used.kdfs + 1 \in 1..MaxKdfs
      BY <1>0, <1>3, BoundAssumption DEF ChangePassphrase, Used
    <3> QED
      BY <1>3, <1>a, <1>b, <3>1 DEF ChangePassphrase, Header
  <2>2. mem' = Put(mem, w) /\ disk' \in {disk, Put(disk, w)}
    BY <1>3 DEF ChangePassphrase
  <2>3. w \in Write /\ w.index = Keep /\ w.recs = {}
    <3> HIDE DEF h
    <3>1. w \in Write
      BY <2>1, WriteTypes
    <3> QED
      BY <3>1 DEF NoWrite
  <2>4. more \in Used /\ more.faults = used.faults
    <3>1. used.kdfs + 1 \in 0..MaxKdfs
      BY <1>0, <1>3, BoundAssumption DEF Used, ChangePassphrase
    <3> QED
      BY <1>0, <3>1 DEF Used
  <2>5. used' \in Used
    <3>1. used' = more \/ (used.faults < MaxFaults /\ used' = [more EXCEPT !.faults = @ + 1])
      BY <1>3 DEF ChangePassphrase
    <3> HIDE DEF more
    <3> QED
      BY <2>4, <3>1, FaultType
  <2>6. acked' \subseteq RecordIds /\ harm' \subseteq Harms
    BY <1>0, <1>3, <1>c DEF ChangePassphrase, Harms
  <2>7. UNCHANGED <<up, now, sessions, state, records, backup>>
    BY <1>3 DEF ChangePassphrase
  <2> HIDE DEF w
  <2>8. /\ w.index # Keep => w.index \subseteq 1..Len(records)
        /\ w.recs \subseteq 1..Len(records)
    BY <2>3
  <2> QED
    BY <2>2, <2>3, <2>5, <2>6, <2>7, <2>8, TypeEntries, Zenon
<1>4. CASE EnableUserPresence(s) \/ DisableUserPresence(s)
  <2>1. PICK h \in Header \cup {None}, hurt \in SUBSET Harms :
           /\ PutEntries([NoWrite EXCEPT !.presence = h], acked, hurt)
           /\ UNCHANGED <<up, now, sessions, state, records, backup>>
    <3>1. CASE EnableUserPresence(s)
      <4> DEFINE h == [vault |-> mem.header.vault, key |-> sessions[s].key,
                       kdf |-> mem.header.kdf]
      <4>1. h \in Header
        BY <1>a, <1>b, <3>1 DEF EnableUserPresence, Header
      <4> QED
        BY <1>c, <3>1, <4>1 DEF EnableUserPresence
    <3>2. CASE DisableUserPresence(s)
      BY <3>2 DEF DisableUserPresence
    <3> QED
      BY <1>4, <3>1, <3>2
  <2> DEFINE w == [NoWrite EXCEPT !.presence = h]
  <2>2. w \in Write /\ w.index = Keep /\ w.recs = {}
    <3>1. w \in Write
      BY WriteTypes
    <3> QED
      BY <3>1 DEF NoWrite
  <2>3. PutEntries(w, acked, hurt)
    BY <2>1
  <2> HIDE DEF w
  <2>4. /\ mem' = Put(mem, w) /\ disk' \in {disk, Put(disk, w)} /\ used' \in Used
        /\ acked' \in {acked, acked} /\ harm' \subseteq Harms
    BY <1>0, <2>2, <2>3, PutEntriesType DEF TypeInv
  <2>5. /\ w.index # Keep => w.index \subseteq 1..Len(records)
        /\ w.recs \subseteq 1..Len(records)
    BY <2>2
  <2>6. acked' \subseteq RecordIds
    BY <1>0, <2>4
  <2> QED
    BY <2>1, <2>2, <2>4, <2>5, <2>6, TypeEntries, Zenon
<1> QED
  BY <1>1, <1>2, <1>3, <1>4

\* A container is a record (append_record).
LEMMA ContainerType ==
  ASSUME TypeInv, NEW s \in Sessions, sessions[s] # None, mem.header # None, NEW item \in Items,
         NEW seq \in RecordIds, NEW prev \in RecordIds \cup {0}
  PROVE  Container(s, item, seq, prev) \in Record
<1>1. mem.header.vault \in Vaults
  BY DEF TypeInv, TypeOK, Storage, Header
<1>2. sessions[s].key \in Vaults
  BY SessionFields
<1> QED
  BY <1>1, <1>2 DEF Container, Record


\* Storing records and their index (persist_record_container).
LEMMA TypePersist ==
  ASSUME TypeInv, NEW ids \in SUBSET RecordIds, NEW hurt \in SUBSET Harms,
         records' \in Seq(Record), Len(records) <= Len(records'), Len(records') <= MaxRecords,
         ids \subseteq 1..Len(records'),
         PutEntries([NoWrite EXCEPT !.recs = ids, !.index = mem.index \cup ids],
                    acked \cup ids, hurt),
         UNCHANGED <<up, now, backup>>,
         sessions' \in [Sessions -> Session \cup {None}],
         \A t \in Sessions : sessions'[t] # None => Len(sessions'[t].handles) <= MaxHandles,
         state' \in Loaded \cup {None}, state' # None => Len(state'.refs) <= MaxRefs
  PROVE  TypeInv'
<1> DEFINE x == mem.index \cup ids
           w == [NoWrite EXCEPT !.recs = ids, !.index = x]
<1>1. mem.index \in SUBSET RecordIds /\ mem.index \subseteq 1..Len(records)
  BY DEF TypeInv, TypeOK, Storage, IdsExist
<1>2. 1..Len(records) \subseteq 1..Len(records')
  <2>1. Len(records) \in Nat /\ Len(records') \in Nat
    BY DEF TypeInv, TypeOK
  <2> QED
    BY <2>1
<1>3. x \in SUBSET RecordIds /\ x \subseteq 1..Len(records')
  BY <1>1, <1>2
<1>4. PutEntries(w, acked \cup ids, hurt)
  OBVIOUS
<1> HIDE DEF x
<1>5. w \in Write /\ w.index = x /\ w.recs = ids
  <2>1. w \in Write
    BY <1>3, WriteTypes
  <2> QED
    BY <2>1 DEF NoWrite
<1> HIDE DEF w
<1>6. acked \cup ids \in SUBSET RecordIds /\ acked \subseteq RecordIds
  BY DEF TypeInv, TypeOK
<1>7. /\ mem' = Put(mem, w) /\ disk' \in {disk, Put(disk, w)} /\ used' \in Used
      /\ acked' \in {acked, acked \cup ids} /\ harm' \subseteq Harms
  BY <1>4, <1>5, <1>6, PutEntriesType DEF TypeInv
<1>8. acked' \subseteq RecordIds
  BY <1>6, <1>7
<1>9. (w.index # Keep => w.index \subseteq 1..Len(records')) /\ w.recs \subseteq 1..Len(records')
  BY <1>3, <1>5
<1> QED
  BY <1>5, <1>7, <1>8, <1>9, TypeWrites, Zenon

\* What an append may harm is one of the harms.
LEMMA AppendHarmType ==
  ASSUME NEW s \in Sessions
  PROVE  AppendHarm(s) \in SUBSET Harms
BY DEF AppendHarm, Harms

\* One record is appended to the loaded vault (append_record).
LEMMA TypeAppend ==
  ASSUME TypeInv, Opened, NEW s \in Sessions, sessions[s] # None, state # None,
         NEW item \in Items, NEW st \in Loaded, st.head = state.head, Len(st.refs) <= MaxRefs,
         Append1(s, item, st), UNCHANGED <<up, now, backup>>,
         sessions' \in [Sessions -> Session \cup {None}],
         \A t \in Sessions : sessions'[t] # None => Len(sessions'[t].handles) <= MaxHandles
  PROVE  TypeInv'
<1> DEFINE id == Len(records) + 1
           c == Container(s, item, state.head + 1, state.hash)
<1>1. /\ records \in Seq(Record) /\ Len(records) \in Nat /\ Len(records) < MaxRecords
      /\ state \in Loaded /\ state.head < MaxRecords
  BY DEF TypeInv, TypeOK, Append1
<1>2. state.head + 1 \in RecordIds /\ state.hash \in RecordIds \cup {0} /\ id \in RecordIds
  BY <1>1, BoundAssumption DEF Loaded, RecordIds
<1>3. c \in Record
  BY <1>2, ContainerType DEF Opened
<1>4. records' = Append(records, c)
  BY DEF Append1
<1> HIDE DEF c
<1>5. records' \in Seq(Record) /\ Len(records') = id
  BY <1>1, <1>3, <1>4
<1>6. state' = [st EXCEPT !.head = @ + 1, !.hash = id, !.keys = @ \cup {item}]
  BY DEF Append1
<1>7. PutEntries([NoWrite EXCEPT !.recs = {id}, !.index = mem.index \cup {id}],
                 acked \cup {id}, AppendHarm(s))
  BY DEF Append1
<1>8. /\ Len(records) <= Len(records') /\ Len(records') <= MaxRecords
      /\ {id} \subseteq 1..Len(records') /\ {id} \in SUBSET RecordIds
  BY <1>1, <1>2, <1>5, BoundAssumption
<1> HIDE DEF id
<1>9. state' \in Loaded /\ state'.refs = st.refs
  <2>1. st.head + 1 \in RecordIds
    BY <1>2
  <2>2. st.keys \cup {item} \in SUBSET Items
    BY DEF Loaded
  <2> QED
    BY <1>2, <1>6, <2>1, <2>2 DEF Loaded
<1>10. state' \in Loaded \cup {None} /\ (state' # None => Len(state'.refs) <= MaxRefs)
  BY <1>9
<1> QED
  BY <1>5, <1>7, <1>8, <1>10, AppendHarmType, TypePersist

\* The loaded vault's parts.
LEMMA StateFields ==
  ASSUME TypeInv, state # None
  PROVE  /\ state \in Loaded /\ Len(state.refs) <= MaxRefs
         /\ state.head \in RecordIds \cup {0} /\ state.hash \in RecordIds \cup {0}
         /\ state.refs \in Seq(Refs) /\ state.keys \in SUBSET Items
         /\ state.gen \in Nat /\ state.hollow \in BOOLEAN
BY DEF TypeInv, TypeOK, Loaded

\* The requests that append one record for a session's own use.
LEMMA TypeStore ==
  ASSUME TypeInv, Opened, NEW s \in Sessions,
         StoreAppMasterKey(s) \/ \E r \in Refs : IngestKeyEnvelope(s, r)
  PROVE  TypeInv'
<1>1. PICK item \in Items : /\ Append1(s, item, state)
                            /\ UNCHANGED <<up, now, sessions, backup>>
  BY ItemsOf DEF StoreAppMasterKey, IngestKeyEnvelope
<1>2. sessions[s] # None /\ state # None
  BY DEF StoreAppMasterKey, IngestKeyEnvelope, Valid, Known, Trusts
<1>3. /\ sessions' \in [Sessions -> Session \cup {None}]
      /\ \A t \in Sessions : sessions'[t] # None => Len(sessions'[t].handles) <= MaxHandles
  BY <1>1 DEF TypeInv, TypeOK
<1>4. state \in Loaded /\ Len(state.refs) <= MaxRefs
  BY <1>2, StateFields
<1> QED
  BY <1>1, <1>2, <1>3, <1>4, TypeAppend

\* init_identity appends two.
LEMMA TypeInitIdentity ==
  ASSUME TypeInv, Opened, NEW s \in Sessions, InitIdentity(s)
  PROVE  TypeInv'
<1> DEFINE a == Len(records) + 1
           b == Len(records) + 2
           n == state.head
           c == Container(s, <<"user", 0>>, n + 1, state.hash)
           d == Container(s, <<"device", 0>>, n + 2, a)
<1>1. /\ records \in Seq(Record) /\ Len(records) \in Nat /\ Len(records) + 1 < MaxRecords
      /\ state \in Loaded /\ n + 1 < MaxRecords /\ sessions[s] # None /\ state # None
      /\ mem.header # None
  BY DEF TypeInv, TypeOK, InitIdentity, Valid, Known
<1>2. /\ n \in Nat /\ n + 1 \in RecordIds /\ n + 2 \in RecordIds /\ a \in RecordIds
      /\ b \in RecordIds /\ state.hash \in RecordIds \cup {0}
  BY <1>1, BoundAssumption DEF Loaded, RecordIds
<1>3. c \in Record /\ d \in Record
  <2>1. c \in Record
    BY <1>1, <1>2, ContainerType, ItemsOf
  <2>2. d \in Record
    BY <1>1, <1>2, ContainerType, ItemsOf
  <2> QED
    BY <2>1, <2>2
<1>4. records' = records \o <<c, d>>
  BY DEF InitIdentity
<1> HIDE DEF c, d
<1>5. records' \in Seq(Record) /\ Len(records') = Len(records) + 2
  BY <1>1, <1>3, <1>4
<1>6. state' = [state EXCEPT !.head = n + 2, !.hash = b,
                  !.keys = @ \cup {<<"user", 0>>, <<"device", 0>>}]
  BY DEF InitIdentity
<1>7. PutEntries([NoWrite EXCEPT !.recs = {a, b}, !.index = mem.index \cup {a, b}],
                 acked \cup {a, b}, AppendHarm(s))
  BY DEF InitIdentity
<1>8. /\ Len(records) <= Len(records') /\ Len(records') <= MaxRecords
      /\ {a, b} \subseteq 1..Len(records') /\ {a, b} \in SUBSET RecordIds
  BY <1>1, <1>2, <1>5, BoundAssumption
<1>9. state' \in Loaded /\ state'.refs = state.refs
  <2> HIDE DEF n, a, b
  <2>1. state.keys \cup {<<"user", 0>>, <<"device", 0>>} \in SUBSET Items
    BY <1>1, ItemsOf DEF Loaded
  <2> QED
    BY <1>1, <1>2, <1>6, <2>1 DEF Loaded
<1>10. state' \in Loaded \cup {None} /\ (state' # None => Len(state'.refs) <= MaxRefs)
  BY <1>1, <1>9, StateFields
<1>11. /\ UNCHANGED <<up, now, backup>>
       /\ sessions' \in [Sessions -> Session \cup {None}]
       /\ \A t \in Sessions : sessions'[t] # None => Len(sessions'[t].handles) <= MaxHandles
  BY DEF InitIdentity, TypeInv, TypeOK
<1> HIDE DEF a, b
<1> QED
  BY <1>5, <1>7, <1>8, <1>10, <1>11, AppendHarmType, TypePersist

\* ingest_scope_state changes the roster only.
LEMMA TypeIngestScopeState ==
  ASSUME TypeInv, NEW s \in Sessions, NEW r \in Refs, NEW genuine \in BOOLEAN,
         NEW pinned \in BOOLEAN, IngestScopeState(s, r, genuine, pinned)
  PROVE  TypeInv'
<1> DEFINE base == IF state = None THEN HollowState ELSE state
<1>1. base \in Loaded /\ Len(base.refs) <= MaxRefs
  <2>1. HollowState \in Loaded /\ HollowState.refs = <<>>
    <3>1. Generation \in Nat
      BY DEF TypeInv, TypeOK, Used, Generation
    <3> QED
      BY <3>1 DEF HollowState, Loaded
  <2>2. state # None => state \in Loaded /\ Len(state.refs) <= MaxRefs
    BY StateFields
  <2> QED
    BY <2>1, <2>2, LimitAssumption
<1>2. state' = base \/ state' = [base EXCEPT !.signer = TRUE, !.refs = InsertRef(@, r)]
  BY DEF IngestScopeState
<1> HIDE DEF base
<1>3. base.refs \in Seq(Refs)
  BY <1>1 DEF Loaded
<1>4. InsertRef(base.refs, r) \in Seq(Refs) /\ Len(InsertRef(base.refs, r)) <= MaxRefs
  BY <1>1, <1>3, InsertRefType
<1>5. state' \in Loaded /\ Len(state'.refs) <= MaxRefs
  BY <1>1, <1>2, <1>4 DEF Loaded
<1>6. /\ UNCHANGED <<up, now, sessions, mem, disk, records, backup, used, acked, harm>>
      /\ sessions' \in [Sessions -> Session \cup {None}]
      /\ \A t \in Sessions : sessions'[t] # None => Len(sessions'[t].handles) <= MaxHandles
      /\ up' \in BOOLEAN
  BY DEF IngestScopeState, TypeInv, TypeOK
<1> QED
  BY <1>5, <1>6, TypeFrame


\* open_resource moves the chain on and, when the key unwraps, appends it.
LEMMA TypeOpenResource ==
  ASSUME TypeInv, Opened, NEW s \in Sessions, NEW i \in 1..MaxHandles, NEW g \in Grants,
         NEW r \in Refs, NEW opens \in BOOLEAN, OpenResource(s, i, g, r, opens)
  PROVE  TypeInv'
<1> DEFINE u == [state EXCEPT !.chain = g]
<1>1. sessions[s] # None /\ state # None /\ UNCHANGED <<up, now, backup>> /\ up' \in BOOLEAN
  BY DEF OpenResource, Valid, Known, Trusts, TypeInv, TypeOK
<1>2. /\ sessions' \in [Sessions -> Session \cup {None}]
      /\ \A z \in Sessions : sessions'[z] # None => Len(sessions'[z].handles) <= MaxHandles
  BY HandlesMove, HandlesFrame
<1>3. state \in Loaded /\ Len(state.refs) <= MaxRefs
  BY <1>1, StateFields
<1>4. u \in Loaded /\ u.head = state.head /\ u.refs = state.refs
  BY <1>3 DEF Loaded
<1>5. Len(u.refs) <= MaxRefs
  BY <1>3, <1>4
<1>6. CASE opens
  <2>1. Append1(s, <<"resource", g>>, u)
    BY <1>6 DEF OpenResource
  <2>2. <<"resource", g>> \in Items
    BY ItemsOf
  <2> HIDE DEF u
  <2> QED
    BY <1>1, <1>2, <1>4, <1>5, <2>1, <2>2, TypeAppend
<1>7. CASE ~opens
  <2>1. state' = u /\ UNCHANGED <<mem, disk, records, used, acked, harm>>
    BY <1>7 DEF OpenResource
  <2> HIDE DEF u
  <2> QED
    BY <1>1, <1>2, <1>4, <1>5, <2>1, TypeFrame
<1> QED
  BY <1>6, <1>7

\* Every step keeps the types.
LEMMA TypeNext ==
  ASSUME TypeInv, Opened, [Next]_vars
  PROVE  TypeInv'
<1>1. CASE UNCHANGED vars
  BY <1>1 DEF vars, TypeInv, TypeOK, IdsExist
<1>2. CASE CreateRuntime \/ WorkerDies \/ Tick
  BY <1>2, TypeWorker
<1>3. CASE CreateVault
  BY <1>3, TypeCreateVault
<1>4. ASSUME NEW s \in Sessions, SessionRequest(s) PROVE TypeInv'
  BY <1>4, TypeUnlock, TypeSession DEF SessionRequest
<1>5. ASSUME NEW s \in Sessions, VaultRequest(s) PROVE TypeInv'
  BY <1>5, TypeVault, TypeStore, TypeInitIdentity DEF VaultRequest
<1>6. ASSUME NEW s \in Sessions, KeyRequest(s) PROVE TypeInv'
  BY <1>6, TypeIngestScopeState, TypeStore, TypeHandles, TypeOpenResource DEF KeyRequest
<1> QED
  BY <1>1, <1>2, <1>3, <1>4, <1>5, <1>6 DEF Next, Request

-----------------------------------------------------------------------------
(* Sessions and the storage under them *)

\* What Put leaves of each entry.
LEMMA PutParts ==
  ASSUME NEW st, NEW w
  PROVE  /\ Put(st, w).header = IF w.header = Keep THEN st.header ELSE w.header
         /\ Put(st, w).presence = IF w.presence = Keep THEN st.presence ELSE w.presence
         /\ Put(st, w).index = IF w.index = Keep THEN st.index ELSE w.index
         /\ Put(st, w).have = st.have \cup w.recs
BY DEF Put

\* No request writes the storage but those of VaultRequest and the three appends.
LEMMA SessionRequestsAreQuiet ==
  ASSUME NEW s \in Sessions,
         \/ SessionRequest(s) \/ OpenScope(s)
         \/ \E i \in 1..MaxHandles : UseHandle(s, i) \/ CloseHandle(s, i)
         \/ \E r \in Refs, genuine, pinned \in BOOLEAN :
              IngestScopeState(s, r, genuine, pinned)
  PROVE  UNCHANGED <<up, now, mem, disk, records, backup, used, acked, harm>>
<1>1. CASE SessionRequest(s)
  BY <1>1 DEF SessionRequest, UnlockPassphrase, UnlockUserPresence, FinishUnlock, StepUp,
              RenewSession, Lock, Expire
<1>2. CASE ~SessionRequest(s)
  BY <1>2 DEF OpenScope, UseHandle, CloseHandle, IngestScopeState
<1> QED
  BY <1>1, <1>2

\* The requests that append records to the vault.
Appends(s) ==
  \/ StoreAppMasterKey(s) \/ InitIdentity(s)
  \/ \E r \in Refs : IngestKeyEnvelope(s, r)
  \/ \E i \in 1..MaxHandles, g \in Grants, r \in Refs : OpenResource(s, i, g, r, TRUE)

\* The appends put records and an index and nothing else.
LEMMA AppendsPut ==
  ASSUME TypeInv, NEW s \in Sessions, Appends(s)
  PROVE  /\ \E ids \in SUBSET RecordIds :
              PutEntries([NoWrite EXCEPT !.recs = ids, !.index = mem.index \cup ids],
                         acked \cup ids, AppendHarm(s))
         /\ UNCHANGED <<up, now, backup>>
         /\ sessions[s] # None /\ state # None /\ up
<1>0. Len(records) \in Nat
  BY DEF TypeInv, TypeOK
<1>1. CASE InitIdentity(s)
  <2>1. {Len(records) + 1, Len(records) + 2} \in SUBSET RecordIds
    BY <1>0, <1>1, BoundAssumption DEF InitIdentity, RecordIds
  <2> QED
    BY <1>1, <2>1 DEF InitIdentity, Valid, Known
<1>2. CASE ~InitIdentity(s)
  <2>1. Len(records) < MaxRecords => {Len(records) + 1} \in SUBSET RecordIds
    BY <1>0, BoundAssumption DEF RecordIds
  <2>2. PICK item, st : Append1(s, item, st)
    BY <1>2 DEF Appends, StoreAppMasterKey, IngestKeyEnvelope, OpenResource
  <2>3. UNCHANGED <<up, now, backup>> /\ sessions[s] # None /\ state # None /\ up
    BY <1>2 DEF Appends, StoreAppMasterKey, IngestKeyEnvelope, OpenResource, Valid, Known, Trusts
  <2> QED
    BY <2>1, <2>2, <2>3 DEF Append1
<1> QED
  BY <1>1, <1>2

\* Every step, by what it does to the storage.
LEMMA Steps ==
  ASSUME [Next]_vars
  PROVE  \/ CreateRuntime \/ WorkerDies \/ CreateVault
         \/ UNCHANGED <<up, mem, disk, records, backup, used, acked, harm>>
         \/ \E s \in Sessions : \/ ExportKeyvault(s) \/ ImportKeyvault(s)
                                \/ ChangePassphrase(s) \/ EnableUserPresence(s)
                                \/ DisableUserPresence(s) \/ Appends(s)
<1>1. CASE UNCHANGED vars
  BY <1>1 DEF vars
<1>2. CASE Tick
  BY <1>2 DEF Tick
<1>3. ASSUME NEW s \in Sessions, KeyRequest(s), ~Appends(s)
      PROVE  UNCHANGED <<up, mem, disk, records, backup, used, acked, harm>>
  <2>1. CASE \E i \in 1..MaxHandles, g \in Grants, r \in Refs : OpenResource(s, i, g, r, FALSE)
    BY <2>1 DEF OpenResource
  <2>2. CASE ~(\E i \in 1..MaxHandles, g \in Grants, r \in Refs : OpenResource(s, i, g, r, FALSE))
    BY <1>3, <2>2, SessionRequestsAreQuiet DEF KeyRequest, Appends
  <2> QED
    BY <2>1, <2>2
<1>4. ASSUME NEW s \in Sessions, SessionRequest(s)
      PROVE  UNCHANGED <<up, mem, disk, records, backup, used, acked, harm>>
  BY <1>4, SessionRequestsAreQuiet
<1> QED
  BY <1>1, <1>2, <1>3, <1>4 DEF Next, Request, VaultRequest, Appends


\* A header is replaced, never removed, while the core runs.
LEMMA HeaderStays ==
  ASSUME TypeInv, mem.header # None, [Next]_vars, ~CreateRuntime, ~WorkerDies
  PROVE  mem'.header # None /\ up' = up
<1>0. mem.header \in Header
  BY DEF TypeInv, TypeOK, Storage
<1>1. CASE CreateVault
  <2> DEFINE v == used.vaults + 1
             k == used.kdfs + 1
             h == [vault |-> v, key |-> v, kdf |-> k]
  <2> DEFINE w == [NoWrite EXCEPT !.header = h, !.index = {}]
  <2>1. mem' = Put(mem, w) /\ up' = up
    BY <1>1 DEF CreateVault
  <2>2. h \in Header
    BY <1>1, BoundAssumption DEF CreateVault, Header, Vaults, TypeInv, TypeOK, Used
  <2> HIDE DEF h
  <2>3. mem'.header \in {mem.header, h}
    <3>1. w.header = h
      BY DEF NoWrite
    <3> HIDE DEF w
    <3> QED
      BY <2>1, <3>1, PutParts
  <2> QED
    BY <1>0, <2>1, <2>2, <2>3, ValueAssumption
<1>2. ASSUME NEW s \in Sessions, ExportKeyvault(s) PROVE mem' = mem /\ up' = up
  BY <1>2 DEF ExportKeyvault
<1>3. ASSUME NEW s \in Sessions, ImportKeyvault(s) PROVE mem'.header # None /\ up' = up
  <2>1. backup.header \in Header
    BY <1>3 DEF ImportKeyvault, TypeInv, TypeOK, Backup
  <2>2. mem'.header \in {mem.header, backup.header} /\ up' = up
    BY <1>3, PutParts DEF ImportKeyvault
  <2> QED
    BY <1>0, <2>1, <2>2, ValueAssumption
<1>4. ASSUME NEW s \in Sessions, ChangePassphrase(s) PROVE mem'.header # None /\ up' = up
  <2> DEFINE h == [vault |-> mem.header.vault, key |-> sessions[s].key, kdf |-> used.kdfs + 1]
  <2> DEFINE w == [NoWrite EXCEPT !.header = h]
  <2>1. mem' = Put(mem, w) /\ up' = up
    BY <1>4 DEF ChangePassphrase
  <2>2. h \in Header
    <3>1. sessions[s].key \in Vaults
      BY <1>4, SessionFields DEF ChangePassphrase, SteppedUp, Valid, Known
    <3>2. used.kdfs + 1 \in 1..MaxKdfs
      BY <1>4, BoundAssumption DEF ChangePassphrase, TypeInv, TypeOK, Used
    <3> QED
      BY <1>0, <3>1, <3>2 DEF Header
  <2> HIDE DEF h
  <2>3. mem'.header \in {mem.header, h}
    <3>1. w.header = h
      BY DEF NoWrite
    <3> HIDE DEF w
    <3> QED
      BY <2>1, <3>1, PutParts
  <2> QED
    BY <1>0, <2>1, <2>2, <2>3, ValueAssumption
<1>5. ASSUME NEW s \in Sessions, EnableUserPresence(s) \/ DisableUserPresence(s)
      PROVE  mem'.header = mem.header /\ up' = up
  <2>1. PICK h : mem' = Put(mem, [NoWrite EXCEPT !.presence = h]) /\ up' = up
    BY <1>5 DEF EnableUserPresence, DisableUserPresence, PutEntries
  <2> DEFINE w == [NoWrite EXCEPT !.presence = h]
  <2>2. w.header = Keep /\ mem' = Put(mem, w)
    BY <2>1 DEF NoWrite
  <2> HIDE DEF w
  <2> QED
    BY <2>1, <2>2, PutParts
<1>6. ASSUME NEW s \in Sessions, Appends(s) PROVE mem'.header = mem.header /\ up' = up
  <2>1. PICK ids : mem' = Put(mem, [NoWrite EXCEPT !.recs = ids, !.index = mem.index \cup ids])
    BY <1>6, AppendsPut DEF PutEntries
  <2>2. up' = up
    BY <1>6, AppendsPut
  <2> DEFINE w == [NoWrite EXCEPT !.recs = ids, !.index = mem.index \cup ids]
  <2>3. w.header = Keep /\ mem' = Put(mem, w)
    BY <2>1 DEF NoWrite
  <2> HIDE DEF w
  <2> QED
    BY <2>2, <2>3, PutParts
<1> QED
  BY <1>1, <1>2, <1>3, <1>4, <1>5, <1>6, Steps

\* A session begins with an unlock of the vault the core has, and no other step
\* makes one.
LEMMA SessionsBegin ==
  ASSUME TypeInv, [Next]_vars, NEW t \in Sessions, sessions[t] = None, sessions'[t] # None
  PROVE  /\ UnlockPassphrase(t) \/ UnlockUserPresence(t)
         /\ up /\ mem.header # None
<1>0. sessions \in [Sessions -> Session \cup {None}]
  BY DEF TypeInv, TypeOK
<1>1. ASSUME NEW s \in Sessions, sessions[s] # None, NEW v, sessions' = [sessions EXCEPT ![s] = v]
      PROVE  FALSE
  BY <1>0, <1>1
<1>2. ASSUME sessions' = sessions PROVE FALSE
  BY <1>2
<1>3. CASE UNCHANGED vars \/ CreateRuntime \/ Tick \/ CreateVault
  BY <1>2, <1>3 DEF vars, CreateRuntime, Tick, CreateVault
<1>4. CASE WorkerDies
  BY <1>4 DEF WorkerDies
<1>5. ASSUME NEW s \in Sessions, VaultRequest(s) PROVE FALSE
  BY <1>2, <1>5 DEF VaultRequest, ExportKeyvault, ImportKeyvault, ChangePassphrase,
     EnableUserPresence, DisableUserPresence, StoreAppMasterKey, InitIdentity
<1>6. ASSUME NEW s \in Sessions, KeyRequest(s) PROVE FALSE
  <2>1. \/ sessions' = sessions
        \/ sessions[s] # None /\ \E h : sessions' = [sessions EXCEPT ![s].handles = h]
    BY <1>6 DEF KeyRequest, IngestScopeState, IngestKeyEnvelope, OpenScope, UseHandle,
       CloseHandle, OpenResource, Valid, Known
  <2> QED
    BY <1>1, <1>2, <2>1
<1>7. ASSUME NEW s \in Sessions, StepUp(s) \/ RenewSession(s) \/ Lock(s) \/ Expire(s)
      PROVE  FALSE
  <2>1. sessions[s] # None /\ \E v : sessions' = [sessions EXCEPT ![s] = v]
    BY <1>7 DEF StepUp, RenewSession, Lock, Expire, Valid, Known
  <2> QED
    BY <1>1, <2>1
<1>8. ASSUME NEW s \in Sessions, UnlockPassphrase(s) \/ UnlockUserPresence(s)
      PROVE  s = t /\ up /\ mem.header # None
  <2>1. \E v : sessions' = [sessions EXCEPT ![s] = v]
    BY <1>8 DEF UnlockPassphrase, UnlockUserPresence, FinishUnlock
  <2>2. up /\ mem.header # None
    BY <1>8 DEF UnlockPassphrase, UnlockUserPresence
  <2> QED
    BY <1>0, <2>1, <2>2
<1> QED
  BY <1>3, <1>4, <1>5, <1>6, <1>7, <1>8 DEF Next, Request, SessionRequest


\* What a step leaves of a session: it ends, and the loaded vault goes with it; or it
\* keeps its key and its lifetime is the one its kind allows.
Lasts(t) ==
  /\ sessions'[t] \in Session
  /\ sessions'[t].key = sessions[t].key /\ sessions'[t].gen = sessions[t].gen
  /\ \/ /\ sessions'[t].kind = sessions[t].kind
        /\ sessions'[t].expires = sessions[t].expires
        /\ sessions'[t].proved = sessions[t].proved
     \/ sessions'[t].kind = "normal"
     \/ sessions'[t].expires = sessions'[t].proved + StepUpTtl

\* Each step ends a session or keeps it.
LEMMA SessionsLast ==
  ASSUME TypeInv, [Next]_vars, NEW t \in Sessions, sessions[t] # None
  PROVE  (sessions'[t] = None /\ state' = None) \/ Lasts(t)
<1>0. /\ sessions \in [Sessions -> Session \cup {None}] /\ sessions[t] \in Session
      /\ now \in Nat
  BY SessionFields DEF TypeInv, TypeOK
<1>1. ASSUME sessions'[t] = sessions[t] PROVE Lasts(t)
  BY <1>0, <1>1 DEF Lasts
<1>2. ASSUME NEW s \in Sessions, s # t, NEW v, sessions' = [sessions EXCEPT ![s] = v]
      PROVE  Lasts(t)
  BY <1>0, <1>1, <1>2
<1>3. CASE UNCHANGED vars \/ CreateRuntime \/ Tick \/ CreateVault
  BY <1>1, <1>3 DEF vars, CreateRuntime, Tick, CreateVault
<1>4. CASE WorkerDies
  BY <1>4 DEF WorkerDies
<1>5. ASSUME NEW s \in Sessions, VaultRequest(s) PROVE Lasts(t)
  <2>1. sessions' = sessions
    BY <1>5 DEF VaultRequest, ExportKeyvault, ImportKeyvault, ChangePassphrase,
       EnableUserPresence, DisableUserPresence, StoreAppMasterKey, InitIdentity
  <2> QED
    BY <1>1, <2>1
<1>6. ASSUME NEW s \in Sessions, KeyRequest(s) PROVE Lasts(t)
  <2>1. \/ sessions' = sessions
        \/ \E h \in Seq(Items) : sessions' = [sessions EXCEPT ![s].handles = h]
    <3>1. CASE \/ \E r \in Refs, genuine, pinned \in BOOLEAN :
                    IngestScopeState(s, r, genuine, pinned)
               \/ \E r \in Refs : IngestKeyEnvelope(s, r)
      BY <3>1 DEF IngestScopeState, IngestKeyEnvelope
    <3> QED
      BY <1>6, <3>1, HandlesMove DEF KeyRequest
  <2>2. CASE sessions' = sessions
    BY <1>1, <2>2
  <2>3. CASE s # t /\ \E h : sessions' = [sessions EXCEPT ![s].handles = h]
    BY <1>2, <2>3
  <2>4. ASSUME s = t, NEW h \in Seq(Items), sessions' = [sessions EXCEPT ![s].handles = h]
        PROVE  Lasts(t)
    <3>1. sessions'[t] = [sessions[t] EXCEPT !.handles = h]
      BY <1>0, <2>4
    <3> QED
      BY <1>0, <3>1 DEF Lasts, Session
  <2> QED
    BY <2>1, <2>2, <2>3, <2>4
<1>7. ASSUME NEW s \in Sessions, UnlockPassphrase(s) \/ UnlockUserPresence(s) PROVE Lasts(t)
  <2>1. Fresh(s) /\ \E v : sessions' = [sessions EXCEPT ![s] = v]
    BY <1>7 DEF UnlockPassphrase, UnlockUserPresence, FinishUnlock
  <2> QED
    BY <1>2, <2>1 DEF Fresh
<1>8. ASSUME NEW s \in Sessions, StepUp(s) PROVE Lasts(t)
  <2> DEFINE v == [sessions[s] EXCEPT !.kind = "stepUp", !.expires = now + StepUpTtl,
                                      !.proved = now]
  <2>1. sessions' = [sessions EXCEPT ![s] = v]
    BY <1>8 DEF StepUp
  <2>2. CASE s = t
    <3>1. now \in Int /\ now + StepUpTtl \in Int
      BY <1>0, TtlAssumption
    <3>2. sessions'[t] = v
      BY <1>0, <2>1, <2>2
    <3>3. /\ v \in Session /\ v.key = sessions[t].key /\ v.gen = sessions[t].gen
          /\ v.expires = now + StepUpTtl /\ v.proved = now
      BY <1>0, <2>2, <3>1 DEF Session
    <3> HIDE DEF v
    <3> QED
      BY <3>2, <3>3 DEF Lasts
  <2> QED
    BY <1>2, <2>1, <2>2
<1>9. ASSUME NEW s \in Sessions, RenewSession(s) PROVE Lasts(t)
  <2> DEFINE v == [sessions[s] EXCEPT !.expires = now + NormalTtl]
  <2>1. sessions' = [sessions EXCEPT ![s] = v]
    BY <1>9 DEF RenewSession
  <2>2. CASE s = t
    <3>1. now + NormalTtl \in Int
      BY <1>0, TtlAssumption
    <3>2. sessions'[t] = v
      BY <1>0, <2>1, <2>2
    <3>3. v \in Session /\ v.key = sessions[t].key /\ v.gen = sessions[t].gen /\ v.kind = "normal"
      BY <1>0, <1>9, <2>2, <3>1 DEF Session, RenewSession
    <3> HIDE DEF v
    <3> QED
      BY <3>2, <3>3 DEF Lasts
  <2> QED
    BY <1>2, <2>1, <2>2
<1>10. ASSUME NEW s \in Sessions, Lock(s) \/ Expire(s)
       PROVE  (sessions'[t] = None /\ state' = None) \/ Lasts(t)
  <2>1. sessions' = [sessions EXCEPT ![s] = None] /\ state' = None
    BY <1>10 DEF Lock, Expire
  <2> QED
    BY <1>0, <1>2, <2>1
<1> QED
  BY <1>3, <1>4, <1>5, <1>6, <1>7, <1>8, <1>9, <1>10 DEF Next, Request, SessionRequest


\* A step-up lasts its lifetime from the moment the passphrase was proved.
StepUpsLast ==
  \A s \in Sessions : sessions[s] # None /\ sessions[s].kind = "stepUp" =>
                        sessions[s].expires = sessions[s].proved + StepUpTtl

SessionInv == TypeInv /\ Opened /\ StepUpsLast /\ LockedIsGone

\* The session an unlock makes (finish_unlock).
LEMMA UnlockMakes ==
  ASSUME TypeInv, NEW t \in Sessions, UnlockPassphrase(t) \/ UnlockUserPresence(t)
  PROVE  /\ sessions'[t] \in Session
         /\ sessions'[t].kind = "normal" /\ sessions'[t].gen = Generation
         /\ \/ UnlockPassphrase(t) /\ sessions'[t].key = mem.header.key
            \/ UnlockUserPresence(t) /\ sessions'[t].key = mem.presence.key
         /\ state' = IF Loads(mem, sessions'[t].key) THEN LoadKeyvault(mem) ELSE state
<1>1. PICK key, proof : /\ FinishUnlock(t, key, proof) /\ proof \in Int /\ key \in Vaults
                        /\ \/ UnlockPassphrase(t) /\ key = mem.header.key
                           \/ UnlockUserPresence(t) /\ key = mem.presence.key
  <2>1. mem.header # None => mem.header.key \in Vaults
    BY DEF TypeInv, TypeOK, Storage, Header
  <2>2. mem.presence # None => mem.presence.key \in Vaults
    BY DEF TypeInv, TypeOK, Storage, Header
  <2>3. now \in Int /\ 0 - StepUpTtl - 1 \in Int
    BY TtlAssumption, BoundAssumption DEF TypeInv, TypeOK
  <2> QED
    BY <2>1, <2>2, <2>3 DEF UnlockPassphrase, UnlockUserPresence
<1> DEFINE v == [kind |-> "normal", expires |-> now + NormalTtl, proved |-> proof,
                 key |-> key, known |-> Loads(mem, key), handles |-> <<>>,
                 gen |-> Generation]
<1>2. v \in Session /\ v.kind = "normal" /\ v.gen = Generation /\ v.key = key
  <2>1. Generation \in Nat /\ now + NormalTtl \in Int
    BY TtlAssumption, BoundAssumption DEF TypeInv, TypeOK, Used, Generation
  <2>2. Loads(mem, key) \in BOOLEAN
    BY DEF Loads
  <2> QED
    BY <1>1, <2>1, <2>2 DEF Session
<1>3. sessions'[t] = v
  BY <1>1 DEF FinishUnlock, TypeInv, TypeOK
<1>4. state' = IF Loads(mem, key) THEN LoadKeyvault(mem) ELSE state
  BY <1>1 DEF FinishUnlock
<1> HIDE DEF v
<1> QED
  BY <1>1, <1>2, <1>3, <1>4

\* What keeps the sessions inside the vault they opened.
LEMMA OpenedNext ==
  ASSUME SessionInv, TypeInv', [Next]_vars
  PROVE  Opened' /\ StepUpsLast'
<1> SUFFICES ASSUME NEW t \in Sessions, sessions'[t] # None
             PROVE  /\ up' /\ mem'.header # None
                    /\ sessions'[t].kind = "stepUp" =>
                         sessions'[t].expires = sessions'[t].proved + StepUpTtl
  BY DEF Opened, StepUpsLast
<1>1. up /\ mem.header # None
  BY SessionsBegin DEF SessionInv, Opened
<1>2. ~CreateRuntime /\ ~WorkerDies
  BY <1>1 DEF CreateRuntime, WorkerDies
<1>3. up' /\ mem'.header # None
  BY <1>1, <1>2, HeaderStays DEF SessionInv
<1>4. CASE sessions[t] = None
  <2>1. sessions'[t].kind = "normal"
    BY <1>4, SessionsBegin, UnlockMakes DEF SessionInv
  <2> QED
    BY <1>3, <2>1
<1>5. CASE sessions[t] # None
  <2>1. Lasts(t)
    BY <1>5, SessionsLast DEF SessionInv
  <2>2. sessions[t].kind = "stepUp" => sessions[t].expires = sessions[t].proved + StepUpTtl
    BY <1>5 DEF SessionInv, StepUpsLast
  <2> QED
    BY <1>3, <2>1, <2>2 DEF Lasts
<1> QED
  BY <1>4, <1>5

\* A vault in memory has a session to answer for it.
LEMMA LockedNext ==
  ASSUME SessionInv, TypeInv', [Next]_vars
  PROVE  LockedIsGone'
<1> SUFFICES ASSUME state' # None PROVE \E s \in Sessions : sessions'[s] # None
  BY DEF LockedIsGone
<1>1. ASSUME NEW s \in Sessions, sessions[s] # None PROVE sessions'[s] # None
  <2>1. Lasts(s)
    BY <1>1, SessionsLast DEF SessionInv
  <2> QED
    BY <2>1, ValueAssumption DEF Lasts
<1>2. CASE state # None
  BY <1>1, <1>2 DEF SessionInv, LockedIsGone
<1>3. CASE state = None
  <2>1. PICK s \in Sessions : \/ UnlockPassphrase(s) \/ UnlockUserPresence(s)
                              \/ \E r \in Refs, genuine, pinned \in BOOLEAN :
                                   IngestScopeState(s, r, genuine, pinned)
    <3>1. state' # state
      BY <1>3
    <3>2. ~(UNCHANGED vars \/ CreateRuntime \/ WorkerDies \/ Tick \/ CreateVault)
      BY <3>1 DEF vars, CreateRuntime, WorkerDies, Tick, CreateVault
    <3>3. ASSUME NEW s \in Sessions, VaultRequest(s) PROVE FALSE
      BY <1>3, <3>1, <3>3 DEF VaultRequest, ExportKeyvault, ImportKeyvault, ChangePassphrase,
         EnableUserPresence, DisableUserPresence, StoreAppMasterKey, InitIdentity
    <3>4. ASSUME NEW s \in Sessions, StepUp(s) \/ RenewSession(s) \/ Lock(s) \/ Expire(s)
          PROVE  FALSE
      BY <1>3, <3>1, <3>4 DEF StepUp, RenewSession, Lock, Expire
    <3>5. ASSUME NEW s \in Sessions,
                 \/ \E r \in Refs : IngestKeyEnvelope(s, r)
                 \/ OpenScope(s)
                 \/ \E i \in 1..MaxHandles : UseHandle(s, i) \/ CloseHandle(s, i)
                 \/ \E i \in 1..MaxHandles, g \in Grants, r \in Refs, opens \in BOOLEAN :
                      OpenResource(s, i, g, r, opens)
          PROVE  FALSE
      BY <1>3, <3>1, <3>5 DEF IngestKeyEnvelope, OpenScope, UseHandle, CloseHandle,
         OpenResource, Trusts
    <3> QED
      BY <3>2, <3>3, <3>4, <3>5 DEF Next, Request, SessionRequest, KeyRequest
  <2>2. CASE sessions[s] # None
    BY <1>1, <2>2
  <2>3. CASE sessions[s] = None
    <3>1. UnlockPassphrase(s) \/ UnlockUserPresence(s)
      BY <2>1, <2>3 DEF IngestScopeState, Valid, Known
    <3> QED
      BY <3>1, UnlockMakes, ValueAssumption DEF SessionInv
  <2> QED
    BY <2>2, <2>3
<1> QED
  BY <1>2, <1>3


\* Nothing is open when the program starts.
LEMMA InitSessions == Init => SessionInv
<1> SUFFICES ASSUME Init PROVE SessionInv
  OBVIOUS
<1>1. EmptyStorage \in Storage /\ EmptyStorage.index = {} /\ EmptyStorage.have = {}
  BY DEF EmptyStorage, Storage
<1>2. \A s \in Sessions : sessions[s] = None
  BY DEF Init
<1>3. [vaults |-> 0, imports |-> 0, kdfs |-> 0, faults |-> 0] \in Used
  BY BoundAssumption DEF Used
<1>4. TypeOK
  <2>1. sessions \in [Sessions -> Session \cup {None}]
    BY DEF Init
  <2>2. records \in Seq(Record) /\ now \in 0..MaxTime
    BY BoundAssumption DEF Init
  <2> QED
    BY <1>1, <1>2, <1>3, <2>1, <2>2 DEF Init, TypeOK
<1>5. IdsExist
  BY <1>1, BoundAssumption DEF Init, IdsExist
<1> QED
  BY <1>2, <1>4, <1>5 DEF Init, SessionInv, TypeInv, Opened, StepUpsLast, LockedIsGone

\* The session invariants are inductive together.
THEOREM SessionsHold == Spec => []SessionInv
<1>1. Init => SessionInv
  BY InitSessions
<1>2. SessionInv /\ [Next]_vars => SessionInv'
  <2> SUFFICES ASSUME SessionInv, [Next]_vars PROVE SessionInv'
    OBVIOUS
  <2>1. TypeInv'
    BY TypeNext DEF SessionInv
  <2>2. Opened' /\ StepUpsLast'
    BY <2>1, OpenedNext
  <2>3. LockedIsGone'
    BY <2>1, LockedNext
  <2> QED
    BY <2>1, <2>2, <2>3 DEF SessionInv
<1> QED
  BY <1>1, <1>2, PTL DEF Spec

\* The types hold: in particular no session has more handles, and no scope more
\* references, than the policy of the key service allows.
THEOREM Typed == Spec => []TypeOK
<1>1. SessionInv => TypeOK
  BY DEF SessionInv, TypeInv
<1> QED
  BY <1>1, SessionsHold, PTL

\* A session that export, import, the change of passphrase and the enrolment of a
\* passkey accept proved the passphrase within the step-up lifetime.
THEOREM StepUpsAreFresh == Spec => []StepUpIsFresh
<1>1. SessionInv => StepUpIsFresh
  <2> SUFFICES ASSUME SessionInv, NEW s \in Sessions, SteppedUp(s)
               PROVE  now - sessions[s].proved <= StepUpTtl
    BY DEF StepUpIsFresh
  <2>1. sessions[s] # None /\ now <= sessions[s].expires /\ sessions[s].kind = "stepUp"
    BY DEF SteppedUp, Valid, Known
  <2>2. sessions[s].expires = sessions[s].proved + StepUpTtl
    BY <2>1 DEF SessionInv, StepUpsLast
  <2>3. sessions[s].proved \in Int /\ now \in Int
    BY <2>1, SessionFields, BoundAssumption DEF SessionInv, TypeInv, TypeOK
  <2> QED
    BY <2>1, <2>2, <2>3, TtlAssumption
<1> QED
  BY <1>1, SessionsHold, PTL

\* After lock and expiry no vault stays in memory that no session opened.
THEOREM LockedVaultsAreGone == Spec => []LockedIsGone
<1>1. SessionInv => LockedIsGone
  BY DEF SessionInv
<1> QED
  BY <1>1, SessionsHold, PTL


-----------------------------------------------------------------------------
(* What a client was told is stored stays on disk *)

\* Short of a transaction that aborts at its commit, and of an import or a new vault
\* whose write failed, every acknowledged record is stored and indexed; the core's
\* index, which the next append stores, has lost none of the disk's.
AckInv ==
  harm \cap {"aborted", "torn"} = {} =>
    acked \subseteq Containers(disk) /\ (up => disk.index \subseteq mem.index)

\* Harm is never undone.
LEMMA HarmGrows ==
  ASSUME [Next]_vars, TypeInv
  PROVE  harm \subseteq harm'
<1>1. ASSUME NEW s \in Sessions, Appends(s) PROVE harm \subseteq harm'
  BY <1>1, AppendsPut DEF PutEntries
<1>2. CASE CreateRuntime \/ WorkerDies \/ CreateVault
  BY <1>2 DEF CreateRuntime, WorkerDies, CreateVault
<1>3. ASSUME NEW s \in Sessions,
             \/ ExportKeyvault(s) \/ ImportKeyvault(s) \/ ChangePassphrase(s)
             \/ EnableUserPresence(s) \/ DisableUserPresence(s)
      PROVE  harm \subseteq harm'
  BY <1>3 DEF ExportKeyvault, ImportKeyvault, ChangePassphrase, EnableUserPresence,
     DisableUserPresence, PutEntries
<1> QED
  BY <1>1, <1>2, <1>3, Steps

\* The sets of ids a request writes are not the mark of an entry it leaves alone.
LEMMA IdsAreNotKeep ==
  ASSUME NEW ids \in SUBSET RecordIds
  PROVE  ids # Keep
BY ValueAssumption

\* Each step keeps it.
LEMMA AckNext ==
  ASSUME SessionInv, AckInv, [Next]_vars
  PROVE  AckInv'
<1> SUFFICES ASSUME harm' \cap {"aborted", "torn"} = {}
             PROVE  acked' \subseteq Containers(disk') /\ (up' => disk'.index \subseteq mem'.index)
  BY DEF AckInv, Containers
<1>0. /\ TypeInv /\ mem \in Storage /\ disk \in Storage
      /\ mem.index \in SUBSET RecordIds /\ disk.index \in SUBSET RecordIds
  BY DEF SessionInv, TypeInv, TypeOK, Storage
<1>1. acked \subseteq disk.index \cap disk.have /\ (up => disk.index \subseteq mem.index)
  BY <1>0, HarmGrows DEF AckInv, Containers
<1>2. CASE CreateRuntime \/ WorkerDies \/ UNCHANGED <<up, mem, disk, records, backup, used, acked, harm>>
  BY <1>1, <1>2 DEF CreateRuntime, WorkerDies, Containers
<1>3. CASE CreateVault
  <2> DEFINE h == [vault |-> used.vaults + 1, key |-> used.vaults + 1, kdf |-> used.kdfs + 1]
             w == [NoWrite EXCEPT !.header = h, !.index = {}]
  <2>1. w.index = {} /\ w.index # Keep
    <3>1. w.index = {}
      BY DEF NoWrite
    <3> QED
      BY <3>1, IdsAreNotKeep
  <2>2. mem' = Put(mem, w) /\ disk' = Put(disk, w) /\ acked' = {}
    BY <1>3 DEF CreateVault
  <2> HIDE DEF w
  <2> QED
    BY <2>1, <2>2, PutParts
<1>4. ASSUME NEW s \in Sessions, ExportKeyvault(s)
      PROVE  acked' \subseteq Containers(disk') /\ (up' => disk'.index \subseteq mem'.index)
  BY <1>1, <1>4 DEF ExportKeyvault, Containers
<1>5. ASSUME NEW s \in Sessions, ImportKeyvault(s)
      PROVE  acked' \subseteq Containers(disk') /\ (up' => disk'.index \subseteq mem'.index)
  <2> DEFINE w == [header |-> backup.header, presence |-> Keep,
                   index |-> backup.recs, recs |-> backup.recs]
  <2>1. mem' = Put(mem, w) /\ disk' = Put(disk, w) /\ acked' = backup.recs
    BY <1>5 DEF ImportKeyvault
  <2>2. w.index = backup.recs /\ w.recs = backup.recs /\ w.index # Keep
    <3>1. backup.recs \in SUBSET RecordIds
      BY <1>0, <1>5 DEF ImportKeyvault, TypeInv, TypeOK, Backup
    <3> QED
      BY <3>1, IdsAreNotKeep
  <2> HIDE DEF w
  <2> QED
    BY <2>1, <2>2, PutParts DEF Containers
<1>6. ASSUME NEW w, w.index = Keep, w.recs = {}, UNCHANGED <<up, acked>>,
             mem' = Put(mem, w), disk' = Put(disk, w) \/ disk' = disk
      PROVE  acked' \subseteq Containers(disk') /\ (up' => disk'.index \subseteq mem'.index)
  BY <1>1, <1>6, PutParts DEF Containers
<1>7. ASSUME NEW s \in Sessions, ChangePassphrase(s)
      PROVE  acked' \subseteq Containers(disk') /\ (up' => disk'.index \subseteq mem'.index)
  <2> DEFINE w == [NoWrite EXCEPT !.header = [vault |-> mem.header.vault, key |-> sessions[s].key,
                                              kdf |-> used.kdfs + 1]]
  <2>1. w.index = Keep /\ w.recs = {}
    BY DEF NoWrite
  <2>2. mem' = Put(mem, w) /\ (disk' = Put(disk, w) \/ disk' = disk) /\ UNCHANGED <<up, acked>>
    BY <1>7 DEF ChangePassphrase
  <2> HIDE DEF w
  <2> QED
    BY <1>6, <2>1, <2>2
<1>8. ASSUME NEW s \in Sessions, EnableUserPresence(s) \/ DisableUserPresence(s)
      PROVE  acked' \subseteq Containers(disk') /\ (up' => disk'.index \subseteq mem'.index)
  <2>1. PICK h, hurt : PutEntries([NoWrite EXCEPT !.presence = h], acked, hurt) /\ up' = up
    BY <1>8 DEF EnableUserPresence, DisableUserPresence
  <2> DEFINE w == [NoWrite EXCEPT !.presence = h]
  <2>2. w.index = Keep /\ w.recs = {}
    BY DEF NoWrite
  <2>3. PutEntries(w, acked, hurt)
    BY <2>1
  <2> HIDE DEF w
  <2>4. mem' = Put(mem, w) /\ (disk' = Put(disk, w) \/ disk' = disk) /\ acked' = acked
    BY <2>3 DEF PutEntries
  <2> QED
    BY <1>6, <2>1, <2>2, <2>4
<1>9. ASSUME NEW s \in Sessions, Appends(s)
      PROVE  acked' \subseteq Containers(disk') /\ (up' => disk'.index \subseteq mem'.index)
  <2>1. PICK ids \in SUBSET RecordIds :
          PutEntries([NoWrite EXCEPT !.recs = ids, !.index = mem.index \cup ids],
                     acked \cup ids, AppendHarm(s))
    BY <1>0, <1>9, AppendsPut
  <2>2. up /\ up' = up
    BY <1>0, <1>9, AppendsPut
  <2> DEFINE x == mem.index \cup ids
             w == [NoWrite EXCEPT !.recs = ids, !.index = x]
  <2>3. w.index = x /\ w.recs = ids /\ x # Keep
    <3>1. x \in SUBSET RecordIds
      BY <1>0
    <3> QED
      BY <3>1, IdsAreNotKeep DEF NoWrite
  <2>4. PutEntries(w, acked \cup ids, AppendHarm(s))
    BY <2>1
  <2> HIDE DEF w
  <2>5. /\ mem' = Put(mem, w)
        /\ \/ disk' = Put(disk, w) /\ acked' = acked \cup ids
           \/ disk' = disk /\ acked' = acked
    BY <2>4 DEF PutEntries
  <2>6. mem'.index = x /\ disk.index \subseteq x
    BY <1>1, <2>2, <2>3, <2>5, PutParts
  <2>7. CASE disk' = disk /\ acked' = acked
    BY <1>1, <2>2, <2>6, <2>7 DEF Containers
  <2>8. CASE disk' = Put(disk, w) /\ acked' = acked \cup ids
    <3>1. disk'.index = x /\ disk'.have = disk.have \cup ids
      BY <2>3, <2>8, PutParts
    <3> QED
      BY <1>1, <2>2, <2>6, <2>8, <3>1 DEF Containers
  <2> QED
    BY <2>5, <2>7, <2>8
<1> QED
  BY <1>2, <1>3, <1>4, <1>5, <1>7, <1>8, <1>9, Steps


-----------------------------------------------------------------------------
(* The chain of records *)

\* The records R of recs are the chain of vault v: numbered 1..n, each naming the one
\* before it, sealed under v's own key (apply_containers).
ChainIn(recs, R, v) ==
  \A i \in R :
    /\ recs[i].seq \in 1..Cardinality(R)
    /\ \A j \in R : recs[j].seq = recs[i].seq => i = j
    /\ recs[i].prev \in IF recs[i].seq = 1 THEN {0}
                        ELSE {j \in R : recs[j].seq = recs[i].seq - 1}
    /\ recs[i].vault = v
    /\ recs[i].key = v

\* h is the last record of the chain, or 0 when there is none.
LastIn(recs, R, h) ==
  IF R = {} THEN h = 0 ELSE h \in R /\ recs[h].seq = Cardinality(R)

\* Records that are only added to leave a chain as it is.
LEMMA ChainKept ==
  ASSUME NEW recs, NEW more, NEW R, \A i \in R : more[i] = recs[i]
  PROVE  /\ \A v : ChainIn(recs, R, v) => ChainIn(more, R, v)
         /\ \A h : LastIn(recs, R, h) => LastIn(more, R, h)
<1>1. ASSUME NEW v, ChainIn(recs, R, v) PROVE ChainIn(more, R, v)
  <2> SUFFICES ASSUME NEW i \in R
               PROVE  /\ more[i].seq \in 1..Cardinality(R)
                      /\ \A j \in R : more[j].seq = more[i].seq => i = j
                      /\ more[i].prev \in IF more[i].seq = 1 THEN {0}
                                          ELSE {j \in R : more[j].seq = more[i].seq - 1}
                      /\ more[i].vault = v /\ more[i].key = v
    BY DEF ChainIn
  <2>1. {j \in R : more[j].seq = more[i].seq - 1} = {j \in R : recs[j].seq = recs[i].seq - 1}
    OBVIOUS
  <2>2. more[i] = recs[i]
    OBVIOUS
  <2> QED
    BY <1>1, <2>1, <2>2 DEF ChainIn
<1>2. ASSUME NEW h, LastIn(recs, R, h) PROVE LastIn(more, R, h)
  BY <1>2 DEF LastIn
<1> QED
  BY <1>1, <1>2

\* A record that names the last one and takes the next number continues the chain.
LEMMA ChainGrows ==
  ASSUME NEW recs \in Seq(Record), NEW R, R \subseteq 1..Len(recs), IsFiniteSet(R), NEW v,
         ChainIn(recs, R, v), NEW h, LastIn(recs, R, h),
         NEW c \in Record, c.seq = Cardinality(R) + 1, c.prev = h, c.vault = v, c.key = v
  PROVE  LET n == Len(recs) + 1
             more == Append(recs, c)
         IN  /\ ChainIn(more, R \cup {n}, v) /\ LastIn(more, R \cup {n}, n)
             /\ Cardinality(R \cup {n}) = Cardinality(R) + 1
             /\ IsFiniteSet(R \cup {n})
<1> DEFINE n == Len(recs) + 1
           more == Append(recs, c)
           T == R \cup {n}
           k == Cardinality(R)
<1>1. n \notin R /\ n \in Nat /\ k \in Nat
  BY FS_CardinalityType
<1>2. Cardinality(T) = k + 1 /\ IsFiniteSet(T)
  BY <1>1, FS_AddElement
<1>3. more[n] = c /\ \A i \in R : more[i] = recs[i]
  OBVIOUS
<1> HIDE DEF n, more, k
<1>4. \A i \in R : recs[i].seq \in 1..k /\ recs[i].seq \in Nat
  <2>1. \A i \in R : recs[i].seq \in 1..k
    BY DEF ChainIn, k
  <2> QED
    BY <1>1, <2>1
<1>5. R = {} => k = 0
  BY FS_EmptySet DEF k
<1>6. LastIn(more, T, n)
  <2>1. more[n].seq = Cardinality(T)
    BY <1>2, <1>3 DEF k
  <2> QED
    BY <2>1 DEF LastIn
<1>7. ChainIn(more, T, v)
  <2> SUFFICES ASSUME NEW i \in T
               PROVE  /\ more[i].seq \in 1..(k + 1)
                      /\ \A j \in T : more[j].seq = more[i].seq => i = j
                      /\ more[i].prev \in IF more[i].seq = 1 THEN {0}
                                          ELSE {j \in T : more[j].seq = more[i].seq - 1}
                      /\ more[i].vault = v
                      /\ more[i].key = v
    BY <1>2 DEF ChainIn
  <2>1. CASE i = n
    <3>1. more[i].seq = k + 1 /\ more[i].prev = h /\ more[i].vault = v /\ more[i].key = v
      BY <1>3, <2>1 DEF k
    <3>2. \A j \in T : more[j].seq = more[i].seq => i = j
      BY <1>1, <1>3, <1>4, <2>1, <3>1
    <3>3. CASE R = {}
      BY <1>1, <1>5, <3>1, <3>2, <3>3 DEF LastIn
    <3>4. CASE R # {}
      <4>1. h \in R /\ recs[h].seq = k /\ k >= 1
        BY <1>4, <3>4 DEF LastIn, k
      <4>2. more[h].seq = k /\ h \in T
        BY <1>3, <4>1
      <4>3. more[i].seq # 1 /\ more[i].seq - 1 = k
        BY <1>1, <3>1, <4>1
      <4> QED
        BY <1>1, <3>1, <3>2, <4>2, <4>3
    <3> QED
      BY <3>3, <3>4
  <2>2. CASE i \in R
    <3>1. more[i] = recs[i]
      BY <1>3, <2>2
    <3>2. /\ recs[i].seq \in 1..k /\ recs[i].vault = v /\ recs[i].key = v
          /\ \A j \in R : recs[j].seq = recs[i].seq => i = j
          /\ recs[i].prev \in IF recs[i].seq = 1 THEN {0}
                              ELSE {j \in R : recs[j].seq = recs[i].seq - 1}
      BY <2>2 DEF ChainIn, k
    <3>3. \A j \in T : more[j].seq = more[i].seq => i = j
      <4> SUFFICES ASSUME NEW j \in T, more[j].seq = more[i].seq PROVE i = j
        OBVIOUS
      <4>1. j # n
        BY <1>1, <1>3, <3>1, <3>2 DEF k
      <4> QED
        BY <1>3, <3>1, <3>2, <4>1
    <3>4. {j \in R : recs[j].seq = recs[i].seq - 1} \subseteq {j \in T : more[j].seq = more[i].seq - 1}
      BY <1>3, <3>1
    <3> QED
      BY <1>1, <3>1, <3>2, <3>3, <3>4
  <2> QED
    BY <2>1, <2>2
<1> QED
  BY <1>2, <1>6, <1>7 DEF n, more, k

\* A store whose records are the chain of its own vault loads.
LEMMA ChainLoads ==
  ASSUME NEW st, st.header.key = st.header.vault
  PROVE  Loads(st, st.header.key) <=> ChainIn(records, Containers(st), st.header.vault)
BY DEF Loads, ChainIn, Before


\* How a step may change the loaded vault.
Reload(t) == /\ UnlockPassphrase(t) \/ UnlockUserPresence(t)
             /\ Loads(mem, sessions'[t].key)
             /\ state' = LoadKeyvault(mem)
Follows == /\ state # None
           /\ state'.hollow = state.hollow /\ state'.gen = state.gen
           /\ (\A s \in Sessions : ~Appends(s)) =>
                state'.head = state.head /\ state'.hash = state.hash

\* It is dropped, made again from the storage, made hollow, or goes on.
LEMMA StateSteps ==
  ASSUME TypeInv, [Next]_vars, state' # None
  PROVE  \/ Follows
         \/ state'.hollow /\ state'.gen = Generation
         \/ \E t \in Sessions : Reload(t)
<1>1. ASSUME state' = state PROVE Follows
  BY <1>1 DEF Follows
<1>2. CASE UNCHANGED vars \/ CreateRuntime \/ WorkerDies \/ Tick \/ CreateVault
  BY <1>1, <1>2 DEF vars, CreateRuntime, WorkerDies, Tick, CreateVault
<1>3. ASSUME NEW s \in Sessions, Appends(s) PROVE Follows
  <2>1. state # None
    BY <1>3, AppendsPut
  <2>2. state \in Loaded
    BY <2>1, StateFields
  <2>3. CASE InitIdentity(s)
    BY <1>3, <2>1, <2>2, <2>3 DEF InitIdentity, Follows, Loaded
  <2>4. CASE ~InitIdentity(s)
    <3>1. PICK item, st : /\ Append1(s, item, st)
                          /\ st = state \/ \E g : st = [state EXCEPT !.chain = g]
      BY <1>3, <2>4 DEF Appends, StoreAppMasterKey, IngestKeyEnvelope, OpenResource
    <3>2. st.hollow = state.hollow /\ st.gen = state.gen
      BY <2>2, <3>1 DEF Loaded
    <3>3. state'.hollow = st.hollow /\ state'.gen = st.gen
      BY <3>1 DEF Append1
    <3> QED
      BY <1>3, <2>1, <3>2, <3>3 DEF Follows
  <2> QED
    BY <2>3, <2>4
<1>4. ASSUME NEW s \in Sessions, VaultRequest(s), ~Appends(s) PROVE Follows
  BY <1>1, <1>4 DEF VaultRequest, Appends, ExportKeyvault, ImportKeyvault, ChangePassphrase,
     EnableUserPresence, DisableUserPresence
<1>5. ASSUME NEW s \in Sessions, UnlockPassphrase(s) \/ UnlockUserPresence(s)
      PROVE  Follows \/ Reload(s)
  <2>1. state' = IF Loads(mem, sessions'[s].key) THEN LoadKeyvault(mem) ELSE state
    BY <1>5, UnlockMakes
  <2> QED
    BY <1>1, <1>5, <2>1 DEF Reload
<1>6. ASSUME NEW s \in Sessions, StepUp(s) \/ RenewSession(s) \/ Lock(s) \/ Expire(s)
      PROVE  Follows
  BY <1>1, <1>6 DEF StepUp, RenewSession, Lock, Expire
<1>7. ASSUME NEW s \in Sessions, NEW r, NEW genuine, NEW pinned,
             IngestScopeState(s, r, genuine, pinned)
      PROVE  Follows \/ (state'.hollow /\ state'.gen = Generation)
  <2> DEFINE base == IF state = None THEN HollowState ELSE state
  <2>1. state' = base \/ state' = [base EXCEPT !.signer = TRUE, !.refs = InsertRef(@, r)]
    BY <1>7 DEF IngestScopeState
  <2>2. /\ state'.hollow = base.hollow /\ state'.gen = base.gen
        /\ state'.head = base.head /\ state'.hash = base.hash
    <3>1. base \in Loaded
      <4>1. Generation \in Nat
        BY DEF TypeInv, TypeOK, Used, Generation
      <4> QED
        BY <4>1, StateFields DEF HollowState, Loaded
    <3> HIDE DEF base
    <3> QED
      BY <2>1, <3>1 DEF Loaded
  <2>3. HollowState.hollow /\ HollowState.gen = Generation
    BY DEF HollowState
  <2> QED
    BY <2>2, <2>3 DEF Follows
<1>8. ASSUME NEW s \in Sessions, KeyRequest(s), ~Appends(s)
      PROVE  Follows \/ (state'.hollow /\ state'.gen = Generation)
  <2>1. CASE \E i \in 1..MaxHandles, g \in Grants, r \in Refs : OpenResource(s, i, g, r, FALSE)
    <3>1. state # None /\ \E g : state' = [state EXCEPT !.chain = g]
      BY <2>1 DEF OpenResource, Trusts
    <3> QED
      BY <3>1 DEF Follows
  <2>2. CASE OpenScope(s) \/ \E i \in 1..MaxHandles : UseHandle(s, i) \/ CloseHandle(s, i)
    BY <1>1, <2>2 DEF OpenScope, UseHandle, CloseHandle
  <2> QED
    BY <1>7, <1>8, <2>1, <2>2 DEF KeyRequest, Appends
<1> QED
  BY <1>2, <1>3, <1>4, <1>5, <1>6, <1>8 DEF Next, Request, SessionRequest

\* Nothing is of a later generation of the vault than the storage.
GenInv ==
  /\ \A s \in Sessions : sessions[s] # None => sessions[s].gen <= Generation
  /\ state # None => state.gen <= Generation

\* Counting a failed write leaves the other counters.
LEMMA FaultParts ==
  ASSUME NEW u \in [vaults : Int, imports : Int, kdfs : Int, faults : Int]
  PROVE  /\ [u EXCEPT !.faults = @ + 1].vaults = u.vaults
         /\ [u EXCEPT !.faults = @ + 1].imports = u.imports
OBVIOUS

\* A step makes a new generation or leaves it.
LEMMA Generations ==
  ASSUME TypeInv, [Next]_vars
  PROVE  /\ Generation \in Nat
         /\ \/ Generation' = Generation
            \/ Generation' = Generation + 1 /\ UNCHANGED <<sessions, state>>
<1>0. Generation \in Nat /\ used \in Used /\ used.vaults \in Nat /\ used.imports \in Nat
  BY DEF TypeInv, TypeOK, Used, Generation
<1>1. CASE CreateVault
  <2>1. used'.vaults = used.vaults + 1 /\ used'.imports = used.imports
    <3> DEFINE more == [used EXCEPT !.vaults = used.vaults + 1, !.kdfs = used.kdfs + 1]
    <3>1. used' = more \/ used' = [more EXCEPT !.faults = @ + 1]
      BY <1>1 DEF CreateVault
    <3>2. /\ more.vaults = used.vaults + 1 /\ more.imports = used.imports
          /\ more \in [vaults : Int, imports : Int, kdfs : Int, faults : Int]
      <4>1. used \in [vaults : Int, imports : Int, kdfs : Int, faults : Int]
        BY <1>0 DEF Used
      <4>2. used.vaults + 1 \in Int /\ used.kdfs + 1 \in Int
        BY <4>1
      <4> QED
        BY <4>1, <4>2
    <3> HIDE DEF more
    <3> QED
      BY <3>1, <3>2, FaultParts
  <2> QED
    BY <1>0, <1>1, <2>1 DEF CreateVault, Generation
<1>2. ASSUME NEW s \in Sessions, ImportKeyvault(s)
      PROVE  Generation' = Generation + 1 /\ UNCHANGED <<sessions, state>>
  <2>1. used'.vaults = used.vaults /\ used'.imports = used.imports + 1
    <3> DEFINE more == [used EXCEPT !.imports = @ + 1]
    <3>1. used' = more \/ used' = [more EXCEPT !.faults = @ + 1]
      BY <1>2 DEF ImportKeyvault
    <3>2. /\ more.vaults = used.vaults /\ more.imports = used.imports + 1
          /\ more \in [vaults : Int, imports : Int, kdfs : Int, faults : Int]
      BY <1>0 DEF Used
    <3> HIDE DEF more
    <3> QED
      BY <3>1, <3>2, FaultParts
  <2> QED
    BY <1>0, <1>2, <2>1 DEF ImportKeyvault, Generation
<1>3. ASSUME NEW s \in Sessions, ChangePassphrase(s) PROVE Generation' = Generation
  <2> DEFINE more == [used EXCEPT !.kdfs = @ + 1]
  <2>1. used' = more \/ used' = [more EXCEPT !.faults = @ + 1]
    BY <1>3 DEF ChangePassphrase
  <2>2. /\ more.vaults = used.vaults /\ more.imports = used.imports
        /\ more \in [vaults : Int, imports : Int, kdfs : Int, faults : Int]
    BY <1>0 DEF Used
  <2> HIDE DEF more
  <2> QED
    BY <2>1, <2>2, FaultParts DEF Generation
<1>4. ASSUME NEW w, NEW acks, NEW hurt, PutEntries(w, acks, hurt) PROVE Generation' = Generation
  <2>1. used' = used \/ used' = [used EXCEPT !.faults = @ + 1]
    BY <1>4 DEF PutEntries
  <2> QED
    BY <1>0, <2>1 DEF Used, Generation
<1>5. ASSUME NEW s \in Sessions, EnableUserPresence(s) \/ DisableUserPresence(s)
      PROVE  Generation' = Generation
  BY <1>4, <1>5 DEF EnableUserPresence, DisableUserPresence
<1>6. ASSUME NEW s \in Sessions, Appends(s) PROVE Generation' = Generation
  BY <1>4, <1>6, AppendsPut
<1>7. CASE CreateRuntime \/ WorkerDies \/ UNCHANGED <<up, mem, disk, records, backup, used, acked, harm>>
  <2>1. used' = used
    BY <1>7 DEF CreateRuntime, WorkerDies
  <2> QED
    BY <1>0, <2>1 DEF Generation
<1>8. ASSUME NEW s \in Sessions, ExportKeyvault(s) PROVE Generation' = Generation
  BY <1>8 DEF ExportKeyvault, Generation
<1> QED
  BY <1>0, <1>1, <1>2, <1>3, <1>5, <1>6, <1>7, <1>8, Steps

\* Generations only grow, and what is opened is of the last one.
LEMMA GenNext ==
  ASSUME TypeInv, TypeInv', GenInv, [Next]_vars
  PROVE  GenInv'
<1>0. Generation \in Nat /\ Generation' \in Nat /\ Generation <= Generation'
  BY Generations
<1>1. ASSUME NEW t \in Sessions, sessions'[t] # None PROVE sessions'[t].gen <= Generation'
  <2>1. CASE sessions[t] = None
    <3>1. sessions'[t].gen = Generation
      BY <1>1, <2>1, SessionsBegin, UnlockMakes
    <3> QED
      BY <1>0, <3>1
  <2>2. CASE sessions[t] # None
    <3>1. sessions'[t].gen = sessions[t].gen /\ sessions[t].gen <= Generation
      BY <1>1, <2>2, SessionsLast DEF Lasts, GenInv
    <3>2. sessions[t].gen \in Nat
      BY <2>2, SessionFields
    <3> QED
      BY <1>0, <3>1, <3>2
  <2> QED
    BY <2>1, <2>2
<1>2. ASSUME state' # None PROVE state'.gen <= Generation'
  <2>1. CASE Follows
    <3>1. state'.gen = state.gen /\ state.gen <= Generation /\ state.gen \in Nat
      BY <2>1, StateFields DEF Follows, GenInv
    <3> QED
      BY <1>0, <3>1
  <2>2. CASE state'.hollow /\ state'.gen = Generation
    BY <1>0, <2>2
  <2>3. ASSUME NEW t \in Sessions, Reload(t) PROVE state'.gen <= Generation'
    <3>1. state'.gen = Generation
      BY <2>3 DEF Reload, LoadKeyvault
    <3> QED
      BY <1>0, <3>1
  <2> QED
    BY <1>2, <2>1, <2>2, <2>3, StateSteps
<1> QED
  BY <1>1, <1>2 DEF GenInv


-----------------------------------------------------------------------------
(* A vault that was not harmed loads *)

\* What is stored: the core and the disk agree; every indexed record is there; the
\* header and the passkey's entry wrap their own vault's key; the records are the
\* chain of the header's vault.
Stored ==
  /\ up => mem = disk
  /\ disk.index \subseteq disk.have
  /\ disk.header = None => disk.index = {}
  /\ disk.header # None => /\ disk.header.key = disk.header.vault
                           /\ ChainIn(records, disk.index, disk.header.vault)
  /\ disk.presence # None => disk.presence.key = disk.presence.vault

\* What was exported is a vault that loads, too.
Exported ==
  backup # None => /\ backup.header.key = backup.header.vault
                   /\ ChainIn(records, backup.recs, backup.header.vault)

\* Sessions of the current generation hold the vault's key, and a loaded vault of that
\* generation knows where the chain ends.
Current ==
  /\ \A s \in Sessions : (sessions[s] # None /\ sessions[s].gen = Generation) =>
                           sessions[s].key = disk.header.vault
  /\ (state # None /\ ~state.hollow /\ state.gen = Generation) =>
       /\ state.head = Cardinality(disk.index)
       /\ LastIn(records, disk.index, state.hash)

Clean == Stored /\ Exported /\ Current

VaultInv == SessionInv /\ GenInv /\ AckInv /\ (harm = {} => Clean)

\* A request of a session finds the core running on what is stored.
LEMMA SessionOnDisk ==
  ASSUME SessionInv, Stored, NEW s \in Sessions, sessions[s] # None
  PROVE  up /\ mem = disk /\ disk.header # None
BY DEF SessionInv, Opened, Stored

\* The worker starts and dies.
LEMMA CleanWorker ==
  ASSUME SessionInv, Clean, CreateRuntime \/ WorkerDies
  PROVE  Clean'
<1>1. \A s \in Sessions : sessions'[s] = None
  BY DEF SessionInv, Opened, CreateRuntime, WorkerDies
<1>2. state' = None
  <2>1. CASE WorkerDies
    BY <2>1 DEF WorkerDies
  <2>2. CASE CreateRuntime
    BY <1>1, <2>2 DEF CreateRuntime, SessionInv, LockedIsGone
  <2> QED
    BY <2>1, <2>2
<1>3. UNCHANGED <<disk, records, backup>> /\ (up' => mem' = disk)
  BY DEF CreateRuntime, WorkerDies
<1>4. Stored' /\ Exported'
  BY <1>3 DEF Clean, Stored, Exported
<1> QED
  BY <1>1, <1>2, <1>4 DEF Clean, Current

\* A new generation has nothing open on it yet.
LEMMA CurrentOfNew ==
  ASSUME TypeInv, GenInv, Generation \in Nat, Generation' = Generation + 1,
         UNCHANGED <<sessions, state>>
  PROVE  Current'
<1>1. ASSUME NEW s \in Sessions, sessions[s] # None PROVE sessions[s].gen # Generation + 1
  BY <1>1, SessionFields DEF GenInv
<1>2. state # None => state.gen # Generation + 1
  BY StateFields DEF GenInv
<1> QED
  BY <1>1, <1>2 DEF Current

\* create_new_vault: an empty chain.
LEMMA CleanCreate ==
  ASSUME SessionInv, GenInv, Clean, CreateVault, harm' = {}
  PROVE  Clean'
<1> DEFINE h == [vault |-> used.vaults + 1, key |-> used.vaults + 1, kdf |-> used.kdfs + 1]
           w == [NoWrite EXCEPT !.header = h, !.index = {}]
<1>0. [Next]_vars
  BY DEF Next
<1>1. /\ mem' = Put(mem, w) /\ disk' = Put(disk, w) /\ up /\ up' = up
      /\ UNCHANGED <<sessions, state, records, backup>>
  BY DEF CreateVault
<1>2. w.header = h /\ w.index = {} /\ w.presence = Keep /\ w.recs = {}
  BY DEF NoWrite
<1>3. {} # Keep
  BY IdsAreNotKeep
<1>4. h \in Header /\ h.key = h.vault
  BY BoundAssumption DEF CreateVault, Header, Vaults, SessionInv, TypeInv, TypeOK, Used
<1>5. h # Keep
  BY <1>4, ValueAssumption
<1> HIDE DEF w, h
<1>6. mem' = disk'
  BY <1>1 DEF Clean, Stored
<1>7. disk'.header = h /\ disk'.index = {} /\ disk'.presence = disk.presence
  BY <1>1, <1>2, <1>3, <1>5, PutParts
<1>8. Stored'
  BY <1>1, <1>4, <1>6, <1>7 DEF Clean, Stored, ChainIn
<1>9. Exported'
  BY <1>1 DEF Clean, Exported
<1>10. Generation \in Nat /\ Generation' = Generation + 1
  <2>1. Generation' # Generation
    <3> DEFINE more == [used EXCEPT !.vaults = used.vaults + 1, !.kdfs = used.kdfs + 1]
    <3>1. used' = more
      BY DEF CreateVault
    <3>2. more.vaults = used.vaults + 1 /\ more.imports = used.imports
      BY DEF SessionInv, TypeInv, TypeOK, Used
    <3>3. used.vaults \in Nat /\ used.imports \in Nat
      BY DEF SessionInv, TypeInv, TypeOK, Used
    <3> HIDE DEF more
    <3> QED
      BY <3>1, <3>2, <3>3 DEF Generation
  <2> QED
    BY <1>0, <2>1, Generations DEF SessionInv
<1>11. Current'
  BY <1>1, <1>10, CurrentOfNew DEF SessionInv
<1> QED
  BY <1>8, <1>9, <1>11 DEF Clean

\* import_keyvault: the chain that was exported.
LEMMA CleanImport ==
  ASSUME SessionInv, GenInv, Clean, NEW s \in Sessions, ImportKeyvault(s), harm' = {}
  PROVE  Clean'
<1> DEFINE w == [header |-> backup.header, presence |-> Keep,
                 index |-> backup.recs, recs |-> backup.recs]
<1>0. [Next]_vars
  BY DEF Next, Request, VaultRequest
<1>1. /\ mem' = Put(mem, w) /\ disk' = Put(disk, w) /\ backup # None
      /\ UNCHANGED <<up, sessions, state, records, backup>> /\ sessions[s] # None
  BY DEF ImportKeyvault, SteppedUp, Valid, Known
<1>2. /\ w.header = backup.header /\ w.index = backup.recs /\ w.presence = Keep
      /\ w.recs = backup.recs
  OBVIOUS
<1>3. backup.header \in Header /\ backup.recs \in SUBSET RecordIds
  BY <1>1 DEF SessionInv, TypeInv, TypeOK, Backup
<1>4. backup.header # Keep /\ backup.header # None /\ backup.recs # Keep
  BY <1>3, IdsAreNotKeep, ValueAssumption
<1> HIDE DEF w
<1>5. mem = disk /\ mem' = disk'
  BY <1>1, SessionOnDisk DEF Clean
<1>6. /\ disk'.header = backup.header /\ disk'.index = backup.recs
      /\ disk'.presence = disk.presence /\ disk'.have = disk.have \cup backup.recs
  BY <1>1, <1>2, <1>4, PutParts
<1>7. Stored'
  BY <1>1, <1>4, <1>5, <1>6 DEF Clean, Stored, Exported
<1>8. Exported'
  BY <1>1 DEF Clean, Exported
<1>9. Generation \in Nat /\ Generation' = Generation + 1
  <2>1. Generation' # Generation
    <3>1. used' = [used EXCEPT !.imports = @ + 1]
      BY DEF ImportKeyvault
    <3>2. used'.vaults = used.vaults /\ used'.imports = used.imports + 1
      BY <3>1 DEF SessionInv, TypeInv, TypeOK, Used
    <3>3. used.vaults \in Nat /\ used.imports \in Nat
      BY DEF SessionInv, TypeInv, TypeOK, Used
    <3> QED
      BY <3>2, <3>3 DEF Generation
  <2> QED
    BY <1>0, <2>1, Generations DEF SessionInv
<1>10. Current'
  BY <1>1, <1>9, CurrentOfNew DEF SessionInv
<1> QED
  BY <1>7, <1>8, <1>10 DEF Clean

\* export_keyvault: the records of the chain are all there.
LEMMA CleanExport ==
  ASSUME SessionInv, Clean, NEW s \in Sessions, ExportKeyvault(s)
  PROVE  Clean'
<1>1. /\ sessions[s] # None /\ mem.header # None
      /\ backup' = [header |-> mem.header, recs |-> Containers(mem)]
      /\ UNCHANGED <<up, sessions, state, mem, disk, records, used>>
  BY DEF ExportKeyvault, SteppedUp, Valid, Known
<1>2. mem = disk
  BY <1>1, SessionOnDisk DEF Clean
<1>3. Containers(mem) = disk.index
  BY <1>2 DEF Containers, Clean, Stored
<1>4. Exported'
  BY <1>1, <1>2, <1>3 DEF Exported, Clean, Stored
<1>5. Stored'
  BY <1>1 DEF Clean, Stored
<1>6. Current'
  <2>1. Generation' = Generation
    BY <1>1 DEF Generation
  <2> QED
    BY <1>1, <2>1 DEF Clean, Current
<1> QED
  BY <1>4, <1>5, <1>6 DEF Clean


\* The header's or the passkey's entry is written anew for the same vault.
LEMMA CleanEntry ==
  ASSUME SessionInv, Clean, NEW w, w.index = Keep, w.recs = {},
         mem' = Put(mem, w), disk' = Put(disk, w), mem = disk, disk.header # None,
         w.header # Keep => w.header # None /\ w.header.key = disk.header.vault
                                            /\ w.header.vault = disk.header.vault,
         w.presence # Keep /\ w.presence # None => w.presence.key = w.presence.vault,
         UNCHANGED <<up, sessions, state, records, backup>>, Generation' = Generation
  PROVE  Clean'
<1>1. /\ disk'.header = IF w.header = Keep THEN disk.header ELSE w.header
      /\ disk'.presence = IF w.presence = Keep THEN disk.presence ELSE w.presence
      /\ disk'.index = disk.index /\ disk'.have = disk.have /\ mem' = disk'
  BY PutParts
<1>2. disk'.header # None /\ disk'.header.vault = disk.header.vault
      /\ disk'.header.key = disk.header.vault
  BY <1>1 DEF Clean, Stored
<1>3. disk'.presence # None => disk'.presence.key = disk'.presence.vault
  BY <1>1 DEF Clean, Stored
<1>4. Stored'
  BY <1>1, <1>2, <1>3 DEF Clean, Stored
<1>5. Exported'
  BY DEF Clean, Exported
<1>6. Current'
  BY <1>1, <1>2 DEF Clean, Current
<1> QED
  BY <1>4, <1>5, <1>6 DEF Clean

\* change_passphrase and the enrolment of a passkey wrap the session's vault key.
LEMMA CleanVault ==
  ASSUME SessionInv, Clean, NEW s \in Sessions, harm' = {},
         ChangePassphrase(s) \/ EnableUserPresence(s) \/ DisableUserPresence(s)
  PROVE  Clean'
<1>0. /\ [Next]_vars /\ TypeInv
      /\ sessions[s] # None /\ UNCHANGED <<up, sessions, state, records, backup>>
  BY DEF Next, Request, VaultRequest, SessionInv, ChangePassphrase, EnableUserPresence,
         DisableUserPresence, SteppedUp, Valid, Known
<1>1. mem = disk /\ disk.header # None
  BY <1>0, SessionOnDisk DEF Clean
<1>2. used \in Used /\ disk.header \in Header /\ sessions[s] \in Session
  BY <1>0, <1>1, SessionFields DEF TypeInv, TypeOK, Storage
<1>3. ASSUME SwapHarm(s) = {} PROVE sessions[s].key = disk.header.vault
  <2>1. sessions[s].gen = Generation
    BY <1>3 DEF SwapHarm
  <2> QED
    BY <1>0, <2>1 DEF Clean, Current
<1>4. CASE ChangePassphrase(s)
  <2> DEFINE h == [vault |-> mem.header.vault, key |-> sessions[s].key, kdf |-> used.kdfs + 1]
             w == [NoWrite EXCEPT !.header = h]
  <2>1. mem' = Put(mem, w) /\ disk' = Put(disk, w) /\ SwapHarm(s) = {}
    BY <1>4 DEF ChangePassphrase
  <2>2. used' = [used EXCEPT !.kdfs = @ + 1]
    BY <1>4 DEF ChangePassphrase
  <2>3. Generation' = Generation
    BY <1>2, <2>2 DEF Used, Generation
  <2>4. h.key = disk.header.vault /\ h.vault = disk.header.vault
    BY <1>1, <1>3, <2>1
  <2>5. h # None
    <3>1. h \in Header
      <4>1. used.kdfs + 1 \in 1..MaxKdfs
        BY <1>2, <1>4, BoundAssumption DEF ChangePassphrase, Used
      <4> QED
        BY <1>1, <1>2, <4>1 DEF Header, Session
    <3> QED
      BY <3>1, ValueAssumption
  <2> HIDE DEF h
  <2>6. w.header = h /\ w.index = Keep /\ w.recs = {} /\ w.presence = Keep
    BY DEF NoWrite
  <2> HIDE DEF w
  <2> QED
    BY <1>0, <1>1, <2>1, <2>3, <2>4, <2>5, <2>6, CleanEntry
<1>5. CASE EnableUserPresence(s) \/ DisableUserPresence(s)
  <2>1. PICK h, hurt : /\ PutEntries([NoWrite EXCEPT !.presence = h], acked, hurt)
                       /\ \/ h = None
                          \/ /\ h = [vault |-> mem.header.vault, key |-> sessions[s].key,
                                     kdf |-> mem.header.kdf]
                             /\ hurt = SwapHarm(s)
    BY <1>5 DEF EnableUserPresence, DisableUserPresence
  <2> DEFINE w == [NoWrite EXCEPT !.presence = h]
  <2>2. w.header = Keep /\ w.index = Keep /\ w.recs = {} /\ w.presence = h
    BY DEF NoWrite
  <2>3. PutEntries(w, acked, hurt)
    BY <2>1
  <2> HIDE DEF w
  <2>4. mem' = Put(mem, w) /\ disk' = Put(disk, w) /\ hurt = {} /\ used' = used
    BY <2>3 DEF PutEntries
  <2>5. h # None => h.key = h.vault
    BY <1>1, <1>3, <2>1, <2>4
  <2>6. Generation' = Generation
    BY <2>4 DEF Generation
  <2> QED
    BY <1>0, <1>1, <2>2, <2>4, <2>5, <2>6, CleanEntry
<1> QED
  BY <1>4, <1>5

\* The appends make records.
LEMMA AppendsGrow ==
  ASSUME TypeInv, NEW s \in Sessions, Appends(s)
  PROVE  records' # records
<1>0. records \in Seq(Record) /\ Len(records) \in Nat
  BY DEF TypeInv, TypeOK
<1>1. CASE InitIdentity(s)
  <2>1. PICK c, d : records' = records \o <<c, d>>
    BY <1>1 DEF InitIdentity
  <2>2. Len(records \o <<c, d>>) = Len(records) + 2
    BY <1>0
  <2> QED
    BY <1>0, <2>1, <2>2
<1>2. CASE ~InitIdentity(s)
  <2>1. PICK c : records' = Append(records, c)
    BY <1>2 DEF Appends, StoreAppMasterKey, IngestKeyEnvelope, OpenResource, Append1
  <2> QED
    BY <1>0, <2>1
<1> QED
  BY <1>1, <1>2

\* A vault that is read gives the end of its chain (LoadKeyvault).
LEMMA ReloadsLast ==
  ASSUME TypeInv, NEW key, Loads(mem, key), mem = disk, disk.index \subseteq disk.have,
         state' = LoadKeyvault(mem)
  PROVE  state'.head = Cardinality(disk.index) /\ LastIn(records, disk.index, state'.hash)
<1> DEFINE R == Containers(mem)
<1>1. R = disk.index
  BY DEF Containers
<1>2. R # {} => \E i \in R : records[i].seq = Cardinality(R)
  BY LoadsLast
<1>3. /\ state'.head = Cardinality(R)
      /\ state'.hash = IF R = {} THEN 0 ELSE CHOOSE i \in R : records[i].seq = Cardinality(R)
  BY DEF LoadKeyvault
<1> HIDE DEF R
<1>4. LastIn(records, R, state'.hash)
  BY <1>2, <1>3 DEF LastIn
<1> QED
  BY <1>1, <1>3, <1>4

\* Requests that write nothing.
LEMMA CleanQuiet ==
  ASSUME SessionInv, Clean, [Next]_vars,
         UNCHANGED <<up, mem, disk, records, backup, used, acked, harm>>
  PROVE  Clean'
<1>0. TypeInv /\ Generation' = Generation
  BY DEF SessionInv, Generation
<1>1. Stored' /\ Exported'
  BY DEF Clean, Stored, Exported
<1>2. ASSUME NEW t \in Sessions, sessions'[t] # None, sessions'[t].gen = Generation
      PROVE  sessions'[t].key = disk.header.vault
  <2>1. CASE sessions[t] = None
    <3>1. up /\ mem.header # None
      BY <1>0, <1>2, <2>1, SessionsBegin
    <3>2. mem = disk /\ disk.header # None /\ disk.header.key = disk.header.vault
      BY <3>1 DEF Clean, Stored
    <3>3. \/ UnlockPassphrase(t) /\ sessions'[t].key = mem.header.key
          \/ UnlockUserPresence(t) /\ sessions'[t].key = mem.presence.key
      BY <1>0, <1>2, <2>1, SessionsBegin, UnlockMakes
    <3> QED
      BY <3>2, <3>3 DEF UnlockUserPresence, Clean, Stored
  <2>2. CASE sessions[t] # None
    BY <1>0, <1>2, <2>2, SessionsLast DEF Lasts, Clean, Current
  <2> QED
    BY <2>1, <2>2
<1>3. ASSUME state' # None, ~state'.hollow, state'.gen = Generation
      PROVE  state'.head = Cardinality(disk.index) /\ LastIn(records, disk.index, state'.hash)
  <2>1. CASE Follows
    <3>1. state'.head = state.head /\ state'.hash = state.hash
      BY <1>0, <2>1, AppendsGrow DEF Follows
    <3> QED
      BY <1>3, <2>1, <3>1 DEF Follows, Clean, Current
  <2>2. ASSUME NEW t \in Sessions, Reload(t)
        PROVE  state'.head = Cardinality(disk.index) /\ LastIn(records, disk.index, state'.hash)
    <3>1. up /\ Loads(mem, sessions'[t].key) /\ state' = LoadKeyvault(mem)
      BY <2>2 DEF Reload, UnlockPassphrase, UnlockUserPresence
    <3>2. mem = disk /\ disk.index \subseteq disk.have
      BY <3>1 DEF Clean, Stored
    <3> QED
      BY <1>0, <3>1, <3>2, ReloadsLast
  <2> QED
    BY <1>0, <1>3, <2>1, <2>2, StateSteps
<1>4. Current'
  BY <1>0, <1>2, <1>3 DEF Current
<1> QED
  BY <1>1, <1>4 DEF Clean


\* Storing the records that continue the chain, and the index with them.
LEMMA CleanPersist ==
  ASSUME SessionInv, Clean, [Next]_vars, NEW s \in Sessions, sessions[s] # None, Appends(s),
         NEW ids \in SUBSET RecordIds,
         PutEntries([NoWrite EXCEPT !.recs = ids, !.index = mem.index \cup ids],
                    acked \cup ids, {}),
         harm' = {}, UNCHANGED <<up, backup>>,
         \A i \in 1..Len(records) : records'[i] = records[i],
         ChainIn(records', disk.index \cup ids, disk.header.vault),
         state'.head = Cardinality(disk.index \cup ids),
         LastIn(records', disk.index \cup ids, state'.hash)
  PROVE  Clean'
<1>0. TypeInv /\ mem = disk /\ disk.header # None
  BY SessionOnDisk DEF SessionInv, Clean
<1>1. disk.index \in SUBSET RecordIds /\ disk.index \subseteq 1..Len(records)
  BY <1>0 DEF TypeInv, TypeOK, Storage, IdsExist
<1> DEFINE x == disk.index \cup ids
           w == [NoWrite EXCEPT !.recs = ids, !.index = x]
<1>2. w.header = Keep /\ w.presence = Keep /\ w.index = x /\ w.recs = ids
  BY DEF NoWrite
<1>3. PutEntries(w, acked \cup ids, {})
  BY <1>0
<1>4. x # Keep
  <2>1. x \in SUBSET RecordIds
    BY <1>1
  <2> HIDE DEF x
  <2> QED
    BY <2>1, IdsAreNotKeep
<1> HIDE DEF w, x
<1>5. mem' = Put(mem, w) /\ disk' = Put(disk, w) /\ used' = used
  BY <1>3 DEF PutEntries
<1>6. /\ disk'.header = disk.header /\ disk'.presence = disk.presence
      /\ disk'.index = x /\ disk'.have = disk.have \cup ids /\ mem' = disk'
  BY <1>0, <1>2, <1>4, <1>5, PutParts
<1>7. Generation' = Generation
  BY <1>5 DEF Generation
<1>8. Stored'
  BY <1>0, <1>6 DEF Clean, Stored, x
<1>9. Exported'
  <2>1. ASSUME backup # None PROVE \A i \in backup.recs : records'[i] = records[i]
    BY <1>0, <2>1 DEF TypeInv, IdsExist
  <2> QED
    BY <2>1, ChainKept DEF Clean, Exported
<1>10. ASSUME NEW t \in Sessions, sessions'[t] # None, sessions'[t].gen = Generation
       PROVE  sessions'[t].key = disk.header.vault
  <2>1. sessions[t] # None
    <3> SUFFICES ASSUME sessions[t] = None PROVE FALSE
      OBVIOUS
    <3>1. records' = records
      BY <1>0, <1>10, SessionsBegin, SessionRequestsAreQuiet DEF SessionRequest
    <3> QED
      BY <1>0, <3>1, AppendsGrow
  <2> QED
    BY <1>0, <1>10, <2>1, SessionsLast DEF Lasts, Clean, Current
<1>11. Current'
  BY <1>6, <1>7, <1>10 DEF Current, x
<1> QED
  BY <1>8, <1>9, <1>11 DEF Clean

\* An append that harms nothing continues the chain: the loaded vault is the stored
\* one and the session holds its key.
LEMMA CleanAppend ==
  ASSUME SessionInv, Clean, [Next]_vars, NEW s \in Sessions, Appends(s), harm' = {}
  PROVE  Clean'
<1>0. TypeInv /\ sessions[s] # None /\ state # None /\ UNCHANGED <<up, backup>>
  BY AppendsPut DEF SessionInv
<1>1. mem = disk /\ disk.header # None /\ disk.header.key = disk.header.vault
  BY <1>0, SessionOnDisk DEF Clean, Stored
<1>2. AppendHarm(s) = {}
  BY <1>0, AppendsPut DEF PutEntries
<1>3. ~state.hollow /\ state.gen = Generation /\ sessions[s].gen = Generation
  BY <1>2 DEF AppendHarm
<1> DEFINE R == disk.index
           v == disk.header.vault
<1>4. /\ sessions[s].key = v /\ state.head = Cardinality(R) /\ LastIn(records, R, state.hash)
      /\ ChainIn(records, R, v)
  BY <1>0, <1>1, <1>3 DEF Clean, Current, Stored
<1>5. /\ records \in Seq(Record) /\ Len(records) \in Nat /\ R \subseteq 1..Len(records)
      /\ R \subseteq RecordIds
  BY <1>0 DEF TypeInv, TypeOK, IdsExist, Storage
<1>6. IsFiniteSet(R)
  <2>1. IsFiniteSet(RecordIds)
    BY FS_Interval, BoundAssumption DEF RecordIds
  <2> QED
    BY <1>5, <2>1, FS_Subset
<1>7. /\ state \in Loaded /\ state.hash \in RecordIds \cup {0}
      /\ state.head \in Nat
  BY <1>0, StateFields, BoundAssumption DEF RecordIds
<1> DEFINE a == Len(records) + 1
<1> HIDE DEF R, v
<1>8. ASSUME NEW item \in Items, NEW c, c = Container(s, item, state.head + 1, state.hash),
             state.head < MaxRecords
      PROVE  /\ c \in Record
             /\ ChainIn(Append(records, c), R \cup {a}, v) /\ LastIn(Append(records, c), R \cup {a}, a)
             /\ Cardinality(R \cup {a}) = state.head + 1 /\ IsFiniteSet(R \cup {a})
  <2>1. state.head + 1 \in RecordIds
    BY <1>7, <1>8, BoundAssumption DEF RecordIds
  <2>2. c \in Record
    BY <1>0, <1>1, <1>7, <1>8, <2>1, ContainerType
  <2>3. c.seq = Cardinality(R) + 1 /\ c.prev = state.hash /\ c.vault = v /\ c.key = v
    BY <1>1, <1>4, <1>8 DEF Container, v
  <2> QED
    BY <1>4, <1>5, <1>6, <2>2, <2>3, ChainGrows
<1>9. CASE InitIdentity(s)
  <2> DEFINE n == state.head
             b == Len(records) + 2
             c == Container(s, <<"user", 0>>, n + 1, state.hash)
             d == Container(s, <<"device", 0>>, n + 2, a)
             more == Append(records, c)
  <2>1. /\ records' = records \o <<c, d>>
        /\ state' = [state EXCEPT !.head = n + 2, !.hash = b,
                       !.keys = @ \cup {<<"user", 0>>, <<"device", 0>>}]
        /\ PutEntries([NoWrite EXCEPT !.recs = {a, b}, !.index = mem.index \cup {a, b}],
                      acked \cup {a, b}, {})
    BY <1>2, <1>9 DEF InitIdentity
  <2>2. n < MaxRecords /\ n + 2 \in RecordIds /\ a \in RecordIds /\ b \in RecordIds
    <3>1. Len(records) + 1 < MaxRecords /\ state.head + 1 < MaxRecords
      BY <1>9 DEF InitIdentity
    <3>2. Len(records) \in Nat /\ state.head \in Nat /\ MaxRecords \in Nat
      BY <1>5, <1>7, BoundAssumption
    <3> QED
      BY <3>1, <3>2 DEF RecordIds
  <2>3. /\ c \in Record
        /\ ChainIn(more, R \cup {a}, v) /\ LastIn(more, R \cup {a}, a)
        /\ Cardinality(R \cup {a}) = n + 1 /\ IsFiniteSet(R \cup {a})
    BY <1>8, <2>2, ItemsOf
  <2>4. d \in Record
    BY <1>0, <1>1, <2>2, ContainerType, ItemsOf
  <2>5. d.seq = n + 2 /\ d.prev = a /\ d.vault = v /\ d.key = v
    BY <1>1, <1>4 DEF Container, v
  <2> HIDE DEF c, d
  <2>6. more \in Seq(Record) /\ Len(more) = a
    BY <1>5, <2>3
  <2>7. R \cup {a} \subseteq 1..Len(more)
    <3>1. a \in 1..a /\ 1..Len(records) \subseteq 1..a
      BY <1>5
    <3> HIDE DEF more, a
    <3> QED
      BY <1>5, <2>6, <3>1
  <2>8. records' = Append(more, d)
    BY <1>5, <2>1, <2>3, <2>4
  <2>9. \A i \in 1..Len(records) : records'[i] = records[i]
    BY <1>5, <2>1
  <2>10. Len(more) + 1 = b /\ d.seq = Cardinality(R \cup {a}) + 1
    BY <1>5, <1>7, <2>3, <2>5, <2>6
  <2> HIDE DEF more
  <2>11. /\ ChainIn(Append(more, d), (R \cup {a}) \cup {b}, v)
         /\ LastIn(Append(more, d), (R \cup {a}) \cup {b}, b)
         /\ Cardinality((R \cup {a}) \cup {b}) = n + 2
    <3>1. /\ ChainIn(Append(more, d), (R \cup {a}) \cup {Len(more) + 1}, v)
          /\ LastIn(Append(more, d), (R \cup {a}) \cup {Len(more) + 1}, Len(more) + 1)
          /\ Cardinality((R \cup {a}) \cup {Len(more) + 1}) = Cardinality(R \cup {a}) + 1
      BY <2>3, <2>4, <2>5, <2>6, <2>7, <2>10, ChainGrows
    <3>2. Cardinality(R \cup {a}) + 1 = n + 2
      BY <1>7, <2>3
    <3> HIDE DEF a, b, n
    <3> QED
      BY <2>10, <3>1, <3>2
  <2>12. (R \cup {a}) \cup {b} = disk.index \cup {a, b} /\ {a, b} \in SUBSET RecordIds
    BY <2>2 DEF R
  <2>13. state'.head = n + 2 /\ state'.hash = b
    BY <1>7, <2>1 DEF Loaded
  <2> HIDE DEF a, b, n
  <2> QED
    BY <1>0, <2>1, <2>8, <2>9, <2>11, <2>12, <2>13, CleanPersist DEF v
<1>10. CASE ~InitIdentity(s)
  <2>0. PICK item \in Items : \/ Append1(s, item, state)
                              \/ \E g \in Grants : Append1(s, item, [state EXCEPT !.chain = g])
    BY <1>10, ItemsOf DEF Appends, StoreAppMasterKey, IngestKeyEnvelope, OpenResource
  <2>1. PICK st \in {state} \cup {[state EXCEPT !.chain = g] : g \in Grants} :
            /\ Append1(s, item, st)
            /\ st = state \/ \E g \in Grants : st = [state EXCEPT !.chain = g]
    BY <2>0
  <2> DEFINE c == Container(s, item, state.head + 1, state.hash)
  <2>2. /\ records' = Append(records, c) /\ state.head < MaxRecords /\ Len(records) < MaxRecords
        /\ state' = [st EXCEPT !.head = @ + 1, !.hash = a, !.keys = @ \cup {item}]
        /\ PutEntries([NoWrite EXCEPT !.recs = {a}, !.index = mem.index \cup {a}],
                      acked \cup {a}, {})
    BY <1>2, <2>1 DEF Append1
  <2>3. /\ c \in Record /\ ChainIn(Append(records, c), R \cup {a}, v)
        /\ LastIn(Append(records, c), R \cup {a}, a)
        /\ Cardinality(R \cup {a}) = state.head + 1
    BY <1>8, <2>2
  <2> HIDE DEF c
  <2>4. \A i \in 1..Len(records) : records'[i] = records[i]
    BY <1>5, <2>2, <2>3
  <2>5. {a} \in SUBSET RecordIds
    BY <1>5, <2>2, BoundAssumption DEF RecordIds
  <2>6. st \in Loaded /\ st.head = state.head
    BY <1>7, <2>1 DEF Loaded
  <2>7. state'.head = state.head + 1 /\ state'.hash = a
    BY <2>2, <2>6 DEF Loaded
  <2> HIDE DEF a
  <2> QED
    BY <1>0, <2>2, <2>3, <2>4, <2>5, <2>7, CleanPersist DEF R, v
<1> QED
  BY <1>9, <1>10


\* The invariant is inductive.
LEMMA VaultNext ==
  ASSUME VaultInv, SessionInv', [Next]_vars
  PROVE  VaultInv'
<1>0. SessionInv /\ GenInv /\ AckInv /\ TypeInv /\ TypeInv'
  BY DEF VaultInv, SessionInv
<1>1. GenInv'
  BY <1>0, GenNext
<1>2. AckInv'
  BY <1>0, AckNext
<1>3. ASSUME harm' = {} PROVE Clean'
  <2>0. Clean
    BY <1>0, <1>3, HarmGrows DEF VaultInv
  <2>1. CASE CreateRuntime \/ WorkerDies
    BY <1>0, <2>0, <2>1, CleanWorker
  <2>2. CASE CreateVault
    BY <1>0, <1>3, <2>0, <2>2, CleanCreate
  <2>3. CASE UNCHANGED <<up, mem, disk, records, backup, used, acked, harm>>
    BY <1>0, <2>0, <2>3, CleanQuiet
  <2>4. ASSUME NEW s \in Sessions, ExportKeyvault(s) PROVE Clean'
    BY <1>0, <2>0, <2>4, CleanExport
  <2>5. ASSUME NEW s \in Sessions, ImportKeyvault(s) PROVE Clean'
    BY <1>0, <1>3, <2>0, <2>5, CleanImport
  <2>6. ASSUME NEW s \in Sessions,
               ChangePassphrase(s) \/ EnableUserPresence(s) \/ DisableUserPresence(s)
        PROVE  Clean'
    BY <1>0, <1>3, <2>0, <2>6, CleanVault
  <2>7. ASSUME NEW s \in Sessions, Appends(s) PROVE Clean'
    BY <1>0, <1>3, <2>0, <2>7, CleanAppend
  <2> QED
    BY <2>1, <2>2, <2>3, <2>4, <2>5, <2>6, <2>7, Steps
<1> QED
  BY <1>1, <1>2, <1>3 DEF VaultInv

\* Whoever unlocks, locks, exports, imports, changes the passphrase or dies: what a
\* client was told is stored is on disk and loads, unless the vault was harmed in one
\* of the ways harm names.
THEOREM KeysAlwaysSurvive == Spec => []KeysSurvive
<1>1. Init => VaultInv
  <2> SUFFICES ASSUME Init PROVE SessionInv => VaultInv
    <3>1. Init => SessionInv
      BY InitSessions
    <3> QED
      BY <3>1
  <2>1. /\ disk.index = {} /\ disk.header = None /\ disk.presence = None /\ disk.have = {}
        /\ acked = {} /\ up = FALSE /\ state = None /\ backup = None
        /\ \A s \in Sessions : sessions[s] = None
    BY DEF Init, EmptyStorage
  <2> QED
    BY <2>1 DEF VaultInv, GenInv, AckInv, Clean, Stored, Exported, Current
<1>2. VaultInv /\ SessionInv' /\ [Next]_vars => VaultInv'
  BY VaultNext
<1>3. VaultInv => KeysSurvive
  <2> SUFFICES ASSUME VaultInv PROVE VaultReloads /\ AckedOnDisk
    BY DEF KeysSurvive
  <2>1. AckedOnDisk
    BY DEF VaultInv, AckInv, AckedOnDisk
  <2>2. ASSUME harm = {}, disk.header # None
        PROVE  /\ Loads(disk, disk.header.key)
               /\ Materialized(acked) \subseteq Materialized(Containers(disk))
               /\ up => mem = disk
    <3>1. Stored
      BY <2>2 DEF VaultInv, Clean
    <3>2. Containers(disk) = disk.index
      BY <3>1 DEF Stored, Containers
    <3>3. Loads(disk, disk.header.key)
      BY <2>2, <3>1, <3>2, ChainLoads DEF Stored
    <3>4. acked \subseteq Containers(disk)
      BY <2>1, <2>2 DEF AckedOnDisk
    <3> QED
      BY <3>1, <3>3, <3>4 DEF Stored, Materialized
  <2> QED
    BY <2>1, <2>2 DEF VaultReloads
<1> QED
  BY <1>1, <1>2, <1>3, SessionsHold, PTL DEF Spec

=============================================================================
