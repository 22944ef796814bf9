-------------------------- MODULE SyncEngineProofs --------------------------
(***************************************************************************)
(* Theorems about SyncEngine.                                              *)
(***************************************************************************)
EXTENDS SyncEngine, TLAPS, FiniteSetTheorems, SequenceTheorems, NaturalsInduction,
        WellFoundedInduction

-----------------------------------------------------------------------------
(* Numbers and finite sets *)

LEMMA LeastNumber ==
    ASSUME NEW T \in SUBSET Nat, T # {}
    PROVE  \E x \in T : \A y \in T : x <= y
<1>1. PICK x \in T : \A y \in T : ~(<<y, x>> \in OpToRel(<, Nat))
  BY NatLessThanWellFounded, WFMin
<1>2. \A y \in T : ~(y < x)
  BY <1>1 DEF OpToRel
<1> QED BY <1>2

HasLargest(S) == \E x \in S : \A y \in S : y <= x

LEMMA LargestNumber ==
    ASSUME NEW S \in SUBSET Nat, IsFiniteSet(S), S # {}
    PROVE  HasLargest(S)
<1> DEFINE Lacks(T) == T \in SUBSET Nat /\ IsFiniteSet(T) /\ T # {} /\ ~HasLargest(T)
           Bad == {n \in Nat : \E T \in SUBSET Nat : Lacks(T) /\ Cardinality(T) = n}
<1>1. SUFFICES ASSUME ~HasLargest(S) PROVE FALSE
  OBVIOUS
<1>2. Cardinality(S) \in Bad
  BY <1>1, FS_CardinalityType
<1>3. PICK n \in Bad : \A i \in Bad : n <= i
  BY <1>2, LeastNumber
<1>4. PICK T \in SUBSET Nat : Lacks(T) /\ Cardinality(T) = n
  BY <1>3
<1>5. PICK x \in T : TRUE
  BY <1>4
<1> DEFINE U == T \ {x}
<1>6. IsFiniteSet(U) /\ Cardinality(U) = n - 1 /\ U \in SUBSET Nat
  BY <1>4, <1>5, FS_RemoveElement
<1>7. U # {}
  BY <1>4, <1>5 DEF HasLargest
<1>8. Cardinality(U) \in Nat /\ n - 1 \notin Bad
  BY <1>3, <1>6, FS_CardinalityType
<1>9. HasLargest(U)
  BY <1>6, <1>7, <1>8
<1>10. PICK m \in U : \A y \in U : y <= m
  BY <1>9 DEF HasLargest
<1>11. m \in Nat /\ x \in Nat /\ \A y \in T : y = x \/ y <= m
  BY <1>5, <1>6, <1>10
<1>12. CASE x <= m
  BY <1>4, <1>10, <1>11, <1>12 DEF HasLargest
<1>13. CASE m < x
  BY <1>4, <1>5, <1>11, <1>13 DEF HasLargest
<1> QED BY <1>11, <1>12, <1>13

LEMMA CountUpTo ==
    ASSUME NEW n \in Nat
    PROVE  IsFiniteSet(1..n) /\ Cardinality(1..n) = n
<1>1. 1 \in Int /\ n \in Int
  OBVIOUS
<1>2. IsFiniteSet(1..n) /\ Cardinality(1..n) = IF 1 > n THEN 0 ELSE n - 1 + 1
  BY ONLY <1>1, FS_Interval
<1> QED BY <1>2

LEMMA FiniteImage ==
    ASSUME NEW f, NEW S, IsFiniteSet(S)
    PROVE  IsFiniteSet({f[x] : x \in S})
<1> DEFINE T == {f[x] : x \in S}
           g == [x \in S |-> f[x]]
<1>1. g \in Surjection(S, T)
  BY DEF Surjection
<1> QED BY <1>1, FS_Surjection

\* The largest number of a column, or 0: what MAX(..) with COALESCE answers.
LargestOf(f, Y) ==
  LET vs == {f[x] : x \in Y} \cup {0}
  IN  CHOOSE v \in vs : \A w \in vs : w <= v

LEMMA LargestOfColumn ==
    ASSUME NEW X, NEW f \in [X -> Nat], NEW Y \in SUBSET X,
           IsFiniteSet({x \in X : f[x] # 0})
    PROVE  /\ LargestOf(f, Y) \in Nat /\ \A x \in Y : f[x] <= LargestOf(f, Y)
           /\ LargestOf(f, Y) = 0 \/ \E x \in Y : f[x] = LargestOf(f, Y)
<1> DEFINE Z == {x \in X : f[x] # 0}
           vs == {f[x] : x \in Y} \cup {0}
           m == LargestOf(f, Y)
<1>0. m = CHOOSE v \in vs : \A w \in vs : w <= v
  BY DEF LargestOf
<1> HIDE DEF m
<1>1. IsFiniteSet({f[x] : x \in Z})
  BY FiniteImage
<1>2. IsFiniteSet({f[x] : x \in Z} \cup {0})
  BY <1>1, FS_AddElement
<1>3. vs \in SUBSET ({f[x] : x \in Z} \cup {0})
  OBVIOUS
<1>4. IsFiniteSet(vs)
  BY <1>2, <1>3, FS_Subset
<1>5. vs \in SUBSET Nat /\ vs # {}
  OBVIOUS
<1>6. HasLargest(vs)
  BY <1>4, <1>5, LargestNumber
<1>7. m \in vs /\ \A w \in vs : w <= m
  BY <1>0, <1>6 DEF HasLargest
<1>8. m \in Nat /\ (\A x \in Y : f[x] <= m) /\ (m = 0 \/ \E x \in Y : f[x] = m)
  BY <1>5, <1>7
<1> QED BY <1>8 DEF m

-----------------------------------------------------------------------------
(* The invariant: what the tables, the requests and the threads hold *)

\* The log holds an event once, and no event without a version.
IdsOnce(s) == \A i, j \in DOMAIN s : s[i].id = s[j].id => i = j
Versioned(s) == \A i \in DOMAIN s : s[i].ver # 0
LogOK(l) == l \in Seq(Entry) /\ IdsOnce(l) /\ Versioned(l)

\* A database has finitely many rows.
Rows(v, c, d) == {e \in EventIds : v[d][e] # 0 \/ c[d][e] # 0}
RowsOK(v, c) ==
  /\ v \in [Dbs -> [EventIds -> Nat]] /\ c \in [Dbs -> [EventIds -> Nat]]
  /\ \A d \in Dbs : IsFiniteSet(Rows(v, c, d))

\* A mapping names the position of its event.
MapOK(l, m) ==
  /\ m \in [Dbs -> [EventIds -> 0..Len(l)]]
  /\ \A d \in Dbs, e \in EventIds : m[d][e] # 0 => l[m[d][e]].id = e

\* Every entry of an answer names the position of its event ...
Holds(l, p) == \A k \in DOMAIN p : p[k].seq \in DOMAIN l /\ l[p[k].seq].id = p[k].id
\* ... and a page of a pull or of a conflict is a piece of the log.
Follows(l, at, p) == \A k \in DOMAIN p :
  at + k \in DOMAIN l /\ p[k] = [seq |-> at + k, id |-> l[at + k].id, ver |-> l[at + k].ver]
HasPage(t, pc) == \/ t = "pull" /\ pc \in {"head", "reply", "apply", "cursor"}
                  \/ t = "push" /\ pc \in {"conflict", "apply"}
ThreadOK(l, t, x) ==
  /\ x \in Thread
  /\ x.at \in 0..Len(l) /\ x.head \in 0..Len(l)
  /\ Holds(l, x.page)
  /\ IdsOnce(x.batch) /\ Versioned(x.batch)
  /\ x.pc = "apply" => x.next # 0
  /\ HasPage(t, x.pc) => Follows(l, x.at, x.page)
  /\ t = "pull" /\ x.pc \in {"apply", "cursor"} => Len(x.page) # 0

\* The events of a page a thread has looked at are stored or will be inserted,
\* those of a page that was committed are stored, and so are the rows it pushes.
SeenBy(v, d, t, x) ==
  /\ x.pc = "apply" => \A k \in DOMAIN x.page :
       k < x.next => x.page[k].id \in x.insert \/ v[d][x.page[k].id] # 0
  /\ t = "pull" /\ x.pc = "cursor" => \A k \in DOMAIN x.page : v[d][x.page[k].id] # 0
  /\ \A i \in DOMAIN x.batch : v[d][x.batch[i].id] # 0
WorkOK(l, v, d, t, x) == ThreadOK(l, t, x) /\ SeenBy(v, d, t, x)
ThreadsOK(l, v, s) ==
  /\ s \in [Engines -> [Threads -> Thread]]
  /\ \A n \in Engines, t \in Threads : WorkOK(l, v, DbOf[n], t, s[n][t])

OrphansOK(o) ==
  /\ o \subseteq [at : Nat, batch : Seq(Entry)]
  /\ \A m \in o : IdsOnce(m.batch) /\ Versioned(m.batch)

CountsOK == faults \in 0..MaxFaults /\ resets \in 0..MaxResets /\ rushed \in BOOLEAN /\ taken \in BOOLEAN

EngineInv ==
  /\ LogOK(log) /\ RowsOK(ver, csn) /\ MapOK(log, map)
  /\ cursor \in [Dbs -> 0..Len(log)] /\ known \in [Engines -> NoHead..Len(log)]
  /\ ThreadsOK(log, ver, th) /\ OrphansOK(orphans) /\ CountsOK

-----------------------------------------------------------------------------
(* What is said of a log or of a database stays true when it grows *)

Grows(l, m) == Len(l) <= Len(m) /\ \A i \in 1..Len(l) : m[i] = l[i]
Keeps(v, w) == \A d \in Dbs, e \in EventIds : v[d][e] # 0 => w[d][e] # 0

LEMMA EntryIds ==
    ASSUME NEW s \in Seq(Entry)
    PROVE  \A i \in DOMAIN s : s[i] \in Entry /\ s[i].id \in EventIds /\ s[i].ver \in Nat
<1>1. \A x \in Entry : x.id \in EventIds /\ x.ver \in Nat
  BY DEF Entry
<1>2. \A i \in DOMAIN s : s[i] \in Entry
  OBVIOUS
<1> QED BY <1>1, <1>2

LEMMA PageIds ==
    ASSUME NEW s \in Seq(PageEntry)
    PROVE  \A i \in DOMAIN s : /\ s[i] \in PageEntry /\ s[i].id \in EventIds
                               /\ s[i].ver \in Nat /\ s[i].seq \in Nat
<1>1. \A x \in PageEntry : x.id \in EventIds /\ x.ver \in Nat /\ x.seq \in Nat
  BY DEF PageEntry
<1>2. \A i \in DOMAIN s : s[i] \in PageEntry
  OBVIOUS
<1> QED BY <1>1, <1>2

LEMMA GrowsSame == ASSUME NEW l \in Seq(Entry) PROVE Grows(l, l)
  BY DEF Grows

LEMMA KeepsSame == ASSUME NEW v PROVE Keeps(v, v)
  BY DEF Keeps

LEMMA ThreadGrows ==
    ASSUME NEW l \in Seq(Entry), NEW m \in Seq(Entry), Grows(l, m),
           NEW t \in Threads, NEW x, ThreadOK(l, t, x)
    PROVE  ThreadOK(m, t, x)
<1>1. /\ x \in Thread /\ x.at \in 0..Len(l) /\ x.head \in 0..Len(l) /\ Holds(l, x.page)
      /\ IdsOnce(x.batch) /\ Versioned(x.batch)
      /\ x.pc = "apply" => x.next # 0
      /\ HasPage(t, x.pc) => Follows(l, x.at, x.page)
      /\ t = "pull" /\ x.pc \in {"apply", "cursor"} => Len(x.page) # 0
  BY DEF ThreadOK
<1>2. DOMAIN l \subseteq DOMAIN m /\ \A i \in DOMAIN l : m[i] = l[i]
  BY DEF Grows
<1>3. x.at \in 0..Len(m) /\ x.head \in 0..Len(m)
  BY <1>1 DEF Grows
<1>4. Holds(m, x.page)
  BY <1>1, <1>2 DEF Holds
<1>5. HasPage(t, x.pc) => Follows(m, x.at, x.page)
  BY <1>1, <1>2 DEF Follows
<1> QED BY <1>1, <1>3, <1>4, <1>5 DEF ThreadOK

LEMMA SeenGrows ==
    ASSUME NEW v, NEW w, Keeps(v, w), NEW d \in Dbs,
           NEW t \in Threads, NEW x \in Thread, SeenBy(v, d, t, x)
    PROVE  SeenBy(w, d, t, x)
<1>0. x.page \in Seq(PageEntry) /\ x.batch \in Seq(Entry)
  BY DEF Thread
<1>1. \A k \in DOMAIN x.page : x.page[k].id \in EventIds
  BY <1>0, PageIds
<1>2. \A i \in DOMAIN x.batch : x.batch[i].id \in EventIds
  BY <1>0, EntryIds
<1>3. \A e \in EventIds : v[d][e] # 0 => w[d][e] # 0
  BY DEF Keeps
<1> QED BY <1>1, <1>2, <1>3 DEF SeenBy

LEMMA ThreadsGrow ==
    ASSUME NEW l \in Seq(Entry), NEW m \in Seq(Entry), Grows(l, m),
           NEW v, NEW w, Keeps(v, w), NEW s, ThreadsOK(l, v, s)
    PROVE  ThreadsOK(m, w, s)
<1>1. ASSUME NEW n \in Engines, NEW t \in Threads PROVE WorkOK(m, w, DbOf[n], t, s[n][t])
  <2>1. DbOf[n] \in Dbs
    BY EngineConstants
  <2>2. ThreadOK(l, t, s[n][t]) /\ SeenBy(v, DbOf[n], t, s[n][t]) /\ s[n][t] \in Thread
    BY DEF ThreadsOK, WorkOK
  <2> QED BY <2>1, <2>2, ThreadGrows, SeenGrows DEF WorkOK
<1> QED BY <1>1 DEF ThreadsOK

\* One thread goes on.
LEMMA ThreadsStep ==
    ASSUME NEW l, NEW v, NEW s, ThreadsOK(l, v, s),
           NEW n \in Engines, NEW t \in Threads, NEW x, WorkOK(l, v, DbOf[n], t, x)
    PROVE  ThreadsOK(l, v, [s EXCEPT ![n][t] = x])
<1> DEFINE s1 == [s EXCEPT ![n][t] = x]
<1>1. x \in Thread
  BY DEF WorkOK, ThreadOK
<1>2. s \in [Engines -> [Threads -> Thread]]
  BY DEF ThreadsOK
<1>3. s1 \in [Engines -> [Threads -> Thread]]
  BY <1>1, <1>2
<1>4. \A m \in Engines, u \in Threads : s1[m][u] = IF m = n /\ u = t THEN x ELSE s[m][u]
  BY <1>2
<1> HIDE DEF s1
<1>5. \A m \in Engines, u \in Threads : WorkOK(l, v, DbOf[m], u, s1[m][u])
  BY <1>4 DEF ThreadsOK
<1>6. ThreadsOK(l, v, s1)
  BY <1>3, <1>5 DEF ThreadsOK
<1> QED BY <1>6 DEF s1

\* What Woken does to the other thread.
LEMMA WokenWork ==
    ASSUME NEW l, NEW v, NEW d, NEW t \in Threads, NEW u \in Threads, NEW x, WorkOK(l, v, d, u, x)
    PROVE  WorkOK(l, v, d, u, [x EXCEPT !.pc = Woken(t, @)])
<1> DEFINE y == [x EXCEPT !.pc = Woken(t, x.pc)]
<1>1. x \in Thread
  BY DEF WorkOK, ThreadOK
<1>2. \/ Woken(t, x.pc) = x.pc
      \/ x.pc \in {"joined", "waiting"} /\ Woken(t, x.pc) \in {"check", "recheck"}
  BY DEF Woken
<1>3. /\ y \in Thread /\ y.pc = Woken(t, x.pc) /\ y.at = x.at /\ y.head = x.head
      /\ y.page = x.page /\ y.next = x.next /\ y.insert = x.insert /\ y.batch = x.batch
  BY <1>1, <1>2 DEF Thread, PushLabels
<1>4. /\ y.pc = "apply" <=> x.pc = "apply"
      /\ y.pc = "cursor" <=> x.pc = "cursor"
      /\ y.pc = "head" <=> x.pc = "head"
      /\ y.pc = "reply" <=> x.pc = "reply"
      /\ y.pc = "conflict" <=> x.pc = "conflict"
  BY <1>2, <1>3
<1>5. HasPage(u, y.pc) <=> HasPage(u, x.pc)
  BY <1>4 DEF HasPage
<1> HIDE DEF y
<1>6. ThreadOK(l, u, y)
  BY <1>3, <1>4, <1>5 DEF WorkOK, ThreadOK
<1>7. SeenBy(v, d, u, y)
  BY <1>3, <1>4 DEF WorkOK, SeenBy
<1>8. WorkOK(l, v, d, u, y)
  BY <1>6, <1>7 DEF WorkOK
<1> QED BY <1>8 DEF y

\* One thread ends.
LEMMA ThreadsLeave ==
    ASSUME NEW l, NEW v, ThreadsOK(l, v, th),
           NEW n \in Engines, NEW t \in Threads, NEW x, WorkOK(l, v, DbOf[n], t, x), Leaves(n, t, x)
    PROVE  /\ ThreadsOK(l, v, th')
           /\ \A m \in Engines, u \in Threads :
                th'[m][u] = IF m # n THEN th[m][u] ELSE IF u = t THEN x
                            ELSE [th[n][u] EXCEPT !.pc = Woken(t, @)]
<1> DEFINE y(u) == IF u = t THEN x ELSE [th[n][u] EXCEPT !.pc = Woken(t, @)]
<1>1. th \in [Engines -> [Threads -> Thread]]
  BY DEF ThreadsOK
<1>2. th' = [th EXCEPT ![n] = [u \in Threads |-> y(u)]]
  BY DEF Leaves
<1>3. ASSUME NEW u \in Threads PROVE WorkOK(l, v, DbOf[n], u, y(u))
  <2>1. CASE u = t
    BY <2>1
  <2>2. CASE u # t
    <3>1. WorkOK(l, v, DbOf[n], u, th[n][u])
      BY DEF ThreadsOK
    <3> QED BY <2>2, <3>1, WokenWork
  <2> QED BY <2>1, <2>2
<1> HIDE DEF y
<1>4. \A u \in Threads : y(u) \in Thread
  BY <1>3 DEF WorkOK, ThreadOK
<1>5. th' \in [Engines -> [Threads -> Thread]]
  BY <1>1, <1>2, <1>4
<1>6. \A m \in Engines, u \in Threads : th'[m][u] = IF m # n THEN th[m][u] ELSE y(u)
  BY <1>1, <1>2
<1>7. \A m \in Engines, u \in Threads : WorkOK(l, v, DbOf[m], u, th'[m][u])
  BY <1>3, <1>6 DEF ThreadsOK
<1> QED BY <1>5, <1>6, <1>7 DEF ThreadsOK, y

\* A thread that does nothing.
LEMMA IdleThread ==
    /\ Idle \in Thread /\ Idle.pc = "idle" /\ Idle.at = 0 /\ Idle.head = 0
    /\ Idle.page = <<>> /\ Idle.next = 0 /\ Idle.insert = {} /\ Idle.batch = <<>> /\ Idle.tries = 0
<1>1. "idle" \in PullLabels \cup PushLabels
  BY DEF PullLabels
<1>2. <<>> \in Seq(PageEntry) /\ <<>> \in Seq(Entry)
  OBVIOUS
<1> QED BY <1>1, <1>2 DEF Idle, Thread

LEMMA IdleWork ==
    ASSUME NEW l \in Seq(Entry), NEW v, NEW d, NEW t \in Threads, NEW pc \in {"idle", "parked"}
    PROVE  WorkOK(l, v, d, t, [Idle EXCEPT !.pc = pc]) /\ WorkOK(l, v, d, t, Idle)
<1>1. \A p \in {"idle", "parked"} : WorkOK(l, v, d, t, [Idle EXCEPT !.pc = p])
  <2>1. TAKE p \in {"idle", "parked"}
  <2> DEFINE y == [Idle EXCEPT !.pc = p]
  <2>2. /\ y \in Thread /\ y.pc = p /\ y.at = 0 /\ y.head = 0 /\ y.page = <<>> /\ y.batch = <<>>
    BY IdleThread DEF Thread, PullLabels
  <2> HIDE DEF y
  <2>3. ThreadOK(l, t, y)
    BY <2>2 DEF ThreadOK, Holds, IdsOnce, Versioned, HasPage
  <2>4. SeenBy(v, d, t, y)
    BY <2>2 DEF SeenBy
  <2>5. WorkOK(l, v, d, t, y)
    BY <2>3, <2>4 DEF WorkOK
  <2> QED BY <2>5 DEF y
<1>2. Idle = [Idle EXCEPT !.pc = "idle"]
  BY DEF Idle
<1> QED BY <1>1, <1>2

-----------------------------------------------------------------------------
(* The steps keep the invariant: steps of a thread *)

LEMMA PageFacts ==
    ASSUME log \in Seq(Entry), NEW since \in 0..Len(log), NEW limit \in Nat \ {0}
    PROVE  /\ Page(since, limit) \in Seq(PageEntry)
           /\ Follows(log, since, Page(since, limit)) /\ Holds(log, Page(since, limit))
           /\ since + Len(Page(since, limit)) \in 0..Len(log)
           /\ Len(log) <= limit => since + Len(Page(since, limit)) = Len(log)
<1> DEFINE size == IF since >= Len(log) THEN 0
                   ELSE IF Len(log) - since < limit THEN Len(log) - since ELSE limit
           p == Page(since, limit)
<1>1. /\ size \in Nat /\ since + size \in 0..Len(log) /\ since \in Nat
      /\ Len(log) <= limit => since + size = Len(log)
  OBVIOUS
<1>2. p = [k \in 1..size |-> [seq |-> since + k, id |-> log[since + k].id, ver |-> log[since + k].ver]]
  BY DEF Page
<1> HIDE DEF p
<1>3. \A k \in 1..size : since + k \in DOMAIN log
  BY <1>1
<1> HIDE DEF size
<1>4. \A k \in 1..size : [seq |-> since + k, id |-> log[since + k].id, ver |-> log[since + k].ver] \in PageEntry
  BY <1>1, <1>3, EntryIds DEF PageEntry
<1>5. p \in Seq(PageEntry) /\ Len(p) = size /\ DOMAIN p = 1..size
  <2>1. p \in [1..size -> PageEntry]
    BY <1>2, <1>4
  <2> QED BY <1>1, <2>1
<1>6. Follows(log, since, p)
  BY <1>2, <1>3, <1>5 DEF Follows
<1>7. Holds(log, p)
  BY <1>6 DEF Follows, Holds
<1> QED BY <1>1, <1>5, <1>6, <1>7 DEF p

LEMMA OneThread ==
    ASSUME EngineInv, NEW n \in Engines, NEW t \in Threads, NEW x,
           WorkOK(log, ver, DbOf[n], t, x), Becomes(n, t, x) \/ Leaves(n, t, x),
           cursor' \in [Dbs -> 0..Len(log)], known' \in [Engines -> NoHead..Len(log)],
           OrphansOK(orphans'), CountsOK', UNCHANGED <<log, ver, csn, map>>
    PROVE  EngineInv'
<1>1. ThreadsOK(log, ver, th')
  <2>1. ThreadsOK(log, ver, th)
    BY DEF EngineInv
  <2>2. CASE Becomes(n, t, x)
    BY <2>1, <2>2, ThreadsStep DEF Becomes
  <2>3. CASE Leaves(n, t, x)
    BY <2>1, <2>3, ThreadsLeave
  <2> QED BY <2>2, <2>3
<1>2. log' = log /\ ver' = ver /\ csn' = csn /\ map' = map
  OBVIOUS
<1> QED BY <1>1, <1>2 DEF EngineInv

\* What the invariant says of one thread.
LEMMA ThreadFacts ==
    ASSUME EngineInv, NEW n \in Engines, NEW t \in Threads
    PROVE  /\ DbOf[n] \in Dbs /\ log \in Seq(Entry) /\ Len(log) \in Nat /\ th[n][t] \in Thread
           /\ WorkOK(log, ver, DbOf[n], t, th[n][t])
           /\ ThreadOK(log, t, th[n][t]) /\ SeenBy(ver, DbOf[n], t, th[n][t])
           /\ th[n][t].page \in Seq(PageEntry) /\ th[n][t].batch \in Seq(Entry)
           /\ th[n][t].at \in 0..Len(log) /\ th[n][t].head \in 0..Len(log)
           /\ th[n][t].next \in Nat /\ th[n][t].insert \in SUBSET EventIds
           /\ cursor[DbOf[n]] \in 0..Len(log) /\ known[n] \in NoHead..Len(log)
<1>1. DbOf[n] \in Dbs
  BY EngineConstants
<1>2. log \in Seq(Entry) /\ WorkOK(log, ver, DbOf[n], t, th[n][t])
  BY DEF EngineInv, LogOK, ThreadsOK
<1>3. ThreadOK(log, t, th[n][t]) /\ SeenBy(ver, DbOf[n], t, th[n][t])
  BY <1>2 DEF WorkOK
<1>4. th[n][t] \in Thread /\ th[n][t].at \in 0..Len(log) /\ th[n][t].head \in 0..Len(log)
  BY <1>3 DEF ThreadOK
<1>5. /\ th[n][t].page \in Seq(PageEntry) /\ th[n][t].batch \in Seq(Entry)
      /\ th[n][t].next \in Nat /\ th[n][t].insert \in SUBSET EventIds
  BY <1>4 DEF Thread
<1>6. cursor[DbOf[n]] \in 0..Len(log) /\ known[n] \in NoHead..Len(log)
  BY <1>1 DEF EngineInv
<1> QED BY <1>1, <1>2, <1>3, <1>4, <1>5, <1>6

\* A thread at a label that says nothing about its page.
LEMMA PlainWork ==
    ASSUME NEW l, NEW v, NEW d, NEW t \in Threads, NEW x, NEW y \in Thread,
           WorkOK(l, v, d, t, x), y.pc \notin {"head", "reply", "apply", "cursor", "conflict"},
           y.at \in 0..Len(l), y.head \in 0..Len(l),
           y.page = x.page \/ y.page = <<>>, y.batch = x.batch \/ y.batch = <<>>
    PROVE  WorkOK(l, v, d, t, y)
<1>1. ThreadOK(l, t, x) /\ SeenBy(v, d, t, x)
  BY DEF WorkOK
<1>2. Holds(l, y.page)
  BY <1>1 DEF ThreadOK, Holds
<1>3. IdsOnce(y.batch) /\ Versioned(y.batch)
  BY <1>1 DEF ThreadOK, IdsOnce, Versioned
<1>4. ~HasPage(t, y.pc)
  BY DEF HasPage
<1>5. ThreadOK(l, t, y)
  BY <1>2, <1>3, <1>4 DEF ThreadOK
<1>6. \A i \in DOMAIN y.batch : v[d][y.batch[i].id] # 0
  BY <1>1 DEF SeenBy
<1>7. SeenBy(v, d, t, y)
  BY <1>6 DEF SeenBy
<1> QED BY <1>5, <1>7 DEF WorkOK

LEMMA CountsSame == ASSUME CountsOK, UNCHANGED <<faults, resets, rushed, taken>> PROVE CountsOK'
  BY DEF CountsOK

LEMMA InvParts ==
    ASSUME EngineInv
    PROVE  /\ LogOK(log) /\ log \in Seq(Entry) /\ RowsOK(ver, csn) /\ MapOK(log, map)
           /\ cursor \in [Dbs -> 0..Len(log)] /\ known \in [Engines -> NoHead..Len(log)]
           /\ ThreadsOK(log, ver, th) /\ OrphansOK(orphans) /\ CountsOK
  BY DEF EngineInv, LogOK

\* The thread x became, or left as.
Same == UNCHANGED <<log, ver, csn, map, cursor, known, orphans, faults, resets, rushed, taken>>

LEMMA SameStep ==
    ASSUME EngineInv, NEW n \in Engines, NEW t \in Threads, NEW x,
           WorkOK(log, ver, DbOf[n], t, x), Becomes(n, t, x) \/ Leaves(n, t, x), Same
    PROVE  EngineInv'
<1>1. /\ cursor' = cursor /\ known' = known /\ orphans' = orphans
      /\ UNCHANGED <<log, ver, csn, map>> /\ UNCHANGED <<faults, resets, rushed, taken>>
  BY DEF Same
<1>2. CountsOK'
  BY <1>1, InvParts, CountsSame
<1> QED BY <1>1, <1>2, InvParts, OneThread

\* The fields of a thread after a change.
LEMMA Relabelled ==
    ASSUME NEW x \in Thread, NEW pc \in PullLabels \cup PushLabels
    PROVE  LET y == [x EXCEPT !.pc = pc]
           IN  /\ y \in Thread /\ y.pc = pc /\ y.at = x.at /\ y.head = x.head /\ y.page = x.page
               /\ y.more = x.more /\ y.next = x.next /\ y.insert = x.insert
               /\ y.tries = x.tries /\ y.batch = x.batch
  BY DEF Thread

StartPullTo(n, x) ==
  /\ x \in Thread /\ x.pc = "query" /\ x.at = cursor[DbOf[n]] /\ x.head = 0
  /\ x.page = <<>> /\ x.batch = <<>> /\ Becomes(n, "pull", x)

LEMMA StartPullStep ==
    ASSUME EngineInv, NEW n \in Engines, StartPull(n)
    PROVE  Same /\ \E x : StartPullTo(n, x)
<1>1. "pull" \in Threads
  BY DEF Threads
<1> DEFINE c == cursor[DbOf[n]]
           x == [Idle EXCEPT !.pc = "query", !.at = c]
<1>2. c \in Int
  BY <1>1, ThreadFacts
<1>3. Same /\ Becomes(n, "pull", x)
  BY DEF StartPull, Same
<1> HIDE DEF c
<1>4. /\ x \in Thread /\ x.pc = "query" /\ x.at = c /\ x.head = 0
      /\ x.page = <<>> /\ x.batch = <<>>
  BY <1>2, IdleThread DEF Thread, PullLabels
<1> HIDE DEF x
<1>5. StartPullTo(n, x)
  BY <1>3, <1>4 DEF StartPullTo, c
<1> QED BY <1>3, <1>5

LEMMA StartPullInv ==
    ASSUME EngineInv, NEW n \in Engines, StartPull(n) PROVE EngineInv'
<1>1. "pull" \in Threads
  BY DEF Threads
<1>2. cursor[DbOf[n]] \in 0..Len(log) /\ log \in Seq(Entry) /\ Len(log) \in Nat
  BY <1>1, ThreadFacts
<1>3. PICK x : Same /\ StartPullTo(n, x)
  BY StartPullStep
<1>5. WorkOK(log, ver, DbOf[n], "pull", Idle)
  BY <1>1, <1>2, IdleWork
<1>6. WorkOK(log, ver, DbOf[n], "pull", x)
  BY <1>1, <1>2, <1>3, <1>5, IdleThread, PlainWork DEF StartPullTo
<1> QED BY <1>1, <1>3, <1>6, SameStep DEF StartPullTo

ServePageTo(n, x) ==
  /\ pull(n).pc = "query"
  /\ x \in Thread /\ x.pc = "head" /\ x.at = pull(n).at /\ x.head = pull(n).head
  /\ x.page \in Seq(PageEntry) /\ Follows(log, pull(n).at, x.page) /\ Holds(log, x.page)
  /\ x.batch = pull(n).batch /\ Becomes(n, "pull", x)

LEMMA ServePageStep ==
    ASSUME EngineInv, NEW n \in Engines, ServePage(n)
    PROVE  Same /\ \E x : ServePageTo(n, x)
<1> DEFINE p == Page(pull(n).at, PullLimit)
           x == [pull(n) EXCEPT !.pc = "head", !.page = p]
<1>1. "pull" \in Threads /\ pull(n) = th[n]["pull"]
  BY DEF Threads, pull
<1>2. /\ pull(n) \in Thread /\ log \in Seq(Entry) /\ pull(n).at \in 0..Len(log)
  BY <1>1, ThreadFacts
<1>3. p \in Seq(PageEntry) /\ Follows(log, pull(n).at, p) /\ Holds(log, p)
  BY <1>2, PageFacts, EngineConstants
<1>4. pull(n).pc = "query" /\ Becomes(n, "pull", x) /\ Same
  BY DEF ServePage, Same
<1> HIDE DEF p
<1>5. /\ x \in Thread /\ x.pc = "head" /\ x.at = pull(n).at /\ x.head = pull(n).head
      /\ x.page = p /\ x.batch = pull(n).batch
  BY <1>2, <1>3 DEF Thread, PullLabels
<1> HIDE DEF x
<1>6. ServePageTo(n, x)
  BY <1>3, <1>4, <1>5 DEF ServePageTo
<1> QED BY <1>4, <1>6

LEMMA ServePageInv ==
    ASSUME EngineInv, NEW n \in Engines, ServePage(n) PROVE EngineInv'
<1>1. "pull" \in Threads /\ pull(n) = th[n]["pull"]
  BY DEF Threads, pull
<1>2. /\ ThreadOK(log, "pull", pull(n)) /\ SeenBy(ver, DbOf[n], "pull", pull(n))
  BY <1>1, ThreadFacts
<1>3. PICK x : Same /\ ServePageTo(n, x)
  BY ServePageStep
<1>4. ThreadOK(log, "pull", x)
  BY <1>2, <1>3 DEF ThreadOK, ServePageTo
<1>5. SeenBy(ver, DbOf[n], "pull", x)
  BY <1>2, <1>3 DEF SeenBy, ServePageTo
<1> QED BY <1>1, <1>3, <1>4, <1>5, SameStep DEF WorkOK, ServePageTo

ServeHeadTo(n, x) ==
  /\ pull(n).pc = "head"
  /\ x \in Thread /\ x.pc = "reply" /\ x.at = pull(n).at /\ x.head = Len(log)
  /\ x.page = pull(n).page /\ x.batch = pull(n).batch /\ Becomes(n, "pull", x)

LEMMA ServeHeadStep ==
    ASSUME EngineInv, NEW n \in Engines, ServeHead(n)
    PROVE  Same /\ \E x : ServeHeadTo(n, x)
<1> DEFINE size == Len(pull(n).page)
           m == (size = PullLimit /\ Len(log) > pull(n).at + size)
           x == [pull(n) EXCEPT !.pc = "reply", !.head = Len(log), !.more = m]
<1>1. "pull" \in Threads /\ pull(n) = th[n]["pull"]
  BY DEF Threads, pull
<1>2. pull(n) \in Thread /\ Len(log) \in Nat
  BY <1>1, ThreadFacts
<1>3. m \in BOOLEAN
  OBVIOUS
<1>4. pull(n).pc = "head" /\ Becomes(n, "pull", x) /\ Same
  BY DEF ServeHead, Same
<1> HIDE DEF m
<1>5. /\ x \in Thread /\ x.pc = "reply" /\ x.at = pull(n).at /\ x.head = Len(log)
      /\ x.page = pull(n).page /\ x.batch = pull(n).batch
  BY <1>2, <1>3 DEF Thread, PullLabels
<1> HIDE DEF x
<1>6. ServeHeadTo(n, x)
  BY <1>4, <1>5 DEF ServeHeadTo
<1> QED BY <1>4, <1>6

LEMMA ServeHeadInv ==
    ASSUME EngineInv, NEW n \in Engines, ServeHead(n) PROVE EngineInv'
<1>1. "pull" \in Threads /\ pull(n) = th[n]["pull"]
  BY DEF Threads, pull
<1>2. /\ ThreadOK(log, "pull", pull(n)) /\ SeenBy(ver, DbOf[n], "pull", pull(n)) /\ Len(log) \in Nat
  BY <1>1, ThreadFacts
<1>3. PICK x : Same /\ ServeHeadTo(n, x)
  BY ServeHeadStep
<1>4. ThreadOK(log, "pull", x)
  BY <1>2, <1>3 DEF ThreadOK, HasPage, ServeHeadTo
<1>5. SeenBy(ver, DbOf[n], "pull", x)
  BY <1>2, <1>3 DEF SeenBy, ServeHeadTo
<1> QED BY <1>1, <1>3, <1>4, <1>5, SameStep DEF WorkOK, ServeHeadTo

\* Threads that end, and those that leave for a retry.
LEMMA EndsInv ==
    ASSUME EngineInv, NEW n \in Engines, NEW t \in Threads, Ends(n, t) \/ Parks(n, t),
           UNCHANGED <<log, ver, csn, map>>, cursor' \in [Dbs -> 0..Len(log)],
           known' \in [Engines -> NoHead..Len(log)], OrphansOK(orphans'), CountsOK'
    PROVE  EngineInv'
<1>1. log \in Seq(Entry)
  BY InvParts
<1>2. CASE Ends(n, t)
  <2>1. WorkOK(log, ver, DbOf[n], t, Idle) /\ Leaves(n, t, Idle)
    BY <1>1, <1>2, IdleWork DEF Ends
  <2> QED BY <2>1, OneThread
<1>3. CASE Parks(n, t)
  <2> DEFINE x == [Idle EXCEPT !.pc = "parked"]
  <2>1. WorkOK(log, ver, DbOf[n], t, x) /\ Leaves(n, t, x)
    BY <1>1, <1>3, IdleWork DEF Parks
  <2> HIDE DEF x
  <2> QED BY <2>1, OneThread
<1> QED BY <1>2, <1>3

ReceivePageTo(n, x) ==
  /\ pull(n).pc = "reply"
  /\ x \in Thread /\ x.at = pull(n).at /\ x.head = 0 /\ x.page = pull(n).page /\ x.batch = pull(n).batch
  /\ \/ x.pc = "finish"
     \/ x.pc = "apply" /\ x.next = 1 /\ x.insert = {} /\ Len(x.page) # 0
  /\ Becomes(n, "pull", x)

LEMMA ReceivePageStep ==
    ASSUME EngineInv, NEW n \in Engines, ReceivePage(n)
    PROVE  /\ \E x : ReceivePageTo(n, x)
           /\ known' = [known EXCEPT ![n] = pull(n).head]
           /\ UNCHANGED <<log, ver, csn, map, cursor, orphans, faults, resets, rushed, taken>>
<1> DEFINE x == [pull(n) EXCEPT !.head = 0]
           y == [x EXCEPT !.pc = "finish"]
           z == [x EXCEPT !.pc = "apply", !.next = 1, !.insert = {}]
<1>1. "pull" \in Threads /\ pull(n) = th[n]["pull"]
  BY DEF Threads, pull
<1>2. pull(n) \in Thread /\ pull(n).page \in Seq(PageEntry)
  BY <1>1, ThreadFacts
<1>3. pull(n).pc = "reply" /\ Becomes(n, "pull", IF x.page = <<>> THEN y ELSE z)
  BY DEF ReceivePage, Applying
<1>4. x \in Thread /\ x.page = pull(n).page /\ x.at = pull(n).at /\ x.batch = pull(n).batch /\ x.head = 0
  BY <1>2 DEF Thread
<1>5. /\ y \in Thread /\ y.pc = "finish" /\ y.at = pull(n).at /\ y.head = 0
      /\ y.page = pull(n).page /\ y.batch = pull(n).batch
  <2> HIDE DEF x
  <2> QED BY <1>4 DEF Thread, PullLabels
<1>6. /\ z \in Thread /\ z.pc = "apply" /\ z.at = pull(n).at /\ z.head = 0
      /\ z.page = pull(n).page /\ z.batch = pull(n).batch /\ z.next = 1 /\ z.insert = {}
  <2> HIDE DEF x
  <2> QED BY <1>4 DEF Thread, PullLabels
<1> HIDE DEF x, y, z
<1>7. CASE x.page = <<>>
  <2>1. ReceivePageTo(n, y)
    BY <1>3, <1>5, <1>7 DEF ReceivePageTo
  <2> QED BY <2>1 DEF ReceivePage
<1>8. CASE x.page # <<>>
  <2>1. Len(z.page) # 0
    BY <1>2, <1>4, <1>6, <1>8
  <2>2. ReceivePageTo(n, z)
    BY <1>3, <1>6, <1>8, <2>1 DEF ReceivePageTo
  <2> QED BY <2>2 DEF ReceivePage
<1> QED BY <1>7, <1>8

LEMMA ReceivePageInv ==
    ASSUME EngineInv, NEW n \in Engines, ReceivePage(n) PROVE EngineInv'
<1>1. "pull" \in Threads /\ pull(n) = th[n]["pull"]
  BY DEF Threads, pull
<1>2. /\ ThreadOK(log, "pull", pull(n)) /\ SeenBy(ver, DbOf[n], "pull", pull(n)) /\ Len(log) \in Nat
      /\ pull(n).head \in 0..Len(log) /\ pull(n).page \in Seq(PageEntry)
  BY <1>1, ThreadFacts
<1>3. PICK x : ReceivePageTo(n, x)
  BY ReceivePageStep
<1>4. ThreadOK(log, "pull", x)
  BY <1>2, <1>3 DEF ThreadOK, HasPage, ReceivePageTo
<1>5. SeenBy(ver, DbOf[n], "pull", x)
  <2>1. x.pc = "apply" => \A k \in DOMAIN x.page : ~(k < x.next)
    BY <1>2, <1>3 DEF ReceivePageTo
  <2> QED BY <1>2, <1>3, <2>1 DEF SeenBy, ReceivePageTo
<1>6. known' \in [Engines -> NoHead..Len(log)]
  BY <1>2, ReceivePageStep, InvParts DEF NoHead
<1>7. Becomes(n, "pull", x)
  BY <1>3 DEF ReceivePageTo
<1>8. WorkOK(log, ver, DbOf[n], "pull", x)
  BY <1>4, <1>5 DEF WorkOK
<1>9. /\ cursor' = cursor /\ orphans' = orphans /\ UNCHANGED <<log, ver, csn, map>>
      /\ UNCHANGED <<faults, resets, rushed, taken>>
  BY ReceivePageStep
<1>10. CountsOK'
  BY <1>9, InvParts, CountsSame
<1> QED BY <1>1, <1>6, <1>7, <1>8, <1>9, <1>10, OneThread, InvParts

WriteCursorTo(n, x, last) ==
  /\ pull(n).pc = "cursor" /\ last = pull(n).page[Len(pull(n).page)].seq
  /\ x \in Thread /\ x.pc \in {"query", "finish"} /\ x.at = last /\ x.head = 0 /\ x.page = <<>>
  /\ x.batch = pull(n).batch /\ Becomes(n, "pull", x)
  /\ cursor' = [cursor EXCEPT ![DbOf[n]] = last]
  /\ last = pull(n).at + Len(pull(n).page) /\ last \in 0..Len(log)

LEMMA WriteCursorStep ==
    ASSUME EngineInv, NEW n \in Engines, WriteCursor(n)
    PROVE  /\ \E x, last : WriteCursorTo(n, x, last)
           /\ UNCHANGED <<log, ver, csn, map, known, orphans, faults, resets, rushed, taken>>
<1> DEFINE last == pull(n).page[Len(pull(n).page)].seq
           pc == IF pull(n).more THEN "query" ELSE "finish"
           x == [pull(n) EXCEPT !.pc = pc, !.at = last, !.page = <<>>, !.head = 0]
<1>1. "pull" \in Threads /\ pull(n) = th[n]["pull"]
  BY DEF Threads, pull
<1>2. /\ pull(n) \in Thread /\ pull(n).page \in Seq(PageEntry) /\ log \in Seq(Entry)
      /\ ThreadOK(log, "pull", pull(n)) /\ pull(n).at \in Nat
  BY <1>1, ThreadFacts
<1>3. /\ pull(n).pc = "cursor" /\ Becomes(n, "pull", x)
      /\ cursor' = [cursor EXCEPT ![DbOf[n]] = last]
  BY DEF WriteCursor
<1>4. last = pull(n).at + Len(pull(n).page) /\ last \in 0..Len(log)
  <2>1. Len(pull(n).page) # 0 /\ Follows(log, pull(n).at, pull(n).page)
    BY <1>2, <1>3 DEF ThreadOK, HasPage
  <2> DEFINE k == Len(pull(n).page)
  <2>2. k \in DOMAIN pull(n).page
    BY <1>2, <2>1
  <2> HIDE DEF k
  <2>3. /\ pull(n).at + k \in DOMAIN log
        /\ pull(n).page[k] = [seq |-> pull(n).at + k, id |-> log[pull(n).at + k].id,
                              ver |-> log[pull(n).at + k].ver]
    BY <2>1, <2>2 DEF Follows
  <2>4. pull(n).page[k].seq = pull(n).at + k
    BY <2>3
  <2> QED BY <1>2, <2>3, <2>4 DEF k
<1>5. /\ last \in Int /\ pc \in PullLabels \cup PushLabels /\ pc \in {"query", "finish"}
      /\ <<>> \in Seq(PageEntry)
  BY <1>4 DEF PullLabels
<1> HIDE DEF last, pc
<1>6. /\ x \in Thread /\ x.pc = pc /\ x.at = last /\ x.head = 0 /\ x.page = <<>>
      /\ x.batch = pull(n).batch
  BY <1>2, <1>5 DEF Thread
<1> HIDE DEF x
<1>7. last = pull(n).page[Len(pull(n).page)].seq
  BY DEF last
<1>8. WriteCursorTo(n, x, last)
  BY <1>3, <1>4, <1>5, <1>6, <1>7 DEF WriteCursorTo
<1> QED BY <1>8 DEF WriteCursor

LEMMA WriteCursorInv ==
    ASSUME EngineInv, NEW n \in Engines, WriteCursor(n) PROVE EngineInv'
<1>1. "pull" \in Threads /\ pull(n) = th[n]["pull"]
  BY DEF Threads, pull
<1>2. /\ WorkOK(log, ver, DbOf[n], "pull", pull(n)) /\ Len(log) \in Nat
  BY <1>1, ThreadFacts
<1>3. PICK x, last : WriteCursorTo(n, x, last)
  BY WriteCursorStep
<1>4. /\ x \in Thread /\ x.pc \in {"query", "finish"} /\ x.at \in 0..Len(log)
      /\ x.head = 0 /\ x.page = <<>> /\ x.batch = pull(n).batch
  BY <1>3 DEF WriteCursorTo
<1>5. WorkOK(log, ver, DbOf[n], "pull", x)
  BY <1>1, <1>2, <1>4, PlainWork
<1>6. cursor' \in [Dbs -> 0..Len(log)]
  BY <1>3, InvParts DEF WriteCursorTo
<1>7. Becomes(n, "pull", x)
  BY <1>3 DEF WriteCursorTo
<1>8. /\ known' = known /\ orphans' = orphans /\ UNCHANGED <<log, ver, csn, map>>
      /\ UNCHANGED <<faults, resets, rushed, taken>>
  BY WriteCursorStep
<1>9. CountsOK'
  BY <1>8, InvParts, CountsSame
<1> QED BY <1>1, <1>5, <1>6, <1>7, <1>8, <1>9, OneThread, InvParts

LEMMA FinishPullInv ==
    ASSUME EngineInv, NEW n \in Engines, FinishPull(n) \/ FailPull(n) PROVE EngineInv'
<1>1. "pull" \in Threads
  BY DEF Threads
<1>2. /\ Ends(n, "pull") /\ UNCHANGED <<log, ver, csn, map>>
      /\ cursor' = cursor /\ known' = known /\ orphans' = orphans
  BY DEF FinishPull, FailPull
<1>3. CountsOK'
  BY InvParts, EngineConstants DEF CountsOK, FinishPull, FailPull
<1> QED BY <1>1, <1>2, <1>3, EndsInv, InvParts

-----------------------------------------------------------------------------
(* ... of the push thread *)

LEMMA PendingIsFinite ==
    ASSUME EngineInv, NEW d \in Dbs
    PROVE  IsFiniteSet(Pending(d)) /\ Cardinality(Pending(d)) \in Nat /\ Pending(d) \in SUBSET EventIds
<1>1. IsFiniteSet(Rows(ver, csn, d))
  BY InvParts DEF RowsOK
<1>2. Pending(d) \in SUBSET Rows(ver, csn, d)
  BY DEF Pending, Present, Rows
<1> QED BY <1>1, <1>2, FS_Subset, FS_CardinalityType DEF Rows

LoadPendingTo(n, x) ==
  LET d == DbOf[n] IN
  /\ x \in Thread /\ x.pc = "expect" /\ x.at = 0 /\ x.head = 0 /\ x.page = <<>>
  /\ IsBatch(d, x.batch) /\ Becomes(n, "push", x)

LEMMA LoadPendingStep ==
    ASSUME EngineInv, NEW n \in Engines, LoadPending(n)
    PROVE  Same /\ ((\E x : LoadPendingTo(n, x)) \/ Ends(n, "push"))
<1> DEFINE d == DbOf[n]
<1>1. "push" \in Threads /\ push(n) = th[n]["push"]
  BY DEF Threads, push
<1>2. push(n) \in Thread /\ d \in Dbs
  BY <1>1, ThreadFacts
<1>3. SUFFICES ASSUME ~Ends(n, "push") PROVE \E x : LoadPendingTo(n, x)
  BY DEF LoadPending, Same
<1> DEFINE k == push(n).tries + 1
           X(b) == [Idle EXCEPT !.pc = "expect", !.batch = b, !.tries = k]
<1>4. PICK b \in [1..BatchLength(d) -> PendingRows(d)] : IsBatch(d, b) /\ Becomes(n, "push", X(b))
  BY <1>3 DEF LoadPending
<1>5. BatchLength(d) \in Nat
  BY <1>2, PendingIsFinite, EngineConstants DEF BatchLength
<1>6. PendingRows(d) \subseteq Entry
  <2>1. ver[d] \in [EventIds -> Nat]
    BY <1>2, InvParts DEF RowsOK
  <2>2. Pending(d) \subseteq EventIds
    BY DEF Pending
  <2> QED BY <2>1, <2>2 DEF PendingRows, Entry
<1>7. b \in Seq(Entry)
  <2>1. b \in [1..BatchLength(d) -> Entry]
    BY <1>4, <1>6
  <2> QED BY <1>5, <2>1
<1>8. k \in Nat
  BY <1>2 DEF Thread
<1> HIDE DEF k
<1>9. /\ X(b) \in Thread /\ X(b).pc = "expect" /\ X(b).at = 0 /\ X(b).head = 0 /\ X(b).page = <<>>
      /\ X(b).batch = b
  BY <1>7, <1>8, IdleThread DEF Thread, PushLabels
<1> HIDE DEF X
<1>10. LoadPendingTo(n, X(b))
  BY <1>4, <1>9 DEF LoadPendingTo
<1> QED BY <1>10

LEMMA BatchFacts ==
    ASSUME EngineInv, NEW d \in Dbs, NEW b \in Seq(Entry), IsBatch(d, b)
    PROVE  /\ IdsOnce(b) /\ Versioned(b) /\ \A i \in DOMAIN b : ver[d][b[i].id] # 0
           /\ \A i \in DOMAIN b : b[i].ver = ver[d][b[i].id]
<1>1. \A i \in DOMAIN b : b[i].id \in EventIds
  BY EntryIds
<1>2. csn[d] \in [EventIds -> Nat] /\ ver[d] \in [EventIds -> Nat]
  BY InvParts DEF RowsOK
<1>3. \A i \in DOMAIN b : ver[d][b[i].id] # 0 /\ b[i].ver = ver[d][b[i].id]
  BY DEF IsBatch, Pending, Present
<1>4. IdsOnce(b)
  <2>1. SUFFICES ASSUME NEW i \in DOMAIN b, NEW j \in DOMAIN b, b[i].id = b[j].id PROVE i = j
    BY DEF IdsOnce
  <2>2. i \in Nat /\ j \in Nat
    OBVIOUS
  <2>3. csn[d][b[i].id] \in Nat
    BY <1>1, <1>2
  <2>4. ~(i < j) /\ ~(j < i)
    BY <2>1, <2>3 DEF IsBatch
  <2> QED BY <2>2, <2>4
<1> QED BY <1>3, <1>4 DEF Versioned

LEMMA LoadPendingInv ==
    ASSUME EngineInv, NEW n \in Engines, LoadPending(n) PROVE EngineInv'
<1>1. "push" \in Threads
  BY DEF Threads
<1>2. DbOf[n] \in Dbs /\ log \in Seq(Entry) /\ Len(log) \in Nat
  BY <1>1, ThreadFacts
<1>3. CASE Ends(n, "push") /\ Same
  <2>1. WorkOK(log, ver, DbOf[n], "push", Idle) /\ Leaves(n, "push", Idle)
    BY <1>1, <1>2, <1>3, IdleWork DEF Ends
  <2> QED BY <1>1, <1>3, <2>1, SameStep
<1>4. ASSUME NEW x, Same, LoadPendingTo(n, x) PROVE EngineInv'
  <2>1. /\ x \in Thread /\ x.pc = "expect" /\ x.at = 0 /\ x.head = 0 /\ x.page = <<>>
        /\ IsBatch(DbOf[n], x.batch) /\ Becomes(n, "push", x)
    BY <1>4 DEF LoadPendingTo
  <2>2. x.batch \in Seq(Entry)
    BY <2>1 DEF Thread
  <2>3. IdsOnce(x.batch) /\ Versioned(x.batch) /\ \A i \in DOMAIN x.batch : ver[DbOf[n]][x.batch[i].id] # 0
    BY <1>2, <2>1, <2>2, BatchFacts
  <2>4. ThreadOK(log, "push", x)
    BY <1>2, <2>1, <2>3 DEF ThreadOK, Holds, HasPage
  <2>5. SeenBy(ver, DbOf[n], "push", x)
    BY <2>1, <2>3 DEF SeenBy
  <2> QED BY <1>1, <1>4, <2>1, <2>4, <2>5, SameStep DEF WorkOK
<1> QED BY <1>3, <1>4, LoadPendingStep

LEMMA PushFacts ==
    ASSUME EngineInv, NEW n \in Engines
    PROVE  /\ "push" \in Threads /\ push(n) = th[n]["push"] /\ push(n) \in Thread
           /\ DbOf[n] \in Dbs /\ log \in Seq(Entry) /\ Len(log) \in Nat
           /\ WorkOK(log, ver, DbOf[n], "push", push(n)) /\ ThreadOK(log, "push", push(n))
           /\ SeenBy(ver, DbOf[n], "push", push(n))
           /\ push(n).page \in Seq(PageEntry) /\ push(n).batch \in Seq(Entry)
           /\ push(n).at \in 0..Len(log) /\ push(n).head \in 0..Len(log)
           /\ cursor[DbOf[n]] \in 0..Len(log) /\ known[n] \in NoHead..Len(log)
<1>1. "push" \in Threads /\ push(n) = th[n]["push"]
  BY DEF Threads, push
<1> QED BY <1>1, ThreadFacts

ReadExpectedHeadTo(n, x) ==
  /\ push(n).pc = "expect"
  /\ x \in Thread /\ x.pc = "sent" /\ x.at \in 0..Len(log) /\ x.head = push(n).head
  /\ x.page = push(n).page /\ x.batch = push(n).batch /\ Becomes(n, "push", x)
  /\ rushed' = (rushed \/ ~CaughtUp(DbOf[n], x.at, push(n).batch))

LEMMA ReadExpectedHeadStep ==
    ASSUME EngineInv, NEW n \in Engines, ReadExpectedHead(n)
    PROVE  /\ \E x : ReadExpectedHeadTo(n, x)
           /\ UNCHANGED <<log, ver, csn, map, cursor, known, orphans, faults, resets, taken>>
<1> DEFINE at == IF known[n] # NoHead THEN known[n] ELSE cursor[DbOf[n]]
           x == [push(n) EXCEPT !.pc = "sent", !.at = at]
<1>1. at \in 0..Len(log)
  BY PushFacts DEF NoHead
<1>2. /\ push(n).pc = "expect" /\ Becomes(n, "push", x)
      /\ rushed' = (rushed \/ ~CaughtUp(DbOf[n], at, push(n).batch))
  BY DEF ReadExpectedHead
<1>3. at \in Int /\ push(n) \in Thread
  BY <1>1, PushFacts
<1> HIDE DEF at
<1>4. /\ x \in Thread /\ x.pc = "sent" /\ x.at = at /\ x.head = push(n).head
      /\ x.page = push(n).page /\ x.batch = push(n).batch
  BY <1>3 DEF Thread, PushLabels
<1> HIDE DEF x
<1>5. ReadExpectedHeadTo(n, x)
  BY <1>1, <1>2, <1>4 DEF ReadExpectedHeadTo
<1> QED BY <1>5 DEF ReadExpectedHead

LEMMA ReadExpectedHeadInv ==
    ASSUME EngineInv, NEW n \in Engines, ReadExpectedHead(n) PROVE EngineInv'
<1>1. PICK x : ReadExpectedHeadTo(n, x)
  BY ReadExpectedHeadStep
<1>2. WorkOK(log, ver, DbOf[n], "push", x)
  BY <1>1, PushFacts, PlainWork DEF ReadExpectedHeadTo
<1>3. /\ cursor' = cursor /\ known' = known /\ orphans' = orphans
      /\ UNCHANGED <<log, ver, csn, map>> /\ UNCHANGED <<faults, resets, taken>>
  BY ReadExpectedHeadStep
<1>4. rushed' \in BOOLEAN
  BY <1>1, InvParts, Zenon DEF ReadExpectedHeadTo, CountsOK
<1>5. CountsOK'
  BY <1>3, <1>4, InvParts DEF CountsOK
<1> QED BY <1>1, <1>2, <1>3, <1>5, PushFacts, InvParts, OneThread DEF ReadExpectedHeadTo

RefusePushTo(n, x) ==
  /\ push(n).pc = "sent"
  /\ x \in Thread /\ x.pc = "refused" /\ x.at = push(n).at /\ x.head = push(n).head
  /\ x.page = push(n).page /\ x.batch = <<>> /\ Becomes(n, "push", x)

LEMMA RefusePushStep ==
    ASSUME EngineInv, NEW n \in Engines, RefusePush(n)
    PROVE  /\ \E x : RefusePushTo(n, x)
           /\ UNCHANGED <<log, ver, csn, map, cursor, known, orphans, resets, rushed, taken>>
<1> DEFINE x == [push(n) EXCEPT !.pc = "refused", !.batch = <<>>]
<1>1. push(n).pc = "sent" /\ Becomes(n, "push", x)
  BY DEF RefusePush
<1>2. push(n) \in Thread /\ <<>> \in Seq(Entry)
  BY PushFacts
<1>3. /\ x \in Thread /\ x.pc = "refused" /\ x.at = push(n).at /\ x.head = push(n).head
      /\ x.page = push(n).page /\ x.batch = <<>>
  BY <1>2 DEF Thread, PushLabels
<1> HIDE DEF x
<1>4. RefusePushTo(n, x)
  BY <1>1, <1>3 DEF RefusePushTo
<1> QED BY <1>4 DEF RefusePush

LEMMA RefusePushInv ==
    ASSUME EngineInv, NEW n \in Engines, RefusePush(n) PROVE EngineInv'
<1>1. PICK x : RefusePushTo(n, x)
  BY RefusePushStep
<1>2. WorkOK(log, ver, DbOf[n], "push", x)
  BY <1>1, PushFacts, PlainWork DEF RefusePushTo
<1>3. /\ cursor' = cursor /\ known' = known /\ orphans' = orphans /\ UNCHANGED <<log, ver, csn, map>>
  BY RefusePushStep
<1>4. CountsOK'
  BY InvParts, EngineConstants DEF CountsOK, RefusePush
<1> QED BY <1>1, <1>2, <1>3, <1>4, PushFacts, InvParts, OneThread DEF RefusePushTo

ServeMissingTo(n, x) ==
  /\ push(n).pc = "missing"
  /\ x \in Thread /\ x.pc = "conflict" /\ x.at = push(n).at /\ x.head = push(n).head
  /\ x.page \in Seq(PageEntry) /\ Follows(log, push(n).at, x.page) /\ Holds(log, x.page)
  /\ Len(log) <= MissingLimit => x.at + Len(x.page) = Len(log)
  /\ x.batch = push(n).batch /\ Becomes(n, "push", x)

LEMMA ServeMissingStep ==
    ASSUME EngineInv, NEW n \in Engines, ServeMissing(n)
    PROVE  Same /\ \E x : ServeMissingTo(n, x)
<1> DEFINE p == Page(push(n).at, MissingLimit)
           x == [push(n) EXCEPT !.pc = "conflict", !.page = p]
<1>1. /\ push(n) \in Thread /\ log \in Seq(Entry) /\ push(n).at \in 0..Len(log)
  BY PushFacts
<1>2. /\ p \in Seq(PageEntry) /\ Follows(log, push(n).at, p) /\ Holds(log, p)
      /\ Len(log) <= MissingLimit => push(n).at + Len(p) = Len(log)
  BY <1>1, PageFacts, EngineConstants
<1>3. push(n).pc = "missing" /\ Becomes(n, "push", x) /\ Same
  BY DEF ServeMissing, Same
<1> HIDE DEF p
<1>4. /\ x \in Thread /\ x.pc = "conflict" /\ x.at = push(n).at /\ x.head = push(n).head
      /\ x.page = p /\ x.batch = push(n).batch
  BY <1>1, <1>2 DEF Thread, PushLabels
<1> HIDE DEF x
<1>5. ServeMissingTo(n, x)
  BY <1>2, <1>3, <1>4 DEF ServeMissingTo
<1> QED BY <1>3, <1>5

LEMMA ServeMissingInv ==
    ASSUME EngineInv, NEW n \in Engines, ServeMissing(n) PROVE EngineInv'
<1>1. PICK x : Same /\ ServeMissingTo(n, x)
  BY ServeMissingStep
<1>2. ThreadOK(log, "push", x)
  BY <1>1, PushFacts DEF ThreadOK, ServeMissingTo
<1>3. SeenBy(ver, DbOf[n], "push", x)
  BY <1>1, PushFacts DEF SeenBy, ServeMissingTo
<1> QED BY <1>1, <1>2, <1>3, PushFacts, SameStep DEF WorkOK, ServeMissingTo

\* A request nobody waits for any more.
LEMMA OrphanAdded ==
    ASSUME EngineInv, NEW n \in Engines
    PROVE  OrphansOK(orphans \cup {[at |-> push(n).at, batch |-> push(n).batch]})
<1> DEFINE m == [at |-> push(n).at, batch |-> push(n).batch]
<1>1. push(n).at \in Nat /\ push(n).batch \in Seq(Entry)
  BY PushFacts
<1>2. m \in [at : Nat, batch : Seq(Entry)] /\ m.batch = push(n).batch
  BY <1>1
<1>3. IdsOnce(push(n).batch) /\ Versioned(push(n).batch)
  BY PushFacts DEF ThreadOK
<1>4. OrphansOK(orphans)
  BY InvParts
<1> HIDE DEF m
<1>5. OrphansOK(orphans \cup {m})
  BY <1>2, <1>3, <1>4 DEF OrphansOK
<1> QED BY <1>5 DEF m

LEMMA FailPushInv ==
    ASSUME EngineInv, NEW n \in Engines, FailPush(n) PROVE EngineInv'
<1>1. Ends(n, "push") /\ UNCHANGED <<log, ver, csn, map>> /\ cursor' = cursor /\ known' = known
  BY DEF FailPush
<1>2. OrphansOK(orphans')
  BY OrphanAdded, InvParts DEF FailPush
<1>3. CountsOK'
  BY InvParts, EngineConstants DEF CountsOK, FailPush
<1> QED BY <1>1, <1>2, <1>3, EndsInv, InvParts, PushFacts

ReadCursorTo(n, x) ==
  /\ \/ push(n).pc = "ack" /\ x.pc = "acked"
     \/ push(n).pc = "advance" /\ x.pc = "advanced"
  /\ x \in Thread /\ x.at = cursor[DbOf[n]] /\ x.head = push(n).head
  /\ x.page = push(n).page /\ x.batch = push(n).batch /\ Becomes(n, "push", x)

LEMMA ReadCursorStep ==
    ASSUME EngineInv, NEW n \in Engines, ReadCursor(n)
    PROVE  Same /\ \E x : ReadCursorTo(n, x)
<1> DEFINE pc == IF push(n).pc = "ack" THEN "acked" ELSE "advanced"
           at == cursor[DbOf[n]]
           x == [push(n) EXCEPT !.pc = pc, !.at = at]
<1>1. push(n).pc \in {"ack", "advance"} /\ Becomes(n, "push", x) /\ Same
  BY DEF ReadCursor, Same
<1>2. push(n) \in Thread /\ at \in Int
  BY PushFacts
<1>3. /\ pc \in PullLabels \cup PushLabels
      /\ \/ push(n).pc = "ack" /\ pc = "acked"
         \/ push(n).pc = "advance" /\ pc = "advanced"
  BY <1>1 DEF PushLabels
<1> HIDE DEF pc, at
<1>4. /\ x \in Thread /\ x.pc = pc /\ x.at = at /\ x.head = push(n).head
      /\ x.page = push(n).page /\ x.batch = push(n).batch
  BY <1>2, <1>3 DEF Thread
<1> HIDE DEF x
<1>5. ReadCursorTo(n, x)
  BY <1>1, <1>3, <1>4 DEF ReadCursorTo, at
<1> QED BY <1>1, <1>5

LEMMA ReadCursorInv ==
    ASSUME EngineInv, NEW n \in Engines, ReadCursor(n) PROVE EngineInv'
<1>1. PICK x : Same /\ ReadCursorTo(n, x)
  BY ReadCursorStep
<1>2. WorkOK(log, ver, DbOf[n], "push", x)
  BY <1>1, PushFacts, PlainWork DEF ReadCursorTo
<1> QED BY <1>1, <1>2, PushFacts, SameStep DEF ReadCursorTo

LEMMA AckPushInv ==
    ASSUME EngineInv, NEW n \in Engines, AckPush(n) PROVE EngineInv'
<1>1. /\ Ends(n, "push") /\ UNCHANGED <<log, ver, csn, map>> /\ orphans' = orphans
      /\ UNCHANGED <<faults, resets, rushed, taken>>
  BY DEF AckPush
<1>2. Larger(push(n).at, push(n).head) \in 0..Len(log)
  BY PushFacts DEF Larger
<1>3. cursor' \in [Dbs -> 0..Len(log)]
  BY <1>2, InvParts DEF AckPush
<1>4. known' \in [Engines -> NoHead..Len(log)]
  BY PushFacts, InvParts DEF AckPush, NoHead
<1>5. CountsOK'
  BY <1>1, InvParts, CountsSame
<1> QED BY <1>1, <1>3, <1>4, <1>5, EndsInv, InvParts, PushFacts

ReceiveConflictTo(n, x) ==
  /\ push(n).pc = "conflict"
  /\ x \in Thread /\ x.pc = "apply" /\ x.at = push(n).at /\ x.head = push(n).head
  /\ x.page = push(n).page /\ x.batch = push(n).batch /\ x.next = 1 /\ x.insert = {}
  /\ Becomes(n, "push", x)

LEMMA ReceiveConflictStep ==
    ASSUME EngineInv, NEW n \in Engines, ReceiveConflict(n)
    PROVE  Same /\ \E x : ReceiveConflictTo(n, x)
<1> DEFINE x == [push(n) EXCEPT !.pc = "apply", !.next = 1, !.insert = {}]
<1>1. push(n).pc = "conflict" /\ Becomes(n, "push", x) /\ Same
  BY DEF ReceiveConflict, Applying, Same
<1>2. push(n) \in Thread
  BY PushFacts
<1>3. /\ x \in Thread /\ x.pc = "apply" /\ x.at = push(n).at /\ x.head = push(n).head
      /\ x.page = push(n).page /\ x.batch = push(n).batch /\ x.next = 1 /\ x.insert = {}
  BY <1>2 DEF Thread, PushLabels
<1> HIDE DEF x
<1>4. ReceiveConflictTo(n, x)
  BY <1>1, <1>3 DEF ReceiveConflictTo
<1> QED BY <1>1, <1>4

LEMMA ReceiveConflictInv ==
    ASSUME EngineInv, NEW n \in Engines, ReceiveConflict(n) PROVE EngineInv'
<1>1. PICK x : Same /\ ReceiveConflictTo(n, x)
  BY ReceiveConflictStep
<1>2. ThreadOK(log, "push", x)
  BY <1>1, PushFacts DEF ThreadOK, HasPage, ReceiveConflictTo
<1>3. SeenBy(ver, DbOf[n], "push", x)
  <2>1. \A k \in DOMAIN x.page : ~(k < x.next)
    BY <1>1, PushFacts DEF ReceiveConflictTo
  <2> QED BY <1>1, <2>1, PushFacts DEF SeenBy, ReceiveConflictTo
<1> QED BY <1>1, <1>2, <1>3, PushFacts, SameStep DEF WorkOK, ReceiveConflictTo

RetryTo(n, x) ==
  /\ x \in Thread /\ x.pc = "retry" /\ x.at = 0 /\ x.head = 0 /\ x.page = <<>> /\ x.batch = <<>>
  /\ Becomes(n, "push", x)

LEMMA TriesAgainStep ==
    ASSUME EngineInv, NEW n \in Engines, TriesAgain(n)
    PROVE  (\E x : RetryTo(n, x)) \/ Ends(n, "push")
<1>1. SUFFICES ASSUME ~Ends(n, "push") PROVE \E x : RetryTo(n, x)
  OBVIOUS
<1> DEFINE k == push(n).tries
           x == [Idle EXCEPT !.pc = "retry", !.tries = k]
<1>2. Becomes(n, "push", x)
  BY <1>1 DEF TriesAgain
<1>3. k \in Nat
  BY PushFacts DEF Thread
<1> HIDE DEF k
<1>4. /\ x \in Thread /\ x.pc = "retry" /\ x.at = 0 /\ x.head = 0 /\ x.page = <<>> /\ x.batch = <<>>
  BY <1>3, IdleThread DEF Thread, PushLabels
<1> HIDE DEF x
<1>5. RetryTo(n, x)
  BY <1>2, <1>4 DEF RetryTo
<1> QED BY <1>5

LEMMA RetryWork ==
    ASSUME EngineInv, NEW n \in Engines, NEW x, RetryTo(n, x)
    PROVE  WorkOK(log, ver, DbOf[n], "push", x)
<1>1. WorkOK(log, ver, DbOf[n], "push", Idle)
  BY PushFacts, IdleWork
<1> QED BY <1>1, PushFacts, PlainWork, IdleThread DEF RetryTo

LEMMA AdvanceToHeadInv ==
    ASSUME EngineInv, NEW n \in Engines, AdvanceToHead(n) PROVE EngineInv'
<1>1. /\ TriesAgain(n) /\ UNCHANGED <<log, ver, csn, map>> /\ orphans' = orphans
      /\ UNCHANGED <<faults, resets, rushed, taken>>
  BY DEF AdvanceToHead
<1>2. Larger(push(n).at, push(n).head) \in 0..Len(log)
  BY PushFacts DEF Larger
<1>3. cursor' \in [Dbs -> 0..Len(log)]
  BY <1>2, InvParts DEF AdvanceToHead
<1>4. known' \in [Engines -> NoHead..Len(log)]
  BY PushFacts, InvParts DEF AdvanceToHead, NoHead
<1>5. CountsOK'
  BY <1>1, InvParts, CountsSame
<1>6. CASE Ends(n, "push")
  BY <1>1, <1>3, <1>4, <1>5, <1>6, EndsInv, InvParts, PushFacts
<1>7. ASSUME NEW x, RetryTo(n, x) PROVE EngineInv'
  BY <1>1, <1>3, <1>4, <1>5, <1>7, RetryWork, OneThread, InvParts, PushFacts DEF RetryTo
<1> QED BY <1>1, <1>6, <1>7, TriesAgainStep

\* The push turns to another of the labels around a refusal.
TurnTo(n, x) ==
  /\ x \in Thread /\ x.pc \in {"joined", "check", "waiting"} /\ x.at = push(n).at /\ x.head = push(n).head
  /\ x.page = push(n).page /\ x.batch = push(n).batch /\ Becomes(n, "push", x)

LEMMA RefusalStep ==
    ASSUME EngineInv, NEW n \in Engines, AfterRefusal(n) \/ CheckCursor(n)
    PROVE  Same /\ ((\E x : TurnTo(n, x) \/ RetryTo(n, x)) \/ Ends(n, "push"))
<1> DEFINE X(pc) == [push(n) EXCEPT !.pc = pc]
<1>1. Same
  BY DEF AfterRefusal, CheckCursor, Same
<1>2. push(n) \in Thread
  BY PushFacts
<1>3. ASSUME NEW pc \in {"joined", "check", "waiting"}, Becomes(n, "push", X(pc))
      PROVE  \E x : TurnTo(n, x)
  <2>1. pc \in PullLabels \cup PushLabels
    BY DEF PushLabels
  <2>2. /\ X(pc) \in Thread /\ X(pc).pc = pc /\ X(pc).at = push(n).at /\ X(pc).head = push(n).head
        /\ X(pc).page = push(n).page /\ X(pc).batch = push(n).batch
    BY <1>2, <2>1, Relabelled
  <2> HIDE DEF X
  <2>3. TurnTo(n, X(pc))
    BY <1>3, <2>2 DEF TurnTo
  <2> QED BY <2>3
<1>4. CASE AfterRefusal(n)
  <2> DEFINE pc == IF InFlight(n) THEN "joined" ELSE "check"
  <2>1. pc \in {"joined", "check", "waiting"} /\ Becomes(n, "push", X(pc))
    BY <1>4 DEF AfterRefusal
  <2> HIDE DEF pc, X
  <2> QED BY <1>1, <1>3, <2>1
<1>5. CASE CheckCursor(n)
  <2>1. TriesAgain(n) \/ Becomes(n, "push", X("waiting")) \/ Ends(n, "push")
    BY <1>5 DEF CheckCursor
  <2> HIDE DEF X
  <2> QED BY <1>1, <1>3, <2>1, TriesAgainStep
<1> QED BY <1>4, <1>5

LEMMA RefusalInv ==
    ASSUME EngineInv, NEW n \in Engines, AfterRefusal(n) \/ CheckCursor(n) PROVE EngineInv'
<1>1. Same
  BY RefusalStep
<1>2. CASE Ends(n, "push")
  <2>1. WorkOK(log, ver, DbOf[n], "push", Idle) /\ Leaves(n, "push", Idle)
    BY <1>2, PushFacts, IdleWork DEF Ends
  <2> QED BY <1>1, <2>1, PushFacts, SameStep
<1>3. ASSUME NEW x, RetryTo(n, x) PROVE EngineInv'
  BY <1>1, <1>3, RetryWork, PushFacts, SameStep DEF RetryTo
<1>4. ASSUME NEW x, TurnTo(n, x) PROVE EngineInv'
  <2>1. WorkOK(log, ver, DbOf[n], "push", x)
    BY <1>4, PushFacts, PlainWork DEF TurnTo
  <2> QED BY <1>1, <1>4, <2>1, PushFacts, SameStep DEF TurnTo
<1> QED BY <1>2, <1>3, <1>4, RefusalStep

-----------------------------------------------------------------------------
(* ... of the server's log *)

\* The log grew by the events of the batch it did not have, in their order.
Appended(batch) ==
  /\ LogOK(log') /\ Grows(log, log')
  /\ \A k \in DOMAIN log' : k > Len(log) =>
       \E p \in DOMAIN batch : log'[k] = batch[p] /\ batch[p].id \notin LogIds
  /\ \A j, k \in DOMAIN log' : Len(log) < j /\ j < k =>
       \E p, q \in DOMAIN batch : p < q /\ log'[j] = batch[p] /\ log'[k] = batch[q]
  /\ \A p \in DOMAIN batch : batch[p].id \notin LogIds =>
       \E k \in DOMAIN log' : k > Len(log) /\ log'[k] = batch[p]

LEMMA LogIdsAre ==
    ASSUME log \in Seq(Entry)
    PROVE  /\ LogIds \in SUBSET EventIds
           /\ \A e : e \in LogIds <=> \E k \in DOMAIN log : log[k].id = e
  BY EntryIds DEF LogIds

LEMMA Joined ==
    ASSUME NEW s \in Seq(Entry), NEW t \in Seq(Entry), NEW u, u = s \o t
    PROVE  /\ u \in Seq(Entry) /\ Len(u) = Len(s) + Len(t) /\ Len(t) \in Nat /\ DOMAIN u = 1..Len(u)
           /\ \A i \in 1..Len(s) : u[i] = s[i]
           /\ \A i \in 1..Len(t) : u[Len(s) + i] = t[i]
<1>1. u \in Seq(Entry) /\ Len(u) = Len(s) + Len(t) /\ Len(t) \in Nat
  OBVIOUS
<1>2. DOMAIN u = 1..Len(u)
  BY <1>1
<1>3. \A i \in 1..Len(s) : u[i] = s[i]
  OBVIOUS
<1>4. \A i \in 1..Len(t) : u[Len(s) + i] = t[i]
  OBVIOUS
<1> QED BY <1>1, <1>2, <1>3, <1>4

LEMMA AcceptFacts ==
    ASSUME LogOK(log), NEW batch \in Seq(Entry), IdsOnce(batch), Versioned(batch), Accept(batch)
    PROVE  Appended(batch)
<1> DEFINE N == NewRows(batch)
<1>1. log \in Seq(Entry) /\ Len(log) \in Nat /\ IdsOnce(log) /\ Versioned(log)
  BY DEF LogOK
<1>2. IsFiniteSet(N)
  <2>1. IsFiniteSet(DOMAIN batch)
    BY CountUpTo
  <2>2. IsFiniteSet({batch[p] : p \in DOMAIN batch})
    BY <2>1, FiniteImage
  <2>3. N \in SUBSET {batch[p] : p \in DOMAIN batch}
    BY DEF NewRows
  <2> QED BY <2>2, <2>3, FS_Subset
<1>3. Cardinality(N) \in Nat
  BY <1>2, FS_CardinalityType
<1>4. PICK new \in [1..Cardinality(N) -> N] : IsNewPart(new, batch) /\ log' = log \o new
  BY DEF Accept
<1>5. \A x \in N : x \in Entry /\ x.id \notin LogIds /\ x.ver # 0 /\ \E p \in DOMAIN batch : x = batch[p]
  BY EntryIds DEF NewRows, Versioned
<1>6. new \in Seq(Entry) /\ Len(new) = Cardinality(N) /\ DOMAIN new = 1..Len(new)
  <2>1. new \in [1..Cardinality(N) -> Entry]
    BY <1>4, <1>5
  <2> QED BY <1>3, <2>1
<1>7. \A i \in DOMAIN new : new[i] \in N
  BY <1>4, <1>6
<1> HIDE DEF N
<1>8. /\ log' \in Seq(Entry) /\ Len(log') = Len(log) + Len(new) /\ Len(new) \in Nat
      /\ DOMAIN log' = 1..Len(log')
      /\ \A i \in 1..Len(log) : log'[i] = log[i]
      /\ \A i \in 1..Len(new) : log'[Len(log) + i] = new[i]
  <2> DEFINE u == log'
  <2>1. u = log \o new /\ log \in Seq(Entry) /\ new \in Seq(Entry)
    BY <1>1, <1>4, <1>6
  <2> HIDE DEF u
  <2>2. /\ u \in Seq(Entry) /\ Len(u) = Len(log) + Len(new) /\ Len(new) \in Nat /\ DOMAIN u = 1..Len(u)
        /\ \A i \in 1..Len(log) : u[i] = log[i]
        /\ \A i \in 1..Len(new) : u[Len(log) + i] = new[i]
    BY ONLY <2>1, Joined
  <2> QED BY ONLY <2>2 DEF u
<1>9. \A k \in DOMAIN log' : k > Len(log) => k - Len(log) \in DOMAIN new /\ log'[k] = new[k - Len(log)]
  BY <1>1, <1>6, <1>8
<1>10. Grows(log, log')
  BY <1>1, <1>8 DEF Grows
<1>11. ASSUME NEW k \in DOMAIN log', k > Len(log)
       PROVE  /\ log'[k] \in N
              /\ \E p \in DOMAIN batch : log'[k] = batch[p] /\ batch[p].id \notin LogIds
  BY <1>5, <1>7, <1>9, <1>11
<1>12. ASSUME NEW j \in DOMAIN log', NEW k \in DOMAIN log', Len(log) < j, j < k
       PROVE  \E p, q \in DOMAIN batch : p < q /\ log'[j] = batch[p] /\ log'[k] = batch[q]
  <2>1. /\ j - Len(log) \in DOMAIN new /\ k - Len(log) \in DOMAIN new
        /\ log'[j] = new[j - Len(log)] /\ log'[k] = new[k - Len(log)] /\ j - Len(log) < k - Len(log)
    BY <1>1, <1>8, <1>9, <1>12
  <2> QED BY <1>4, <2>1 DEF IsNewPart
<1>13. ASSUME NEW p \in DOMAIN batch, batch[p].id \notin LogIds
       PROVE  \E k \in DOMAIN log' : k > Len(log) /\ log'[k] = batch[p]
  <2>1. PICK i \in DOMAIN new : new[i] = batch[p]
    BY <1>4, <1>13 DEF IsNewPart
  <2>2. Len(log) + i \in DOMAIN log' /\ Len(log) + i > Len(log) /\ log'[Len(log) + i] = new[i]
    BY <1>1, <1>6, <1>8
  <2> QED BY <2>1, <2>2
<1>14. Versioned(log')
  <2>1. SUFFICES ASSUME NEW k \in DOMAIN log' PROVE log'[k].ver # 0
    BY DEF Versioned
  <2>2. CASE k > Len(log)
    BY <1>5, <1>11, <2>2
  <2>3. CASE k \in 1..Len(log)
    BY <1>1, <1>8, <2>3 DEF Versioned
  <2> QED BY <1>1, <1>8, <2>2, <2>3
<1>15. IdsOnce(log')
  <2>1. SUFFICES ASSUME NEW j \in DOMAIN log', NEW k \in DOMAIN log', j < k PROVE log'[j].id # log'[k].id
    BY <1>8 DEF IdsOnce
  <2>2. CASE k \in 1..Len(log)
    <3>1. j \in 1..Len(log) /\ k \in 1..Len(log) /\ j # k
      BY <1>1, <1>8, <2>1, <2>2
    <3>2. j \in DOMAIN log /\ k \in DOMAIN log /\ log'[j] = log[j] /\ log'[k] = log[k]
      BY <1>1, <1>8, <3>1
    <3> QED BY <1>1, <3>1, <3>2 DEF IdsOnce
  <2>3. CASE k > Len(log) /\ j \in 1..Len(log)
    <3>1. j \in DOMAIN log /\ log'[j] = log[j]
      BY <1>1, <1>8, <2>3
    <3>2. log[j].id \in LogIds
      BY <3>1 DEF LogIds
    <3>3. log'[k].id \notin LogIds
      BY <1>5, <1>11, <2>3
    <3> QED BY <3>1, <3>2, <3>3
  <2>4. CASE j > Len(log)
    <3>1. PICK p, q \in DOMAIN batch : p < q /\ log'[j] = batch[p] /\ log'[k] = batch[q]
      BY <1>12, <2>1, <2>4
    <3>2. p # q
      BY <3>1
    <3> QED BY <3>1, <3>2 DEF IdsOnce
  <2> QED BY <1>1, <1>8, <2>1, <2>2, <2>3, <2>4
<1>16. LogOK(log')
  BY <1>8, <1>14, <1>15 DEF LogOK
<1> QED BY <1>10, <1>11, <1>12, <1>13, <1>16 DEF Appended

\* Everything but the log is as it was, or may grow with it.
LEMMA LogGrowsInv ==
    ASSUME EngineInv, LogOK(log'), Grows(log, log'), ThreadsOK(log', ver, th'), OrphansOK(orphans'),
           UNCHANGED <<ver, csn, map, cursor, known, faults, resets, rushed, taken>>
    PROVE  EngineInv'
<1>1. log \in Seq(Entry) /\ log' \in Seq(Entry) /\ Len(log) \in Nat /\ Len(log') \in Nat
  BY InvParts DEF LogOK
<1>2. /\ Len(log) <= Len(log') /\ \A i \in 1..Len(log) : log'[i] = log[i]
      /\ 0..Len(log) \subseteq 0..Len(log') /\ NoHead..Len(log) \subseteq NoHead..Len(log')
  BY <1>1 DEF Grows, NoHead
<1>3. MapOK(log', map)
  <2>1. map \in [Dbs -> [EventIds -> 0..Len(log)]]
    BY InvParts DEF MapOK
  <2>2. map \in [Dbs -> [EventIds -> 0..Len(log')]]
    <3>1. [EventIds -> 0..Len(log)] \subseteq [EventIds -> 0..Len(log')]
      BY <1>2
    <3> QED BY <2>1, <3>1
  <2>3. ASSUME NEW d \in Dbs, NEW e \in EventIds, map[d][e] # 0 PROVE log'[map[d][e]].id = e
    <3>1. log[map[d][e]].id = e
      BY <2>3, InvParts DEF MapOK
    <3>2. map[d][e] \in 0..Len(log)
      BY <2>1
    <3>3. map[d][e] \in 1..Len(log)
      BY <1>1, <2>3, <3>2
    <3> QED BY <1>2, <3>1, <3>3
  <2> QED BY <2>2, <2>3 DEF MapOK
<1>4. cursor \in [Dbs -> 0..Len(log')] /\ known \in [Engines -> NoHead..Len(log')]
  BY <1>2, InvParts
<1>5. CountsOK'
  BY InvParts, CountsSame
<1>6. RowsOK(ver, csn)
  BY InvParts
<1> QED BY <1>3, <1>4, <1>5, <1>6 DEF EngineInv

ServePushTo(n, x) ==
  /\ push(n).pc = "sent"
  /\ x \in Thread /\ x.at = push(n).at /\ x.head = Len(log') /\ x.batch = <<>> /\ Becomes(n, "push", x)
  /\ \/ /\ x.pc = "ok" /\ push(n).at = Len(log) /\ Appended(push(n).batch)
        /\ x.page \in Seq(PageEntry) /\ Holds(log', x.page)
     \/ x.pc = "missing" /\ log' = log /\ x.page = push(n).page

LEMMA AssignedFacts ==
    ASSUME log \in Seq(Entry), log' \in Seq(Entry), NEW b \in Seq(Entry), Appended(b)
    PROVE  Assigned(b, log') \in Seq(PageEntry) /\ Holds(log', Assigned(b, log'))
<1> DEFINE l == log'
           A == Assigned(b, l)
           s(p) == CHOOSE k \in DOMAIN l : l[k].id = b[p].id
<1>1. A = [p \in DOMAIN b |-> [seq |-> s(p), id |-> b[p].id, ver |-> b[p].ver]]
  BY DEF Assigned
<1>2. ASSUME NEW p \in DOMAIN b PROVE s(p) \in DOMAIN l /\ l[s(p)].id = b[p].id
  <2>1. \E k \in DOMAIN l : l[k].id = b[p].id
    <3>1. CASE b[p].id \in LogIds
      <4>1. PICK k \in DOMAIN log : log[k].id = b[p].id
        BY <3>1, LogIdsAre
      <4>2. Len(log) <= Len(l) /\ \A i \in 1..Len(log) : l[i] = log[i]
        BY DEF Appended, Grows
      <4>3. k \in 1..Len(log) /\ Len(log) \in Nat /\ Len(l) \in Nat /\ DOMAIN l = 1..Len(l)
        OBVIOUS
      <4>4. k \in DOMAIN l /\ l[k] = log[k]
        BY <4>2, <4>3
      <4> QED BY <4>1, <4>4
    <3>2. CASE b[p].id \notin LogIds
      BY <3>2 DEF Appended
    <3> QED BY <3>1, <3>2
  <2> QED BY <2>1
<1>3. DOMAIN l = 1..Len(l) /\ Len(l) \in Nat /\ DOMAIN b = 1..Len(b) /\ Len(b) \in Nat
  OBVIOUS
<1> HIDE DEF s, l, A
<1>4. \A p \in DOMAIN b : [seq |-> s(p), id |-> b[p].id, ver |-> b[p].ver] \in PageEntry
  <2>1. \A p \in DOMAIN b : s(p) \in Nat /\ b[p].id \in EventIds /\ b[p].ver \in Nat
    BY <1>2, <1>3, EntryIds
  <2> QED BY <2>1 DEF PageEntry
<1>5. A \in Seq(PageEntry) /\ DOMAIN A = DOMAIN b
  <2>1. A \in [1..Len(b) -> PageEntry]
    BY <1>1, <1>3, <1>4
  <2> QED BY <1>3, <2>1
<1>6. \A p \in DOMAIN b : A[p].seq = s(p) /\ A[p].id = b[p].id
  BY <1>1
<1>7. Holds(l, A)
  BY <1>2, <1>5, <1>6 DEF Holds
<1> QED BY <1>5, <1>7 DEF A, l

LEMMA ServePushStep ==
    ASSUME EngineInv, NEW n \in Engines, ServePush(n)
    PROVE  /\ \E x : ServePushTo(n, x)
           /\ UNCHANGED <<ver, csn, map, cursor, known, orphans, faults, resets, rushed, taken>>
<1>1. push(n).pc = "sent" /\ push(n) \in Thread /\ <<>> \in Seq(Entry) /\ log \in Seq(Entry) /\ Len(log) \in Nat
  BY PushFacts DEF ServePush
<1>2. CASE AtHead(push(n).at)
  <2> DEFINE p == Assigned(push(n).batch, log')
             h == Len(log')
             x == [push(n) EXCEPT !.pc = "ok", !.head = h, !.page = p, !.batch = <<>>]
  <2>1. Accept(push(n).batch) /\ Becomes(n, "push", x)
    BY <1>2 DEF ServePush
  <2>2. Appended(push(n).batch)
    BY <2>1, AcceptFacts, InvParts, PushFacts DEF ThreadOK
  <2>3. log' \in Seq(Entry) /\ h \in Nat
    BY <2>2 DEF Appended, LogOK
  <2>4. p \in Seq(PageEntry) /\ Holds(log', p)
    BY <1>1, <2>2, <2>3, AssignedFacts, PushFacts
  <2> HIDE DEF p, h
  <2>5. /\ x \in Thread /\ x.pc = "ok" /\ x.at = push(n).at /\ x.head = h /\ x.page = p /\ x.batch = <<>>
    BY <1>1, <2>3, <2>4 DEF Thread, PushLabels
  <2> HIDE DEF x
  <2>6. push(n).at = Len(log)
    BY <1>2 DEF AtHead
  <2>7. ServePushTo(n, x)
    BY <1>1, <2>1, <2>2, <2>4, <2>5, <2>6 DEF ServePushTo, h
  <2> QED BY <2>7 DEF ServePush
<1>3. CASE ~AtHead(push(n).at)
  <2> DEFINE h == Len(log)
             x == [push(n) EXCEPT !.pc = "missing", !.head = h, !.batch = <<>>]
  <2>1. log' = log /\ Becomes(n, "push", x)
    BY <1>3 DEF ServePush
  <2>2. h \in Nat
    BY <1>1
  <2> HIDE DEF h
  <2>3. /\ x \in Thread /\ x.pc = "missing" /\ x.at = push(n).at /\ x.head = h
        /\ x.page = push(n).page /\ x.batch = <<>>
    BY <1>1, <2>2 DEF Thread, PushLabels
  <2> HIDE DEF x
  <2>4. h = Len(log')
    BY <2>1 DEF h
  <2>5. ServePushTo(n, x)
    BY <1>1, <2>1, <2>3, <2>4 DEF ServePushTo
  <2> QED BY <2>5 DEF ServePush
<1> QED BY <1>2, <1>3

LEMMA ServePushInv ==
    ASSUME EngineInv, NEW n \in Engines, ServePush(n) PROVE EngineInv'
<1>1. PICK x : ServePushTo(n, x)
  BY ServePushStep
<1>2. UNCHANGED <<ver, csn, map, cursor, known, orphans, faults, resets, rushed, taken>>
  BY ServePushStep
<1>3. LogOK(log') /\ Grows(log, log') /\ log' \in Seq(Entry) /\ log \in Seq(Entry)
  BY <1>1, InvParts, GrowsSame DEF ServePushTo, Appended, LogOK
<1>4. ThreadsOK(log', ver, th)
  BY <1>3, ThreadsGrow, KeepsSame, InvParts
<1>5. WorkOK(log', ver, DbOf[n], "push", push(n))
  BY <1>4, PushFacts DEF ThreadsOK
<1>6. x.at \in 0..Len(log') /\ x.head \in 0..Len(log') /\ Holds(log', x.page)
  BY <1>1, <1>3, <1>5 DEF ServePushTo, WorkOK, ThreadOK
<1>7. ThreadOK(log', "push", x)
  BY <1>1, <1>6 DEF ServePushTo, ThreadOK, IdsOnce, Versioned, HasPage
<1>8. SeenBy(ver, DbOf[n], "push", x)
  BY <1>1 DEF ServePushTo, SeenBy
<1>9. ThreadsOK(log', ver, th')
  BY <1>1, <1>4, <1>7, <1>8, ThreadsStep, PushFacts DEF ServePushTo, Becomes, WorkOK
<1> QED BY <1>2, <1>3, <1>9, InvParts, LogGrowsInv

\* What a request nobody waits for any more may still do.
LEMMA ServeOrphanLog ==
    ASSUME EngineInv, NEW m \in orphans, ServeOrphan(m)
    PROVE  /\ (m.at = Len(log) /\ Appended(m.batch)) \/ log' = log
           /\ LogOK(log') /\ Grows(log, log') /\ log' \in Seq(Entry) /\ log \in Seq(Entry)
<1>1. m.batch \in Seq(Entry) /\ IdsOnce(m.batch) /\ Versioned(m.batch)
  BY InvParts DEF OrphansOK
<1>2. (m.at = Len(log) /\ Appended(m.batch)) \/ log' = log
  BY <1>1, AcceptFacts, InvParts DEF ServeOrphan, AtHead
<1>3. LogOK(log') /\ Grows(log, log') /\ log' \in Seq(Entry) /\ log \in Seq(Entry)
  BY <1>2, InvParts, GrowsSame DEF Appended, LogOK
<1> QED BY <1>2, <1>3

LEMMA ServeOrphanInv ==
    ASSUME EngineInv, NEW m \in orphans, ServeOrphan(m) PROVE EngineInv'
<1>1. UNCHANGED <<ver, csn, map, cursor, known, th, faults, resets, rushed, taken>> /\ orphans' = orphans \ {m}
  BY DEF ServeOrphan
<1>2. OrphansOK(orphans')
  BY <1>1, InvParts DEF OrphansOK
<1>3. LogOK(log') /\ Grows(log, log') /\ log' \in Seq(Entry) /\ log \in Seq(Entry)
  BY ServeOrphanLog
<1>4. ThreadsOK(log', ver, th')
  BY <1>1, <1>3, ThreadsGrow, KeepsSame, InvParts
<1> QED BY <1>1, <1>2, <1>3, <1>4, LogGrowsInv

-----------------------------------------------------------------------------
(* ... and of the databases *)

LEMMA MappingFacts ==
    ASSUME EngineInv, NEW d \in Dbs, NEW page \in Seq(PageEntry), Holds(log, page), NEW present
    PROVE  MapOK(log, [map EXCEPT ![d] = WithMappings(d, page, present)])
<1> DEFINE rows(e) == {k \in DOMAIN page : /\ page[k].id = e /\ e \in present
                                           /\ \A f \in EventIds : map[d][f] # page[k].seq}
           new(e) == IF map[d][e] = 0 /\ rows(e) # {} THEN page[CHOOSE k \in rows(e) : TRUE].seq
                     ELSE map[d][e]
           W == WithMappings(d, page, present)
<1>1. W = [e \in EventIds |-> new(e)]
  BY DEF WithMappings
<1>2. MapOK(log, map) /\ log \in Seq(Entry) /\ Len(log) \in Nat
  BY InvParts
<1>3. ASSUME NEW e \in EventIds PROVE new(e) \in 0..Len(log) /\ (new(e) # 0 => log[new(e)].id = e)
  <2>1. CASE map[d][e] = 0 /\ rows(e) # {}
    <3>1. PICK k \in DOMAIN page : page[k].id = e /\ new(e) = page[k].seq
      BY <2>1
    <3>2. page[k].seq \in DOMAIN log /\ log[page[k].seq].id = page[k].id
      BY DEF Holds
    <3> HIDE DEF new
    <3> QED BY <1>2, <3>1, <3>2
  <2>2. CASE ~(map[d][e] = 0 /\ rows(e) # {})
    <3>1. new(e) = map[d][e]
      BY <2>2
    <3> HIDE DEF new
    <3> QED BY <1>2, <3>1 DEF MapOK
  <2> QED BY <2>1, <2>2
<1> HIDE DEF new, W
<1>4. W \in [EventIds -> 0..Len(log)]
  BY <1>1, <1>3
<1> DEFINE m == [map EXCEPT ![d] = W]
<1>5. m \in [Dbs -> [EventIds -> 0..Len(log)]]
  BY <1>2, <1>4 DEF MapOK
<1>6. \A c \in Dbs : m[c] = IF c = d THEN W ELSE map[c]
  BY <1>2 DEF MapOK
<1> HIDE DEF m
<1>7. ASSUME NEW c \in Dbs, NEW e \in EventIds, m[c][e] # 0 PROVE log[m[c][e]].id = e
  <2>1. CASE c = d
    <3>1. m[c][e] = new(e)
      BY <1>1, <1>6, <2>1
    <3> QED BY <1>3, <1>7, <3>1
  <2>2. CASE c # d
    BY <1>2, <1>6, <1>7, <2>2 DEF MapOK
  <2> QED BY <2>1, <2>2
<1>8. MapOK(log, m)
  BY <1>5, <1>7 DEF MapOK
<1> QED BY <1>8 DEF m, W

\* A step of a database and of at most one thread on it.
LEMMA DatabaseStep ==
    ASSUME EngineInv, RowsOK(ver', csn'), Keeps(ver, ver'), MapOK(log, map'), ThreadsOK(log, ver', th'),
           UNCHANGED <<log, cursor, known, orphans, faults, resets, rushed>>, taken' \in BOOLEAN
    PROVE  EngineInv'
<1>1. CountsOK'
  BY InvParts DEF CountsOK
<1> QED BY <1>1, InvParts DEF EngineInv

LEMMA ThreadsKept ==
    ASSUME EngineInv, NEW w, Keeps(ver, w)
    PROVE  ThreadsOK(log, w, th)
  BY InvParts, GrowsSame, ThreadsGrow

ApplyAssignmentsTo(n, x) ==
  /\ push(n).pc = "ok"
  /\ x \in Thread /\ x.pc = "ack" /\ x.at = 0 /\ x.head = push(n).head /\ x.page = <<>> /\ x.batch = <<>>
  /\ Becomes(n, "push", x)

LEMMA ApplyAssignmentsStep ==
    ASSUME EngineInv, NEW n \in Engines, ApplyAssignments(n)
    PROVE  /\ \E x : ApplyAssignmentsTo(n, x)
           /\ UNCHANGED <<log, ver, csn, cursor, known, orphans, faults, resets, rushed, taken>>
<1> DEFINE h == push(n).head
           x == [Idle EXCEPT !.pc = "ack", !.head = h]
<1>1. push(n).pc = "ok" /\ Becomes(n, "push", x)
  BY DEF ApplyAssignments
<1>2. h \in Nat
  BY PushFacts
<1> HIDE DEF h
<1>3. x \in Thread /\ x.pc = "ack" /\ x.at = 0 /\ x.head = h /\ x.page = <<>> /\ x.batch = <<>>
  BY <1>2, IdleThread DEF Thread, PushLabels
<1> HIDE DEF x
<1>4. ApplyAssignmentsTo(n, x)
  BY <1>1, <1>3 DEF ApplyAssignmentsTo, h
<1> QED BY <1>4 DEF ApplyAssignments

LEMMA ApplyAssignmentsInv ==
    ASSUME EngineInv, NEW n \in Engines, ApplyAssignments(n) PROVE EngineInv'
<1>1. PICK x : ApplyAssignmentsTo(n, x)
  BY ApplyAssignmentsStep
<1>2. UNCHANGED <<log, ver, csn, cursor, known, orphans, faults, resets, rushed, taken>>
  BY ApplyAssignmentsStep
<1>3. MapOK(log, map')
  BY MappingFacts, PushFacts DEF ApplyAssignments, ThreadOK
<1>4. WorkOK(log, ver, DbOf[n], "push", Idle)
  BY PushFacts, IdleWork
<1>5. WorkOK(log, ver, DbOf[n], "push", x)
  BY <1>1, <1>4, PushFacts, PlainWork, IdleThread DEF ApplyAssignmentsTo
<1>6. ThreadsOK(log, ver, th')
  BY <1>1, <1>5, InvParts, PushFacts, ThreadsStep DEF ApplyAssignmentsTo, Becomes
<1>7. taken' \in BOOLEAN
  BY <1>2, InvParts DEF CountsOK
<1>8. RowsOK(ver', csn') /\ ThreadsOK(log, ver', th') /\ Keeps(ver, ver')
  BY <1>2, <1>6, InvParts, KeepsSame
<1> QED BY <1>2, <1>3, <1>7, <1>8, DatabaseStep

\* The columns of one database change, but only finitely many rows are added.
LEMMA RowsChange ==
    ASSUME RowsOK(ver, csn), NEW d \in Dbs, NEW v \in [EventIds -> Nat], NEW c \in [EventIds -> Nat],
           NEW F, IsFiniteSet(F),
           \A e \in EventIds \ F : ver[d][e] = 0 /\ csn[d][e] = 0 => v[e] = 0 /\ c[e] = 0
    PROVE  RowsOK([ver EXCEPT ![d] = v], [csn EXCEPT ![d] = c])
<1> DEFINE v1 == [ver EXCEPT ![d] = v]
           c1 == [csn EXCEPT ![d] = c]
<1>1. /\ v1 \in [Dbs -> [EventIds -> Nat]] /\ c1 \in [Dbs -> [EventIds -> Nat]]
      /\ \A b \in Dbs : v1[b] = (IF b = d THEN v ELSE ver[b]) /\ c1[b] = (IF b = d THEN c ELSE csn[b])
  BY DEF RowsOK
<1> HIDE DEF v1, c1
<1>2. ASSUME NEW b \in Dbs PROVE IsFiniteSet(Rows(v1, c1, b))
  <2>1. IsFiniteSet(Rows(ver, csn, b))
    BY DEF RowsOK
  <2>2. IsFiniteSet(Rows(ver, csn, b) \cup F)
    BY <2>1, FS_Union
  <2>3. Rows(v1, c1, b) \in SUBSET (Rows(ver, csn, b) \cup F)
    <3>1. CASE b = d
      BY <1>1, <3>1 DEF Rows
    <3>2. CASE b # d
      BY <1>1, <3>2 DEF Rows
    <3> QED BY <3>1, <3>2
  <2> QED BY <2>2, <2>3, FS_Subset
<1>3. RowsOK(v1, c1)
  BY <1>1, <1>2 DEF RowsOK
<1> QED BY <1>3 DEF v1, c1

LEMMA MaxVersionIs ==
    ASSUME EngineInv, NEW d \in Dbs, NEW g
    PROVE  /\ MaxVersion(d, g) \in Nat
           /\ \A e \in EventIds : AggOf[e] = g => ver[d][e] <= MaxVersion(d, g)
           /\ MaxVersion(d, g) = 0 \/ \E e \in EventIds : AggOf[e] = g /\ ver[d][e] = MaxVersion(d, g)
<1> DEFINE f == ver[d]
           Y == {x \in EventIds : AggOf[x] = g}
           m == MaxVersion(d, g)
<1>1. f \in [EventIds -> Nat] /\ IsFiniteSet(Rows(ver, csn, d))
  BY InvParts DEF RowsOK
<1>2. {x \in EventIds : f[x] # 0} \in SUBSET Rows(ver, csn, d)
  BY DEF Rows
<1>3. IsFiniteSet({x \in EventIds : f[x] # 0})
  BY <1>1, <1>2, FS_Subset
<1>4. m = LargestOf(f, Y)
  BY DEF MaxVersion, LargestOf
<1>5. Y \in SUBSET EventIds
  OBVIOUS
<1> HIDE DEF f, m
<1>6. m \in Nat /\ (\A x \in Y : f[x] <= m) /\ (m = 0 \/ \E x \in Y : f[x] = m)
  <2> HIDE DEF Y
  <2> QED BY <1>1, <1>3, <1>4, <1>5, LargestOfColumn
<1> QED BY <1>6 DEF f, m

LEMMA LastCommitIs ==
    ASSUME EngineInv, NEW d \in Dbs
    PROVE  LastCommit(d) \in Nat /\ \A e \in EventIds : csn[d][e] <= LastCommit(d)
<1> DEFINE f == csn[d]
           Y == EventIds
           m == LastCommit(d)
<1>1. f \in [EventIds -> Nat] /\ IsFiniteSet(Rows(ver, csn, d))
  BY InvParts DEF RowsOK
<1>2. {x \in EventIds : f[x] # 0} \in SUBSET Rows(ver, csn, d)
  BY DEF Rows
<1>3. IsFiniteSet({x \in EventIds : f[x] # 0})
  BY <1>1, <1>2, FS_Subset
<1>4. m = LargestOf(f, Y)
  BY DEF LastCommit, LargestOf
<1>5. Y \in SUBSET EventIds
  OBVIOUS
<1> HIDE DEF f, m
<1>6. m \in Nat /\ \A x \in Y : f[x] <= m
  <2> HIDE DEF Y
  <2> QED BY <1>1, <1>3, <1>4, <1>5, LargestOfColumn
<1> QED BY <1>6 DEF f, m

AppendTo(d, e, v, c) ==
  /\ v = MaxVersion(d, AggOf[e]) + 1 /\ c = LastCommit(d) + 1 /\ v \in Nat /\ c \in Nat
  /\ \A b \in Dbs : ver[b][e] = 0
  /\ e \notin LogIds
  /\ \A b \in Dbs, f \in EventIds :
       /\ ver'[b][f] = IF b = d /\ f = e THEN v ELSE ver[b][f]
       /\ csn'[b][f] = IF b = d /\ f = e THEN c ELSE csn[b][f]

LEMMA AppendStep ==
    ASSUME EngineInv, NEW d \in Dbs, NEW e \in EventIds, Append1(d, e)
    PROVE  /\ \E v, c : AppendTo(d, e, v, c) /\ taken' = (taken \/ FoundFree(d, AggOf[e], v))
           /\ RowsOK(ver', csn') /\ Keeps(ver, ver')
           /\ UNCHANGED <<log, map, cursor, known, th, orphans, faults, resets, rushed>>
<1> DEFINE v == MaxVersion(d, AggOf[e]) + 1
           c == LastCommit(d) + 1
           v1 == [ver[d] EXCEPT ![e] = v]
           c1 == [csn[d] EXCEPT ![e] = c]
<1>1. v \in Nat /\ c \in Nat /\ v # 0
  BY MaxVersionIs, LastCommitIs
<1>2. ver \in [Dbs -> [EventIds -> Nat]] /\ csn \in [Dbs -> [EventIds -> Nat]] /\ RowsOK(ver, csn)
  BY InvParts DEF RowsOK
<1>3. /\ \A b \in Dbs : ver[b][e] = 0
      /\ e \notin LogIds
      /\ ver' = [ver EXCEPT ![d][e] = v] /\ csn' = [csn EXCEPT ![d][e] = c]
      /\ taken' = (taken \/ FoundFree(d, AggOf[e], v))
  BY DEF Append1, Present
<1> HIDE DEF v, c
<1>4. v1 \in [EventIds -> Nat] /\ c1 \in [EventIds -> Nat]
  BY <1>1, <1>2
<1>5. \A f \in EventIds \ {e} : v1[f] = ver[d][f] /\ c1[f] = csn[d][f]
  BY <1>2
<1>6. ver' = [ver EXCEPT ![d] = v1] /\ csn' = [csn EXCEPT ![d] = c1]
  BY <1>2, <1>3
<1>7. IsFiniteSet({e})
  BY FS_Singleton
<1>8. RowsOK(ver', csn')
  <2> HIDE DEF v1, c1
  <2>1. \A f \in EventIds \ {e} : ver[d][f] = 0 /\ csn[d][f] = 0 => v1[f] = 0 /\ c1[f] = 0
    BY <1>5
  <2> QED BY <1>2, <1>4, <1>6, <1>7, <2>1, RowsChange
<1>9. \A b \in Dbs, f \in EventIds :
       /\ ver'[b][f] = IF b = d /\ f = e THEN v ELSE ver[b][f]
       /\ csn'[b][f] = IF b = d /\ f = e THEN c ELSE csn[b][f]
  BY <1>2, <1>3
<1>10. Keeps(ver, ver')
  BY <1>1, <1>9 DEF Keeps
<1>11. AppendTo(d, e, v, c)
  BY <1>1, <1>3, <1>9 DEF AppendTo, v, c
<1> QED BY <1>3, <1>8, <1>10, <1>11 DEF Append1

LEMMA AppendInv ==
    ASSUME EngineInv, NEW d \in Dbs, NEW e \in EventIds, Append1(d, e) PROVE EngineInv'
<1>1. /\ RowsOK(ver', csn') /\ Keeps(ver, ver')
      /\ UNCHANGED <<log, map, cursor, known, th, orphans, faults, resets, rushed>>
  BY AppendStep
<1>2. taken' \in BOOLEAN
  BY AppendStep, InvParts, Zenon DEF CountsOK
<1>3. ThreadsOK(log, ver', th')
  BY <1>1, ThreadsKept
<1>4. MapOK(log, map')
  BY <1>1, InvParts
<1> QED BY <1>1, <1>2, <1>3, <1>4, DatabaseStep

-----------------------------------------------------------------------------
(* Applying a page: the loop over its events ... *)

\* Thread t of engine n has looked for the next event of its page, or has dealt
\* with it.
Advances(n, t, x) ==
  LET y == th[n][t]
      e == y.page[y.next]
  IN  /\ x \in Thread /\ x.pc = "apply"
      /\ x.at = y.at /\ x.head = y.head /\ x.page = y.page /\ x.batch = y.batch
      /\ \/ x.next = y.next /\ x.insert = y.insert \cup {e.id}
         \/ x.next = y.next + 1 /\ x.insert = y.insert /\ Present(DbOf[n], e.id)
         \/ /\ x.next = y.next + 1 /\ x.insert = y.insert /\ e.id \in y.insert
            /\ Occupants(DbOf[n], AggOf[e.id], e.ver) = {}
      /\ Becomes(n, t, x)

\* Thread t of engine n has moved the pending rows that are in its way.
MakesRoom(n, t) ==
  LET b == DbOf[n]
      e == th[n][t].page[th[n][t].next]
      g == AggOf[e.id]
  IN  /\ Occupants(b, g, e.ver) # {} /\ Occupants(b, g, e.ver) \subseteq Pending(b)
      /\ CanShift(b, g, e.ver) /\ taken' = (taken \/ Present(b, e.id))
      /\ ver' = ShiftVersions(b, g, e.ver)

LEMMA ResolveStep ==
    ASSUME EngineInv, NEW n \in Engines, NEW t \in Threads, LookUpEvent(n, t) \/ ResolveVersion(n, t)
    PROVE  /\ UNCHANGED <<log, csn, map, cursor, known, orphans, faults, resets, rushed>>
           /\ th[n][t].pc = "apply" /\ th[n][t].next \in DOMAIN th[n][t].page
           /\ \/ \E x : Advances(n, t, x) /\ UNCHANGED <<ver, taken>>
              \/ MakesRoom(n, t) /\ th' = th
              \/ (Ends(n, t) \/ Parks(n, t)) /\ UNCHANGED <<ver, taken>>
<1> DEFINE y == th[n][t]
           e == y.page[y.next]
           b == DbOf[n]
           at == Occupants(b, AggOf[e.id], e.ver)
           k == y.next + 1
           i == y.insert \cup {e.id}
           X == [y EXCEPT !.next = k]
           Z == [y EXCEPT !.insert = i]
<1>1. y.pc = "apply" /\ y.next <= Len(y.page)
  BY DEF LookUpEvent, ResolveVersion
<1>2. /\ y \in Thread /\ y.page \in Seq(PageEntry) /\ y.next \in Nat /\ y.next # 0
      /\ y.insert \in SUBSET EventIds
  BY <1>1, ThreadFacts DEF ThreadOK
<1>3. y.next \in DOMAIN y.page /\ k \in Nat
  BY <1>1, <1>2
<1>4. i \in SUBSET EventIds
  BY <1>2, <1>3, PageIds
<1>5. \/ Present(b, e.id) /\ Becomes(n, t, X) /\ UNCHANGED <<ver, taken>>
      \/ e.id \in y.insert /\ at = {} /\ Becomes(n, t, X) /\ UNCHANGED <<ver, taken>>
      \/ Becomes(n, t, Z) /\ UNCHANGED <<ver, taken>>
      \/ MakesRoom(n, t) /\ th' = th
      \/ (Ends(n, t) \/ Parks(n, t)) /\ UNCHANGED <<ver, taken>>
  <2>1. CASE LookUpEvent(n, t)
    BY <2>1 DEF LookUpEvent
  <2>2. CASE ResolveVersion(n, t)
    BY <2>2 DEF ResolveVersion, MakesRoom
  <2> QED BY <2>1, <2>2
<1>6. UNCHANGED <<log, csn, map, cursor, known, orphans, faults, resets, rushed>>
  BY DEF LookUpEvent, ResolveVersion
<1>7. ASSUME Present(b, e.id) \/ (e.id \in y.insert /\ at = {}), Becomes(n, t, X)
      PROVE  Advances(n, t, X)
  <2> HIDE DEF k
  <2>1. /\ X \in Thread /\ X.pc = y.pc /\ X.next = k /\ X.at = y.at /\ X.head = y.head
        /\ X.page = y.page /\ X.batch = y.batch /\ X.insert = y.insert
    BY <1>2, <1>3 DEF Thread
  <2> HIDE DEF X
  <2> QED BY <1>1, <1>7, <2>1 DEF Advances, k
<1>8. ASSUME Becomes(n, t, Z) PROVE Advances(n, t, Z)
  <2> HIDE DEF i
  <2>1. /\ Z \in Thread /\ Z.pc = y.pc /\ Z.next = y.next /\ Z.at = y.at /\ Z.head = y.head
        /\ Z.page = y.page /\ Z.batch = y.batch /\ Z.insert = i
    BY <1>2, <1>4 DEF Thread
  <2> HIDE DEF Z
  <2> QED BY <1>1, <1>8, <2>1 DEF Advances, i
<1> HIDE DEF X, Z, at, k
<1> QED BY <1>1, <1>3, <1>5, <1>6, <1>7, <1>8

\* What PendingEventVersionRewriter does to the rows.
LEMMA ShiftFacts ==
    ASSUME EngineInv, NEW d \in Dbs, NEW g, NEW v, ver' = ShiftVersions(d, g, v), csn' = csn
    PROVE  /\ RowsOK(ver', csn') /\ Keeps(ver, ver')
           /\ \A b \in Dbs, e \in EventIds :
                ver'[b][e] = IF b = d /\ e \in Shifted(d, g, v) THEN ver[b][e] + 1 ELSE ver[b][e]
<1> DEFINE w == [e \in EventIds |-> IF e \in Shifted(d, g, v) THEN ver[d][e] + 1 ELSE ver[d][e]]
<1>1. ver \in [Dbs -> [EventIds -> Nat]] /\ csn \in [Dbs -> [EventIds -> Nat]] /\ RowsOK(ver, csn)
  BY InvParts DEF RowsOK
<1>2. ver' = [ver EXCEPT ![d] = w] /\ csn' = [csn EXCEPT ![d] = csn[d]]
  BY <1>1 DEF ShiftVersions
<1>3. \A e \in EventIds : ver[d][e] \in Nat /\ w[e] = IF e \in Shifted(d, g, v) THEN ver[d][e] + 1 ELSE ver[d][e]
  BY <1>1
<1>4. \A e \in Shifted(d, g, v) : e \in EventIds /\ ver[d][e] # 0
  BY DEF Shifted, Pending, Present
<1>5. w \in [EventIds -> Nat] /\ csn[d] \in [EventIds -> Nat] /\ IsFiniteSet({})
  BY <1>1, <1>3, FS_EmptySet
<1>6. \A e \in EventIds \ {} : ver[d][e] = 0 /\ csn[d][e] = 0 => w[e] = 0 /\ csn[d][e] = 0
  BY <1>3, <1>4
<1> HIDE DEF w
<1>7. RowsOK(ver', csn')
  <2> DEFINE c == csn[d]
  <2>1. /\ c \in [EventIds -> Nat] /\ csn' = [csn EXCEPT ![d] = c]
        /\ \A e \in EventIds \ {} : ver[d][e] = 0 /\ csn[d][e] = 0 => w[e] = 0 /\ c[e] = 0
    BY <1>2, <1>5, <1>6
  <2> HIDE DEF c
  <2>2. RowsOK([ver EXCEPT ![d] = w], [csn EXCEPT ![d] = c])
    BY <1>1, <1>5, <2>1, RowsChange
  <2> QED BY <1>2, <2>1, <2>2
<1>8. \A b \in Dbs, e \in EventIds :
        ver'[b][e] = IF b = d /\ e \in Shifted(d, g, v) THEN ver[b][e] + 1 ELSE ver[b][e]
  BY <1>1, <1>2, <1>3
<1>9. Keeps(ver, ver')
  BY <1>1, <1>4, <1>8 DEF Keeps
<1> QED BY <1>7, <1>8, <1>9

LEMMA AdvancesWork ==
    ASSUME EngineInv, NEW n \in Engines, NEW t \in Threads, NEW x, Advances(n, t, x),
           th[n][t].pc = "apply", th[n][t].next \in DOMAIN th[n][t].page
    PROVE  WorkOK(log, ver, DbOf[n], t, x)
<1> DEFINE y == th[n][t]
<1>1. /\ ThreadOK(log, t, y) /\ SeenBy(ver, DbOf[n], t, y) /\ y.page \in Seq(PageEntry) /\ y.next \in Nat
  BY ThreadFacts
<1>2. /\ x \in Thread /\ x.pc = "apply" /\ (x.next = y.next \/ x.next = y.next + 1)
      /\ x.at = y.at /\ x.head = y.head /\ x.page = y.page /\ x.batch = y.batch
      /\ y.insert \subseteq x.insert
      /\ \/ x.next = y.next
         \/ Present(DbOf[n], y.page[y.next].id)
         \/ y.page[y.next].id \in x.insert
  BY DEF Advances
<1>3. y.pc = "apply"
  OBVIOUS
<1> HIDE DEF y
<1>4. ThreadOK(log, t, x)
  BY <1>1, <1>2, <1>3 DEF ThreadOK
<1>5. SeenBy(ver, DbOf[n], t, x)
  <2>1. ASSUME NEW k \in DOMAIN x.page, k < x.next
        PROVE  x.page[k].id \in x.insert \/ ver[DbOf[n]][x.page[k].id] # 0
    <3>1. k < y.next \/ (k = y.next /\ x.next # y.next)
      BY <1>1, <1>2, <2>1
    <3> QED BY <1>1, <1>2, <1>3, <2>1, <3>1 DEF SeenBy, Present
  <2> QED BY <1>1, <1>2, <2>1 DEF SeenBy
<1> QED BY <1>4, <1>5 DEF WorkOK

LEMMA ResolveInv ==
    ASSUME EngineInv, NEW n \in Engines, NEW t \in Threads, LookUpEvent(n, t) \/ ResolveVersion(n, t)
    PROVE  EngineInv'
<1>1. /\ UNCHANGED <<log, csn, map, cursor, known, orphans, faults, resets, rushed>>
      /\ th[n][t].pc = "apply" /\ th[n][t].next \in DOMAIN th[n][t].page
      /\ \/ \E x : Advances(n, t, x) /\ UNCHANGED <<ver, taken>>
         \/ MakesRoom(n, t) /\ th' = th
         \/ (Ends(n, t) \/ Parks(n, t)) /\ UNCHANGED <<ver, taken>>
  BY ResolveStep
<1>2. DbOf[n] \in Dbs
  BY EngineConstants
<1>3. ASSUME NEW x, Advances(n, t, x), UNCHANGED <<ver, taken>> PROVE EngineInv'
  <2>1. WorkOK(log, ver, DbOf[n], t, x)
    BY <1>1, <1>3, AdvancesWork
  <2>2. Same /\ Becomes(n, t, x)
    BY <1>1, <1>3 DEF Same, Advances
  <2> QED BY <2>1, <2>2, SameStep
<1>4. CASE MakesRoom(n, t) /\ th' = th
  <2>1. PICK g, v : ver' = ShiftVersions(DbOf[n], g, v)
    BY <1>4 DEF MakesRoom
  <2>2. RowsOK(ver', csn') /\ Keeps(ver, ver')
    BY <1>1, <1>2, <2>1, ShiftFacts
  <2>3. ThreadsOK(log, ver', th')
    BY <1>4, <2>2, ThreadsKept
  <2>4. MapOK(log, map')
    BY <1>1, InvParts
  <2>5. taken' \in BOOLEAN
    <3>1. taken \in BOOLEAN /\ \E p \in BOOLEAN : taken' = (taken \/ p)
      BY <1>4, InvParts DEF CountsOK, MakesRoom, Present
    <3> QED BY <3>1
  <2> QED BY <1>1, <2>2, <2>3, <2>4, <2>5, DatabaseStep
<1>5. CASE (Ends(n, t) \/ Parks(n, t)) /\ UNCHANGED <<ver, taken>>
  <2>1. CountsOK'
    BY <1>1, <1>5, InvParts, CountsSame
  <2> QED BY <1>1, <1>2, <1>5, <2>1, EndsInv, InvParts
<1> QED BY <1>1, <1>3, <1>4, <1>5

(* ... and the batch that commits it *)

\* The ids of the rows the batch of a page inserts.
NewIds(d, x) == {x.page[k].id : k \in Inserted(d, x)}
PresentAfter(d, x) == {e \in EventIds : Present(d, e)} \cup NewIds(d, x)

\* What the batch does to the rows of database d.
InsertsRows(d, x) ==
  /\ \A e \in NewIds(d, x) :
       /\ e \in EventIds /\ ver[d][e] = 0
       /\ \E k \in Inserted(d, x) : x.page[k].id = e /\ ver'[d][e] = x.page[k].ver
  /\ \A b \in Dbs, e \in EventIds :
       b # d \/ e \notin NewIds(d, x) => ver'[b][e] = ver[b][e] /\ csn'[b][e] = csn[b][e]

LEMMA CommitRows ==
    ASSUME EngineInv, NEW n \in Engines, NEW t \in Threads, CommitPage(n, t)
    PROVE  InsertsRows(DbOf[n], th[n][t]) /\ RowsOK(ver', csn')
<1> DEFINE d == DbOf[n]
           x == th[n][t]
           ins == Inserted(d, x)
           new == NewIds(d, x)
           At(e) == CHOOSE k \in ins : x.page[k].id = e
           v == [e \in EventIds |-> IF e \in new THEN x.page[At(e)].ver ELSE ver[d][e]]
           N(e) == LastCommit(d) + Cardinality({k \in ins : k <= At(e)})
           c == [e \in EventIds |-> IF e \in new THEN N(e) ELSE csn[d][e]]
<1>1. d \in Dbs /\ x.page \in Seq(PageEntry)
  BY ThreadFacts
<1>2. /\ ver \in [Dbs -> [EventIds -> Nat]] /\ csn \in [Dbs -> [EventIds -> Nat]] /\ RowsOK(ver, csn)
      /\ LastCommit(d) \in Nat
  BY <1>1, InvParts, LastCommitIs DEF RowsOK
<1>3. ver' = [ver EXCEPT ![d] = v] /\ csn' = [csn EXCEPT ![d] = c]
  BY DEF CommitPage, NewIds
<1>4. ins \in SUBSET DOMAIN x.page /\ \A k \in ins : ~Present(d, x.page[k].id)
  BY DEF Inserted
<1>5. \A e \in new : At(e) \in ins /\ x.page[At(e)].id = e
  BY DEF NewIds
<1>6. IsFiniteSet(DOMAIN x.page)
  <2>1. Len(x.page) \in Nat /\ DOMAIN x.page = 1..Len(x.page)
    BY <1>1
  <2> QED BY <2>1, CountUpTo
<1>7. IsFiniteSet(ins)
  BY <1>4, <1>6, FS_Subset
<1> HIDE DEF At, ins
<1>8. \A m : Cardinality({k \in ins : k <= m}) \in Nat
  <2>1. TAKE m
  <2>2. {k \in ins : k <= m} \in SUBSET ins
    OBVIOUS
  <2> QED BY <1>7, <2>2, FS_Subset, FS_CardinalityType
<1>9. IsFiniteSet(new)
  <2> DEFINE f == [k \in DOMAIN x.page |-> x.page[k].id]
  <2>1. new = {f[k] : k \in ins}
    BY <1>4 DEF NewIds, ins
  <2> QED BY <1>7, <2>1, FiniteImage
<1>10. \A e \in new : e \in EventIds /\ ver[d][e] = 0
  BY <1>1, <1>4, <1>5, PageIds DEF Present
<1>11. \A k \in DOMAIN x.page : x.page[k].ver \in Nat
  BY <1>1, PageIds
<1> HIDE DEF new
<1>12. v \in [EventIds -> Nat] /\ \A e \in EventIds : v[e] = IF e \in new THEN x.page[At(e)].ver ELSE ver[d][e]
  <2>1. \A e \in new : x.page[At(e)].ver \in Nat
    BY <1>4, <1>5, <1>11
  <2> QED BY <1>1, <1>2, <2>1
<1>13. c \in [EventIds -> Nat] /\ \A e \in EventIds \ new : c[e] = csn[d][e]
  <2>1. ASSUME NEW e \in EventIds PROVE N(e) \in Nat
    <3> DEFINE C == Cardinality({k \in ins : k <= At(e)})
    <3>1. C \in Nat
      BY <1>8
    <3> HIDE DEF C
    <3> QED BY <1>2, <3>1 DEF C
  <2> HIDE DEF N
  <2> QED BY <1>1, <1>2, <2>1
<1> HIDE DEF v, c
<1>14. \A e \in EventIds \ new : v[e] = ver[d][e]
  BY <1>12
<1>15. RowsOK(ver', csn')
  <2>1. \A e \in EventIds \ new : ver[d][e] = 0 /\ csn[d][e] = 0 => v[e] = 0 /\ c[e] = 0
    BY <1>13, <1>14
  <2>2. RowsOK([ver EXCEPT ![d] = v], [csn EXCEPT ![d] = c])
    <3> HIDE DEF d
    <3> QED BY <1>1, <1>2, <1>9, <1>12, <1>13, <2>1, RowsChange
  <2> QED BY <1>3, <2>2
<1>16. /\ \A b \in Dbs : b # d => ver'[b] = ver[b] /\ csn'[b] = csn[b]
       /\ ver'[d] = v /\ csn'[d] = c
  BY <1>1, <1>2, <1>3
<1>17. \A e \in new : \E k \in ins : x.page[k].id = e /\ ver'[d][e] = x.page[k].ver
  BY <1>5, <1>10, <1>12, <1>16
<1>18. \A b \in Dbs, e \in EventIds :
         b # d \/ e \notin new => ver'[b][e] = ver[b][e] /\ csn'[b][e] = csn[b][e]
  BY <1>13, <1>14, <1>16
<1>19. InsertsRows(d, x)
  BY <1>10, <1>17, <1>18 DEF InsertsRows, new, ins
<1> QED BY <1>15, <1>19

\* The thread is done with its page.
CommitTo(n, t, y) ==
  LET x == th[n][t] IN
  /\ x.insert \subseteq PresentAfter(DbOf[n], x)
  /\ y \in Thread /\ y.at = x.at /\ y.head = x.head /\ y.page = x.page /\ y.batch = <<>>
  /\ \/ t = "pull" /\ y.pc = "cursor"
     \/ t = "push" /\ y.pc = "advance"
  /\ Becomes(n, t, y)

LEMMA CommitStep ==
    ASSUME EngineInv, NEW n \in Engines, NEW t \in Threads, CommitPage(n, t)
    PROVE  /\ th[n][t].pc = "apply" /\ th[n][t].next > Len(th[n][t].page)
           /\ map' = [map EXCEPT ![DbOf[n]] = WithMappings(DbOf[n], th[n][t].page, PresentAfter(DbOf[n], th[n][t]))]
           /\ (\E y : CommitTo(n, t, y)) \/ Parks(n, t)
           /\ UNCHANGED <<log, cursor, known, orphans, faults, resets, rushed, taken>>
<1> DEFINE d == DbOf[n]
           x == th[n][t]
           pc == IF t = "pull" THEN "cursor" ELSE "advance"
           y == [x EXCEPT !.pc = pc, !.insert = {}, !.next = 0, !.batch = <<>>]
<1>1. /\ x.pc = "apply" /\ x.next > Len(x.page)
      /\ UNCHANGED <<log, cursor, known, orphans, faults, resets, rushed, taken>>
  BY DEF CommitPage
<1>2. map' = [map EXCEPT ![d] = WithMappings(d, x.page, PresentAfter(d, x))]
  BY DEF CommitPage, PresentAfter, NewIds
<1>3. IF x.insert \subseteq PresentAfter(d, x) THEN Becomes(n, t, y) ELSE Parks(n, t)
  BY DEF CommitPage, PresentAfter, NewIds
<1>4. x \in Thread /\ <<>> \in Seq(Entry)
  BY ThreadFacts
<1>5. /\ pc \in PullLabels \cup PushLabels
      /\ \/ t = "pull" /\ pc = "cursor"
         \/ t = "push" /\ pc = "advance"
  BY DEF PullLabels, PushLabels, Threads
<1> HIDE DEF pc
<1>6. /\ y \in Thread /\ y.pc = pc /\ y.at = x.at /\ y.head = x.head /\ y.page = x.page /\ y.batch = <<>>
  BY <1>4, <1>5 DEF Thread
<1> HIDE DEF y
<1>7. CASE x.insert \subseteq PresentAfter(d, x)
  <2>1. CommitTo(n, t, y)
    BY <1>3, <1>5, <1>6, <1>7 DEF CommitTo
  <2> QED BY <1>1, <1>2, <2>1
<1>8. CASE ~(x.insert \subseteq PresentAfter(d, x))
  BY <1>1, <1>2, <1>3, <1>8
<1> QED BY <1>7, <1>8

\* After the batch every row that was there, and every new one, is there.
LEMMA CommitPresent ==
    ASSUME EngineInv, NEW n \in Engines, NEW t \in Threads, CommitPage(n, t)
    PROVE  /\ Keeps(ver, ver')
           /\ \A e \in PresentAfter(DbOf[n], th[n][t]) : ver'[DbOf[n]][e] # 0
<1> DEFINE d == DbOf[n]
           x == th[n][t]
<1>1. InsertsRows(d, x) /\ d \in Dbs
  BY CommitRows, ThreadFacts
<1>2. /\ ThreadOK(log, t, x) /\ x.pc = "apply" /\ Versioned(log)
  BY ThreadFacts, CommitStep, InvParts DEF LogOK
<1>3. Follows(log, x.at, x.page)
  BY <1>2 DEF ThreadOK, HasPage, Threads
<1>4. \A k \in DOMAIN x.page : x.page[k].ver # 0
  <2>1. TAKE k \in DOMAIN x.page
  <2>2. /\ x.at + k \in DOMAIN log
        /\ x.page[k] = [seq |-> x.at + k, id |-> log[x.at + k].id, ver |-> log[x.at + k].ver]
    BY <1>3 DEF Follows
  <2>3. x.page[k].ver = log[x.at + k].ver
    BY <2>2
  <2> QED BY <1>2, <2>2, <2>3 DEF Versioned
<1>5. Inserted(d, x) \in SUBSET DOMAIN x.page
  BY DEF Inserted
<1> HIDE DEF x, d
<1>6. \A e \in NewIds(d, x) : ver'[d][e] # 0
  BY <1>1, <1>4, <1>5 DEF InsertsRows
<1>7. Keeps(ver, ver')
  <2> SUFFICES ASSUME NEW b \in Dbs, NEW e \in EventIds, ver[b][e] # 0 PROVE ver'[b][e] # 0
    BY DEF Keeps
  <2>1. CASE b = d /\ e \in NewIds(d, x)
    BY <1>6, <2>1
  <2>2. CASE ~(b = d /\ e \in NewIds(d, x))
    BY <1>1, <2>2 DEF InsertsRows
  <2> QED BY <2>1, <2>2
<1>8. \A e \in PresentAfter(d, x) : ver'[d][e] # 0
  BY <1>1, <1>6, <1>7 DEF PresentAfter, Present, Keeps
<1> QED BY <1>7, <1>8 DEF x, d

LEMMA CommitInv ==
    ASSUME EngineInv, NEW n \in Engines, NEW t \in Threads, CommitPage(n, t) PROVE EngineInv'
<1> DEFINE d == DbOf[n]
           x == th[n][t]
<1>1. /\ d \in Dbs /\ x.page \in Seq(PageEntry) /\ ThreadOK(log, t, x) /\ SeenBy(ver, d, t, x)
      /\ log \in Seq(Entry) /\ Len(log) \in Nat /\ x.next \in Nat /\ x.insert \in SUBSET EventIds
  BY ThreadFacts
<1>2. /\ x.pc = "apply" /\ x.next > Len(x.page)
      /\ (\E y : CommitTo(n, t, y)) \/ Parks(n, t)
      /\ UNCHANGED <<log, cursor, known, orphans, faults, resets, rushed, taken>>
  BY CommitStep
<1>3. RowsOK(ver', csn') /\ Keeps(ver, ver') /\ \A e \in PresentAfter(d, x) : ver'[d][e] # 0
  BY CommitRows, CommitPresent
<1>4. MapOK(log, map')
  <2>1. Holds(log, x.page)
    BY <1>1 DEF ThreadOK
  <2> DEFINE present == PresentAfter(d, x)
             page == x.page
  <2>2. map' = [map EXCEPT ![d] = WithMappings(d, page, present)]
    BY CommitStep
  <2> HIDE DEF present, page
  <2>3. page \in Seq(PageEntry) /\ Holds(log, page)
    BY <1>1, <2>1 DEF page
  <2> HIDE DEF d
  <2>4. MapOK(log, [map EXCEPT ![d] = WithMappings(d, page, present)])
    BY <1>1, <2>3, MappingFacts
  <2> QED BY <2>2, <2>4
<1>5. ThreadsOK(log, ver', th)
  BY <1>3, ThreadsKept
<1>6. taken' \in BOOLEAN
  BY <1>2, InvParts DEF CountsOK
<1>7. ASSUME NEW y, CommitTo(n, t, y) PROVE ThreadsOK(log, ver', th')
  <2>1. /\ x.insert \subseteq PresentAfter(d, x)
        /\ y \in Thread /\ y.at = x.at /\ y.head = x.head /\ y.page = x.page /\ y.batch = <<>>
        /\ \/ t = "pull" /\ y.pc = "cursor"
           \/ t = "push" /\ y.pc = "advance"
        /\ Becomes(n, t, y)
    BY <1>7 DEF CommitTo
  <2>2. \A k \in DOMAIN x.page : ver'[d][x.page[k].id] # 0
    <3>1. TAKE k \in DOMAIN x.page
    <3>2. k < x.next /\ x.page[k].id \in EventIds
      BY <1>1, <1>2, PageIds
    <3>3. x.page[k].id \in x.insert \/ ver[d][x.page[k].id] # 0
      BY <1>1, <1>2, <3>2 DEF SeenBy
    <3> QED BY <1>1, <1>3, <2>1, <3>2, <3>3 DEF Keeps
  <2>3. HasPage(t, x.pc) /\ (t = "pull" => Len(x.page) # 0)
    BY <1>1, <1>2 DEF HasPage, Threads, ThreadOK
  <2> HIDE DEF x
  <2>4. ThreadOK(log, t, y)
    BY <1>1, <2>1, <2>3 DEF ThreadOK, IdsOnce, Versioned
  <2>5. SeenBy(ver', d, t, y)
    BY <2>1, <2>2 DEF SeenBy
  <2>6. WorkOK(log, ver', d, t, y)
    BY <2>4, <2>5 DEF WorkOK
  <2> DEFINE w == ver'
  <2>7. ThreadsOK(log, w, th) /\ WorkOK(log, w, d, t, y)
    BY <1>5, <2>6
  <2> HIDE DEF w
  <2>8. ThreadsOK(log, w, [th EXCEPT ![n][t] = y])
    BY <2>7, ThreadsStep
  <2> QED BY <2>1, <2>8 DEF w, Becomes
<1>8. CASE Parks(n, t)
  <2> DEFINE z == [Idle EXCEPT !.pc = "parked"]
             w == ver'
  <2>1. Leaves(n, t, z) /\ WorkOK(log, w, d, t, z) /\ ThreadsOK(log, w, th)
    BY <1>1, <1>5, <1>8, IdleWork DEF Parks
  <2> HIDE DEF z, w
  <2>2. ThreadsOK(log, w, th')
    BY <2>1, ThreadsLeave
  <2> QED BY <1>2, <1>3, <1>4, <1>6, <2>2, DatabaseStep DEF w
<1> QED BY <1>2, <1>3, <1>4, <1>6, <1>7, <1>8, DatabaseStep

-----------------------------------------------------------------------------
(* Reloads and resets *)

LEMMA AbandonedOK ==
    ASSUME EngineInv, NEW n \in Engines PROVE OrphansOK(orphans \cup Abandoned(n))
<1>1. OrphansOK(orphans) /\ orphans \cup {} = orphans
  BY InvParts
<1>2. Abandoned(n) = {} \/ Abandoned(n) = {[at |-> push(n).at, batch |-> push(n).batch]}
  BY DEF Abandoned
<1> QED BY <1>1, <1>2, OrphanAdded

\* Threads of an engine that go on, are woken or are cut off.
LEMMA ThreadsCut ==
    ASSUME EngineInv, NEW n \in Engines, NEW s, s = [t \in Threads |-> s[t]],
           \A t \in Threads : WorkOK(log, ver, DbOf[n], t, s[t])
    PROVE  ThreadsOK(log, ver, [th EXCEPT ![n] = s])
<1> DEFINE u == [th EXCEPT ![n] = s]
<1>1. th \in [Engines -> [Threads -> Thread]]
  BY InvParts DEF ThreadsOK
<1>2. s \in [Threads -> Thread]
  BY DEF WorkOK, ThreadOK
<1>3. u \in [Engines -> [Threads -> Thread]] /\ \A m \in Engines : u[m] = IF m = n THEN s ELSE th[m]
  BY <1>1, <1>2
<1> HIDE DEF u
<1>4. \A m \in Engines, t \in Threads : WorkOK(log, ver, DbOf[m], t, u[m][t])
  BY <1>3, InvParts DEF ThreadsOK
<1>5. ThreadsOK(log, ver, u)
  BY <1>3, <1>4 DEF ThreadsOK
<1> QED BY <1>5 DEF u

LEMMA StoppedWork ==
    ASSUME EngineInv, NEW n \in Engines, NEW t \in Threads
    PROVE  WorkOK(log, ver, DbOf[n], t, Stopped(n, t))
<1>1. log \in Seq(Entry) /\ WorkOK(log, ver, DbOf[n], t, th[n][t])
  BY InvParts DEF ThreadsOK
<1>2. WorkOK(log, ver, DbOf[n], t, Idle)
  BY <1>1, IdleWork
<1>3. t = "push" => WorkOK(log, ver, DbOf[n], t, [push(n) EXCEPT !.pc = Woken("pull", @)])
  <2> SUFFICES ASSUME t = "push" PROVE WorkOK(log, ver, DbOf[n], t, [push(n) EXCEPT !.pc = Woken("pull", @)])
    OBVIOUS
  <2> DEFINE x == push(n)
  <2>1. WorkOK(log, ver, DbOf[n], t, x) /\ "pull" \in Threads /\ t # "pull"
    BY <1>1 DEF push, Threads
  <2> HIDE DEF x
  <2>2. WorkOK(log, ver, DbOf[n], t, [x EXCEPT !.pc = Woken("pull", @)])
    BY <2>1, WokenWork
  <2> QED BY <2>2 DEF x
<1> QED BY <1>1, <1>2, <1>3 DEF Stopped

LEMMA ReloadInv ==
    ASSUME EngineInv, NEW n \in Engines, Reload(n) PROVE EngineInv'
<1> DEFINE s == [t \in Threads |-> Idle]
<1>1. /\ known' = [known EXCEPT ![n] = NoHead] /\ th' = [th EXCEPT ![n] = s]
      /\ orphans' = orphans \cup Abandoned(n) /\ UNCHANGED <<log, ver, csn, map, cursor, resets, rushed, taken>>
  BY DEF Reload
<1>2. s = [t \in Threads |-> s[t]] /\ \A t \in Threads : WorkOK(log, ver, DbOf[n], t, s[t])
  BY InvParts, IdleWork
<1> HIDE DEF s
<1>3. ThreadsOK(log, ver, th')
  BY <1>1, <1>2, ThreadsCut
<1>4. known' \in [Engines -> NoHead..Len(log)]
  BY <1>1, InvParts, PushFacts DEF NoHead
<1>5. OrphansOK(orphans')
  BY <1>1, AbandonedOK
<1>6. CountsOK'
  BY InvParts, EngineConstants DEF CountsOK, Reload
<1> QED BY <1>1, <1>3, <1>4, <1>5, <1>6, InvParts DEF EngineInv

LEMMA ResetInv ==
    ASSUME EngineInv, NEW n \in Engines, ResetSyncState(n) PROVE EngineInv'
<1> DEFINE d == DbOf[n]
           s == [t \in Threads |-> Stopped(n, t)]
           z == [e \in EventIds |-> 0]
<1>1. /\ known' = [known EXCEPT ![n] = NoHead] /\ th' = [th EXCEPT ![n] = s]
      /\ map' = [map EXCEPT ![d] = z] /\ cursor' = [cursor EXCEPT ![d] = 0]
      /\ orphans' = orphans \cup Abandoned(n) /\ UNCHANGED <<log, ver, csn, faults, rushed, taken>>
  BY DEF ResetSyncState
<1>2. s = [t \in Threads |-> s[t]] /\ \A t \in Threads : WorkOK(log, ver, DbOf[n], t, s[t])
  BY StoppedWork
<1> HIDE DEF s
<1>3. ThreadsOK(log, ver, th')
  BY <1>1, <1>2, ThreadsCut
<1>4. /\ known' \in [Engines -> NoHead..Len(log)] /\ cursor' \in [Dbs -> 0..Len(log)]
  BY <1>1, InvParts, PushFacts DEF NoHead
<1>5. OrphansOK(orphans')
  BY <1>1, AbandonedOK
<1>6. CountsOK'
  BY InvParts, EngineConstants DEF CountsOK, ResetSyncState
<1>7. MapOK(log, map')
  <2>1. MapOK(log, map) /\ Len(log) \in Nat /\ d \in Dbs
    BY InvParts, PushFacts
  <2>2. z \in [EventIds -> 0..Len(log)] /\ \A e \in EventIds : z[e] = 0
    BY <2>1
  <2> HIDE DEF z, d
  <2>3. /\ map' \in [Dbs -> [EventIds -> 0..Len(log)]]
        /\ \A b \in Dbs : map'[b] = IF b = d THEN z ELSE map[b]
    BY <1>1, <2>1, <2>2 DEF MapOK
  <2> QED BY <2>1, <2>2, <2>3 DEF MapOK
<1> QED BY <1>1, <1>3, <1>4, <1>5, <1>6, <1>7, InvParts DEF EngineInv

-----------------------------------------------------------------------------
(* The invariant holds *)

LEMMA InitInv == ASSUME Init PROVE EngineInv
<1>1. log \in Seq(Entry) /\ Len(log) = 0 /\ log = <<>>
  BY DEF Init
<1>2. LogOK(log)
  BY <1>1 DEF LogOK, IdsOnce, Versioned
<1>3. RowsOK(ver, csn)
  <2>1. /\ ver \in [Dbs -> [EventIds -> Nat]] /\ csn \in [Dbs -> [EventIds -> Nat]]
        /\ \A d \in Dbs, e \in EventIds : ver[d][e] = 0 /\ csn[d][e] = 0
    BY DEF Init
  <2>2. \A d \in Dbs : Rows(ver, csn, d) = {}
    BY <2>1 DEF Rows
  <2> QED BY <2>1, <2>2, FS_EmptySet DEF RowsOK
<1>4. MapOK(log, map) /\ cursor \in [Dbs -> 0..Len(log)]
  BY <1>1 DEF Init, MapOK
<1>5. known \in [Engines -> NoHead..Len(log)]
  BY <1>1 DEF Init, NoHead
<1>6. ThreadsOK(log, ver, th)
  <2>1. th = [n \in Engines |-> [t \in Threads |-> Idle]]
    BY DEF Init
  <2>2. \A n \in Engines, t \in Threads : th[n][t] = Idle
    BY <2>1
  <2>3. th \in [Engines -> [Threads -> Thread]]
    BY <2>1, IdleThread
  <2>4. ASSUME NEW n \in Engines, NEW t \in Threads PROVE WorkOK(log, ver, DbOf[n], t, th[n][t])
    BY <1>1, <2>2, IdleWork
  <2> QED BY <2>3, <2>4 DEF ThreadsOK
<1>7. OrphansOK(orphans) /\ CountsOK
  <2>1. orphans = {} /\ faults = 0 /\ resets = 0 /\ rushed = FALSE /\ taken = FALSE
    BY DEF Init
  <2>2. OrphansOK(orphans)
    BY <2>1 DEF OrphansOK
  <2>3. faults \in 0..MaxFaults /\ resets \in 0..MaxResets
    BY <2>1, EngineConstants
  <2>4. rushed \in BOOLEAN /\ taken \in BOOLEAN
    BY <2>1, Zenon
  <2> QED BY <2>2, <2>3, <2>4 DEF CountsOK
<1> QED BY <1>2, <1>3, <1>4, <1>5, <1>6, <1>7 DEF EngineInv

LEMMA NextInv == ASSUME EngineInv, [Next]_vars PROVE EngineInv'
<1>1. ASSUME NEW d \in Dbs, NEW e \in EventIds, Append1(d, e) PROVE EngineInv'
  BY <1>1, AppendInv
<1>2. ASSUME NEW n \in Engines, StartPull(n) \/ FailPull(n) \/ PullStep(n) PROVE EngineInv'
  <2>0. "pull" \in Threads
    BY DEF Threads
  <2>1. CASE StartPull(n)
    BY <2>1, StartPullInv
  <2>2. CASE ServePage(n)
    BY <2>2, ServePageInv
  <2>3. CASE ServeHead(n)
    BY <2>3, ServeHeadInv
  <2>4. CASE ReceivePage(n)
    BY <2>4, ReceivePageInv
  <2>5. CASE WriteCursor(n)
    BY <2>5, WriteCursorInv
  <2>6. CASE FinishPull(n) \/ FailPull(n)
    BY <2>6, FinishPullInv
  <2>7. CASE LookUpEvent(n, "pull") \/ ResolveVersion(n, "pull")
    BY <2>0, <2>7, ResolveInv
  <2>8. CASE CommitPage(n, "pull")
    BY <2>0, <2>8, CommitInv
  <2> QED BY <1>2, <2>1, <2>2, <2>3, <2>4, <2>5, <2>6, <2>7, <2>8 DEF PullStep
<1>3. ASSUME NEW n \in Engines, LoadPending(n) \/ RefusePush(n) \/ FailPush(n) \/ PushStep(n) PROVE EngineInv'
  <2>0. "push" \in Threads
    BY DEF Threads
  <2>1. CASE LoadPending(n)
    BY <2>1, LoadPendingInv
  <2>2. CASE ReadExpectedHead(n)
    BY <2>2, ReadExpectedHeadInv
  <2>3. CASE ServePush(n)
    BY <2>3, ServePushInv
  <2>4. CASE ServeMissing(n)
    BY <2>4, ServeMissingInv
  <2>5. CASE RefusePush(n)
    BY <2>5, RefusePushInv
  <2>6. CASE FailPush(n)
    BY <2>6, FailPushInv
  <2>7. CASE ApplyAssignments(n)
    BY <2>7, ApplyAssignmentsInv
  <2>8. CASE ReadCursor(n)
    BY <2>8, ReadCursorInv
  <2>9. CASE AckPush(n)
    BY <2>9, AckPushInv
  <2>10. CASE ReceiveConflict(n)
    BY <2>10, ReceiveConflictInv
  <2>11. CASE AdvanceToHead(n)
    BY <2>11, AdvanceToHeadInv
  <2>12. CASE AfterRefusal(n) \/ CheckCursor(n)
    BY <2>12, RefusalInv
  <2>13. CASE LookUpEvent(n, "push") \/ ResolveVersion(n, "push")
    BY <2>0, <2>13, ResolveInv
  <2>14. CASE CommitPage(n, "push")
    BY <2>0, <2>14, CommitInv
  <2> QED BY <1>3, <2>1, <2>2, <2>3, <2>4, <2>5, <2>6, <2>7, <2>8, <2>9, <2>10, <2>11, <2>12, <2>13,
             <2>14 DEF PushStep
<1>4. ASSUME NEW n \in Engines, Reload(n) \/ ResetSyncState(n) PROVE EngineInv'
  BY <1>4, ReloadInv, ResetInv
<1>5. ASSUME NEW m \in orphans, ServeOrphan(m) PROVE EngineInv'
  BY <1>5, ServeOrphanInv
<1>6. CASE UNCHANGED vars
  <2>1. UNCHANGED <<log, ver, csn, map, cursor, known, th, orphans>> /\ UNCHANGED <<faults, resets, rushed, taken>>
    BY <1>6 DEF vars
  <2>2. CountsOK'
    BY <2>1, InvParts, CountsSame
  <2> QED BY <2>1, <2>2, InvParts DEF EngineInv
<1> QED BY <1>1, <1>2, <1>3, <1>4, <1>5, <1>6 DEF Next

\* The tables, the requests and the threads hold what EngineInv says, whatever is
\* lost, repeated, reloaded or reset.
THEOREM EngineHolds == Spec => []EngineInv
<1>1. Init => EngineInv
  BY InitInv
<1>2. EngineInv /\ [Next]_vars => EngineInv'
  BY NextInv
<1> QED BY <1>1, <1>2, PTL DEF Spec

\* Every table and every thread has its type, and no client knows a position the
\* server has not reached.
THEOREM EngineTyped == Spec => []TypeOK
<1>1. EngineInv => TypeOK
  <2> SUFFICES ASSUME EngineInv PROVE TypeOK
    OBVIOUS
  <2>1. /\ log \in Seq(Entry) /\ cursor \in [Dbs -> 0..Len(log)] /\ known \in [Engines -> NoHead..Len(log)]
        /\ RowsOK(ver, csn) /\ MapOK(log, map) /\ ThreadsOK(log, ver, th) /\ OrphansOK(orphans) /\ CountsOK
    BY InvParts
  <2>2. ver \in [Dbs -> [EventIds -> Nat]] /\ csn \in [Dbs -> [EventIds -> Nat]]
    BY <2>1 DEF RowsOK
  <2>3. map \in [Dbs -> [EventIds -> 0..Len(log)]] /\ th \in [Engines -> [Threads -> Thread]]
    BY <2>1 DEF MapOK, ThreadsOK
  <2>4. orphans \subseteq [at : Nat, batch : Seq(Entry)]
    BY <2>1 DEF OrphansOK
  <2> QED BY <2>1, <2>2, <2>3, <2>4 DEF TypeOK, CountsOK
<1> QED BY <1>1, EngineHolds, PTL

\* INV-008 and the mappings: no event is in the server's log twice however often
\* it was pushed, and every row of sync_event_map names its position there.
THEOREM PushedOnce == Spec => [](MapAgrees /\ LogIdsOnce)
<1>1. EngineInv => MapAgrees /\ LogIdsOnce
  <2> SUFFICES ASSUME EngineInv PROVE MapAgrees /\ LogIdsOnce
    OBVIOUS
  <2>1. LogIdsOnce
    BY InvParts DEF LogOK, IdsOnce, LogIdsOnce
  <2>2. MapAgrees
    BY InvParts DEF MapOK, MapAgrees
  <2> QED BY <2>1, <2>2
<1> QED BY <1>1, EngineHolds, PTL

-----------------------------------------------------------------------------
(* Nothing is skipped *)

\* Database d has every event up to position k.
Caught(l, v, d, k) == \A i \in 1..k : v[d][l[i].id] # 0

\* What a pull and a push know to be stored: the position a pull starts from, the
\* expectedHead a push was sent with, and the head it moves the cursor to.
GapThread(l, v, d, t, x) ==
  /\ t = "pull" => Caught(l, v, d, x.at)
  /\ t = "push" =>
       /\ x.pc \in {"sent", "missing", "conflict", "apply", "acked", "advanced"} => Caught(l, v, d, x.at)
       /\ x.pc \in {"conflict", "apply"} => x.head <= x.at + Len(x.page)
       /\ x.pc \in {"ok", "ack", "acked", "advance", "advanced"} => Caught(l, v, d, x.head)

Uncut == ~rushed /\ Len(log) <= MissingLimit
GapInv == Uncut =>
  /\ \A d \in Dbs : Caught(log, ver, d, cursor[d])
  /\ \A n \in Engines, t \in Threads : GapThread(log, ver, DbOf[n], t, th[n][t])

\* A thread goes on as it was, but for a wake-up.
SameWork(x, y) ==
  /\ y.at = x.at /\ y.head = x.head /\ y.page = x.page /\ y.batch = x.batch
  /\ y.next = x.next /\ y.insert = x.insert
  /\ \/ y.pc = x.pc
     \/ x.pc \in {"joined", "waiting"} /\ y.pc \in {"check", "recheck"}

\* Only thread t of engine n does anything, and becomes x.
Moves(n, t, x) == \A m \in Engines, u \in Threads :
  \/ m = n /\ u = t /\ th'[m][u] = x
  \/ SameWork(th[m][u], th'[m][u])

LEMMA BecomesMoves ==
    ASSUME EngineInv, NEW n \in Engines, NEW t \in Threads, NEW x, Becomes(n, t, x)
    PROVE  Moves(n, t, x)
<1>1. th \in [Engines -> [Threads -> Thread]]
  BY InvParts DEF ThreadsOK
<1>2. \A m \in Engines, u \in Threads : th'[m][u] = IF m = n /\ u = t THEN x ELSE th[m][u]
  BY <1>1 DEF Becomes
<1> QED BY <1>2 DEF Moves, SameWork

LEMMA LeavesMoves ==
    ASSUME EngineInv, NEW n \in Engines, NEW t \in Threads, NEW x, Leaves(n, t, x)
    PROVE  Moves(n, t, x)
<1>1. th \in [Engines -> [Threads -> Thread]]
  BY InvParts DEF ThreadsOK
<1> DEFINE y(u) == IF u = t THEN x ELSE [th[n][u] EXCEPT !.pc = Woken(t, th[n][u].pc)]
<1>2. th' = [th EXCEPT ![n] = [u \in Threads |-> y(u)]]
  BY DEF Leaves
<1>3. ASSUME NEW u \in Threads, u # t PROVE SameWork(th[n][u], y(u))
  <2> DEFINE a == th[n][u]
             pc == Woken(t, a.pc)
             z == [a EXCEPT !.pc = pc]
  <2>1. a \in Thread /\ y(u) = z
    BY <1>1, <1>3
  <2>2. \/ pc = a.pc
        \/ a.pc \in {"joined", "waiting"} /\ pc \in {"check", "recheck"}
    BY DEF Woken
  <2> HIDE DEF a, pc, y
  <2>3. /\ z.pc = pc /\ z.at = a.at /\ z.head = a.head /\ z.page = a.page
        /\ z.batch = a.batch /\ z.next = a.next /\ z.insert = a.insert
    BY <2>1 DEF Thread
  <2> HIDE DEF z
  <2> QED BY <2>1, <2>2, <2>3 DEF SameWork, a
<1>4. y(t) = x
  OBVIOUS
<1> HIDE DEF y
<1>5. \A m \in Engines, u \in Threads : th'[m][u] = IF m = n THEN y(u) ELSE th[m][u]
  BY <1>1, <1>2
<1>6. \A a : SameWork(a, a)
  BY DEF SameWork
<1> QED BY <1>3, <1>4, <1>5, <1>6 DEF Moves

\* ... or ends, with or without an error.
EndsAs(n, t, x) ==
  /\ x \in Thread /\ x.pc \in {"idle", "parked"} /\ x.at = 0 /\ x.head = 0
  /\ x.page = <<>> /\ x.batch = <<>> /\ Moves(n, t, x)

LEMMA EndsMoves ==
    ASSUME EngineInv, NEW n \in Engines, NEW t \in Threads, Ends(n, t) \/ Parks(n, t)
    PROVE  \E x : EndsAs(n, t, x)
<1> DEFINE p == [Idle EXCEPT !.pc = "parked"]
<1>1. p \in Thread /\ p.pc = "parked" /\ p.at = 0 /\ p.head = 0 /\ p.page = <<>> /\ p.batch = <<>>
  BY IdleThread DEF Thread, PullLabels
<1>2. CASE Ends(n, t)
  <2>1. Moves(n, t, Idle)
    BY <1>2, LeavesMoves DEF Ends
  <2>2. EndsAs(n, t, Idle)
    BY <2>1, IdleThread DEF EndsAs
  <2> QED BY <2>2
<1>3. CASE Parks(n, t)
  <2>1. Leaves(n, t, p)
    BY <1>3 DEF Parks
  <2> HIDE DEF p
  <2>2. EndsAs(n, t, p)
    BY <1>1, <2>1, LeavesMoves DEF EndsAs
  <2> QED BY <2>2
<1> QED BY <1>2, <1>3

LEMMA CaughtGrows ==
    ASSUME NEW l \in Seq(Entry), NEW m \in Seq(Entry), Grows(l, m), NEW v, NEW w, Keeps(v, w),
           NEW d \in Dbs, NEW k \in 0..Len(l), Caught(l, v, d, k)
    PROVE  Caught(m, w, d, k)
<1>1. SUFFICES ASSUME NEW i \in 1..k PROVE w[d][m[i].id] # 0
  BY DEF Caught
<1>2. i \in 1..Len(l) /\ v[d][l[i].id] # 0
  BY DEF Caught
<1>3. m[i] = l[i] /\ l[i].id \in EventIds
  BY <1>2, EntryIds DEF Grows
<1> QED BY <1>2, <1>3 DEF Keeps

LEMMA CaughtLess ==
    ASSUME NEW l, NEW v, NEW d, NEW k \in Nat, Caught(l, v, d, k), NEW j \in Nat, j <= k
    PROVE  Caught(l, v, d, j)
  BY DEF Caught

\* Everything a page holds is stored, and everything before it.
LEMMA CaughtPage ==
    ASSUME NEW l \in Seq(Entry), NEW v, NEW d, NEW at \in 0..Len(l), Caught(l, v, d, at),
           NEW p \in Seq(PageEntry), Follows(l, at, p), \A k \in DOMAIN p : v[d][p[k].id] # 0
    PROVE  Caught(l, v, d, at + Len(p))
<1>1. SUFFICES ASSUME NEW i \in 1..(at + Len(p)) PROVE v[d][l[i].id] # 0
  BY DEF Caught
<1>2. CASE i <= at
  BY <1>2 DEF Caught
<1>3. CASE i > at
  <2> DEFINE k == i - at
  <2>1. k \in DOMAIN p /\ at + k = i
    BY <1>3
  <2>2. p[k] = [seq |-> at + k, id |-> l[at + k].id, ver |-> l[at + k].ver]
    BY <2>1 DEF Follows
  <2>3. p[k].id = l[at + k].id
    BY <2>2
  <2> QED BY <2>1, <2>3
<1> QED BY <1>2, <1>3

LEMMA UncutBefore ==
    ASSUME EngineInv, EngineInv', Uncut', Grows(log, log'), rushed => rushed' PROVE Uncut
<1>1. Len(log) \in Nat /\ Len(log') \in Nat /\ MissingLimit \in Nat
  BY EngineConstants DEF EngineInv, LogOK
<1>2. Len(log) <= Len(log')
  BY DEF Grows
<1> QED BY <1>1, <1>2 DEF Uncut

\* The shape of every step.
LEMMA GapNext ==
    ASSUME EngineInv, EngineInv', GapInv, Grows(log, log'), Keeps(ver, ver'), rushed => rushed',
           Uncut' => \A d \in Dbs : cursor'[d] = cursor[d] \/ Caught(log', ver', d, cursor'[d]),
           Uncut' => \A n \in Engines, t \in Threads :
              SameWork(th[n][t], th'[n][t]) \/ GapThread(log', ver', DbOf[n], t, th'[n][t])
    PROVE  GapInv'
<1> DEFINE l == log'
           w == ver'
<1>1. SUFFICES ASSUME Uncut'
               PROVE  /\ \A d \in Dbs : Caught(l, w, d, cursor'[d])
                      /\ \A n \in Engines, t \in Threads : GapThread(l, w, DbOf[n], t, th'[n][t])
  BY DEF GapInv
<1>2. Uncut
  BY <1>1, UncutBefore
<1>3. log \in Seq(Entry) /\ l \in Seq(Entry) /\ Len(log) \in Nat /\ Grows(log, l) /\ Keeps(ver, w)
  BY DEF EngineInv, LogOK
<1>4. ASSUME NEW d \in Dbs PROVE Caught(l, w, d, cursor'[d])
  <2>1. cursor[d] \in 0..Len(log) /\ Caught(log, ver, d, cursor[d])
    BY <1>2, InvParts DEF GapInv
  <2>2. Caught(l, w, d, cursor[d])
    <3> HIDE DEF l, w
    <3> QED BY <1>3, <2>1, CaughtGrows
  <2> QED BY <1>1, <2>2
<1>5. ASSUME NEW n \in Engines, NEW t \in Threads PROVE GapThread(l, w, DbOf[n], t, th'[n][t])
  <2>1. CASE GapThread(l, w, DbOf[n], t, th'[n][t])
    BY <2>1
  <2>2. CASE SameWork(th[n][t], th'[n][t])
    <3> DEFINE x == th[n][t]
               y == th'[n][t]
               d == DbOf[n]
    <3>1. GapThread(log, ver, d, t, x) /\ x.at \in 0..Len(log) /\ x.head \in 0..Len(log) /\ d \in Dbs
      BY <1>2, ThreadFacts DEF GapInv
    <3>2. SameWork(x, y)
      BY <2>2
    <3> HIDE DEF x, y, l, w, d
    <3>3. /\ Caught(log, ver, d, x.at) => Caught(l, w, d, y.at)
          /\ Caught(log, ver, d, x.head) => Caught(l, w, d, y.head)
      BY <1>3, <3>1, <3>2, CaughtGrows DEF SameWork
    <3>4. GapThread(l, w, d, t, y)
      BY <3>1, <3>2, <3>3 DEF GapThread, SameWork
    <3> QED BY <3>4 DEF y, d
  <2> QED BY <1>1, <2>1, <2>2
<1> QED BY <1>4, <1>5

\* One thread moves, and nothing is appended or stored.
LEMMA GapMove ==
    ASSUME EngineInv, EngineInv', GapInv, NEW n \in Engines, NEW t \in Threads, NEW x, Moves(n, t, x),
           log' = log, ver' = ver, rushed => rushed',
           Uncut' => \A d \in Dbs : cursor'[d] = cursor[d] \/ Caught(log, ver, d, cursor'[d]),
           Uncut' => GapThread(log, ver, DbOf[n], t, x)
    PROVE  GapInv'
<1>1. Grows(log, log') /\ Keeps(ver, ver')
  BY GrowsSame, KeepsSame, InvParts
<1>2. Uncut' => \A m \in Engines, u \in Threads :
        SameWork(th[m][u], th'[m][u]) \/ GapThread(log', ver', DbOf[m], u, th'[m][u])
  BY DEF Moves
<1>3. Uncut' => \A d \in Dbs : cursor'[d] = cursor[d] \/ Caught(log', ver', d, cursor'[d])
  OBVIOUS
<1> QED BY <1>1, <1>2, <1>3, GapNext

\* A thread at a label that promises nothing.
LEMMA QuietThread ==
    ASSUME NEW l, NEW v, NEW d, NEW t \in Threads, NEW x, t = "pull" => x.at = 0,
           t = "push" => x.pc \in {"idle", "parked", "expect", "refused", "joined", "check", "waiting", "recheck", "retry"}
    PROVE  GapThread(l, v, d, t, x)
  BY DEF GapThread, Caught

LEMMA GapEnds ==
    ASSUME EngineInv, EngineInv', GapInv, NEW n \in Engines, NEW t \in Threads, Ends(n, t) \/ Parks(n, t),
           log' = log, ver' = ver, rushed => rushed',
           Uncut' => \A d \in Dbs : cursor'[d] = cursor[d] \/ Caught(log, ver, d, cursor'[d])
    PROVE  GapInv'
<1>1. PICK x : EndsAs(n, t, x)
  BY EndsMoves
<1>2. GapThread(log, ver, DbOf[n], t, x)
  BY <1>1, QuietThread DEF EndsAs
<1> QED BY <1>1, <1>2, GapMove DEF EndsAs

\* What GapInv says before a step.
LEMMA GapParts ==
    ASSUME EngineInv, GapInv, Uncut, NEW n \in Engines
    PROVE  /\ \A d \in Dbs : Caught(log, ver, d, cursor[d])
           /\ Caught(log, ver, DbOf[n], cursor[DbOf[n]])
           /\ GapThread(log, ver, DbOf[n], "pull", pull(n)) /\ GapThread(log, ver, DbOf[n], "push", push(n))
  BY EngineConstants DEF GapInv, Threads, pull, push

LEMMA PullGap ==
    ASSUME EngineInv, EngineInv', GapInv, NEW n \in Engines,
           StartPull(n) \/ ServePage(n) \/ ServeHead(n) \/ ReceivePage(n)
    PROVE  GapInv'
<1>1. "pull" \in Threads /\ pull(n) = th[n]["pull"]
  BY DEF Threads, pull
<1>2. /\ log' = log /\ ver' = ver /\ rushed' = rushed /\ cursor' = cursor
      /\ \E x : Becomes(n, "pull", x) /\ (x.at = cursor[DbOf[n]] \/ x.at = pull(n).at)
  <2>1. CASE StartPull(n)
    BY <2>1, StartPullStep DEF Same, StartPullTo
  <2>2. CASE ServePage(n)
    BY <2>2, ServePageStep DEF Same, ServePageTo
  <2>3. CASE ServeHead(n)
    BY <2>3, ServeHeadStep DEF Same, ServeHeadTo
  <2>4. CASE ReceivePage(n)
    BY <2>4, ReceivePageStep DEF ReceivePageTo
  <2> QED BY <2>1, <2>2, <2>3, <2>4
<1>3. PICK x : Becomes(n, "pull", x) /\ (x.at = cursor[DbOf[n]] \/ x.at = pull(n).at)
  BY <1>2
<1>4. Uncut' => GapThread(log, ver, DbOf[n], "pull", x)
  BY <1>2, <1>3, GapParts DEF GapThread, Uncut
<1> QED BY <1>1, <1>2, <1>3, <1>4, BecomesMoves, GapMove

LEMMA WriteCursorGap ==
    ASSUME EngineInv, EngineInv', GapInv, NEW n \in Engines, WriteCursor(n) PROVE GapInv'
<1>1. "pull" \in Threads /\ pull(n) = th[n]["pull"]
  BY DEF Threads, pull
<1>2. PICK x, last : WriteCursorTo(n, x, last)
  BY WriteCursorStep
<1>3. log' = log /\ ver' = ver /\ rushed' = rushed
  BY WriteCursorStep
<1>4. /\ pull(n).page \in Seq(PageEntry) /\ log \in Seq(Entry) /\ pull(n).at \in 0..Len(log)
      /\ ThreadOK(log, "pull", pull(n)) /\ SeenBy(ver, DbOf[n], "pull", pull(n)) /\ DbOf[n] \in Dbs
  BY <1>1, ThreadFacts
<1>5. /\ pull(n).pc = "cursor" /\ x.at = last /\ Becomes(n, "pull", x)
      /\ cursor' = [cursor EXCEPT ![DbOf[n]] = last] /\ last = pull(n).at + Len(pull(n).page)
  BY <1>2 DEF WriteCursorTo
<1>6. /\ Follows(log, pull(n).at, pull(n).page)
      /\ \A k \in DOMAIN pull(n).page : ver[DbOf[n]][pull(n).page[k].id] # 0
  BY <1>4, <1>5 DEF ThreadOK, HasPage, SeenBy
<1>7. Uncut' => Caught(log, ver, DbOf[n], last)
  <2>1. SUFFICES ASSUME Uncut' PROVE Caught(log, ver, DbOf[n], last)
    OBVIOUS
  <2>2. Caught(log, ver, DbOf[n], pull(n).at)
    BY <1>3, <2>1, GapParts DEF GapThread, Uncut
  <2> DEFINE p == pull(n).page
             a == pull(n).at
             d == DbOf[n]
  <2>3. /\ Caught(log, ver, d, a) /\ p \in Seq(PageEntry) /\ Follows(log, a, p) /\ a \in 0..Len(log)
        /\ \A k \in DOMAIN p : ver[d][p[k].id] # 0
    BY <1>4, <1>6, <2>2
  <2> HIDE DEF p, a, d
  <2>4. Caught(log, ver, d, a + Len(p))
    BY <1>4, <2>3, CaughtPage
  <2> QED BY <1>5, <2>4 DEF p, a, d
<1>8. Uncut' => GapThread(log, ver, DbOf[n], "pull", x)
  BY <1>5, <1>7 DEF GapThread
<1>9. \A d \in Dbs : cursor'[d] = IF d = DbOf[n] THEN last ELSE cursor[d]
  BY <1>5, InvParts
<1>10. Uncut' => \A d \in Dbs : cursor'[d] = cursor[d] \/ Caught(log, ver, d, cursor'[d])
  BY <1>7, <1>9
<1> QED BY <1>1, <1>3, <1>5, <1>8, <1>10, BecomesMoves, GapMove

LEMMA QuietGap ==
    ASSUME EngineInv, EngineInv', GapInv, NEW n \in Engines,
           \/ FinishPull(n) \/ FailPull(n) \/ FailPush(n)
           \/ LoadPending(n) \/ RefusePush(n) \/ AfterRefusal(n) \/ CheckCursor(n)
    PROVE  GapInv'
<1>1. log' = log /\ ver' = ver /\ rushed' = rushed /\ cursor' = cursor
  BY DEF FinishPull, FailPull, FailPush, LoadPending, RefusePush, AfterRefusal, CheckCursor
<1>2. \/ Ends(n, "pull") \/ Ends(n, "push")
      \/ \E x : Becomes(n, "push", x) /\ x.pc \in {"expect", "refused", "joined", "check", "waiting", "retry"}
  <2>1. CASE FinishPull(n) \/ FailPull(n) \/ FailPush(n)
    BY <2>1 DEF FinishPull, FailPull, FailPush
  <2>2. CASE LoadPending(n)
    BY <2>2, LoadPendingStep DEF LoadPendingTo
  <2>3. CASE RefusePush(n)
    BY <2>3, RefusePushStep DEF RefusePushTo
  <2>4. CASE AfterRefusal(n) \/ CheckCursor(n)
    BY <2>4, RefusalStep DEF TurnTo, RetryTo
  <2> QED BY <2>1, <2>2, <2>3, <2>4
<1>3. "pull" \in Threads /\ "push" \in Threads
  BY DEF Threads
<1>4. CASE Ends(n, "pull") \/ Ends(n, "push")
  BY <1>1, <1>3, <1>4, GapEnds
<1>5. ASSUME NEW x, Becomes(n, "push", x), x.pc \in {"expect", "refused", "joined", "check", "waiting", "retry"}
      PROVE  GapInv'
  <2>1. GapThread(log, ver, DbOf[n], "push", x)
    BY <1>3, <1>5, QuietThread
  <2> QED BY <1>1, <1>3, <1>5, <2>1, BecomesMoves, GapMove
<1> QED BY <1>2, <1>4, <1>5

LEMMA PushGap ==
    ASSUME EngineInv, EngineInv', GapInv, NEW n \in Engines,
           ReadExpectedHead(n) \/ ServeMissing(n) \/ ReadCursor(n) \/ ReceiveConflict(n) \/ ApplyAssignments(n)
    PROVE  GapInv'
<1>0. log' = log /\ ver' = ver /\ cursor' = cursor
  BY DEF ReadExpectedHead, ServeMissing, ReadCursor, ReceiveConflict, ApplyAssignments
<1>1. log' = log /\ ver' = ver /\ cursor' = cursor /\ (rushed => rushed')
  <2>1. CASE ReadExpectedHead(n)
    <3>1. PICK x : ReadExpectedHeadTo(n, x)
      BY <2>1, ReadExpectedHeadStep
    <3> QED BY <1>0, <3>1, Zenon DEF ReadExpectedHeadTo
  <2>2. CASE ~ReadExpectedHead(n)
    BY <1>0, <2>2 DEF ServeMissing, ReadCursor, ReceiveConflict, ApplyAssignments
  <2> QED BY <2>1, <2>2
<1>2. Uncut' => Uncut
  BY <1>1 DEF Uncut
<1>3. \E x : Becomes(n, "push", x) /\ (Uncut' => GapThread(log, ver, DbOf[n], "push", x))
  <2>1. CASE ReadExpectedHead(n)
    <3>1. PICK x : ReadExpectedHeadTo(n, x)
      BY <2>1, ReadExpectedHeadStep
    <3>2. Uncut' => Caught(log, ver, DbOf[n], x.at)
      BY <3>1 DEF ReadExpectedHeadTo, Uncut, CaughtUp, Caught, Present
    <3>3. x.pc = "sent" /\ Becomes(n, "push", x)
      BY <3>1 DEF ReadExpectedHeadTo
    <3> QED BY <3>2, <3>3 DEF GapThread
  <2>2. CASE ServeMissing(n)
    <3>1. PICK x : ServeMissingTo(n, x)
      BY <2>2, ServeMissingStep
    <3>2. /\ push(n).pc = "missing" /\ x.pc = "conflict" /\ x.at = push(n).at /\ x.head = push(n).head
          /\ Len(log) <= MissingLimit => x.at + Len(x.page) = Len(log)
          /\ Becomes(n, "push", x)
      BY <3>1 DEF ServeMissingTo
    <3>3. Uncut => Caught(log, ver, DbOf[n], push(n).at)
      BY <3>2, GapParts DEF GapThread
    <3>4. Uncut => x.head <= x.at + Len(x.page)
      BY <3>2, PushFacts DEF Uncut
    <3> QED BY <1>2, <3>2, <3>3, <3>4 DEF GapThread
  <2>3. CASE ReadCursor(n)
    <3>1. PICK x : ReadCursorTo(n, x)
      BY <2>3, ReadCursorStep
    <3>2. /\ push(n).pc \in {"ack", "advance"} /\ x.pc \in {"acked", "advanced"}
          /\ x.at = cursor[DbOf[n]] /\ x.head = push(n).head /\ Becomes(n, "push", x)
      BY <3>1 DEF ReadCursorTo
    <3>3. Uncut => Caught(log, ver, DbOf[n], cursor[DbOf[n]]) /\ Caught(log, ver, DbOf[n], push(n).head)
      BY <3>2, GapParts DEF GapThread
    <3> QED BY <1>2, <3>2, <3>3 DEF GapThread
  <2>4. CASE ReceiveConflict(n)
    <3>1. PICK x : ReceiveConflictTo(n, x)
      BY <2>4, ReceiveConflictStep
    <3>2. /\ push(n).pc = "conflict" /\ x.pc = "apply" /\ x.at = push(n).at /\ x.head = push(n).head
          /\ x.page = push(n).page /\ Becomes(n, "push", x)
      BY <3>1 DEF ReceiveConflictTo
    <3>3. Uncut => Caught(log, ver, DbOf[n], push(n).at) /\ push(n).head <= push(n).at + Len(push(n).page)
      BY <3>2, GapParts DEF GapThread
    <3> QED BY <1>2, <3>2, <3>3 DEF GapThread
  <2>5. CASE ApplyAssignments(n)
    <3>1. PICK x : ApplyAssignmentsTo(n, x)
      BY <2>5, ApplyAssignmentsStep
    <3>2. push(n).pc = "ok" /\ x.pc = "ack" /\ x.head = push(n).head /\ Becomes(n, "push", x)
      BY <3>1 DEF ApplyAssignmentsTo
    <3>3. Uncut => Caught(log, ver, DbOf[n], push(n).head)
      BY <3>2, GapParts DEF GapThread
    <3> QED BY <1>2, <3>2, <3>3 DEF GapThread
  <2> QED BY <2>1, <2>2, <2>3, <2>4, <2>5
<1>4. PICK x : Becomes(n, "push", x) /\ (Uncut' => GapThread(log, ver, DbOf[n], "push", x))
  BY <1>3
<1> QED BY <1>1, <1>4, PushFacts, BecomesMoves, GapMove

\* The cursor moves to the head of an accepted push or of a conflict.
LEMMA HeadGap ==
    ASSUME EngineInv, EngineInv', GapInv, NEW n \in Engines, AckPush(n) \/ AdvanceToHead(n) PROVE GapInv'
<1>1. log' = log /\ ver' = ver /\ rushed' = rushed /\ push(n).pc \in {"acked", "advanced"}
  BY DEF AckPush, AdvanceToHead
<1> DEFINE c == Larger(push(n).at, push(n).head)
<1>2. cursor' = [cursor EXCEPT ![DbOf[n]] = c]
  BY DEF AckPush, AdvanceToHead
<1>3. Uncut => Caught(log, ver, DbOf[n], c)
  <2>1. Uncut => Caught(log, ver, DbOf[n], push(n).at) /\ Caught(log, ver, DbOf[n], push(n).head)
    BY <1>1, GapParts DEF GapThread
  <2>2. c = push(n).at \/ c = push(n).head
    BY DEF Larger
  <2> QED BY <2>1, <2>2
<1> HIDE DEF c
<1>4. \A d \in Dbs : cursor'[d] = IF d = DbOf[n] THEN c ELSE cursor[d]
  BY <1>2, InvParts
<1>5. Uncut' => \A d \in Dbs : cursor'[d] = cursor[d] \/ Caught(log, ver, d, cursor'[d])
  BY <1>1, <1>3, <1>4 DEF Uncut
<1>6. CASE Ends(n, "push")
  BY <1>1, <1>5, <1>6, GapEnds, PushFacts
<1>7. ASSUME NEW x, RetryTo(n, x) PROVE GapInv'
  <2>1. GapThread(log, ver, DbOf[n], "push", x)
    BY <1>7, PushFacts, QuietThread DEF RetryTo
  <2> QED BY <1>1, <1>5, <1>7, <2>1, PushFacts, BecomesMoves, GapMove DEF RetryTo
<1> QED BY <1>6, <1>7, TriesAgainStep DEF AckPush, AdvanceToHead

\* The log grows by a batch whose events are stored.
LEMMA ServePushGap ==
    ASSUME EngineInv, EngineInv', GapInv, NEW n \in Engines, ServePush(n) PROVE GapInv'
<1>1. PICK x : ServePushTo(n, x)
  BY ServePushStep
<1>2. /\ ver' = ver /\ rushed' = rushed /\ cursor' = cursor
      /\ push(n).pc = "sent" /\ x.at = push(n).at /\ x.head = Len(log') /\ Becomes(n, "push", x)
  BY <1>1, ServePushStep DEF ServePushTo
<1>3. Grows(log, log') /\ Keeps(ver, ver') /\ log \in Seq(Entry) /\ log' \in Seq(Entry)
  BY <1>1, <1>2, InvParts, GrowsSame, KeepsSame DEF ServePushTo, Appended, LogOK
<1>4. ASSUME Uncut' PROVE GapThread(log', ver, DbOf[n], "push", x)
  <2>1. Uncut
    BY <1>2, <1>3, <1>4, UncutBefore
  <2>2. Caught(log, ver, DbOf[n], push(n).at)
    BY <1>2, <2>1, GapParts DEF GapThread
  <2>3. CASE x.pc = "missing" /\ log' = log
    BY <1>2, <2>2, <2>3 DEF GapThread
  <2>4. CASE x.pc = "ok" /\ push(n).at = Len(log) /\ Appended(push(n).batch)
    <3>1. ASSUME NEW i \in 1..Len(log') PROVE ver[DbOf[n]][log'[i].id] # 0
      <4>1. CASE i <= Len(log)
        BY <1>3, <2>2, <2>4, <4>1 DEF Caught, Grows
      <4>2. CASE i > Len(log)
        <5>1. PICK p \in DOMAIN push(n).batch : log'[i] = push(n).batch[p]
          BY <1>3, <2>4, <4>2 DEF Appended
        <5> QED BY <5>1, PushFacts DEF SeenBy
      <4> QED BY <1>3, <4>1, <4>2
    <3> QED BY <1>2, <2>4, <3>1 DEF GapThread, Caught
  <2> QED BY <1>1, <2>3, <2>4 DEF ServePushTo
<1>5. Moves(n, "push", x)
  BY <1>2, PushFacts, BecomesMoves
<1>6. Uncut' => \A m \in Engines, t \in Threads :
        SameWork(th[m][t], th'[m][t]) \/ GapThread(log', ver', DbOf[m], t, th'[m][t])
  BY <1>2, <1>4, <1>5 DEF Moves
<1> QED BY <1>2, <1>3, <1>6, GapNext

LEMMA ThreadsStay == ASSUME th' = th PROVE \A n \in Engines, t \in Threads : SameWork(th[n][t], th'[n][t])
  BY DEF SameWork

LEMMA DatabaseGap ==
    ASSUME EngineInv, EngineInv', GapInv, Grows(log, log'), Keeps(ver, ver'),
           cursor' = cursor, th' = th, rushed' = rushed
    PROVE  GapInv'
  BY ThreadsStay, GapNext

LEMMA ResolveGap ==
    ASSUME EngineInv, EngineInv', GapInv, NEW n \in Engines, NEW t \in Threads,
           LookUpEvent(n, t) \/ ResolveVersion(n, t)
    PROVE  GapInv'
<1>1. /\ UNCHANGED <<log, csn, map, cursor, known, orphans, faults, resets, rushed>>
      /\ th[n][t].pc = "apply"
      /\ \/ \E x : Advances(n, t, x) /\ ver' = ver
         \/ MakesRoom(n, t) /\ th' = th
         \/ (Ends(n, t) \/ Parks(n, t)) /\ ver' = ver
  BY ResolveStep
<1>2. DbOf[n] \in Dbs /\ Uncut' = Uncut
  BY <1>1, EngineConstants DEF Uncut
<1>3. ASSUME NEW x, Advances(n, t, x), ver' = ver PROVE GapInv'
  <2>1. /\ x.pc = "apply" /\ x.at = th[n][t].at /\ x.head = th[n][t].head /\ x.page = th[n][t].page
        /\ Becomes(n, t, x)
    BY <1>3 DEF Advances
  <2>2. Uncut => GapThread(log, ver, DbOf[n], t, th[n][t])
    BY DEF GapInv
  <2>3. Uncut' => GapThread(log, ver, DbOf[n], t, x)
    BY <1>1, <1>2, <2>1, <2>2 DEF GapThread
  <2> QED BY <1>1, <1>3, <2>1, <2>3, BecomesMoves, GapMove
<1>4. CASE MakesRoom(n, t) /\ th' = th
  <2>1. PICK g, v : ver' = ShiftVersions(DbOf[n], g, v)
    BY <1>4 DEF MakesRoom
  <2>2. Keeps(ver, ver')
    BY <1>1, <1>2, <2>1, ShiftFacts
  <2>3. Grows(log, log')
    BY <1>1, InvParts, GrowsSame
  <2> QED BY <1>1, <1>4, <2>2, <2>3, DatabaseGap
<1>5. CASE (Ends(n, t) \/ Parks(n, t)) /\ ver' = ver
  BY <1>1, <1>5, GapEnds
<1> QED BY <1>1, <1>3, <1>4, <1>5

LEMMA CommitGap ==
    ASSUME EngineInv, EngineInv', GapInv, NEW n \in Engines, NEW t \in Threads, CommitPage(n, t)
    PROVE  GapInv'
<1> DEFINE d == DbOf[n]
           x == th[n][t]
           w == ver'
<1>1. /\ d \in Dbs /\ x.page \in Seq(PageEntry) /\ ThreadOK(log, t, x) /\ SeenBy(ver, d, t, x)
      /\ log \in Seq(Entry) /\ Len(log) \in Nat /\ x.next \in Nat /\ x.at \in 0..Len(log) /\ x.head \in 0..Len(log)
  BY ThreadFacts
<1>2. /\ x.pc = "apply" /\ x.next > Len(x.page)
      /\ (\E y : CommitTo(n, t, y)) \/ Parks(n, t)
      /\ log' = log /\ cursor' = cursor /\ rushed' = rushed
  BY CommitStep
<1>3. Keeps(ver, w) /\ (\A e \in PresentAfter(d, x) : w[d][e] # 0) /\ Grows(log, log')
  BY <1>1, <1>2, CommitPresent, GrowsSame
<1>4. Uncut' = Uncut /\ (Uncut => GapThread(log, ver, d, t, x))
  BY <1>2 DEF Uncut, GapInv
<1>5. Uncut' => \A c \in Dbs : cursor'[c] = cursor[c] \/ Caught(log', ver', c, cursor'[c])
  BY <1>2
<1>6. CASE Parks(n, t)
  <2>1. PICK y : EndsAs(n, t, y)
    BY <1>6, EndsMoves
  <2>2. GapThread(log', ver', d, t, y)
    BY <2>1, QuietThread DEF EndsAs
  <2>3. Uncut' => \A m \in Engines, u \in Threads :
          SameWork(th[m][u], th'[m][u]) \/ GapThread(log', ver', DbOf[m], u, th'[m][u])
    BY <2>1, <2>2 DEF EndsAs, Moves
  <2> QED BY <1>2, <1>3, <1>5, <2>3, GapNext
<1>7. ASSUME NEW y, CommitTo(n, t, y) PROVE GapInv'
  <2>1. /\ x.insert \subseteq PresentAfter(d, x)
        /\ y.at = x.at /\ y.head = x.head /\ y.page = x.page
        /\ \/ t = "pull" /\ y.pc = "cursor"
           \/ t = "push" /\ y.pc = "advance"
        /\ Becomes(n, t, y)
    BY <1>7 DEF CommitTo
  <2>2. \A k \in DOMAIN x.page : w[d][x.page[k].id] # 0
    <3>1. TAKE k \in DOMAIN x.page
    <3>2. k < x.next /\ x.page[k].id \in EventIds
      BY <1>1, <1>2, PageIds
    <3>3. x.page[k].id \in x.insert \/ ver[d][x.page[k].id] # 0
      BY <1>1, <1>2, <3>2 DEF SeenBy
    <3> QED BY <1>1, <1>3, <2>1, <3>2, <3>3 DEF Keeps
  <2>3. Follows(log, x.at, x.page)
    BY <1>1, <1>2 DEF ThreadOK, HasPage, Threads
  <2>4. ASSUME Uncut' PROVE GapThread(log, w, d, t, y)
    <3>1. Caught(log, ver, d, x.at) /\ (t = "push" => x.head <= x.at + Len(x.page))
      BY <1>2, <1>4, <2>4 DEF GapThread, Threads
    <3> HIDE DEF x, d, w
    <3>2. Caught(log, w, d, x.at)
      BY <1>1, <1>3, <3>1, CaughtGrows, GrowsSame
    <3> DEFINE p == x.page
               a == x.at
    <3>3. /\ Caught(log, w, d, a) /\ p \in Seq(PageEntry) /\ Follows(log, a, p) /\ a \in 0..Len(log)
          /\ \A k \in DOMAIN p : w[d][p[k].id] # 0
      BY <1>1, <2>2, <2>3, <3>2
    <3> HIDE DEF p, a
    <3>4. Caught(log, w, d, a + Len(p)) /\ a + Len(p) \in Nat
      BY <1>1, <3>3, CaughtPage
    <3>5. t = "push" => Caught(log, w, d, x.head)
      <4>1. SUFFICES ASSUME t = "push" PROVE Caught(log, w, d, x.head)
        OBVIOUS
      <4> DEFINE h == x.head
                 k == a + Len(p)
      <4>2. h \in Nat /\ h <= k /\ k \in Nat /\ Caught(log, w, d, k)
        BY <1>1, <3>1, <3>4, <4>1 DEF a, p
      <4> HIDE DEF h, k
      <4>3. Caught(log, w, d, h)
        BY <4>2, CaughtLess
      <4> QED BY <4>3 DEF h
    <3> QED BY <2>1, <3>2, <3>5 DEF GapThread
  <2>5. Moves(n, t, y)
    BY <2>1, BecomesMoves
  <2>6. Uncut' => \A m \in Engines, u \in Threads :
          SameWork(th[m][u], th'[m][u]) \/ GapThread(log', ver', DbOf[m], u, th'[m][u])
    BY <1>2, <2>4, <2>5 DEF Moves
  <2> QED BY <1>2, <1>3, <1>5, <2>6, GapNext
<1> QED BY <1>2, <1>6, <1>7

LEMMA StoppedGoesOn ==
    ASSUME EngineInv, NEW n \in Engines, NEW t \in Threads
    PROVE  Stopped(n, t) = Idle \/ SameWork(th[n][t], Stopped(n, t))
<1>1. SameWork(th[n][t], th[n][t])
  BY DEF SameWork
<1>2. t = "push" => SameWork(th[n][t], [push(n) EXCEPT !.pc = Woken("pull", @)])
  <2> DEFINE a == push(n)
             pc == Woken("pull", a.pc)
             z == [a EXCEPT !.pc = pc]
  <2>1. a \in Thread
    BY InvParts DEF ThreadsOK, push, Threads
  <2>2. \/ pc = a.pc
        \/ a.pc \in {"joined", "waiting"} /\ pc \in {"check", "recheck"}
    BY DEF Woken
  <2> HIDE DEF a, pc
  <2>3. /\ z.pc = pc /\ z.at = a.at /\ z.head = a.head /\ z.page = a.page
        /\ z.batch = a.batch /\ z.next = a.next /\ z.insert = a.insert
    BY <2>1 DEF Thread
  <2> HIDE DEF z
  <2>4. SameWork(a, z)
    BY <2>2, <2>3 DEF SameWork
  <2> QED BY <2>4 DEF a, pc, z, push
<1> QED BY <1>1, <1>2 DEF Stopped

\* What a reload or a reset leaves of the threads.
LEMMA CutThreads ==
    ASSUME EngineInv, NEW n \in Engines, Reload(n) \/ ResetSyncState(n)
    PROVE  \A m \in Engines, t \in Threads : th'[m][t] = Idle \/ SameWork(th[m][t], th'[m][t])
<1>1. th \in [Engines -> [Threads -> Thread]]
  BY InvParts DEF ThreadsOK
<1>2. \A m \in Engines, t \in Threads : SameWork(th[m][t], th[m][t])
  BY DEF SameWork
<1>3. CASE Reload(n)
  <2>1. \A m \in Engines, t \in Threads : th'[m][t] = IF m = n THEN Idle ELSE th[m][t]
    BY <1>1, <1>3 DEF Reload
  <2> QED BY <1>2, <2>1
<1>4. CASE ResetSyncState(n)
  <2>1. \A m \in Engines, t \in Threads : th'[m][t] = IF m = n THEN Stopped(n, t) ELSE th[m][t]
    BY <1>1, <1>4 DEF ResetSyncState
  <2> QED BY <1>2, <2>1, StoppedGoesOn
<1> QED BY <1>3, <1>4

\* Threads that are cut off.
LEMMA CutGap ==
    ASSUME EngineInv, EngineInv', GapInv, NEW n \in Engines, Reload(n) \/ ResetSyncState(n) PROVE GapInv'
<1>1. log' = log /\ ver' = ver /\ rushed' = rushed
  BY DEF Reload, ResetSyncState
<1>2. \A d \in Dbs : cursor'[d] = cursor[d] \/ cursor'[d] = 0
  BY InvParts DEF Reload, ResetSyncState
<1>3. \A d \in Dbs : cursor'[d] = cursor[d] \/ Caught(log', ver', d, cursor'[d])
  BY <1>2 DEF Caught
<1>5. \A m \in Engines, t \in Threads : th'[m][t] = Idle \/ SameWork(th[m][t], th'[m][t])
  BY CutThreads
<1>6. \A m \in Engines, t \in Threads :
        SameWork(th[m][t], th'[m][t]) \/ GapThread(log', ver', DbOf[m], t, th'[m][t])
  <2>1. TAKE m \in Engines, t \in Threads
  <2>2. GapThread(log', ver', DbOf[m], t, Idle)
    BY IdleThread, QuietThread
  <2> QED BY <1>5, <2>2
<1> QED BY <1>1, <1>3, <1>6, GrowsSame, KeepsSame, InvParts, GapNext

LEMMA NextGap == ASSUME EngineInv, GapInv, [Next]_vars PROVE GapInv'
<1>0. EngineInv' /\ "pull" \in Threads /\ "push" \in Threads
  BY NextInv DEF Threads
<1>1. ASSUME NEW d \in Dbs, NEW e \in EventIds, Append1(d, e) PROVE GapInv'
  BY <1>0, <1>1, AppendStep, DatabaseGap, InvParts, GrowsSame
<1>2. ASSUME NEW n \in Engines, StartPull(n) \/ FailPull(n) \/ PullStep(n) PROVE GapInv'
  <2>1. CASE StartPull(n) \/ ServePage(n) \/ ServeHead(n) \/ ReceivePage(n)
    BY <1>0, <2>1, PullGap
  <2>2. CASE WriteCursor(n)
    BY <1>0, <2>2, WriteCursorGap
  <2>3. CASE FinishPull(n) \/ FailPull(n)
    BY <1>0, <2>3, QuietGap
  <2>4. CASE LookUpEvent(n, "pull") \/ ResolveVersion(n, "pull")
    BY <1>0, <2>4, ResolveGap
  <2>5. CASE CommitPage(n, "pull")
    BY <1>0, <2>5, CommitGap
  <2> QED BY <1>2, <2>1, <2>2, <2>3, <2>4, <2>5 DEF PullStep
<1>3. ASSUME NEW n \in Engines, LoadPending(n) \/ RefusePush(n) \/ FailPush(n) \/ PushStep(n) PROVE GapInv'
  <2>1. CASE LoadPending(n) \/ RefusePush(n) \/ FailPush(n) \/ AfterRefusal(n) \/ CheckCursor(n)
    BY <1>0, <2>1, QuietGap
  <2>2. CASE ReadExpectedHead(n) \/ ServeMissing(n) \/ ReadCursor(n) \/ ReceiveConflict(n) \/ ApplyAssignments(n)
    BY <1>0, <2>2, PushGap
  <2>3. CASE ServePush(n)
    BY <1>0, <2>3, ServePushGap
  <2>4. CASE AckPush(n) \/ AdvanceToHead(n)
    BY <1>0, <2>4, HeadGap
  <2>5. CASE LookUpEvent(n, "push") \/ ResolveVersion(n, "push")
    BY <1>0, <2>5, ResolveGap
  <2>6. CASE CommitPage(n, "push")
    BY <1>0, <2>6, CommitGap
  <2> QED BY <1>3, <2>1, <2>2, <2>3, <2>4, <2>5, <2>6 DEF PushStep
<1>4. ASSUME NEW n \in Engines, Reload(n) \/ ResetSyncState(n) PROVE GapInv'
  BY <1>0, <1>4, CutGap
<1>5. ASSUME NEW m \in orphans, ServeOrphan(m) PROVE GapInv'
  <2>1. cursor' = cursor /\ th' = th /\ rushed' = rushed /\ ver' = ver
    BY <1>5 DEF ServeOrphan
  <2>2. Grows(log, log')
    BY <1>5, ServeOrphanLog
  <2> QED BY <1>0, <2>1, <2>2, DatabaseGap, KeepsSame
<1>6. CASE UNCHANGED vars
  <2>1. UNCHANGED <<log, ver, cursor, th, rushed>>
    BY <1>6 DEF vars
  <2> QED BY <1>0, <2>1, DatabaseGap, InvParts, GrowsSame, KeepsSame
<1> QED BY <1>1, <1>2, <1>3, <1>4, <1>5, <1>6 DEF Next

LEMMA InitGap == ASSUME Init PROVE GapInv
<1>1. \A d \in Dbs : cursor[d] = 0
  BY DEF Init
<1>2. \A n \in Engines, t \in Threads : th[n][t] = Idle
  BY DEF Init
<1>3. \A n \in Engines, t \in Threads : GapThread(log, ver, DbOf[n], t, th[n][t])
  BY <1>2, IdleThread, QuietThread
<1> QED BY <1>1, <1>3 DEF GapInv, Caught

\* Nothing below a cursor is missing as long as every push was sent by a device
\* that was caught up and the list of missing events was never cut off.
THEOREM NothingIsSkipped == Spec => [](~rushed /\ Len(log) <= MissingLimit => NoGap)
<1>1. Init => GapInv
  BY InitGap
<1>2. EngineInv /\ GapInv /\ [Next]_vars => GapInv'
  BY NextGap
<1>3. EngineInv /\ GapInv => (~rushed /\ Len(log) <= MissingLimit => NoGap)
  <2> SUFFICES ASSUME EngineInv, GapInv, Uncut PROVE NoGap
    BY DEF Uncut
  <2>1. \A d \in Dbs : cursor[d] \in 0..Len(log) /\ Caught(log, ver, d, cursor[d])
    BY InvParts DEF GapInv
  <2>2. Len(log) \in Nat
    BY InvParts
  <2> QED BY <2>1, <2>2 DEF NoGap, Caught, Present
<1> QED BY <1>1, <1>2, <1>3, EngineHolds, PTL DEF Spec

-----------------------------------------------------------------------------
(* Versions: what the log and the databases hold when every push was sent by *)
(* a device that was caught up and no command took a version found free      *)

Logged(l, e) == \E k \in DOMAIN l : l[k].id = e

\* The rows of database d the server does not have.
Fresh(l, v, d) == {e \in EventIds : v[d][e] # 0 /\ ~Logged(l, e)}

\* In the log the versions of an aggregate are 1, 2, 3, ...
Increasing(l) == \A i, j \in DOMAIN l :
  i < j /\ AggOf[l[i].id] = AggOf[l[j].id] => l[i].ver < l[j].ver
Dense(l) == \A j \in DOMAIN l :
  \/ l[j].ver = 1
  \/ \E i \in DOMAIN l : i < j /\ AggOf[l[i].id] = AggOf[l[j].id] /\ l[i].ver = l[j].ver - 1

\* An event the server does not have is in one database.
Unshared(l, v) == \A b, c \in Dbs, e \in EventIds : e \in Fresh(l, v, b) /\ e \in Fresh(l, v, c) => b = c

\* A database holds the events of the log from the first to some last one, as
\* the log has them; the rows of an aggregate the server does not have follow.
Closed(l, v, d) == \A j \in DOMAIN l : v[d][l[j].id] # 0 => Caught(l, v, d, j)
Agrees(l, v, d) == \A j \in DOMAIN l : v[d][l[j].id] # 0 => v[d][l[j].id] = l[j].ver
Above(l, v, d) == \A j \in DOMAIN l, e \in Fresh(l, v, d) :
  AggOf[l[j].id] = AggOf[e] /\ v[d][l[j].id] # 0 => l[j].ver < v[d][e]

\* Their versions increase in the order of their commits, without a hole but
\* for what the log has and the database has not.
Ordered(l, v, c, d) == \A e, f \in Fresh(l, v, d) :
  /\ AggOf[e] = AggOf[f] /\ c[d][e] < c[d][f] => v[d][e] < v[d][f]
  /\ c[d][e] = c[d][f] => e = f
Chain(l, v, d) == \A e \in Fresh(l, v, d) :
  \/ v[d][e] = 1
  \/ \E f \in Fresh(l, v, d) : AggOf[f] = AggOf[e] /\ v[d][f] = v[d][e] - 1
  \/ /\ \E j \in DOMAIN l : AggOf[l[j].id] = AggOf[e] /\ l[j].ver = v[d][e] - 1
     /\ \A f \in Fresh(l, v, d) : AggOf[f] = AggOf[e] => v[d][e] <= v[d][f]

DbOK(l, v, c, d) ==
  Closed(l, v, d) /\ Agrees(l, v, d) /\ Above(l, v, d) /\ Ordered(l, v, c, d) /\ Chain(l, v, d)
TablesOK(l, v, c) ==
  Increasing(l) /\ Dense(l) /\ Unshared(l, v) /\ \A d \in Dbs : DbOK(l, v, c, d)

\* The log m continues l with rows of database d, the oldest first.
Extends(l, m, v, c, d) ==
  /\ Grows(l, m)
  /\ \A k \in DOMAIN m : k > Len(l) => m[k].id \in Fresh(l, v, d) /\ m[k].ver = v[d][m[k].id]
  /\ \A j, k \in DOMAIN m : Len(l) < j /\ j < k => c[d][m[j].id] < c[d][m[k].id]
  /\ \A k \in DOMAIN m, e \in Fresh(l, v, d) : k > Len(l) /\ ~Logged(m, e) => c[d][m[k].id] < c[d][e]

LEMMA ExtendsFacts ==
    ASSUME NEW l \in Seq(Entry), NEW m \in Seq(Entry), NEW v, NEW c, NEW d \in Dbs, Extends(l, m, v, c, d)
    PROVE  /\ \A k \in DOMAIN l : k \in DOMAIN m /\ m[k] = l[k]
           /\ \A k \in DOMAIN m : k <= Len(l) => k \in DOMAIN l /\ m[k] = l[k]
           /\ \A e : Logged(l, e) => Logged(m, e)
           /\ \A b : Fresh(m, v, b) \subseteq Fresh(l, v, b)
<1>1. /\ \A k \in DOMAIN l : k \in DOMAIN m /\ m[k] = l[k]
      /\ \A k \in DOMAIN m : k <= Len(l) => k \in DOMAIN l /\ m[k] = l[k]
  BY DEF Extends, Grows
<1>2. \A e : Logged(l, e) => Logged(m, e)
  BY <1>1 DEF Logged
<1> QED BY <1>1, <1>2 DEF Fresh

LEMMA ExtendsLog ==
    ASSUME NEW l \in Seq(Entry), NEW m \in Seq(Entry), NEW v \in [Dbs -> [EventIds -> Nat]],
           NEW c \in [Dbs -> [EventIds -> Nat]], NEW d \in Dbs, Extends(l, m, v, c, d),
           TablesOK(l, v, c), Caught(l, v, d, Len(l))
    PROVE  Increasing(m) /\ Dense(m)
<1>1. DbOK(l, v, c, d) /\ Increasing(l) /\ Dense(l)
  BY DEF TablesOK
<1>2. /\ \A k \in DOMAIN m : m[k].id \in EventIds /\ m[k].ver \in Nat /\ k \in Nat
      /\ Len(l) \in Nat
  BY EntryIds
<1>3. \A e \in EventIds : v[d][e] \in Nat /\ c[d][e] \in Nat
  OBVIOUS
<1>4. \A k \in DOMAIN l : v[d][l[k].id] # 0
  BY DEF Caught
<1>5. ASSUME NEW i \in DOMAIN m, NEW j \in DOMAIN m, i < j, AggOf[m[i].id] = AggOf[m[j].id]
      PROVE  m[i].ver < m[j].ver
  <2>1. CASE j <= Len(l)
    <3>1. i \in DOMAIN l /\ j \in DOMAIN l /\ m[i] = l[i] /\ m[j] = l[j]
      BY <1>2, <1>5, <2>1, ExtendsFacts
    <3> QED BY <1>1, <1>5, <3>1 DEF Increasing
  <2>2. CASE i <= Len(l) /\ j > Len(l)
    <3>1. i \in DOMAIN l /\ m[i] = l[i]
      BY <1>2, <1>5, <2>2, ExtendsFacts
    <3>2. m[j].id \in Fresh(l, v, d) /\ m[j].ver = v[d][m[j].id]
      BY <2>2 DEF Extends
    <3> QED BY <1>1, <1>4, <1>5, <3>1, <3>2 DEF DbOK, Above
  <2>3. CASE i > Len(l)
    <3>1. j > Len(l)
      BY <1>2, <1>5, <2>3
    <3>2. /\ m[i].id \in Fresh(l, v, d) /\ m[i].ver = v[d][m[i].id]
          /\ m[j].id \in Fresh(l, v, d) /\ m[j].ver = v[d][m[j].id]
      BY <2>3, <3>1 DEF Extends
    <3>3. c[d][m[i].id] < c[d][m[j].id]
      BY <1>5, <2>3 DEF Extends
    <3> QED BY <1>1, <1>5, <3>2, <3>3 DEF DbOK, Ordered
  <2> QED BY <1>2, <2>1, <2>2, <2>3
<1>6. ASSUME NEW j \in DOMAIN m
      PROVE  \/ m[j].ver = 1
             \/ \E i \in DOMAIN m : i < j /\ AggOf[m[i].id] = AggOf[m[j].id] /\ m[i].ver = m[j].ver - 1
  <2>1. CASE j <= Len(l)
    <3>1. j \in DOMAIN l /\ m[j] = l[j]
      BY <2>1, ExtendsFacts
    <3>2. CASE l[j].ver = 1
      BY <3>1, <3>2
    <3>3. CASE l[j].ver # 1
      <4>1. PICK i \in DOMAIN l : i < j /\ AggOf[l[i].id] = AggOf[l[j].id] /\ l[i].ver = l[j].ver - 1
        BY <1>1, <3>1, <3>3 DEF Dense
      <4>2. i \in DOMAIN m /\ m[i] = l[i]
        BY ExtendsFacts
      <4> QED BY <3>1, <4>1, <4>2
    <3> QED BY <3>2, <3>3
  <2>2. CASE j > Len(l)
    <3> DEFINE e == m[j].id
    <3>1. e \in Fresh(l, v, d) /\ m[j].ver = v[d][e] /\ e \in EventIds
      BY <1>2, <2>2 DEF Extends
    <3>2. CASE v[d][e] = 1
      BY <3>1, <3>2
    <3>3. ASSUME NEW f \in Fresh(l, v, d), AggOf[f] = AggOf[e], v[d][f] = v[d][e] - 1
          PROVE  \E i \in DOMAIN m : i < j /\ AggOf[m[i].id] = AggOf[m[j].id] /\ m[i].ver = m[j].ver - 1
      <4>1. f \in EventIds /\ ~Logged(l, f)
        BY DEF Fresh
      <4>2. c[d][f] < c[d][e]
        <5>1. ~(c[d][e] < c[d][f]) /\ c[d][e] # c[d][f]
          BY <1>1, <1>3, <3>1, <3>3, <4>1 DEF DbOK, Ordered
        <5> QED BY <1>3, <3>1, <4>1, <5>1
      <4>3. Logged(m, f)
        BY <1>3, <2>2, <3>1, <4>1, <4>2 DEF Extends
      <4>4. PICK i \in DOMAIN m : m[i].id = f
        BY <4>3 DEF Logged
      <4>5. i > Len(l)
        BY <1>2, <4>1, <4>4, ExtendsFacts DEF Logged
      <4>6. ~(j < i) /\ i # j
        <5>1. j < i => c[d][e] < c[d][f]
          BY <2>2, <4>4 DEF Extends
        <5> QED BY <1>3, <3>1, <4>1, <4>2, <4>4, <5>1
      <4>7. m[i].ver = v[d][f]
        BY <4>4, <4>5 DEF Extends
      <4>8. i < j
        BY <1>2, <4>6
      <4>9. AggOf[m[i].id] = AggOf[m[j].id] /\ m[i].ver = m[j].ver - 1
        BY <3>1, <3>3, <4>4, <4>7
      <4> QED BY <4>8, <4>9
    <3>4. ASSUME NEW i \in DOMAIN l, AggOf[l[i].id] = AggOf[e], l[i].ver = v[d][e] - 1
          PROVE  \E k \in DOMAIN m : k < j /\ AggOf[m[k].id] = AggOf[m[j].id] /\ m[k].ver = m[j].ver - 1
      <4>1. i \in DOMAIN m /\ m[i] = l[i] /\ i <= Len(l)
        BY ExtendsFacts
      <4>2. i < j
        BY <1>2, <2>2, <4>1
      <4>3. AggOf[m[i].id] = AggOf[m[j].id] /\ m[i].ver = m[j].ver - 1
        BY <3>1, <3>4, <4>1
      <4> QED BY <4>1, <4>2, <4>3
    <3> QED BY <1>1, <3>1, <3>2, <3>3, <3>4 DEF DbOK, Chain
  <2> QED BY <1>2, <2>1, <2>2
<1> QED BY <1>5, <1>6 DEF Increasing, Dense

LEMMA ExtendsDb ==
    ASSUME NEW l \in Seq(Entry), NEW m \in Seq(Entry), NEW v \in [Dbs -> [EventIds -> Nat]],
           NEW c \in [Dbs -> [EventIds -> Nat]], NEW d \in Dbs, Extends(l, m, v, c, d),
           TablesOK(l, v, c), Caught(l, v, d, Len(l)), NEW b \in Dbs
    PROVE  DbOK(m, v, c, b)
<1>1. DbOK(l, v, c, b) /\ DbOK(l, v, c, d) /\ Unshared(l, v)
  BY DEF TablesOK
<1>2. /\ \A k \in DOMAIN m : m[k].id \in EventIds /\ m[k].ver \in Nat /\ k \in Nat
      /\ Len(l) \in Nat
  BY EntryIds
<1>3. \A e \in EventIds : v[d][e] \in Nat /\ c[d][e] \in Nat /\ v[b][e] \in Nat /\ c[b][e] \in Nat
  OBVIOUS
<1>4. \A e : e \in Fresh(m, v, b) => e \in Fresh(l, v, b) /\ e \in EventIds /\ ~Logged(m, e)
  BY ExtendsFacts DEF Fresh
\* Only database d has the new entries.
<1>5. ASSUME NEW k \in DOMAIN m, k > Len(l), v[b][m[k].id] # 0
      PROVE  /\ b = d /\ m[k].id \in Fresh(l, v, d) /\ m[k].ver = v[d][m[k].id]
             /\ \A e \in Fresh(m, v, d) : c[d][m[k].id] < c[d][e]
  <2>1. m[k].id \in Fresh(l, v, d) /\ m[k].ver = v[d][m[k].id]
    BY <1>5 DEF Extends
  <2>2. m[k].id \in Fresh(l, v, b)
    BY <1>5, <2>1 DEF Fresh
  <2>3. b = d
    BY <1>1, <1>2, <2>1, <2>2 DEF Unshared
  <2> QED BY <1>4, <1>5, <2>1, <2>3 DEF Extends
<1>6. Closed(m, v, b)
  <2>1. SUFFICES ASSUME NEW j \in DOMAIN m, v[b][m[j].id] # 0, NEW i \in 1..j PROVE v[b][m[i].id] # 0
    BY DEF Closed, Caught
  <2>2. i \in DOMAIN m
    BY <2>1
  <2>3. CASE j <= Len(l)
    <3>1. j \in DOMAIN l /\ i \in DOMAIN l /\ m[j] = l[j] /\ m[i] = l[i]
      BY <1>2, <2>1, <2>2, <2>3, ExtendsFacts
    <3> QED BY <1>1, <2>1, <3>1 DEF DbOK, Closed, Caught
  <2>4. CASE j > Len(l)
    <3>1. b = d
      BY <1>5, <2>1, <2>4
    <3>2. CASE i <= Len(l)
      <4>1. i \in 1..Len(l) /\ m[i] = l[i]
        BY <2>2, <3>2, ExtendsFacts
      <4> QED BY <3>1, <4>1 DEF Caught
    <3>3. CASE i > Len(l)
      BY <2>2, <3>1, <3>3 DEF Extends, Fresh
    <3> QED BY <1>2, <2>2, <3>2, <3>3
  <2> QED BY <1>2, <2>1, <2>3, <2>4
<1>7. Agrees(m, v, b)
  <2>1. SUFFICES ASSUME NEW j \in DOMAIN m, v[b][m[j].id] # 0 PROVE v[b][m[j].id] = m[j].ver
    BY DEF Agrees
  <2>2. CASE j <= Len(l)
    <3>1. j \in DOMAIN l /\ m[j] = l[j]
      BY <2>2, ExtendsFacts
    <3> QED BY <1>1, <2>1, <3>1 DEF DbOK, Agrees
  <2>3. CASE j > Len(l)
    BY <1>5, <2>1, <2>3
  <2> QED BY <1>2, <2>2, <2>3
<1>8. Above(m, v, b)
  <2>1. SUFFICES ASSUME NEW j \in DOMAIN m, NEW e \in Fresh(m, v, b), AggOf[m[j].id] = AggOf[e], v[b][m[j].id] # 0
                 PROVE  m[j].ver < v[b][e]
    BY DEF Above
  <2>2. CASE j <= Len(l)
    <3>1. j \in DOMAIN l /\ m[j] = l[j] /\ e \in Fresh(l, v, b)
      BY <1>4, <2>1, <2>2, ExtendsFacts
    <3> QED BY <1>1, <2>1, <3>1 DEF DbOK, Above
  <2>3. CASE j > Len(l)
    <3>1. /\ b = d /\ m[j].id \in Fresh(l, v, d) /\ m[j].ver = v[d][m[j].id]
          /\ c[d][m[j].id] < c[d][e] /\ e \in Fresh(l, v, d)
      BY <1>4, <1>5, <2>1, <2>3
    <3> QED BY <1>1, <2>1, <3>1 DEF DbOK, Ordered
  <2> QED BY <1>2, <2>1, <2>2, <2>3
<1>9. Ordered(m, v, c, b)
  BY <1>1, <1>4 DEF DbOK, Ordered
<1>10. Chain(m, v, b)
  <2>1. SUFFICES ASSUME NEW e \in Fresh(m, v, b), v[b][e] # 1,
                        ~\E f \in Fresh(m, v, b) : AggOf[f] = AggOf[e] /\ v[b][f] = v[b][e] - 1
                 PROVE  /\ \E j \in DOMAIN m : AggOf[m[j].id] = AggOf[e] /\ m[j].ver = v[b][e] - 1
                        /\ \A f \in Fresh(m, v, b) : AggOf[f] = AggOf[e] => v[b][e] <= v[b][f]
    BY DEF Chain
  <2>2. e \in Fresh(l, v, b) /\ e \in EventIds
    BY <1>4
  <2>3. CASE /\ \E j \in DOMAIN l : AggOf[l[j].id] = AggOf[e] /\ l[j].ver = v[b][e] - 1
             /\ \A f \in Fresh(l, v, b) : AggOf[f] = AggOf[e] => v[b][e] <= v[b][f]
    <3>1. PICK j \in DOMAIN l : AggOf[l[j].id] = AggOf[e] /\ l[j].ver = v[b][e] - 1
      BY <2>3
    <3>2. j \in DOMAIN m /\ m[j] = l[j]
      BY ExtendsFacts
    <3> QED BY <1>4, <2>3, <3>1, <3>2
  <2>4. ASSUME NEW f \in Fresh(l, v, b), AggOf[f] = AggOf[e], v[b][f] = v[b][e] - 1
        PROVE  /\ \E j \in DOMAIN m : AggOf[m[j].id] = AggOf[e] /\ m[j].ver = v[b][e] - 1
               /\ \A g \in Fresh(m, v, b) : AggOf[g] = AggOf[e] => v[b][e] <= v[b][g]
    <3>1. f \in EventIds /\ v[b][f] # 0 /\ ~Logged(l, f)
      BY DEF Fresh
    <3>2. Logged(m, f)
      BY <2>1, <2>4, <3>1 DEF Fresh
    <3>3. PICK j \in DOMAIN m : m[j].id = f
      BY <3>2 DEF Logged
    <3>4. j > Len(l)
      BY <1>2, <3>1, <3>3, ExtendsFacts DEF Logged
    <3>5. b = d /\ m[j].ver = v[d][f] /\ \A g \in Fresh(m, v, d) : c[d][f] < c[d][g]
      BY <1>5, <3>1, <3>3, <3>4
    <3>6. ASSUME NEW g \in Fresh(m, v, b), AggOf[g] = AggOf[e] PROVE v[b][e] <= v[b][g]
      <4>1. g \in Fresh(l, v, b) /\ g \in EventIds /\ c[b][f] < c[b][g]
        BY <1>4, <3>5
      <4>2. v[b][f] < v[b][g]
        BY <1>1, <2>4, <3>6, <4>1 DEF DbOK, Ordered
      <4> QED BY <1>3, <2>2, <2>4, <3>1, <4>1, <4>2
    <3> QED BY <2>4, <3>3, <3>5, <3>6
  <2> QED BY <1>1, <2>1, <2>2, <2>3, <2>4 DEF DbOK, Chain
<1> QED BY <1>6, <1>7, <1>8, <1>9, <1>10 DEF DbOK

LEMMA ExtendsTables ==
    ASSUME NEW l \in Seq(Entry), NEW m \in Seq(Entry), NEW v \in [Dbs -> [EventIds -> Nat]],
           NEW c \in [Dbs -> [EventIds -> Nat]], NEW d \in Dbs, Extends(l, m, v, c, d),
           TablesOK(l, v, c), Caught(l, v, d, Len(l))
    PROVE  TablesOK(m, v, c)
<1>1. Increasing(m) /\ Dense(m)
  BY ExtendsLog
<1>2. \A b \in Dbs : DbOK(m, v, c, b)
  BY ExtendsDb
<1>3. Unshared(m, v)
  BY ExtendsFacts DEF TablesOK, Unshared
<1> QED BY <1>1, <1>2, <1>3 DEF TablesOK

\* A command adds a row e at the end of its aggregate in database d.
AddsRow(v, c, w, x, d, e) ==
  /\ \A b \in Dbs : v[b][e] = 0
  /\ \A b \in Dbs, f \in EventIds : b # d \/ f # e => w[b][f] = v[b][f] /\ x[b][f] = c[b][f]
  /\ w[d][e] # 0
  /\ \A f \in EventIds : AggOf[f] = AggOf[e] => v[d][f] < w[d][e]
  /\ \/ w[d][e] = 1
     \/ \E f \in EventIds : AggOf[f] = AggOf[e] /\ v[d][f] # 0 /\ v[d][f] = w[d][e] - 1
  /\ \A f \in EventIds : c[d][f] < x[d][e]

LEMMA AddedTables ==
    ASSUME NEW l \in Seq(Entry), NEW v \in [Dbs -> [EventIds -> Nat]], NEW c \in [Dbs -> [EventIds -> Nat]],
           NEW w \in [Dbs -> [EventIds -> Nat]], NEW x \in [Dbs -> [EventIds -> Nat]],
           NEW d \in Dbs, NEW e \in EventIds, ~Logged(l, e), AddsRow(v, c, w, x, d, e), TablesOK(l, v, c)
    PROVE  TablesOK(l, w, x)
<1>1. \A k \in DOMAIN l : l[k].id \in EventIds /\ l[k].id # e /\ l[k].ver \in Nat /\ k \in Nat
  BY EntryIds DEF Logged
<1>2. \A b \in Dbs, f \in EventIds : /\ v[b][f] \in Nat /\ c[b][f] \in Nat /\ w[b][f] \in Nat /\ x[b][f] \in Nat
                                     /\ b # d \/ f # e => w[b][f] = v[b][f] /\ x[b][f] = c[b][f]
  BY DEF AddsRow
<1>3. /\ \A b \in Dbs : v[b][e] = 0
      /\ \A f \in EventIds : AggOf[f] = AggOf[e] => v[d][f] < w[d][e]
      /\ \A f \in EventIds : c[d][f] < x[d][e]
      /\ w[d][e] # 0
  BY DEF AddsRow
<1>4. \A b \in Dbs, f \in EventIds :
        /\ f \in Fresh(l, w, b) <=> (f \in Fresh(l, v, b) \/ (b = d /\ f = e))
        /\ f \in Fresh(l, v, b) => f # e
  BY <1>2, <1>3 DEF Fresh
<1>5. \A b \in Dbs, j \in DOMAIN l : w[b][l[j].id] = v[b][l[j].id]
  BY <1>1, <1>2
<1>6. Unshared(l, w)
  <2>1. SUFFICES ASSUME NEW a \in Dbs, NEW b \in Dbs, NEW f \in EventIds, f \in Fresh(l, w, a), f \in Fresh(l, w, b)
                 PROVE  a = b
    BY DEF Unshared
  <2>2. CASE f = e
    BY <1>4, <2>1, <2>2
  <2>3. CASE f # e
    <3>1. f \in Fresh(l, v, a) /\ f \in Fresh(l, v, b)
      BY <1>4, <2>1, <2>3
    <3> QED BY <3>1 DEF TablesOK, Unshared
  <2> QED BY <2>2, <2>3
<1>7. ASSUME NEW b \in Dbs PROVE DbOK(l, w, x, b)
  <2>1. Closed(l, v, b) /\ Agrees(l, v, b) /\ Above(l, v, b) /\ Ordered(l, v, c, b) /\ Chain(l, v, b)
    BY DEF TablesOK, DbOK
  <2>2. Closed(l, w, b)
    <3>1. SUFFICES ASSUME NEW j \in DOMAIN l, w[b][l[j].id] # 0, NEW i \in 1..j PROVE w[b][l[i].id] # 0
      BY DEF Closed, Caught
    <3>2. i \in DOMAIN l
      BY <3>1
    <3> QED BY <1>5, <2>1, <3>1, <3>2 DEF Closed, Caught
  <2>3. Agrees(l, w, b)
    BY <1>5, <2>1 DEF Agrees
  <2>0. \A f \in Fresh(l, w, b) : f \in EventIds
    BY DEF Fresh
  <2>4. Above(l, w, b)
    <3>1. SUFFICES ASSUME NEW j \in DOMAIN l, NEW f \in Fresh(l, w, b), AggOf[l[j].id] = AggOf[f], w[b][l[j].id] # 0
                   PROVE  l[j].ver < w[b][f]
      BY DEF Above
    <3>2. f \in EventIds /\ v[b][l[j].id] # 0 /\ v[b][l[j].id] = l[j].ver
      BY <1>5, <2>0, <2>1, <3>1 DEF Agrees
    <3>3. CASE f # e
      BY <1>2, <1>4, <2>1, <3>1, <3>2, <3>3 DEF Above
    <3>4. CASE f = e
      <4>1. b = d
        BY <1>4, <3>1, <3>2, <3>4
      <4> QED BY <1>1, <1>3, <3>1, <3>2, <3>4, <4>1
    <3> QED BY <3>3, <3>4
  <2>5. Ordered(l, w, x, b)
    <3>1. SUFFICES ASSUME NEW f \in Fresh(l, w, b), NEW h \in Fresh(l, w, b)
                   PROVE  /\ AggOf[f] = AggOf[h] /\ x[b][f] < x[b][h] => w[b][f] < w[b][h]
                          /\ x[b][f] = x[b][h] => f = h
      BY DEF Ordered
    <3>2. f \in EventIds /\ h \in EventIds
      BY <2>0
    <3>3. CASE f # e /\ h # e
      BY <1>2, <1>4, <2>1, <3>1, <3>2, <3>3 DEF Ordered
    <3>4. CASE f = e /\ h # e
      <4>1. b = d /\ x[b][h] = c[d][h]
        BY <1>2, <1>4, <3>1, <3>2, <3>4
      <4> QED BY <1>2, <1>3, <3>2, <3>4, <4>1
    <3>5. CASE f # e /\ h = e
      <4>1. b = d /\ x[b][f] = c[d][f] /\ w[b][f] = v[d][f]
        BY <1>2, <1>4, <3>1, <3>2, <3>5
      <4> QED BY <1>2, <1>3, <3>2, <3>5, <4>1
    <3>6. CASE f = e /\ h = e
      BY <1>2, <3>2, <3>6
    <3> QED BY <3>3, <3>4, <3>5, <3>6
  <2>6. Chain(l, w, b)
    <3>1. SUFFICES ASSUME NEW f \in Fresh(l, w, b), w[b][f] # 1,
                          ~\E h \in Fresh(l, w, b) : AggOf[h] = AggOf[f] /\ w[b][h] = w[b][f] - 1
                   PROVE  /\ \E j \in DOMAIN l : AggOf[l[j].id] = AggOf[f] /\ l[j].ver = w[b][f] - 1
                          /\ \A h \in Fresh(l, w, b) : AggOf[h] = AggOf[f] => w[b][f] <= w[b][h]
      BY DEF Chain
    <3>2. f \in EventIds
      BY <2>0
    <3>3. CASE f # e
      <4>1. f \in Fresh(l, v, b) /\ w[b][f] = v[b][f]
        BY <1>2, <1>4, <3>1, <3>2, <3>3
      <4>2. ~\E h \in Fresh(l, v, b) : AggOf[h] = AggOf[f] /\ v[b][h] = v[b][f] - 1
        <5>1. \A h \in Fresh(l, v, b) : h \in Fresh(l, w, b) /\ w[b][h] = v[b][h]
          BY <1>2, <1>4 DEF Fresh
        <5> QED BY <3>1, <4>1, <5>1
      <4>3. /\ \E j \in DOMAIN l : AggOf[l[j].id] = AggOf[f] /\ l[j].ver = v[b][f] - 1
            /\ \A h \in Fresh(l, v, b) : AggOf[h] = AggOf[f] => v[b][f] <= v[b][h]
        BY <2>1, <3>1, <4>1, <4>2 DEF Chain
      <4>4. ASSUME NEW h \in Fresh(l, w, b), AggOf[h] = AggOf[f] PROVE w[b][f] <= w[b][h]
        <5>1. h \in EventIds
          BY <2>0
        <5>2. CASE h # e
          BY <1>2, <1>4, <4>1, <4>3, <4>4, <5>1, <5>2
        <5>3. CASE h = e
          <6>1. b = d
            BY <1>4, <4>4, <5>1, <5>3
          <6> QED BY <1>2, <1>3, <3>2, <4>1, <4>4, <5>3, <6>1
        <5> QED BY <5>2, <5>3
      <4> QED BY <4>1, <4>3, <4>4
    <3>4. CASE f = e
      <4>1. b = d
        BY <1>4, <3>1, <3>2, <3>4
      <4>2. PICK h \in EventIds : AggOf[h] = AggOf[e] /\ v[d][h] # 0 /\ v[d][h] = w[d][e] - 1
        BY <3>1, <3>4, <4>1 DEF AddsRow
      <4>3. h # e /\ w[d][h] = v[d][h]
        BY <1>2, <1>3, <4>2
      <4>4. Logged(l, h)
        <5>1. h \notin Fresh(l, w, d)
          BY <3>1, <3>4, <4>1, <4>2, <4>3
        <5> QED BY <4>2, <4>3, <5>1 DEF Fresh
      <4>5. PICK j \in DOMAIN l : l[j].id = h
        BY <4>4 DEF Logged
      <4>6. l[j].ver = v[d][h]
        BY <2>1, <4>1, <4>2, <4>5 DEF Agrees
      <4>7. ASSUME NEW q \in Fresh(l, w, b), AggOf[q] = AggOf[f] PROVE w[b][f] <= w[b][q]
        <5>1. q \in EventIds
          BY <2>0
        <5>2. CASE q = e
          BY <1>2, <3>4, <4>1, <5>1, <5>2
        <5>3. CASE q # e
          <6>1. q \in Fresh(l, v, d) /\ w[d][q] = v[d][q]
            BY <1>2, <1>4, <4>1, <4>7, <5>1, <5>3
          <6>2. l[j].ver < v[d][q]
            BY <2>1, <3>4, <4>1, <4>2, <4>5, <4>7, <6>1 DEF Above
          <6> QED BY <1>2, <3>4, <4>1, <4>2, <4>6, <5>1, <6>1, <6>2
        <5> QED BY <5>2, <5>3
      <4>8. AggOf[l[j].id] = AggOf[f] /\ l[j].ver = w[b][f] - 1
        BY <3>4, <4>1, <4>2, <4>5, <4>6
      <4> QED BY <4>7, <4>8
    <3> QED BY <3>3, <3>4
  <2> QED BY <2>2, <2>3, <2>4, <2>5, <2>6 DEF DbOK
<1> QED BY <1>6, <1>7 DEF TablesOK

\* All rows of aggregate g the server does not have make room for entry p.
ShiftsRows(l, v, w, d, p) ==
  /\ \A b \in Dbs, e \in EventIds :
       w[b][e] = IF b = d /\ e \in Fresh(l, v, d) /\ AggOf[e] = AggOf[l[p].id] THEN v[b][e] + 1 ELSE v[b][e]
  /\ \A e \in Fresh(l, v, d) : AggOf[e] = AggOf[l[p].id] => l[p].ver <= v[d][e]
  /\ \E e \in Fresh(l, v, d) : AggOf[e] = AggOf[l[p].id] /\ v[d][e] = l[p].ver

LEMMA ShiftedTables ==
    ASSUME NEW l \in Seq(Entry), NEW v \in [Dbs -> [EventIds -> Nat]], NEW c \in [Dbs -> [EventIds -> Nat]],
           NEW w \in [Dbs -> [EventIds -> Nat]], NEW d \in Dbs, NEW p \in DOMAIN l, l[p].ver # 0,
           ShiftsRows(l, v, w, d, p), TablesOK(l, v, c)
    PROVE  TablesOK(l, w, c)
<1> DEFINE g == AggOf[l[p].id]
<1>1. \A k \in DOMAIN l : l[k].id \in EventIds /\ l[k].ver \in Nat /\ k \in Nat
  BY EntryIds
<1>2. \A b \in Dbs, e \in EventIds :
        /\ v[b][e] \in Nat /\ w[b][e] \in Nat
        /\ w[b][e] = IF b = d /\ e \in Fresh(l, v, d) /\ AggOf[e] = g THEN v[b][e] + 1 ELSE v[b][e]
  BY DEF ShiftsRows
<1>3. /\ \A e \in Fresh(l, v, d) : AggOf[e] = g => l[p].ver <= v[d][e]
      /\ \E e \in Fresh(l, v, d) : AggOf[e] = g /\ v[d][e] = l[p].ver
  BY DEF ShiftsRows
<1> HIDE DEF g
<1>4. \A b \in Dbs, j \in DOMAIN l : w[b][l[j].id] = v[b][l[j].id]
  BY <1>1, <1>2 DEF Fresh, Logged
<1>5. \A b \in Dbs : Fresh(l, w, b) = Fresh(l, v, b)
  <2>1. ASSUME NEW b \in Dbs, NEW e \in EventIds PROVE w[b][e] # 0 <=> v[b][e] # 0
    <3>1. CASE b = d /\ e \in Fresh(l, v, d) /\ AggOf[e] = g
      <4>1. v[b][e] # 0
        BY <3>1 DEF Fresh
      <4>2. w[b][e] = v[b][e] + 1 /\ v[b][e] \in Nat
        BY <1>2, <3>1
      <4> QED BY <4>1, <4>2
    <3>2. CASE ~(b = d /\ e \in Fresh(l, v, d) /\ AggOf[e] = g)
      BY <1>2, <3>2
    <3> QED BY <3>1, <3>2
  <2> QED BY <2>1 DEF Fresh
<1>6. Unshared(l, w)
  BY <1>5 DEF TablesOK, Unshared
<1>7. ASSUME NEW b \in Dbs PROVE DbOK(l, w, c, b)
  <2>1. Closed(l, v, b) /\ Agrees(l, v, b) /\ Above(l, v, b) /\ Ordered(l, v, c, b) /\ Chain(l, v, b)
    BY DEF TablesOK, DbOK
  <2>2. Closed(l, w, b)
    <3>1. SUFFICES ASSUME NEW j \in DOMAIN l, w[b][l[j].id] # 0, NEW i \in 1..j PROVE w[b][l[i].id] # 0
      BY DEF Closed, Caught
    <3>2. i \in DOMAIN l
      BY <3>1
    <3> QED BY <1>4, <2>1, <3>1, <3>2 DEF Closed, Caught
  <2>3. Agrees(l, w, b)
    BY <1>4, <2>1 DEF Agrees
  <2>4. \A e \in Fresh(l, v, b) : e \in EventIds /\ v[b][e] <= w[b][e] /\ v[b][e] \in Nat /\ w[b][e] \in Nat
    <3>1. ASSUME NEW e \in EventIds PROVE v[b][e] <= w[b][e] /\ v[b][e] \in Nat /\ w[b][e] \in Nat
      <4>1. v[b][e] \in Nat /\ w[b][e] \in Nat /\ (w[b][e] = v[b][e] \/ w[b][e] = v[b][e] + 1)
        BY <1>2
      <4> QED BY <4>1
    <3> QED BY <3>1 DEF Fresh
  <2>5. Above(l, w, b)
    <3>1. SUFFICES ASSUME NEW j \in DOMAIN l, NEW e \in Fresh(l, v, b), AggOf[l[j].id] = AggOf[e], v[b][l[j].id] # 0
                   PROVE  l[j].ver < w[b][e]
      BY <1>4, <1>5 DEF Above
    <3>2. l[j].ver < v[b][e]
      BY <2>1, <3>1 DEF Above
    <3> QED BY <1>1, <1>2, <2>4, <3>2
  \* Rows of one aggregate move together.
  <2>6. ASSUME NEW e \in Fresh(l, v, b), NEW f \in Fresh(l, v, b), AggOf[e] = AggOf[f]
        PROVE  \/ w[b][e] = v[b][e] /\ w[b][f] = v[b][f] /\ ~(b = d /\ AggOf[e] = g)
               \/ w[b][e] = v[b][e] + 1 /\ w[b][f] = v[b][f] + 1 /\ b = d /\ AggOf[e] = g
    <3>1. e \in EventIds /\ f \in EventIds
      BY <2>4
    <3>2. CASE b = d /\ AggOf[e] = g
      BY <1>2, <2>6, <3>1, <3>2
    <3>3. CASE ~(b = d /\ AggOf[e] = g)
      BY <1>2, <2>6, <3>1, <3>3
    <3> QED BY <3>2, <3>3
  <2>7. Ordered(l, w, c, b)
    <3>1. SUFFICES ASSUME NEW e \in Fresh(l, v, b), NEW f \in Fresh(l, v, b)
                   PROVE  /\ AggOf[e] = AggOf[f] /\ c[b][e] < c[b][f] => w[b][e] < w[b][f]
                          /\ c[b][e] = c[b][f] => e = f
      BY <1>5 DEF Ordered
    <3>2. e \in EventIds /\ f \in EventIds
      BY <2>4
    <3>3. /\ AggOf[e] = AggOf[f] /\ c[b][e] < c[b][f] => v[b][e] < v[b][f]
          /\ c[b][e] = c[b][f] => e = f
      BY <2>1 DEF Ordered
    <3>4. AggOf[e] = AggOf[f] /\ v[b][e] < v[b][f] => w[b][e] < w[b][f]
      <4>1. SUFFICES ASSUME AggOf[e] = AggOf[f], v[b][e] < v[b][f] PROVE w[b][e] < w[b][f]
        OBVIOUS
      <4>2. v[b][e] \in Nat /\ v[b][f] \in Nat
        BY <2>4
      <4>3. \/ w[b][e] = v[b][e] /\ w[b][f] = v[b][f]
            \/ w[b][e] = v[b][e] + 1 /\ w[b][f] = v[b][f] + 1
        BY <2>6, <4>1
      <4> QED BY <4>1, <4>2, <4>3
    <3> QED BY <3>3, <3>4
  <2>8. Chain(l, w, b)
    <3>1. SUFFICES ASSUME NEW e \in Fresh(l, v, b), w[b][e] # 1,
                          ~\E f \in Fresh(l, v, b) : AggOf[f] = AggOf[e] /\ w[b][f] = w[b][e] - 1
                   PROVE  /\ \E j \in DOMAIN l : AggOf[l[j].id] = AggOf[e] /\ l[j].ver = w[b][e] - 1
                          /\ \A f \in Fresh(l, v, b) : AggOf[f] = AggOf[e] => w[b][e] <= w[b][f]
      BY <1>5 DEF Chain
    <3>2. e \in EventIds
      BY <2>4
    <3>3. ~\E f \in Fresh(l, v, b) : AggOf[f] = AggOf[e] /\ v[b][f] = v[b][e] - 1
      <4>1. SUFFICES ASSUME NEW f \in Fresh(l, v, b), AggOf[f] = AggOf[e], v[b][f] = v[b][e] - 1 PROVE FALSE
        OBVIOUS
      <4>2. w[b][f] = w[b][e] - 1
        <5>1. v[b][e] \in Nat /\ v[b][f] \in Nat
          BY <2>4
        <5>2. \/ w[b][e] = v[b][e] /\ w[b][f] = v[b][f]
              \/ w[b][e] = v[b][e] + 1 /\ w[b][f] = v[b][f] + 1
          BY <2>6, <4>1
        <5> QED BY <4>1, <5>1, <5>2
      <4> QED BY <3>1, <4>1, <4>2
    <3>4. \/ v[b][e] = 1
          \/ /\ \E j \in DOMAIN l : AggOf[l[j].id] = AggOf[e] /\ l[j].ver = v[b][e] - 1
             /\ \A f \in Fresh(l, v, b) : AggOf[f] = AggOf[e] => v[b][e] <= v[b][f]
      BY <2>1, <3>1, <3>3 DEF Chain
    <3>5. CASE b = d /\ AggOf[e] = g
      <4>1. w[b][e] = v[b][e] + 1 /\ l[p].ver <= v[b][e]
        BY <1>2, <1>3, <3>1, <3>2, <3>5
      <4>2. v[b][e] = l[p].ver
        <5>1. PICK f \in Fresh(l, v, d) : AggOf[f] = g /\ v[d][f] = l[p].ver
          BY <1>3
        <5>2. v[b][e] = 1 \/ v[b][e] <= l[p].ver
          BY <3>4, <3>5, <5>1
        <5> QED BY <1>1, <1>2, <3>2, <4>1, <5>2
      <4>3. ASSUME NEW f \in Fresh(l, v, b), AggOf[f] = AggOf[e] PROVE w[b][e] <= w[b][f]
        <5>1. l[p].ver <= v[b][f] /\ w[b][f] = v[b][f] + 1
          BY <1>2, <1>3, <2>4, <3>5, <4>3
        <5> QED BY <1>1, <1>2, <2>4, <4>1, <4>2, <5>1
      <4>4. AggOf[l[p].id] = AggOf[e] /\ l[p].ver = w[b][e] - 1
        <5>1. v[b][e] \in Nat
          BY <2>4
        <5>2. l[p].ver = w[b][e] - 1
          BY <4>1, <4>2, <5>1
        <5> QED BY <3>5, <5>2 DEF g
      <4> QED BY <4>3, <4>4
    <3>6. CASE ~(b = d /\ AggOf[e] = g)
      <4>1. w[b][e] = v[b][e]
        BY <1>2, <3>2, <3>6
      <4>2. /\ \E j \in DOMAIN l : AggOf[l[j].id] = AggOf[e] /\ l[j].ver = v[b][e] - 1
            /\ \A f \in Fresh(l, v, b) : AggOf[f] = AggOf[e] => v[b][e] <= v[b][f]
        BY <3>1, <3>4, <4>1
      <4>3. ASSUME NEW f \in Fresh(l, v, b), AggOf[f] = AggOf[e] PROVE w[b][e] <= w[b][f]
        <5>1. w[b][f] = v[b][f]
          BY <2>6, <3>6, <4>3
        <5> QED BY <4>1, <4>2, <4>3, <5>1
      <4> QED BY <4>1, <4>2, <4>3
    <3> QED BY <3>5, <3>6
  <2> QED BY <2>2, <2>3, <2>5, <2>7, <2>8 DEF DbOK
<1> QED BY <1>6, <1>7 DEF TablesOK

\* Database d stores the entries of the log up to position k it did not have.
StoresRows(l, v, c, w, x, d, k) ==
  /\ Caught(l, w, d, k)
  /\ \A b \in Dbs, e \in EventIds : b # d \/ v[d][e] # 0 => w[b][e] = v[b][e] /\ x[b][e] = c[b][e]
  /\ \A e \in EventIds : v[d][e] = 0 /\ w[d][e] # 0 =>
       \E j \in DOMAIN l : /\ j <= k /\ l[j].id = e /\ w[d][e] = l[j].ver
                           /\ \A f \in Fresh(l, v, d) : AggOf[f] = AggOf[e] => l[j].ver < v[d][f]

LEMMA StoredTables ==
    ASSUME NEW l \in Seq(Entry), IdsOnce(l), NEW v \in [Dbs -> [EventIds -> Nat]], NEW c \in [Dbs -> [EventIds -> Nat]],
           NEW w \in [Dbs -> [EventIds -> Nat]], NEW x \in [Dbs -> [EventIds -> Nat]],
           NEW d \in Dbs, NEW k \in 0..Len(l), StoresRows(l, v, c, w, x, d, k), TablesOK(l, v, c)
    PROVE  TablesOK(l, w, x)
<1>1. \A j \in DOMAIN l : l[j].id \in EventIds /\ l[j].ver \in Nat /\ j \in Nat
  BY EntryIds
<1>2. \A b \in Dbs, e \in EventIds : b # d \/ v[d][e] # 0 => w[b][e] = v[b][e] /\ x[b][e] = c[b][e]
  BY DEF StoresRows
<1>3. ASSUME NEW j \in DOMAIN l, v[d][l[j].id] = 0, w[d][l[j].id] # 0
      PROVE  /\ j <= k /\ w[d][l[j].id] = l[j].ver
             /\ \A f \in Fresh(l, v, d) : AggOf[f] = AggOf[l[j].id] => l[j].ver < v[d][f]
  <2>1. PICK i \in DOMAIN l : /\ i <= k /\ l[i].id = l[j].id /\ w[d][l[j].id] = l[i].ver
                              /\ \A f \in Fresh(l, v, d) : AggOf[f] = AggOf[l[j].id] => l[i].ver < v[d][f]
    <3> DEFINE e == l[j].id
    <3>1. e \in EventIds /\ v[d][e] = 0 /\ w[d][e] # 0
      BY <1>1, <1>3
    <3> HIDE DEF e
    <3>2. \E i \in DOMAIN l : /\ i <= k /\ l[i].id = e /\ w[d][e] = l[i].ver
                              /\ \A f \in Fresh(l, v, d) : AggOf[f] = AggOf[e] => l[i].ver < v[d][f]
      BY <3>1 DEF StoresRows
    <3> QED BY <3>2 DEF e
  <2>2. i = j
    BY <2>1 DEF IdsOnce
  <2> QED BY <2>1, <2>2
<1>4. \A b \in Dbs : Fresh(l, w, b) = Fresh(l, v, b)
  <2>1. \A e \in EventIds : v[d][e] = 0 /\ w[d][e] # 0 => Logged(l, e)
    BY DEF StoresRows, Logged
  <2>2. ASSUME NEW b \in Dbs PROVE Fresh(l, w, b) = Fresh(l, v, b)
    <3>1. CASE b = d
      <4>1. \A e \in EventIds : ~Logged(l, e) => (w[d][e] # 0 <=> v[d][e] # 0)
        BY <1>2, <2>1
      <4> QED BY <3>1, <4>1 DEF Fresh
    <3>2. CASE b # d
      BY <1>2, <3>2 DEF Fresh
    <3> QED BY <3>1, <3>2
  <2> QED BY <2>2
<1>5. \A b \in Dbs : \A e \in Fresh(l, v, b) : e \in EventIds /\ w[b][e] = v[b][e] /\ x[b][e] = c[b][e]
  BY <1>2 DEF Fresh
<1>6. Unshared(l, w)
  BY <1>4 DEF TablesOK, Unshared
<1>7. ASSUME NEW b \in Dbs PROVE DbOK(l, w, x, b)
  <2>1. Closed(l, v, b) /\ Agrees(l, v, b) /\ Above(l, v, b) /\ Ordered(l, v, c, b) /\ Chain(l, v, b)
    BY DEF TablesOK, DbOK
  <2>2. \A j \in DOMAIN l : v[b][l[j].id] # 0 => w[b][l[j].id] = v[b][l[j].id]
    <3>1. SUFFICES ASSUME NEW j \in DOMAIN l, v[b][l[j].id] # 0 PROVE w[b][l[j].id] = v[b][l[j].id]
      OBVIOUS
    <3>2. l[j].id \in EventIds /\ (b # d \/ v[d][l[j].id] # 0)
      BY <1>1, <3>1
    <3> QED BY <1>2, <3>2
  <2>3. \A j \in DOMAIN l : w[b][l[j].id] # 0 /\ v[b][l[j].id] = 0 => b = d
    BY <1>1, <1>2
  <2>4. Closed(l, w, b)
    <3>1. SUFFICES ASSUME NEW j \in DOMAIN l, w[b][l[j].id] # 0, NEW i \in 1..j PROVE w[b][l[i].id] # 0
      BY DEF Closed, Caught
    <3>2. i \in DOMAIN l
      BY <3>1
    <3>3. CASE v[b][l[j].id] # 0
      BY <2>1, <2>2, <3>2, <3>3 DEF Closed, Caught
    <3>4. CASE v[b][l[j].id] = 0
      <4>1. b = d /\ j <= k
        BY <1>3, <2>3, <3>1, <3>4
      <4>2. i \in 1..k
        BY <1>1, <3>1, <4>1
      <4> QED BY <4>1, <4>2 DEF StoresRows, Caught
    <3> QED BY <3>3, <3>4
  <2>5. Agrees(l, w, b)
    <3>1. SUFFICES ASSUME NEW j \in DOMAIN l, w[b][l[j].id] # 0 PROVE w[b][l[j].id] = l[j].ver
      BY DEF Agrees
    <3>2. CASE v[b][l[j].id] # 0
      BY <2>1, <2>2, <3>2 DEF Agrees
    <3>3. CASE v[b][l[j].id] = 0
      BY <1>3, <2>3, <3>1, <3>3
    <3> QED BY <3>2, <3>3
  <2>6. Above(l, w, b)
    <3>1. SUFFICES ASSUME NEW j \in DOMAIN l, NEW e \in Fresh(l, v, b), AggOf[l[j].id] = AggOf[e], w[b][l[j].id] # 0
                   PROVE  l[j].ver < v[b][e]
      BY <1>4, <1>5 DEF Above
    <3>2. CASE v[b][l[j].id] # 0
      BY <2>1, <3>1, <3>2 DEF Above
    <3>3. CASE v[b][l[j].id] = 0
      <4>1. b = d
        BY <2>3, <3>1, <3>3
      <4> QED BY <1>3, <3>1, <3>3, <4>1
    <3> QED BY <3>2, <3>3
  <2>7. Ordered(l, w, x, b)
    BY <1>4, <1>5, <2>1 DEF Ordered
  <2>8. Chain(l, w, b)
    <3>1. Fresh(l, w, b) = Fresh(l, v, b) /\ \A e \in Fresh(l, v, b) : w[b][e] = v[b][e]
      BY <1>4, <1>5
    <3> QED BY <2>1, <3>1 DEF Chain
  <2> QED BY <2>4, <2>5, <2>6, <2>7, <2>8 DEF DbOK
<1> QED BY <1>4, <1>6, <1>7 DEF TablesOK

-----------------------------------------------------------------------------
(* ... and what the threads and the requests rely on *)

\* An event a page is going to insert is below every row the server does not have.
Reserves(l, v, d, x) ==
  x.pc = "apply" => \A k \in DOMAIN x.page : k < x.next /\ v[d][x.page[k].id] = 0 =>
    \A e \in Fresh(l, v, d) : AggOf[e] = AggOf[x.page[k].id] => x.page[k].ver < v[d][e]

\* A batch is in commit order, and no row the server does not have is skipped ...
Sendable(l, v, c, d, b) ==
  /\ \A i \in DOMAIN b : v[d][b[i].id] # 0
  /\ \A i, j \in DOMAIN b : i < j => c[d][b[i].id] < c[d][b[j].id]
  /\ \A i \in DOMAIN b : ~Logged(l, b[i].id) => \A e \in Fresh(l, v, d) :
       (\A j \in DOMAIN b : b[j].id # e) => c[d][b[i].id] < c[d][e]
\* ... and what the server may still accept is what the database has.
Sent(l, v, d, at, b) ==
  /\ at \in 0..Len(l) /\ Caught(l, v, d, at)
  /\ at = Len(l) => \A i \in DOMAIN b : b[i].ver = v[d][b[i].id]

ThreadSafe(l, v, c, d, t, x) ==
  /\ Reserves(l, v, d, x)
  /\ t = "push" => Sendable(l, v, c, d, x.batch) /\ (x.pc = "sent" => Sent(l, v, d, x.at, x.batch))
OrphanSafe(l, v, c, m) == \E d \in Dbs : Sendable(l, v, c, d, m.batch) /\ Sent(l, v, d, m.at, m.batch)

Safe == Uncut /\ ~taken
VersionInv == Safe =>
  /\ TablesOK(log, ver, csn)
  /\ \A n \in Engines, t \in Threads : ThreadSafe(log, ver, csn, DbOf[n], t, th[n][t])
  /\ \A m \in orphans : OrphanSafe(log, ver, csn, m)

\* What a step to m, v and c leaves to those who are not part of it.
Frame(m, v, c) ==
  /\ Grows(log, m) /\ Keeps(ver, v)
  /\ \A d \in Dbs, e \in EventIds : ver[d][e] # 0 => c[d][e] = csn[d][e]
  /\ \A d \in Dbs : \A e \in Fresh(m, v, d) :
       e \in Fresh(log, ver, d) \/ \A f \in EventIds : ver[d][f] # 0 => csn[d][f] < c[d][e]
  /\ \A d \in Dbs : Len(m) = Len(log) /\ Caught(log, ver, d, Len(log)) =>
       \A e \in EventIds : ver[d][e] # 0 => v[d][e] = ver[d][e]
  /\ \A n \in Engines, t \in Threads : \A e \in Fresh(m, v, DbOf[n]) :
       \/ e \in Fresh(log, ver, DbOf[n]) /\ ver[DbOf[n]][e] <= v[DbOf[n]][e]
       \/ \A k \in DOMAIN th[n][t].page :
            /\ th[n][t].pc = "apply" /\ k < th[n][t].next /\ ver[DbOf[n]][th[n][t].page[k].id] = 0
            /\ AggOf[e] = AggOf[th[n][t].page[k].id]
            => th[n][t].page[k].ver < v[DbOf[n]][e]

LEMMA FrameSendable ==
    ASSUME EngineInv, NEW m \in Seq(Entry), NEW v, NEW c, Frame(m, v, c), NEW d \in Dbs, NEW b \in Seq(Entry),
           Sendable(log, ver, csn, d, b)
    PROVE  Sendable(m, v, c, d, b)
<1>1. \A i \in DOMAIN b : b[i].id \in EventIds /\ ver[d][b[i].id] # 0
  BY EntryIds DEF Sendable
<1>2. \A i \in DOMAIN b : v[d][b[i].id] # 0 /\ c[d][b[i].id] = csn[d][b[i].id]
  BY <1>1 DEF Frame, Keeps
<1>3. \A e : Logged(log, e) => Logged(m, e)
  <2>1. \A k \in DOMAIN log : k \in DOMAIN m /\ m[k] = log[k]
    BY InvParts DEF Frame, Grows
  <2> QED BY <2>1 DEF Logged
<1>4. ASSUME NEW i \in DOMAIN b, ~Logged(m, b[i].id), NEW e \in Fresh(m, v, d), \A j \in DOMAIN b : b[j].id # e
      PROVE  c[d][b[i].id] < c[d][e]
  <2>1. CASE e \in Fresh(log, ver, d)
    <3>1. csn[d][b[i].id] < csn[d][e]
      BY <1>3, <1>4, <2>1 DEF Sendable
    <3>2. c[d][e] = csn[d][e]
      BY <2>1 DEF Frame, Fresh
    <3> QED BY <1>2, <3>1, <3>2
  <2>2. CASE \A f \in EventIds : ver[d][f] # 0 => csn[d][f] < c[d][e]
    BY <1>1, <1>2, <2>2
  <2> QED BY <2>1, <2>2 DEF Frame
<1>5. \A i, j \in DOMAIN b : i < j => c[d][b[i].id] < c[d][b[j].id]
  BY <1>2 DEF Sendable
<1> QED BY <1>2, <1>4, <1>5 DEF Sendable

LEMMA FrameSent ==
    ASSUME EngineInv, NEW m \in Seq(Entry), NEW v, NEW c, Frame(m, v, c), NEW d \in Dbs, NEW b \in Seq(Entry),
           NEW at, Sendable(log, ver, csn, d, b), Sent(log, ver, d, at, b)
    PROVE  Sent(m, v, d, at, b)
<1>1. log \in Seq(Entry) /\ Len(log) \in Nat /\ Len(m) \in Nat /\ Len(log) <= Len(m) /\ Grows(log, m) /\ Keeps(ver, v)
  BY InvParts DEF Frame, Grows
<1>2. at \in 0..Len(log) /\ Caught(log, ver, d, at)
  BY DEF Sent
<1>3. at \in 0..Len(m) /\ Caught(m, v, d, at)
  BY <1>1, <1>2, CaughtGrows
<1>4. ASSUME at = Len(m), NEW i \in DOMAIN b PROVE b[i].ver = v[d][b[i].id]
  <2>1. at = Len(log) /\ Len(m) = Len(log)
    BY <1>1, <1>2, <1>4
  <2>2. b[i].id \in EventIds /\ ver[d][b[i].id] # 0 /\ b[i].ver = ver[d][b[i].id]
    BY <2>1, EntryIds DEF Sent, Sendable
  <2> QED BY <1>2, <2>1, <2>2 DEF Frame
<1> QED BY <1>3, <1>4 DEF Sent

LEMMA FrameThread ==
    ASSUME EngineInv, NEW m \in Seq(Entry), NEW v \in [Dbs -> [EventIds -> Nat]], NEW c, Frame(m, v, c),
           NEW n \in Engines, NEW t \in Threads,
           ThreadSafe(log, ver, csn, DbOf[n], t, th[n][t]), NEW y, SameWork(th[n][t], y)
    PROVE  ThreadSafe(m, v, c, DbOf[n], t, y)
<1> DEFINE x == th[n][t]
           d == DbOf[n]
<1>1. /\ d \in Dbs /\ x.page \in Seq(PageEntry) /\ x.batch \in Seq(Entry)
      /\ ver \in [Dbs -> [EventIds -> Nat]]
  BY ThreadFacts, InvParts DEF RowsOK
<1>2. Reserves(log, ver, d, x)
  BY DEF ThreadSafe
<1>3. t = "push" => Sendable(log, ver, csn, d, x.batch) /\ (x.pc = "sent" => Sent(log, ver, d, x.at, x.batch))
  BY DEF ThreadSafe
<1>4. /\ y.at = x.at /\ y.page = x.page /\ y.batch = x.batch /\ y.next = x.next
      /\ (y.pc = "apply" <=> x.pc = "apply") /\ (y.pc = "sent" => x.pc = "sent")
  BY DEF SameWork
<1>5. Reserves(m, v, d, y)
  <2>1. SUFFICES ASSUME x.pc = "apply", NEW k \in DOMAIN x.page, k < x.next, v[d][x.page[k].id] = 0,
                        NEW e \in Fresh(m, v, d), AggOf[e] = AggOf[x.page[k].id]
                 PROVE  x.page[k].ver < v[d][e]
    BY <1>4 DEF Reserves
  <2>2. x.page[k].id \in EventIds /\ x.page[k].ver \in Nat
    BY <1>1, PageIds
  <2>3. ver[d][x.page[k].id] = 0
    BY <1>1, <2>1, <2>2 DEF Frame, Keeps
  <2>4. CASE e \in Fresh(log, ver, d) /\ ver[d][e] <= v[d][e]
    <3>1. x.page[k].ver < ver[d][e]
      BY <1>2, <2>1, <2>3, <2>4 DEF Reserves
    <3>2. e \in EventIds
      BY DEF Fresh
    <3>3. ver[d][e] \in Nat /\ v[d][e] \in Nat
      BY <1>1, <3>2
    <3> QED BY <2>2, <2>4, <3>1, <3>3
  <2>5. CASE ~(e \in Fresh(log, ver, d) /\ ver[d][e] <= v[d][e])
    BY <2>1, <2>3, <2>5 DEF Frame
  <2> QED BY <2>4, <2>5
<1>6. t = "push" => Sendable(m, v, c, d, y.batch) /\ (y.pc = "sent" => Sent(m, v, d, y.at, y.batch))
  <2> DEFINE b == x.batch
             a == x.at
  <2>1. b \in Seq(Entry) /\ y.batch = b /\ y.at = a
    BY <1>1, <1>4
  <2>2. t = "push" => Sendable(log, ver, csn, d, b) /\ (y.pc = "sent" => Sent(log, ver, d, a, b))
    BY <1>3, <1>4
  <2> HIDE DEF b, a, d
  <2> QED BY <1>1, <2>1, <2>2, FrameSendable, FrameSent
<1> QED BY <1>5, <1>6 DEF ThreadSafe

LEMMA FrameOrphan ==
    ASSUME EngineInv, NEW m \in Seq(Entry), NEW v, NEW c, Frame(m, v, c), NEW o \in orphans, OrphanSafe(log, ver, csn, o)
    PROVE  OrphanSafe(m, v, c, o)
<1>1. PICK d \in Dbs : Sendable(log, ver, csn, d, o.batch) /\ Sent(log, ver, d, o.at, o.batch)
  BY DEF OrphanSafe
<1> DEFINE b == o.batch
           a == o.at
<1>2. b \in Seq(Entry)
  BY InvParts DEF OrphansOK
<1>3. Sendable(log, ver, csn, d, b) /\ Sent(log, ver, d, a, b)
  BY <1>1
<1> HIDE DEF b, a
<1>4. Sendable(m, v, c, d, b) /\ Sent(m, v, d, a, b)
  BY <1>2, <1>3, FrameSendable, FrameSent
<1> QED BY <1>4 DEF OrphanSafe, b, a

\* The shape of every step.
LEMMA VersionNext ==
    ASSUME EngineInv, EngineInv', VersionInv, Safe' => Safe,
           Safe' => TablesOK(log', ver', csn') /\ Frame(log', ver', csn'),
           Safe' => \A n \in Engines, t \in Threads :
             SameWork(th[n][t], th'[n][t]) \/ ThreadSafe(log', ver', csn', DbOf[n], t, th'[n][t]),
           Safe' => \A o \in orphans' : o \in orphans \/ OrphanSafe(log', ver', csn', o)
    PROVE  VersionInv'
<1> DEFINE m == log'
           v == ver'
           c == csn'
<1>1. SUFFICES ASSUME Safe'
               PROVE  /\ TablesOK(m, v, c)
                      /\ \A n \in Engines, t \in Threads : ThreadSafe(m, v, c, DbOf[n], t, th'[n][t])
                      /\ \A o \in orphans' : OrphanSafe(m, v, c, o)
  BY DEF VersionInv
<1>2. /\ m \in Seq(Entry) /\ v \in [Dbs -> [EventIds -> Nat]] /\ Frame(m, v, c) /\ TablesOK(m, v, c)
  BY <1>1 DEF EngineInv, LogOK, RowsOK
<1>3. /\ \A n \in Engines, t \in Threads : ThreadSafe(log, ver, csn, DbOf[n], t, th[n][t])
      /\ \A o \in orphans : OrphanSafe(log, ver, csn, o)
  BY <1>1 DEF VersionInv
<1>4. /\ \A n \in Engines, t \in Threads :
           SameWork(th[n][t], th'[n][t]) \/ ThreadSafe(m, v, c, DbOf[n], t, th'[n][t])
      /\ \A o \in orphans' : o \in orphans \/ OrphanSafe(m, v, c, o)
  BY <1>1
<1> HIDE DEF m, v, c
<1>5. ASSUME NEW n \in Engines, NEW t \in Threads PROVE ThreadSafe(m, v, c, DbOf[n], t, th'[n][t])
  <2> DEFINE y == th'[n][t]
  <2>1. SameWork(th[n][t], y) \/ ThreadSafe(m, v, c, DbOf[n], t, y)
    BY <1>4
  <2>2. ThreadSafe(log, ver, csn, DbOf[n], t, th[n][t])
    BY <1>3
  <2> HIDE DEF y
  <2>3. ThreadSafe(m, v, c, DbOf[n], t, y)
    BY <1>2, <2>1, <2>2, FrameThread
  <2> QED BY <2>3 DEF y
<1>6. \A o \in orphans' : OrphanSafe(m, v, c, o)
  BY <1>2, <1>3, <1>4, FrameOrphan
<1> QED BY <1>2, <1>5, <1>6

-----------------------------------------------------------------------------
(* Steps that change no row and no entry of the log *)

LEMMA FrameSame == ASSUME EngineInv PROVE Frame(log, ver, csn)
<1>1. ver \in [Dbs -> [EventIds -> Nat]] /\ log \in Seq(Entry)
  BY InvParts DEF RowsOK
<1>2. Grows(log, log) /\ Keeps(ver, ver)
  BY <1>1, GrowsSame, KeepsSame
<1>3. \A n \in Engines : DbOf[n] \in Dbs
  BY EngineConstants
<1>4. \A d \in Dbs : \A e \in Fresh(log, ver, d) : ver[d][e] \in Nat /\ ver[d][e] <= ver[d][e]
  BY <1>1 DEF Fresh
<1>5. \A n \in Engines, t \in Threads : \A e \in Fresh(log, ver, DbOf[n]) :
        e \in Fresh(log, ver, DbOf[n]) /\ ver[DbOf[n]][e] <= ver[DbOf[n]][e]
  BY <1>3, <1>4
<1> QED BY <1>2, <1>5 DEF Frame

LEMMA VersionMove ==
    ASSUME EngineInv, EngineInv', VersionInv, NEW n \in Engines, NEW t \in Threads, NEW x, Moves(n, t, x),
           log' = log, ver' = ver, csn' = csn, rushed => rushed', taken => taken',
           Safe' => ThreadSafe(log, ver, csn, DbOf[n], t, x),
           Safe' => \A o \in orphans' : o \in orphans \/ OrphanSafe(log, ver, csn, o)
    PROVE  VersionInv'
<1>1. Safe' => Safe
  BY DEF Safe, Uncut
<1>2. Safe' => TablesOK(log', ver', csn') /\ Frame(log', ver', csn')
  BY <1>1, FrameSame DEF VersionInv
<1>3. Safe' => \A m \in Engines, u \in Threads :
        SameWork(th[m][u], th'[m][u]) \/ ThreadSafe(log', ver', csn', DbOf[m], u, th'[m][u])
  BY DEF Moves
<1> QED BY <1>1, <1>2, <1>3, VersionNext


LEMMA QuietSafe ==
    ASSUME NEW l, NEW v, NEW c, NEW d, NEW t, NEW x, NEW y \in Thread, ThreadSafe(l, v, c, d, t, x),
           y.batch = x.batch \/ y.batch = <<>>, y.pc # "sent", y.pc = "apply" => y.next = 1
    PROVE  ThreadSafe(l, v, c, d, t, y)
<1>1. Reserves(l, v, d, y)
  <2>1. y.page \in Seq(PageEntry)
    BY DEF Thread
  <2>2. \A k \in DOMAIN y.page : k \in Nat /\ ~(k < 1)
    BY <2>1
  <2> QED BY <2>2 DEF Reserves
<1>2. t = "push" => Sendable(l, v, c, d, y.batch)
  BY DEF ThreadSafe, Sendable
<1> QED BY <1>1, <1>2 DEF ThreadSafe

LEMMA VersionQuiet ==
    ASSUME EngineInv, EngineInv', VersionInv, NEW n \in Engines, NEW t \in Threads, NEW y, Moves(n, t, y),
           y \in Thread, y.batch = th[n][t].batch \/ y.batch = <<>>, y.pc # "sent", y.pc = "apply" => y.next = 1,
           log' = log, ver' = ver, csn' = csn, rushed' = rushed, taken' = taken, orphans' = orphans
    PROVE  VersionInv'
<1>1. Safe' => ThreadSafe(log, ver, csn, DbOf[n], t, th[n][t])
  BY DEF Safe, Uncut, VersionInv
<1>2. Safe' => ThreadSafe(log, ver, csn, DbOf[n], t, y)
  BY <1>1, QuietSafe
<1> QED BY <1>2, VersionMove

LEMMA VersionEnds ==
    ASSUME EngineInv, EngineInv', VersionInv, NEW n \in Engines, NEW t \in Threads, Ends(n, t) \/ Parks(n, t),
           log' = log, ver' = ver, csn' = csn, rushed' = rushed, taken' = taken, orphans' = orphans
    PROVE  VersionInv'
<1>1. PICK y : EndsAs(n, t, y)
  BY EndsMoves
<1> QED BY <1>1, VersionQuiet DEF EndsAs

LEMMA PullVersion ==
    ASSUME EngineInv, EngineInv', VersionInv, NEW n \in Engines,
           \/ StartPull(n) \/ ServePage(n) \/ ServeHead(n) \/ ReceivePage(n) \/ WriteCursor(n)
           \/ FinishPull(n) \/ FailPull(n)
    PROVE  VersionInv'
<1>1. UNCHANGED <<log, ver, csn, rushed, taken, orphans>>
  BY DEF StartPull, ServePage, ServeHead, ReceivePage, WriteCursor, FinishPull, FailPull
<1>2. "pull" \in Threads /\ pull(n) = th[n]["pull"]
  BY DEF Threads, pull
<1>3. CASE FinishPull(n) \/ FailPull(n)
  BY <1>1, <1>2, <1>3, VersionEnds DEF FinishPull, FailPull
<1>4. CASE StartPull(n) \/ ServePage(n) \/ ServeHead(n) \/ ReceivePage(n) \/ WriteCursor(n)
  <2>1. \E y : /\ Becomes(n, "pull", y) /\ y \in Thread /\ (y.batch = pull(n).batch \/ y.batch = <<>>)
               /\ y.pc # "sent" /\ (y.pc = "apply" => y.next = 1)
    <3>1. CASE StartPull(n)
      BY <3>1, StartPullStep DEF StartPullTo
    <3>2. CASE ServePage(n)
      BY <3>2, ServePageStep DEF ServePageTo
    <3>3. CASE ServeHead(n)
      BY <3>3, ServeHeadStep DEF ServeHeadTo
    <3>4. CASE ReceivePage(n)
      BY <3>4, ReceivePageStep DEF ReceivePageTo
    <3>5. CASE WriteCursor(n)
      BY <3>5, WriteCursorStep DEF WriteCursorTo
    <3> QED BY <1>4, <3>1, <3>2, <3>3, <3>4, <3>5
  <2> QED BY <1>1, <1>2, <2>1, BecomesMoves, VersionQuiet
<1> QED BY <1>3, <1>4

LEMMA PushVersion ==
    ASSUME EngineInv, EngineInv', VersionInv, NEW n \in Engines,
           \/ RefusePush(n) \/ ServeMissing(n) \/ ReadCursor(n) \/ ReceiveConflict(n) \/ ApplyAssignments(n)
           \/ AckPush(n) \/ AdvanceToHead(n) \/ AfterRefusal(n) \/ CheckCursor(n)
    PROVE  VersionInv'
<1>1. UNCHANGED <<log, ver, csn, rushed, taken, orphans>>
  BY DEF RefusePush, ServeMissing, ReadCursor, ReceiveConflict, ApplyAssignments, AckPush, AdvanceToHead,
         AfterRefusal, CheckCursor
<1>2. "push" \in Threads /\ push(n) = th[n]["push"]
  BY PushFacts
<1>3. \/ Ends(n, "push")
      \/ \E y : /\ Becomes(n, "push", y) /\ y \in Thread /\ (y.batch = push(n).batch \/ y.batch = <<>>)
                /\ y.pc # "sent" /\ (y.pc = "apply" => y.next = 1)
  <2>1. CASE RefusePush(n)
    BY <2>1, RefusePushStep DEF RefusePushTo
  <2>2. CASE ServeMissing(n)
    BY <2>2, ServeMissingStep DEF ServeMissingTo
  <2>3. CASE ReadCursor(n)
    BY <2>3, ReadCursorStep DEF ReadCursorTo
  <2>4. CASE ReceiveConflict(n)
    BY <2>4, ReceiveConflictStep DEF ReceiveConflictTo
  <2>5. CASE ApplyAssignments(n)
    BY <2>5, ApplyAssignmentsStep DEF ApplyAssignmentsTo
  <2>6. CASE AckPush(n)
    BY <2>6 DEF AckPush
  <2>7. CASE AdvanceToHead(n)
    BY <2>7, TriesAgainStep DEF AdvanceToHead, RetryTo
  <2>8. CASE AfterRefusal(n) \/ CheckCursor(n)
    BY <2>8, RefusalStep DEF TurnTo, RetryTo
  <2> QED BY <2>1, <2>2, <2>3, <2>4, <2>5, <2>6, <2>7, <2>8
<1> QED BY <1>1, <1>2, <1>3, BecomesMoves, VersionQuiet, VersionEnds

LEMMA FreshPending ==
    ASSUME EngineInv, NEW d \in Dbs
    PROVE  \A e \in Fresh(log, ver, d) : e \in EventIds /\ e \in Pending(d)
<1>1. /\ log \in Seq(Entry) /\ map \in [Dbs -> [EventIds -> 0..Len(log)]]
      /\ \A e \in EventIds : map[d][e] # 0 => log[map[d][e]].id = e
  BY InvParts DEF MapOK
<1>2. TAKE e \in Fresh(log, ver, d)
<1>3. e \in EventIds /\ ver[d][e] # 0 /\ ~Logged(log, e)
  BY DEF Fresh
<1>4. map[d][e] = 0
  <2>1. SUFFICES ASSUME map[d][e] # 0 PROVE FALSE
    OBVIOUS
  <2>2. map[d][e] \in DOMAIN log /\ log[map[d][e]].id = e
    BY <1>1, <1>3, <2>1
  <2> QED BY <1>3, <2>2 DEF Logged
<1> QED BY <1>3, <1>4 DEF Pending, Present

\* What LoadPending reads may be sent.
LEMMA BatchSendable ==
    ASSUME EngineInv, NEW d \in Dbs, DbOK(log, ver, csn, d), NEW b \in Seq(Entry), IsBatch(d, b)
    PROVE  Sendable(log, ver, csn, d, b)
<1>1. /\ \A i \in DOMAIN b : b[i].id \in EventIds /\ ver[d][b[i].id] # 0
      /\ \A i, j \in DOMAIN b : i < j => csn[d][b[i].id] < csn[d][b[j].id]
  BY EntryIds DEF IsBatch, Pending, Present
<1>2. /\ log \in Seq(Entry) /\ map \in [Dbs -> [EventIds -> 0..Len(log)]]
      /\ \A e \in EventIds : map[d][e] # 0 => log[map[d][e]].id = e
      /\ csn \in [Dbs -> [EventIds -> Nat]]
  BY InvParts DEF MapOK, RowsOK
<1>3. \A e \in Fresh(log, ver, d) : e \in EventIds /\ e \in Pending(d)
  BY FreshPending
<1>4. ASSUME NEW i \in DOMAIN b, ~Logged(log, b[i].id), NEW e \in Fresh(log, ver, d), \A j \in DOMAIN b : b[j].id # e
      PROVE  csn[d][b[i].id] < csn[d][e]
  <2>1. csn[d][b[i].id] \in Nat /\ csn[d][e] \in Nat
    BY <1>1, <1>2, <1>3
  <2>2. ~(csn[d][e] < csn[d][b[i].id])
    BY <1>3, <1>4 DEF IsBatch
  <2>3. b[i].id \in Fresh(log, ver, d)
    BY <1>1, <1>4 DEF Fresh
  <2>4. csn[d][b[i].id] # csn[d][e]
    BY <1>4, <2>3 DEF DbOK, Ordered
  <2> QED BY <2>1, <2>2, <2>4
<1> QED BY <1>1, <1>4 DEF Sendable

LEMMA LoadVersion ==
    ASSUME EngineInv, EngineInv', VersionInv, NEW n \in Engines, LoadPending(n) PROVE VersionInv'
<1>1. UNCHANGED <<log, ver, csn, rushed, taken, orphans>> /\ "push" \in Threads
  BY PushFacts DEF LoadPending
<1>2. CASE Ends(n, "push")
  BY <1>1, <1>2, VersionEnds
<1>3. ASSUME NEW x, LoadPendingTo(n, x) PROVE VersionInv'
  <2>1. /\ x \in Thread /\ x.pc = "expect" /\ IsBatch(DbOf[n], x.batch) /\ Moves(n, "push", x)
        /\ x.batch \in Seq(Entry)
    BY <1>1, <1>3, BecomesMoves DEF LoadPendingTo, Thread
  <2>2. Safe' => DbOK(log, ver, csn, DbOf[n]) /\ DbOf[n] \in Dbs
    BY <1>1, PushFacts DEF Safe, Uncut, VersionInv, TablesOK
  <2> DEFINE b == x.batch
  <2>3. b \in Seq(Entry) /\ IsBatch(DbOf[n], b)
    BY <2>1
  <2> HIDE DEF b
  <2>4. Safe' => Sendable(log, ver, csn, DbOf[n], b)
    BY <2>2, <2>3, BatchSendable
  <2>5. Safe' => ThreadSafe(log, ver, csn, DbOf[n], "push", x)
    BY <2>1, <2>4 DEF ThreadSafe, Reserves, b
  <2> QED BY <1>1, <2>1, <2>5, VersionMove
<1> QED BY <1>2, <1>3, LoadPendingStep

LEMMA SendVersion ==
    ASSUME EngineInv, EngineInv', VersionInv, NEW n \in Engines, ReadExpectedHead(n) PROVE VersionInv'
<1>1. PICK x : ReadExpectedHeadTo(n, x)
  BY ReadExpectedHeadStep
<1>2. UNCHANGED <<log, ver, csn, taken, orphans>>
  BY DEF ReadExpectedHead
<1>3. rushed => rushed'
  BY <1>1, Zenon DEF ReadExpectedHeadTo
<1>4. /\ x.pc = "sent" /\ x.at \in 0..Len(log) /\ x.batch = push(n).batch /\ Moves(n, "push", x)
  BY <1>1, BecomesMoves, PushFacts DEF ReadExpectedHeadTo
<1>5. ASSUME Safe' PROVE ThreadSafe(log, ver, csn, DbOf[n], "push", x)
  <2>1. Safe
    BY <1>2, <1>3, <1>5 DEF Safe, Uncut
  <2>2. Sendable(log, ver, csn, DbOf[n], x.batch)
    BY <1>4, <2>1, PushFacts DEF VersionInv, ThreadSafe
  <2>3. CaughtUp(DbOf[n], x.at, x.batch)
    BY <1>1, <1>4, <1>5 DEF ReadExpectedHeadTo, Safe, Uncut
  <2>4. Sent(log, ver, DbOf[n], x.at, x.batch)
    BY <1>4, <2>3 DEF CaughtUp, Sent, Caught, Present
  <2> QED BY <1>4, <2>2, <2>4 DEF ThreadSafe, Reserves
<1> QED BY <1>2, <1>3, <1>4, <1>5, PushFacts, VersionMove

\* A request nobody waits for any more is as good as it was.
LEMMA AbandonedSafe ==
    ASSUME EngineInv, VersionInv, Safe, NEW n \in Engines, push(n).pc = "sent"
    PROVE  OrphanSafe(log, ver, csn, [at |-> push(n).at, batch |-> push(n).batch])
<1> DEFINE o == [at |-> push(n).at, batch |-> push(n).batch]
<1>1. o.at = push(n).at /\ o.batch = push(n).batch
  OBVIOUS
<1>2. ThreadSafe(log, ver, csn, DbOf[n], "push", push(n)) /\ DbOf[n] \in Dbs
  BY PushFacts DEF VersionInv
<1>3. Sendable(log, ver, csn, DbOf[n], push(n).batch) /\ Sent(log, ver, DbOf[n], push(n).at, push(n).batch)
  BY <1>2 DEF ThreadSafe
<1> HIDE DEF o
<1>4. OrphanSafe(log, ver, csn, o)
  BY <1>1, <1>2, <1>3 DEF OrphanSafe
<1> QED BY <1>4 DEF o

LEMMA FailPushVersion ==
    ASSUME EngineInv, EngineInv', VersionInv, NEW n \in Engines, FailPush(n) PROVE VersionInv'
<1>1. UNCHANGED <<log, ver, csn, rushed, taken>> /\ Ends(n, "push")
  BY DEF FailPush
<1>2. PICK x : EndsAs(n, "push", x)
  BY <1>1, EndsMoves, PushFacts
<1>3. Safe' => Safe
  BY <1>1 DEF Safe, Uncut
<1>4. Safe' => \A o \in orphans' : o \in orphans \/ OrphanSafe(log, ver, csn, o)
  BY <1>3, AbandonedSafe DEF FailPush
<1>5. x \in Thread /\ x.batch = <<>> /\ x.pc \in {"idle", "parked"} /\ Moves(n, "push", x)
  BY <1>2 DEF EndsAs
<1>6. Safe' => ThreadSafe(log, ver, csn, DbOf[n], "push", x)
  BY <1>5 DEF ThreadSafe, Reserves, Sendable
<1> QED BY <1>1, <1>4, <1>5, <1>6, PushFacts, VersionMove

LEMMA CutVersion ==
    ASSUME EngineInv, EngineInv', VersionInv, NEW n \in Engines, Reload(n) \/ ResetSyncState(n) PROVE VersionInv'
<1>1. UNCHANGED <<log, ver, csn, rushed, taken>> /\ orphans' = orphans \cup Abandoned(n)
  BY DEF Reload, ResetSyncState
<1>3. \A m \in Engines, t \in Threads : th'[m][t] = Idle \/ SameWork(th[m][t], th'[m][t])
  BY CutThreads
<1>4. \A m \in Engines, t \in Threads :
        SameWork(th[m][t], th'[m][t]) \/ ThreadSafe(log', ver', csn', DbOf[m], t, th'[m][t])
  <2>1. TAKE m \in Engines, t \in Threads
  <2>2. ThreadSafe(log', ver', csn', DbOf[m], t, Idle)
    BY IdleThread DEF ThreadSafe, Reserves, Sendable
  <2> QED BY <1>3, <2>2
<1>5. Safe' => Safe
  BY <1>1 DEF Safe, Uncut
<1>6. Safe' => \A o \in orphans' : o \in orphans \/ OrphanSafe(log', ver', csn', o)
  BY <1>1, <1>5, AbandonedSafe DEF Abandoned
<1>7. Safe' => TablesOK(log', ver', csn') /\ Frame(log', ver', csn')
  BY <1>1, <1>5, FrameSame DEF VersionInv
<1> QED BY <1>4, <1>5, <1>6, <1>7, VersionNext

-----------------------------------------------------------------------------
(* The server accepts a push *)

LEMMA AcceptedExtends ==
    ASSUME EngineInv, NEW d \in Dbs, NEW b \in Seq(Entry), Appended(b), Sendable(log, ver, csn, d, b),
           \A i \in DOMAIN b : b[i].ver = ver[d][b[i].id]
    PROVE  Extends(log, log', ver, csn, d)
<1>1. \A e : e \in LogIds <=> Logged(log, e)
  BY InvParts, LogIdsAre DEF Logged
<1>2. \A i \in DOMAIN b : b[i].id \in EventIds /\ ver[d][b[i].id] # 0
  BY EntryIds DEF Sendable
<1>3. Grows(log, log')
  BY DEF Appended
<1>4. ASSUME NEW k \in DOMAIN log', k > Len(log)
      PROVE  log'[k].id \in Fresh(log, ver, d) /\ log'[k].ver = ver[d][log'[k].id]
  <2>1. PICK p \in DOMAIN b : log'[k] = b[p] /\ b[p].id \notin LogIds
    BY <1>4 DEF Appended
  <2> QED BY <1>1, <1>2, <2>1 DEF Fresh
<1>5. ASSUME NEW j \in DOMAIN log', NEW k \in DOMAIN log', Len(log) < j, j < k
      PROVE  csn[d][log'[j].id] < csn[d][log'[k].id]
  <2>1. PICK p, q \in DOMAIN b : p < q /\ log'[j] = b[p] /\ log'[k] = b[q]
    BY <1>5 DEF Appended
  <2> QED BY <2>1 DEF Sendable
<1>6. ASSUME NEW k \in DOMAIN log', NEW e \in Fresh(log, ver, d), k > Len(log), ~Logged(log', e)
      PROVE  csn[d][log'[k].id] < csn[d][e]
  <2>1. PICK p \in DOMAIN b : log'[k] = b[p] /\ b[p].id \notin LogIds
    BY <1>6 DEF Appended
  <2>2. ASSUME NEW j \in DOMAIN b, b[j].id = e PROVE FALSE
    <3>1. b[j].id \notin LogIds
      BY <1>1, <2>2 DEF Fresh
    <3>2. PICK i \in DOMAIN log' : log'[i] = b[j]
      BY <3>1 DEF Appended
    <3> QED BY <1>6, <2>2, <3>2 DEF Logged
  <2> QED BY <1>1, <2>1, <2>2 DEF Sendable
<1> QED BY <1>3, <1>4, <1>5, <1>6 DEF Extends

LEMMA FrameLog ==
    ASSUME EngineInv, NEW m \in Seq(Entry), Grows(log, m) PROVE Frame(m, ver, csn)
<1>1. ver \in [Dbs -> [EventIds -> Nat]] /\ log \in Seq(Entry)
  BY InvParts DEF RowsOK
<1>2. Keeps(ver, ver)
  BY KeepsSame
<1>3. \A n \in Engines : DbOf[n] \in Dbs
  BY EngineConstants
<1>4. \A k \in DOMAIN log : k \in DOMAIN m /\ m[k] = log[k]
  BY <1>1 DEF Grows
<1>5. \A d \in Dbs : \A e \in Fresh(m, ver, d) : e \in Fresh(log, ver, d) /\ ver[d][e] \in Nat
  BY <1>1, <1>4 DEF Fresh, Logged
<1>6. \A d \in Dbs : \A e \in Fresh(m, ver, d) : e \in Fresh(log, ver, d) /\ ver[d][e] <= ver[d][e]
  BY <1>5
<1>7. \A n \in Engines, t \in Threads : \A e \in Fresh(m, ver, DbOf[n]) :
        e \in Fresh(log, ver, DbOf[n]) /\ ver[DbOf[n]][e] <= ver[DbOf[n]][e]
  BY <1>3, <1>6
<1> QED BY <1>2, <1>6, <1>7 DEF Frame

\* What the log becomes when a request of database d arrives.
LEMMA RequestArrives ==
    ASSUME EngineInv, VersionInv, Safe, log' \in Seq(Entry), Grows(log, log'), NEW d \in Dbs, NEW b \in Seq(Entry), NEW at,
           Sendable(log, ver, csn, d, b), Sent(log, ver, d, at, b),
           (at = Len(log) /\ Appended(b)) \/ log' = log
    PROVE  TablesOK(log', ver, csn) /\ Frame(log', ver, csn)
<1>1. /\ ver \in [Dbs -> [EventIds -> Nat]] /\ csn \in [Dbs -> [EventIds -> Nat]]
      /\ log \in Seq(Entry) /\ TablesOK(log, ver, csn)
  BY InvParts DEF RowsOK, VersionInv
<1>2. CASE at = Len(log) /\ Appended(b)
  <2>1. Caught(log, ver, d, Len(log)) /\ \A i \in DOMAIN b : b[i].ver = ver[d][b[i].id]
    BY <1>2 DEF Sent
  <2>2. Extends(log, log', ver, csn, d)
    BY <1>2, <2>1, AcceptedExtends
  <2> QED BY <1>1, <2>1, <2>2, ExtendsTables, FrameLog
<1>3. CASE log' = log
  BY <1>1, <1>3, FrameSame
<1> QED BY <1>2, <1>3

LEMMA ServePushVersion ==
    ASSUME EngineInv, EngineInv', VersionInv, NEW n \in Engines, ServePush(n) PROVE VersionInv'
<1>1. PICK x : ServePushTo(n, x)
  BY ServePushStep
<1>2. UNCHANGED <<ver, csn, orphans, rushed, taken>>
  BY DEF ServePush
<1>3. /\ push(n).pc = "sent" /\ x \in Thread /\ x.batch = <<>> /\ x.pc \in {"ok", "missing"} /\ Becomes(n, "push", x)
      /\ (push(n).at = Len(log) /\ Appended(push(n).batch)) \/ log' = log
  BY <1>1 DEF ServePushTo
<1>4. log' \in Seq(Entry) /\ log \in Seq(Entry) /\ DbOf[n] \in Dbs /\ push(n).batch \in Seq(Entry) /\ "push" \in Threads
  BY PushFacts DEF EngineInv, LogOK
<1>5. Grows(log, log')
  BY <1>3, <1>4, GrowsSame DEF Appended
<1>6. Safe' => Safe
  BY <1>2, <1>5, UncutBefore DEF Safe
<1>7. ASSUME Safe' PROVE TablesOK(log', ver', csn') /\ Frame(log', ver', csn')
  <2> DEFINE b == push(n).batch
             at == push(n).at
  <2>1. ThreadSafe(log, ver, csn, DbOf[n], "push", push(n))
    BY <1>4, <1>6, <1>7, PushFacts DEF VersionInv
  <2>2. Sendable(log, ver, csn, DbOf[n], b) /\ Sent(log, ver, DbOf[n], at, b)
    BY <1>3, <2>1 DEF ThreadSafe
  <2>3. b \in Seq(Entry) /\ ((at = Len(log) /\ Appended(b)) \/ log' = log)
    BY <1>3, <1>4
  <2> HIDE DEF b, at
  <2>4. TablesOK(log', ver, csn) /\ Frame(log', ver, csn)
    BY <1>4, <1>5, <1>6, <1>7, <2>2, <2>3, RequestArrives
  <2> QED BY <1>2, <2>4
<1>8. Safe' => \A m \in Engines, u \in Threads :
        SameWork(th[m][u], th'[m][u]) \/ ThreadSafe(log', ver', csn', DbOf[m], u, th'[m][u])
  <2>1. ThreadSafe(log', ver', csn', DbOf[n], "push", x)
    BY <1>3 DEF ThreadSafe, Reserves, Sendable
  <2>2. Moves(n, "push", x)
    BY <1>3, <1>4, BecomesMoves
  <2> QED BY <2>1, <2>2 DEF Moves
<1> QED BY <1>2, <1>6, <1>7, <1>8, VersionNext

LEMMA ServeOrphanVersion ==
    ASSUME EngineInv, EngineInv', VersionInv, NEW m \in orphans, ServeOrphan(m) PROVE VersionInv'
<1>1. UNCHANGED <<ver, csn, th, rushed, taken>> /\ orphans' = orphans \ {m}
  BY DEF ServeOrphan
<1>2. /\ (m.at = Len(log) /\ Appended(m.batch)) \/ log' = log
      /\ Grows(log, log') /\ log' \in Seq(Entry) /\ log \in Seq(Entry)
  BY ServeOrphanLog
<1>3. Safe' => Safe
  BY <1>1, <1>2, UncutBefore DEF Safe
<1>4. ASSUME Safe' PROVE TablesOK(log', ver', csn') /\ Frame(log', ver', csn')
  <2> DEFINE b == m.batch
             at == m.at
  <2>1. PICK d \in Dbs : Sendable(log, ver, csn, d, b) /\ Sent(log, ver, d, at, b)
    BY <1>3, <1>4 DEF VersionInv, OrphanSafe
  <2>2. b \in Seq(Entry) /\ ((at = Len(log) /\ Appended(b)) \/ log' = log)
    BY <1>2, InvParts DEF OrphansOK
  <2> HIDE DEF b, at
  <2>3. TablesOK(log', ver, csn) /\ Frame(log', ver, csn)
    BY <1>2, <1>3, <1>4, <2>1, <2>2, RequestArrives
  <2> QED BY <1>1, <2>3
<1>5. \A n \in Engines, t \in Threads : SameWork(th[n][t], th'[n][t])
  BY <1>1, ThreadsStay
<1> QED BY <1>1, <1>3, <1>4, <1>5, VersionNext

-----------------------------------------------------------------------------
(* A command appends an event *)

LEMMA AppendAdds ==
    ASSUME EngineInv, NEW d \in Dbs, NEW e \in EventIds, NEW v, NEW c, AppendTo(d, e, v, c)
    PROVE  AddsRow(ver, csn, ver', csn', d, e)
<1> DEFINE g == AggOf[e]
           m == MaxVersion(d, g)
<1>1. /\ ver \in [Dbs -> [EventIds -> Nat]] /\ csn \in [Dbs -> [EventIds -> Nat]]
  BY InvParts DEF RowsOK
<1>2. /\ m \in Nat /\ \A f \in EventIds : AggOf[f] = g => ver[d][f] <= m
      /\ m = 0 \/ \E f \in EventIds : AggOf[f] = g /\ ver[d][f] = m
  BY MaxVersionIs
<1>3. LastCommit(d) \in Nat /\ \A f \in EventIds : csn[d][f] <= LastCommit(d)
  BY LastCommitIs
<1>4. /\ v = m + 1 /\ c = LastCommit(d) + 1 /\ (\A b \in Dbs : ver[b][e] = 0)
      /\ ver'[d][e] = v /\ csn'[d][e] = c
      /\ \A b \in Dbs, f \in EventIds : b # d \/ f # e => ver'[b][f] = ver[b][f] /\ csn'[b][f] = csn[b][f]
  BY DEF AppendTo
<1> HIDE DEF m
<1>5. v # 0 /\ \A f \in EventIds : AggOf[f] = g => ver[d][f] < v
  BY <1>1, <1>2, <1>4
<1>6. v = 1 \/ \E f \in EventIds : AggOf[f] = g /\ ver[d][f] # 0 /\ ver[d][f] = v - 1
  <2>1. CASE m = 0
    BY <1>4, <2>1
  <2>2. CASE m # 0
    <3>1. PICK f \in EventIds : AggOf[f] = g /\ ver[d][f] = m
      BY <1>2, <2>2
    <3>2. ver[d][f] # 0 /\ ver[d][f] = v - 1
      BY <1>2, <1>4, <2>2, <3>1
    <3> QED BY <3>1, <3>2
  <2> QED BY <2>1, <2>2
<1>7. \A f \in EventIds : csn[d][f] < c
  BY <1>1, <1>3, <1>4
<1> QED BY <1>4, <1>5, <1>6, <1>7 DEF AddsRow

LEMMA AppendFrame ==
    ASSUME EngineInv, NEW d \in Dbs, NEW e \in EventIds, NEW v, NEW c, AppendTo(d, e, v, c),
           Keeps(ver, ver'), ~FoundFree(d, AggOf[e], v)
    PROVE  Frame(log, ver', csn')
<1>1. /\ ver \in [Dbs -> [EventIds -> Nat]] /\ csn \in [Dbs -> [EventIds -> Nat]] /\ log \in Seq(Entry)
  BY InvParts DEF RowsOK
<1>2. /\ \A b \in Dbs : ver[b][e] = 0
      /\ ver'[d][e] = v /\ csn'[d][e] = c /\ v \in Nat /\ c \in Nat
      /\ \A b \in Dbs, f \in EventIds : b # d \/ f # e => ver'[b][f] = ver[b][f] /\ csn'[b][f] = csn[b][f]
  BY DEF AppendTo
<1>3. \A f \in EventIds : csn[d][f] < c
  BY <1>1, LastCommitIs DEF AppendTo
<1>4. \A b \in Dbs, f \in EventIds : ver[b][f] # 0 => ver'[b][f] = ver[b][f] /\ csn'[b][f] = csn[b][f]
  BY <1>2
<1>5. \A b \in Dbs : \A f \in Fresh(log, ver', b) :
        (f \in Fresh(log, ver, b) /\ ver'[b][f] = ver[b][f] /\ ver[b][f] \in Nat) \/ (b = d /\ f = e)
  BY <1>1, <1>2 DEF Fresh
<1>6. \A b \in Dbs : \A f \in Fresh(log, ver', b) :
        f \in Fresh(log, ver, b) \/ \A h \in EventIds : ver[b][h] # 0 => csn[b][h] < csn'[b][f]
  BY <1>2, <1>3, <1>5
<1>7. ASSUME NEW n \in Engines, NEW t \in Threads, NEW f \in Fresh(log, ver', DbOf[n])
      PROVE  \/ f \in Fresh(log, ver, DbOf[n]) /\ ver[DbOf[n]][f] <= ver'[DbOf[n]][f]
             \/ \A k \in DOMAIN th[n][t].page :
                  /\ th[n][t].pc = "apply" /\ k < th[n][t].next /\ ver[DbOf[n]][th[n][t].page[k].id] = 0
                  /\ AggOf[f] = AggOf[th[n][t].page[k].id]
                  => th[n][t].page[k].ver < ver'[DbOf[n]][f]
  <2> DEFINE x == th[n][t]
  <2>1. DbOf[n] \in Dbs /\ x.page \in Seq(PageEntry) /\ x.next \in Nat /\ SeenBy(ver, DbOf[n], t, x)
    BY ThreadFacts
  <2>2. CASE f \in Fresh(log, ver, DbOf[n]) /\ ver'[DbOf[n]][f] = ver[DbOf[n]][f] /\ ver[DbOf[n]][f] \in Nat
    BY <2>2
  <2>3. CASE DbOf[n] = d /\ f = e
    <3>1. ASSUME NEW k \in DOMAIN x.page, x.pc = "apply", k < x.next, ver[d][x.page[k].id] = 0, AggOf[e] = AggOf[x.page[k].id]
          PROVE  x.page[k].ver < v
      <4>1. x.page[k].id \in x.insert
        BY <2>1, <2>3, <3>1 DEF SeenBy
      <4>2. k \in 1..(x.next - 1) /\ x.page[k].ver \in Nat
        BY <2>1, <3>1, PageIds
      <4>3. ~(x.page[k].ver >= v)
        BY <2>3, <3>1, <4>1, <4>2 DEF FoundFree
      <4> QED BY <1>2, <4>2, <4>3
    <3> QED BY <1>2, <2>3, <3>1
  <2> QED BY <1>5, <2>1, <2>2, <2>3
<1>8. Grows(log, log)
  BY <1>1, GrowsSame
<1> QED BY <1>4, <1>6, <1>7, <1>8 DEF Frame

LEMMA AppendVersion ==
    ASSUME EngineInv, EngineInv', VersionInv, NEW d \in Dbs, NEW e \in EventIds, Append1(d, e) PROVE VersionInv'
<1>1. PICK v, c : AppendTo(d, e, v, c) /\ taken' = (taken \/ FoundFree(d, AggOf[e], v))
  BY AppendStep
<1>2. /\ RowsOK(ver', csn') /\ Keeps(ver, ver')
      /\ UNCHANGED <<log, th, orphans, rushed>>
  BY AppendStep
<1>3. /\ ver \in [Dbs -> [EventIds -> Nat]] /\ csn \in [Dbs -> [EventIds -> Nat]] /\ log \in Seq(Entry)
      /\ ver' \in [Dbs -> [EventIds -> Nat]] /\ csn' \in [Dbs -> [EventIds -> Nat]]
  BY <1>2, InvParts DEF RowsOK
<1>4. Safe' => Safe /\ ~FoundFree(d, AggOf[e], v)
  <2>1. Uncut' <=> Uncut
    BY <1>2 DEF Uncut
  <2>2. ~taken' => ~taken /\ ~FoundFree(d, AggOf[e], v)
    BY <1>1, Zenon
  <2> QED BY <2>1, <2>2 DEF Safe
<1>5. ~Logged(log, e)
  BY <1>1, <1>3, LogIdsAre DEF AppendTo, Logged
<1>6. AddsRow(ver, csn, ver', csn', d, e)
  BY <1>1, AppendAdds
<1>7. Safe' => TablesOK(log', ver', csn')
  BY <1>2, <1>3, <1>4, <1>5, <1>6, AddedTables DEF VersionInv
<1>8. Safe' => Frame(log', ver', csn')
  BY <1>1, <1>2, <1>4, AppendFrame
<1>9. \A n \in Engines, t \in Threads : SameWork(th[n][t], th'[n][t])
  BY <1>2, ThreadsStay
<1> QED BY <1>2, <1>4, <1>7, <1>8, <1>9, VersionNext

-----------------------------------------------------------------------------
(* A round of applyRemoteEvents *)

LEMMA PagePosition ==
    ASSUME EngineInv, NEW n \in Engines, NEW t \in Threads, th[n][t].pc = "apply", NEW k \in DOMAIN th[n][t].page
    PROVE  /\ th[n][t].at + k \in DOMAIN log /\ k \in Nat /\ th[n][t].at \in Nat
           /\ th[n][t].page[k].id = log[th[n][t].at + k].id /\ th[n][t].page[k].ver = log[th[n][t].at + k].ver
<1> DEFINE x == th[n][t]
           i == x.at + k
<1>1. Follows(log, x.at, x.page) /\ x.page \in Seq(PageEntry) /\ x.at \in Nat
  BY ThreadFacts DEF ThreadOK, HasPage, Threads
<1>2. i \in DOMAIN log /\ x.page[k] = [seq |-> i, id |-> log[i].id, ver |-> log[i].ver]
  BY <1>1 DEF Follows
<1>3. x.page[k].id = log[i].id /\ x.page[k].ver = log[i].ver
  BY <1>2
<1> QED BY <1>1, <1>2, <1>3

LEMMA CaughtThread ==
    ASSUME EngineInv, GapInv, Uncut, NEW n \in Engines, NEW t \in Threads, th[n][t].pc = "apply"
    PROVE  Caught(log, ver, DbOf[n], th[n][t].at)
BY DEF GapInv, GapThread, Threads

\* The rows the server does not have are not below the event that comes next.
LEMMA NextIsBelow ==
    ASSUME EngineInv, GapInv, VersionInv, Safe, NEW n \in Engines, NEW t \in Threads,
           th[n][t].pc = "apply", th[n][t].next \in DOMAIN th[n][t].page
    PROVE  LET p == th[n][t].at + th[n][t].next IN
           \A e \in Fresh(log, ver, DbOf[n]) : AggOf[e] = AggOf[log[p].id] => log[p].ver <= ver[DbOf[n]][e]
<1> DEFINE x == th[n][t]
           d == DbOf[n]
           a == x.at
           p == a + x.next
<1>1. /\ d \in Dbs /\ ver \in [Dbs -> [EventIds -> Nat]] /\ log \in Seq(Entry)
  BY ThreadFacts, InvParts DEF RowsOK
<1>2. /\ p \in DOMAIN log /\ x.next \in Nat /\ a \in Nat
  BY PagePosition
<1>3. Caught(log, ver, d, a) /\ Reserves(log, ver, d, x) /\ Dense(log) /\ Above(log, ver, d)
  BY <1>1, CaughtThread DEF Safe, VersionInv, ThreadSafe, TablesOK, DbOK
<1>4. SUFFICES ASSUME NEW e \in Fresh(log, ver, d), AggOf[e] = AggOf[log[p].id] PROVE log[p].ver <= ver[d][e]
  OBVIOUS
<1>5. e \in EventIds /\ ver[d][e] \in Nat /\ ver[d][e] # 0 /\ log[p].ver \in Nat
  BY <1>1, <1>2, EntryIds DEF Fresh
<1>6. CASE log[p].ver = 1
  BY <1>5, <1>6
<1>7. ASSUME NEW i \in DOMAIN log, i < p, AggOf[log[i].id] = AggOf[log[p].id], log[i].ver = log[p].ver - 1
      PROVE  log[p].ver <= ver[d][e]
  <2>1. log[i].ver \in Nat /\ i \in Nat
    BY <1>1, EntryIds
  <2>2. log[i].ver < ver[d][e]
    <3>1. CASE ver[d][log[i].id] # 0
      BY <1>3, <1>4, <1>7, <3>1 DEF Above
    <3>2. CASE ver[d][log[i].id] = 0
      <4> DEFINE k == i - a
      <4>1. ~(i \in 1..a)
        BY <1>3, <3>2 DEF Caught
      <4>2. k \in 1..(x.next - 1) /\ i = a + k
        <5> DEFINE m == x.next
        <5>1. m \in Nat /\ a \in Nat /\ i < a + m /\ i \in Nat /\ i # 0 /\ ~(i \in 1..a)
          BY <1>1, <1>2, <1>7, <4>1
        <5> HIDE DEF m, a
        <5>2. i - a \in 1..(m - 1) /\ i = a + (i - a)
          BY <5>1
        <5> QED BY <5>2 DEF m
      <4>3. k \in DOMAIN x.page /\ k < x.next
        <5>1. x.page \in Seq(PageEntry)
          BY ThreadFacts
        <5>2. DOMAIN x.page = 1..Len(x.page) /\ Len(x.page) \in Nat
          BY <5>1
        <5> QED BY <1>2, <4>2, <5>2
      <4>4. x.page[k].id = log[a + k].id /\ x.page[k].ver = log[a + k].ver
        BY <4>3, PagePosition
      <4>5. x.page[k].id = log[i].id /\ x.page[k].ver = log[i].ver
        BY <4>2, <4>4
      <4> QED BY <1>3, <1>4, <1>7, <3>2, <4>3, <4>5 DEF Reserves
    <3> QED BY <3>1, <3>2
  <2> QED BY <1>5, <1>7, <2>1, <2>2
<1> QED BY <1>2, <1>3, <1>6, <1>7 DEF Dense

LEMMA AdvancesVersion ==
    ASSUME EngineInv, EngineInv', GapInv, VersionInv, NEW n \in Engines, NEW t \in Threads, NEW x, Advances(n, t, x),
           th[n][t].pc = "apply", th[n][t].next \in DOMAIN th[n][t].page,
           UNCHANGED <<log, ver, csn, rushed, taken, orphans>>
    PROVE  VersionInv'
<1> DEFINE y == th[n][t]
           d == DbOf[n]
           p == y.at + y.next
<1>1. /\ d \in Dbs /\ ver \in [Dbs -> [EventIds -> Nat]] /\ log \in Seq(Entry) /\ y.page \in Seq(PageEntry)
  BY ThreadFacts, InvParts DEF RowsOK
<1>2. /\ p \in DOMAIN log /\ y.next \in Nat
      /\ y.page[y.next].id = log[p].id /\ y.page[y.next].ver = log[p].ver
  BY PagePosition
<1>3. /\ x.pc = "apply" /\ x.page = y.page /\ x.batch = y.batch /\ Becomes(n, t, x)
      /\ x.next = y.next \/ x.next = y.next + 1
      /\ \/ x.next = y.next
         \/ ver[d][log[p].id] # 0
         \/ Occupants(d, AggOf[log[p].id], log[p].ver) = {}
  BY <1>2 DEF Advances, Present
<1>4. ASSUME Safe' PROVE ThreadSafe(log, ver, csn, d, t, x)
  <2>1. Safe
    BY <1>4 DEF Safe, Uncut
  <2>2. ThreadSafe(log, ver, csn, d, t, y)
    BY <2>1 DEF VersionInv
  <2>3. \A e \in Fresh(log, ver, d) : AggOf[e] = AggOf[log[p].id] => log[p].ver <= ver[d][e]
    BY <2>1, NextIsBelow
  <2>4. ASSUME NEW k \in DOMAIN y.page, k < x.next, ver[d][y.page[k].id] = 0,
               NEW e \in Fresh(log, ver, d), AggOf[e] = AggOf[y.page[k].id]
        PROVE  y.page[k].ver < ver[d][e]
    <3>1. k \in Nat
      BY <1>1
    <3>2. CASE k < y.next
      BY <2>2, <2>4, <3>2 DEF ThreadSafe, Reserves
    <3>3. CASE k = y.next /\ x.next # y.next
      <4>1. Occupants(d, AggOf[log[p].id], log[p].ver) = {}
        BY <1>2, <1>3, <2>4, <3>3
      <4>2. e \in EventIds /\ ver[d][e] # 0 /\ ver[d][e] \in Nat /\ log[p].ver \in Nat
        BY <1>1, <1>2, EntryIds DEF Fresh
      <4>3. ver[d][e] # log[p].ver
        BY <1>2, <2>4, <3>3, <4>1, <4>2 DEF Occupants, Present
      <4>4. log[p].ver <= ver[d][e]
        BY <1>2, <2>3, <2>4, <3>3
      <4> QED BY <1>2, <3>3, <4>2, <4>3, <4>4
    <3> QED BY <1>2, <1>3, <2>4, <3>1, <3>2, <3>3
  <2>5. Reserves(log, ver, d, x)
    BY <1>3, <2>4 DEF Reserves
  <2>6. t = "push" => Sendable(log, ver, csn, d, x.batch)
    BY <1>3, <2>2 DEF ThreadSafe
  <2> QED BY <1>3, <2>5, <2>6 DEF ThreadSafe
<1>5. Moves(n, t, x)
  BY <1>3, BecomesMoves
<1> QED BY <1>4, <1>5, VersionMove

\* PendingEventVersionRewriter moves exactly the rows the server does not have.
LEMMA RoomShifts ==
    ASSUME EngineInv, GapInv, VersionInv, Safe, Safe', NEW n \in Engines, NEW t \in Threads, MakesRoom(n, t),
           csn' = csn, th[n][t].pc = "apply", th[n][t].next \in DOMAIN th[n][t].page
    PROVE  /\ ShiftsRows(log, ver, ver', DbOf[n], th[n][t].at + th[n][t].next)
           /\ ver[DbOf[n]][log[th[n][t].at + th[n][t].next].id] = 0
<1> DEFINE y == th[n][t]
           d == DbOf[n]
           p == y.at + y.next
           g == AggOf[log[p].id]
           w == log[p].ver
<1>1. /\ d \in Dbs /\ ver \in [Dbs -> [EventIds -> Nat]] /\ log \in Seq(Entry)
  BY ThreadFacts, InvParts DEF RowsOK
<1>2. /\ p \in DOMAIN log /\ w \in Nat
      /\ y.page[y.next].id = log[p].id /\ y.page[y.next].ver = w
  BY <1>1, PagePosition, EntryIds
<1>3. /\ ver[d][log[p].id] = 0 /\ Occupants(d, g, w) # {} /\ Occupants(d, g, w) \subseteq Pending(d)
      /\ ver' = ShiftVersions(d, g, w)
  BY <1>2 DEF MakesRoom, Present, Safe
<1>4. \A e \in Fresh(log, ver, d) : AggOf[e] = g => w <= ver[d][e]
  BY NextIsBelow
<1>5. Increasing(log) /\ Closed(log, ver, d) /\ Agrees(log, ver, d)
  BY <1>1 DEF VersionInv, TablesOK, DbOK
<1> HIDE DEF p
<1>6. ASSUME NEW e \in Shifted(d, g, w) PROVE e \in Fresh(log, ver, d) /\ AggOf[e] = g
  <2>1. e \in EventIds /\ ver[d][e] # 0 /\ AggOf[e] = g /\ ver[d][e] >= w /\ ver[d][e] \in Nat
    BY <1>1 DEF Shifted, Pending, Present
  <2>2. ASSUME NEW j \in DOMAIN log, log[j].id = e PROVE FALSE
    <3>1. Caught(log, ver, d, j) /\ ver[d][e] = log[j].ver /\ j \in Nat /\ p \in Nat /\ p >= 1
      BY <1>1, <1>2, <1>5, <2>1, <2>2 DEF Closed, Agrees
    <3>2. ~(p \in 1..j)
      BY <1>3, <3>1 DEF Caught
    <3>3. j < p
      BY <3>1, <3>2
    <3>4. log[j].ver < w
      BY <1>2, <1>5, <2>1, <2>2, <3>3 DEF Increasing
    <3> QED BY <1>2, <2>1, <3>1, <3>4
  <2> QED BY <2>1, <2>2 DEF Fresh, Logged
<1>7. ASSUME NEW e \in Fresh(log, ver, d), AggOf[e] = g PROVE e \in Shifted(d, g, w)
  <2>1. e \in Pending(d) /\ e \in EventIds
    BY <1>1, FreshPending
  <2>2. w <= ver[d][e] /\ ver[d][e] \in Nat
    BY <1>1, <1>4, <1>7, <2>1
  <2> QED BY <1>2, <1>7, <2>1, <2>2 DEF Shifted
<1>8. \A b \in Dbs, e \in EventIds :
        ver'[b][e] = IF b = d /\ e \in Shifted(d, g, w) THEN ver[b][e] + 1 ELSE ver[b][e]
  <2> HIDE DEF g, w, d
  <2> QED BY <1>1, <1>3, ShiftFacts
<1>9. \E e \in Fresh(log, ver, d) : AggOf[e] = g /\ ver[d][e] = w
  <2>1. PICK o \in Occupants(d, g, w) : TRUE
    BY <1>3
  <2>2. o \in Pending(d) /\ AggOf[o] = g /\ ver[d][o] = w
    BY <1>3 DEF Occupants
  <2>3. o \in Shifted(d, g, w)
    BY <1>2, <2>2 DEF Shifted
  <2> QED BY <1>6, <2>2, <2>3
<1>10. \A b \in Dbs, e \in EventIds :
        ver'[b][e] = IF b = d /\ e \in Fresh(log, ver, d) /\ AggOf[e] = AggOf[log[p].id] THEN ver[b][e] + 1 ELSE ver[b][e]
  BY <1>6, <1>7, <1>8
<1>11. ShiftsRows(log, ver, ver', d, p)
  BY <1>4, <1>9, <1>10 DEF ShiftsRows
<1> QED BY <1>3, <1>11 DEF p

LEMMA ShiftFrame ==
    ASSUME EngineInv, ver' \in [Dbs -> [EventIds -> Nat]], Keeps(ver, ver'), NEW d \in Dbs, NEW p \in DOMAIN log,
           ShiftsRows(log, ver, ver', d, p), ver[d][log[p].id] = 0
    PROVE  Frame(log, ver', csn)
<1>1. /\ ver \in [Dbs -> [EventIds -> Nat]] /\ log \in Seq(Entry)
  BY InvParts DEF RowsOK
<1>2. \A b \in Dbs, e \in EventIds :
        /\ b # d => ver'[b][e] = ver[b][e]
        /\ ver'[b][e] = ver[b][e] \/ (ver'[b][e] = ver[b][e] + 1 /\ ver[b][e] # 0)
  BY DEF ShiftsRows, Fresh
<1>3. \A b \in Dbs, e \in EventIds : ver[b][e] \in Nat /\ ver'[b][e] \in Nat
  BY <1>1
<1>4. \A b \in Dbs, e \in EventIds : ver[b][e] <= ver'[b][e] /\ (ver[b][e] = 0 => ver'[b][e] = 0)
  BY <1>2, <1>3
<1>5. \A b \in Dbs : \A e \in Fresh(log, ver', b) : e \in Fresh(log, ver, b) /\ ver[b][e] <= ver'[b][e]
  BY <1>4 DEF Fresh
<1>6. \A b \in Dbs : Caught(log, ver, b, Len(log)) => b # d
  BY <1>1 DEF Caught
<1>7. \A n \in Engines : DbOf[n] \in Dbs
  BY EngineConstants
<1>8. Grows(log, log)
  BY <1>1, GrowsSame
<1>9. \A n \in Engines, t \in Threads : \A e \in Fresh(log, ver', DbOf[n]) :
        e \in Fresh(log, ver, DbOf[n]) /\ ver[DbOf[n]][e] <= ver'[DbOf[n]][e]
  BY <1>5, <1>7
<1>10. \A b \in Dbs : Caught(log, ver, b, Len(log)) => \A e \in EventIds : ver'[b][e] = ver[b][e]
  BY <1>2, <1>6
<1> QED BY <1>5, <1>8, <1>9, <1>10 DEF Frame

LEMMA ResolveVersionInv ==
    ASSUME EngineInv, EngineInv', GapInv, VersionInv, NEW n \in Engines, NEW t \in Threads,
           LookUpEvent(n, t) \/ ResolveVersion(n, t)
    PROVE  VersionInv'
<1>1. /\ UNCHANGED <<log, csn, orphans, rushed>>
      /\ th[n][t].pc = "apply" /\ th[n][t].next \in DOMAIN th[n][t].page
  BY ResolveStep
<1>2. ASSUME NEW x, Advances(n, t, x), UNCHANGED <<ver, taken>> PROVE VersionInv'
  BY <1>1, <1>2, AdvancesVersion
<1>3. CASE (Ends(n, t) \/ Parks(n, t)) /\ UNCHANGED <<ver, taken>>
  BY <1>1, <1>3, VersionEnds
<1>4. CASE MakesRoom(n, t) /\ th' = th
  <2> DEFINE d == DbOf[n]
             p == th[n][t].at + th[n][t].next
  <2>1. Safe' => Safe
    BY <1>1, <1>4 DEF Safe, Uncut, MakesRoom
  <2>2. /\ ver \in [Dbs -> [EventIds -> Nat]] /\ csn \in [Dbs -> [EventIds -> Nat]] /\ log \in Seq(Entry)
        /\ ver' \in [Dbs -> [EventIds -> Nat]] /\ d \in Dbs
    BY ThreadFacts, InvParts DEF RowsOK, EngineInv
  <2>3. Keeps(ver, ver')
    <3>1. PICK g, v : ver' = ShiftVersions(d, g, v)
      BY <1>4 DEF MakesRoom
    <3> HIDE DEF d
    <3> QED BY <1>1, <2>2, <3>1, ShiftFacts
  <2>4. p \in DOMAIN log /\ log[p].ver # 0
    <3>1. p \in DOMAIN log
      BY <1>1, PagePosition
    <3> HIDE DEF p
    <3> QED BY <3>1, InvParts DEF LogOK, Versioned
  <2>5. Safe' => ShiftsRows(log, ver, ver', d, p) /\ ver[d][log[p].id] = 0
    BY <1>1, <1>4, <2>1, RoomShifts
  <2> HIDE DEF p, d
  <2>6. Safe' => TablesOK(log', ver', csn') /\ Frame(log', ver', csn')
    BY <1>1, <2>1, <2>2, <2>3, <2>4, <2>5, ShiftedTables, ShiftFrame DEF VersionInv
  <2>7. \A m \in Engines, u \in Threads : SameWork(th[m][u], th'[m][u])
    BY <1>4, ThreadsStay
  <2> QED BY <1>1, <2>1, <2>6, <2>7, VersionNext
<1> QED BY <1>2, <1>3, <1>4, ResolveStep

-----------------------------------------------------------------------------
(* The commit of a page *)

\* No row is ignored: every event of the page that is absent is inserted.
LEMMA AbsentIsInserted ==
    ASSUME EngineInv, VersionInv, Safe, NEW n \in Engines, NEW t \in Threads, th[n][t].pc = "apply",
           th[n][t].next > Len(th[n][t].page), NEW k \in DOMAIN th[n][t].page,
           ver[DbOf[n]][th[n][t].page[k].id] = 0
    PROVE  /\ k \in Inserted(DbOf[n], th[n][t])
           /\ \A f \in Fresh(log, ver, DbOf[n]) :
                AggOf[f] = AggOf[th[n][t].page[k].id] => th[n][t].page[k].ver < ver[DbOf[n]][f]
<1> DEFINE x == th[n][t]
           d == DbOf[n]
           a == x.at
           e == x.page[k]
<1>1. /\ d \in Dbs /\ ver \in [Dbs -> [EventIds -> Nat]] /\ log \in Seq(Entry) /\ x.page \in Seq(PageEntry)
      /\ SeenBy(ver, d, t, x) /\ x.next \in Nat
  BY ThreadFacts, InvParts DEF RowsOK
<1>2. Increasing(log) /\ Agrees(log, ver, d) /\ Reserves(log, ver, d, x)
  BY <1>1 DEF VersionInv, TablesOK, DbOK, ThreadSafe
<1>3. \A j \in DOMAIN x.page : /\ a + j \in DOMAIN log /\ j \in Nat /\ a \in Nat /\ j < x.next
                               /\ x.page[j].id = log[a + j].id /\ x.page[j].ver = log[a + j].ver
  <2>1. TAKE j \in DOMAIN x.page
  <2>2. /\ x.at + j \in DOMAIN log /\ j \in Nat /\ x.at \in Nat
        /\ x.page[j].id = log[x.at + j].id /\ x.page[j].ver = log[x.at + j].ver
    BY PagePosition
  <2>3. j <= Len(x.page) /\ Len(x.page) \in Nat
    BY <1>1
  <2> QED BY <1>1, <2>2, <2>3
<1>4. e.id \in x.insert /\ e.id \in EventIds /\ e.ver \in Nat
  BY <1>1, <1>3, PageIds DEF SeenBy
<1>5. \A f \in Fresh(log, ver, d) : AggOf[f] = AggOf[e.id] => e.ver < ver[d][f]
  BY <1>2, <1>3 DEF Reserves
<1>6. Occupants(d, AggOf[e.id], e.ver) = {}
  <2>1. SUFFICES ASSUME NEW o \in EventIds, ver[d][o] # 0, AggOf[o] = AggOf[e.id], ver[d][o] = e.ver PROVE FALSE
    BY DEF Occupants, Present
  <2>2. CASE Logged(log, o)
    <3>1. PICK j \in DOMAIN log : log[j].id = o
      BY <2>2 DEF Logged
    <3>2. ver[d][o] = log[j].ver
      BY <1>2, <2>1, <3>1 DEF Agrees
    <3> DEFINE i == a + k
    <3>3. i \in DOMAIN log /\ log[i].id = e.id /\ log[i].ver = e.ver /\ i \in Int /\ j \in Int
      BY <1>1, <1>3
    <3>4. i # j
      BY <2>1, <3>1, <3>3
    <3> HIDE DEF i
    <3>5. ~(i < j) /\ ~(j < i)
      BY <1>2, <1>4, <2>1, <3>1, <3>2, <3>3 DEF Increasing
    <3> QED BY <3>3, <3>4, <3>5
  <2>3. CASE ~Logged(log, o)
    <3>1. e.ver < ver[d][o]
      BY <1>5, <2>1, <2>3 DEF Fresh
    <3> QED BY <1>4, <2>1, <3>1
  <2> QED BY <2>2, <2>3
<1>7. ASSUME NEW j \in 1..(k - 1), AggOf[x.page[j].id] = AggOf[e.id], x.page[j].ver = e.ver PROVE FALSE
  <2>1. j \in DOMAIN x.page /\ j < k
    BY <1>1
  <2>2. a + j \in DOMAIN log /\ a + k \in DOMAIN log /\ a + j < a + k
    BY <1>3, <2>1
  <2>3. log[a + j].ver < log[a + k].ver
    BY <1>2, <1>3, <1>7, <2>1, <2>2 DEF Increasing
  <2>4. x.page[j].ver < e.ver
    BY <1>3, <2>1, <2>3
  <2> QED BY <1>4, <1>7, <2>4
<1>8. k \in Inserted(d, x)
  BY <1>4, <1>6, <1>7 DEF Inserted, Present
<1> QED BY <1>5, <1>8

LEMMA CommitStores ==
    ASSUME EngineInv, GapInv, VersionInv, Safe, NEW n \in Engines, NEW t \in Threads, CommitPage(n, t)
    PROVE  \E k \in 0..Len(log) : StoresRows(log, ver, csn, ver', csn', DbOf[n], k)
<1> DEFINE x == th[n][t]
           d == DbOf[n]
           a == x.at
           p == x.page
           k == a + Len(p)
<1>1. /\ d \in Dbs /\ ver \in [Dbs -> [EventIds -> Nat]] /\ log \in Seq(Entry) /\ p \in Seq(PageEntry)
      /\ a \in 0..Len(log) /\ Len(log) \in Nat
  BY ThreadFacts, InvParts DEF RowsOK
<1>2. x.pc = "apply" /\ x.next > Len(p)
  BY CommitStep
<1>3. InsertsRows(d, x) /\ Keeps(ver, ver') /\ \A e \in PresentAfter(d, x) : ver'[d][e] # 0
  BY CommitRows, CommitPresent
<1>4. Follows(log, a, p)
  BY <1>2, ThreadFacts DEF ThreadOK, HasPage, Threads
<1>5. \A j \in DOMAIN p : /\ a + j \in DOMAIN log /\ j \in Nat
                          /\ p[j].id = log[a + j].id /\ p[j].ver = log[a + j].ver /\ p[j].id \in EventIds
  BY <1>1, <1>2, PagePosition, PageIds
<1>6. ASSUME NEW j \in DOMAIN p PROVE ver'[d][p[j].id] # 0
  <2>1. CASE ver[d][p[j].id] # 0
    BY <1>1, <1>3, <1>5, <2>1 DEF Keeps
  <2>2. CASE ver[d][p[j].id] = 0
    <3>1. j \in Inserted(d, x)
      BY <1>2, <2>2, AbsentIsInserted
    <3> QED BY <1>3, <3>1 DEF PresentAfter, NewIds
  <2> QED BY <2>1, <2>2
<1>7. Caught(log, ver', d, k) /\ k \in 0..Len(log)
  <2>1. Caught(log, ver, d, a)
    BY <1>2, CaughtThread DEF Safe
  <2>2. k \in 0..Len(log)
    <3>1. CASE Len(p) = 0
      BY <1>1, <3>1
    <3>2. CASE Len(p) # 0
      <4>1. Len(p) \in DOMAIN p
        BY <1>1, <3>2
      <4>2. a + Len(p) \in DOMAIN log
        BY <1>5, <4>1
      <4> QED BY <1>1, <4>2
    <3> QED BY <3>1, <3>2
  <2> DEFINE v == ver'
  <2>3. \A j \in DOMAIN p : v[d][p[j].id] # 0
    BY <1>6
  <2>4. Keeps(ver, v)
    BY <1>3
  <2> HIDE DEF a, p, d, v
  <2>5. Caught(log, v, d, a)
    BY <1>1, <2>1, <2>4, CaughtGrows, GrowsSame
  <2>6. Caught(log, v, d, a + Len(p))
    BY <1>1, <1>4, <2>3, <2>5, CaughtPage
  <2> QED BY <2>2, <2>6 DEF v
<1>8. \A b \in Dbs, e \in EventIds : b # d \/ ver[d][e] # 0 => ver'[b][e] = ver[b][e] /\ csn'[b][e] = csn[b][e]
  BY <1>1, <1>3 DEF InsertsRows
<1>9. ASSUME NEW e \in EventIds, ver[d][e] = 0, ver'[d][e] # 0
      PROVE  \E j \in DOMAIN log : /\ j <= k /\ log[j].id = e /\ ver'[d][e] = log[j].ver
                                   /\ \A f \in Fresh(log, ver, d) : AggOf[f] = AggOf[e] => log[j].ver < ver[d][f]
  <2>1. e \in NewIds(d, x)
    BY <1>1, <1>3, <1>9 DEF InsertsRows
  <2>2. PICK i \in Inserted(d, x) : p[i].id = e /\ ver'[d][e] = p[i].ver
    BY <1>3, <2>1 DEF InsertsRows
  <2>3. i \in DOMAIN p
    BY DEF Inserted
  <2>4. \A f \in Fresh(log, ver, d) : AggOf[f] = AggOf[p[i].id] => p[i].ver < ver[d][f]
    BY <1>2, <1>9, <2>2, <2>3, AbsentIsInserted
  <2> DEFINE j == a + i
  <2>5. j \in DOMAIN log /\ log[j].id = e /\ ver'[d][e] = log[j].ver /\ log[j].ver = p[i].ver /\ i <= Len(p) /\ i \in Nat
    BY <1>1, <1>5, <2>2, <2>3
  <2>6. j <= k
    BY <1>1, <2>5
  <2> HIDE DEF j, k
  <2> QED BY <2>2, <2>4, <2>5, <2>6
<1> HIDE DEF k
<1>10. StoresRows(log, ver, csn, ver', csn', d, k)
  BY <1>7, <1>8, <1>9 DEF StoresRows
<1> QED BY <1>7, <1>10

LEMMA StoreFrame ==
    ASSUME EngineInv, Keeps(ver, ver'), NEW d \in Dbs, NEW k, StoresRows(log, ver, csn, ver', csn', d, k)
    PROVE  Frame(log, ver', csn')
<1>1. /\ ver \in [Dbs -> [EventIds -> Nat]] /\ log \in Seq(Entry)
  BY InvParts DEF RowsOK
<1>2. \A b \in Dbs, e \in EventIds : ver[b][e] # 0 => ver'[b][e] = ver[b][e] /\ csn'[b][e] = csn[b][e]
  BY DEF StoresRows
<1>3. \A b \in Dbs : \A e \in Fresh(log, ver', b) : e \in Fresh(log, ver, b) /\ ver'[b][e] = ver[b][e] /\ ver[b][e] \in Nat
  BY <1>1, <1>2 DEF Fresh, Logged, StoresRows
<1>4. \A b \in Dbs : \A e \in Fresh(log, ver', b) : e \in Fresh(log, ver, b) /\ ver[b][e] <= ver'[b][e]
  BY <1>3
<1>5. \A n \in Engines : DbOf[n] \in Dbs
  BY EngineConstants
<1>6. Grows(log, log)
  BY <1>1, GrowsSame
<1>7. \A n \in Engines, t \in Threads : \A e \in Fresh(log, ver', DbOf[n]) :
        e \in Fresh(log, ver, DbOf[n]) /\ ver[DbOf[n]][e] <= ver'[DbOf[n]][e]
  BY <1>4, <1>5
<1> QED BY <1>2, <1>4, <1>6, <1>7 DEF Frame

LEMMA CommitVersion ==
    ASSUME EngineInv, EngineInv', GapInv, VersionInv, NEW n \in Engines, NEW t \in Threads, CommitPage(n, t)
    PROVE  VersionInv'
<1> DEFINE d == DbOf[n]
<1>1. /\ UNCHANGED <<log, orphans, rushed, taken>>
      /\ (\E y : CommitTo(n, t, y)) \/ Parks(n, t)
  BY CommitStep
<1>2. /\ ver \in [Dbs -> [EventIds -> Nat]] /\ csn \in [Dbs -> [EventIds -> Nat]] /\ log \in Seq(Entry) /\ IdsOnce(log)
      /\ ver' \in [Dbs -> [EventIds -> Nat]] /\ csn' \in [Dbs -> [EventIds -> Nat]] /\ d \in Dbs
  BY ThreadFacts, InvParts DEF RowsOK, EngineInv, LogOK
<1>3. Safe' => Safe
  BY <1>1 DEF Safe, Uncut
<1>4. ASSUME Safe' PROVE TablesOK(log', ver', csn') /\ Frame(log', ver', csn')
  <2>1. PICK k \in 0..Len(log) : StoresRows(log, ver, csn, ver', csn', d, k)
    BY <1>3, <1>4, CommitStores
  <2>2. Keeps(ver, ver')
    BY CommitPresent
  <2>3. TablesOK(log, ver, csn)
    BY <1>3, <1>4 DEF VersionInv
  <2> HIDE DEF d
  <2>4. TablesOK(log, ver', csn')
    <3> DEFINE w == ver'
               x == csn'
    <3>1. /\ w \in [Dbs -> [EventIds -> Nat]] /\ x \in [Dbs -> [EventIds -> Nat]]
          /\ StoresRows(log, ver, csn, w, x, d, k) /\ k \in 0..Len(log)
          /\ log \in Seq(Entry) /\ IdsOnce(log) /\ d \in Dbs /\ TablesOK(log, ver, csn)
          /\ ver \in [Dbs -> [EventIds -> Nat]] /\ csn \in [Dbs -> [EventIds -> Nat]]
      BY <1>2, <2>1, <2>3
    <3> HIDE DEF w, x
    <3>2. TablesOK(log, w, x)
      BY ONLY <3>1, StoredTables
    <3> QED BY <3>2 DEF w, x
  <2>5. Frame(log, ver', csn')
    BY <1>2, <2>1, <2>2, StoreFrame
  <2> QED BY <1>1, <2>4, <2>5
<1>5. \E y : Moves(n, t, y) /\ y.batch = <<>> /\ y.pc \in {"cursor", "advance", "idle", "parked"}
  <2>1. CASE Parks(n, t)
    BY <2>1, EndsMoves DEF EndsAs
  <2>2. ASSUME NEW y, CommitTo(n, t, y)
        PROVE  Moves(n, t, y) /\ y.batch = <<>> /\ y.pc \in {"cursor", "advance", "idle", "parked"}
    BY <2>2, BecomesMoves DEF CommitTo
  <2> QED BY <1>1, <2>1, <2>2
<1>6. PICK y : Moves(n, t, y) /\ y.batch = <<>> /\ y.pc \in {"cursor", "advance", "idle", "parked"}
  BY <1>5
<1>7. ThreadSafe(log', ver', csn', d, t, y)
  BY <1>6 DEF ThreadSafe, Reserves, Sendable
<1>8. \A m \in Engines, u \in Threads :
        SameWork(th[m][u], th'[m][u]) \/ ThreadSafe(log', ver', csn', DbOf[m], u, th'[m][u])
  BY <1>6, <1>7 DEF Moves
<1> QED BY <1>1, <1>3, <1>4, <1>8, VersionNext

-----------------------------------------------------------------------------
(* Every step keeps VersionInv *)

LEMMA NextVersion == ASSUME EngineInv, GapInv, VersionInv, [Next]_vars PROVE VersionInv'
<1>0. EngineInv' /\ "pull" \in Threads /\ "push" \in Threads
  BY NextInv DEF Threads
<1>1. ASSUME NEW d \in Dbs, NEW e \in EventIds, Append1(d, e) PROVE VersionInv'
  BY <1>0, <1>1, AppendVersion
<1>2. ASSUME NEW n \in Engines, StartPull(n) \/ FailPull(n) \/ PullStep(n) PROVE VersionInv'
  <2>1. CASE \/ StartPull(n) \/ ServePage(n) \/ ServeHead(n) \/ ReceivePage(n) \/ WriteCursor(n)
             \/ FinishPull(n) \/ FailPull(n)
    BY <1>0, <2>1, PullVersion
  <2>2. CASE LookUpEvent(n, "pull") \/ ResolveVersion(n, "pull")
    BY <1>0, <2>2, ResolveVersionInv
  <2>3. CASE CommitPage(n, "pull")
    BY <1>0, <2>3, CommitVersion
  <2> QED BY <1>2, <2>1, <2>2, <2>3 DEF PullStep
<1>3. ASSUME NEW n \in Engines, LoadPending(n) \/ RefusePush(n) \/ FailPush(n) \/ PushStep(n) PROVE VersionInv'
  <2>1. CASE LoadPending(n)
    BY <1>0, <2>1, LoadVersion
  <2>2. CASE FailPush(n)
    BY <1>0, <2>2, FailPushVersion
  <2>3. CASE ReadExpectedHead(n)
    BY <1>0, <2>3, SendVersion
  <2>4. CASE ServePush(n)
    BY <1>0, <2>4, ServePushVersion
  <2>5. CASE \/ RefusePush(n) \/ ServeMissing(n) \/ ReadCursor(n) \/ ReceiveConflict(n) \/ ApplyAssignments(n)
             \/ AckPush(n) \/ AdvanceToHead(n) \/ AfterRefusal(n) \/ CheckCursor(n)
    BY <1>0, <2>5, PushVersion
  <2>6. CASE LookUpEvent(n, "push") \/ ResolveVersion(n, "push")
    BY <1>0, <2>6, ResolveVersionInv
  <2>7. CASE CommitPage(n, "push")
    BY <1>0, <2>7, CommitVersion
  <2> QED BY <1>3, <2>1, <2>2, <2>3, <2>4, <2>5, <2>6, <2>7 DEF PushStep
<1>4. ASSUME NEW n \in Engines, Reload(n) \/ ResetSyncState(n) PROVE VersionInv'
  BY <1>0, <1>4, CutVersion
<1>5. ASSUME NEW m \in orphans, ServeOrphan(m) PROVE VersionInv'
  BY <1>0, <1>5, ServeOrphanVersion
<1>6. CASE UNCHANGED vars
  <2>1. UNCHANGED <<log, ver, csn, th, orphans, rushed, taken>>
    BY <1>6 DEF vars
  <2> QED BY <2>1 DEF VersionInv, Safe, Uncut
<1> QED BY <1>1, <1>2, <1>3, <1>4, <1>5, <1>6 DEF Next

LEMMA InitVersion == ASSUME Init PROVE VersionInv
<1>1. /\ log = <<>> /\ orphans = {}
      /\ \A d \in Dbs, e \in EventIds : ver[d][e] = 0
      /\ \A n \in Engines, t \in Threads : th[n][t] = Idle
  BY DEF Init
<1>2. \A d \in Dbs : Fresh(log, ver, d) = {}
  BY <1>1 DEF Fresh
<1>3. DOMAIN log = {}
  BY <1>1
<1>4. TablesOK(log, ver, csn)
  BY <1>2, <1>3 DEF TablesOK, Increasing, Dense, Unshared, DbOK, Closed, Agrees, Above, Ordered, Chain
<1>5. \A n \in Engines, t \in Threads : ThreadSafe(log, ver, csn, DbOf[n], t, th[n][t])
  <2>1. TAKE n \in Engines, t \in Threads
  <2>2. ThreadSafe(log, ver, csn, DbOf[n], t, Idle)
    BY IdleThread DEF ThreadSafe, Reserves, Sendable
  <2> QED BY <1>1, <2>2
<1> QED BY <1>1, <1>4, <1>5 DEF VersionInv

\* What devices that were caught up when they pushed hold: no version of an
\* aggregate is in the log twice, and every synced row is the server's record.
LEMMA VersionsAgree ==
    ASSUME EngineInv, VersionInv, Safe PROVE LogVersionsDistinct /\ SyncedRowsAgree
<1>1. /\ Increasing(log) /\ \A d \in Dbs : Agrees(log, ver, d)
  BY DEF VersionInv, TablesOK, DbOK
<1>2. /\ log \in Seq(Entry) /\ map \in [Dbs -> [EventIds -> 0..Len(log)]]
      /\ \A d \in Dbs, e \in EventIds : map[d][e] # 0 => log[map[d][e]].id = e
  BY InvParts DEF MapOK
<1>3. ASSUME NEW i \in DOMAIN log, NEW j \in DOMAIN log, AggOf[log[i].id] = AggOf[log[j].id], log[i].ver = log[j].ver
      PROVE  i = j
  <2>1. log[i].ver \in Nat /\ log[j].ver \in Nat /\ i \in Int /\ j \in Int
    BY <1>2, EntryIds
  <2>2. ~(i < j) /\ ~(j < i)
    BY <1>1, <1>3, <2>1 DEF Increasing
  <2> QED BY <2>1, <2>2
<1>4. ASSUME NEW d \in Dbs, NEW e \in EventIds, map[d][e] # 0, ver[d][e] # 0
      PROVE  ver[d][e] = log[map[d][e]].ver
  <2>1. map[d][e] \in DOMAIN log /\ log[map[d][e]].id = e
    BY <1>2, <1>4
  <2> QED BY <1>1, <1>4, <2>1 DEF Agrees
<1> QED BY <1>3, <1>4 DEF LogVersionsDistinct, SyncedRowsAgree, Present

\* Every mapping is the server's and no event is in its log twice; devices that
\* were caught up when they pushed skip nothing and, unless a command took a
\* version a page had found free, hold the server's records.
THEOREM DevicesAlwaysAgree == Spec => []DevicesAgree
<1>1. Init => VersionInv
  BY InitVersion
<1>2. EngineInv /\ GapInv /\ VersionInv /\ [Next]_vars => VersionInv'
  BY NextVersion
<1>3. Init => GapInv
  BY InitGap
<1>4. EngineInv /\ GapInv /\ [Next]_vars => GapInv'
  BY NextGap
<1>5. EngineInv /\ VersionInv => (~rushed /\ Len(log) <= MissingLimit /\ ~taken => LogVersionsDistinct /\ SyncedRowsAgree)
  BY VersionsAgree DEF Safe, Uncut
<1> DEFINE Agreed == ~rushed /\ Len(log) <= MissingLimit /\ ~taken => LogVersionsDistinct /\ SyncedRowsAgree
           Skipped == ~rushed /\ Len(log) <= MissingLimit => NoGap
<1>6. EngineInv /\ VersionInv => Agreed
  BY <1>5
<1>7. (MapAgrees /\ LogIdsOnce) /\ Skipped /\ Agreed => DevicesAgree
  BY DEF DevicesAgree, CaughtUpIsSafe
<1>8. Spec => []Skipped
  BY NothingIsSkipped
<1> HIDE DEF Agreed, Skipped
<1> QED BY <1>1, <1>2, <1>3, <1>4, <1>6, <1>7, <1>8, EngineHolds, PushedOnce, PTL DEF Spec
-----------------------------------------------------------------------------
(* The log the engines push to is the one the server promises *)

\* The log as SyncLog sees it: one store, and the version for the record, since
\* it is what the bytes of a record depend on here.
ServerLog == INSTANCE SyncLog WITH
  Stores <- {"store"}, Records <- Nat, Production <- TRUE,
  log <- [s \in {"store"} |-> [k \in DOMAIN log |-> [id |-> log[k].id, rec |-> log[k].ver]]]

\* Only a push that reaches the server changes the log, and it appends to it.
LEMMA NextGrows == ASSUME EngineInv, [Next]_vars PROVE Grows(log, log')
<1>1. ASSUME log' = log PROVE Grows(log, log')
  BY <1>1, InvParts, GrowsSame
<1>2. ASSUME NEW n \in Engines, ServePush(n) PROVE Grows(log, log')
  <2>1. PICK x : ServePushTo(n, x)
    BY <1>2, ServePushStep
  <2> QED BY <1>1, <2>1 DEF ServePushTo, Appended
<1>3. ASSUME NEW m \in orphans, ServeOrphan(m) PROVE Grows(log, log')
  BY <1>3, ServeOrphanLog
<1>4. CASE \E b \in Dbs, e \in EventIds : Append1(b, e)
  BY <1>1, <1>4 DEF Append1
<1>5. ASSUME NEW n \in Engines, StartPull(n) \/ PullStep(n) \/ FailPull(n) PROVE log' = log
  BY <1>5 DEF StartPull, PullStep, FailPull, ServePage, ServeHead, ReceivePage, WriteCursor, FinishPull,
     LookUpEvent, ResolveVersion, CommitPage
<1>6. ASSUME NEW n \in Engines, LoadPending(n) \/ PushStep(n) \/ RefusePush(n) \/ FailPush(n), ~ServePush(n)
      PROVE  log' = log
  BY <1>6 DEF LoadPending, PushStep, RefusePush, FailPush, ReadExpectedHead, ServeMissing, ApplyAssignments,
     ReadCursor, AckPush, ReceiveConflict, AdvanceToHead, AfterRefusal, CheckCursor, LookUpEvent, ResolveVersion,
     CommitPage
<1>7. ASSUME NEW n \in Engines, Reload(n) \/ ResetSyncState(n) PROVE log' = log
  BY <1>7 DEF Reload, ResetSyncState
<1>8. CASE UNCHANGED vars
  BY <1>1, <1>8 DEF vars
<1> QED BY <1>1, <1>2, <1>3, <1>4, <1>5, <1>6, <1>7, <1>8 DEF Next

\* A log that grows grows in SyncLog's eyes too.
LEMMA ServerLogStep ==
    ASSUME LogOK(log), LogOK(log'), Grows(log, log')
    PROVE  ServerLog!LogNext
<1> DEFINE View(l) == [k \in DOMAIN l |-> [id |-> l[k].id, rec |-> l[k].ver]]
           L == [s \in {"store"} |-> View(log)]
<1>1. ASSUME NEW l, LogOK(l)
      PROVE  /\ View(l) \in Seq(ServerLog!Entry) /\ DOMAIN View(l) = DOMAIN l
             /\ DOMAIN l = 1..Len(l) /\ Len(l) \in Nat /\ Len(View(l)) = Len(l)
             /\ \A k \in DOMAIN l : View(l)[k] = [id |-> l[k].id, rec |-> l[k].ver]
  <2>1. l \in Seq(Entry) /\ DOMAIN l = 1..Len(l) /\ Len(l) \in Nat
    BY <1>1 DEF LogOK
  <2>2. \A k \in DOMAIN l : l[k].id \in EventIds /\ l[k].ver \in Nat
    BY <2>1, EntryIds
  <2>3. View(l) \in [1..Len(l) -> ServerLog!Entry]
    BY <2>1, <2>2 DEF ServerLog!Entry
  <2>4. View(l) \in Seq(ServerLog!Entry) /\ Len(View(l)) = Len(l)
    BY <2>1, <2>3
  <2> QED BY <2>1, <2>4
<1>2. View(log') \in Seq(ServerLog!Entry)
  BY <1>1
<1>3. ServerLog!Extends(View(log'), View(log))
  BY <1>1 DEF Grows, ServerLog!Extends
<1>4. ServerLog!IdsOnce(View(log'))
  BY <1>1 DEF LogOK, IdsOnce, ServerLog!IdsOnce
<1>5. L["store"] = View(log) /\ L'["store"] = View(log') /\ L' = [L EXCEPT !["store"] = L'["store"]]
  OBVIOUS
<1>6. ServerLog!Grow("store")
  BY <1>2, <1>3, <1>4, <1>5 DEF ServerLog!Grow
<1> QED BY <1>6 DEF ServerLog!LogNext

\* The log that all devices push to, late and repeated requests included, is the
\* append-only log the sync service promises (SyncLog), in production: no push
\* renumbers, rewrites or repeats an event.  The server's side of it is
\* SyncServerProofs!ServerImplementsLog.
THEOREM EnginesUseServerLog == Spec => ServerLog!LogSpec
<1>1. Init => ServerLog!LogInit
  BY DEF Init, ServerLog!LogInit
<1>2. EngineInv /\ EngineInv' /\ [Next]_vars => ServerLog!LogNext
  <2> SUFFICES ASSUME EngineInv, EngineInv', [Next]_vars PROVE ServerLog!LogNext
    OBVIOUS
  <2>1. LogOK(log) /\ LogOK(log')
    BY DEF EngineInv
  <2> QED BY <2>1, NextGrows, ServerLogStep
<1> QED BY <1>1, <1>2, EngineHolds, PTL DEF Spec, ServerLog!LogSpec
=============================================================================
