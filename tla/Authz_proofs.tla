---------------------------- MODULE Authz_proofs ----------------------------
(***************************************************************************)
(* Proofs about Authz, for any number of workers and writers, any finite   *)
(* set of users and groups, any tuples, queries, TTL and size of topic.    *)
(*                                                                         *)
(* The decision of the graph: chains of memberships are the witnesses of   *)
(* Reaches.  One direction is an induction over the chain; the other takes *)
(* a shortest chain and cuts it when an entity comes up twice, so that it  *)
(* has no more links than the bound of Entitled allows.                    *)
(*                                                                         *)
(* The cache: StaleIsExplained is inductive together with what the         *)
(* consumer's keys are about (ScanInv) and the types.                      *)
(***************************************************************************)
EXTENDS Authz, FiniteSetTheorems, WellFoundedInduction, TLAPS

(* The least number of a set, from the well-founded order of Nat.          *)
LEMMA Smallest ==
  ASSUME NEW T \in SUBSET Nat, T # {}
  PROVE  \E n \in T : \A m \in T : n <= m
<1>1. IsWellFoundedOn(OpToRel(<, Nat), Nat)
  BY NatLessThanWellFounded, Zenon
<1>2. PICK n \in T : \A m \in T : ~(<<m, n>> \in OpToRel(<, Nat))
  BY <1>1, WFMin, Zenon
<1>3. ASSUME NEW m \in T PROVE n <= m
  <2>1. <<m, n>> \in Nat \X Nat => ~(m < n)
    BY <1>2 DEF OpToRel
  <2> QED BY <2>1
<1> QED BY <1>3

(* Induction, with the property as the set of the numbers that have it.    *)
LEMMA SetInduction ==
  ASSUME NEW T \in SUBSET Nat, 0 \in T, \A n \in T : n + 1 \in T
  PROVE  T = Nat
<1>1. SUFFICES ASSUME Nat \ T # {} PROVE FALSE
  OBVIOUS
<1>2. PICK n \in Nat \ T : \A m \in Nat \ T : n <= m
  BY <1>1, Smallest
<1>3. n - 1 \in T
  BY <1>2
<1> QED BY <1>2, <1>3

(* The table of levels of the path query is the order of the levels.       *)
LEMMA LevelsAreRanked ==
  ASSUME NEW a \in Level, NEW l
  PROVE  l \in AllowedLevels[a] <=> (l \in Level /\ Rank[l] >= Rank[a])
<1>1. CASE a = "read"
  BY <1>1 DEF AllowedLevels, Rank, Level
<1>2. CASE a = "write"
  BY <1>2 DEF AllowedLevels, Rank, Level
<1>3. CASE a = "create"
  BY <1>3 DEF AllowedLevels, Rank, Level
<1>4. CASE a = "delete"
  BY <1>4 DEF AllowedLevels, Rank, Level
<1>5. CASE a = "admin"
  BY <1>5 DEF AllowedLevels, Rank, Level
<1> QED BY <1>1, <1>2, <1>3, <1>4, <1>5 DEF Level

(* The candidates for a chain of n memberships.                            *)
Path(n) == [1..(n + 1) -> Entity]

(* Every end of a chain is reached.                                        *)
LEMMA ChainReaches ==
  ASSUME NEW x \in Entity, NEW n \in Nat, NEW p \in Path(n), Chain(x, p, n)
  PROVE  Reaches(x, p[n + 1])
<1> SUFFICES ASSUME NEW C \in SUBSET Entity, x \in C,
                    \A a \in C, b \in Entity \ C : ~MemberOf(a, b)
             PROVE  p[n + 1] \in C
  BY DEF Reaches
<1> DEFINE T == {i \in Nat : i <= n => p[i + 1] \in C}
<1>1. 0 \in T
  BY DEF Chain
<1>2. ASSUME NEW i \in T, i + 1 <= n PROVE p[i + 2] \in C
  <2>1. i \in Nat /\ i <= n /\ p[i + 1] \in C
    BY <1>2
  <2>2. i + 1 \in 1..n /\ (i + 1) + 1 = i + 2 /\ i + 2 \in 1..(n + 1)
    BY <1>2, <2>1
  <2>3. MemberOf(p[i + 1], p[i + 2])
    BY <2>2 DEF Chain
  <2>4. p[i + 2] \in Entity
    BY <2>2 DEF Path
  <2> QED BY <2>1, <2>3, <2>4
<1>3. ASSUME NEW i \in T PROVE i + 1 \in T
  <2>1. i + 1 \in Nat /\ (i + 1) + 1 = i + 2
    OBVIOUS
  <2> QED BY <1>2, <2>1
<1>4. T = Nat
  <2> T \in SUBSET Nat
    OBVIOUS
  <2> HIDE DEF T
  <2> QED BY <1>1, <1>3, SetInduction
<1>5. n \in T
  BY <1>4
<1> QED BY <1>5

(* A chain is continued by one more membership.                            *)
LEMMA ChainExtends ==
  ASSUME NEW x \in Entity, NEW n \in Nat, NEW p \in Path(n), Chain(x, p, n),
         NEW y \in Entity, MemberOf(p[n + 1], y)
  PROVE  \E r \in Path(n + 1) : Chain(x, r, n + 1) /\ r[n + 2] = y
<1> DEFINE r == [i \in 1..(n + 2) |-> IF i <= n + 1 THEN p[i] ELSE y]
<1>1. (n + 1) + 1 = n + 2 /\ n + 2 \in 1..(n + 2) /\ 1 \in 1..(n + 2)
  OBVIOUS
<1>2. \A i \in 1..(n + 1) : r[i] = p[i]
  OBVIOUS
<1>3. r[n + 2] = y
  OBVIOUS
<1>4. r \in Path(n + 1)
  BY <1>1 DEF Path
<1>5. ASSUME NEW i \in 1..(n + 1) PROVE MemberOf(r[i], r[i + 1])
  <2>1. CASE i = n + 1
    <3>1. i + 1 = n + 2
      BY <2>1
    <3>2. r[i] = p[n + 1]
      BY <2>1, <1>2
    <3> HIDE DEF r
    <3> QED BY <3>1, <3>2, <1>3
  <2>2. CASE i # n + 1
    <3>1. i \in 1..n /\ i + 1 \in 1..(n + 1)
      BY <2>2
    <3>2. MemberOf(p[i], p[i + 1])
      BY <3>1 DEF Chain
    <3>3. r[i] = p[i] /\ r[i + 1] = p[i + 1]
      BY <3>1, <1>2
    <3> HIDE DEF r
    <3> QED BY <3>2, <3>3
  <2> QED BY <2>1, <2>2
<1>6. r[1] = x
  BY <1>2 DEF Chain
<1> HIDE DEF r
<1>7. Chain(x, r, n + 1)
  BY <1>5, <1>6 DEF Chain
<1> QED BY <1>3, <1>4, <1>7

(* A chain that meets an entity twice is not the shortest one.             *)
LEMMA ChainIsCut ==
  ASSUME NEW x \in Entity, NEW n \in Nat, NEW p \in Path(n), Chain(x, p, n),
         NEW i \in 1..(n + 1), NEW j \in 1..(n + 1), i < j, p[i] = p[j]
  PROVE  \E m \in Nat : /\ m < n
                        /\ \E r \in Path(m) : Chain(x, r, m) /\ r[m + 1] = p[n + 1]
<1> DEFINE d == j - i
<1> DEFINE m == n - d
<1> DEFINE r == [k \in 1..(m + 1) |-> IF k <= i THEN p[k] ELSE p[k + d]]
<1>1. d \in Nat /\ d > 0 /\ d <= n /\ m \in Nat /\ m < n /\ i + d = j /\ m + d = n /\ i <= m + 1
  OBVIOUS
<1> HIDE DEF d, m
<1>2. \A k \in 1..(m + 1) : k + d \in 1..(n + 1)
  BY <1>1
<1>3. \A k \in 1..(m + 1) : k \in 1..(n + 1)
  BY <1>1
<1>4. \A k \in 1..(m + 1) : k <= i => r[k] = p[k]
  OBVIOUS
<1>5. \A k \in 1..(m + 1) : k >= i => r[k] = p[k + d]
  BY <1>1
<1>6. \A k \in 1..(n + 1) : p[k] \in Entity
  BY DEF Path
<1>7. r \in Path(m)
  BY <1>2, <1>3, <1>6 DEF Path
<1> HIDE DEF r
<1>8. ASSUME NEW k \in 1..m PROVE MemberOf(r[k], r[k + 1])
  <2>1. k \in 1..(m + 1) /\ k + 1 \in 1..(m + 1) /\ k \in 1..n /\ k + d \in 1..n
    BY <1>1
  <2>2. CASE k < i
    <3>1. r[k] = p[k] /\ r[k + 1] = p[k + 1]
      BY <2>1, <2>2, <1>4
    <3> QED BY <3>1, <2>1 DEF Chain
  <2>3. CASE k >= i
    <3>1. r[k] = p[k + d] /\ r[k + 1] = p[(k + 1) + d] /\ (k + 1) + d = (k + d) + 1
      BY <1>1, <2>1, <2>3, <1>5
    <3> QED BY <3>1, <2>1 DEF Chain
  <2> QED BY <2>2, <2>3
<1>9. r[1] = x
  BY <1>1, <1>4 DEF Chain
<1>10. r[m + 1] = p[n + 1]
  <2>1. m + 1 \in 1..(m + 1) /\ m + 1 >= i /\ (m + 1) + d = n + 1
    BY <1>1
  <2> QED BY <2>1, <1>5
<1>11. Chain(x, r, m)
  BY <1>8, <1>9 DEF Chain
<1> QED BY <1>1, <1>7, <1>10, <1>11

(* What is reached is the end of a chain no longer than there are          *)
(* entities.                                                               *)
LEMMA ReachesChain ==
  ASSUME NEW x \in Entity, NEW y \in Entity, Reaches(x, y)
  PROVE  \E n \in 0..(Cardinality(Entity) - 1) :
           \E p \in Path(n) : Chain(x, p, n) /\ p[n + 1] = y
<1> DEFINE Ends(z, n) == \E p \in Path(n) : Chain(x, p, n) /\ p[n + 1] = z
<1> DEFINE C == {z \in Entity : \E n \in Nat : Ends(z, n)}
<1>1. x \in C
  <2> DEFINE p == [i \in 1..1 |-> x]
  <2>1. 0 + 1 = 1 /\ p \in Path(0) /\ p[1] = x
    BY DEF Path
  <2>2. Chain(x, p, 0)
    BY <2>1 DEF Chain
  <2> HIDE DEF p
  <2>3. Ends(x, 0)
    BY <2>1, <2>2
  <2> QED BY <2>3
<1>2. ASSUME NEW a \in C, NEW b \in Entity \ C, MemberOf(a, b) PROVE FALSE
  <2>1. PICK n \in Nat : Ends(a, n)
    OBVIOUS
  <2>2. PICK p \in Path(n) : Chain(x, p, n) /\ p[n + 1] = a
    BY <2>1
  <2>3. PICK r \in Path(n + 1) : Chain(x, r, n + 1) /\ r[n + 2] = b
    BY <1>2, <2>2, ChainExtends
  <2>4. (n + 1) + 1 = n + 2 /\ n + 1 \in Nat
    OBVIOUS
  <2>5. Ends(b, n + 1)
    BY <2>3, <2>4
  <2>6. b \in C
    BY <2>4, <2>5
  <2> QED BY <2>6
<1>3. y \in C
  <2>1. C \in SUBSET Entity
    OBVIOUS
  <2> HIDE DEF C
  <2> QED BY <1>1, <1>2, <2>1 DEF Reaches
<1> DEFINE T == {n \in Nat : Ends(y, n)}
<1>4. PICK n \in T : \A m \in T : n <= m
  <2>1. T # {} /\ T \in SUBSET Nat
    BY <1>3
  <2> HIDE DEF T
  <2> QED BY <2>1, Smallest
<1>5. PICK p \in Path(n) : Chain(x, p, n) /\ p[n + 1] = y
  BY <1>4
<1>6. Cardinality(Entity) \in Nat
  BY EntityAssumption, FS_CardinalityType
<1>7. n + 1 <= Cardinality(Entity)
  <2> SUFFICES ASSUME Cardinality(Entity) < n + 1 PROVE FALSE
    BY <1>4, <1>6
  <2>1. IsFiniteSet(1..(n + 1)) /\ Cardinality(1..(n + 1)) = n + 1
    BY <1>4, FS_Interval
  <2>2. PICK i \in 1..(n + 1), j \in 1..(n + 1) : i # j /\ p[i] = p[j]
    <3>1. p \in [1..(n + 1) -> Entity]
      BY DEF Path
    <3> QED BY <2>1, <3>1, EntityAssumption, FS_PigeonHole
  <2>3. PICK m \in Nat : m < n /\ Ends(y, m)
    <3>1. CASE i < j
      BY <3>1, <1>4, <1>5, <2>2, ChainIsCut
    <3>2. CASE j < i
      BY <3>2, <1>4, <1>5, <2>2, ChainIsCut
    <3> QED BY <3>1, <3>2, <2>2
  <2>4. m \in T
    BY <2>3
  <2> QED BY <1>4, <2>3, <2>4
<1>8. n \in 0..(Cardinality(Entity) - 1)
  BY <1>4, <1>6, <1>7
<1> QED BY <1>5, <1>8

(* The decision is the entitlement in every state, whatever the edges are. *)
LEMMA DecidesEntitlement == DecisionIsEntitlement
<1> SUFFICES ASSUME NEW q \in Query PROVE Decision(q) = "allow" <=> Entitled(q)
  BY DEF DecisionIsEntitlement
<1>1. q[1] \in Entity /\ q[2] \in Level /\ q[3] \in Resource
  BY QueryAssumption
<1> DEFINE Granted == \E t \in Tuple : /\ t[2] = "HAS_PERMISSION"
                                       /\ Object(t) = Object(q)
                                       /\ edge[t] \in AllowedLevels[q[2]]
                                       /\ Reaches(Subject(q), Subject(t))
<1> DEFINE Linked == \E n \in 0..(Cardinality(Entity) - 1) : \E p \in [1..(n + 1) -> Entity] :
                       /\ Chain(Subject(q), p, n)
                       /\ \E t \in Tuple : /\ t = <<p[n + 1], "HAS_PERMISSION", Object(q)>>
                                           /\ edge[t] \in Level
                                           /\ Rank[edge[t]] >= Rank[q[2]]
<1>2. ASSUME Granted PROVE Linked
  <2>1. PICK t \in Tuple : /\ t[2] = "HAS_PERMISSION"
                           /\ Object(t) = Object(q)
                           /\ edge[t] \in AllowedLevels[q[2]]
                           /\ Reaches(Subject(q), Subject(t))
    BY <1>2
  <2>2. t = <<t[1], t[2], t[3]>> /\ t[1] \in Entity
    BY TupleAssumption
  <2>3. PICK n \in 0..(Cardinality(Entity) - 1) :
          \E p \in Path(n) : Chain(q[1], p, n) /\ p[n + 1] = t[1]
    BY <1>1, <2>1, <2>2, ReachesChain DEF Subject
  <2>4. PICK p \in Path(n) : Chain(q[1], p, n) /\ p[n + 1] = t[1]
    BY <2>3
  <2>5. t = <<p[n + 1], "HAS_PERMISSION", Object(q)>>
    BY <2>1, <2>2, <2>4 DEF Object
  <2>6. edge[t] \in Level /\ Rank[edge[t]] >= Rank[q[2]]
    BY <1>1, <2>1, LevelsAreRanked
  <2> QED BY <2>4, <2>5, <2>6 DEF Path, Subject
<1>3. ASSUME Linked PROVE Granted
  <2>1. PICK n \in 0..(Cardinality(Entity) - 1) : \E p \in [1..(n + 1) -> Entity] :
          /\ Chain(Subject(q), p, n)
          /\ \E t \in Tuple : /\ t = <<p[n + 1], "HAS_PERMISSION", Object(q)>>
                              /\ edge[t] \in Level
                              /\ Rank[edge[t]] >= Rank[q[2]]
    BY <1>3
  <2>2. PICK p \in Path(n) : 
          /\ Chain(Subject(q), p, n)
          /\ \E t \in Tuple : /\ t = <<p[n + 1], "HAS_PERMISSION", Object(q)>>
                              /\ edge[t] \in Level
                              /\ Rank[edge[t]] >= Rank[q[2]]
    BY <2>1 DEF Path
  <2>3. PICK t \in Tuple : /\ t = <<p[n + 1], "HAS_PERMISSION", Object(q)>>
                           /\ edge[t] \in Level
                           /\ Rank[edge[t]] >= Rank[q[2]]
    BY <2>2
  <2>4. n \in Nat
    BY EntityAssumption, FS_CardinalityType
  <2>5. Reaches(Subject(q), Subject(t))
    BY <1>1, <2>2, <2>3, <2>4, ChainReaches DEF Subject
  <2>6. edge[t] \in AllowedLevels[q[2]]
    BY <1>1, <2>3, LevelsAreRanked
  <2> QED BY <2>3, <2>5, <2>6 DEF Object
<1>4. (\E rel \in PermissionRules[q[2]] : <<Subject(q), rel, Object(q)>> \in Legacy)
      <=> \/ <<Subject(q), "OWNER_OF", Object(q)>> \in Legacy
          \/ q[2] = "read" /\ <<Subject(q), "VIEWER", Object(q)>> \in Legacy
  <2>1. PermissionRules[q[2]] = IF q[2] = "read" THEN {"VIEWER", "OWNER_OF"} ELSE {"OWNER_OF"}
    BY <1>1 DEF PermissionRules
  <2> QED BY <2>1
<1>5. Granted <=> Linked
  BY <1>2, <1>3
<1> QED BY <1>4, <1>5 DEF Decision, Entitled

-----------------------------------------------------------------------------
(* What the cache and a worker hold.                                       *)
Answer == {"none", "allow", "deny"}

GraphOK ==
  /\ edge \in [Tuple -> Level \cup {"plain", "absent"}]
  /\ topic \subseteq Event

CacheOK ==
  /\ cached \in [Query -> Answer]
  /\ ttl \in [Query -> 0..TTL]
  /\ cause \in [Query -> Cause]

WriterOK ==
  /\ wpc \in [Writer -> {"idle", "stored"}]
  /\ wev \in [Writer -> TupleEvent \cup {None}]
  /\ \A w \in Writer : wpc[w] = "stored" => wev[w] \in TupleEvent

WorkerOK ==
  /\ cpc \in [Worker -> {"idle", "get", "graph", "set", "emit"}]
  /\ cq \in [Worker -> Query \cup {None}]
  /\ cval \in [Worker -> Answer]
  /\ \A c \in Worker : cpc[c] # "idle" => cq[c] \in Query

ConsumerOK ==
  /\ kpc \in {"poll", "scan1", "del1", "scan2", "del2", "down"}
  /\ kev \in TupleEvent \cup {None}
  /\ kpc \in {"scan1", "del1", "scan2", "del2"} => kev \in TupleEvent
  /\ kkeys \subseteq Query

TypeOK == GraphOK /\ CacheOK /\ WriterOK /\ WorkerOK /\ ConsumerOK

(* The keys in hand are those of the last scan: about the object of the    *)
(* event, and gone once they are deleted.                                  *)
ScanInv ==
  /\ \A q \in kkeys : Object(q) = Object(kev[2])
  /\ kpc \notin {"del1", "del2"} => kkeys = {}

Inv == TypeOK /\ ScanInv /\ StaleIsExplained

LEMMA DecisionType == \A q \in Query : Decision(q) \in {"allow", "deny"}
  BY DEF Decision

(* Only a change of the graph changes a decision.                          *)
LEMMA DecisionFrame ==
  ASSUME UNCHANGED edge, NEW q \in Query
  PROVE  Decision(q)' = Decision(q)
<1>1. \A x, y : MemberOf(x, y)' <=> MemberOf(x, y)
  BY DEF MemberOf
<1>2. \A x, y : Reaches(x, y)' <=> Reaches(x, y)
  BY <1>1 DEF Reaches
<1> QED BY <1>2 DEF Decision

LEMMA StaleFrame ==
  ASSUME UNCHANGED edge, NEW q \in Query, cached'[q] = cached[q]
  PROVE  Stale(q)' <=> Stale(q)
  BY DecisionFrame DEF Stale

LEMMA EventType ==
  ASSUME NEW e \in Event, e[1] # "access"
  PROVE  e \in TupleEvent
  BY DEF Event, TupleEvent

LEMMA InitInv == Init => Inv
<1> SUFFICES ASSUME Init PROVE Inv
  OBVIOUS
<1> USE DEF Init
<1>1. GraphOK
  BY DEF GraphOK
<1>2. CacheOK
  BY TTLAssumption DEF CacheOK, Answer, Cause
<1>3. WriterOK /\ WorkerOK /\ ConsumerOK
  BY DEF WriterOK, WorkerOK, ConsumerOK, Answer
<1>4. ScanInv /\ StaleIsExplained
  BY DEF ScanInv, StaleIsExplained, Stale
<1> QED BY <1>1, <1>2, <1>3, <1>4 DEF Inv, TypeOK

(* Both writing RPCs are a Store of some tuple.                            *)
LEMMA StoreEffect ==
  ASSUME NEW w \in Writer, WriteTuple(w) \/ DeleteTuple(w)
  PROVE  \E t \in Tuple, v \in Level \cup {"plain", "absent"},
             type \in {"tuple_written", "tuple_removed"} :
           wpc[w] = "idle" /\ Store(w, t, v, type)
<1>1. CASE WriteTuple(w)
  BY <1>1, LevelAssumption DEF WriteTuple
<1>2. CASE DeleteTuple(w)
  BY <1>2 DEF DeleteTuple
<1> QED BY <1>1, <1>2

LEMMA TypeNext == TypeOK /\ [Next]_vars => TypeOK'
<1> SUFFICES ASSUME TypeOK, [Next]_vars PROVE TypeOK'
  OBVIOUS
<1> USE DEF TypeOK
<1>g. ASSUME UNCHANGED <<edge, topic>> PROVE GraphOK'
  BY <1>g DEF GraphOK
<1>c. ASSUME UNCHANGED <<cached, ttl, cause>> PROVE CacheOK'
  BY <1>c DEF CacheOK
<1>w. ASSUME UNCHANGED <<wpc, wev>> PROVE WriterOK'
  BY <1>w DEF WriterOK
<1>k. ASSUME UNCHANGED <<cpc, cq, cval>> PROVE WorkerOK'
  BY <1>k DEF WorkerOK
<1>o. ASSUME UNCHANGED <<kpc, kev, kkeys>> PROVE ConsumerOK'
  BY <1>o DEF ConsumerOK
<1>l. ASSUME NEW o, LoseEvent(o), UNCHANGED <<cached, ttl>> PROVE CacheOK'
  BY <1>l DEF LoseEvent, CacheOK, Cause
<1>1. ASSUME NEW w \in Writer, WriteTuple(w) \/ DeleteTuple(w) PROVE TypeOK'
  <2>1. PICK t \in Tuple, v \in Level \cup {"plain", "absent"},
             type \in {"tuple_written", "tuple_removed"} :
           wpc[w] = "idle" /\ Store(w, t, v, type)
    BY <1>1, StoreEffect
  <2>2. GraphOK'
    BY <2>1 DEF Store, GraphOK
  <2>3. CacheOK'
    <3>1. UNCHANGED <<cached, ttl>>
      BY <2>1 DEF Store
    <3>2. \A q \in Query : cause[q] \in Cause
      BY DEF CacheOK
    <3>3. cause' \in [Query -> Cause]
      BY <2>1, <3>2 DEF Store, Cause
    <3> QED BY <3>1, <3>3 DEF CacheOK
  <2>4. WriterOK'
    <3>1. <<type, t>> \in TupleEvent
      BY DEF TupleEvent
    <3> QED BY <2>1, <3>1 DEF Store, WriterOK
  <2>5. WorkerOK' /\ ConsumerOK'
    BY <2>1, <1>k, <1>o DEF Store, worker, consumer
  <2> QED BY <2>2, <2>3, <2>4, <2>5
<1>2. ASSUME NEW w \in Writer, SendTupleEvent(w) PROVE TypeOK'
  <2>1. GraphOK'
    BY <1>2 DEF SendTupleEvent, WriterDone, GraphOK, WriterOK, Event
  <2>2. WriterOK'
    BY <1>2 DEF SendTupleEvent, WriterDone, WriterOK
  <2> QED BY <1>2, <2>1, <2>2, <1>c, <1>k, <1>o DEF SendTupleEvent, redis, worker, consumer
<1>3. ASSUME NEW w \in Writer, SendFail(w) PROVE TypeOK'
  <2>1. WriterOK'
    BY <1>3 DEF SendFail, WriterDone, WriterOK
  <2>2. CacheOK'
    BY <1>3, <1>l DEF SendFail
  <2> QED BY <1>3, <2>1, <2>2, <1>g, <1>k, <1>o DEF SendFail, worker, consumer
<1>4. ASSUME NEW c \in Worker, Check(c) PROVE TypeOK'
  <2>1. WorkerOK'
    BY <1>4 DEF Check, Goto, WorkerOK
  <2> QED BY <1>4, <2>1, <1>g, <1>c, <1>w, <1>o DEF Check, redis, writer, consumer
<1>5. ASSUME NEW c \in Worker, CacheGet(c) PROVE TypeOK'
  <2>1. cached[cq[c]] \in Answer
    BY <1>5 DEF CacheGet, WorkerOK, CacheOK
  <2>2. WorkerOK'
    BY <1>5, <2>1 DEF CacheGet, Goto, WorkerOK
  <2> QED BY <1>5, <2>2, <1>g, <1>c, <1>w, <1>o DEF CacheGet, redis, writer, consumer
<1>6. ASSUME NEW c \in Worker, GraphCheck(c) PROVE TypeOK'
  <2>1. Decision(cq[c]) \in Answer
    BY <1>6, DecisionType DEF GraphCheck, WorkerOK, Answer
  <2>2. WorkerOK'
    BY <1>6, <2>1 DEF GraphCheck, Goto, WorkerOK
  <2> QED BY <1>6, <2>2, <1>g, <1>c, <1>w, <1>o DEF GraphCheck, redis, writer, consumer
<1>7. ASSUME NEW c \in Worker, CacheSet(c) PROVE TypeOK'
  <2>1. WorkerOK'
    BY <1>7 DEF CacheSet, Goto, WorkerOK
  <2>2. CacheOK'
    <3>1. cval[c] \in Answer
      BY DEF WorkerOK
    <3>2. TTL \in 0..TTL
      BY TTLAssumption
    <3>3. cached' \in [Query -> Answer]
      BY <1>7, <3>1 DEF CacheSet, CacheOK
    <3>4. ttl' \in [Query -> 0..TTL]
      BY <1>7, <3>2 DEF CacheSet, CacheOK
    <3>5. cause' \in [Query -> Cause]
      BY <1>7 DEF CacheSet, CacheOK, Cause
    <3> QED BY <3>3, <3>4, <3>5 DEF CacheOK
  <2> QED BY <1>7, <2>1, <2>2, <1>g, <1>w, <1>o DEF CacheSet, writer, consumer
<1>8. ASSUME NEW c \in Worker, SendDecisionEvent(c) PROVE TypeOK'
  <2>1. GraphOK'
    <3>1. <<"access", cq[c]>> \in Event
      BY <1>8 DEF SendDecisionEvent, WorkerOK, Event
    <3> QED BY <1>8, <3>1 DEF SendDecisionEvent, GraphOK
  <2>2. WorkerOK'
    BY <1>8 DEF SendDecisionEvent, WorkerDone, Goto, WorkerOK, Answer
  <2> QED BY <1>8, <2>1, <2>2, <1>c, <1>w, <1>o DEF SendDecisionEvent, redis, writer, consumer
<1>9. ASSUME NEW c \in Worker, CheckFail(c) PROVE TypeOK'
  <2>1. WorkerOK'
    BY <1>9 DEF CheckFail, WorkerDone, Goto, WorkerOK, Answer
  <2> QED BY <1>9, <2>1, <1>g, <1>c, <1>w, <1>o DEF CheckFail, redis, writer, consumer
<1>10. CASE Tick
  <2>1. CacheOK'
    <3>1. cached' \in [Query -> Answer] /\ cause' \in [Query -> Cause]
      BY <1>10 DEF Tick, CacheOK, Answer, Cause
    <3>2. ttl' \in [Query -> 0..TTL]
      BY <1>10, TTLAssumption DEF Tick, CacheOK
    <3> QED BY <3>1, <3>2 DEF CacheOK
  <2> QED BY <1>10, <2>1, <1>g, <1>w, <1>k, <1>o DEF Tick, writer, worker, consumer
<1>11. CASE Poll
  <2>1. PICK e \in topic :
       /\ topic' \in {topic, topic \ {e}}
       /\ IF e[1] \in {"tuple_written", "tuple_removed"}
            THEN kev' = e /\ kpc' = "scan1"
            ELSE UNCHANGED <<kev, kpc>>
    BY <1>11 DEF Poll
  <2>2. GraphOK'
    BY <1>11, <2>1 DEF Poll, GraphOK
  <2>3. ConsumerOK'
    <3>1. e[1] \in {"tuple_written", "tuple_removed"} => e \in TupleEvent
      BY EventType DEF GraphOK
    <3>2. UNCHANGED kkeys
      BY <1>11 DEF Poll
    <3> QED BY <2>1, <3>1, <3>2 DEF ConsumerOK
  <2> QED BY <1>11, <2>2, <2>3, <1>c, <1>w, <1>k DEF Poll, redis, writer, worker
<1>12. CASE Scan
  <2>1. ConsumerOK'
    BY <1>12 DEF Scan, ConsumerOK
  <2>2. CacheOK'
    BY <1>12 DEF Scan, CacheOK, Cause
  <2> QED BY <1>12, <2>1, <2>2, <1>g, <1>w, <1>k DEF Scan, writer, worker
<1>13. CASE DeleteKeys
  <2>1. ConsumerOK'
    BY <1>13 DEF DeleteKeys, ConsumerOK
  <2>2. CacheOK'
    BY <1>13, TTLAssumption DEF DeleteKeys, CacheOK, Cause, Answer
  <2> QED BY <1>13, <2>1, <2>2, <1>g, <1>w, <1>k DEF DeleteKeys, writer, worker
<1>14. CASE ConsumerFail
  <2>1. ConsumerOK'
    BY <1>14 DEF ConsumerFail, ConsumerOK
  <2>2. GraphOK'
    BY <1>14 DEF ConsumerFail, GraphOK, ConsumerOK, Event
  <2>3. CacheOK'
    BY <1>14, <1>c, <1>l DEF ConsumerFail
  <2> QED BY <1>14, <2>1, <2>2, <2>3, <1>w, <1>k DEF ConsumerFail, writer, worker
<1>15. CASE ConsumerRestart
  <2>1. ConsumerOK'
    BY <1>15 DEF ConsumerRestart, ConsumerOK
  <2> QED BY <1>15, <2>1, <1>g, <1>c, <1>w, <1>k DEF ConsumerRestart, redis, writer, worker
<1>16. CASE UNCHANGED vars
  BY <1>16, <1>g, <1>c, <1>w, <1>k, <1>o DEF vars, redis, writer, worker, consumer
<1> QED
  BY <1>1, <1>2, <1>3, <1>4, <1>5, <1>6, <1>7, <1>8, <1>9, <1>10, <1>11, <1>12, <1>13, <1>14,
     <1>15, <1>16 DEF Next, WriterNext, WorkerNext, ConsumerNext

LEMMA ScanNext == TypeOK /\ ScanInv /\ [Next]_vars => ScanInv'
<1> SUFFICES ASSUME TypeOK, ScanInv, [Next]_vars PROVE ScanInv'
  OBVIOUS
<1>1. ASSUME UNCHANGED <<kpc, kev, kkeys>> PROVE ScanInv'
  BY <1>1 DEF ScanInv
<1>2. ASSUME NEW w \in Writer, WriterNext(w) PROVE ScanInv'
  BY <1>1, <1>2, StoreEffect DEF WriterNext, Store, SendTupleEvent, SendFail, consumer
<1>3. ASSUME NEW c \in Worker, WorkerNext(c) PROVE ScanInv'
  BY <1>1, <1>3 DEF WorkerNext, Check, CacheGet, GraphCheck, CacheSet, SendDecisionEvent, CheckFail,
                    consumer
<1>4. CASE Tick \/ UNCHANGED vars
  BY <1>1, <1>4 DEF Tick, vars, consumer
<1>5. CASE DeleteKeys \/ ConsumerFail
  <2>1. kkeys' = {}
    BY <1>5 DEF DeleteKeys, ConsumerFail
  <2> QED BY <2>1 DEF ScanInv
<1>6. CASE Scan
  BY <1>6 DEF Scan, Matches, ScanInv
<1>7. CASE Poll \/ ConsumerRestart
  <2>1. kkeys' = {}
    BY <1>7 DEF Poll, ConsumerRestart, ScanInv
  <2> QED BY <2>1 DEF ScanInv
<1> QED
  BY <1>2, <1>3, <1>4, <1>5, <1>6, <1>7 DEF Next, ConsumerNext

(* The three places an event about a query's object can be in. *)
OnTopic(q) == \E e \in topic : e[1] # "access" /\ Object(e[2]) = Object(q)
AtWriter(q) == \E w \in Writer : wpc[w] = "stored" /\ Object(wev[w][2]) = Object(q)
AtConsumer(q) ==
  \/ kpc \in {"scan1", "del1", "scan2"} /\ Object(kev[2]) = Object(q)
  \/ kpc = "del2" /\ q \in kkeys

LEMMA AnnouncedParts ==
  ASSUME NEW q
  PROVE  Announced(q) <=> OnTopic(q) \/ AtWriter(q) \/ AtConsumer(q)
  BY DEF Announced, OnTopic, AtWriter, AtConsumer

LEMMA AnnouncedPartsNext ==
  ASSUME NEW q
  PROVE  Announced(q)' <=> OnTopic(q)' \/ AtWriter(q)' \/ AtConsumer(q)'
  BY DEF Announced, OnTopic, AtWriter, AtConsumer

(* One step per action: what loses an event leaves a cause, what moves one *)
(* keeps it announced.                                                     *)
LEMMA StaleNext == Inv /\ [Next]_vars => StaleIsExplained'
<1> SUFFICES ASSUME Inv, [Next]_vars, NEW q \in Query, Stale(q)', cause'[q] = "none"
             PROVE  Announced(q)'
  BY DEF StaleIsExplained
<1>0. /\ TypeOK /\ ScanInv
      /\ Stale(q) /\ cause[q] = "none" => OnTopic(q) \/ AtWriter(q) \/ AtConsumer(q)
  BY AnnouncedParts DEF Inv, StaleIsExplained
<1>n. Announced(q)' <=> OnTopic(q)' \/ AtWriter(q)' \/ AtConsumer(q)'
  BY AnnouncedPartsNext
<1>t. ASSUME topic \subseteq topic', OnTopic(q) PROVE OnTopic(q)'
  BY <1>t DEF OnTopic
<1>w. ASSUME UNCHANGED <<wpc, wev>>, AtWriter(q) PROVE AtWriter(q)'
  BY <1>w DEF AtWriter
<1>c. ASSUME UNCHANGED <<kpc, kev, kkeys>>, AtConsumer(q) PROVE AtConsumer(q)'
  BY <1>c DEF AtConsumer
<1>a. ASSUME topic \subseteq topic', UNCHANGED <<wpc, wev, kpc, kev, kkeys>>,
             Stale(q), cause[q] = "none"
      PROVE  Announced(q)'
  BY <1>a, <1>0, <1>n, <1>t, <1>w, <1>c
<1>l. ASSUME NEW o, LoseEvent(o), UNCHANGED <<edge, cached>>
      PROVE  Stale(q) /\ cause[q] = "none" /\ Object(q) # o
  <2>1. Stale(q)
    BY <1>l, StaleFrame
  <2>2. Object(q) # o
    BY <1>l, <2>1 DEF LoseEvent
  <2> QED BY <1>l, <2>1, <2>2 DEF LoseEvent
<1>1. ASSUME NEW w \in Writer, WriteTuple(w) \/ DeleteTuple(w) PROVE Announced(q)'
  <2>1. PICK t \in Tuple, v \in Level \cup {"plain", "absent"},
             type \in {"tuple_written", "tuple_removed"} :
           wpc[w] = "idle" /\ Store(w, t, v, type)
    BY <1>1, StoreEffect
  <2>2. /\ UNCHANGED <<topic, kpc, kev, kkeys>>
        /\ \A x \in Writer \ {w} : wpc'[x] = wpc[x] /\ wev'[x] = wev[x]
        /\ wpc'[w] = "stored" /\ wev'[w] = <<type, t>>
    BY <2>1, <1>0 DEF Store, consumer, TypeOK, WriterOK
  <2>3. CASE Stale(q)
    <3>1. cause[q] = "none"
      <4>1. cause'[q] = IF ~Stale(q)' THEN "none"
                        ELSE IF ~Stale(q) /\ Object(q) # Object(t) THEN "group"
                        ELSE cause[q]
        BY <2>1 DEF Store
      <4> QED BY <4>1, <2>3
    <3>2. AtWriter(q) => AtWriter(q)'
      BY <2>1, <2>2 DEF AtWriter
    <3> QED BY <2>2, <2>3, <3>1, <3>2, <1>0, <1>n, <1>t, <1>c
  <2>4. CASE ~Stale(q)
    <3>1. Object(q) = Object(t)
      <4>1. cause'[q] = IF ~Stale(q)' THEN "none"
                        ELSE IF ~Stale(q) /\ Object(q) # Object(t) THEN "group"
                        ELSE cause[q]
        BY <2>1 DEF Store
      <4> QED BY <4>1, <2>4
    <3>2. AtWriter(q)'
      BY <2>2, <3>1 DEF AtWriter
    <3> QED BY <3>2, <1>n
  <2> QED BY <2>3, <2>4
<1>2. ASSUME NEW w \in Writer, SendTupleEvent(w) PROVE Announced(q)'
  <2>1. /\ wpc[w] = "stored" /\ topic' = topic \cup {wev[w]}
        /\ \A x \in Writer \ {w} : wpc'[x] = wpc[x] /\ wev'[x] = wev[x]
        /\ UNCHANGED <<edge, cached, cause, kpc, kev, kkeys>>
    BY <1>2, <1>0 DEF SendTupleEvent, WriterDone, redis, consumer, TypeOK, WriterOK
  <2>2. Stale(q) /\ cause[q] = "none"
    BY <2>1, StaleFrame
  <2>3. wev[w][1] # "access"
    BY <1>0, <2>1 DEF TypeOK, WriterOK, TupleEvent
  <2>4. AtWriter(q) => AtWriter(q)' \/ OnTopic(q)'
    BY <2>1, <2>3 DEF AtWriter, OnTopic
  <2> QED BY <2>1, <2>2, <2>4, <1>0, <1>n, <1>t, <1>c
<1>3. ASSUME NEW w \in Writer, SendFail(w) PROVE Announced(q)'
  <2>1. /\ wpc[w] = "stored" /\ UNCHANGED <<edge, cached, topic, kpc, kev, kkeys>>
        /\ \A x \in Writer \ {w} : wpc'[x] = wpc[x] /\ wev'[x] = wev[x]
        /\ LoseEvent(Object(wev[w][2]))
    BY <1>3, <1>0 DEF SendFail, WriterDone, consumer, TypeOK, WriterOK
  <2>2. Stale(q) /\ cause[q] = "none" /\ Object(q) # Object(wev[w][2])
    BY <2>1, <1>l
  <2>3. AtWriter(q) => AtWriter(q)'
    BY <2>1, <2>2 DEF AtWriter
  <2> QED BY <2>1, <2>2, <2>3, <1>0, <1>n, <1>t, <1>c
<1>4. ASSUME NEW c \in Worker,
             \/ Check(c) \/ CacheGet(c) \/ GraphCheck(c) \/ SendDecisionEvent(c) \/ CheckFail(c)
      PROVE  Announced(q)'
  <2>1. UNCHANGED <<edge, cached, cause, wpc, wev, kpc, kev, kkeys>> /\ topic \subseteq topic'
    BY <1>4 DEF Check, CacheGet, GraphCheck, SendDecisionEvent, CheckFail, redis, writer, consumer
  <2>2. Stale(q) /\ cause[q] = "none"
    BY <2>1, StaleFrame
  <2> QED BY <2>1, <2>2, <1>a
<1>5. ASSUME NEW c \in Worker, CacheSet(c) PROVE Announced(q)'
  <2>1. /\ UNCHANGED <<edge, topic, wpc, wev, kpc, kev, kkeys>>
        /\ cq[c] \in Query
    BY <1>5, <1>0 DEF CacheSet, writer, consumer, TypeOK, WorkerOK
  <2>2. /\ cached' = [cached EXCEPT ![cq[c]] = cval[c]]
        /\ cause' = [cause EXCEPT ![cq[c]] = IF cval[c] = Decision(cq[c]) THEN "none" ELSE "late"]
    BY <1>5 DEF CacheSet
  <2>3. q # cq[c]
    <3> SUFFICES ASSUME q = cq[c] PROVE FALSE
      OBVIOUS
    <3>1. cached'[q] = cval[c]
      BY <2>2, <1>0 DEF TypeOK, CacheOK
    <3>2. cval[c] = Decision(q)
      BY <2>2, <1>0 DEF TypeOK, CacheOK
    <3>3. Decision(q)' = Decision(q)
      BY <2>1, DecisionFrame
    <3> QED BY <3>1, <3>2, <3>3 DEF Stale
  <2>4. cached'[q] = cached[q] /\ cause'[q] = cause[q]
    BY <2>2, <2>3, <1>0 DEF TypeOK, CacheOK
  <2>5. Stale(q) /\ cause[q] = "none"
    BY <2>1, <2>4, StaleFrame
  <2> QED BY <2>1, <2>5, <1>a
<1>6. CASE Tick
  <2>1. UNCHANGED <<edge, topic, wpc, wev, kpc, kev, kkeys>>
    BY <1>6 DEF Tick, writer, worker, consumer
  <2>2. ttl[q] > 1
    <3> SUFFICES ASSUME ~(ttl[q] > 1) PROVE FALSE
      OBVIOUS
    <3>1. cached'[q] = "none"
      BY <1>6 DEF Tick
    <3> QED BY <3>1 DEF Stale
  <2>3. cached'[q] = cached[q] /\ cause'[q] = cause[q]
    BY <1>6, <2>2 DEF Tick
  <2>4. Stale(q) /\ cause[q] = "none"
    BY <2>1, <2>3, StaleFrame
  <2> QED BY <2>1, <2>4, <1>a
<1>7. CASE Poll
  <2>1. PICK e \in topic :
       /\ topic' \in {topic, topic \ {e}}
       /\ IF e[1] \in {"tuple_written", "tuple_removed"}
            THEN kev' = e /\ kpc' = "scan1"
            ELSE UNCHANGED <<kev, kpc>>
    BY <1>7 DEF Poll
  <2>2. kpc = "poll" /\ UNCHANGED <<edge, cached, cause, wpc, wev>>
    BY <1>7 DEF Poll, redis, writer
  <2>3. Stale(q) /\ cause[q] = "none"
    BY <2>2, StaleFrame
  <2>4. ~AtConsumer(q)
    BY <2>2 DEF AtConsumer
  <2>5. ASSUME OnTopic(q) PROVE OnTopic(q)' \/ AtConsumer(q)'
    <3>1. PICK f \in topic : f[1] # "access" /\ Object(f[2]) = Object(q)
      BY <2>5 DEF OnTopic
    <3>2. CASE f # e
      <4>1. f \in topic'
        BY <2>1, <3>2
      <4> QED BY <3>1, <4>1 DEF OnTopic
    <3>3. CASE f = e
      <4>1. e \in Event
        BY <1>0 DEF TypeOK, GraphOK
      <4>2. e[1] \in {"tuple_written", "tuple_removed"}
        BY <3>1, <3>3, <4>1, EventType DEF TupleEvent
      <4> QED BY <2>1, <3>1, <3>3, <4>2 DEF AtConsumer
    <3> QED BY <3>2, <3>3
  <2> QED BY <2>2, <2>3, <2>4, <2>5, <1>0, <1>n, <1>w
<1>8. CASE Scan
  <2>1. PICK hint \in {1, 2} :
    /\ kpc = IF hint = 1 THEN "scan1" ELSE "scan2"
    /\ kkeys' = {x \in Query : Matches(x, hint)}
    /\ kpc' = IF hint = 1 THEN "del1" ELSE "del2"
    /\ cause'[q] = IF /\ hint = 2 /\ Stale(q)
                      /\ Object(q) = Object(kev[2])
                      /\ ~Matches(q, hint)
                   THEN "glob" ELSE cause[q]
    /\ UNCHANGED <<edge, cached, ttl, topic, writer, worker, kev>>
    BY <1>8 DEF Scan
  <2>2. UNCHANGED <<wpc, wev>>
    BY <2>1 DEF writer
  <2>3. Stale(q)
    BY <2>1, StaleFrame
  <2>4. cause[q] = "none"
    BY <2>1
  <2>5. AtConsumer(q) => AtConsumer(q)'
    <3>1. CASE hint = 1
      BY <2>1, <3>1 DEF AtConsumer
    <3>2. CASE hint = 2
      <4>1. AtConsumer(q) => Object(q) = Object(kev[2])
        BY <2>1, <3>2 DEF AtConsumer
      <4>2. Object(q) = Object(kev[2]) => Matches(q, hint)
        BY <2>1, <2>3, <3>2
      <4> QED BY <2>1, <3>2, <4>1, <4>2 DEF AtConsumer
    <3> QED BY <3>1, <3>2
  <2> QED BY <2>1, <2>2, <2>3, <2>4, <2>5, <1>0, <1>n, <1>t, <1>w
<1>9. CASE DeleteKeys
  <2>1. UNCHANGED <<edge, topic, wpc, wev>>
    BY <1>9 DEF DeleteKeys, writer
  <2>2. q \notin kkeys
    <3> SUFFICES ASSUME q \in kkeys PROVE FALSE
      OBVIOUS
    <3>1. cached'[q] = "none"
      BY <1>9 DEF DeleteKeys
    <3> QED BY <3>1 DEF Stale
  <2>3. cached'[q] = cached[q] /\ cause'[q] = cause[q]
    BY <1>9, <2>2 DEF DeleteKeys
  <2>4. Stale(q) /\ cause[q] = "none"
    BY <2>1, <2>3, StaleFrame
  <2>5. AtConsumer(q) => AtConsumer(q)'
    BY <1>9, <2>2 DEF DeleteKeys, AtConsumer
  <2> QED BY <2>1, <2>4, <2>5, <1>0, <1>n, <1>t, <1>w
<1>10. CASE ConsumerFail
  <2>1. /\ UNCHANGED <<edge, cached, wpc, wev>>
        /\ kpc \in {"scan1", "del1", "scan2", "del2"}
    BY <1>10 DEF ConsumerFail, writer
  <2>2. AtConsumer(q) => Object(kev[2]) = Object(q)
    BY <1>0 DEF AtConsumer, ScanInv
  <2>3. CASE LoseEvent(Object(kev[2])) /\ UNCHANGED topic
    <3>1. Stale(q) /\ cause[q] = "none" /\ Object(q) # Object(kev[2])
      BY <2>1, <2>3, <1>l
    <3> QED BY <2>1, <2>2, <2>3, <3>1, <1>0, <1>n, <1>t, <1>w
  <2>4. CASE topic' = topic \cup {kev} /\ UNCHANGED cause
    <3>1. Stale(q) /\ cause[q] = "none"
      BY <2>1, <2>4, StaleFrame
    <3>2. kev[1] # "access"
      BY <1>0, <2>1 DEF TypeOK, ConsumerOK, TupleEvent
    <3>3. AtConsumer(q) => OnTopic(q)'
      BY <2>2, <2>4, <3>2 DEF OnTopic
    <3> QED BY <2>1, <2>4, <3>1, <3>3, <1>0, <1>n, <1>t, <1>w
  <2> QED BY <1>10, <2>3, <2>4 DEF ConsumerFail
<1>11. CASE ConsumerRestart
  <2>1. UNCHANGED <<edge, cached, cause, topic, wpc, wev>> /\ kpc = "down"
    BY <1>11 DEF ConsumerRestart, redis, writer
  <2>2. Stale(q) /\ cause[q] = "none"
    BY <2>1, StaleFrame
  <2>3. ~AtConsumer(q)
    BY <2>1 DEF AtConsumer
  <2> QED BY <2>1, <2>2, <2>3, <1>0, <1>n, <1>t, <1>w
<1>12. CASE UNCHANGED vars
  <2>1. UNCHANGED <<edge, cached, cause, topic, wpc, wev, kpc, kev, kkeys>>
    BY <1>12 DEF vars, redis, writer, consumer
  <2>2. Stale(q) /\ cause[q] = "none"
    BY <2>1, StaleFrame
  <2> QED BY <2>1, <2>2, <1>a
<1> QED
  BY <1>1, <1>2, <1>3, <1>4, <1>5, <1>6, <1>7, <1>8, <1>9, <1>10, <1>11, <1>12
  DEF Next, WriterNext, WorkerNext, ConsumerNext

-----------------------------------------------------------------------------
(* The invariant holds in every state of every behaviour. *)
THEOREM Invariance == Spec => []Inv
<1>1. Inv /\ [Next]_vars => Inv'
  BY TypeNext, ScanNext, StaleNext DEF Inv
<1> QED BY InitInv, <1>1, PTL DEF Spec

(* The graph, the cache, the topic and the three kinds of process keep     *)
(* their types: in particular the consumer holds a tuple event whenever it *)
(* scans or deletes, and a worker has a query whenever it uses one.        *)
THEOREM TypeCorrect == Spec => []TypeOK
<1>1. Inv => TypeOK
  BY DEF Inv
<1> QED BY Invariance, <1>1, PTL

(* The path query of the graph repository, first over MEMBER_OF*0.. and    *)
(* HAS_PERMISSION and then over the legacy relations, grants exactly what  *)
(* a chain of memberships and the order of the levels entitle to, for any  *)
(* finite set of users and groups, also when groups contain each other.    *)
THEOREM DecisionsAreEntitlements == Spec => []DecisionIsEntitlement
BY DecidesEntitlement, PTL

(* A cached decision that contradicts the graph is still to be deleted by  *)
(* an event at a writer, on the topic or in the consumer's hands, unless   *)
(* it is one of the four cases the hints of the events cannot reach.       *)
THEOREM StalenessIsExplained == Spec => []StaleIsExplained
<1>1. Inv => StaleIsExplained
  BY DEF Inv
<1> QED BY Invariance, <1>1, PTL
=============================================================================
