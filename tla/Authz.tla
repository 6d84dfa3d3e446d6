------------------------------- MODULE Authz -------------------------------
(***************************************************************************)
(* The authorization service: relationship tuples in Neo4j, decisions      *)
(* cached in Redis for TTL, tuple events in Kafka, and the separate        *)
(* consumer process that deletes cached decisions.                         *)
(*                                                                         *)
(*   services/authz/entrypoints/server/servicer.py      the RPCs           *)
(*   services/authz/internal/permission/service.py      PermissionService  *)
(*   services/authz/internal/repositories/neo4j         tuples and paths   *)
(*   services/authz/internal/repositories/{cache,kafka} cache, events      *)
(*                                                                         *)
(* A worker serves one Check after another, a writer one WriteTuple or     *)
(* DeleteTuple after another; every call of a database, of the cache or of *)
(* Kafka is a step of its own.  Redis counts the TTL of an entry down with *)
(* Tick.  `cause' is a history variable: why a cached decision may differ  *)
(* from the graph although no event about it is under way.                 *)
(***************************************************************************)
EXTENDS Naturals, FiniteSets

CONSTANTS Worker, Writer,
          Entity,     \* ids of users and groups
          Resource,   \* ids of buckets and objects
          Tuple,      \* the tuples clients write: <<subject, relation, object>>
          Query,      \* the decisions clients ask: <<subject, action, object>>
          WriteLevel, \* the levels clients write
          Legacy,     \* OWNER_OF and VIEWER edges, which no RPC writes
          Globbed,    \* objects whose id as a glob pattern does not match itself
          TTL,        \* ticks a decision is cached for
          MaxTopic,   \* bound: events in Kafka
          None

Level == {"read", "write", "create", "delete", "admin"}
Relation == {"MEMBER_OF", "HAS_PERMISSION", "PARENT_OF"}

ASSUME EntityAssumption == IsFiniteSet(Entity)
ASSUME TupleAssumption == Tuple \subseteq Entity \X Relation \X (Entity \cup Resource)
ASSUME QueryAssumption == Query \subseteq Entity \X Level \X Resource
ASSUME LevelAssumption == WriteLevel \subseteq Level
ASSUME LegacyAssumption == Legacy \subseteq Entity \X {"OWNER_OF", "VIEWER"} \X Resource
ASSUME TTLAssumption == TTL \in Nat \ {0}
ASSUME NoneAssumption == None \notin Query

VARIABLES
  edge,          \* Neo4j: the level of a tuple, "plain", or "absent"
  cached,        \* Redis: the decision kept for a query, or "none"
  ttl,           \* Redis: what is left of its time
  topic,         \* Kafka: events not yet consumed
  wpc, wev,      \* writer: where it is, the event it has to send
  cpc, cq, cval, \* worker: where it is, its query, its decision
  kpc, kev,      \* consumer: where it is, the event in hand
  kkeys,         \* consumer: the keys of its scan
  cause          \* history

redis    == <<cached, ttl, cause>>
writer   == <<wpc, wev>>
worker   == <<cpc, cq, cval>>
consumer == <<kpc, kev, kkeys>>
vars     == <<edge, redis, topic, writer, worker, consumer>>

TupleEvent == {"tuple_written", "tuple_removed"} \X Tuple
Event == TupleEvent \cup ({"access"} \X Query)
Cause == {"none", "group", "late", "lost", "glob"}
Subject(t) == t[1]
Object(t) == t[3]

-----------------------------------------------------------------------------
(* Decisions of the graph *)

(* The levels that grant an action. *)
AllowedLevels ==
  [read   |-> {"read", "write", "create", "delete", "admin"},
   write  |-> {"write", "create", "delete", "admin"},
   create |-> {"create", "delete", "admin"},
   delete |-> {"delete", "admin"},
   admin  |-> {"admin"}]

(* The direct relations that grant an action. *)
PermissionRules ==
  [a \in Level |-> IF a = "read" THEN {"VIEWER", "OWNER_OF"} ELSE {"OWNER_OF"}]

MemberOf(x, y) == \E t \in Tuple : t = <<x, "MEMBER_OF", y>> /\ edge[t] # "absent"

(* Mutant of Reaches: groups of groups are not followed. *)
ReachesOneHop(x, y) == x = y \/ MemberOf(x, y)

(* MEMBER_OF*0.. : y is in every set with x that membership does not leave. *)
Reaches(x, y) ==
  \A C \in SUBSET Entity :
     x \in C /\ (\A a \in C, b \in Entity \ C : ~MemberOf(a, b)) => y \in C

(* What the graph decides, first over paths and then over legacy edges. *)
Decision(q) ==
  IF \/ \E t \in Tuple : /\ t[2] = "HAS_PERMISSION"
                         /\ Object(t) = Object(q)
                         /\ edge[t] \in AllowedLevels[q[2]]
                         /\ Reaches(Subject(q), Subject(t))
     \/ \E rel \in PermissionRules[q[2]] : <<Subject(q), rel, Object(q)>> \in Legacy
  THEN "allow" ELSE "deny"

(* A cached decision that the graph no longer gives. *)
Stale(q) == cached[q] # "none" /\ cached[q] # Decision(q)

Init ==
  /\ edge = [t \in Tuple |-> "absent"]
  /\ cached = [q \in Query |-> "none"]
  /\ ttl = [q \in Query |-> 0]
  /\ topic = {}
  /\ wpc = [w \in Writer |-> "idle"]
  /\ wev = [w \in Writer |-> None]
  /\ cpc = [c \in Worker |-> "idle"]
  /\ cq = [c \in Worker |-> None]
  /\ cval = [c \in Worker |-> "none"]
  /\ kpc = "poll"
  /\ kev = None
  /\ kkeys = {}
  /\ cause = [q \in Query |-> "none"]

-----------------------------------------------------------------------------
(* WriteTuple and DeleteTuple *)

(* The event about object o is gone: nothing will delete what was cached   *)
(* before the change it told of.                                           *)
LoseEvent(o) ==
  cause' = [q \in Query |-> IF Stale(q) /\ Object(q) = o THEN "lost" ELSE cause[q]]

(* A change of tuple t: a cached decision about another object that it     *)
(* makes wrong is not covered by the hints of the event.                   *)
Store(w, t, value, type) ==
  /\ edge' = [edge EXCEPT ![t] = value]
  /\ UNCHANGED cached
  /\ wev' = [wev EXCEPT ![w] = <<type, t>>]
  /\ cause' = [q \in Query |->
                 IF ~Stale(q)' THEN "none"
                 ELSE IF ~Stale(q) /\ Object(q) # Object(t) THEN "group"
                 ELSE cause[q]]
  /\ wpc' = [wpc EXCEPT ![w] = "stored"]
  /\ UNCHANGED <<ttl, topic, worker, consumer>>

(* MERGE: one HAS_PERMISSION edge for a subject and an object, its level   *)
(* replaced; other relations carry no level.                               *)
WriteTuple(w) ==
  /\ wpc[w] = "idle"
  /\ \E t \in Tuple :
       IF t[2] = "HAS_PERMISSION"
         THEN \E l \in WriteLevel : Store(w, t, l, "tuple_written")
         ELSE Store(w, t, "plain", "tuple_written")

(* Nothing is changed or sent when there is no such edge. *)
DeleteTuple(w) ==
  /\ wpc[w] = "idle"
  /\ \E t \in Tuple : edge[t] # "absent" /\ Store(w, t, "absent", "tuple_removed")

WriterDone(w) ==
  /\ wpc[w] = "stored"
  /\ wpc' = [wpc EXCEPT ![w] = "idle"]
  /\ wev' = [wev EXCEPT ![w] = None]

SendTupleEvent(w) ==
  /\ WriterDone(w)
  /\ topic' = topic \cup {wev[w]}
  /\ Cardinality(topic') <= MaxTopic
  /\ UNCHANGED <<edge, redis, worker, consumer>>

(* produce raises, the delivery fails and is only logged, or the service   *)
(* dies with the event unsent.                                             *)
SendFail(w) ==
  /\ WriterDone(w)
  /\ LoseEvent(Object(wev[w][2]))
  /\ UNCHANGED <<edge, cached, ttl, topic, worker, consumer>>

-----------------------------------------------------------------------------
(* Check *)

Goto(c, label) == cpc' = [cpc EXCEPT ![c] = label]
WorkerDone(c) ==
  /\ Goto(c, "idle")
  /\ cq' = [cq EXCEPT ![c] = None]
  /\ cval' = [cval EXCEPT ![c] = "none"]

Check(c) ==
  /\ cpc[c] = "idle"
  /\ \E q \in Query : cq' = [cq EXCEPT ![c] = q]
  /\ Goto(c, "get")
  /\ UNCHANGED <<edge, redis, cval, topic, writer, consumer>>

(* Mutant of CacheGet: a hit starts the TTL again. *)
CacheGetSliding(c) ==
  /\ cpc[c] = "get"
  /\ cval' = [cval EXCEPT ![c] = cached[cq[c]]]
  /\ Goto(c, IF cached[cq[c]] = "none" THEN "graph" ELSE "emit")
  /\ ttl' = [ttl EXCEPT ![cq[c]] = IF cached[cq[c]] = "none" THEN 0 ELSE TTL]
  /\ UNCHANGED <<edge, cached, cause, cq, topic, writer, consumer>>

CacheGet(c) ==
  /\ cpc[c] = "get"
  /\ cval' = [cval EXCEPT ![c] = cached[cq[c]]]
  /\ Goto(c, IF cached[cq[c]] = "none" THEN "graph" ELSE "emit")
  /\ UNCHANGED <<edge, redis, cq, topic, writer, consumer>>

GraphCheck(c) ==
  /\ cpc[c] = "graph"
  /\ cval' = [cval EXCEPT ![c] = Decision(cq[c])]
  /\ Goto(c, "set")
  /\ UNCHANGED <<edge, redis, cq, topic, writer, consumer>>

(* The graph may have changed since the decision was read from it. *)
CacheSet(c) ==
  LET q == cq[c] IN
  /\ cpc[c] = "set"
  /\ cached' = [cached EXCEPT ![q] = cval[c]]
  /\ ttl' = [ttl EXCEPT ![q] = TTL]
  /\ cause' = [cause EXCEPT ![q] = IF cval[c] = Decision(q) THEN "none" ELSE "late"]
  /\ Goto(c, "emit")
  /\ UNCHANGED <<edge, cq, cval, topic, writer, consumer>>

(* The audit event of the decision goes to the topic of the tuple events. *)
SendDecisionEvent(c) ==
  /\ cpc[c] = "emit"
  /\ WorkerDone(c)
  /\ topic' = topic \cup {<<"access", cq[c]>>}
  /\ Cardinality(topic') <= MaxTopic
  /\ UNCHANGED <<edge, redis, writer, consumer>>

(* An error of Redis, Neo4j or the producer ends the RPC where it is. *)
CheckFail(c) ==
  /\ cpc[c] # "idle"
  /\ WorkerDone(c)
  /\ UNCHANGED <<edge, redis, topic, writer, consumer>>

-----------------------------------------------------------------------------
(* Redis and the invalidation consumer *)

Tick ==
  /\ \E q \in Query : cached[q] # "none"
  /\ ttl' = [q \in Query |-> IF ttl[q] > 0 THEN ttl[q] - 1 ELSE 0]
  /\ cached' = [q \in Query |-> IF ttl[q] > 1 THEN cached[q] ELSE "none"]
  /\ cause' = [q \in Query |-> IF ttl[q] > 1 THEN cause[q] ELSE "none"]
  /\ UNCHANGED <<edge, topic, writer, worker, consumer>>

(* Mutant of Poll: a changed level is not taken for an invalidation. *)
PollOnlyRemovals ==
  /\ kpc = "poll"
  /\ \E e \in topic :
       /\ topic' \in {topic, topic \ {e}}
       /\ IF e[1] = "tuple_removed"
            THEN kev' = e /\ kpc' = "scan1"
            ELSE UNCHANGED <<kev, kpc>>
  /\ UNCHANGED <<edge, redis, writer, worker, kkeys>>

(* Events have no key and come in any order.  One may come again: an equal *)
(* one is behind it, or its offset was not committed before a restart.     *)
(* Decision events are passed over.                                        *)
Poll ==
  /\ kpc = "poll"
  /\ \E e \in topic :
       /\ topic' \in {topic, topic \ {e}}
       /\ IF e[1] \in {"tuple_written", "tuple_removed"}
            THEN kev' = e /\ kpc' = "scan1"
            ELSE UNCHANGED <<kev, kpc>>
  /\ UNCHANGED <<edge, redis, writer, worker, kkeys>>

(* The cached keys the two hints match: decisions of the tuple's subject   *)
(* about its object, then every decision about its object.                 *)
Matches(q, hint) ==
  /\ cached[q] # "none"
  /\ Object(q) = Object(kev[2])
  /\ Object(q) \notin Globbed
  /\ hint = 1 => Subject(q) = Subject(kev[2])

Scan ==
  \E hint \in {1, 2} :
    /\ kpc = IF hint = 1 THEN "scan1" ELSE "scan2"
    /\ kkeys' = {q \in Query : Matches(q, hint)}
    /\ kpc' = IF hint = 1 THEN "del1" ELSE "del2"
    /\ cause' = [q \in Query |-> IF /\ hint = 2 /\ Stale(q)
                                    /\ Object(q) = Object(kev[2])
                                    /\ ~Matches(q, hint)
                                 THEN "glob" ELSE cause[q]]
    /\ UNCHANGED <<edge, cached, ttl, topic, writer, worker, kev>>

DeleteKeys ==
  /\ kpc \in {"del1", "del2"}
  /\ kpc' = IF kpc = "del1" THEN "scan2" ELSE "poll"
  /\ cached' = [q \in Query |-> IF q \in kkeys THEN "none" ELSE cached[q]]
  /\ ttl' = [q \in Query |-> IF q \in kkeys THEN 0 ELSE ttl[q]]
  /\ cause' = [q \in Query |-> IF q \in kkeys THEN "none" ELSE cause[q]]
  /\ kev' = IF kpc = "del1" THEN kev ELSE None
  /\ kkeys' = {}
  /\ UNCHANGED <<edge, topic, writer, worker>>

(* A Redis error ends run(): close() commits the offset of the event in    *)
(* hand, so it is lost.  A killed consumer may see the event again.        *)
ConsumerFail ==
  /\ kpc \in {"scan1", "del1", "scan2", "del2"}
  /\ \/ LoseEvent(Object(kev[2])) /\ UNCHANGED topic
     \/ /\ topic' = topic \cup {kev} /\ Cardinality(topic') <= MaxTopic
        /\ UNCHANGED cause
  /\ kpc' = "down"
  /\ kev' = None
  /\ kkeys' = {}
  /\ UNCHANGED <<edge, cached, ttl, writer, worker>>

ConsumerRestart ==
  /\ kpc = "down"
  /\ kpc' = "poll"
  /\ UNCHANGED <<edge, redis, topic, writer, worker, kev, kkeys>>

WriterNext(w) == WriteTuple(w) \/ DeleteTuple(w) \/ SendTupleEvent(w) \/ SendFail(w)
WorkerNext(c) == \/ Check(c) \/ CacheGet(c) \/ GraphCheck(c) \/ CacheSet(c)
                 \/ SendDecisionEvent(c) \/ CheckFail(c)
ConsumerNext == Poll \/ Scan \/ DeleteKeys \/ ConsumerFail \/ ConsumerRestart

Next ==
  \/ \E w \in Writer : WriterNext(w)
  \/ \E c \in Worker : WorkerNext(c)
  \/ ConsumerNext
  \/ Tick

Spec == Init /\ [][Next]_vars

(* Only the clock of Redis is fair: nobody has to run the consumer. *)
FairSpec == Spec /\ WF_vars(Tick)

-----------------------------------------------------------------------------
(* Properties *)

(* The reference: some chain of memberships leads from the subject to a    *)
(* holder of a level not below the action, or the subject owns (for        *)
(* reading: views) the object itself.                                      *)
Rank == [read |-> 1, write |-> 2, create |-> 3, delete |-> 4, admin |-> 5]
Chain(s, p, n) == p[1] = s /\ \A i \in 1..n : MemberOf(p[i], p[i + 1])
Entitled(q) ==
  \/ \E n \in 0..(Cardinality(Entity) - 1) : \E p \in [1..(n + 1) -> Entity] :
       /\ Chain(Subject(q), p, n)
       /\ \E t \in Tuple : /\ t = <<p[n + 1], "HAS_PERMISSION", Object(q)>>
                           /\ edge[t] \in Level
                           /\ Rank[edge[t]] >= Rank[q[2]]
  \/ <<Subject(q), "OWNER_OF", Object(q)>> \in Legacy
  \/ q[2] = "read" /\ <<Subject(q), "VIEWER", Object(q)>> \in Legacy

(* The graph query grants exactly what the hierarchy of levels and the     *)
(* chains of memberships entitle to.                                       *)
DecisionIsEntitlement == \A q \in Query : Decision(q) = "allow" <=> Entitled(q)

(* A tuple event about the object that will still delete a cached decision. *)
Announced(q) ==
  \/ \E e \in topic : e[1] # "access" /\ Object(e[2]) = Object(q)
  \/ \E w \in Writer : wpc[w] = "stored" /\ Object(wev[w][2]) = Object(q)
  \/ kpc \in {"scan1", "del1", "scan2"} /\ Object(kev[2]) = Object(q)
  \/ kpc = "del2" /\ q \in kkeys

(* A cached decision that contradicts the graph is about to be deleted, or *)
(* it is one of the four cases the hints cannot reach: a membership        *)
(* changed, the check stored what it had read before the change, the event *)
(* was lost, or the object's id is not its own glob pattern.               *)
StaleIsExplained ==
  \A q \in Query : Stale(q) /\ cause[q] = "none" => Announced(q)

(* Whatever events are lost and however often it is asked for, a decision  *)
(* that contradicts the graph does not stay in the cache.                  *)
StaleExpires == \A q \in Query : Stale(q) ~> ~Stale(q)
=============================================================================
