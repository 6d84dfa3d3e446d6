-------------------------------- MODULE Quota --------------------------------
(***************************************************************************)
(* The quota service: usage and limits in memory, and their copy in Redis. *)
(*                                                                         *)
(*   services/quota/src/service/quota.rs     the operations                *)
(*   services/quota/src/cache/memory.rs      three concurrent hash maps    *)
(*   services/quota/src/repository/redis.rs  HSET, HMGET and DEL           *)
(*                                                                         *)
(* A step is one operation on one map (DashMap locks the shard of the      *)
(* entry) or one Redis command.  CheckQuota and UpdateUsage run without    *)
(* awaiting, so only a crash can stop them half way; SetQuota and          *)
(* DeleteSubject can fail, or be cancelled, at their Redis command.        *)
(*                                                                         *)
(* Clients follow the documented write flow: they ask for positive amounts *)
(* and give back, with UpdateUsage, only what CheckQuota granted them.     *)
(* Amounts stay far below 2^63, so sums do not overflow (UsageIsBounded    *)
(* says for how long).                                                     *)
(***************************************************************************)
EXTENDS Integers, FiniteSets

CONSTANTS Request,      \* the RPCs that may be in progress at a time
          User, Bucket, \* subjects
          Resource,     \* what is counted: bytes, objects, buckets
          Deltas,       \* the amounts clients ask for
          LimitValues,  \* the limits administrators set
          Deletable,    \* the subjects that may be deleted
          Default,      \* the configured default limit of each subject
          MaxGrants,    \* bound on the number of CheckQuota calls in a behaviour
          None

Subject == User \cup Bucket
Amount == [Resource -> Nat]
Limit == [Resource -> Int]
Unlimited == -1

ASSUME RequestAssumption == IsFiniteSet(Request)
ASSUME SubjectAssumption == None \notin Subject /\ User \cap Bucket = {}
ASSUME DeltasAssumption == Deltas \subseteq Amount
ASSUME LimitAssumption == LimitValues \subseteq Limit /\ Default \in [Subject -> Limit]
ASSUME DeletableAssumption == Deletable \subseteq Subject
ASSUME NoneAssumption == None \notin Amount \cup Limit
ASSUME MaxGrantsAssumption == MaxGrants \in Nat

VARIABLES
  usage, limits, dirty,     \* MemoryCache
  redisUsage, redisLimit,   \* the hashes in Redis
  pc,                       \* where each RPC is
  user, bucket, delta,      \* its arguments
  lim,                      \* its snapshot of a limit, or the limit it sets
  flush,                    \* the flush task: "idle", "unmark", "read" or "write"
  keys, todo,               \* the keys it collected; those left in this phase
  snap,                     \* the entries it writes
  grants, held,             \* number of checks so far; reservations clients hold
  ceil,                     \* history: the limits that ever applied to a subject
  lost                      \* history: what has interfered with a subject

cache   == <<usage, limits, dirty>>
redis   == <<redisUsage, redisLimit>>
args    == <<user, bucket, delta, lim>>
flusher == <<flush, keys, todo, snap>>
clients == <<grants, held>>
history == <<ceil, lost>>
vars    == <<cache, redis, pc, args, flusher, clients, history>>

Checking == {"c_reserve", "c_mark", "c_blimit", "c_breserve", "c_bmark",
             "c_undo", "c_umark"}
Label == Checking \cup {"idle", "u_mark", "u_apply", "u_bmark", "s_redis", "g_fill",
                        "x_limits", "x_dirty", "x_redis"}

(* Deleted; the process crashed; its entry could not be read at startup;   *)
(* saving its limit failed.                                                *)
Interference == {"deleted", "crashed", "skipped"}

Receipt == [n : 1..MaxGrants, user : User, bucket : Bucket \cup {None}, delta : Deltas]

Zero == [x \in Resource |-> 0]
ValueOf(entry) == IF entry = None THEN Zero ELSE entry
LimitOf(s) == IF limits[s] = None THEN Default[s] ELSE limits[s]

(* domain/quota.rs, UsageEntry::apply and ResourceDelta::negate *)
Apply(entry, d) ==
  [x \in Resource |-> IF entry[x] + d[x] < 0 THEN 0 ELSE entry[x] + d[x]]
Negate(d) == [x \in Resource |-> -d[x]]

(* Mutant of WouldExceed: the amount asked for is left out of the sum. *)
WouldExceedCurrent(entry, limit, d) ==
  \E x \in Resource :
    limit[x] # Unlimited /\ d[x] > 0 /\ entry[x] > limit[x]

(* cache/memory.rs, would_exceed *)
WouldExceed(entry, limit, d) ==
  \E x \in Resource :
    limit[x] # Unlimited /\ d[x] > 0 /\ entry[x] + d[x] > limit[x]

Goto(r, label) == pc' = [pc EXCEPT ![r] = label]

End(r) ==
  /\ Goto(r, "idle")
  /\ user' = [user EXCEPT ![r] = None]
  /\ bucket' = [bucket EXCEPT ![r] = None]
  /\ delta' = [delta EXCEPT ![r] = Zero]
  /\ lim' = [lim EXCEPT ![r] = None]

Init ==
  /\ usage = [s \in Subject |-> None]
  /\ limits = [s \in Subject |-> None]
  /\ dirty = {}
  /\ redisUsage = usage
  /\ redisLimit = limits
  /\ pc = [r \in Request |-> "idle"]
  /\ user = [r \in Request |-> None]
  /\ bucket = [r \in Request |-> None]
  /\ delta = [r \in Request |-> Zero]
  /\ lim = [r \in Request |-> None]
  /\ flush = "idle"
  /\ keys = {}
  /\ todo = {}
  /\ snap = [s \in Subject |-> None]
  /\ grants = 0
  /\ held = {}
  /\ ceil = [s \in Subject |-> {Default[s]}]
  /\ lost = {}

-----------------------------------------------------------------------------
(* CheckQuota: reserve for the user, then for the bucket, and take the     *)
(* user's reservation back when the bucket's is denied.                    *)

(* Arrival, and the limit read before the entry is locked. *)
CheckStart(r) ==
  /\ pc[r] = "idle" /\ grants < MaxGrants
  /\ \E u \in User, b \in Bucket \cup {None}, d \in Deltas :
       /\ user' = [user EXCEPT ![r] = u]
       /\ bucket' = [bucket EXCEPT ![r] = b]
       /\ delta' = [delta EXCEPT ![r] = d]
       /\ lim' = [lim EXCEPT ![r] = LimitOf(u)]
  /\ grants' = grants + 1
  /\ Goto(r, "c_reserve")
  /\ UNCHANGED <<cache, redis, flusher, held, history>>

(* The entry is checked and changed under its lock; a denied check of an   *)
(* unknown subject leaves an entry of zeros.                               *)
Reserve(r, s) ==
  LET cur == ValueOf(usage[s])
      denied == WouldExceed(cur, lim[r], delta[r])
  IN usage' = [usage EXCEPT ![s] = IF denied THEN cur ELSE Apply(cur, delta[r])]

CheckReserve(r) ==
  /\ pc[r] = "c_reserve"
  /\ Reserve(r, user[r])
  /\ IF WouldExceed(ValueOf(usage[user[r]]), lim[r], delta[r])
       THEN End(r)
       ELSE Goto(r, "c_mark") /\ UNCHANGED args
  /\ UNCHANGED <<limits, dirty, redis, flusher, clients, history>>

(* The client is told, and may later give the reservation back. *)
Grant(r) ==
  \E n \in 1..MaxGrants :
    /\ \A h \in held : h.n # n
    /\ \A m \in 1..(n - 1) : \E h \in held : h.n = m
    /\ held' = held \cup {[n |-> n, user |-> user[r], bucket |-> bucket[r],
                           delta |-> delta[r]]}

CheckMark(r) ==
  /\ pc[r] = "c_mark"
  /\ dirty' = dirty \cup {user[r]}
  /\ IF bucket[r] = None
       THEN Grant(r) /\ End(r)
       ELSE Goto(r, "c_blimit") /\ UNCHANGED <<args, held>>
  /\ UNCHANGED <<usage, limits, redis, flusher, grants, history>>

CheckBucketLimit(r) ==
  /\ pc[r] = "c_blimit"
  /\ lim' = [lim EXCEPT ![r] = LimitOf(bucket[r])]
  /\ Goto(r, "c_breserve")
  /\ UNCHANGED <<cache, redis, user, bucket, delta, flusher, clients, history>>

CheckBucketReserve(r) ==
  /\ pc[r] = "c_breserve"
  /\ Reserve(r, bucket[r])
  /\ Goto(r, IF WouldExceed(ValueOf(usage[bucket[r]]), lim[r], delta[r])
               THEN "c_undo" ELSE "c_bmark")
  /\ UNCHANGED <<limits, dirty, redis, args, flusher, clients, history>>

CheckBucketMark(r) ==
  /\ pc[r] = "c_bmark"
  /\ dirty' = dirty \cup {bucket[r]}
  /\ Grant(r)
  /\ End(r)
  /\ UNCHANGED <<usage, limits, redis, flusher, grants, history>>

(* MemoryCache::update, first the entry *)
Update(s, d) == usage' = [usage EXCEPT ![s] = Apply(ValueOf(@), d)]

(* Mutant of CheckUndo: the reservation of the user is kept. *)
CheckUndoForgotten(r) ==
  /\ pc[r] = "c_undo"
  /\ Goto(r, "c_umark")
  /\ UNCHANGED <<cache, redis, args, flusher, clients, history>>

CheckUndo(r) ==
  /\ pc[r] = "c_undo"
  /\ Update(user[r], Negate(delta[r]))
  /\ Goto(r, "c_umark")
  /\ UNCHANGED <<limits, dirty, redis, args, flusher, clients, history>>

CheckUndoMark(r) ==
  /\ pc[r] = "c_umark"
  /\ dirty' = dirty \cup {user[r]}
  /\ End(r)
  /\ UNCHANGED <<usage, limits, redis, flusher, clients, history>>

-----------------------------------------------------------------------------
(* UpdateUsage: a client gives a reservation back. *)

UpdateStart(r) ==
  /\ pc[r] = "idle"
  /\ \E h \in held :
       /\ held' = held \ {h}
       /\ user' = [user EXCEPT ![r] = h.user]
       /\ bucket' = [bucket EXCEPT ![r] = h.bucket]
       /\ delta' = [delta EXCEPT ![r] = h.delta]
       /\ Update(h.user, Negate(h.delta))
  /\ Goto(r, "u_mark")
  /\ UNCHANGED <<limits, dirty, redis, lim, flusher, grants, history>>

(* Mutant of UpdateMark: the entry is not marked. *)
UpdateMarkForgotten(r) ==
  /\ pc[r] = "u_mark"
  /\ IF bucket[r] = None THEN End(r) ELSE Goto(r, "u_apply") /\ UNCHANGED args
  /\ UNCHANGED <<cache, redis, flusher, clients, history>>

UpdateMark(r) ==
  /\ pc[r] = "u_mark"
  /\ dirty' = dirty \cup {user[r]}
  /\ IF bucket[r] = None THEN End(r) ELSE Goto(r, "u_apply") /\ UNCHANGED args
  /\ UNCHANGED <<usage, limits, redis, flusher, clients, history>>

UpdateBucket(r) ==
  /\ pc[r] = "u_apply"
  /\ Update(bucket[r], Negate(delta[r]))
  /\ Goto(r, "u_bmark")
  /\ UNCHANGED <<limits, dirty, redis, args, flusher, clients, history>>

UpdateBucketMark(r) ==
  /\ pc[r] = "u_bmark"
  /\ dirty' = dirty \cup {bucket[r]}
  /\ End(r)
  /\ UNCHANGED <<usage, limits, redis, flusher, clients, history>>

-----------------------------------------------------------------------------
(* SetQuota, GetQuota, DeleteSubject; user[r] is their subject. *)

SetStart(r) ==
  /\ pc[r] = "idle"
  /\ \E s \in Subject, l \in LimitValues :
       /\ limits' = [limits EXCEPT ![s] = l]
       /\ user' = [user EXCEPT ![r] = s]
       /\ lim' = [lim EXCEPT ![r] = l]
       /\ ceil' = [ceil EXCEPT ![s] = @ \cup {l}]
  /\ Goto(r, "s_redis")
  /\ UNCHANGED <<usage, dirty, redis, bucket, delta, flusher, clients, lost>>

SetRedis(r) ==
  /\ pc[r] = "s_redis"
  /\ redisLimit' = [redisLimit EXCEPT ![user[r]] = lim[r]]
  /\ End(r)
  /\ UNCHANGED <<cache, redisUsage, flusher, clients, history>>

SetFail(r) ==
  /\ pc[r] = "s_redis"
  /\ End(r)
  /\ UNCHANGED <<cache, redis, flusher, clients, history>>

(* GetQuota misses the cache and finds a limit in Redis ... *)
GetMiss(r) ==
  /\ pc[r] = "idle"
  /\ \E s \in Subject :
       /\ limits[s] = None /\ redisLimit[s] # None
       /\ user' = [user EXCEPT ![r] = s]
       /\ lim' = [lim EXCEPT ![r] = redisLimit[s]]
  /\ Goto(r, "g_fill")
  /\ UNCHANGED <<cache, redis, bucket, delta, flusher, clients, history>>

(* ... which it puts into the cache. *)
GetFill(r) ==
  /\ pc[r] = "g_fill"
  /\ limits' = [limits EXCEPT ![user[r]] = lim[r]]
  /\ End(r)
  /\ UNCHANGED <<usage, dirty, redis, flusher, clients, history>>

DeleteStart(r) ==
  /\ pc[r] = "idle"
  /\ \E s \in Deletable :
       /\ usage' = [usage EXCEPT ![s] = None]
       /\ user' = [user EXCEPT ![r] = s]
       /\ lost' = lost \cup {<<s, "deleted">>}
  /\ Goto(r, "x_limits")
  /\ UNCHANGED <<limits, dirty, redis, bucket, delta, lim, flusher, clients, ceil>>

DeleteLimits(r) ==
  /\ pc[r] = "x_limits"
  /\ limits' = [limits EXCEPT ![user[r]] = None]
  /\ Goto(r, "x_dirty")
  /\ UNCHANGED <<usage, dirty, redis, args, flusher, clients, history>>

DeleteDirty(r) ==
  /\ pc[r] = "x_dirty"
  /\ dirty' = dirty \ {user[r]}
  /\ Goto(r, "x_redis")
  /\ UNCHANGED <<usage, limits, redis, args, flusher, clients, history>>

DeleteRedis(r) ==
  /\ pc[r] = "x_redis"
  /\ redisUsage' = [redisUsage EXCEPT ![user[r]] = None]
  /\ redisLimit' = [redisLimit EXCEPT ![user[r]] = None]
  /\ End(r)
  /\ UNCHANGED <<cache, flusher, clients, history>>

DeleteFail(r) ==
  /\ pc[r] = "x_redis"
  /\ End(r)
  /\ UNCHANGED <<cache, redis, flusher, clients, history>>

-----------------------------------------------------------------------------
(* The flush task, one for the process: snapshot_dirty, then flush_usage.  *)

FlushCollect ==
  /\ flush = "idle" /\ dirty # {}
  /\ keys' = dirty
  /\ todo' = dirty
  /\ flush' = "unmark"
  /\ UNCHANGED <<cache, redis, pc, args, snap, clients, history>>

FlushUnmark(s) ==
  /\ flush = "unmark" /\ s \in todo
  /\ dirty' = dirty \ {s}
  /\ IF todo = {s} THEN todo' = keys /\ flush' = "read"
                   ELSE todo' = todo \ {s} /\ UNCHANGED flush
  /\ UNCHANGED <<usage, limits, redis, pc, args, keys, snap, clients, history>>

(* Keys without an entry are dropped; the last read starts the writing. *)
FlushRead(s) ==
  /\ flush = "read" /\ s \in todo
  /\ snap' = [snap EXCEPT ![s] = usage[s]]
  /\ keys' = IF usage[s] = None THEN keys \ {s} ELSE keys
  /\ IF todo = {s} THEN todo' = keys' /\ flush' = "write"
                   ELSE todo' = todo \ {s} /\ UNCHANGED flush
  /\ UNCHANGED <<cache, redis, pc, args, clients, history>>

FlushWrite(s) ==
  /\ flush = "write" /\ s \in todo
  /\ redisUsage' = [redisUsage EXCEPT ![s] = snap[s]]
  /\ todo' = todo \ {s}
  /\ UNCHANGED <<cache, redisLimit, pc, args, flush, keys, snap, clients, history>>

FlushIdle ==
  /\ flush' = "idle"
  /\ keys' = {}
  /\ todo' = {}
  /\ snap' = [s \in Subject |-> None]

FlushDone ==
  /\ flush = "write" /\ todo = {}
  /\ FlushIdle
  /\ UNCHANGED <<cache, redis, pc, args, clients, history>>

(* Mutant of FlushFail: the keys are not marked again. *)
FlushFailForgotten ==
  /\ flush = "write" /\ todo # {}
  /\ FlushIdle
  /\ UNCHANGED <<cache, redis, pc, args, clients, history>>

(* A write fails: every key of the snapshot is marked again. *)
FlushFail ==
  /\ flush = "write" /\ todo # {}
  /\ dirty' = dirty \cup keys
  /\ FlushIdle
  /\ UNCHANGED <<usage, limits, redis, pc, args, clients, history>>

-----------------------------------------------------------------------------
(* The process dies and starts again from what Redis holds.  An entry that *)
(* cannot be read is skipped.                                              *)
LoadAllUsage(skipped) == [s \in Subject |-> IF s \in skipped THEN None ELSE redisUsage[s]]
LoadAllLimits(skipped) == [s \in Subject |-> IF s \in skipped THEN None ELSE redisLimit[s]]

Crash ==
  \E skipped \in SUBSET {s \in Subject : redisUsage[s] # None},
     unlimited \in SUBSET {s \in Subject : redisLimit[s] # None} :
    /\ usage' = LoadAllUsage(skipped)
    /\ limits' = LoadAllLimits(unlimited)
    /\ dirty' = {}
    /\ pc' = [r \in Request |-> "idle"]
    /\ user' = [r \in Request |-> None]
    /\ bucket' = [r \in Request |-> None]
    /\ delta' = [r \in Request |-> Zero]
    /\ lim' = [r \in Request |-> None]
    /\ FlushIdle
    /\ lost' = lost \cup (Subject \X {"crashed"}) \cup (skipped \X {"skipped"})
    /\ UNCHANGED <<redis, clients, ceil>>

Check(r) ==
  \/ CheckReserve(r) \/ CheckMark(r) \/ CheckBucketLimit(r)
  \/ CheckBucketReserve(r) \/ CheckBucketMark(r) \/ CheckUndo(r) \/ CheckUndoMark(r)

Release(r) == UpdateMark(r) \/ UpdateBucket(r) \/ UpdateBucketMark(r)

Admin(r) ==
  \/ SetStart(r) \/ SetRedis(r) \/ SetFail(r) \/ GetMiss(r) \/ GetFill(r)
  \/ DeleteStart(r) \/ DeleteLimits(r) \/ DeleteDirty(r) \/ DeleteRedis(r)
  \/ DeleteFail(r)

Flush ==
  \/ FlushCollect \/ FlushDone
  \/ \E s \in Subject : FlushUnmark(s) \/ FlushRead(s) \/ FlushWrite(s)

Next ==
  \/ \E r \in Request :
       CheckStart(r) \/ Check(r) \/ UpdateStart(r) \/ Release(r) \/ Admin(r)
  \/ Flush \/ FlushFail
  \/ Crash

Spec == Init /\ [][Next]_vars

(* Code without an await runs to its end, the ticker goes on for ever, and *)
(* Redis does not refuse every write.                                      *)
FairSpec ==
  /\ Spec
  /\ \A r \in Request : WF_vars(Check(r) \/ Release(r))
  /\ WF_vars(Flush)
  /\ \A s \in Subject : SF_vars(FlushWrite(s))

-----------------------------------------------------------------------------
(* Every variable has its type. *)
TypeOK ==
  /\ usage \in [Subject -> Amount \cup {None}]
  /\ limits \in [Subject -> Limit \cup {None}]
  /\ dirty \subseteq Subject
  /\ redisUsage \in [Subject -> Amount \cup {None}]
  /\ redisLimit \in [Subject -> Limit \cup {None}]
  /\ pc \in [Request -> Label]
  /\ user \in [Request -> Subject \cup {None}]
  /\ bucket \in [Request -> Bucket \cup {None}]
  /\ delta \in [Request -> Amount]
  /\ lim \in [Request -> Limit \cup {None}]
  /\ flush \in {"idle", "unmark", "read", "write"}
  /\ keys \subseteq Subject
  /\ todo \subseteq keys
  /\ snap \in [Subject -> Amount \cup {None}]
  /\ grants \in 0..MaxGrants
  /\ held \subseteq Receipt
  /\ ceil \in [Subject -> SUBSET Limit]
  /\ lost \subseteq Subject \X Interference

(* For every resource, one of the limits would allow the entry. *)
Within(entry, bounds) ==
  \A x \in Resource :
    \/ entry[x] = 0
    \/ \E l \in bounds : l[x] = Unlimited \/ entry[x] <= l[x]

(* "Atomic per entry - no TOCTOU race": however checks, rollbacks,         *)
(* releases, deletions, flushes and restarts interleave, the usage of a    *)
(* subject, in memory and in Redis, stays within a limit that once applied *)
(* to it.                                                                  *)
NoOvercommit ==
  \A s \in Subject : /\ Within(ValueOf(usage[s]), ceil[s])
                     /\ Within(ValueOf(redisUsage[s]), ceil[s])

(* The reservation of r that is in the usage of s and not yet, or no       *)
(* longer, a receipt of the client.                                        *)
InFlight(r, s) ==
  \/ s = user[r] /\ pc[r] \in {"c_mark", "c_blimit", "c_breserve", "c_bmark", "c_undo"}
  \/ s = bucket[r] /\ pc[r] \in {"c_bmark", "u_mark", "u_apply"}

Untouched(s) == \A i \in {"deleted", "crashed"} : <<s, i>> \notin lost

(* What the members of S have, added up: their units are told apart by     *)
(* whose they are and counted.                                             *)
Units(S, amount) == UNION {{a} \X (1..amount[a]) : a \in S}
Total(S, amount) == Cardinality(Units(S, amount))

(* What clients hold of resource x for s, and what requests in progress    *)
(* have reserved.                                                          *)
HeldFor(s, x) == Total({h \in held : s \in {h.user, h.bucket}}, [h \in held |-> h.delta[x]])
ReservedFor(s, x) == Total({r \in Request : InFlight(r, s)}, [r \in Request |-> delta[r][x]])

(* Nothing is counted twice, lost or left behind by a denied check: the    *)
(* usage is what clients hold plus what requests in progress have          *)
(* reserved.                                                               *)
Conservation ==
  \A s \in Subject, x \in Resource : Untouched(s) =>
    ValueOf(usage[s])[x] = HeldFor(s, x) + ReservedFor(s, x)

(* A request has changed the usage of s and not marked it yet. *)
Marking(s) ==
  \E r \in Request :
    \/ s = user[r] /\ pc[r] \in {"c_mark", "c_umark", "u_mark"}
    \/ s = bucket[r] /\ pc[r] \in {"c_bmark", "u_bmark"}

(* The flush task will read the usage of s, or has read and will write it. *)
Flushing(s) ==
  \/ flush = "unmark" /\ s \in keys
  \/ flush = "read" /\ s \in keys /\ (s \in todo \/ snap[s] = usage[s])
  \/ flush = "write" /\ s \in todo /\ snap[s] = usage[s]

(* No update is forgotten: an entry that differs from its copy in Redis is *)
(* marked, or about to be marked, or the flush task has yet to read it or  *)
(* to write the value it has read; so is one whose write failed.           *)
DivergenceIsTracked ==
  \A s \in Subject :
    \/ ValueOf(usage[s]) = ValueOf(redisUsage[s])
    \/ s \in dirty
    \/ Marking(s)
    \/ Flushing(s)
    \/ <<s, "deleted">> \in lost \/ <<s, "skipped">> \in lost

(* What is counted reaches Redis, as long as Redis takes a write now and   *)
(* then and the process lives.                                             *)
EventuallyPersisted ==
  \A s \in Subject :
    ValueOf(usage[s]) # ValueOf(redisUsage[s]) ~>
      \/ ValueOf(usage[s]) = ValueOf(redisUsage[s])
      \/ <<s, "deleted">> \in lost \/ <<s, "skipped">> \in lost
=============================================================================
