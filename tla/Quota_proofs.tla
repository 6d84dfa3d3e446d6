---------------------------- MODULE Quota_proofs ----------------------------
(***************************************************************************)
(* Proofs about Quota, for any number of requests, subjects and resources, *)
(* any amounts and any limits.                                             *)
(*                                                                         *)
(*   TypeInv     the types, and which arguments a request has at a label   *)
(*   CeilingInv  every limit in use once applied to its subject, and every *)
(*               entry, the flush task's copies too, is within one         *)
(*   TrackInv    what the flush task holds is current, or the entry is     *)
(*               marked for the next round                                 *)
(*   ConsInv     the usage is the sum of what is held and reserved; a step *)
(*               of a request balances what it adds and what it takes off  *)
(*   BoundInv    an entry, its copies too, has at most one amount for each *)
(*               check that had its turn                                   *)
(***************************************************************************)
EXTENDS Quota, FiniteSetTheorems, TLAPS

LEMMA ZeroAmount == Zero \in Amount /\ None \notin Amount /\ None \notin Limit
  BY NoneAssumption DEF Zero, Amount

LEMMA ValueAmount == ASSUME NEW e \in Amount \cup {None} PROVE ValueOf(e) \in Amount
  BY ZeroAmount DEF ValueOf

(* Apply and Negate keep amounts natural. *)
LEMMA ApplyAmount ==
  ASSUME NEW e \in Amount, NEW d \in Amount
  PROVE  Apply(e, d) \in Amount /\ Apply(e, Negate(d)) \in Amount
  BY DEF Amount, Apply, Negate

(* A reservation that a limit allows leaves the entry within the limits. *)
LEMMA ReserveWithin ==
  ASSUME NEW e \in Amount, NEW d \in Amount, NEW C \in SUBSET Limit, NEW l \in C,
         Within(e, C), ~WouldExceed(e, l, d)
  PROVE  Within(Apply(e, d), C)
<1> SUFFICES ASSUME NEW x \in Resource
             PROVE  \/ Apply(e, d)[x] = 0
                    \/ \E m \in C : m[x] = Unlimited \/ Apply(e, d)[x] <= m[x]
  BY DEF Within
<1>1. e[x] \in Nat /\ d[x] \in Nat /\ l[x] \in Int
  BY DEF Amount, Limit
<1>2. Apply(e, d)[x] = e[x] + d[x]
  BY <1>1 DEF Apply
<1>3. CASE d[x] = 0
  BY <1>1, <1>2, <1>3 DEF Within
<1>4. CASE d[x] > 0
  BY <1>1, <1>2, <1>4 DEF WouldExceed
<1> QED
  BY <1>1, <1>3, <1>4

(* So does giving something back, whatever it is. *)
LEMMA ReleaseWithin ==
  ASSUME NEW e \in Amount, NEW d \in Amount, NEW C \in SUBSET Limit, Within(e, C)
  PROVE  Within(Apply(e, Negate(d)), C)
<1> SUFFICES ASSUME NEW x \in Resource
             PROVE  \/ Apply(e, Negate(d))[x] = 0
                    \/ \E m \in C : m[x] = Unlimited \/ Apply(e, Negate(d))[x] <= m[x]
  BY DEF Within
<1>1. e[x] \in Nat /\ d[x] \in Nat /\ \A m \in C : m[x] \in Int
  BY DEF Amount, Limit
<1>2. Apply(e, Negate(d))[x] \in Nat /\ Apply(e, Negate(d))[x] <= e[x]
  BY <1>1 DEF Apply, Negate
<1> QED
  BY <1>1, <1>2 DEF Within

LEMMA WithinMore ==
  ASSUME NEW e, NEW C, NEW D, C \subseteq D, Within(e, C)
  PROVE  Within(e, D)
  BY DEF Within

LEMMA WithinZero == ASSUME NEW C PROVE Within(Zero, C)
  BY DEF Within, Zero

-----------------------------------------------------------------------------
(* Types, and the arguments a request has at each label. *)
OnBucket == {"c_blimit", "c_breserve", "c_bmark", "c_undo", "c_umark", "u_apply", "u_bmark"}

ArgInv ==
  \A r \in Request :
    /\ pc[r] # "idle" => user[r] \in Subject
    /\ pc[r] \in Checking => user[r] \in User /\ delta[r] \in Deltas
    /\ pc[r] \in OnBucket => bucket[r] \in Bucket
    /\ pc[r] \in {"c_reserve", "c_breserve", "s_redis", "g_fill"} => lim[r] \in Limit

TypeInv == TypeOK /\ ArgInv

LEMMA TypeInit == Init => TypeInv
<1> SUFFICES ASSUME Init PROVE TypeInv
  OBVIOUS
<1>1. TypeOK
  BY ZeroAmount, MaxGrantsAssumption, LimitAssumption DEF Init, TypeOK, Label
<1>2. ArgInv
  BY DEF Init, ArgInv, Checking, OnBucket
<1> QED
  BY <1>1, <1>2 DEF TypeInv

(* A step that ends a request. *)
LEMMA TypeEnd ==
  ASSUME TypeInv, NEW r \in Request, End(r),
         usage' \in [Subject -> Amount \cup {None}],
         limits' \in [Subject -> Limit \cup {None}],
         redisUsage' \in [Subject -> Amount \cup {None}],
         redisLimit' \in [Subject -> Limit \cup {None}],
         dirty' \subseteq Subject, held' \subseteq Receipt,
         lost' \subseteq Subject \X Interference,
         UNCHANGED <<flusher, grants, ceil>>
  PROVE  TypeInv'
<1>1. TypeOK'
  BY ZeroAmount DEF TypeInv, TypeOK, End, Goto, flusher, Label
<1>2. ArgInv'
  BY DEF TypeInv, TypeOK, ArgInv, End, Goto, Checking, OnBucket
<1> QED
  BY <1>1, <1>2 DEF TypeInv

(* A step that moves a request on and leaves its arguments alone. *)
LEMMA TypeGoto ==
  ASSUME TypeInv, NEW r \in Request, NEW l \in Label \ {"idle"}, Goto(r, l),
         pc[r] # "idle",
         l \in Checking => pc[r] \in Checking,
         l \in OnBucket => bucket[r] \in Bucket,
         l \notin {"c_reserve", "c_breserve", "s_redis", "g_fill"},
         UNCHANGED <<args, redis, flusher, clients, history>>,
         usage' \in [Subject -> Amount \cup {None}],
         limits' \in [Subject -> Limit \cup {None}],
         dirty' \subseteq Subject
  PROVE  TypeInv'
<1>1. TypeOK'
  BY DEF TypeInv, TypeOK, Goto, args, redis, flusher, clients, history
<1>2. ArgInv'
  BY DEF TypeInv, TypeOK, ArgInv, Goto, args
<1> QED
  BY <1>1, <1>2 DEF TypeInv

LEMMA ReserveType ==
  ASSUME TypeInv, NEW r \in Request, NEW s \in Subject, Reserve(r, s)
  PROVE  usage' \in [Subject -> Amount \cup {None}]
<1>1. ValueOf(usage[s]) \in Amount /\ delta[r] \in Amount
  BY ValueAmount DEF TypeInv, TypeOK
<1>2. Apply(ValueOf(usage[s]), delta[r]) \in Amount
  BY <1>1, ApplyAmount
<1> QED
  BY <1>1, <1>2 DEF Reserve, TypeInv, TypeOK

LEMMA UpdateType ==
  ASSUME TypeInv, NEW d \in Amount, NEW s \in Subject, Update(s, Negate(d))
  PROVE  usage' \in [Subject -> Amount \cup {None}]
<1>1. ValueOf(usage[s]) \in Amount
  BY ValueAmount DEF TypeInv, TypeOK
<1>2. Apply(ValueOf(usage[s]), Negate(d)) \in Amount
  BY <1>1, ApplyAmount
<1> QED
  BY <1>2 DEF Update, TypeInv, TypeOK

LEMMA GrantType ==
  ASSUME TypeInv, NEW r \in Request, pc[r] \in Checking, Grant(r)
  PROVE  held' \subseteq Receipt
<1>1. /\ user[r] \in User /\ bucket[r] \in Bucket \cup {None} /\ delta[r] \in Deltas
      /\ held \subseteq Receipt
  BY DEF TypeInv, TypeOK, ArgInv
<1>2. PICK n \in 1..MaxGrants :
        held' = held \cup {[n |-> n, user |-> user[r], bucket |-> bucket[r],
                            delta |-> delta[r]]}
  BY DEF Grant
<1> QED
  BY <1>1, <1>2 DEF Receipt

LEMMA TypeNext == TypeInv /\ [Next]_vars => TypeInv'
<1> SUFFICES ASSUME TypeInv, [Next]_vars PROVE TypeInv'
  OBVIOUS
<1> USE DEF TypeInv, cache, redis, args, flusher, clients, history
<1>0. /\ Deltas \subseteq Amount /\ LimitValues \subseteq Limit
      /\ \A s \in Subject : LimitOf(s) \in Limit
      /\ User \subseteq Subject /\ Bucket \subseteq Subject
      /\ \A s \in Subject : s # None
      /\ Deletable \subseteq Subject
  BY DeltasAssumption, LimitAssumption, SubjectAssumption, DeletableAssumption
     DEF TypeOK, LimitOf, Subject
<1>1. ASSUME NEW r \in Request, CheckStart(r) \/ Check(r) PROVE TypeInv'
  <2>1. CASE CheckStart(r)
    <3>1. PICK u \in User, b \in Bucket \cup {None}, d \in Deltas :
            /\ user' = [user EXCEPT ![r] = u]
            /\ bucket' = [bucket EXCEPT ![r] = b]
            /\ delta' = [delta EXCEPT ![r] = d]
            /\ lim' = [lim EXCEPT ![r] = LimitOf(u)]
      BY <2>1 DEF CheckStart
    <3>2. TypeOK'
      BY <2>1, <3>1, <1>0, MaxGrantsAssumption DEF CheckStart, Goto, TypeOK, Label, Checking
    <3>3. ArgInv'
      BY <2>1, <3>1, <1>0 DEF CheckStart, Goto, TypeOK, ArgInv, Checking, OnBucket
    <3> QED
      BY <3>2, <3>3
  <2>2. CASE CheckReserve(r)
    <3>1. user[r] \in Subject
      BY <2>2 DEF CheckReserve, ArgInv
    <3>2. usage' \in [Subject -> Amount \cup {None}]
      BY <2>2, <3>1, ReserveType DEF CheckReserve
    <3>3. CASE End(r)
      BY <2>2, <3>2, <3>3, TypeEnd DEF CheckReserve, TypeOK
    <3>4. CASE Goto(r, "c_mark") /\ UNCHANGED args
      BY <2>2, <3>2, <3>4, TypeGoto DEF CheckReserve, TypeOK, Checking, Label, OnBucket
    <3> QED
      BY <2>2, <3>3, <3>4 DEF CheckReserve
  <2>3. CASE CheckMark(r)
    <3>1. user[r] \in Subject /\ dirty' \subseteq Subject
      BY <2>3 DEF CheckMark, ArgInv, TypeOK
    <3>2. CASE bucket[r] = None
      <4>1. held' \subseteq Receipt
        BY <2>3, <3>2, GrantType DEF CheckMark, Checking
      <4> QED
        BY <2>3, <3>1, <3>2, <4>1, TypeEnd DEF CheckMark, TypeOK
    <3>3. CASE bucket[r] # None
      BY <2>3, <3>1, <3>3, TypeGoto DEF CheckMark, TypeOK, Checking, Label, OnBucket
    <3> QED
      BY <3>2, <3>3
  <2>4. CASE CheckBucketLimit(r)
    <3>1. TypeOK'
      BY <2>4, <1>0 DEF CheckBucketLimit, Goto, TypeOK, ArgInv, OnBucket, Checking, Label
    <3>2. ArgInv'
      BY <2>4, <1>0 DEF CheckBucketLimit, Goto, TypeOK, ArgInv, OnBucket, Checking
    <3> QED
      BY <3>1, <3>2
  <2>5. CASE CheckBucketReserve(r)
    <3>1. bucket[r] \in Bucket
      BY <2>5 DEF CheckBucketReserve, ArgInv, OnBucket
    <3>2. usage' \in [Subject -> Amount \cup {None}]
      BY <2>5, <3>1, <1>0, ReserveType DEF CheckBucketReserve
    <3>3. PICK l \in {"c_undo", "c_bmark"} : Goto(r, l)
      BY <2>5 DEF CheckBucketReserve
    <3> QED
      BY <2>5, <3>1, <3>2, <3>3, TypeGoto DEF CheckBucketReserve, TypeOK, Checking, Label
  <2>6. CASE CheckBucketMark(r)
    <3>1. bucket[r] \in Bucket /\ dirty' \subseteq Subject
      BY <2>6, <1>0 DEF CheckBucketMark, ArgInv, OnBucket, TypeOK
    <3>2. held' \subseteq Receipt
      BY <2>6, GrantType DEF CheckBucketMark, Checking
    <3> QED
      BY <2>6, <3>1, <3>2, TypeEnd DEF CheckBucketMark, TypeOK
  <2>7. CASE CheckUndo(r)
    <3>1. user[r] \in Subject /\ bucket[r] \in Bucket /\ delta[r] \in Amount
      BY <2>7 DEF CheckUndo, ArgInv, OnBucket, TypeOK
    <3>2. usage' \in [Subject -> Amount \cup {None}]
      BY <2>7, <3>1, UpdateType DEF CheckUndo
    <3> QED
      BY <2>7, <3>1, <3>2, TypeGoto DEF CheckUndo, TypeOK, Checking, Label
  <2>8. CASE CheckUndoMark(r)
    <3>1. user[r] \in Subject /\ dirty' \subseteq Subject
      BY <2>8 DEF CheckUndoMark, ArgInv, TypeOK
    <3> QED
      BY <2>8, <3>1, TypeEnd DEF CheckUndoMark, TypeOK
  <2> QED
    BY <1>1, <2>1, <2>2, <2>3, <2>4, <2>5, <2>6, <2>7, <2>8 DEF Check
<1>2. ASSUME NEW r \in Request, UpdateStart(r) \/ Release(r) PROVE TypeInv'
  <2>1. CASE UpdateStart(r)
    <3>1. PICK h \in held :
            /\ held' = held \ {h}
            /\ user' = [user EXCEPT ![r] = h.user]
            /\ bucket' = [bucket EXCEPT ![r] = h.bucket]
            /\ delta' = [delta EXCEPT ![r] = h.delta]
            /\ Update(h.user, Negate(h.delta))
      BY <2>1 DEF UpdateStart
    <3>2. /\ h.user \in User /\ h.bucket \in Bucket \cup {None} /\ h.delta \in Amount
          /\ h.user \in Subject
      BY <1>0 DEF TypeOK, Receipt
    <3>3. usage' \in [Subject -> Amount \cup {None}]
      BY <3>1, <3>2, UpdateType
    <3>4. TypeOK'
      BY <2>1, <3>1, <3>2, <3>3 DEF UpdateStart, Goto, TypeOK, Label
    <3>5. ArgInv'
      BY <2>1, <3>1, <3>2 DEF UpdateStart, Goto, TypeOK, ArgInv, Checking, OnBucket
    <3> QED
      BY <3>4, <3>5
  <2>2. CASE UpdateMark(r)
    <3>1. user[r] \in Subject /\ dirty' \subseteq Subject
      BY <2>2 DEF UpdateMark, ArgInv, TypeOK
    <3>2. CASE bucket[r] = None
      BY <2>2, <3>1, <3>2, TypeEnd DEF UpdateMark, TypeOK
    <3>3. CASE bucket[r] # None
      BY <2>2, <3>1, <3>3, TypeGoto DEF UpdateMark, TypeOK, Checking, Label, OnBucket
    <3> QED
      BY <3>2, <3>3
  <2>3. CASE UpdateBucket(r)
    <3>1. bucket[r] \in Bucket /\ delta[r] \in Amount
      BY <2>3 DEF UpdateBucket, ArgInv, OnBucket, TypeOK
    <3>2. usage' \in [Subject -> Amount \cup {None}]
      BY <2>3, <3>1, <1>0, UpdateType DEF UpdateBucket
    <3> QED
      BY <2>3, <3>1, <3>2, TypeGoto DEF UpdateBucket, TypeOK, Checking, Label
  <2>4. CASE UpdateBucketMark(r)
    <3>1. bucket[r] \in Bucket /\ dirty' \subseteq Subject
      BY <2>4, <1>0 DEF UpdateBucketMark, ArgInv, OnBucket, TypeOK
    <3> QED
      BY <2>4, <3>1, TypeEnd DEF UpdateBucketMark, TypeOK
  <2> QED
    BY <1>2, <2>1, <2>2, <2>3, <2>4 DEF Release
<1>3. ASSUME NEW r \in Request, Admin(r) PROVE TypeInv'
  <2>1. CASE SetStart(r)
    <3>1. TypeOK'
      BY <2>1, <1>0 DEF SetStart, Goto, TypeOK, Label
    <3>2. ArgInv'
      BY <2>1, <1>0 DEF SetStart, Goto, TypeOK, ArgInv, Checking, OnBucket
    <3> QED
      BY <3>1, <3>2
  <2>2. CASE SetRedis(r)
    <3>1. redisLimit' \in [Subject -> Limit \cup {None}]
      BY <2>2 DEF SetRedis, TypeOK, ArgInv
    <3> QED
      BY <2>2, <3>1, TypeEnd DEF SetRedis, TypeOK
  <2>3. CASE SetFail(r)
    BY <2>3, TypeEnd DEF SetFail, TypeOK
  <2>4. CASE GetMiss(r)
    <3>1. TypeOK'
      BY <2>4 DEF GetMiss, Goto, TypeOK, Label
    <3>2. ArgInv'
      BY <2>4 DEF GetMiss, Goto, TypeOK, ArgInv, Checking, OnBucket
    <3> QED
      BY <3>1, <3>2
  <2>5. CASE GetFill(r)
    <3>1. limits' \in [Subject -> Limit \cup {None}]
      BY <2>5 DEF GetFill, TypeOK, ArgInv
    <3> QED
      BY <2>5, <3>1, TypeEnd DEF GetFill, TypeOK
  <2>6. CASE DeleteStart(r)
    <3>1. TypeOK'
      BY <2>6, <1>0 DEF DeleteStart, Goto, TypeOK, Label, Interference
    <3>2. ArgInv'
      BY <2>6, <1>0 DEF DeleteStart, Goto, TypeOK, ArgInv, Checking, OnBucket
    <3> QED
      BY <3>1, <3>2
  <2>7. CASE DeleteLimits(r)
    <3>1. limits' \in [Subject -> Limit \cup {None}]
      BY <2>7 DEF DeleteLimits, TypeOK
    <3> QED
      BY <2>7, <3>1, TypeGoto DEF DeleteLimits, TypeOK, Checking, Label, OnBucket
  <2>8. CASE DeleteDirty(r)
    <3>1. dirty' \subseteq Subject
      BY <2>8 DEF DeleteDirty, TypeOK
    <3> QED
      BY <2>8, <3>1, TypeGoto DEF DeleteDirty, TypeOK, Checking, Label, OnBucket
  <2>9. CASE DeleteRedis(r)
    <3>1. /\ redisUsage' \in [Subject -> Amount \cup {None}]
          /\ redisLimit' \in [Subject -> Limit \cup {None}]
      BY <2>9 DEF DeleteRedis, TypeOK, ArgInv
    <3> QED
      BY <2>9, <3>1, TypeEnd DEF DeleteRedis, TypeOK
  <2>10. CASE DeleteFail(r)
    BY <2>10, TypeEnd DEF DeleteFail, TypeOK
  <2> QED
    BY <1>3, <2>1, <2>2, <2>3, <2>4, <2>5, <2>6, <2>7, <2>8, <2>9, <2>10 DEF Admin
<1>4. CASE Flush
  <2>1. ASSUME FlushCollect PROVE TypeInv'
    BY <2>1 DEF FlushCollect, TypeOK, ArgInv
  <2>2. ASSUME FlushDone PROVE TypeInv'
    BY <2>2 DEF FlushDone, FlushIdle, TypeOK, ArgInv
  <2>3. ASSUME NEW s \in Subject, FlushUnmark(s) PROVE TypeInv'
    BY <2>3 DEF FlushUnmark, TypeOK, ArgInv
  <2>4. ASSUME NEW s \in Subject, FlushRead(s) PROVE TypeInv'
    <3>1. TypeOK'
      BY <2>4 DEF FlushRead, TypeOK
    <3>2. ArgInv'
      BY <2>4 DEF FlushRead, ArgInv
    <3> QED
      BY <3>1, <3>2
  <2>5. ASSUME NEW s \in Subject, FlushWrite(s) PROVE TypeInv'
    BY <2>5 DEF FlushWrite, TypeOK, ArgInv
  <2> QED
    BY <1>4, <2>1, <2>2, <2>3, <2>4, <2>5 DEF Flush
<1>5. CASE FlushFail
  BY <1>5 DEF FlushFail, FlushIdle, TypeOK, ArgInv
<1>6. CASE Crash
  <2>1. TypeOK'
    BY <1>6, ZeroAmount DEF Crash, LoadAllUsage, LoadAllLimits, FlushIdle, TypeOK, Label, Interference
  <2>2. ArgInv'
    BY <1>6 DEF Crash, LoadAllUsage, LoadAllLimits, ArgInv, Checking, OnBucket
  <2> QED
    BY <2>1, <2>2
<1>7. CASE UNCHANGED vars
  BY <1>7 DEF vars, TypeOK, ArgInv
<1> QED
  BY <1>1, <1>2, <1>3, <1>4, <1>5, <1>6, <1>7 DEF Next

(* TypeOK is invariant. *)
THEOREM TypeCorrect == Spec => []TypeOK
<1>1. TypeInv => TypeOK
  BY DEF TypeInv
<1> QED
  BY TypeInit, TypeNext, <1>1, PTL DEF Spec

-----------------------------------------------------------------------------
(* The proof of NoOvercommit. *)

(* A limit that is in force, stored or in the hands of a request once      *)
(* applied to its subject.                                                 *)
LimitInv ==
  /\ \A s \in Subject :
       /\ Default[s] \in ceil[s]
       /\ limits[s] \in ceil[s] \cup {None}
       /\ redisLimit[s] \in ceil[s] \cup {None}
  /\ \A r \in Request :
       /\ pc[r] \in {"c_reserve", "s_redis", "g_fill"} => lim[r] \in ceil[user[r]]
       /\ pc[r] = "c_breserve" => lim[r] \in ceil[bucket[r]]

(* An entry is within these limits in memory, in Redis and on its way. *)
EntryInv ==
  \A s \in Subject : /\ Within(ValueOf(usage[s]), ceil[s])
                     /\ Within(ValueOf(redisUsage[s]), ceil[s])
                     /\ Within(ValueOf(snap[s]), ceil[s])

CeilingInv == LimitInv /\ EntryInv

LEMMA ValueFacts == ValueOf(None) = Zero /\ \A e \in Amount : ValueOf(e) = e
  BY ZeroAmount DEF ValueOf

LEMMA CeilingInit == Init => CeilingInv
<1> SUFFICES ASSUME Init PROVE CeilingInv
  OBVIOUS
<1>1. LimitInv
  BY DEF Init, LimitInv
<1>2. EntryInv
  BY ValueFacts, WithinZero DEF Init, EntryInv
<1> QED
  BY <1>1, <1>2 DEF CeilingInv

LEMMA ReserveEntry ==
  ASSUME TypeInv, CeilingInv, NEW r \in Request, NEW s \in Subject, Reserve(r, s),
         lim[r] \in ceil[s], UNCHANGED <<redisUsage, snap, ceil>>
  PROVE  EntryInv'
<1> DEFINE cur == ValueOf(usage[s])
           new == IF WouldExceed(cur, lim[r], delta[r]) THEN cur ELSE Apply(cur, delta[r])
<1>1. cur \in Amount /\ delta[r] \in Amount /\ ceil[s] \in SUBSET Limit /\ Within(cur, ceil[s])
  BY ValueAmount DEF TypeInv, TypeOK, CeilingInv, EntryInv
<1>2. Apply(cur, delta[r]) \in Amount
  BY <1>1, ApplyAmount
<1>3. new \in Amount /\ Within(new, ceil[s])
  BY <1>1, <1>2, ReserveWithin
<1>4. usage' = [usage EXCEPT ![s] = new]
  BY DEF Reserve
<1> HIDE DEF new
<1> QED
  BY <1>3, <1>4, ValueFacts DEF TypeInv, TypeOK, CeilingInv, EntryInv

LEMMA UpdateEntry ==
  ASSUME TypeInv, CeilingInv, NEW d \in Amount, NEW s \in Subject, Update(s, Negate(d)),
         UNCHANGED <<redisUsage, snap, ceil>>
  PROVE  EntryInv'
<1> DEFINE new == Apply(ValueOf(usage[s]), Negate(d))
<1>1. /\ ValueOf(usage[s]) \in Amount /\ ceil[s] \in SUBSET Limit
      /\ Within(ValueOf(usage[s]), ceil[s])
  BY ValueAmount DEF TypeInv, TypeOK, CeilingInv, EntryInv
<1>2. new \in Amount /\ Within(new, ceil[s])
  BY <1>1, ApplyAmount, ReleaseWithin
<1>3. usage' = [usage EXCEPT ![s] = new]
  BY DEF Update, TypeInv, TypeOK
<1> HIDE DEF new
<1> QED
  BY <1>2, <1>3, ValueFacts DEF TypeInv, TypeOK, CeilingInv, EntryInv

(* A step that ends a request, or moves it to a label without a limit. *)
LEMMA LimitStep ==
  ASSUME TypeInv, CeilingInv, NEW r \in Request, NEW l \in Label, Goto(r, l),
         l \notin {"c_reserve", "c_breserve", "s_redis", "g_fill"},
         \A q \in Request \ {r} : /\ lim'[q] = lim[q] /\ user'[q] = user[q]
                                  /\ bucket'[q] = bucket[q],
         UNCHANGED ceil,
         \A s \in Subject : /\ limits'[s] \in ceil[s] \cup {None}
                            /\ redisLimit'[s] \in ceil[s] \cup {None}
  PROVE  LimitInv'
  BY DEF TypeInv, TypeOK, CeilingInv, LimitInv, Goto

LEMMA LimitEnd ==
  ASSUME TypeInv, CeilingInv, NEW r \in Request, End(r), UNCHANGED ceil,
         \A s \in Subject : /\ limits'[s] \in ceil[s] \cup {None}
                            /\ redisLimit'[s] \in ceil[s] \cup {None}
  PROVE  LimitInv'
<1>1. /\ Goto(r, "idle")
      /\ \A q \in Request \ {r} : /\ lim'[q] = lim[q] /\ user'[q] = user[q]
                                  /\ bucket'[q] = bucket[q]
  BY DEF End, TypeInv, TypeOK
<1> QED
  BY <1>1, LimitStep DEF Label

LEMMA CeilingNext == TypeInv /\ CeilingInv /\ [Next]_vars => CeilingInv'
<1> SUFFICES ASSUME TypeInv, CeilingInv, [Next]_vars PROVE CeilingInv'
  OBVIOUS
<1> USE DEF CeilingInv, TypeInv, cache, redis, args, flusher, clients, history
<1>0. /\ Deltas \subseteq Amount /\ LimitValues \subseteq Limit
      /\ User \subseteq Subject /\ Bucket \subseteq Subject
      /\ \A s \in Subject : LimitOf(s) \in ceil[s]
      /\ \A s \in Subject : limits[s] \in ceil[s] \cup {None}
      /\ \A s \in Subject : redisLimit[s] \in ceil[s] \cup {None}
      /\ Deletable \subseteq Subject
  BY DeltasAssumption, LimitAssumption, DeletableAssumption DEF LimitInv, LimitOf, Subject
<1>1. ASSUME NEW r \in Request, CheckStart(r) \/ Check(r) PROVE CeilingInv'
  <2>1. CASE CheckStart(r)
    <3>1. PICK u \in User, b \in Bucket \cup {None} :
            /\ user' = [user EXCEPT ![r] = u]
            /\ bucket' = [bucket EXCEPT ![r] = b]
            /\ lim' = [lim EXCEPT ![r] = LimitOf(u)]
      BY <2>1 DEF CheckStart
    <3>2. LimitInv'
      BY <2>1, <3>1, <1>0 DEF CheckStart, Goto, LimitInv, TypeOK
    <3>3. EntryInv'
      BY <2>1 DEF CheckStart, EntryInv
    <3> QED
      BY <3>2, <3>3
  <2>2. CASE CheckReserve(r)
    <3>1. user[r] \in Subject /\ lim[r] \in ceil[user[r]]
      BY <2>2 DEF CheckReserve, ArgInv, LimitInv
    <3>2. EntryInv'
      BY <2>2, <3>1, ReserveEntry DEF CheckReserve
    <3>3. CASE End(r)
      BY <2>2, <3>2, <3>3, <1>0, LimitEnd DEF CheckReserve
    <3>4. CASE Goto(r, "c_mark") /\ UNCHANGED args
      BY <2>2, <3>2, <3>4, <1>0, LimitStep DEF CheckReserve, Label, Checking
    <3> QED
      BY <2>2, <3>3, <3>4 DEF CheckReserve
  <2>3. CASE CheckMark(r)
    <3>1. EntryInv'
      BY <2>3 DEF CheckMark, EntryInv
    <3>2. CASE End(r)
      BY <2>3, <3>1, <3>2, <1>0, LimitEnd DEF CheckMark
    <3>3. CASE Goto(r, "c_blimit") /\ UNCHANGED args
      BY <2>3, <3>1, <3>3, <1>0, LimitStep DEF CheckMark, Label, Checking
    <3> QED
      BY <2>3, <3>2, <3>3 DEF CheckMark
  <2>4. CASE CheckBucketLimit(r)
    <3>1. bucket[r] \in Subject
      BY <2>4, <1>0 DEF CheckBucketLimit, ArgInv, OnBucket
    <3>2. LimitInv'
      BY <2>4, <3>1, <1>0 DEF CheckBucketLimit, Goto, LimitInv, TypeOK
    <3>3. EntryInv'
      BY <2>4 DEF CheckBucketLimit, EntryInv
    <3> QED
      BY <3>2, <3>3
  <2>5. CASE CheckBucketReserve(r)
    <3>1. bucket[r] \in Subject /\ lim[r] \in ceil[bucket[r]]
      BY <2>5, <1>0 DEF CheckBucketReserve, ArgInv, LimitInv, OnBucket
    <3>2. EntryInv'
      BY <2>5, <3>1, ReserveEntry DEF CheckBucketReserve
    <3>3. PICK l \in {"c_undo", "c_bmark"} : Goto(r, l)
      BY <2>5 DEF CheckBucketReserve
    <3>4. LimitInv'
      BY <2>5, <3>3, <1>0, LimitStep DEF CheckBucketReserve, Label, Checking
    <3> QED
      BY <3>2, <3>4
  <2>6. CASE CheckBucketMark(r)
    <3>1. EntryInv'
      BY <2>6 DEF CheckBucketMark, EntryInv
    <3> QED
      BY <2>6, <3>1, <1>0, LimitEnd DEF CheckBucketMark
  <2>7. CASE CheckUndo(r)
    <3>1. user[r] \in Subject /\ delta[r] \in Amount
      BY <2>7 DEF CheckUndo, ArgInv, TypeOK
    <3>2. EntryInv'
      BY <2>7, <3>1, UpdateEntry DEF CheckUndo
    <3>3. LimitInv'
      BY <2>7, <1>0, LimitStep DEF CheckUndo, Label, Checking
    <3> QED
      BY <3>2, <3>3
  <2>8. CASE CheckUndoMark(r)
    <3>1. EntryInv'
      BY <2>8 DEF CheckUndoMark, EntryInv
    <3> QED
      BY <2>8, <3>1, <1>0, LimitEnd DEF CheckUndoMark
  <2> QED
    BY <1>1, <2>1, <2>2, <2>3, <2>4, <2>5, <2>6, <2>7, <2>8 DEF Check
<1>2. ASSUME NEW r \in Request, UpdateStart(r) \/ Release(r) PROVE CeilingInv'
  <2>1. CASE UpdateStart(r)
    <3>1. PICK h \in held :
            /\ user' = [user EXCEPT ![r] = h.user]
            /\ bucket' = [bucket EXCEPT ![r] = h.bucket]
            /\ Update(h.user, Negate(h.delta))
      BY <2>1 DEF UpdateStart
    <3>2. h.user \in Subject /\ h.delta \in Amount
      BY <1>0 DEF TypeOK, Receipt
    <3>3. EntryInv'
      BY <2>1, <3>1, <3>2, UpdateEntry DEF UpdateStart
    <3>4. LimitInv'
      BY <2>1, <3>1, <1>0, LimitStep DEF UpdateStart, Label, TypeOK
    <3> QED
      BY <3>3, <3>4
  <2>2. CASE UpdateMark(r)
    <3>1. EntryInv'
      BY <2>2 DEF UpdateMark, EntryInv
    <3>2. CASE End(r)
      BY <2>2, <3>1, <3>2, <1>0, LimitEnd DEF UpdateMark
    <3>3. CASE Goto(r, "u_apply") /\ UNCHANGED args
      BY <2>2, <3>1, <3>3, <1>0, LimitStep DEF UpdateMark, Label
    <3> QED
      BY <2>2, <3>2, <3>3 DEF UpdateMark
  <2>3. CASE UpdateBucket(r)
    <3>1. bucket[r] \in Subject /\ delta[r] \in Amount
      BY <2>3, <1>0 DEF UpdateBucket, ArgInv, OnBucket, TypeOK
    <3>2. EntryInv'
      BY <2>3, <3>1, UpdateEntry DEF UpdateBucket
    <3>3. LimitInv'
      BY <2>3, <1>0, LimitStep DEF UpdateBucket, Label
    <3> QED
      BY <3>2, <3>3
  <2>4. CASE UpdateBucketMark(r)
    <3>1. EntryInv'
      BY <2>4 DEF UpdateBucketMark, EntryInv
    <3> QED
      BY <2>4, <3>1, <1>0, LimitEnd DEF UpdateBucketMark
  <2> QED
    BY <1>2, <2>1, <2>2, <2>3, <2>4 DEF Release
<1>3. ASSUME NEW r \in Request, Admin(r) PROVE CeilingInv'
  <2>1. CASE SetStart(r)
    <3>1. PICK s \in Subject, l \in LimitValues :
            /\ limits' = [limits EXCEPT ![s] = l]
            /\ user' = [user EXCEPT ![r] = s]
            /\ lim' = [lim EXCEPT ![r] = l]
            /\ ceil' = [ceil EXCEPT ![s] = @ \cup {l}]
      BY <2>1 DEF SetStart
    <3>2. \A t \in Subject : ceil[t] \subseteq ceil'[t]
      BY <3>1 DEF TypeOK
    <3>3. EntryInv'
      BY <2>1, <3>2, WithinMore DEF SetStart, EntryInv
    <3>4. \A q \in Request : pc[q] \in {"c_reserve", "s_redis", "g_fill"} => user[q] \in Subject
      BY DEF ArgInv
    <3>5. \A q \in Request : pc[q] = "c_breserve" => bucket[q] \in Subject
      BY <1>0 DEF ArgInv, OnBucket
    <3>6. limits'[s] \in ceil'[s] /\ lim'[r] \in ceil'[s]
      BY <3>1 DEF TypeOK
    <3>7. LimitInv'
      BY <2>1, <3>1, <3>2, <3>4, <3>5, <3>6 DEF SetStart, Goto, LimitInv, TypeOK
    <3> QED
      BY <3>3, <3>7
  <2>2. CASE SetRedis(r)
    <3>1. user[r] \in Subject /\ lim[r] \in ceil[user[r]]
      BY <2>2 DEF SetRedis, ArgInv, LimitInv
    <3>2. EntryInv'
      BY <2>2 DEF SetRedis, EntryInv
    <3>3. \A s \in Subject : redisLimit'[s] \in ceil[s] \cup {None}
      BY <2>2, <3>1, <1>0 DEF SetRedis, TypeOK
    <3> QED
      BY <2>2, <3>2, <3>3, <1>0, LimitEnd DEF SetRedis
  <2>3. CASE SetFail(r)
    <3>1. EntryInv'
      BY <2>3 DEF SetFail, EntryInv
    <3> QED
      BY <2>3, <3>1, <1>0, LimitEnd DEF SetFail
  <2>4. CASE GetMiss(r)
    <3>1. EntryInv'
      BY <2>4 DEF GetMiss, EntryInv
    <3>2. LimitInv'
      BY <2>4, <1>0 DEF GetMiss, Goto, LimitInv, TypeOK
    <3> QED
      BY <3>1, <3>2
  <2>5. CASE GetFill(r)
    <3>1. user[r] \in Subject /\ lim[r] \in ceil[user[r]]
      BY <2>5 DEF GetFill, ArgInv, LimitInv
    <3>2. EntryInv'
      BY <2>5 DEF GetFill, EntryInv
    <3>3. \A s \in Subject : limits'[s] \in ceil[s] \cup {None}
      BY <2>5, <3>1, <1>0 DEF GetFill, TypeOK
    <3> QED
      BY <2>5, <3>2, <3>3, <1>0, LimitEnd DEF GetFill
  <2>6. CASE DeleteStart(r)
    <3>1. EntryInv'
      BY <2>6, <1>0, ValueFacts, WithinZero DEF DeleteStart, EntryInv, TypeOK
    <3>2. LimitInv'
      BY <2>6, <1>0, LimitStep DEF DeleteStart, Label, TypeOK
    <3> QED
      BY <3>1, <3>2
  <2>7. CASE DeleteLimits(r)
    <3>1. EntryInv'
      BY <2>7 DEF DeleteLimits, EntryInv
    <3>2. \A s \in Subject : limits'[s] \in ceil[s] \cup {None}
      BY <2>7, <1>0 DEF DeleteLimits, TypeOK
    <3> QED
      BY <2>7, <3>1, <3>2, <1>0, LimitStep DEF DeleteLimits, Label
  <2>8. CASE DeleteDirty(r)
    <3>1. EntryInv'
      BY <2>8 DEF DeleteDirty, EntryInv
    <3> QED
      BY <2>8, <3>1, <1>0, LimitStep DEF DeleteDirty, Label
  <2>9. CASE DeleteRedis(r)
    <3>1. EntryInv'
      BY <2>9, ValueFacts, WithinZero DEF DeleteRedis, EntryInv, TypeOK
    <3>2. \A s \in Subject : redisLimit'[s] \in ceil[s] \cup {None}
      BY <2>9, <1>0 DEF DeleteRedis, TypeOK
    <3> QED
      BY <2>9, <3>1, <3>2, <1>0, LimitEnd DEF DeleteRedis
  <2>10. CASE DeleteFail(r)
    <3>1. EntryInv'
      BY <2>10 DEF DeleteFail, EntryInv
    <3> QED
      BY <2>10, <3>1, <1>0, LimitEnd DEF DeleteFail
  <2> QED
    BY <1>3, <2>1, <2>2, <2>3, <2>4, <2>5, <2>6, <2>7, <2>8, <2>9, <2>10 DEF Admin
<1>4. CASE Flush
  <2>1. ASSUME FlushCollect PROVE CeilingInv'
    BY <2>1 DEF FlushCollect, LimitInv, EntryInv
  <2>2. ASSUME FlushDone PROVE CeilingInv'
    BY <2>2, ValueFacts, WithinZero DEF FlushDone, FlushIdle, LimitInv, EntryInv
  <2>3. ASSUME NEW s \in Subject, FlushUnmark(s) PROVE CeilingInv'
    BY <2>3 DEF FlushUnmark, LimitInv, EntryInv
  <2>4. ASSUME NEW s \in Subject, FlushRead(s) PROVE CeilingInv'
    BY <2>4 DEF FlushRead, LimitInv, EntryInv, TypeOK
  <2>5. ASSUME NEW s \in Subject, FlushWrite(s) PROVE CeilingInv'
    BY <2>5 DEF FlushWrite, LimitInv, EntryInv, TypeOK
  <2> QED
    BY <1>4, <2>1, <2>2, <2>3, <2>4, <2>5 DEF Flush
<1>5. CASE FlushFail
  BY <1>5, ValueFacts, WithinZero DEF FlushFail, FlushIdle, LimitInv, EntryInv
<1>6. CASE Crash
  <2>1. LimitInv'
    BY <1>6 DEF Crash, LoadAllUsage, LoadAllLimits, LimitInv
  <2>2. EntryInv'
    BY <1>6, ValueFacts, WithinZero DEF Crash, LoadAllUsage, LoadAllLimits, FlushIdle, EntryInv
  <2> QED
    BY <2>1, <2>2
<1>7. CASE UNCHANGED vars
  BY <1>7 DEF vars, LimitInv, EntryInv
<1> QED
  BY <1>1, <1>2, <1>3, <1>4, <1>5, <1>6, <1>7 DEF Next

(* NoOvercommit is invariant: no interleaving of checks, rollbacks,        *)
(* releases, limit changes, deletions, flushes and restarts takes a usage  *)
(* beyond every limit that ever applied to its subject.                    *)
THEOREM NeverOvercommitted == Spec => []NoOvercommit
<1>1. CeilingInv => NoOvercommit
  BY DEF CeilingInv, EntryInv, NoOvercommit
<1> QED
  BY TypeInit, TypeNext, CeilingInit, CeilingNext, <1>1, PTL DEF Spec

-----------------------------------------------------------------------------
(* The proof of DivergenceIsTracked. *)

Excused(s) == <<s, "deleted">> \in lost \/ <<s, "skipped">> \in lost

(* The flush task has read the usage of s and not written it. *)
Carried(s) == \/ flush = "read" /\ s \in keys \ todo
              \/ flush = "write" /\ s \in todo

(* What the flush task carries is current, or s is marked (about to be     *)
(* marked) and will be flushed again.  Without this the write of an old    *)
(* value could go unnoticed when usage has meanwhile returned to what      *)
(* Redis had.                                                              *)
CarryInv ==
  \A s \in Subject : Carried(s) =>
    /\ snap[s] \in Amount
    /\ snap[s] = usage[s] \/ s \in dirty \/ Marking(s) \/ Excused(s)

(* A subject without an entry has nothing in Redis or on its way there. *)
AbsentInv ==
  \A s \in Subject : usage[s] = None =>
    \/ Excused(s)
    \/ ValueOf(redisUsage[s]) = Zero /\ ~Carried(s)

(* A request that deletes a subject has said so. *)
DeletionInv ==
  \A r \in Request :
    pc[r] \in {"x_limits", "x_dirty", "x_redis"} => <<user[r], "deleted">> \in lost

TrackInv == DivergenceIsTracked /\ CarryInv /\ AbsentInv /\ DeletionInv

LEMMA TrackInit == Init => TrackInv
  BY DEF Init, TrackInv, DivergenceIsTracked, CarryInv, AbsentInv, DeletionInv, Carried,
         ValueOf

(* What any step of a request does: marks are kept, or the subject is      *)
(* excused, and a subject whose usage changes is marked in the end.        *)
LEMMA TrackRequest ==
  ASSUME TypeInv, TrackInv, NEW r \in Request,
         UNCHANGED flusher, lost \subseteq lost',
         \A q \in Request \ {r} : /\ pc'[q] = pc[q] /\ user'[q] = user[q]
                                  /\ bucket'[q] = bucket[q],
         pc'[r] \in {"x_limits", "x_dirty", "x_redis"} => <<user'[r], "deleted">> \in lost',
         pc[r] \in {"c_mark", "c_umark", "u_mark"} => user[r] \in dirty',
         pc[r] \in {"c_bmark", "u_bmark"} => bucket[r] \in dirty',
         \A s \in Subject :
           /\ s \in dirty => s \in dirty' \/ Excused(s)'
           /\ redisUsage'[s] = redisUsage[s] \/ Excused(s)'
           /\ \/ usage'[s] = usage[s]
              \/ usage'[s] \in Amount /\ (s \in dirty' \/ Marking(s)')
              \/ usage[s] = None /\ usage'[s] = Zero
              \/ Excused(s)'
  PROVE  TrackInv'
<1>1. \A s \in Subject : Excused(s) => Excused(s)'
  BY DEF Excused
<1>2. \A s \in Subject : s \in dirty \/ Marking(s) => s \in dirty' \/ Marking(s)' \/ Excused(s)'
  <2> SUFFICES ASSUME NEW s \in Subject, Marking(s) PROVE s \in dirty' \/ Marking(s)'
    OBVIOUS
  <2>1. PICK q \in Request :
          \/ s = user[q] /\ pc[q] \in {"c_mark", "c_umark", "u_mark"}
          \/ s = bucket[q] /\ pc[q] \in {"c_bmark", "u_bmark"}
    BY DEF Marking
  <2>2. CASE q = r
    BY <2>1, <2>2
  <2>3. CASE q # r
    BY <2>1, <2>3 DEF Marking
  <2> QED
    BY <2>2, <2>3
<1>3. \A s \in Subject : Carried(s)' <=> Carried(s)
  BY DEF Carried, flusher
<1>4. DivergenceIsTracked'
  <2> SUFFICES ASSUME NEW s \in Subject, ~Excused(s)', s \notin dirty', ~Marking(s)'
               PROVE  ValueOf(usage'[s]) = ValueOf(redisUsage'[s]) \/ Flushing(s)'
    BY DEF DivergenceIsTracked, Excused
  <2>1. /\ s \notin dirty /\ ~Marking(s) /\ ~Excused(s)
        /\ redisUsage'[s] = redisUsage[s]
        /\ usage'[s] = usage[s] \/ (usage[s] = None /\ usage'[s] = Zero)
    <3>1. s \notin dirty /\ ~Marking(s)
      BY <1>2
    <3>2. ~Excused(s)
      BY <1>1
    <3>3. redisUsage'[s] = redisUsage[s]
      OBVIOUS
    <3>4. usage'[s] = usage[s] \/ (usage[s] = None /\ usage'[s] = Zero)
      OBVIOUS
    <3> QED
      BY <3>1, <3>2, <3>3, <3>4
  <2>2. ValueOf(usage'[s]) = ValueOf(usage[s])
    BY <2>1, ZeroAmount DEF ValueOf
  <2>3. CASE Flushing(s)
    <3>1. Carried(s) => snap[s] \in Amount
      BY DEF TrackInv, CarryInv
    <3> QED
      BY <2>1, <2>3, <3>1, ZeroAmount DEF Flushing, flusher, Carried
  <2>4. CASE ValueOf(usage[s]) = ValueOf(redisUsage[s])
    BY <2>1, <2>2, <2>4
  <2> QED
    BY <2>1, <2>3, <2>4 DEF TrackInv, DivergenceIsTracked, Excused
<1>5. CarryInv'
  <2> SUFFICES ASSUME NEW s \in Subject, Carried(s)'
               PROVE  /\ snap'[s] \in Amount
                      /\ \/ snap'[s] = usage'[s] \/ s \in dirty'
                         \/ Marking(s)' \/ Excused(s)'
    BY DEF CarryInv
  <2>1. /\ snap[s] \in Amount /\ snap' = snap
        /\ snap[s] = usage[s] \/ s \in dirty \/ Marking(s) \/ Excused(s)
    BY <1>3 DEF TrackInv, CarryInv, flusher
  <2> QED
    BY <2>1, <1>1, <1>2, ZeroAmount
<1>6. AbsentInv'
  <2> SUFFICES ASSUME NEW s \in Subject, usage'[s] = None, ~Excused(s)'
               PROVE  ValueOf(redisUsage'[s]) = Zero /\ ~Carried(s)'
    BY DEF AbsentInv
  <2>1. usage[s] = None /\ redisUsage'[s] = redisUsage[s] /\ ~Excused(s)
    BY <1>1, ZeroAmount
  <2> QED
    BY <2>1, <1>3 DEF TrackInv, AbsentInv
<1>7. DeletionInv'
  BY DEF TrackInv, DeletionInv
<1> QED
  BY <1>4, <1>5, <1>6, <1>7 DEF TrackInv

(* A step that ends a request that has nothing left to mark. *)
LEMMA TrackEnd ==
  ASSUME TypeInv, TrackInv, NEW r \in Request, End(r), UNCHANGED flusher,
         lost \subseteq lost', dirty \subseteq dirty',
         pc[r] \in {"c_mark", "c_umark", "u_mark"} => user[r] \in dirty',
         pc[r] \in {"c_bmark", "u_bmark"} => bucket[r] \in dirty',
         \A s \in Subject :
           /\ redisUsage'[s] = redisUsage[s] \/ Excused(s)'
           /\ usage'[s] = usage[s] \/ (usage[s] = None /\ usage'[s] = Zero)
  PROVE  TrackInv'
<1>1. /\ \A q \in Request \ {r} : /\ pc'[q] = pc[q] /\ user'[q] = user[q]
                                  /\ bucket'[q] = bucket[q]
      /\ pc'[r] = "idle"
  BY DEF End, Goto, TypeInv, TypeOK
<1> QED
  BY <1>1, TrackRequest

LEMMA TrackNext == TypeInv /\ TrackInv /\ [Next]_vars => TrackInv'
<1> SUFFICES ASSUME TypeInv, TrackInv, [Next]_vars PROVE TrackInv'
  OBVIOUS
<1> USE DEF cache, redis, args, flusher, clients, history
<1>0. /\ User \subseteq Subject /\ Bucket \subseteq Subject /\ Deletable \subseteq Subject
      /\ Deltas \subseteq Amount
  BY DeletableAssumption, DeltasAssumption DEF Subject
<1>1. ASSUME NEW r \in Request, CheckStart(r) \/ Check(r) PROVE TrackInv'
  <2>1. CASE CheckStart(r)
    BY <2>1, TrackRequest DEF CheckStart, Goto, TypeInv, TypeOK
  <2>2. CASE CheckReserve(r)
    <3> DEFINE s == user[r]
               denied == WouldExceed(ValueOf(usage[s]), lim[r], delta[r])
    <3>1. s \in Subject
      BY <2>2 DEF CheckReserve, TypeInv, ArgInv
    <3>2. CASE denied
      <4>1. usage' = [usage EXCEPT ![s] = ValueOf(usage[s])]
        BY <2>2, <3>2 DEF CheckReserve, Reserve
      <4>2. \A t \in Subject : usage'[t] = usage[t] \/ (usage[t] = None /\ usage'[t] = Zero)
        BY <4>1 DEF ValueOf, TypeInv, TypeOK
      <4> QED
        BY <2>2, <3>2, <4>2, TrackEnd DEF CheckReserve
    <3>3. CASE ~denied
      <4>1. usage' \in [Subject -> Amount \cup {None}]
        BY <2>2, <3>1, ReserveType DEF CheckReserve
      <4>2. /\ \A t \in Subject \ {s} : usage'[t] = usage[t]
            /\ usage'[s] \in Amount
        BY <2>2, <3>1, <3>3, ValueAmount, ApplyAmount
           DEF CheckReserve, Reserve, TypeInv, TypeOK
      <4>3. \A t \in Subject : t = s => Marking(t)'
        BY <2>2, <3>3 DEF CheckReserve, Goto, Marking, TypeInv, TypeOK
      <4> QED
        <5>1. /\ pc[r] = "c_reserve" /\ pc'[r] = "c_mark"
              /\ \A q \in Request \ {r} : pc'[q] = pc[q]
              /\ UNCHANGED <<user, bucket, flusher, lost, dirty, redisUsage>>
          BY <2>2, <3>3 DEF CheckReserve, Goto, TypeInv, TypeOK
        <5>2. \A t \in Subject :
                \/ usage'[t] = usage[t]
                \/ usage'[t] \in Amount /\ (t \in dirty' \/ Marking(t)')
          BY <4>2, <4>3
        <5> HIDE DEF denied
        <5> QED
          BY <5>1, <5>2, TrackRequest
    <3> QED
      BY <3>2, <3>3
  <2>3. CASE CheckMark(r)
    <3>1. CASE End(r)
      BY <2>3, <3>1, TrackEnd DEF CheckMark
    <3>2. CASE Goto(r, "c_blimit") /\ UNCHANGED args
      BY <2>3, <3>2, TrackRequest DEF CheckMark, Goto, TypeInv, TypeOK
    <3> QED
      BY <2>3, <3>1, <3>2 DEF CheckMark
  <2>4. CASE CheckBucketLimit(r)
    BY <2>4, TrackRequest DEF CheckBucketLimit, Goto, TypeInv, TypeOK
  <2>5. CASE CheckBucketReserve(r)
    <3> DEFINE s == bucket[r]
               denied == WouldExceed(ValueOf(usage[s]), lim[r], delta[r])
    <3>1. s \in Subject
      BY <2>5, <1>0 DEF CheckBucketReserve, TypeInv, ArgInv, OnBucket
    <3>2. CASE denied
      <4>1. usage' = [usage EXCEPT ![s] = ValueOf(usage[s])]
        BY <2>5, <3>2 DEF CheckBucketReserve, Reserve
      <4>2. \A t \in Subject : usage'[t] = usage[t] \/ (usage[t] = None /\ usage'[t] = Zero)
        BY <4>1 DEF ValueOf, TypeInv, TypeOK
      <4> QED
        BY <2>5, <3>2, <4>2, TrackRequest DEF CheckBucketReserve, Goto, TypeInv, TypeOK
    <3>3. CASE ~denied
      <4>1. /\ \A t \in Subject \ {s} : usage'[t] = usage[t]
            /\ usage'[s] \in Amount
        BY <2>5, <3>1, <3>3, ValueAmount, ApplyAmount
           DEF CheckBucketReserve, Reserve, TypeInv, TypeOK
      <4>2. Marking(s)'
        BY <2>5, <3>3 DEF CheckBucketReserve, Goto, Marking, TypeInv, TypeOK
      <4> QED
        BY <2>5, <3>3, <4>1, <4>2, TrackRequest DEF CheckBucketReserve, Goto, TypeInv, TypeOK
    <3> QED
      BY <3>2, <3>3
  <2>6. CASE CheckBucketMark(r)
    BY <2>6, TrackEnd DEF CheckBucketMark
  <2>7. CASE CheckUndo(r)
    <3>1. user[r] \in Subject /\ delta[r] \in Amount
      BY <2>7 DEF CheckUndo, TypeInv, ArgInv, TypeOK
    <3>2. /\ \A t \in Subject \ {user[r]} : usage'[t] = usage[t]
          /\ usage'[user[r]] \in Amount
      BY <2>7, <3>1, ValueAmount, ApplyAmount DEF CheckUndo, Update, TypeInv, TypeOK
    <3>3. Marking(user[r])'
      BY <2>7 DEF CheckUndo, Goto, Marking, TypeInv, TypeOK
    <3> QED
      BY <2>7, <3>2, <3>3, TrackRequest DEF CheckUndo, Goto, TypeInv, TypeOK
  <2>8. CASE CheckUndoMark(r)
    BY <2>8, TrackEnd DEF CheckUndoMark
  <2> QED
    BY <1>1, <2>1, <2>2, <2>3, <2>4, <2>5, <2>6, <2>7, <2>8 DEF Check
<1>2. ASSUME NEW r \in Request, UpdateStart(r) \/ Release(r) PROVE TrackInv'
  <2>1. CASE UpdateStart(r)
    <3>1. PICK h \in held :
            /\ user' = [user EXCEPT ![r] = h.user]
            /\ bucket' = [bucket EXCEPT ![r] = h.bucket]
            /\ Update(h.user, Negate(h.delta))
      BY <2>1 DEF UpdateStart
    <3>2. h.user \in Subject /\ h.delta \in Amount
      BY <1>0 DEF TypeInv, TypeOK, Receipt
    <3>3. /\ \A t \in Subject \ {h.user} : usage'[t] = usage[t]
          /\ usage'[h.user] \in Amount
      BY <3>1, <3>2, ValueAmount, ApplyAmount DEF Update, TypeInv, TypeOK
    <3>4. \A s \in Subject : s = h.user => Marking(s)'
      BY <2>1, <3>1 DEF UpdateStart, Goto, Marking, TypeInv, TypeOK
    <3> QED
      BY <2>1, <3>1, <3>3, <3>4, TrackRequest DEF UpdateStart, Goto, TypeInv, TypeOK
  <2>2. CASE UpdateMark(r)
    <3>1. CASE End(r)
      BY <2>2, <3>1, TrackEnd DEF UpdateMark
    <3>2. CASE Goto(r, "u_apply") /\ UNCHANGED args
      BY <2>2, <3>2, TrackRequest DEF UpdateMark, Goto, TypeInv, TypeOK
    <3> QED
      BY <2>2, <3>1, <3>2 DEF UpdateMark
  <2>3. CASE UpdateBucket(r)
    <3>1. bucket[r] \in Subject /\ delta[r] \in Amount
      BY <2>3, <1>0 DEF UpdateBucket, TypeInv, ArgInv, OnBucket, TypeOK
    <3>2. /\ \A t \in Subject \ {bucket[r]} : usage'[t] = usage[t]
          /\ usage'[bucket[r]] \in Amount
      BY <2>3, <3>1, ValueAmount, ApplyAmount DEF UpdateBucket, Update, TypeInv, TypeOK
    <3>3. \A s \in Subject : s = bucket[r] => Marking(s)'
      BY <2>3 DEF UpdateBucket, Goto, Marking, TypeInv, TypeOK
    <3> QED
      BY <2>3, <3>2, <3>3, TrackRequest DEF UpdateBucket, Goto, TypeInv, TypeOK
  <2>4. CASE UpdateBucketMark(r)
    BY <2>4, TrackEnd DEF UpdateBucketMark
  <2> QED
    BY <1>2, <2>1, <2>2, <2>3, <2>4 DEF Release
<1>3. ASSUME NEW r \in Request, Admin(r) PROVE TrackInv'
  <2>1. CASE SetStart(r)
    BY <2>1, TrackRequest DEF SetStart, Goto, TypeInv, TypeOK
  <2>2. CASE SetRedis(r)
    BY <2>2, TrackEnd DEF SetRedis
  <2>3. CASE SetFail(r)
    BY <2>3, TrackEnd DEF SetFail
  <2>4. CASE GetMiss(r)
    BY <2>4, TrackRequest DEF GetMiss, Goto, TypeInv, TypeOK
  <2>5. CASE GetFill(r)
    BY <2>5, TrackEnd DEF GetFill
  <2>6. CASE DeleteStart(r)
    BY <2>6, TrackRequest DEF DeleteStart, Goto, Excused, TypeInv, TypeOK
  <2>7. CASE DeleteLimits(r)
    BY <2>7, TrackRequest DEF DeleteLimits, Goto, TrackInv, DeletionInv, TypeInv, TypeOK
  <2>8. CASE DeleteDirty(r)
    BY <2>8, TrackRequest DEF DeleteDirty, Goto, TrackInv, DeletionInv, Excused, TypeInv, TypeOK
  <2>9. CASE DeleteRedis(r)
    <3>1. \A s \in Subject : redisUsage'[s] = redisUsage[s] \/ Excused(s)'
      BY <2>9 DEF DeleteRedis, TrackInv, DeletionInv, Excused, TypeInv, TypeOK
    <3> QED
      BY <2>9, <3>1, TrackEnd DEF DeleteRedis
  <2>10. CASE DeleteFail(r)
    BY <2>10, TrackEnd DEF DeleteFail
  <2> QED
    BY <1>3, <2>1, <2>2, <2>3, <2>4, <2>5, <2>6, <2>7, <2>8, <2>9, <2>10 DEF Admin
<1>4. ASSUME Flush \/ FlushFail PROVE TrackInv'
  <2> USE DEF TrackInv
  <2>1. ASSUME UNCHANGED <<pc, args, history, usage>>
        PROVE  /\ \A s \in Subject : Marking(s)' <=> Marking(s)
               /\ \A s \in Subject : Excused(s)' <=> Excused(s)
               /\ DeletionInv'
    BY <2>1 DEF Marking, Excused, DeletionInv
  <2>2. CASE FlushCollect
    <3>1. DivergenceIsTracked'
      BY <2>1, <2>2 DEF FlushCollect, DivergenceIsTracked, Flushing, Excused
    <3>2. CarryInv' /\ AbsentInv'
      BY <2>1, <2>2 DEF FlushCollect, CarryInv, AbsentInv, Carried
    <3> QED
      BY <2>1, <2>2, <3>1, <3>2 DEF FlushCollect
  <2>3. CASE FlushDone
    <3>1. DivergenceIsTracked'
      BY <2>1, <2>3 DEF FlushDone, FlushIdle, DivergenceIsTracked, Flushing, Excused
    <3>2. CarryInv' /\ AbsentInv'
      BY <2>1, <2>3 DEF FlushDone, FlushIdle, CarryInv, AbsentInv, Carried
    <3> QED
      BY <2>1, <2>3, <3>1, <3>2 DEF FlushDone
  <2>4. CASE FlushFail
    <3>1. DivergenceIsTracked'
      BY <2>1, <2>4
         DEF FlushFail, FlushIdle, DivergenceIsTracked, Flushing, Excused, TypeInv, TypeOK
    <3>2. CarryInv' /\ AbsentInv'
      BY <2>1, <2>4 DEF FlushFail, FlushIdle, CarryInv, AbsentInv, Carried
    <3> QED
      BY <2>1, <2>4, <3>1, <3>2 DEF FlushFail
  <2>5. ASSUME NEW s \in Subject, FlushUnmark(s) PROVE TrackInv'
    <3>1. DivergenceIsTracked'
      BY <2>1, <2>5
         DEF FlushUnmark, DivergenceIsTracked, Flushing, Excused, TypeInv, TypeOK
    <3>2. CarryInv' /\ AbsentInv'
      BY <2>1, <2>5 DEF FlushUnmark, CarryInv, AbsentInv, Carried
    <3> QED
      BY <2>1, <2>5, <3>1, <3>2 DEF FlushUnmark
  <2>6. ASSUME NEW s \in Subject, FlushRead(s) PROVE TrackInv'
    <3>1. \A t \in Subject : Carried(t)' => Carried(t) \/ (t = s /\ usage[s] # None)
      BY <2>6 DEF FlushRead, Carried, TypeInv, TypeOK
    <3>2. \A t \in Subject : snap'[t] = IF t = s THEN usage[s] ELSE snap[t]
      BY <2>6 DEF FlushRead, TypeInv, TypeOK
    <3>3. ~Carried(s)
      BY <2>6 DEF FlushRead, Carried
    <3>4. DivergenceIsTracked'
      <4> SUFFICES ASSUME NEW t \in Subject, ValueOf(usage[t]) # ValueOf(redisUsage[t]),
                          t \notin dirty, ~Marking(t), ~Excused(t)
                   PROVE  Flushing(t)'
        BY <2>1, <2>6 DEF FlushRead, DivergenceIsTracked, Excused
      <4>1. Flushing(t)
        BY DEF DivergenceIsTracked, Excused
      <4>2. usage[t] # None
        BY DEF AbsentInv, ValueOf
      <4> QED
        BY <2>6, <3>2, <4>1, <4>2 DEF FlushRead, Flushing, TypeInv, TypeOK
    <3>5. CarryInv'
      BY <2>1, <2>6, <3>1, <3>2, <3>3 DEF FlushRead, CarryInv, TypeInv, TypeOK
    <3>6. AbsentInv'
      BY <2>1, <2>6, <3>1 DEF FlushRead, AbsentInv
    <3> QED
      BY <2>1, <2>6, <3>4, <3>5, <3>6 DEF FlushRead
  <2>7. ASSUME NEW s \in Subject, FlushWrite(s) PROVE TrackInv'
    <3>1. /\ Carried(s) /\ ~Carried(s)'
          /\ \A t \in Subject \ {s} : Carried(t)' <=> Carried(t)
          /\ \A t \in Subject \ {s} : redisUsage'[t] = redisUsage[t]
          /\ redisUsage'[s] = snap[s]
          /\ UNCHANGED <<pc, args, history, usage, dirty, snap>>
      BY <2>7 DEF FlushWrite, Carried, TypeInv, TypeOK
    <3>2. \A t \in Subject \ {s} : Flushing(t)' <=> Flushing(t)
      BY <2>7 DEF FlushWrite, Flushing
    <3>3. DivergenceIsTracked'
      <4> SUFFICES ASSUME NEW t \in Subject, ValueOf(usage[t]) # ValueOf(redisUsage'[t]),
                          t \notin dirty, ~Marking(t), ~Excused(t)
                   PROVE  Flushing(t)'
        BY <2>1, <3>1 DEF DivergenceIsTracked, Excused
      <4>1. t # s
        BY <3>1 DEF CarryInv
      <4> QED
        BY <3>1, <3>2, <4>1 DEF DivergenceIsTracked, Excused
    <3>4. CarryInv'
      BY <2>1, <3>1 DEF CarryInv
    <3>5. AbsentInv'
      BY <2>1, <3>1 DEF AbsentInv
    <3> QED
      BY <2>1, <3>1, <3>3, <3>4, <3>5
  <2> QED
    BY <1>4, <2>2, <2>3, <2>4, <2>5, <2>6, <2>7 DEF Flush
<1>5. CASE Crash
  <2>1. PICK skipped \in SUBSET {s \in Subject : redisUsage[s] # None} :
          /\ usage' = [s \in Subject |-> IF s \in skipped THEN None ELSE redisUsage[s]]
          /\ lost' = lost \cup (Subject \X {"crashed"}) \cup (skipped \X {"skipped"})
    BY <1>5 DEF Crash, LoadAllUsage, LoadAllLimits
  <2>2. \A s \in Subject : usage'[s] = redisUsage[s] \/ Excused(s)'
    BY <2>1 DEF Excused
  <2>3. /\ redisUsage' = redisUsage /\ flush' = "idle"
        /\ \A r \in Request : pc'[r] = "idle"
    BY <1>5 DEF Crash, LoadAllUsage, LoadAllLimits, FlushIdle
  <2>4. DivergenceIsTracked'
    BY <2>2, <2>3 DEF DivergenceIsTracked, Excused
  <2>5. CarryInv' /\ DeletionInv'
    BY <2>3 DEF CarryInv, DeletionInv, Carried
  <2>6. AbsentInv'
    BY <2>2, <2>3 DEF AbsentInv, Carried, ValueOf
  <2> QED
    BY <2>4, <2>5, <2>6 DEF TrackInv
<1>6. CASE UNCHANGED vars
  <2>1. UNCHANGED <<usage, dirty, redisUsage, pc, user, bucket, flush, keys, todo, snap, lost>>
    BY <1>6 DEF vars
  <2>2. DivergenceIsTracked'
    BY <2>1 DEF TrackInv, DivergenceIsTracked, Marking, Flushing
  <2>3. CarryInv' /\ AbsentInv' /\ DeletionInv'
    BY <2>1 DEF TrackInv, CarryInv, AbsentInv, DeletionInv, Carried, Marking, Excused
  <2> QED
    BY <2>2, <2>3 DEF TrackInv
<1> QED
  BY <1>1, <1>2, <1>3, <1>4, <1>5, <1>6 DEF Next

(* DivergenceIsTracked is invariant: no interleaving of updates, marks,    *)
(* flush rounds, failed writes and restarts loses a change of usage that   *)
(* Redis does not have yet.                                                *)
THEOREM NoUpdateForgotten == Spec => []DivergenceIsTracked
<1>1. TrackInv => DivergenceIsTracked
  BY DEF TrackInv
<1> QED
  BY TypeInit, TypeNext, TrackInit, TrackNext, <1>1, PTL DEF Spec

-----------------------------------------------------------------------------
(* Sums of units: finitely many members have finitely many. *)
LEMMA UnitsFinite ==
  ASSUME NEW S, NEW f, IsFiniteSet(S), \A a \in S : f[a] \in Nat
  PROVE  IsFiniteSet(Units(S, f)) /\ Total(S, f) \in Nat
<1> DEFINE P == {{a} \X (1..f[a]) : a \in S}
<1> DEFINE g == [a \in S |-> {a} \X (1..f[a])]
<1>1. g \in Surjection(S, P)
  BY DEF Surjection
<1>2. IsFiniteSet(P)
  <2> HIDE DEF g, P
  <2> QED BY <1>1, FS_Surjection
<1>3. ASSUME NEW a \in S PROVE IsFiniteSet({a} \X (1..f[a]))
  <2>1. IsFiniteSet({a})
    BY FS_Singleton
  <2>2. IsFiniteSet(1..f[a])
    <3> DEFINE n == f[a]
    <3>1. 1 \in Int /\ n \in Int
      OBVIOUS
    <3> HIDE DEF n
    <3>2. IsFiniteSet(1..n)
      BY <3>1, FS_Interval
    <3> QED BY <3>2 DEF n
  <2> QED BY <2>1, <2>2, FS_Product
<1>4. \A T \in P : IsFiniteSet(T)
  BY <1>3
<1>5. IsFiniteSet(UNION P)
  <2> HIDE DEF P
  <2> QED BY <1>2, <1>4, FS_UNION
<1> QED BY <1>5, FS_CardinalityType DEF Units, Total

(* One more member adds what it has. *)
LEMMA TotalAdd ==
  ASSUME NEW S, NEW f, IsFiniteSet(S), \A a \in S : f[a] \in Nat,
         NEW b, b \notin S, f[b] \in Nat
  PROVE  Total(S \cup {b}, f) = Total(S, f) + f[b]
<1> DEFINE U == Units(S, f)
<1> DEFINE V == {b} \X (1..f[b])
<1>1. Units(S \cup {b}, f) = U \cup V
  BY DEF Units
<1>2. U \cap V = {}
  BY DEF Units
<1>3. IsFiniteSet(U) /\ Cardinality(U) \in Nat
  BY UnitsFinite DEF Total
<1>4. IsFiniteSet(V) /\ Cardinality(V) = f[b]
  <2>1. IsFiniteSet({b}) /\ Cardinality({b}) = 1
    BY FS_Singleton
  <2>2. IsFiniteSet(1..f[b]) /\ Cardinality(1..f[b]) = f[b]
    <3> DEFINE n == f[b]
    <3>1. 1 \in Int /\ n \in Int /\ n \in Nat
      OBVIOUS
    <3> HIDE DEF n
    <3>2. IsFiniteSet(1..n) /\ Cardinality(1..n) = IF 1 > n THEN 0 ELSE n - 1 + 1
      BY <3>1, FS_Interval
    <3>3. (IF 1 > n THEN 0 ELSE n - 1 + 1) = n
      BY <3>1
    <3> QED BY <3>2, <3>3 DEF n
  <2>3. IsFiniteSet(V) /\ Cardinality(V) = Cardinality({b}) * Cardinality(1..f[b])
    BY <2>1, <2>2, FS_Product
  <2> QED BY <2>1, <2>2, <2>3
<1>5. Cardinality({}) = 0
  BY FS_EmptySet
<1> HIDE DEF U, V
<1>6. Cardinality(U \cup V) = Cardinality(U) + Cardinality(V) - Cardinality(U \cap V)
  BY <1>3, <1>4, FS_Union
<1>7. Cardinality(U \cup V) = Cardinality(U) + f[b]
  <2>1. Cardinality(U \cap V) = 0
    BY <1>2, <1>5
  <2>2. Cardinality(U \cup V) = Cardinality(U) + f[b] - 0
    BY <1>4, <1>6, <2>1
  <2> QED BY <1>3, <2>2
<1>8. Total(S \cup {b}, f) = Cardinality(U \cup V)
  BY <1>1 DEF Total
<1>9. Total(S, f) = Cardinality(U)
  BY DEF Total, U
<1> QED BY <1>7, <1>8, <1>9

(* Only what the members have matters. *)
LEMMA TotalSame ==
  ASSUME NEW S, NEW f, NEW g, \A a \in S : f[a] = g[a]
  PROVE  Total(S, f) = Total(S, g)
<1>1. Units(S, f) = Units(S, g)
  BY DEF Units
<1> QED BY <1>1 DEF Total

LEMMA TotalEmpty == ASSUME NEW f PROVE Total({}, f) = 0
<1>1. Units({}, f) = {}
  BY DEF Units
<1> QED BY <1>1, FS_EmptySet DEF Total

(* The share of one member, which may be outside. *)
LEMMA TotalShare ==
  ASSUME NEW S, NEW f, NEW b, IsFiniteSet(S), \A a \in S : f[a] \in Nat
  PROVE  /\ Total(S \ {b}, f) \in Nat
         /\ b \in S => Total(S, f) = Total(S \ {b}, f) + f[b]
         /\ b \notin S => Total(S, f) = Total(S \ {b}, f)
<1>1. IsFiniteSet(S \ {b})
  BY FS_RemoveElement
<1>2. Total(S \ {b}, f) \in Nat
  BY <1>1, UnitsFinite
<1>3. CASE b \in S
  <2>1. (S \ {b}) \cup {b} = S
    BY <1>3
  <2>2. Total((S \ {b}) \cup {b}, f) = Total(S \ {b}, f) + f[b]
    BY <1>1, <1>3, TotalAdd
  <2> QED BY <1>2, <1>3, <2>1, <2>2
<1>4. CASE b \notin S
  <2>1. S \ {b} = S
    BY <1>4
  <2> QED BY <1>2, <1>4, <2>1
<1> QED BY <1>3, <1>4

-----------------------------------------------------------------------------
(* What request r has reserved for s, and the part of receipt h. *)
Share(r, s, x) == IF InFlight(r, s) THEN delta[r][x] ELSE 0
Part(h, s, x) == IF s \in {h.user, h.bucket} THEN h.delta[x] ELSE 0

(* The other requests stay as they are. *)
StepOf(r) ==
  \A q \in Request \ {r} : /\ pc'[q] = pc[q] /\ user'[q] = user[q]
                           /\ bucket'[q] = bucket[q] /\ delta'[q] = delta[q]

(* A step of r changes what is reserved by the share of r. *)
LEMMA ReservedStep ==
  ASSUME delta \in [Request -> Amount], delta' \in [Request -> Amount],
         NEW r \in Request, NEW s, NEW x \in Resource, StepOf(r)
  PROVE  /\ Share(r, s, x) \in Nat /\ Share(r, s, x)' \in Nat
         /\ ReservedFor(s, x) \in Nat /\ ReservedFor(s, x) >= Share(r, s, x)
         /\ ReservedFor(s, x)' = ReservedFor(s, x) - Share(r, s, x) + Share(r, s, x)'
<1> DEFINE S == {q \in Request : InFlight(q, s)}
<1> DEFINE T == {q \in Request : InFlight(q, s)'}
<1> DEFINE f == [q \in Request |-> delta[q][x]]
<1> DEFINE g == [q \in Request |-> delta'[q][x]]
<1>1. \A q \in Request \ {r} : InFlight(q, s)' <=> InFlight(q, s)
  BY DEF InFlight, StepOf
<1>2. S \ {r} = T \ {r}
  BY <1>1
<1>3. Total(S \ {r}, f) = Total(T \ {r}, g)
  <2>1. \A q \in S \ {r} : f[q] = g[q]
    BY DEF StepOf
  <2> HIDE DEF S, T, f, g
  <2> QED BY <1>2, <2>1, TotalSame
<1>4. /\ delta[r][x] \in Nat /\ Total(S \ {r}, f) \in Nat
      /\ r \in S => Total(S, f) = Total(S \ {r}, f) + delta[r][x]
      /\ r \notin S => Total(S, f) = Total(S \ {r}, f)
  <2>1. IsFiniteSet(S)
    BY RequestAssumption, FS_Subset
  <2>2. \A q \in S : f[q] \in Nat
    BY DEF Amount
  <2>3. f[r] = delta[r][x] /\ f[r] \in Nat
    BY DEF Amount
  <2>4. /\ Total(S \ {r}, f) \in Nat
        /\ r \in S => Total(S, f) = Total(S \ {r}, f) + f[r]
        /\ r \notin S => Total(S, f) = Total(S \ {r}, f)
    <3> HIDE DEF S, f
    <3> QED BY <2>1, <2>2, TotalShare, Zenon
  <2> HIDE DEF S, T, f, g
  <2> QED BY <2>3, <2>4
<1>5. /\ delta'[r][x] \in Nat /\ Total(T \ {r}, g) \in Nat
      /\ r \in T => Total(T, g) = Total(T \ {r}, g) + delta'[r][x]
      /\ r \notin T => Total(T, g) = Total(T \ {r}, g)
  <2>1. IsFiniteSet(T)
    BY RequestAssumption, FS_Subset
  <2>2. \A q \in T : g[q] \in Nat
    BY DEF Amount
  <2>3. g[r] = delta'[r][x] /\ g[r] \in Nat
    BY DEF Amount
  <2>4. /\ Total(T \ {r}, g) \in Nat
        /\ r \in T => Total(T, g) = Total(T \ {r}, g) + g[r]
        /\ r \notin T => Total(T, g) = Total(T \ {r}, g)
    <3> HIDE DEF T, g
    <3> QED BY <2>1, <2>2, TotalShare, Zenon
  <2> HIDE DEF S, T, f, g
  <2> QED BY <2>3, <2>4
<1>6. /\ Share(r, s, x) = IF r \in S THEN delta[r][x] ELSE 0
      /\ Share(r, s, x)' = IF r \in T THEN delta'[r][x] ELSE 0
  BY DEF Share
<1>7. ReservedFor(s, x) = Total(S, f) /\ ReservedFor(s, x)' = Total(T, g)
  BY DEF ReservedFor
<1> HIDE DEF S, T, f, g
<1>8. /\ Share(r, s, x) \in Nat /\ Share(r, s, x)' \in Nat
  BY <1>4, <1>5, <1>6
<1>9. ReservedFor(s, x) = Total(S \ {r}, f) + Share(r, s, x)
  BY <1>4, <1>6, <1>7
<1>10. ReservedFor(s, x)' = Total(S \ {r}, f) + Share(r, s, x)'
  BY <1>3, <1>5, <1>6, <1>7
<1> QED BY <1>4, <1>8, <1>9, <1>10

(* Receipts: one more adds its part. *)
HeldSum(T, s, x) == Total({h \in T : s \in {h.user, h.bucket}}, [h \in T |-> h.delta[x]])

LEMMA ReceiptType ==
  ASSUME NEW h \in Receipt
  PROVE  /\ h.user \in User /\ h.bucket \in Bucket \cup {None} /\ h.delta \in Amount
         /\ \A s \in Subject, x \in Resource : Part(h, s, x) \in Nat
  BY DeltasAssumption DEF Receipt, Amount, Part

LEMMA HeldStep ==
  ASSUME NEW R \in SUBSET Receipt, IsFiniteSet(R), NEW h \in Receipt \ R,
         NEW s, NEW x \in Resource
  PROVE  /\ HeldSum(R, s, x) \in Nat
         /\ HeldSum(R \cup {h}, s, x) = HeldSum(R, s, x) + Part(h, s, x)
<1> DEFINE T == R \cup {h}
<1> DEFINE f == [k \in T |-> k.delta[x]]
<1> DEFINE g == [k \in R |-> k.delta[x]]
<1> DEFINE S == {k \in T : s \in {k.user, k.bucket}}
<1> DEFINE Q == {k \in R : s \in {k.user, k.bucket}}
<1>1. \A k \in T : f[k] \in Nat
  BY ReceiptType DEF Amount
<1>2. IsFiniteSet(T)
  BY FS_AddElement
<1>3. IsFiniteSet(S)
  BY <1>2, FS_Subset
<1>4. S \ {h} = Q
  OBVIOUS
<1>5. \A k \in Q : f[k] = g[k]
  OBVIOUS
<1>6. /\ Total(S \ {h}, f) \in Nat
      /\ h \in S => Total(S, f) = Total(S \ {h}, f) + f[h]
      /\ h \notin S => Total(S, f) = Total(S \ {h}, f)
  <2>1. \A k \in S : f[k] \in Nat
    BY <1>1
  <2> HIDE DEF S, f
  <2> QED BY <1>3, <2>1, TotalShare, Zenon
<1>7. Total(Q, f) = Total(Q, g)
  <2> HIDE DEF Q, f, g
  <2> QED BY <1>5, TotalSame
<1>8. Part(h, s, x) = IF h \in S THEN f[h] ELSE 0
  BY DEF Part
<1>9. HeldSum(R, s, x) = Total(Q, g) /\ HeldSum(R \cup {h}, s, x) = Total(S, f)
  BY DEF HeldSum
<1> HIDE DEF S, Q, f, g
<1> QED BY <1>4, <1>6, <1>7, <1>8, <1>9

LEMMA HeldNat ==
  ASSUME NEW R \in SUBSET Receipt, IsFiniteSet(R), NEW s, NEW x \in Resource
  PROVE  HeldSum(R, s, x) \in Nat
<1> DEFINE S == {h \in R : s \in {h.user, h.bucket}}
<1> DEFINE f == [h \in R |-> h.delta[x]]
<1>1. IsFiniteSet(S)
  BY FS_Subset
<1>2. \A h \in S : f[h] \in Nat
  BY ReceiptType DEF Amount
<1>3. Total(S, f) \in Nat
  <2> HIDE DEF S, f
  <2> QED BY <1>1, <1>2, UnitsFinite
<1> QED BY <1>3 DEF HeldSum

-----------------------------------------------------------------------------
(* The usage is the sum. *)
ConsInv == IsFiniteSet(held) /\ Conservation

LEMMA ConsInit == Init => ConsInv
<1> SUFFICES ASSUME Init PROVE ConsInv
  OBVIOUS
<1>1. IsFiniteSet(held)
  BY FS_EmptySet DEF Init
<1>2. ASSUME NEW s \in Subject, NEW x \in Resource
      PROVE  ValueOf(usage[s])[x] = HeldFor(s, x) + ReservedFor(s, x)
  <2>1. ValueOf(usage[s])[x] = 0
    BY DEF Init, ValueOf, Zero
  <2>2. {h \in held : s \in {h.user, h.bucket}} = {}
    BY DEF Init
  <2>3. {r \in Request : InFlight(r, s)} = {}
    BY DEF Init, InFlight
  <2>4. HeldFor(s, x) = 0 /\ ReservedFor(s, x) = 0
    BY <2>2, <2>3, TotalEmpty DEF HeldFor, ReservedFor
  <2> QED BY <2>1, <2>4
<1> QED BY <1>1, <1>2 DEF ConsInv, Conservation

(* Nothing that the sum is about changes. *)
LEMMA ConsFrame ==
  ASSUME TypeInv, ConsInv, UNCHANGED held, lost \subseteq lost',
         UNCHANGED <<pc, user, bucket, delta>>, \A s \in Subject : UNCHANGED ValueOf(usage[s])
  PROVE  ConsInv'
<1>1. IsFiniteSet(held')
  BY DEF ConsInv
<1>2. ASSUME NEW s \in Subject, NEW x \in Resource, Untouched(s)'
      PROVE  ValueOf(usage'[s])[x] = HeldFor(s, x)' + ReservedFor(s, x)'
  <2>1. Untouched(s)
    BY <1>2 DEF Untouched
  <2>2. HeldFor(s, x)' = HeldFor(s, x)
    BY DEF HeldFor
  <2>3. {r \in Request : InFlight(r, s)'} = {r \in Request : InFlight(r, s)}
    BY DEF InFlight
  <2>4. ReservedFor(s, x)' = ReservedFor(s, x)
    BY <2>3 DEF ReservedFor
  <2>5. ValueOf(usage'[s])[x] = ValueOf(usage[s])[x]
    OBVIOUS
  <2> QED BY <2>1, <2>2, <2>4, <2>5 DEF ConsInv, Conservation
<1> QED BY <1>1, <1>2 DEF ConsInv, Conservation

(* A step of r balances when the usage changes by what r and the receipts  *)
(* change by.                                                              *)
Balanced(r, s, x) ==
  Untouched(s)' => ValueOf(usage'[s])[x] - ValueOf(usage[s])[x]
    = HeldFor(s, x)' - HeldFor(s, x) + Share(r, s, x)' - Share(r, s, x)

LEMMA ConsStep ==
  ASSUME TypeInv, TypeInv', ConsInv, NEW r \in Request, StepOf(r),
         IsFiniteSet(held'), lost \subseteq lost',
         \A s \in Subject, x \in Resource : Balanced(r, s, x)
  PROVE  ConsInv'
<1> SUFFICES ASSUME NEW s \in Subject, NEW x \in Resource, Untouched(s)'
             PROVE  ValueOf(usage'[s])[x] = HeldFor(s, x)' + ReservedFor(s, x)'
  BY DEF ConsInv, Conservation
<1>1. Untouched(s)
  BY DEF Untouched
<1>2. ValueOf(usage[s])[x] = HeldFor(s, x) + ReservedFor(s, x)
  BY <1>1 DEF ConsInv, Conservation
<1>3. /\ Share(r, s, x) \in Nat /\ Share(r, s, x)' \in Nat /\ ReservedFor(s, x) \in Nat
      /\ ReservedFor(s, x)' = ReservedFor(s, x) - Share(r, s, x) + Share(r, s, x)'
  BY ReservedStep DEF TypeInv, TypeOK
<1>4. HeldFor(s, x) \in Nat
  <2>1. HeldFor(s, x) = HeldSum(held, s, x)
    BY DEF HeldFor, HeldSum
  <2>2. held \in SUBSET Receipt /\ IsFiniteSet(held)
    BY DEF TypeInv, TypeOK, ConsInv
  <2> QED BY <2>1, <2>2, HeldNat
<1>5. HeldFor(s, x)' \in Nat
  <2>1. HeldFor(s, x)' = HeldSum(held', s, x)
    BY DEF HeldFor, HeldSum
  <2>2. held' \in SUBSET Receipt
    BY DEF TypeInv, TypeOK
  <2> QED BY <2>1, <2>2, HeldNat
<1>6. ValueOf(usage'[s])[x] \in Nat
  <2>1. usage'[s] \in Amount \cup {None}
    BY DEF TypeInv, TypeOK
  <2>2. ValueOf(usage'[s]) \in Amount
    BY <2>1, ValueAmount
  <2> QED BY <2>2 DEF Amount
<1>7. ValueOf(usage'[s])[x] - ValueOf(usage[s])[x]
        = HeldFor(s, x)' - HeldFor(s, x) + Share(r, s, x)' - Share(r, s, x)
  BY DEF Balanced
<1> QED BY <1>2, <1>3, <1>4, <1>5, <1>6, <1>7

LEMMA EndStep ==
  ASSUME TypeInv, NEW r \in Request, End(r)
  PROVE  StepOf(r) /\ \A s \in Subject, x \in Resource : Share(r, s, x)' = 0
<1>1. StepOf(r) /\ pc'[r] = "idle"
  BY DEF End, Goto, StepOf, TypeInv, TypeOK
<1> QED BY <1>1 DEF Share, InFlight

LEMMA GotoStep ==
  ASSUME TypeInv, NEW r \in Request, NEW l, Goto(r, l), UNCHANGED <<user, bucket, delta>>
  PROVE  /\ StepOf(r) /\ pc'[r] = l
         /\ user'[r] = user[r] /\ bucket'[r] = bucket[r] /\ delta'[r] = delta[r]
  BY DEF Goto, StepOf, TypeInv, TypeOK

LEMMA SubjectsApart ==
  /\ User \subseteq Subject /\ Bucket \subseteq Subject /\ None \notin Subject
  /\ \A u \in User, b \in Bucket \cup {None} : u # b
  BY SubjectAssumption DEF Subject

(* A granted reservation adds the amount, a denied one nothing. *)
LEMMA ReserveValue ==
  ASSUME TypeInv, NEW r \in Request, NEW s \in Subject, Reserve(r, s), NEW x \in Resource
  PROVE  /\ \A t \in Subject \ {s} : ValueOf(usage'[t])[x] = ValueOf(usage[t])[x]
         /\ ValueOf(usage[s])[x] \in Nat
         /\ ValueOf(usage'[s])[x] = IF WouldExceed(ValueOf(usage[s]), lim[r], delta[r])
                                      THEN ValueOf(usage[s])[x]
                                      ELSE ValueOf(usage[s])[x] + delta[r][x]
<1> DEFINE cur == ValueOf(usage[s])
<1> DEFINE denied == WouldExceed(cur, lim[r], delta[r])
<1>1. cur \in Amount /\ delta[r] \in Amount
  BY ValueAmount DEF TypeInv, TypeOK
<1>2. Apply(cur, delta[r]) \in Amount
  BY <1>1, ApplyAmount
<1>3. ValueOf(cur) = cur /\ ValueOf(Apply(cur, delta[r])) = Apply(cur, delta[r])
  BY <1>1, <1>2, ValueFacts
<1>4. cur[x] \in Nat /\ Apply(cur, delta[r])[x] = cur[x] + delta[r][x]
  BY <1>1 DEF Apply, Amount
<1>5. usage' = [usage EXCEPT ![s] = IF denied THEN cur ELSE Apply(cur, delta[r])]
  BY DEF Reserve
<1>6. \A t \in Subject \ {s} : usage'[t] = usage[t]
  BY <1>5 DEF TypeInv, TypeOK
<1>7. usage'[s] = IF denied THEN cur ELSE Apply(cur, delta[r])
  BY <1>5 DEF TypeInv, TypeOK
<1> HIDE DEF cur, denied
<1>8. ValueOf(usage'[s])[x] = IF denied THEN cur[x] ELSE cur[x] + delta[r][x]
  BY <1>3, <1>4, <1>7
<1> QED BY <1>4, <1>6, <1>8 DEF cur, denied

(* What is given back is taken off, if it is there. *)
LEMMA UpdateValue ==
  ASSUME TypeInv, NEW d \in Amount, NEW s \in Subject, Update(s, Negate(d)), NEW x \in Resource
  PROVE  /\ \A t \in Subject \ {s} : ValueOf(usage'[t])[x] = ValueOf(usage[t])[x]
         /\ ValueOf(usage[s])[x] \in Nat /\ d[x] \in Nat
         /\ ValueOf(usage[s])[x] >= d[x] =>
              ValueOf(usage'[s])[x] = ValueOf(usage[s])[x] - d[x]
<1> DEFINE cur == ValueOf(usage[s])
<1>1. cur \in Amount
  BY ValueAmount DEF TypeInv, TypeOK
<1>2. Apply(cur, Negate(d)) \in Amount
  BY <1>1, ApplyAmount
<1>3. ValueOf(Apply(cur, Negate(d))) = Apply(cur, Negate(d))
  BY <1>2, ValueFacts
<1>4. cur[x] \in Nat /\ d[x] \in Nat
  BY <1>1 DEF Amount
<1>5. cur[x] >= d[x] => Apply(cur, Negate(d))[x] = cur[x] - d[x]
  BY <1>4 DEF Apply, Negate
<1>6. usage' = [usage EXCEPT ![s] = Apply(cur, Negate(d))]
  BY DEF Update
<1>7. \A t \in Subject \ {s} : usage'[t] = usage[t]
  BY <1>6 DEF TypeInv, TypeOK
<1>8. usage'[s] = Apply(cur, Negate(d))
  BY <1>6 DEF TypeInv, TypeOK
<1> HIDE DEF cur
<1> QED BY <1>3, <1>4, <1>5, <1>7, <1>8 DEF cur

(* The usage covers what is held and what r has reserved. *)
LEMMA Covered ==
  ASSUME TypeInv, TypeInv', ConsInv, NEW r \in Request, StepOf(r),
         NEW s \in Subject, NEW x \in Resource, Untouched(s)
  PROVE  /\ HeldFor(s, x) \in Nat /\ Share(r, s, x) \in Nat
         /\ ValueOf(usage[s])[x] >= HeldFor(s, x) + Share(r, s, x)
<1>1. HeldFor(s, x) \in Nat
  <2>1. HeldFor(s, x) = HeldSum(held, s, x)
    BY DEF HeldFor, HeldSum
  <2>2. held \in SUBSET Receipt /\ IsFiniteSet(held)
    BY DEF TypeInv, TypeOK, ConsInv
  <2> QED BY <2>1, <2>2, HeldNat
<1>2. /\ Share(r, s, x) \in Nat /\ ReservedFor(s, x) \in Nat
      /\ ReservedFor(s, x) >= Share(r, s, x)
  BY ReservedStep DEF TypeInv, TypeOK
<1>3. ValueOf(usage[s])[x] = HeldFor(s, x) + ReservedFor(s, x)
  BY DEF ConsInv, Conservation
<1> QED BY <1>1, <1>2, <1>3

(* A step of r that keeps the receipts. *)
LEMMA ConsKeep ==
  ASSUME TypeInv, TypeInv', ConsInv, NEW r \in Request, StepOf(r),
         UNCHANGED held, lost \subseteq lost',
         \A s \in Subject, x \in Resource : Untouched(s) /\ Untouched(s)' =>
           ValueOf(usage'[s])[x] - ValueOf(usage[s])[x] = Share(r, s, x)' - Share(r, s, x)
  PROVE  ConsInv'
<1>1. IsFiniteSet(held')
  BY DEF ConsInv
<1>2. ASSUME NEW s \in Subject, NEW x \in Resource, Untouched(s)'
      PROVE  ValueOf(usage'[s])[x] - ValueOf(usage[s])[x]
               = HeldFor(s, x)' - HeldFor(s, x) + Share(r, s, x)' - Share(r, s, x)
  <2>1. Untouched(s)
    BY <1>2 DEF Untouched
  <2>2. HeldFor(s, x)' = HeldFor(s, x)
    BY DEF HeldFor
  <2>3. HeldFor(s, x) \in Nat
    BY <2>1, Covered
  <2>4. Share(r, s, x) \in Nat /\ Share(r, s, x)' \in Nat
    BY ReservedStep DEF TypeInv, TypeOK
  <2>5. ValueOf(usage'[s])[x] - ValueOf(usage[s])[x] = Share(r, s, x)' - Share(r, s, x)
    BY <1>2, <2>1
  <2> QED BY <2>2, <2>3, <2>4, <2>5
<1> QED BY <1>1, <1>2, ConsStep DEF Balanced

(* A grant turns the reservation of r into a receipt. *)
LEMMA GrantHeld ==
  ASSUME TypeInv, ConsInv, NEW r \in Request, Grant(r), pc[r] \in Checking
  PROVE  /\ IsFiniteSet(held')
         /\ \A s \in Subject, x \in Resource :
              /\ HeldFor(s, x) \in Nat
              /\ HeldFor(s, x)' = HeldFor(s, x)
                   + (IF s \in {user[r], bucket[r]} THEN delta[r][x] ELSE 0)
<1>1. PICK n \in 1..MaxGrants :
        /\ \A h \in held : h.n # n
        /\ held' = held \cup {[n |-> n, user |-> user[r], bucket |-> bucket[r], delta |-> delta[r]]}
  BY DEF Grant
<1> DEFINE k == [n |-> n, user |-> user[r], bucket |-> bucket[r], delta |-> delta[r]]
<1>2. user[r] \in User /\ bucket[r] \in Bucket \cup {None} /\ delta[r] \in Deltas
  BY DEF TypeInv, TypeOK, ArgInv
<1>3. k \in Receipt /\ k.n = n /\ k.user = user[r] /\ k.bucket = bucket[r] /\ k.delta = delta[r]
  BY <1>2 DEF Receipt
<1>4. k \notin held
  BY <1>1, <1>3
<1>5. held' = held \cup {k} /\ held \in SUBSET Receipt /\ IsFiniteSet(held)
  BY <1>1 DEF TypeInv, TypeOK, ConsInv
<1> HIDE DEF k
<1>6. IsFiniteSet(held')
  BY <1>5, FS_AddElement
<1>7. ASSUME NEW s \in Subject, NEW x \in Resource
      PROVE  /\ HeldFor(s, x) \in Nat
             /\ HeldFor(s, x)' = HeldFor(s, x)
                  + (IF s \in {user[r], bucket[r]} THEN delta[r][x] ELSE 0)
  <2>1. HeldFor(s, x) = HeldSum(held, s, x) /\ HeldFor(s, x)' = HeldSum(held', s, x)
    BY DEF HeldFor, HeldSum
  <2>2. /\ HeldSum(held, s, x) \in Nat
        /\ HeldSum(held \cup {k}, s, x) = HeldSum(held, s, x) + Part(k, s, x)
    BY <1>3, <1>4, <1>5, HeldStep
  <2>3. Part(k, s, x) = IF s \in {user[r], bucket[r]} THEN delta[r][x] ELSE 0
    BY <1>3 DEF Part
  <2> QED BY <1>5, <2>1, <2>2, <2>3
<1> QED BY <1>6, <1>7

LEMMA ConsCheck ==
  ASSUME TypeInv, TypeInv', ConsInv, NEW r \in Request, CheckStart(r) \/ Check(r)
  PROVE  ConsInv'
<1> DEFINE V(s, x) == ValueOf(usage[s])[x]
<1>a. /\ user[r] \in Subject \cup {None} /\ bucket[r] \in Bucket \cup {None} /\ delta[r] \in Amount
      /\ pc[r] # "idle" => user[r] \in Subject
      /\ pc[r] \in Checking => user[r] \in User
      /\ pc[r] \in OnBucket => bucket[r] \in Bucket
  BY DEF TypeInv, TypeOK, ArgInv
<1>v. \A s \in Subject, x \in Resource : V(s, x) \in Nat
  <2>1. ASSUME NEW s \in Subject, NEW x \in Resource PROVE V(s, x) \in Nat
    <3>1. ValueOf(usage[s]) \in Amount
      BY ValueAmount DEF TypeInv, TypeOK
    <3> QED BY <3>1 DEF Amount
  <2> QED BY <2>1
<1>z. ASSUME StepOf(r), UNCHANGED <<held, usage, lost>>,
             \A s \in Subject, x \in Resource : Share(r, s, x)' = Share(r, s, x)
      PROVE  ConsInv'
  <2>1. ASSUME NEW s \in Subject, NEW x \in Resource
        PROVE  ValueOf(usage'[s])[x] - ValueOf(usage[s])[x] = Share(r, s, x)' - Share(r, s, x)
    <3>1. Share(r, s, x) \in Nat
      BY <1>z, ReservedStep DEF TypeInv, TypeOK
    <3>2. ValueOf(usage'[s])[x] = ValueOf(usage[s])[x]
      BY <1>z
    <3> QED BY <1>v, <1>z, <3>1, <3>2
  <2> QED BY <1>z, <2>1, ConsKeep
<1>1. CASE CheckStart(r)
  <2>1. StepOf(r) /\ pc[r] = "idle" /\ pc'[r] = "c_reserve"
    BY <1>1 DEF CheckStart, Goto, StepOf, TypeInv, TypeOK
  <2>2. \A s \in Subject, x \in Resource : Share(r, s, x)' = Share(r, s, x)
    BY <2>1 DEF Share, InFlight
  <2> QED BY <1>1, <1>z, <2>1, <2>2 DEF CheckStart, cache, history
<1>2. CASE CheckReserve(r)
  <2>0. /\ pc[r] = "c_reserve" /\ Reserve(r, user[r]) /\ user[r] \in User /\ user[r] \in Subject
        /\ UNCHANGED <<held, lost>>
    BY <1>2, <1>a DEF CheckReserve, Checking, clients, history
  <2>1. \A s \in Subject, x \in Resource : Share(r, s, x) = 0
    BY <2>0 DEF Share, InFlight
  <2>2. CASE WouldExceed(ValueOf(usage[user[r]]), lim[r], delta[r])
    <3>1. StepOf(r) /\ \A s \in Subject, x \in Resource : Share(r, s, x)' = 0
      BY <1>2, <2>2, EndStep DEF CheckReserve
    <3>2. ASSUME NEW s \in Subject, NEW x \in Resource
          PROVE  ValueOf(usage'[s])[x] - ValueOf(usage[s])[x] = Share(r, s, x)' - Share(r, s, x)
      <4>1. ValueOf(usage'[s])[x] = ValueOf(usage[s])[x]
        BY <2>0, <2>2, ReserveValue
      <4> QED BY <1>v, <2>1, <3>1, <4>1
    <3> QED BY <2>0, <3>1, <3>2, ConsKeep
  <2>3. CASE ~WouldExceed(ValueOf(usage[user[r]]), lim[r], delta[r])
    <3>1. /\ StepOf(r) /\ pc'[r] = "c_mark"
          /\ user'[r] = user[r] /\ bucket'[r] = bucket[r] /\ delta'[r] = delta[r]
      BY <1>2, <2>3, GotoStep DEF CheckReserve, args
    <3>2. \A s \in Subject, x \in Resource :
            Share(r, s, x)' = IF s = user[r] THEN delta[r][x] ELSE 0
      BY <3>1 DEF Share, InFlight
    <3>3. ASSUME NEW s \in Subject, NEW x \in Resource
          PROVE  ValueOf(usage'[s])[x] - ValueOf(usage[s])[x] = Share(r, s, x)' - Share(r, s, x)
      <4>1. delta[r][x] \in Nat
        BY <1>a DEF Amount
      <4>2. ValueOf(usage'[s])[x] = ValueOf(usage[s])[x] + (IF s = user[r] THEN delta[r][x] ELSE 0)
        <5>1. CASE s = user[r]
          BY <2>0, <2>3, <5>1, ReserveValue
        <5>2. CASE s # user[r]
          <6>1. ValueOf(usage'[s])[x] = ValueOf(usage[s])[x]
            BY <2>0, <5>2, ReserveValue
          <6> QED BY <1>v, <5>2, <6>1
        <5> QED BY <5>1, <5>2
      <4> QED BY <1>v, <2>1, <3>2, <4>1, <4>2
    <3> QED BY <2>0, <3>1, <3>3, ConsKeep
  <2> QED BY <2>2, <2>3
<1>3. CASE CheckMark(r)
  <2>0. pc[r] = "c_mark" /\ user[r] \in User /\ UNCHANGED <<usage, lost>>
    BY <1>3, <1>a DEF CheckMark, Checking, history
  <2>1. \A s \in Subject, x \in Resource :
          Share(r, s, x) = IF s = user[r] THEN delta[r][x] ELSE 0
    BY <2>0 DEF Share, InFlight
  <2>2. CASE bucket[r] = None
    <3>1. StepOf(r) /\ \A s \in Subject, x \in Resource : Share(r, s, x)' = 0
      BY <1>3, <2>2, EndStep DEF CheckMark
    <3>2. /\ IsFiniteSet(held')
          /\ \A s \in Subject, x \in Resource :
               /\ HeldFor(s, x) \in Nat
               /\ HeldFor(s, x)' = HeldFor(s, x)
                    + (IF s \in {user[r], bucket[r]} THEN delta[r][x] ELSE 0)
      BY <1>3, <2>0, <2>2, GrantHeld DEF CheckMark, Checking
    <3>3. ASSUME NEW s \in Subject, NEW x \in Resource PROVE Balanced(r, s, x)
      <4>1. s # bucket[r]
        BY <2>2, SubjectsApart
      <4>2. delta[r][x] \in Nat
        BY <1>a DEF Amount
      <4>3. ValueOf(usage'[s])[x] = ValueOf(usage[s])[x]
        BY <2>0
      <4>4. HeldFor(s, x) \in Nat /\ HeldFor(s, x)' = HeldFor(s, x) + Share(r, s, x)
        <5>1. /\ HeldFor(s, x) \in Nat
              /\ HeldFor(s, x)' = HeldFor(s, x)
                   + (IF s \in {user[r], bucket[r]} THEN delta[r][x] ELSE 0)
          BY <3>2
        <5>2. (IF s \in {user[r], bucket[r]} THEN delta[r][x] ELSE 0) = Share(r, s, x)
          BY <2>1, <4>1
        <5> QED BY <5>1, <5>2
      <4>5. Share(r, s, x) \in Nat /\ Share(r, s, x)' = 0
        BY <2>1, <3>1, <4>2
      <4> QED BY <1>v, <4>3, <4>4, <4>5 DEF Balanced
    <3> QED BY <2>0, <3>1, <3>2, <3>3, ConsStep
  <2>3. CASE bucket[r] # None
    <3>1. /\ StepOf(r) /\ pc'[r] = "c_blimit" /\ UNCHANGED held
          /\ user'[r] = user[r] /\ bucket'[r] = bucket[r] /\ delta'[r] = delta[r]
      BY <1>3, <2>3, GotoStep DEF CheckMark, args
    <3>2. \A s \in Subject, x \in Resource : Share(r, s, x)' = Share(r, s, x)
      BY <2>0, <3>1 DEF Share, InFlight
    <3> QED BY <1>z, <2>0, <3>1, <3>2
  <2> QED BY <2>2, <2>3
<1>4. CASE CheckBucketLimit(r)
  <2>1. /\ StepOf(r) /\ pc'[r] = "c_breserve" /\ pc[r] = "c_blimit"
        /\ user'[r] = user[r] /\ bucket'[r] = bucket[r] /\ delta'[r] = delta[r]
    BY <1>4, GotoStep DEF CheckBucketLimit
  <2>2. \A s \in Subject, x \in Resource : Share(r, s, x)' = Share(r, s, x)
    BY <2>1 DEF Share, InFlight
  <2> QED BY <1>4, <1>z, <2>1, <2>2 DEF CheckBucketLimit, cache, clients, history
<1>5. CASE CheckBucketReserve(r)
  <2>0. /\ pc[r] = "c_breserve" /\ Reserve(r, bucket[r]) /\ user[r] \in User
        /\ bucket[r] \in Bucket /\ bucket[r] \in Subject /\ user[r] # bucket[r]
        /\ UNCHANGED <<held, lost>>
    BY <1>5, <1>a, SubjectsApart DEF CheckBucketReserve, Checking, OnBucket, clients, history
  <2>1. /\ StepOf(r)
        /\ pc'[r] = IF WouldExceed(ValueOf(usage[bucket[r]]), lim[r], delta[r])
                      THEN "c_undo" ELSE "c_bmark"
        /\ user'[r] = user[r] /\ bucket'[r] = bucket[r] /\ delta'[r] = delta[r]
    BY <1>5, GotoStep DEF CheckBucketReserve, args
  <2>2. ASSUME NEW s \in Subject, NEW x \in Resource
        PROVE  ValueOf(usage'[s])[x] - ValueOf(usage[s])[x] = Share(r, s, x)' - Share(r, s, x)
    <3>0. delta[r][x] \in Nat
      BY <1>a DEF Amount
    <3>1. Share(r, s, x) = IF s = user[r] THEN delta[r][x] ELSE 0
      BY <2>0 DEF Share, InFlight
    <3>2. CASE s = bucket[r]
      <4>1. Share(r, s, x) = 0
        BY <2>0, <3>1, <3>2
      <4>2. CASE WouldExceed(ValueOf(usage[bucket[r]]), lim[r], delta[r])
        <5>1. ValueOf(usage'[s])[x] = ValueOf(usage[s])[x]
          BY <2>0, <3>2, <4>2, ReserveValue
        <5>2. Share(r, s, x)' = 0
          BY <2>0, <2>1, <3>2, <4>2 DEF Share, InFlight
        <5> QED BY <1>v, <4>1, <5>1, <5>2
      <4>3. CASE ~WouldExceed(ValueOf(usage[bucket[r]]), lim[r], delta[r])
        <5>1. ValueOf(usage'[s])[x] = ValueOf(usage[s])[x] + delta[r][x]
          BY <2>0, <3>2, <4>3, ReserveValue
        <5>2. Share(r, s, x)' = delta[r][x]
          BY <2>0, <2>1, <3>2, <4>3 DEF Share, InFlight
        <5> QED BY <1>v, <3>0, <4>1, <5>1, <5>2
      <4> QED BY <4>2, <4>3
    <3>3. CASE s # bucket[r]
      <4>1. ValueOf(usage'[s])[x] = ValueOf(usage[s])[x]
        BY <2>0, <3>3, ReserveValue
      <4>2. Share(r, s, x)' = IF s = user[r] THEN delta[r][x] ELSE 0
        BY <2>0, <2>1, <3>3 DEF Share, InFlight
      <4> QED BY <1>v, <3>0, <3>1, <4>1, <4>2
    <3> QED BY <3>2, <3>3
  <2> QED BY <2>0, <2>1, <2>2, ConsKeep
<1>6. CASE CheckBucketMark(r)
  <2>0. /\ pc[r] = "c_bmark" /\ user[r] \in User /\ bucket[r] \in Bucket
        /\ UNCHANGED <<usage, lost>>
    BY <1>6, <1>a DEF CheckBucketMark, Checking, OnBucket, history
  <2>1. \A s \in Subject, x \in Resource :
          Share(r, s, x) = IF s \in {user[r], bucket[r]} THEN delta[r][x] ELSE 0
    BY <2>0 DEF Share, InFlight
  <2>2. StepOf(r) /\ \A s \in Subject, x \in Resource : Share(r, s, x)' = 0
    BY <1>6, EndStep DEF CheckBucketMark
  <2>3. /\ IsFiniteSet(held')
        /\ \A s \in Subject, x \in Resource :
             /\ HeldFor(s, x) \in Nat
             /\ HeldFor(s, x)' = HeldFor(s, x)
                  + (IF s \in {user[r], bucket[r]} THEN delta[r][x] ELSE 0)
    BY <1>6, <2>0, GrantHeld DEF CheckBucketMark, Checking
  <2>4. ASSUME NEW s \in Subject, NEW x \in Resource PROVE Balanced(r, s, x)
    <3>1. delta[r][x] \in Nat
      BY <1>a DEF Amount
    <3>2. ValueOf(usage'[s])[x] = ValueOf(usage[s])[x]
      BY <2>0
    <3>3. HeldFor(s, x) \in Nat /\ HeldFor(s, x)' = HeldFor(s, x) + Share(r, s, x)
      <4>1. /\ HeldFor(s, x) \in Nat
            /\ HeldFor(s, x)' = HeldFor(s, x)
                 + (IF s \in {user[r], bucket[r]} THEN delta[r][x] ELSE 0)
        BY <2>3
      <4>2. (IF s \in {user[r], bucket[r]} THEN delta[r][x] ELSE 0) = Share(r, s, x)
        BY <2>1
      <4> QED BY <4>1, <4>2
    <3>4. Share(r, s, x) \in Nat /\ Share(r, s, x)' = 0
      BY <2>1, <2>2, <3>1
    <3> QED BY <1>v, <3>2, <3>3, <3>4 DEF Balanced
  <2> QED BY <2>0, <2>2, <2>3, <2>4, ConsStep
<1>7. CASE CheckUndo(r)
  <2>0. /\ pc[r] = "c_undo" /\ user[r] \in User /\ user[r] \in Subject
        /\ Update(user[r], Negate(delta[r])) /\ UNCHANGED <<held, lost>>
    BY <1>7, <1>a DEF CheckUndo, Checking, clients, history
  <2>1. /\ StepOf(r) /\ pc'[r] = "c_umark"
    BY <1>7, GotoStep DEF CheckUndo, args
  <2>2. ASSUME NEW s \in Subject, NEW x \in Resource, Untouched(s)
        PROVE  ValueOf(usage'[s])[x] - ValueOf(usage[s])[x] = Share(r, s, x)' - Share(r, s, x)
    <3>1. Share(r, s, x)' = 0
      BY <2>1 DEF Share, InFlight
    <3>2. Share(r, s, x) = IF s = user[r] THEN delta[r][x] ELSE 0
      BY <2>0 DEF Share, InFlight
    <3>3. CASE s = user[r]
      <4>1. HeldFor(s, x) \in Nat /\ ValueOf(usage[s])[x] >= HeldFor(s, x) + Share(r, s, x)
        BY <2>1, <2>2, Covered
      <4>2. delta[r][x] \in Nat
        BY <1>a DEF Amount
      <4>3. ValueOf(usage[s])[x] >= delta[r][x]
        BY <1>v, <3>2, <3>3, <4>1, <4>2
      <4>4. ValueOf(usage'[s])[x] = ValueOf(usage[s])[x] - delta[r][x]
        BY <1>a, <2>0, <3>3, <4>3, UpdateValue
      <4> QED BY <1>v, <3>1, <3>2, <3>3, <4>2, <4>4
    <3>4. CASE s # user[r]
      <4>1. ValueOf(usage'[s])[x] = ValueOf(usage[s])[x]
        BY <1>a, <2>0, <3>4, UpdateValue
      <4> QED BY <1>v, <3>1, <3>2, <3>4, <4>1
    <3> QED BY <3>3, <3>4
  <2> QED BY <2>0, <2>1, <2>2, ConsKeep
<1>8. CASE CheckUndoMark(r)
  <2>1. StepOf(r) /\ \A s \in Subject, x \in Resource : Share(r, s, x)' = 0
    BY <1>8, EndStep DEF CheckUndoMark
  <2>2. \A s \in Subject, x \in Resource : Share(r, s, x) = 0
    BY <1>8 DEF CheckUndoMark, Share, InFlight
  <2> QED BY <1>8, <1>z, <2>1, <2>2 DEF CheckUndoMark, clients, history
<1> QED
  BY <1>1, <1>2, <1>3, <1>4, <1>5, <1>6, <1>7, <1>8 DEF Check

LEMMA ConsRelease ==
  ASSUME TypeInv, TypeInv', ConsInv, NEW r \in Request, UpdateStart(r) \/ Release(r)
  PROVE  ConsInv'
<1>v. \A s \in Subject, x \in Resource : ValueOf(usage[s])[x] \in Nat
  <2>1. ASSUME NEW s \in Subject, NEW x \in Resource PROVE ValueOf(usage[s])[x] \in Nat
    <3>1. ValueOf(usage[s]) \in Amount
      BY ValueAmount DEF TypeInv, TypeOK
    <3> QED BY <3>1 DEF Amount
  <2> QED BY <2>1
<1>z. ASSUME StepOf(r), UNCHANGED <<held, usage, lost>>,
             \A s \in Subject, x \in Resource : Share(r, s, x)' = Share(r, s, x)
      PROVE  ConsInv'
  <2>1. ASSUME NEW s \in Subject, NEW x \in Resource
        PROVE  ValueOf(usage'[s])[x] - ValueOf(usage[s])[x] = Share(r, s, x)' - Share(r, s, x)
    <3>1. Share(r, s, x) \in Nat
      BY <1>z, ReservedStep DEF TypeInv, TypeOK
    <3>2. ValueOf(usage'[s])[x] = ValueOf(usage[s])[x]
      BY <1>z
    <3> QED BY <1>v, <1>z, <3>1, <3>2
  <2> QED BY <1>z, <2>1, ConsKeep
<1>1. CASE UpdateStart(r)
  <2>1. PICK h \in held :
          /\ held' = held \ {h}
          /\ user' = [user EXCEPT ![r] = h.user]
          /\ bucket' = [bucket EXCEPT ![r] = h.bucket]
          /\ delta' = [delta EXCEPT ![r] = h.delta]
          /\ Update(h.user, Negate(h.delta))
    BY <1>1 DEF UpdateStart
  <2>2. h \in Receipt /\ held \in SUBSET Receipt /\ IsFiniteSet(held)
    BY DEF TypeInv, TypeOK, ConsInv
  <2>3. /\ h.user \in User /\ h.bucket \in Bucket \cup {None} /\ h.delta \in Amount
        /\ \A s \in Subject, x \in Resource : Part(h, s, x) \in Nat
    BY <2>2, ReceiptType
  <2>4. h.user \in Subject /\ h.user # h.bucket
    BY <2>3, SubjectsApart
  <2>5. /\ StepOf(r) /\ pc[r] = "idle" /\ pc'[r] = "u_mark"
        /\ bucket'[r] = h.bucket /\ delta'[r] = h.delta
    BY <1>1, <2>1 DEF UpdateStart, Goto, StepOf, TypeInv, TypeOK
  <2>6. IsFiniteSet(held')
    BY <2>1, <2>2, FS_RemoveElement
  <2>7. ASSUME NEW s \in Subject, NEW x \in Resource
        PROVE  /\ HeldFor(s, x)' \in Nat
               /\ HeldFor(s, x) = HeldFor(s, x)' + Part(h, s, x)
    <3>1. HeldFor(s, x) = HeldSum(held, s, x) /\ HeldFor(s, x)' = HeldSum(held', s, x)
      BY DEF HeldFor, HeldSum
    <3>2. held = held' \cup {h} /\ h \in Receipt \ held' /\ held' \in SUBSET Receipt
      BY <2>1, <2>2
    <3>3. /\ HeldSum(held', s, x) \in Nat
          /\ HeldSum(held' \cup {h}, s, x) = HeldSum(held', s, x) + Part(h, s, x)
      BY <2>6, <3>2, HeldStep
    <3> QED BY <3>1, <3>2, <3>3
  <2>8. ASSUME NEW s \in Subject, NEW x \in Resource, Untouched(s)' PROVE
          ValueOf(usage'[s])[x] - ValueOf(usage[s])[x]
            = HeldFor(s, x)' - HeldFor(s, x) + Share(r, s, x)' - Share(r, s, x)
    <3>0. Untouched(s)
      BY <1>1, <2>8 DEF UpdateStart, history, Untouched
    <3>1. Share(r, s, x) = 0
      BY <2>5 DEF Share, InFlight
    <3>2. Share(r, s, x)' = IF s = h.bucket THEN h.delta[x] ELSE 0
      BY <2>5 DEF Share, InFlight
    <3>3. /\ Part(h, s, x) = IF s \in {h.user, h.bucket} THEN h.delta[x] ELSE 0
          /\ Part(h, s, x) \in Nat /\ h.delta[x] \in Nat
      BY <2>3 DEF Part, Amount
    <3>4. HeldFor(s, x)' \in Nat /\ HeldFor(s, x) = HeldFor(s, x)' + Part(h, s, x)
      BY <2>7
    <3>5. CASE s = h.user
      <4>1. /\ HeldFor(s, x) \in Nat /\ Share(r, s, x) \in Nat
            /\ ValueOf(usage[s])[x] >= HeldFor(s, x) + Share(r, s, x)
        BY <2>5, <3>0, Covered
      <4>2. Part(h, s, x) = h.delta[x] /\ Share(r, s, x)' = 0
        BY <2>4, <3>2, <3>3, <3>5
      <4>3. ValueOf(usage[s])[x] >= h.delta[x]
        BY <1>v, <3>1, <3>3, <3>4, <4>1, <4>2
      <4>4. ValueOf(usage'[s])[x] = ValueOf(usage[s])[x] - h.delta[x]
        BY <2>1, <2>3, <2>4, <3>5, <4>3, UpdateValue
      <4>5. ValueOf(usage'[s])[x] - ValueOf(usage[s])[x] = -h.delta[x]
        BY <1>v, <3>3, <4>4
      <4>6. HeldFor(s, x)' - HeldFor(s, x) = -h.delta[x]
        BY <3>3, <3>4, <4>2
      <4> QED BY <3>1, <3>3, <4>2, <4>5, <4>6
    <3>6. CASE s # h.user
      <4>1. ValueOf(usage'[s])[x] = ValueOf(usage[s])[x]
        BY <2>1, <2>3, <2>4, <3>6, UpdateValue
      <4>2. Share(r, s, x)' = Part(h, s, x)
        BY <3>2, <3>3, <3>6
      <4> QED BY <1>v, <3>1, <3>3, <3>4, <4>1, <4>2
    <3> QED BY <3>5, <3>6
  <2> QED BY <1>1, <2>5, <2>6, <2>8, ConsStep DEF Balanced, UpdateStart, history
<1>2. CASE UpdateMark(r)
  <2>0. pc[r] = "u_mark" /\ UNCHANGED <<held, usage, lost>>
    BY <1>2 DEF UpdateMark, clients, history
  <2>1. CASE bucket[r] = None
    <3>1. StepOf(r) /\ \A s \in Subject, x \in Resource : Share(r, s, x)' = 0
      BY <1>2, <2>1, EndStep DEF UpdateMark
    <3>2. \A s \in Subject, x \in Resource : Share(r, s, x) = 0
      BY <2>0, <2>1, SubjectsApart DEF Share, InFlight
    <3> QED BY <1>z, <2>0, <3>1, <3>2
  <2>2. CASE bucket[r] # None
    <3>1. /\ StepOf(r) /\ pc'[r] = "u_apply"
          /\ user'[r] = user[r] /\ bucket'[r] = bucket[r] /\ delta'[r] = delta[r]
      BY <1>2, <2>2, GotoStep DEF UpdateMark, args
    <3>2. \A s \in Subject, x \in Resource : Share(r, s, x)' = Share(r, s, x)
      BY <2>0, <3>1 DEF Share, InFlight
    <3> QED BY <1>z, <2>0, <3>1, <3>2
  <2> QED BY <2>1, <2>2
<1>3. CASE UpdateBucket(r)
  <2>0. /\ pc[r] = "u_apply" /\ bucket[r] \in Bucket /\ bucket[r] \in Subject
        /\ delta[r] \in Amount /\ Update(bucket[r], Negate(delta[r]))
        /\ UNCHANGED <<held, lost>>
    BY <1>3, SubjectsApart DEF UpdateBucket, TypeInv, TypeOK, ArgInv, OnBucket, clients, history
  <2>1. StepOf(r) /\ pc'[r] = "u_bmark"
    BY <1>3, GotoStep DEF UpdateBucket, args
  <2>2. ASSUME NEW s \in Subject, NEW x \in Resource, Untouched(s)
        PROVE  ValueOf(usage'[s])[x] - ValueOf(usage[s])[x] = Share(r, s, x)' - Share(r, s, x)
    <3>1. Share(r, s, x)' = 0
      BY <2>1 DEF Share, InFlight
    <3>2. Share(r, s, x) = IF s = bucket[r] THEN delta[r][x] ELSE 0
      BY <2>0 DEF Share, InFlight
    <3>3. CASE s = bucket[r]
      <4>1. HeldFor(s, x) \in Nat /\ ValueOf(usage[s])[x] >= HeldFor(s, x) + Share(r, s, x)
        BY <2>1, <2>2, Covered
      <4>2. delta[r][x] \in Nat
        BY <2>0 DEF Amount
      <4>3. ValueOf(usage[s])[x] >= delta[r][x]
        BY <1>v, <3>2, <3>3, <4>1, <4>2
      <4>4. ValueOf(usage'[s])[x] = ValueOf(usage[s])[x] - delta[r][x]
        BY <2>0, <3>3, <4>3, UpdateValue
      <4> QED BY <1>v, <3>1, <3>2, <3>3, <4>2, <4>4
    <3>4. CASE s # bucket[r]
      <4>1. ValueOf(usage'[s])[x] = ValueOf(usage[s])[x]
        BY <2>0, <3>4, UpdateValue
      <4> QED BY <1>v, <3>1, <3>2, <3>4, <4>1
    <3> QED BY <3>3, <3>4
  <2> QED BY <2>0, <2>1, <2>2, ConsKeep
<1>4. CASE UpdateBucketMark(r)
  <2>1. StepOf(r) /\ \A s \in Subject, x \in Resource : Share(r, s, x)' = 0
    BY <1>4, EndStep DEF UpdateBucketMark
  <2>2. \A s \in Subject, x \in Resource : Share(r, s, x) = 0
    BY <1>4 DEF UpdateBucketMark, Share, InFlight
  <2> QED BY <1>4, <1>z, <2>1, <2>2 DEF UpdateBucketMark, clients, history
<1> QED
  BY <1>1, <1>2, <1>3, <1>4 DEF Release

(* The administrative RPCs reserve nothing; what is deleted is excused. *)
LEMMA ConsAdmin ==
  ASSUME TypeInv, TypeInv', ConsInv, NEW r \in Request, Admin(r)
  PROVE  ConsInv'
<1>1. /\ StepOf(r) /\ UNCHANGED held /\ lost \subseteq lost'
      /\ \A s \in Subject, x \in Resource : Share(r, s, x) = 0 /\ Share(r, s, x)' = 0
  <2>1. CASE SetStart(r)
    <3>1. StepOf(r) /\ pc[r] = "idle" /\ pc'[r] = "s_redis"
      BY <2>1 DEF SetStart, Goto, StepOf, TypeInv, TypeOK
    <3> QED BY <2>1, <3>1 DEF SetStart, clients, Share, InFlight
  <2>2. CASE GetMiss(r)
    <3>1. StepOf(r) /\ pc[r] = "idle" /\ pc'[r] = "g_fill"
      BY <2>2 DEF GetMiss, Goto, StepOf, TypeInv, TypeOK
    <3> QED BY <2>2, <3>1 DEF GetMiss, clients, history, Share, InFlight
  <2>3. CASE DeleteStart(r)
    <3>1. StepOf(r) /\ pc[r] = "idle" /\ pc'[r] = "x_limits"
      BY <2>3 DEF DeleteStart, Goto, StepOf, TypeInv, TypeOK
    <3> QED BY <2>3, <3>1 DEF DeleteStart, clients, Share, InFlight
  <2>4. CASE DeleteLimits(r) \/ DeleteDirty(r)
    <3>1. /\ StepOf(r) /\ pc[r] \in {"x_limits", "x_dirty"}
          /\ pc'[r] \in {"x_dirty", "x_redis"}
      BY <2>4, GotoStep DEF DeleteLimits, DeleteDirty, args
    <3> QED BY <2>4, <3>1 DEF DeleteLimits, DeleteDirty, clients, history, Share, InFlight
  <2>5. CASE SetRedis(r) \/ SetFail(r) \/ GetFill(r) \/ DeleteRedis(r) \/ DeleteFail(r)
    <3>1. StepOf(r) /\ \A s \in Subject, x \in Resource : Share(r, s, x)' = 0
      BY <2>5, EndStep DEF SetRedis, SetFail, GetFill, DeleteRedis, DeleteFail
    <3>2. pc[r] \in {"s_redis", "g_fill", "x_redis"} /\ UNCHANGED <<held, lost>>
      BY <2>5 DEF SetRedis, SetFail, GetFill, DeleteRedis, DeleteFail, clients, history
    <3> QED BY <3>1, <3>2 DEF Share, InFlight
  <2> QED BY <2>1, <2>2, <2>3, <2>4, <2>5 DEF Admin
<1>2. ASSUME NEW s \in Subject, Untouched(s)' PROVE usage'[s] = usage[s]
  <2>1. CASE DeleteStart(r)
    <3>1. PICK t \in Deletable : /\ usage' = [usage EXCEPT ![t] = None]
                                 /\ lost' = lost \cup {<<t, "deleted">>}
      BY <2>1 DEF DeleteStart
    <3>2. s # t
      BY <1>2, <3>1 DEF Untouched
    <3> QED BY <3>1, <3>2 DEF TypeInv, TypeOK
  <2>2. CASE ~DeleteStart(r)
    BY <2>2 DEF Admin, SetStart, SetRedis, SetFail, GetMiss, GetFill, DeleteLimits, DeleteDirty,
                DeleteRedis, DeleteFail, cache
  <2> QED BY <2>1, <2>2
<1>3. ASSUME NEW s \in Subject, NEW x \in Resource, Untouched(s)'
      PROVE  ValueOf(usage'[s])[x] - ValueOf(usage[s])[x] = Share(r, s, x)' - Share(r, s, x)
  <2>1. ValueOf(usage[s])[x] \in Nat
    <3>1. ValueOf(usage[s]) \in Amount
      BY ValueAmount DEF TypeInv, TypeOK
    <3> QED BY <3>1 DEF Amount
  <2>2. ValueOf(usage'[s])[x] = ValueOf(usage[s])[x]
    BY <1>2, <1>3
  <2> QED BY <1>1, <2>1, <2>2
<1> QED BY <1>1, <1>3, ConsKeep

LEMMA ConsNext == TypeInv /\ ConsInv /\ [Next]_vars => ConsInv'
<1> SUFFICES ASSUME TypeInv, ConsInv, [Next]_vars PROVE ConsInv'
  OBVIOUS
<1>0. TypeInv'
  BY TypeNext
<1>1. ASSUME NEW r \in Request, CheckStart(r) \/ Check(r) PROVE ConsInv'
  BY <1>0, <1>1, ConsCheck
<1>2. ASSUME NEW r \in Request, UpdateStart(r) \/ Release(r) PROVE ConsInv'
  BY <1>0, <1>2, ConsRelease
<1>3. ASSUME NEW r \in Request, Admin(r) PROVE ConsInv'
  BY <1>0, <1>3, ConsAdmin
<1>4. CASE Flush \/ FlushFail \/ UNCHANGED vars
  <2>1. UNCHANGED <<held, lost, pc, user, bucket, delta, usage>>
    BY <1>4 DEF Flush, FlushCollect, FlushDone, FlushUnmark, FlushRead, FlushWrite, FlushFail,
                vars, cache, args, clients, history
  <2> QED BY <2>1, ConsFrame
<1>5. CASE Crash
  <2>1. UNCHANGED held /\ Subject \X {"crashed"} \subseteq lost'
    BY <1>5 DEF Crash, clients
  <2>2. \A s \in Subject : ~Untouched(s)'
    BY <2>1 DEF Untouched
  <2> QED BY <2>1, <2>2 DEF ConsInv, Conservation
<1> QED
  BY <1>1, <1>2, <1>3, <1>4, <1>5 DEF Next

(* Nothing is counted twice, lost or left behind: unless the subject was   *)
(* deleted or the process crashed, its usage is what clients hold plus     *)
(* what CheckQuota and UpdateUsage calls in progress have reserved, and    *)
(* the clamping at zero in UsageEntry::apply never hides a difference.     *)
THEOREM UsageIsConserved == Spec => []Conservation
<1>1. Init => TypeInv /\ ConsInv
  BY TypeInit, ConsInit
<1>2. TypeInv /\ ConsInv /\ [Next]_vars => (TypeInv /\ ConsInv)'
  BY TypeNext, ConsNext
<1>3. ConsInv => Conservation
  BY DEF ConsInv
<1> QED BY <1>1, <1>2, <1>3, PTL DEF Spec

-----------------------------------------------------------------------------
(* How large a usage gets *)

(* The requests that may still reserve for s. *)
IsDue(r, s) ==
  \/ s = user[r] /\ pc[r] = "c_reserve"
  \/ s = bucket[r] /\ pc[r] \in {"c_reserve", "c_mark", "c_blimit", "c_breserve"}
Due(s) == {r \in Request : IsDue(r, s)}

(* The checks that had their turn at s, or will never have it. *)
Spent(s) == grants - Cardinality(Due(s))

(* Each of them has added at most M, to the entry and to its copies. *)
Entries(s) == {usage[s], redisUsage[s], snap[s]}
AtMost(e, n) == \A x \in Resource : ValueOf(e)[x] <= n
BoundOf(s, M) == Spent(s) \in Nat /\ \A e \in Entries(s) : AtMost(e, M * Spent(s))
BoundInv(M) == \A s \in Subject : BoundOf(s, M)

(* M is at least what clients ask for at a time. *)
Largest(M) == M \in Nat /\ \A d \in Deltas : \A x \in Resource : d[x] <= M

(* No new entry of s is above an old one. *)
Kept(s) ==
  \A f \in Entries(s)' : \E e \in Entries(s) \cup {None} :
    \A x \in Resource : ValueOf(f)[x] <= ValueOf(e)[x]

LEMMA DueNumber == ASSUME NEW s PROVE IsFiniteSet(Due(s)) /\ Cardinality(Due(s)) \in Nat
<1>1. Due(s) \in SUBSET Request
  BY DEF Due
<1> QED
  BY <1>1, RequestAssumption, FS_Subset, FS_CardinalityType

(* A subject is a user or a bucket: a check reserves for it once. *)
LEMMA DueOnce ==
  ASSUME TypeInv, NEW r \in Request, pc[r] = "c_reserve"
  PROVE  user[r] # bucket[r]
<1>1. user[r] \in User /\ bucket[r] \in Bucket \cup {None}
  BY DEF TypeInv, TypeOK, ArgInv, Checking
<1> QED
  BY <1>1, SubjectAssumption DEF Subject

(* A new check is counted in grants when it becomes due; after that it is  *)
(* due until its turn comes, or it ends before that.                       *)
LEMMA DueStart ==
  ASSUME TypeInv, NEW r \in Request, CheckStart(r), NEW s \in Subject
  PROVE  Due(s)' \subseteq Due(s) \cup {r} /\ grants' = grants + 1
<1>1. /\ \A q \in Request \ {r} : pc'[q] = pc[q] /\ user'[q] = user[q] /\ bucket'[q] = bucket[q]
      /\ grants' = grants + 1
  BY DEF CheckStart, Goto, TypeInv, TypeOK
<1> QED
  BY <1>1 DEF Due, IsDue

LEMMA DueNext ==
  ASSUME TypeInv, [Next]_vars, ~\E r \in Request : CheckStart(r), NEW s \in Subject
  PROVE  Due(s)' \subseteq Due(s) /\ grants' = grants
<1> USE DEF cache, redis, args, flusher, clients, history
<1>1. ASSUME NEW r \in Request, Check(r) \/ UpdateStart(r) \/ Release(r) \/ Admin(r)
      PROVE  Due(s)' \subseteq Due(s) /\ grants' = grants
  <2>1. ASSUME NEW q \in Request, q # r
        PROVE  pc'[q] = pc[q] /\ user'[q] = user[q] /\ bucket'[q] = bucket[q]
    <3> USE <2>1 DEF End, Goto, TypeInv, TypeOK
    <3>1. CASE Check(r)
      BY <3>1 DEF Check, CheckReserve, CheckMark, CheckBucketLimit, CheckBucketReserve,
         CheckBucketMark, CheckUndo, CheckUndoMark
    <3>2. CASE UpdateStart(r) \/ Release(r)
      BY <3>2 DEF Release, UpdateStart, UpdateMark, UpdateBucket, UpdateBucketMark
    <3>3. CASE Admin(r)
      BY <3>3 DEF Admin, SetStart, SetRedis, SetFail, GetMiss, GetFill, DeleteStart,
         DeleteLimits, DeleteDirty, DeleteRedis, DeleteFail
    <3> QED
      BY <1>1, <3>1, <3>2, <3>3
  <2>2. IsDue(r, s)' => IsDue(r, s)
    <3> USE DEF End, Goto, TypeInv, TypeOK, IsDue
    <3>1. CASE Check(r)
      BY <3>1 DEF Check, CheckReserve, CheckMark, CheckBucketLimit, CheckBucketReserve,
         CheckBucketMark, CheckUndo, CheckUndoMark
    <3>2. CASE UpdateStart(r) \/ Release(r)
      BY <3>2 DEF Release, UpdateStart, UpdateMark, UpdateBucket, UpdateBucketMark
    <3>3. CASE Admin(r)
      BY <3>3 DEF Admin, SetStart, SetRedis, SetFail, GetMiss, GetFill, DeleteStart,
         DeleteLimits, DeleteDirty, DeleteRedis, DeleteFail
    <3> QED
      BY <1>1, <3>1, <3>2, <3>3
  <2>3. grants' = grants
    BY <1>1 DEF Check, CheckReserve, CheckMark, CheckBucketLimit, CheckBucketReserve,
       CheckBucketMark, CheckUndo, CheckUndoMark, Release, UpdateStart, UpdateMark,
       UpdateBucket, UpdateBucketMark, Admin, SetStart, SetRedis, SetFail, GetMiss, GetFill,
       DeleteStart, DeleteLimits, DeleteDirty, DeleteRedis, DeleteFail
  <2> QED
    BY <2>1, <2>2, <2>3 DEF Due, IsDue
<1>2. CASE Flush \/ FlushFail \/ UNCHANGED vars
  <2>1. UNCHANGED <<pc, user, bucket, grants>>
    BY <1>2 DEF Flush, FlushCollect, FlushDone, FlushUnmark, FlushRead, FlushWrite,
       FlushFail, vars
  <2> QED
    BY <2>1 DEF Due, IsDue
<1>3. CASE Crash
  BY <1>3 DEF Crash, Due, IsDue
<1> QED
  BY <1>1, <1>2, <1>3 DEF Next

(* So the checks that had their turn only become more. *)
LEMMA SpentNext ==
  ASSUME TypeInv, TypeInv', [Next]_vars, NEW s \in Subject
  PROVE  Spent(s) \in Int /\ Spent(s)' \in Int /\ Spent(s) <= Spent(s)'
<1>1. IsFiniteSet(Due(s)) /\ Cardinality(Due(s)) \in Nat
  BY DueNumber
<1>2. Cardinality(Due(s)') \in Nat
  <2>1. Due(s)' \in SUBSET Request
    BY DEF Due
  <2> QED
    BY <2>1, RequestAssumption, FS_Subset, FS_CardinalityType
<1>3. grants \in Nat /\ grants' \in Nat
  BY MaxGrantsAssumption DEF TypeInv, TypeOK
<1>4. CASE \E r \in Request : CheckStart(r)
  <2>1. PICK r \in Request : CheckStart(r)
    BY <1>4
  <2>2. Due(s)' \in SUBSET (Due(s) \cup {r}) /\ grants' = grants + 1
    BY <2>1, DueStart
  <2>3. /\ IsFiniteSet(Due(s) \cup {r})
        /\ Cardinality(Due(s) \cup {r}) <= Cardinality(Due(s)) + 1
        /\ Cardinality(Due(s) \cup {r}) \in Nat
    <3>1. /\ IsFiniteSet(Due(s) \cup {r})
          /\ Cardinality(Due(s) \cup {r})
               \in {Cardinality(Due(s)), Cardinality(Due(s)) + 1}
      BY <1>1, FS_AddElement, Zenon
    <3> QED
      BY <1>1, <3>1
  <2>4. Cardinality(Due(s)') <= Cardinality(Due(s) \cup {r})
    BY <2>2, <2>3, FS_Subset
  <2> QED
    BY <1>1, <1>2, <1>3, <2>2, <2>3, <2>4 DEF Spent
<1>5. CASE ~\E r \in Request : CheckStart(r)
  <2>1. Due(s)' \in SUBSET Due(s) /\ grants' = grants
    BY <1>5, DueNext
  <2>2. Cardinality(Due(s)') <= Cardinality(Due(s))
    BY <1>1, <2>1, FS_Subset
  <2> QED
    BY <1>1, <1>2, <1>3, <2>1, <2>2 DEF Spent
<1> QED
  BY <1>4, <1>5

(* A check that has its turn makes one more. *)
LEMMA SpentReserve ==
  ASSUME TypeInv, TypeInv', NEW r \in Request, NEW s \in Subject,
         IsDue(r, s), ~IsDue(r, s)', Due(s)' \subseteq Due(s), grants' = grants
  PROVE  Spent(s) + 1 <= Spent(s)'
<1>1. IsFiniteSet(Due(s)) /\ Cardinality(Due(s)) \in Nat
  BY DueNumber
<1>2. r \in Due(s) /\ Due(s)' \in SUBSET (Due(s) \ {r})
  BY DEF Due
<1>3. IsFiniteSet(Due(s) \ {r}) /\ Cardinality(Due(s) \ {r}) = Cardinality(Due(s)) - 1
  BY <1>1, <1>2, FS_RemoveElement
<1>4. Cardinality(Due(s)') <= Cardinality(Due(s)) - 1 /\ Cardinality(Due(s)') \in Nat
  BY <1>2, <1>3, FS_Subset, FS_CardinalityType
<1>5. grants \in Nat
  BY MaxGrantsAssumption DEF TypeInv, TypeOK
<1> QED
  BY <1>1, <1>4, <1>5 DEF Spent

(* Multiples of M. *)
LEMMA Multiples ==
  ASSUME NEW M \in Nat, NEW a \in Nat, NEW b \in Nat
  PROVE  /\ M * a \in Nat
         /\ a <= b => M * a <= M * b
         /\ a + 1 <= b => M * a + M <= M * b
<1>1. M * (b - a) \in Int /\ M * a \in Nat
  OBVIOUS
<1>2. a <= b => M * (b - a) >= 0
  OBVIOUS
<1>3. M * b = M * a + M * (b - a)
  OBVIOUS
<1>4. a + 1 <= b => M * (b - a) >= M
  OBVIOUS
<1> QED
  BY <1>1, <1>2, <1>3, <1>4

(* Every entry, old or new, is worth an amount. *)
LEMMA EntryAmount ==
  ASSUME TypeInv, NEW s \in Subject, NEW e \in Entries(s) \cup {None}
  PROVE  ValueOf(e) \in Amount
<1>1. e \in Amount \cup {None}
  BY DEF TypeInv, TypeOK, Entries
<1> QED
  BY <1>1, ValueAmount

(* A subject whose entries do not grow stays within the bound. *)
LEMMA BoundKept ==
  ASSUME NEW M, Largest(M), TypeInv, TypeInv', NEW s \in Subject, BoundOf(s, M),
         Spent(s)' \in Int, Spent(s) <= Spent(s)', Kept(s)
  PROVE  BoundOf(s, M)'
<1>1. M \in Nat /\ Spent(s) \in Nat /\ Spent(s)' \in Nat
  BY DEF Largest, BoundOf
<1>2. M * Spent(s) \in Nat /\ M * Spent(s)' \in Nat /\ M * Spent(s) <= M * Spent(s)'
  BY <1>1, Multiples
<1>3. ASSUME NEW f \in Entries(s)', NEW x \in Resource
      PROVE  ValueOf(f)[x] <= M * Spent(s)'
  <2>1. PICK e \in Entries(s) \cup {None} : ValueOf(f)[x] <= ValueOf(e)[x]
    BY DEF Kept
  <2>2. ValueOf(e)[x] <= M * Spent(s)
    <3>1. CASE e = None
      BY <1>2, <3>1, ValueFacts DEF Zero
    <3>2. CASE e \in Entries(s)
      BY <3>2 DEF BoundOf, AtMost
    <3> QED
      BY <3>1, <3>2
  <2>3. ValueOf(e)[x] \in Nat
    BY EntryAmount DEF Amount
  <2>4. f \in Amount \cup {None}
    BY DEF TypeInv, TypeOK, Entries
  <2>5. ValueOf(f)[x] \in Nat
    BY <2>4, ValueAmount DEF Amount
  <2> QED
    BY <1>2, <2>1, <2>2, <2>3, <2>5
<1> QED
  BY <1>1, <1>3 DEF BoundOf, AtMost

(* A reservation adds M at most. *)
LEMMA BoundReserve ==
  ASSUME NEW M, Largest(M), TypeInv, TypeInv', NEW s \in Subject, BoundOf(s, M),
         NEW r \in Request, Reserve(r, s), delta[r] \in Deltas,
         UNCHANGED <<redisUsage, snap>>,
         Spent(s)' \in Int, Spent(s) + 1 <= Spent(s)'
  PROVE  BoundOf(s, M)'
<1> DEFINE cur == ValueOf(usage[s])
<1>1. M \in Nat /\ Spent(s) \in Nat /\ Spent(s)' \in Nat
  BY DEF Largest, BoundOf
<1>2. /\ M * Spent(s) \in Nat /\ M * Spent(s)' \in Nat /\ M * Spent(s) <= M * Spent(s)'
      /\ M * Spent(s) + M <= M * Spent(s)'
  BY <1>1, Multiples
<1>3. cur \in Amount /\ delta[r] \in Amount
  BY ValueAmount DEF TypeInv, TypeOK
<1>4. PICK new \in {cur, Apply(cur, delta[r])} : usage' = [usage EXCEPT ![s] = new]
  BY DEF Reserve
<1>5. new \in Amount
  BY <1>3, <1>4, ApplyAmount
<1>6. ASSUME NEW x \in Resource PROVE new[x] <= M * Spent(s)'
  <2>1. cur[x] \in Nat /\ cur[x] <= M * Spent(s)
    BY <1>3 DEF Amount, BoundOf, AtMost, Entries
  <2>2. delta[r][x] \in Nat /\ delta[r][x] <= M
    BY <1>3 DEF Amount, Largest
  <2>3. Apply(cur, delta[r])[x] = cur[x] + delta[r][x]
    BY <2>1, <2>2 DEF Apply
  <2> QED
    BY <1>1, <1>2, <1>4, <2>1, <2>2, <2>3
<1>7. usage'[s] = new /\ ValueOf(usage'[s]) = new
  BY <1>4, <1>5, ValueFacts DEF TypeInv, TypeOK
<1>8. ASSUME NEW f \in {redisUsage[s], snap[s]}, NEW x \in Resource
      PROVE  ValueOf(f)[x] <= M * Spent(s)'
  <2>1. ValueOf(f)[x] <= M * Spent(s)
    BY DEF BoundOf, AtMost, Entries
  <2>2. ValueOf(f)[x] \in Nat
    BY EntryAmount DEF Amount, Entries
  <2> QED
    BY <1>2, <2>1, <2>2
<1>9. ASSUME NEW f \in Entries(s)', NEW x \in Resource
      PROVE  ValueOf(f)[x] <= M * Spent(s)'
  <2>1. f = usage'[s] \/ f \in {redisUsage[s], snap[s]}
    BY DEF Entries
  <2> QED
    BY <1>6, <1>7, <1>8, <2>1
<1> QED
  BY <1>1, <1>9 DEF BoundOf, AtMost

(* An entry that was there before, or a smaller one, or none. *)
LEMMA KeptFrom ==
  ASSUME TypeInv, NEW s \in Subject,
         \/ usage'[s] \in Entries(s) \cup {None}
         \/ \A x \in Resource : ValueOf(usage'[s])[x] <= ValueOf(usage[s])[x],
         redisUsage'[s] \in Entries(s) \cup {None}, snap'[s] \in Entries(s) \cup {None}
  PROVE  Kept(s)
<1>1. ASSUME NEW e \in Entries(s) \cup {None}, NEW x \in Resource
      PROVE  ValueOf(e)[x] <= ValueOf(e)[x]
  BY EntryAmount DEF Amount
<1>2. \E e \in Entries(s) \cup {None} : \A x \in Resource :
        ValueOf(usage'[s])[x] <= ValueOf(e)[x]
  <2>1. usage[s] \in Entries(s)
    BY DEF Entries
  <2> QED
    BY <1>1, <2>1
<1>3. \A f \in Entries(s)' : f \in {usage'[s], redisUsage'[s], snap'[s]}
  BY DEF Entries
<1> QED
  BY <1>1, <1>2, <1>3 DEF Kept

(* What is given back or taken back makes no entry larger. *)
LEMMA UpdateKept ==
  ASSUME TypeInv, NEW d \in Amount, NEW t \in Subject, Update(t, Negate(d)),
         UNCHANGED <<redisUsage, snap>>, NEW s \in Subject
  PROVE  Kept(s)
<1> DEFINE cur == ValueOf(usage[t])
           new == Apply(cur, Negate(d))
<1>1. cur \in Amount /\ new \in Amount
  BY ValueAmount, ApplyAmount DEF TypeInv, TypeOK
<1>2. ASSUME NEW x \in Resource PROVE new[x] <= cur[x]
  BY <1>1 DEF Apply, Negate, Amount
<1>3. usage' = [usage EXCEPT ![t] = new]
  BY DEF Update, TypeInv, TypeOK
<1> HIDE DEF new
<1>4. CASE s = t
  <2>1. ValueOf(usage'[s]) = new
    BY <1>1, <1>3, <1>4, ValueFacts DEF TypeInv, TypeOK
  <2>2. \A x \in Resource : ValueOf(usage'[s])[x] <= ValueOf(usage[s])[x]
    BY <1>2, <1>4, <2>1
  <2> QED
    BY <2>2, KeptFrom DEF Entries
<1>5. CASE s # t
  <2>1. usage'[s] = usage[s]
    BY <1>3, <1>5 DEF TypeInv, TypeOK
  <2> QED
    BY <2>1, KeptFrom DEF Entries
<1> QED
  BY <1>4, <1>5

(* Only a reservation makes an entry larger, and only that of its subject. *)
LEMMA KeptNext ==
  ASSUME TypeInv, [Next]_vars, NEW s \in Subject,
         ~\E r \in Request : CheckReserve(r) /\ s = user[r],
         ~\E r \in Request : CheckBucketReserve(r) /\ s = bucket[r]
  PROVE  Kept(s)
<1> USE DEF cache, redis, args, flusher, clients, history
<1>1. ASSUME UNCHANGED <<usage, redisUsage, snap>> PROVE Kept(s)
  BY <1>1, KeptFrom DEF Entries
<1>2. ASSUME NEW r \in Request, NEW t \in Subject, t # s, Reserve(r, t),
             UNCHANGED <<redisUsage, snap>>
      PROVE  Kept(s)
  <2>1. usage'[s] = usage[s]
    BY <1>2 DEF Reserve, TypeInv, TypeOK
  <2> QED
    BY <1>2, <2>1, KeptFrom DEF Entries
<1>3. User \subseteq Subject /\ Bucket \subseteq Subject
  BY DEF Subject
<1>4. ASSUME NEW r \in Request, CheckStart(r) \/ Check(r) PROVE Kept(s)
  <2>1. CASE CheckReserve(r)
    <3>1. user[r] \in Subject /\ user[r] # s /\ Reserve(r, user[r])
      BY <2>1, <1>3 DEF CheckReserve, TypeInv, ArgInv
    <3> QED
      BY <2>1, <3>1, <1>2 DEF CheckReserve
  <2>2. CASE CheckBucketReserve(r)
    <3>1. bucket[r] \in Subject /\ bucket[r] # s /\ Reserve(r, bucket[r])
      BY <2>2, <1>3 DEF CheckBucketReserve, TypeInv, ArgInv, OnBucket
    <3> QED
      BY <2>2, <3>1, <1>2 DEF CheckBucketReserve
  <2>3. CASE CheckUndo(r)
    <3>1. user[r] \in Subject /\ delta[r] \in Amount
      BY <2>3 DEF CheckUndo, TypeInv, ArgInv, TypeOK
    <3> QED
      BY <2>3, <3>1, UpdateKept DEF CheckUndo
  <2>4. CASE CheckStart(r) \/ CheckMark(r) \/ CheckBucketLimit(r) \/ CheckBucketMark(r)
             \/ CheckUndoMark(r)
    BY <2>4, <1>1 DEF CheckStart, CheckMark, CheckBucketLimit, CheckBucketMark, CheckUndoMark
  <2> QED
    BY <1>4, <2>1, <2>2, <2>3, <2>4 DEF Check
<1>5. ASSUME NEW r \in Request, UpdateStart(r) \/ Release(r) PROVE Kept(s)
  <2>1. CASE UpdateStart(r)
    <3>1. PICK h \in held : Update(h.user, Negate(h.delta))
      BY <2>1 DEF UpdateStart
    <3>2. h.user \in Subject /\ h.delta \in Amount
      BY <1>3, DeltasAssumption DEF TypeInv, TypeOK, Receipt
    <3> QED
      BY <2>1, <3>1, <3>2, UpdateKept DEF UpdateStart
  <2>2. CASE UpdateBucket(r)
    <3>1. bucket[r] \in Subject /\ delta[r] \in Amount
      BY <2>2, <1>3 DEF UpdateBucket, TypeInv, ArgInv, OnBucket, TypeOK
    <3> QED
      BY <2>2, <3>1, UpdateKept DEF UpdateBucket
  <2>3. CASE UpdateMark(r) \/ UpdateBucketMark(r)
    BY <2>3, <1>1 DEF UpdateMark, UpdateBucketMark
  <2> QED
    BY <1>5, <2>1, <2>2, <2>3 DEF Release
<1>6. ASSUME NEW r \in Request, Admin(r) PROVE Kept(s)
  <2>1. CASE DeleteStart(r)
    <3>1. usage'[s] \in {usage[s], None} /\ UNCHANGED <<redisUsage, snap>>
      BY <2>1 DEF DeleteStart, TypeInv, TypeOK
    <3> QED
      BY <3>1, KeptFrom DEF Entries
  <2>2. CASE DeleteRedis(r)
    <3>1. redisUsage'[s] \in {redisUsage[s], None} /\ UNCHANGED <<usage, snap>>
      BY <2>2 DEF DeleteRedis, TypeInv, TypeOK
    <3> QED
      BY <3>1, KeptFrom DEF Entries
  <2>3. CASE SetStart(r) \/ SetRedis(r) \/ SetFail(r) \/ GetMiss(r) \/ GetFill(r)
             \/ DeleteLimits(r) \/ DeleteDirty(r) \/ DeleteFail(r)
    BY <2>3, <1>1 DEF SetStart, SetRedis, SetFail, GetMiss, GetFill, DeleteLimits,
       DeleteDirty, DeleteFail
  <2> QED
    BY <1>6, <2>1, <2>2, <2>3 DEF Admin
<1>7. CASE FlushCollect \/ \E t \in Subject : FlushUnmark(t)
  BY <1>7, <1>1 DEF FlushCollect, FlushUnmark
<1>8. CASE FlushDone \/ FlushFail
  <2>1. snap'[s] = None /\ UNCHANGED <<usage, redisUsage>>
    BY <1>8 DEF FlushDone, FlushFail, FlushIdle
  <2> QED
    BY <2>1, KeptFrom DEF Entries
<1>9. ASSUME NEW t \in Subject, FlushRead(t) PROVE Kept(s)
  <2>1. snap'[s] \in {snap[s], usage[s]} /\ UNCHANGED <<usage, redisUsage>>
    BY <1>9 DEF FlushRead, TypeInv, TypeOK
  <2> QED
    BY <2>1, KeptFrom DEF Entries
<1>10. ASSUME NEW t \in Subject, FlushWrite(t) PROVE Kept(s)
  <2>1. redisUsage'[s] \in {redisUsage[s], snap[s]} /\ UNCHANGED <<usage, snap>>
    BY <1>10 DEF FlushWrite, TypeInv, TypeOK
  <2> QED
    BY <2>1, KeptFrom DEF Entries
<1>11. CASE Crash
  <2>1. usage'[s] \in {None, redisUsage[s]} /\ snap'[s] = None /\ redisUsage' = redisUsage
    BY <1>11 DEF Crash, LoadAllUsage, FlushIdle
  <2> QED
    BY <2>1, KeptFrom DEF Entries
<1>12. CASE UNCHANGED vars
  BY <1>12, <1>1 DEF vars
<1> QED
  BY <1>4, <1>5, <1>6, <1>7, <1>8, <1>9, <1>10, <1>11, <1>12 DEF Next, Flush

LEMMA BoundNext ==
  ASSUME NEW M, Largest(M), TypeInv, BoundInv(M), [Next]_vars
  PROVE  BoundInv(M)'
<1> SUFFICES ASSUME NEW s \in Subject PROVE BoundOf(s, M)'
  BY DEF BoundInv
<1>1. TypeInv' /\ BoundOf(s, M)
  BY TypeNext DEF BoundInv
<1>2. Spent(s) \in Int /\ Spent(s)' \in Int /\ Spent(s) <= Spent(s)'
  BY <1>1, SpentNext
<1> USE DEF cache, redis, flusher, clients, history
<1>3. CASE \E r \in Request : CheckReserve(r) /\ s = user[r]
  <2>1. PICK r \in Request : CheckReserve(r) /\ s = user[r]
    BY <1>3
  <2>2. pc[r] = "c_reserve" /\ pc'[r] \in {"c_mark", "idle"} /\ s # bucket[r]
    BY <2>1, DueOnce DEF CheckReserve, End, Goto, TypeInv, TypeOK
  <2>3. bucket'[r] \in {bucket[r], None} /\ s # None
    BY <2>1, SubjectAssumption DEF CheckReserve, End, TypeInv, TypeOK, args
  <2>4. IsDue(r, s) /\ ~IsDue(r, s)'
    BY <2>1, <2>2, <2>3 DEF IsDue
  <2>5. ~\E q \in Request : CheckStart(q)
    BY <2>1 DEF CheckStart, CheckReserve, TypeInv, TypeOK
  <2>6. Due(s)' \subseteq Due(s) /\ grants' = grants
    BY <2>5, DueNext
  <2>7. Spent(s) + 1 <= Spent(s)'
    BY <1>1, <2>4, <2>6, SpentReserve
  <2>8. Reserve(r, s) /\ delta[r] \in Deltas /\ UNCHANGED <<redisUsage, snap>>
    BY <2>1, <2>2 DEF CheckReserve, TypeInv, ArgInv, Checking
  <2> QED
    BY <1>1, <1>2, <2>7, <2>8, BoundReserve
<1>4. CASE \E r \in Request : CheckBucketReserve(r) /\ s = bucket[r]
  <2>1. PICK r \in Request : CheckBucketReserve(r) /\ s = bucket[r]
    BY <1>4
  <2>2. pc[r] = "c_breserve" /\ pc'[r] \in {"c_undo", "c_bmark"}
    BY <2>1 DEF CheckBucketReserve, Goto, TypeInv, TypeOK
  <2>3. IsDue(r, s) /\ ~IsDue(r, s)'
    BY <2>1, <2>2 DEF IsDue
  <2>4. ~\E q \in Request : CheckStart(q)
    BY <2>1 DEF CheckStart, CheckBucketReserve, TypeInv, TypeOK
  <2>5. Due(s)' \subseteq Due(s) /\ grants' = grants
    BY <2>4, DueNext
  <2>6. Spent(s) + 1 <= Spent(s)'
    BY <1>1, <2>3, <2>5, SpentReserve
  <2>7. Reserve(r, s) /\ delta[r] \in Deltas /\ UNCHANGED <<redisUsage, snap>>
    BY <2>1, <2>2 DEF CheckBucketReserve, TypeInv, ArgInv, Checking
  <2> QED
    BY <1>1, <1>2, <2>6, <2>7, BoundReserve
<1>5. CASE /\ ~\E r \in Request : CheckReserve(r) /\ s = user[r]
           /\ ~\E r \in Request : CheckBucketReserve(r) /\ s = bucket[r]
  BY <1>1, <1>2, <1>5, KeptNext, BoundKept
<1> QED
  BY <1>3, <1>4, <1>5

LEMMA BoundInit == ASSUME NEW M, Largest(M), Init PROVE BoundInv(M)
<1> SUFFICES ASSUME NEW s \in Subject PROVE BoundOf(s, M)
  BY DEF BoundInv
<1>1. Due(s) = {} /\ grants = 0
  BY DEF Due, IsDue, Init
<1>2. Spent(s) = 0
  BY <1>1, FS_EmptySet DEF Spent
<1>3. \A e \in Entries(s) : ValueOf(e) = Zero
  BY ValueFacts DEF Entries, Init
<1>4. M * 0 = 0
  BY DEF Largest
<1> QED
  BY <1>2, <1>3, <1>4 DEF BoundOf, AtMost, Zero

(* No sum that apply or would_exceed forms is larger than M for each check *)
(* so far: not an entry, nor an entry and what a check is about to add.    *)
SumsBounded(M) ==
  \A s \in Subject : \A x \in Resource :
    /\ ValueOf(usage[s])[x] <= M * grants /\ ValueOf(redisUsage[s])[x] <= M * grants
    /\ \A r \in Request :
         \/ pc[r] = "c_reserve" /\ s = user[r]
         \/ pc[r] = "c_breserve" /\ s = bucket[r]
         => ValueOf(usage[s])[x] + delta[r][x] <= M * grants

LEMMA BoundedSums ==
  ASSUME NEW M, Largest(M), TypeInv, BoundInv(M)
  PROVE  SumsBounded(M)
<1> SUFFICES ASSUME NEW s \in Subject, NEW x \in Resource
             PROVE  /\ ValueOf(usage[s])[x] <= M * grants
                    /\ ValueOf(redisUsage[s])[x] <= M * grants
                    /\ \A r \in Request :
                         \/ pc[r] = "c_reserve" /\ s = user[r]
                         \/ pc[r] = "c_breserve" /\ s = bucket[r]
                         => ValueOf(usage[s])[x] + delta[r][x] <= M * grants
  BY DEF SumsBounded
<1>1. IsFiniteSet(Due(s)) /\ Cardinality(Due(s)) \in Nat
  BY DueNumber
<1>2. /\ M \in Nat /\ grants \in Nat /\ Spent(s) \in Nat /\ Spent(s) <= grants
  BY <1>1, MaxGrantsAssumption DEF Largest, TypeInv, TypeOK, BoundInv, BoundOf, Spent
<1>3. M * Spent(s) \in Nat /\ M * grants \in Nat /\ M * Spent(s) <= M * grants
  BY <1>2, Multiples
<1>4. /\ ValueOf(usage[s])[x] \in Nat /\ ValueOf(usage[s])[x] <= M * Spent(s)
      /\ ValueOf(redisUsage[s])[x] \in Nat /\ ValueOf(redisUsage[s])[x] <= M * Spent(s)
  BY EntryAmount DEF Amount, BoundInv, BoundOf, AtMost, Entries
<1>5. ASSUME NEW r \in Request,
             (pc[r] = "c_reserve" /\ s = user[r]) \/ (pc[r] = "c_breserve" /\ s = bucket[r])
      PROVE  ValueOf(usage[s])[x] + delta[r][x] <= M * grants
  <2>1. r \in Due(s)
    BY <1>5 DEF Due, IsDue
  <2>2. Cardinality(Due(s)) # 0
    BY <1>1, <2>1, FS_EmptySet
  <2>3. Spent(s) + 1 <= grants
    BY <1>1, <1>2, <2>2 DEF Spent
  <2>4. M * Spent(s) + M <= M * grants
    BY <1>2, <2>3, Multiples
  <2>5. delta[r] \in Deltas
    BY <1>5 DEF TypeInv, ArgInv, Checking
  <2>6. delta[r][x] \in Nat /\ delta[r][x] <= M
    BY <2>5, DeltasAssumption DEF Largest, Amount
  <2> QED
    BY <1>2, <1>3, <1>4, <2>4, <2>6
<1> QED
  BY <1>3, <1>4, <1>5

(* usage + delta in domain/quota.rs and cache/memory.rs is i64 arithmetic. *)
(* When no client asks for more than M at a time, no sum exceeds M times   *)
(* the number of checks, with any interleaving, restarts and unlimited     *)
(* subjects included: nothing wraps before 2^63 / M checks were made.      *)
THEOREM UsageIsBounded ==
  ASSUME NEW M, Largest(M)
  PROVE  Spec => []SumsBounded(M)
<1>1. Init => TypeInv /\ BoundInv(M)
  BY TypeInit, BoundInit
<1>2. TypeInv /\ BoundInv(M) /\ [Next]_vars => TypeInv' /\ BoundInv(M)'
  BY TypeNext, BoundNext
<1>3. TypeInv /\ BoundInv(M) => SumsBounded(M)
  BY BoundedSums
<1> QED
  BY <1>1, <1>2, <1>3, PTL DEF Spec
=============================================================================
