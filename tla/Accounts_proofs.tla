--------------------------- MODULE Accounts_proofs --------------------------
(***************************************************************************)
(* Proofs about Accounts, for any number of users, logins and password     *)
(* changes at a time, any limit of attempts and any window.                *)
(***************************************************************************)
EXTENDS Accounts, TLAPS, FiniteSetTheorems

Kind == {"refresh", "access"}

(* Every variable has its type. *)
TypeOK ==
  /\ email \in [Uid -> Email \cup {None}]
  /\ password \in [Uid -> Password \cup {None}]
  /\ born \subseteq Uid
  /\ logs \in [Uid -> Nat]
  /\ tx \in [Changer -> {"idle", "updated", "logged"}]
  /\ txUid \in [Changer -> Uid \cup {None}]
  /\ txPw \in [Changer -> Password \cup {None}]
  /\ count \in [Email -> Nat]
  /\ left \in [Email -> Nat]
  /\ pc \in [Login -> {"idle", "get", "validate", "incr", "expire", "reset", "token"}]
  /\ le \in [Login -> Email \cup {None}]
  /\ lp \in [Login -> Password \cup {None}]
  /\ lu \in [Login -> Uid \cup {None}]
  /\ token \subseteq Kind \X Uid \X Email
  /\ changed \in [Uid -> Nat]
  /\ lost \subseteq Email

(* What a login carries. *)
LoginInv ==
  \A l \in Login :
    /\ pc[l] # "idle" => le[l] \in Email /\ lp[l] \in Password
    /\ pc[l] \in {"reset", "token"} => lu[l] \in Uid

(* A transaction of UpdatePassword has locked the row of its user, which   *)
(* exists and which no other transaction has; only users that were created *)
(* exist, and no two of them have the same email.                          *)
RowLocked ==
  /\ \A x \in Changer : tx[x] # "idle" =>
       /\ txUid[x] \in Uid /\ txPw[x] \in Password /\ email[txUid[x]] # None
       /\ \A y \in Changer \ {x} : tx[y] # "idle" => txUid[y] # txUid[x]
  /\ \A u \in Uid : email[u] # None => u \in born
  /\ \A u, v \in Uid : email[u] # None /\ email[u] = email[v] => u = v

(* Every step keeps the types. *)
LEMMA TypeNext == TypeOK /\ LoginInv /\ RowLocked /\ [Next]_vars => TypeOK'
<1> SUFFICES ASSUME TypeOK, LoginInv, RowLocked, [Next]_vars PROVE TypeOK'
  BY Zenon
<1> USE DEF users, txs, redis, login, Goto, Return
<1>1. ASSUME UNCHANGED <<vars>> PROVE TypeOK'
  BY <1>1 DEF TypeOK, vars
<1>2. ASSUME NEW l \in Login, LoginNext(l) PROVE TypeOK'
  <2>1. CASE LoginStart(l)
    BY <2>1, LoginEmailAssumption DEF LoginStart, TypeOK
  <2>2. CASE GetLoginAttempts(l)
    BY <2>2 DEF GetLoginAttempts, TypeOK
  <2>3. CASE ValidateCredentials(l)
    BY <2>3 DEF ValidateCredentials, GetUserCredentials, TypeOK
  <2>4. CASE ValidateFail(l)
    BY <2>4 DEF ValidateFail, TypeOK
  <2>5. CASE IncrementLoginAttempts(l)
    <3>1. le[l] \in Email /\ count' = [count EXCEPT ![le[l]] = @ + 1]
      BY <2>5 DEF IncrementLoginAttempts, Incr, LoginInv
    <3>2. count' \in [Email -> Nat]
      BY <3>1 DEF TypeOK
    <3>3. /\ pc' \in [Login -> {"idle", "get", "validate", "incr", "expire", "reset", "token"}]
          /\ le' \in [Login -> Email \cup {None}]
          /\ lp' \in [Login -> Password \cup {None}]
          /\ lu' \in [Login -> Uid \cup {None}]
      BY <2>5 DEF IncrementLoginAttempts, TypeOK
    <3> QED
      BY <2>5, <3>2, <3>3 DEF IncrementLoginAttempts, TypeOK
  <2>6. CASE Expire(l)
    <3>1. left' \in [Email -> Nat]
      BY <2>6, AttemptsAssumption DEF Expire, ExpireKey, TypeOK
    <3> QED
      BY <2>6, <3>1 DEF Expire, TypeOK
  <2>7. CASE ResetLoginAttempts(l)
    <3>1. count' \in [Email -> Nat] /\ left' \in [Email -> Nat]
      BY <2>7 DEF ResetLoginAttempts, Del, TypeOK
    <3> QED
      BY <2>7, <3>1 DEF ResetLoginAttempts, TypeOK
  <2>8. CASE ResetFail(l)
    BY <2>8 DEF ResetFail, TypeOK
  <2>9. CASE GenerateRefreshToken(l)
    <3>1. <<"refresh", lu[l], le[l]>> \in Kind \X Uid \X Email
      BY <2>9 DEF GenerateRefreshToken, LoginInv, Kind
    <3> QED
      BY <2>9, <3>1 DEF GenerateRefreshToken, GenerateToken, TypeOK
  <2>10. CASE LoginFail(l)
    <3>1. lost' \subseteq Email
      BY <2>10 DEF LoginFail, LoginInv, TypeOK
    <3> QED
      BY <2>10, <3>1 DEF LoginFail, TypeOK
  <2> QED
    BY <1>2, <2>1, <2>2, <2>3, <2>4, <2>5, <2>6, <2>7, <2>8, <2>9, <2>10 DEF LoginNext
<1>3. ASSUME NEW x \in Changer,
             UpdatePassword(x) \/ LogPassword(x) \/ Commit(x) \/ Rollback(x)
      PROVE  TypeOK'
  <2>1. CASE UpdatePassword(x)
    BY <2>1 DEF UpdatePassword, TypeOK
  <2>2. CASE LogPassword(x)
    BY <2>2 DEF LogPassword, TypeOK
  <2>3. CASE Commit(x)
    <3>1. txUid[x] \in Uid /\ txPw[x] \in Password
      BY <2>3 DEF Commit, RowLocked
    <3>2. /\ password' \in [Uid -> Password \cup {None}]
          /\ logs' \in [Uid -> Nat] /\ changed' \in [Uid -> Nat]
      BY <2>3, <3>1 DEF Commit, TypeOK
    <3> QED
      BY <2>3, <3>2 DEF Commit, EndTx, TypeOK
  <2>4. CASE Rollback(x)
    BY <2>4 DEF Rollback, EndTx, TypeOK
  <2> QED
    BY <1>3, <2>1, <2>2, <2>3, <2>4
<1>4. CASE Create \/ Update \/ Delete
  <2>1. CASE Create
    BY <2>1 DEF Create, TypeOK
  <2>2. CASE Update
    BY <2>2 DEF Update, TypeOK
  <2>3. CASE Delete
    BY <2>3 DEF Delete, TypeOK
  <2> QED
    BY <1>4, <2>1, <2>2, <2>3
<1>5. CASE Tick
  <2>1. left' \in [Email -> Nat] /\ count' \in [Email -> Nat]
    BY <1>5 DEF Tick, TypeOK
  <2> QED
    BY <1>5, <2>1 DEF Tick, TypeOK
<1>6. CASE TokenNext
  <2>1. ASSUME NEW kind \in Kind, NEW t \in token PROVE <<kind, t[2], t[3]>> \in Kind \X Uid \X Email
    BY DEF TypeOK
  <2>2. token' \subseteq Kind \X Uid \X Email
    BY <1>6, <2>1 DEF TokenNext, GetAccessToken, GetRefreshToken, TokenExpires, GenerateToken,
       VerifyToken, Kind, TypeOK
  <2> QED
    BY <1>6, <2>2 DEF TokenNext, GetAccessToken, GetRefreshToken, TokenExpires, TypeOK
<1>7. CASE UNCHANGED vars
  BY <1>1, <1>7 DEF vars, users, txs, redis, login
<1> QED
  BY <1>2, <1>3, <1>4, <1>5, <1>6, <1>7 DEF Next, UsersNext

(* A login keeps its email, and its user once it has found one. *)
LEMMA LoginStep == TypeOK /\ LoginInv /\ [Next]_vars => LoginInv'
<1> SUFFICES ASSUME TypeOK, LoginInv, [Next]_vars PROVE LoginInv'
  BY Zenon
<1> USE DEF users, txs, redis, login, Goto, Return
<1>1. ASSUME UNCHANGED <<pc, le, lp, lu>> PROVE LoginInv'
  BY <1>1 DEF LoginInv
<1>2. ASSUME NEW l \in Login, LoginNext(l) PROVE LoginInv'
  <2>1. CASE LoginStart(l)
    BY <2>1, LoginEmailAssumption DEF LoginStart, LoginInv, TypeOK
  <2>2. CASE GetLoginAttempts(l)
    BY <2>2 DEF GetLoginAttempts, LoginInv, TypeOK
  <2>3. CASE ValidateCredentials(l)
    BY <2>3 DEF ValidateCredentials, GetUserCredentials, LoginInv, TypeOK
  <2>4. CASE ValidateFail(l)
    BY <2>4 DEF ValidateFail, LoginInv, TypeOK
  <2>5. CASE IncrementLoginAttempts(l)
    BY <2>5 DEF IncrementLoginAttempts, LoginInv, TypeOK
  <2>6. CASE Expire(l)
    BY <2>6 DEF Expire, LoginInv, TypeOK
  <2>7. CASE ResetLoginAttempts(l)
    BY <2>7 DEF ResetLoginAttempts, LoginInv, TypeOK
  <2>8. CASE ResetFail(l)
    BY <2>8 DEF ResetFail, LoginInv, TypeOK
  <2>9. CASE GenerateRefreshToken(l)
    BY <2>9 DEF GenerateRefreshToken, LoginInv, TypeOK
  <2>10. CASE LoginFail(l)
    BY <2>10 DEF LoginFail, LoginInv, TypeOK
  <2> QED
    BY <1>2, <2>1, <2>2, <2>3, <2>4, <2>5, <2>6, <2>7, <2>8, <2>9, <2>10 DEF LoginNext
<1>3. ASSUME NEW x \in Changer,
             UpdatePassword(x) \/ LogPassword(x) \/ Commit(x) \/ Rollback(x)
      PROVE  LoginInv'
  <2>1. CASE UpdatePassword(x) \/ LogPassword(x) \/ Commit(x) \/ Rollback(x)
    BY <1>1, <2>1 DEF UpdatePassword, LogPassword, Commit, Rollback
  <2> QED
    BY <1>3, <2>1
<1>4. CASE Create \/ Update \/ Delete
  <2>1. CASE Create \/ Update \/ Delete
    BY <1>1, <2>1 DEF Create, Update, Delete
  <2> QED
    BY <1>4, <2>1
<1>5. CASE Tick
  BY <1>1, <1>5 DEF Tick
<1>6. CASE TokenNext
  BY <1>1, <1>6 DEF TokenNext, GetAccessToken, GetRefreshToken, TokenExpires
<1>7. CASE UNCHANGED vars
  BY <1>1, <1>7 DEF vars, users, txs, redis, login
<1> QED
  BY <1>2, <1>3, <1>4, <1>5, <1>6, <1>7 DEF Next, UsersNext

(* A row that is locked is neither deleted nor locked again. *)
LEMMA LockStep == TypeOK /\ RowLocked /\ [Next]_vars => RowLocked'
<1> SUFFICES ASSUME TypeOK, RowLocked, [Next]_vars PROVE RowLocked'
  BY Zenon
<1> USE DEF users, txs, redis, login, Goto, Return
<1>1. ASSUME UNCHANGED <<email, born, tx, txUid, txPw>> PROVE RowLocked'
  BY <1>1 DEF RowLocked
<1>2. ASSUME NEW l \in Login, LoginNext(l) PROVE RowLocked'
  <2>1. CASE LoginStart(l) \/ GetLoginAttempts(l) \/ ValidateCredentials(l) \/
            ValidateFail(l) \/ IncrementLoginAttempts(l) \/ Expire(l) \/
            ResetLoginAttempts(l) \/ ResetFail(l) \/ GenerateRefreshToken(l) \/
            LoginFail(l)
    BY <1>1, <2>1 DEF LoginStart, GetLoginAttempts, ValidateCredentials, ValidateFail,
       IncrementLoginAttempts, Expire, ResetLoginAttempts, ResetFail,
       GenerateRefreshToken, LoginFail
  <2> QED
    BY <1>2, <2>1 DEF LoginNext
<1>3. ASSUME NEW x \in Changer,
             UpdatePassword(x) \/ LogPassword(x) \/ Commit(x) \/ Rollback(x)
      PROVE  RowLocked'
  <2>1. CASE UpdatePassword(x)
    BY <2>1 DEF UpdatePassword, EndTx, RowLocked, Live, Locked, TypeOK
  <2>2. CASE LogPassword(x)
    BY <2>2 DEF LogPassword, EndTx, RowLocked, Live, Locked, TypeOK
  <2>3. CASE Commit(x)
    BY <2>3 DEF Commit, EndTx, RowLocked, Live, Locked, TypeOK
  <2>4. CASE Rollback(x)
    BY <2>4 DEF Rollback, EndTx, RowLocked, Live, Locked, TypeOK
  <2> QED
    BY <1>3, <2>1, <2>2, <2>3, <2>4
<1>4. CASE Create \/ Update \/ Delete
  <2>1. CASE Create
    BY <2>1, NoneAssumption DEF Create, RowLocked, Taken, TypeOK
  <2>2. CASE Update
    BY <2>2 DEF Update, RowLocked, Live, Locked, Taken, TypeOK
  <2>3. CASE Delete
    BY <2>3 DEF Delete, RowLocked, Live, Locked, Taken, TypeOK
  <2> QED
    BY <1>4, <2>1, <2>2, <2>3
<1>5. CASE Tick
  BY <1>1, <1>5 DEF Tick
<1>6. CASE TokenNext
  BY <1>1, <1>6 DEF TokenNext, GetAccessToken, GetRefreshToken, TokenExpires
<1>7. CASE UNCHANGED vars
  BY <1>1, <1>7 DEF vars, users, txs, redis, login
<1> QED
  BY <1>2, <1>3, <1>4, <1>5, <1>6, <1>7 DEF Next, UsersNext

-----------------------------------------------------------------------------
(* The counter of attempts *)

(* The cap of ReplyToInt8 changes no comparison of the code. *)
LEMMA CapKeepsLimit ==
  ASSUME NEW n \in Nat
  PROVE  /\ ReplyToInt8(n) >= MaxAttempts <=> n >= MaxAttempts
         /\ n = 1 => ReplyToInt8(n) = 1
  BY AttemptsAssumption DEF ReplyToInt8

(* The logins that passed the throttle are among all logins. *)
LEMMA PassedSize ==
  ASSUME NEW S, S \subseteq Login
  PROVE  /\ IsFiniteSet(S) /\ Cardinality(S) \in Nat /\ Cardinality(Login) \in Nat
         /\ Cardinality(S) <= Cardinality(Login)
         /\ \A l \in S : Cardinality(S \ {l}) = Cardinality(S) - 1
         /\ \A T : T \subseteq S => Cardinality(T) <= Cardinality(S) /\ Cardinality(T) \in Nat
<1>1. IsFiniteSet(S) /\ Cardinality(S) <= Cardinality(Login)
  BY LoginAssumption, FS_Subset
<1>2. Cardinality(S) \in Nat /\ Cardinality(Login) \in Nat
  BY <1>1, LoginAssumption, FS_CardinalityType
<1>3. ASSUME NEW l \in S PROVE Cardinality(S \ {l}) = Cardinality(S) - 1
  BY <1>1, FS_RemoveElement
<1>4. ASSUME NEW T, T \subseteq S PROVE Cardinality(T) <= Cardinality(S) /\ Cardinality(T) \in Nat
  BY <1>1, <1>4, FS_Subset, FS_CardinalityType
<1> QED
  BY <1>1, <1>2, <1>3, <1>4

(* A step that raises no counter and lets no login through keeps the bound. *)
LEMMA NoMoreAttempts ==
  ASSUME TypeOK, TypeOK', AttemptsBounded,
         \A e \in Email : count'[e] <= count[e] /\ Passed(e)' \subseteq Passed(e)
  PROVE  AttemptsBounded'
<1> SUFFICES ASSUME NEW e \in Email
             PROVE  count'[e] + Cardinality(Passed(e)') <= MaxAttempts - 1 + Cardinality(Login)
  BY DEF AttemptsBounded
<1>1. count[e] \in Nat /\ count'[e] \in Nat /\ count'[e] <= count[e]
  BY DEF TypeOK
<1> DEFINE P == Passed(e)
           Q == Passed(e)'
<1>2. P \subseteq Login /\ Q \subseteq P
  BY DEF Passed
<1> HIDE DEF P, Q
<1>3. /\ Cardinality(P) \in Nat /\ Cardinality(Q) \in Nat /\ Cardinality(Login) \in Nat
      /\ Cardinality(Q) <= Cardinality(P)
  BY <1>2, PassedSize
<1>4. count[e] + Cardinality(P) <= MaxAttempts - 1 + Cardinality(Login)
  BY DEF AttemptsBounded, P
<1>5. count'[e] + Cardinality(Q) <= MaxAttempts - 1 + Cardinality(Login)
  BY <1>1, <1>3, <1>4, AttemptsAssumption
<1> QED
  BY <1>5 DEF Q

(* A login is let through below the limit, and counted once. *)
LEMMA AttemptsStep ==
  TypeOK /\ LoginInv /\ RowLocked /\ AttemptsBounded /\ [Next]_vars => AttemptsBounded'
<1> SUFFICES ASSUME TypeOK, LoginInv, RowLocked, AttemptsBounded, [Next]_vars
             PROVE  AttemptsBounded'
  BY Zenon
<1> USE DEF users, txs, redis, login, Goto, Return
<1>1. ASSUME UNCHANGED <<count, pc, le>> PROVE AttemptsBounded'
  BY <1>1 DEF AttemptsBounded, Passed
<1>2. ASSUME NEW l \in Login, LoginNext(l) PROVE AttemptsBounded'
  <2>1. CASE LoginStart(l)
    <3>1. \A e \in Email : count'[e] <= count[e]
      BY <2>1 DEF LoginStart, Del, LoginInv, TypeOK
    <3>2. \A e \in Email : Passed(e)' \subseteq Passed(e)
      BY <2>1 DEF LoginStart, Passed, TypeOK
    <3> QED
      BY <3>1, <3>2, TypeNext, NoMoreAttempts
  <2>2. CASE GetLoginAttempts(l)
    <3>1. le[l] \in Email /\ count[le[l]] \in Nat
      BY <2>2 DEF GetLoginAttempts, LoginInv, TypeOK
    <3>2. CASE count[le[l]] >= MaxAttempts
      <4>1. \A e \in Email : count'[e] <= count[e]
        BY <2>2 DEF GetLoginAttempts, TypeOK
      <4>2. Return(l)
        BY <2>2, <3>1, <3>2, CapKeepsLimit DEF GetLoginAttempts, Get
      <4>3. \A e \in Email : Passed(e)' \subseteq Passed(e)
        BY <4>2 DEF Passed, TypeOK
      <4> QED
        BY <4>1, <4>3, TypeNext, NoMoreAttempts
    <3>3. CASE ~(count[le[l]] >= MaxAttempts)
      <4> SUFFICES ASSUME NEW e \in Email
                   PROVE  count'[e] + Cardinality(Passed(e)')
                            <= MaxAttempts - 1 + Cardinality(Login)
        BY DEF AttemptsBounded
      <4>1. /\ UNCHANGED <<count, le>> /\ pc'[l] = "validate"
            /\ \A k \in Login : k # l => pc'[k] = pc[k]
        BY <2>2, <3>1, <3>3, CapKeepsLimit DEF GetLoginAttempts, Get, TypeOK
      <4>2. CASE e = le[l]
        <5> DEFINE Q == Passed(e)'
        <5>1. Q \subseteq Login
          BY DEF Passed
        <5> HIDE DEF Q
        <5>2. Cardinality(Q) \in Nat /\ Cardinality(Login) \in Nat /\ Cardinality(Q) <= Cardinality(Login)
          BY <5>1, PassedSize
        <5>3. count'[e] \in Nat /\ count'[e] <= MaxAttempts - 1
          BY <3>1, <3>3, <4>1, <4>2, AttemptsAssumption
        <5>4. count'[e] + Cardinality(Q) <= MaxAttempts - 1 + Cardinality(Login)
          BY <5>2, <5>3, AttemptsAssumption
        <5> QED
          BY <5>4 DEF Q
      <4>3. CASE e # le[l]
        <5>1. Passed(e)' = Passed(e)
          BY <4>1, <4>3 DEF Passed
        <5> QED
          BY <4>1, <5>1 DEF AttemptsBounded
      <4> QED
        BY <4>2, <4>3
    <3> QED
      BY <3>2, <3>3
  <2>3. CASE ValidateCredentials(l)
    <3>1. \A e \in Email : count'[e] <= count[e]
      BY <2>3 DEF ValidateCredentials, Del, LoginInv, TypeOK
    <3>2. \A e \in Email : Passed(e)' \subseteq Passed(e)
      BY <2>3 DEF ValidateCredentials, Passed, TypeOK
    <3> QED
      BY <3>1, <3>2, TypeNext, NoMoreAttempts
  <2>4. CASE ValidateFail(l)
    <3>1. \A e \in Email : count'[e] <= count[e]
      BY <2>4 DEF ValidateFail, Del, LoginInv, TypeOK
    <3>2. \A e \in Email : Passed(e)' \subseteq Passed(e)
      BY <2>4 DEF ValidateFail, Passed, TypeOK
    <3> QED
      BY <3>1, <3>2, TypeNext, NoMoreAttempts
  <2>5. CASE IncrementLoginAttempts(l)
    <3> SUFFICES ASSUME NEW e \in Email
                 PROVE  count'[e] + Cardinality(Passed(e)')
                          <= MaxAttempts - 1 + Cardinality(Login)
      BY DEF AttemptsBounded
    <3>1. /\ le[l] \in Email /\ pc[l] = "incr" /\ pc'[l] \notin {"validate", "incr"}
          /\ \A k \in Login : k # l => pc'[k] = pc[k] /\ le'[k] = le[k]
          /\ count' = [count EXCEPT ![le[l]] = @ + 1]
      BY <2>5 DEF IncrementLoginAttempts, Incr, LoginInv, TypeOK
    <3> DEFINE P == Passed(e)
    <3>2. count[e] + Cardinality(P) <= MaxAttempts - 1 + Cardinality(Login)
      BY DEF AttemptsBounded
    <3>3. P \subseteq Login
      BY DEF Passed
    <3>4. CASE e = le[l]
      <4>1. Passed(e)' = P \ {l} /\ l \in P
        BY <3>1, <3>4 DEF Passed
      <4> HIDE DEF P
      <4>2. /\ Cardinality(P) \in Nat /\ Cardinality(Login) \in Nat
            /\ Cardinality(P \ {l}) = Cardinality(P) - 1
        BY <3>3, <4>1, PassedSize
      <4>3. count[e] \in Nat /\ count'[e] = count[e] + 1
        BY <3>1, <3>4 DEF TypeOK
      <4>4. count'[e] + Cardinality(P \ {l}) <= MaxAttempts - 1 + Cardinality(Login)
        BY <3>2, <4>2, <4>3, AttemptsAssumption
      <4> QED
        BY <4>1, <4>4
    <3>5. CASE e # le[l]
      <4>1. Passed(e)' = P
        BY <3>1, <3>5 DEF Passed
      <4>2. count'[e] = count[e]
        BY <3>1, <3>5 DEF TypeOK
      <4> QED
        BY <3>2, <4>1, <4>2
    <3> QED
      BY <3>4, <3>5
  <2>6. CASE Expire(l)
    <3>1. \A e \in Email : count'[e] <= count[e]
      BY <2>6 DEF Expire, Del, LoginInv, TypeOK
    <3>2. \A e \in Email : Passed(e)' \subseteq Passed(e)
      BY <2>6 DEF Expire, Passed, TypeOK
    <3> QED
      BY <3>1, <3>2, TypeNext, NoMoreAttempts
  <2>7. CASE ResetLoginAttempts(l)
    <3>1. \A e \in Email : count'[e] <= count[e]
      BY <2>7 DEF ResetLoginAttempts, Del, LoginInv, TypeOK
    <3>2. \A e \in Email : Passed(e)' \subseteq Passed(e)
      BY <2>7 DEF ResetLoginAttempts, Passed, TypeOK
    <3> QED
      BY <3>1, <3>2, TypeNext, NoMoreAttempts
  <2>8. CASE ResetFail(l)
    <3>1. \A e \in Email : count'[e] <= count[e]
      BY <2>8 DEF ResetFail, Del, LoginInv, TypeOK
    <3>2. \A e \in Email : Passed(e)' \subseteq Passed(e)
      BY <2>8 DEF ResetFail, Passed, TypeOK
    <3> QED
      BY <3>1, <3>2, TypeNext, NoMoreAttempts
  <2>9. CASE GenerateRefreshToken(l)
    <3>1. \A e \in Email : count'[e] <= count[e]
      BY <2>9 DEF GenerateRefreshToken, Del, LoginInv, TypeOK
    <3>2. \A e \in Email : Passed(e)' \subseteq Passed(e)
      BY <2>9 DEF GenerateRefreshToken, Passed, TypeOK
    <3> QED
      BY <3>1, <3>2, TypeNext, NoMoreAttempts
  <2>10. CASE LoginFail(l)
    <3>1. \A e \in Email : count'[e] <= count[e]
      BY <2>10 DEF LoginFail, Del, LoginInv, TypeOK
    <3>2. \A e \in Email : Passed(e)' \subseteq Passed(e)
      BY <2>10 DEF LoginFail, Passed, TypeOK
    <3> QED
      BY <3>1, <3>2, TypeNext, NoMoreAttempts
  <2> QED
    BY <1>2, <2>1, <2>2, <2>3, <2>4, <2>5, <2>6, <2>7, <2>8, <2>9, <2>10 DEF LoginNext
<1>3. ASSUME NEW x \in Changer,
             UpdatePassword(x) \/ LogPassword(x) \/ Commit(x) \/ Rollback(x)
      PROVE  AttemptsBounded'
  <2>1. CASE UpdatePassword(x) \/ LogPassword(x) \/ Commit(x) \/ Rollback(x)
    BY <1>1, <2>1 DEF UpdatePassword, LogPassword, Commit, Rollback
  <2> QED
    BY <1>3, <2>1
<1>4. CASE Create \/ Update \/ Delete
  <2>1. CASE Create \/ Update \/ Delete
    BY <1>1, <2>1 DEF Create, Update, Delete
  <2> QED
    BY <1>4, <2>1
<1>5. CASE Tick
  <2>1. \A e \in Email : count'[e] <= count[e]
    BY <1>5 DEF Tick, TypeOK
  <2>2. \A e \in Email : Passed(e)' \subseteq Passed(e)
    BY <1>5 DEF Tick, Passed
  <2> QED
    BY <2>1, <2>2, TypeNext, NoMoreAttempts
<1>6. CASE TokenNext
  BY <1>1, <1>6 DEF TokenNext, GetAccessToken, GetRefreshToken, TokenExpires
<1>7. CASE UNCHANGED vars
  BY <1>1, <1>7 DEF vars, users, txs, redis, login
<1> QED
  BY <1>2, <1>3, <1>4, <1>5, <1>6, <1>7 DEF Next, UsersNext

(* The first attempt of a window leads to its EXPIRE. *)
LEMMA ExpiryStep == TypeOK /\ LoginInv /\ CounterExpires /\ [Next]_vars => CounterExpires'
<1> SUFFICES ASSUME TypeOK, LoginInv, CounterExpires, [Next]_vars PROVE CounterExpires'
  BY Zenon
<1> USE DEF users, txs, redis, login, Goto, Return
<1>1. ASSUME UNCHANGED <<count, left, lost, pc, le>> PROVE CounterExpires'
  BY <1>1 DEF CounterExpires
<1>2. ASSUME NEW l \in Login, LoginNext(l) PROVE CounterExpires'
  <2>1. CASE LoginStart(l)
    <3>1. /\ pc[l] # "expire" /\ \A k \in Login : k # l => pc'[k] = pc[k] /\ le'[k] = le[k]
          /\ UNCHANGED <<count, left, lost>>
      BY <2>1 DEF LoginStart, TypeOK
    <3> QED
      BY <3>1 DEF CounterExpires
  <2>2. CASE GetLoginAttempts(l)
    <3>1. /\ pc[l] # "expire" /\ \A k \in Login : k # l => pc'[k] = pc[k] /\ le'[k] = le[k]
          /\ UNCHANGED <<count, left, lost>>
      BY <2>2 DEF GetLoginAttempts, TypeOK
    <3> QED
      BY <3>1 DEF CounterExpires
  <2>3. CASE ValidateCredentials(l)
    <3>1. /\ pc[l] # "expire" /\ \A k \in Login : k # l => pc'[k] = pc[k] /\ le'[k] = le[k]
          /\ UNCHANGED <<count, left, lost>>
      BY <2>3 DEF ValidateCredentials, TypeOK
    <3> QED
      BY <3>1 DEF CounterExpires
  <2>4. CASE ValidateFail(l)
    <3>1. /\ pc[l] # "expire" /\ \A k \in Login : k # l => pc'[k] = pc[k] /\ le'[k] = le[k]
          /\ UNCHANGED <<count, left, lost>>
      BY <2>4 DEF ValidateFail, TypeOK
    <3> QED
      BY <3>1 DEF CounterExpires
  <2>5. CASE IncrementLoginAttempts(l)
    <3>1. /\ pc[l] = "incr" /\ le[l] \in Email /\ UNCHANGED <<left, lost>>
          /\ \A k \in Login : k # l => pc'[k] = pc[k] /\ le'[k] = le[k]
          /\ \A e \in Email : e # le[l] => count'[e] = count[e]
      BY <2>5 DEF IncrementLoginAttempts, Incr, LoginInv, TypeOK
    <3>2. CASE count[le[l]] = 0
      <4>1. ReplyToInt8(count[le[l]] + 1) = 1
        BY <3>2, CapKeepsLimit
      <4>2. pc'[l] = "expire" /\ le'[l] = le[l]
        BY <2>5, <4>1 DEF IncrementLoginAttempts, TypeOK
      <4> QED
        BY <3>1, <4>2 DEF CounterExpires
    <3>3. CASE count[le[l]] # 0
      <4>1. count[le[l]] > 0
        BY <3>1, <3>3 DEF TypeOK
      <4> QED
        BY <3>1, <4>1 DEF CounterExpires
    <3> QED
      BY <3>2, <3>3
  <2>6. CASE Expire(l)
    <3>1. /\ le[l] \in Email /\ lost' = lost \ {le[l]} /\ UNCHANGED count
          /\ left'[le[l]] = (IF count[le[l]] > 0 THEN Window ELSE 0)
          /\ \A e \in Email : e # le[l] => left'[e] = left[e]
      BY <2>6 DEF Expire, ExpireKey, LoginInv, TypeOK
    <3>2. \A k \in Login : k # l => pc'[k] = pc[k] /\ le'[k] = le[k]
      BY <2>6 DEF Expire, TypeOK
    <3> QED
      BY <3>1, <3>2, AttemptsAssumption DEF CounterExpires
  <2>7. CASE ResetLoginAttempts(l)
    <3>1. /\ pc[l] # "expire" /\ \A k \in Login : k # l => pc'[k] = pc[k] /\ le'[k] = le[k]
      BY <2>7 DEF ResetLoginAttempts, TypeOK
    <3>2. /\ le[l] \in Email /\ count'[le[l]] = 0 /\ lost' = lost \ {le[l]}
          /\ \A e \in Email : e # le[l] => count'[e] = count[e] /\ left'[e] = left[e]
      BY <2>7 DEF ResetLoginAttempts, Del, LoginInv, TypeOK
    <3> QED
      BY <3>1, <3>2 DEF CounterExpires
  <2>8. CASE ResetFail(l)
    <3>1. /\ pc[l] # "expire" /\ \A k \in Login : k # l => pc'[k] = pc[k] /\ le'[k] = le[k]
          /\ UNCHANGED <<count, left, lost>>
      BY <2>8 DEF ResetFail, TypeOK
    <3> QED
      BY <3>1 DEF CounterExpires
  <2>9. CASE GenerateRefreshToken(l)
    <3>1. /\ pc[l] # "expire" /\ \A k \in Login : k # l => pc'[k] = pc[k] /\ le'[k] = le[k]
          /\ UNCHANGED <<count, left, lost>>
      BY <2>9 DEF GenerateRefreshToken, TypeOK
    <3> QED
      BY <3>1 DEF CounterExpires
  <2>10. CASE LoginFail(l)
    <3>1. /\ UNCHANGED <<count, left>> /\ lost \subseteq lost'
          /\ pc[l] = "expire" => le[l] \in lost'
          /\ \A k \in Login : k # l => pc'[k] = pc[k] /\ le'[k] = le[k]
      BY <2>10 DEF LoginFail, TypeOK
    <3> QED
      BY <3>1 DEF CounterExpires
  <2> QED
    BY <1>2, <2>1, <2>2, <2>3, <2>4, <2>5, <2>6, <2>7, <2>8, <2>9, <2>10 DEF LoginNext
<1>3. ASSUME NEW x \in Changer,
             UpdatePassword(x) \/ LogPassword(x) \/ Commit(x) \/ Rollback(x)
      PROVE  CounterExpires'
  <2>1. CASE UpdatePassword(x) \/ LogPassword(x) \/ Commit(x) \/ Rollback(x)
    BY <1>1, <2>1 DEF UpdatePassword, LogPassword, Commit, Rollback
  <2> QED
    BY <1>3, <2>1
<1>4. CASE Create \/ Update \/ Delete
  <2>1. CASE Create \/ Update \/ Delete
    BY <1>1, <2>1 DEF Create, Update, Delete
  <2> QED
    BY <1>4, <2>1
<1>5. CASE Tick
  <2>1. UNCHANGED <<pc, le>>
    BY <1>5 DEF Tick
  <2>2. ASSUME NEW e \in Email, count'[e] > 0, left'[e] = 0
        PROVE  count[e] > 0 /\ left[e] = 0 /\ (e \in lost => e \in lost')
    <3>1. left[e] # 1 /\ count[e] > 0
      BY <1>5, <2>2 DEF Tick
    <3>2. left[e] = 0
      BY <1>5, <2>2, <3>1 DEF Tick, TypeOK
    <3> QED
      BY <1>5, <3>1, <3>2 DEF Tick
  <2> QED
    BY <2>1, <2>2 DEF CounterExpires
<1>6. CASE TokenNext
  BY <1>1, <1>6 DEF TokenNext, GetAccessToken, GetRefreshToken, TokenExpires
<1>7. CASE UNCHANGED vars
  BY <1>1, <1>7 DEF vars, users, txs, redis, login
<1> QED
  BY <1>2, <1>3, <1>4, <1>5, <1>6, <1>7 DEF Next, UsersNext

(* A password change and its log row are committed together. *)
LEMMA LogStep ==
  TypeOK /\ RowLocked /\ PasswordChangesLogged /\ [Next]_vars => PasswordChangesLogged'
<1> SUFFICES ASSUME TypeOK, RowLocked, PasswordChangesLogged, [Next]_vars
             PROVE  PasswordChangesLogged'
  BY Zenon
<1> USE DEF users, txs, redis, login, Goto, Return
<1>1. ASSUME UNCHANGED <<logs, changed>> PROVE PasswordChangesLogged'
  BY <1>1 DEF PasswordChangesLogged
<1>2. ASSUME NEW l \in Login, LoginNext(l) PROVE PasswordChangesLogged'
  <2>1. CASE LoginStart(l) \/ GetLoginAttempts(l) \/ ValidateCredentials(l) \/
            ValidateFail(l) \/ IncrementLoginAttempts(l) \/ Expire(l) \/
            ResetLoginAttempts(l) \/ ResetFail(l) \/ GenerateRefreshToken(l) \/
            LoginFail(l)
    BY <1>1, <2>1 DEF LoginStart, GetLoginAttempts, ValidateCredentials, ValidateFail,
       IncrementLoginAttempts, Expire, ResetLoginAttempts, ResetFail,
       GenerateRefreshToken, LoginFail
  <2> QED
    BY <1>2, <2>1 DEF LoginNext
<1>3. ASSUME NEW x \in Changer,
             UpdatePassword(x) \/ LogPassword(x) \/ Commit(x) \/ Rollback(x)
      PROVE  PasswordChangesLogged'
  <2>1. CASE Commit(x)
    <3>1. txUid[x] \in Uid
      BY <2>1 DEF Commit, RowLocked
    <3> QED
      BY <2>1, <3>1 DEF Commit, PasswordChangesLogged, TypeOK
  <2>2. CASE UpdatePassword(x) \/ LogPassword(x) \/ Rollback(x)
    BY <1>1, <2>2 DEF UpdatePassword, LogPassword, Rollback
  <2> QED
    BY <1>3, <2>1, <2>2
<1>4. CASE Create \/ Update \/ Delete
  <2>1. CASE Delete
    BY <2>1 DEF Delete, PasswordChangesLogged, TypeOK
  <2>2. CASE Create \/ Update
    BY <1>1, <2>2 DEF Create, Update
  <2> QED
    BY <1>4, <2>1, <2>2
<1>5. CASE Tick
  BY <1>1, <1>5 DEF Tick
<1>6. CASE TokenNext
  BY <1>1, <1>6 DEF TokenNext, GetAccessToken, GetRefreshToken, TokenExpires
<1>7. CASE UNCHANGED vars
  BY <1>1, <1>7 DEF vars, users, txs, redis, login
<1> QED
  BY <1>2, <1>3, <1>4, <1>5, <1>6, <1>7 DEF Next, UsersNext

-----------------------------------------------------------------------------
Inv == /\ TypeOK /\ LoginInv /\ RowLocked
       /\ AttemptsBounded /\ CounterExpires /\ PasswordChangesLogged

(* No user, no login and no counter at first. *)
LEMMA InitInv == Init => Inv
<1> SUFFICES ASSUME Init PROVE Inv
  OBVIOUS
<1>1. TypeOK /\ LoginInv /\ RowLocked
  BY DEF Init, TypeOK, LoginInv, RowLocked
<1>2. AttemptsBounded
  <2> SUFFICES ASSUME NEW e \in Email
               PROVE  count[e] + Cardinality(Passed(e)) <= MaxAttempts - 1 + Cardinality(Login)
    BY DEF AttemptsBounded
  <2> DEFINE P == Passed(e)
  <2>1. count[e] = 0 /\ P \subseteq Login
    BY DEF Init, Passed
  <2> HIDE DEF P
  <2>2. /\ Cardinality(P) \in Nat /\ Cardinality(Login) \in Nat
        /\ Cardinality(P) <= Cardinality(Login)
    BY <2>1, PassedSize
  <2>3. count[e] + Cardinality(P) <= MaxAttempts - 1 + Cardinality(Login)
    BY <2>1, <2>2, AttemptsAssumption
  <2> QED
    BY <2>3 DEF P
<1>3. CounterExpires /\ PasswordChangesLogged
  BY DEF Init, CounterExpires, PasswordChangesLogged
<1> QED
  BY <1>1, <1>2, <1>3 DEF Inv

(* The inductive invariant. *)
THEOREM Invariance == Spec => []Inv
<1>1. Inv /\ [Next]_vars => Inv'
  BY TypeNext, LoginStep, LockStep, AttemptsStep, ExpiryStep, LogStep DEF Inv
<1> QED
  BY InitInv, <1>1, PTL DEF Spec

(* The accounts, the counters, the logins and the tokens keep their types: *)
(* a token names a user and the email the login was made with.             *)
THEOREM TypeCorrect == Spec => []TypeOK
  BY Invariance, PTL DEF Inv

(* The UPDATE of UpdatePassword locks the user's row until the transaction *)
(* ends: two password changes of a user never overlap, and the user is not *)
(* deleted under one.                                                      *)
THEOREM OneChangeAtATime == Spec => []RowLocked
  BY Invariance, PTL DEF Inv

(* Login reads the counter before it raises it: with any number of logins  *)
(* in flight the attempts of a window exceed the limit by less than that   *)
(* number, through resets, expiries and failures of Redis.                 *)
THEOREM AttemptsAreBounded == Spec => []AttemptsBounded
  BY Invariance, PTL DEF Inv

(* IncrementLoginAttempts calls EXPIRE only when INCR answers 1: whatever  *)
(* interleaves, a counter without an expiry has one on its way, or an      *)
(* EXPIRE has failed.                                                      *)
THEOREM CountersExpire == Spec => []CounterExpires
  BY Invariance, PTL DEF Inv

(* UpdatePassword and LogPassword are one transaction: the log has as many *)
(* rows of a user as the password was changed.                             *)
THEOREM ChangesAreLogged == Spec => []PasswordChangesLogged
  BY Invariance, PTL DEF Inv
=============================================================================
