------------------------------ MODULE Accounts ------------------------------
(***************************************************************************)
(* Accounts and sessions: the users service over PostgreSQL, and the auth  *)
(* service with its counter of failed logins in Redis and its JWTs.        *)
(*                                                                         *)
(*   services/auth/internal/{handler,service,repository}/auth              *)
(*   services/auth/internal/client      Redis commands, the users client   *)
(*   services/users/internal/{handler,service,repository}/user             *)
(*   shared/pkg/go-kit/tokens/jwt       generation and verification        *)
(*                                                                         *)
(* A login is one Login RPC after another; every Redis command and the RPC *)
(* to the users service is a step of its own.  UpdatePassword is the only  *)
(* transaction of two statements.  A token is what its claims say; tokens  *)
(* are held by clients and nothing on the server knows them.               *)
(***************************************************************************)
EXTENDS Integers, FiniteSets

CONSTANTS Login,       \* Login RPCs that can be in flight
          Changer,     \* UpdatePassword RPCs
          Uid, Email, Password,
          LoginEmail,  \* the emails logins are tried with
          MaxAttempts, \* SECURITY_MAX_LOGIN_ATTEMPTS
          CountMax,    \* the largest int8, 127 in the code
          Window,      \* SECURITY_LOGIN_ATTEMPTS_WINDOW in ticks
          MaxChanges,  \* bound: password changes of a user
          None

ASSUME LoginAssumption == IsFiniteSet(Login)
ASSUME LoginEmailAssumption == LoginEmail \subseteq Email
ASSUME AttemptsAssumption ==
  /\ MaxAttempts \in Nat /\ CountMax \in Nat /\ Window \in Nat
  /\ 0 < MaxAttempts /\ MaxAttempts <= CountMax
  /\ 0 < Window
ASSUME NoneAssumption == None \notin Uid \cup Email \cup Password

VARIABLES
  email, password,   \* users: the row of a user (None: no row)
  born,              \* users: the ids given out
  logs,              \* users: rows of password_change_logs
  tx, txUid, txPw,   \* users: the transaction of an UpdatePassword
  count, left,       \* Redis: attempts of an email, ticks to the expiry of
                     \* the key (0: it has none)
  pc, le, lp, lu,    \* login: where it is, email, password, user id
  token,             \* tokens clients hold: <<kind, uid, email>>
  changed,           \* history: committed password changes of a user
  lost               \* history: emails whose EXPIRE was not carried out

users   == <<email, password, born, logs>>
txs     == <<tx, txUid, txPw>>
redis   == <<count, left, lost>>
login   == <<pc, le, lp, lu>>
vars    == <<users, txs, redis, login, token, changed>>

Live(u) == email[u] # None
Locked(u) == \E x \in Changer : tx[x] # "idle" /\ txUid[x] = u

Init ==
  /\ email = [u \in Uid |-> None]
  /\ password = [u \in Uid |-> None]
  /\ born = {}
  /\ logs = [u \in Uid |-> 0]
  /\ tx = [x \in Changer |-> "idle"]
  /\ txUid = [x \in Changer |-> None]
  /\ txPw = [x \in Changer |-> None]
  /\ count = [e \in Email |-> 0]
  /\ left = [e \in Email |-> 0]
  /\ pc = [l \in Login |-> "idle"]
  /\ le = [l \in Login |-> None]
  /\ lp = [l \in Login |-> None]
  /\ lu = [l \in Login |-> None]
  /\ token = {}
  /\ changed = [u \in Uid |-> 0]
  /\ lost = {}

-----------------------------------------------------------------------------
(* Users *)

(* unique_email: the insert or update fails with 23505. *)
Taken(e, u) == \E v \in Uid \ {u} : email[v] = e

(* A valid request; what validation refuses changes nothing. *)
Create ==
  /\ \E u \in Uid \ born, e \in Email, p \in Password :
       /\ ~Taken(e, u)
       /\ email' = [email EXCEPT ![u] = e]
       /\ password' = [password EXCEPT ![u] = p]
       /\ born' = born \cup {u}
  /\ UNCHANGED <<logs, txs, redis, login, token, changed>>

(* One statement: it waits for the row lock of a transaction. *)
Update ==
  /\ \E u \in Uid, e \in Email :
       /\ Live(u) /\ ~Locked(u) /\ ~Taken(e, u)
       /\ email' = [email EXCEPT ![u] = e]
  /\ UNCHANGED <<password, born, logs, txs, redis, login, token, changed>>

(* The log rows go with the user (ON DELETE CASCADE). *)
Delete ==
  /\ \E u \in Uid :
       /\ Live(u) /\ ~Locked(u)
       /\ email' = [email EXCEPT ![u] = None]
       /\ password' = [password EXCEPT ![u] = None]
       /\ logs' = [logs EXCEPT ![u] = 0]
       /\ changed' = [changed EXCEPT ![u] = 0]
  /\ UNCHANGED <<born, txs, redis, login, token>>

(* Mutant of UpdatePassword: the update is not part of the transaction. *)
UpdatePasswordOutsideTx(x) ==
  /\ tx[x] = "idle"
  /\ \E u \in Uid, p \in Password :
       /\ Live(u) /\ ~Locked(u) /\ changed[u] < MaxChanges
       /\ password' = [password EXCEPT ![u] = p]
       /\ changed' = [changed EXCEPT ![u] = @ + 1]
       /\ txUid' = [txUid EXCEPT ![x] = u]
       /\ txPw' = [txPw EXCEPT ![x] = p]
  /\ tx' = [tx EXCEPT ![x] = "updated"]
  /\ UNCHANGED <<email, born, logs, redis, login, token>>

(* BEGIN and UPDATE; no row affected ends it with ErrUserNotFound. *)
UpdatePassword(x) ==
  /\ tx[x] = "idle"
  /\ \E u \in Uid, p \in Password :
       /\ Live(u) /\ ~Locked(u) /\ changed[u] < MaxChanges
       /\ txUid' = [txUid EXCEPT ![x] = u]
       /\ txPw' = [txPw EXCEPT ![x] = p]
  /\ tx' = [tx EXCEPT ![x] = "updated"]
  /\ UNCHANGED <<users, redis, login, token, changed>>

LogPassword(x) ==
  /\ tx[x] = "updated"
  /\ tx' = [tx EXCEPT ![x] = "logged"]
  /\ UNCHANGED <<users, txUid, txPw, redis, login, token, changed>>

EndTx(x) ==
  /\ tx' = [tx EXCEPT ![x] = "idle"]
  /\ txUid' = [txUid EXCEPT ![x] = None]
  /\ txPw' = [txPw EXCEPT ![x] = None]

Commit(x) ==
  LET u == txUid[x] IN
  /\ tx[x] = "logged"
  /\ password' = [password EXCEPT ![u] = txPw[x]]
  /\ logs' = [logs EXCEPT ![u] = @ + 1]
  /\ changed' = [changed EXCEPT ![u] = @ + 1]
  /\ EndTx(x)
  /\ UNCHANGED <<email, born, redis, login, token>>

(* A statement fails, the caller goes away or the service dies. *)
Rollback(x) ==
  /\ tx[x] # "idle"
  /\ EndTx(x)
  /\ UNCHANGED <<users, redis, login, token, changed>>

-----------------------------------------------------------------------------
(* Login *)

Goto(l, label) == pc' = [pc EXCEPT ![l] = label]
Return(l) ==
  /\ Goto(l, "idle")
  /\ le' = [le EXCEPT ![l] = None]
  /\ lp' = [lp EXCEPT ![l] = None]
  /\ lu' = [lu EXCEPT ![l] = None]

(* The commands of the Redis client; a key that is not there counts 0, and *)
(* EXPIRE does nothing to it.                                              *)
Get(e)       == count[e]
Incr(e)      == count' = [count EXCEPT ![e] = @ + 1]
ExpireKey(e) == left' = [left EXCEPT ![e] = IF count[e] > 0 THEN Window ELSE 0]
Del(e)       == count' = [count EXCEPT ![e] = 0] /\ left' = [left EXCEPT ![e] = 0]

LoginStart(l) ==
  /\ pc[l] = "idle"
  /\ \E e \in LoginEmail, p \in Password :
       /\ le' = [le EXCEPT ![l] = e]
       /\ lp' = [lp EXCEPT ![l] = p]
  /\ Goto(l, "get")
  /\ UNCHANGED <<users, txs, redis, lu, token, changed>>

(* Mutant of ReplyToInt8: the conversion without the cap wraps. *)
ReplyToInt8Wraps(n) == IF n > CountMax THEN n - 2 * (CountMax + 1) ELSE n

ReplyToInt8(n) == IF n > CountMax THEN CountMax ELSE n

(* Mutant of GetLoginAttempts: a refused login starts the window again. *)
GetLoginAttemptsExtends(l) ==
  /\ pc[l] = "get"
  /\ IF ReplyToInt8(Get(le[l])) >= MaxAttempts
       THEN /\ left' = [left EXCEPT ![le[l]] = IF @ > 0 THEN Window ELSE 0]
            /\ Return(l)
       ELSE Goto(l, "validate") /\ UNCHANGED <<left, le, lp, lu>>
  /\ UNCHANGED <<users, txs, count, lost, token, changed>>

(* GET, and the comparison with the limit. *)
GetLoginAttempts(l) ==
  /\ pc[l] = "get"
  /\ IF ReplyToInt8(Get(le[l])) >= MaxAttempts
       THEN Return(l)
       ELSE Goto(l, "validate") /\ UNCHANGED <<le, lp, lu>>
  /\ UNCHANGED <<users, txs, redis, token, changed>>

(* The committed row of an email: at most one, the email is unique. *)
GetUserCredentials(e) == {u \in Uid : email[u] = e}

ValidateCredentials(l) ==
  LET valid == {u \in GetUserCredentials(le[l]) : password[u] = lp[l]} IN
  /\ pc[l] = "validate"
  /\ \/ \E u \in valid : lu' = [lu EXCEPT ![l] = u] /\ Goto(l, "reset")
     \/ valid = {} /\ Goto(l, "incr") /\ UNCHANGED lu
  /\ UNCHANGED <<users, txs, redis, le, lp, token, changed>>

(* The RPC fails, or the users service cannot read the row and answers     *)
(* that the credentials are not valid: both count as an attempt.           *)
ValidateFail(l) ==
  /\ pc[l] = "validate"
  /\ Goto(l, "incr")
  /\ UNCHANGED <<users, txs, redis, le, lp, lu, token, changed>>

(* Mutant of IncrementLoginAttempts: the first count is taken to be 0. *)
IncrementNoExpire(l) ==
  LET e == le[l] IN
  /\ pc[l] = "incr"
  /\ Incr(e)
  /\ IF ReplyToInt8(count[e] + 1) = 0
       THEN Goto(l, "expire") /\ UNCHANGED <<le, lp, lu>>
       ELSE Return(l)
  /\ UNCHANGED <<users, txs, left, lost, token, changed>>

IncrementLoginAttempts(l) ==
  LET e == le[l] IN
  /\ pc[l] = "incr"
  /\ Incr(e)
  /\ IF ReplyToInt8(count[e] + 1) = 1
       THEN Goto(l, "expire") /\ UNCHANGED <<le, lp, lu>>
       ELSE Return(l)
  /\ UNCHANGED <<users, txs, left, lost, token, changed>>

(* The window begins with the first failed attempt. *)
Expire(l) ==
  LET e == le[l] IN
  /\ pc[l] = "expire"
  /\ ExpireKey(e)
  /\ lost' = lost \ {e}
  /\ Return(l)
  /\ UNCHANGED <<users, txs, count, token, changed>>

ResetLoginAttempts(l) ==
  LET e == le[l] IN
  /\ pc[l] = "reset"
  /\ Del(e)
  /\ lost' = lost \ {e}
  /\ Goto(l, "token")
  /\ UNCHANGED <<users, txs, le, lp, lu, token, changed>>

(* DEL fails; the login goes on. *)
ResetFail(l) ==
  /\ pc[l] = "reset"
  /\ Goto(l, "token")
  /\ UNCHANGED <<users, txs, redis, le, lp, lu, token, changed>>

GenerateToken(kind, u, e) == token' = token \cup {<<kind, u, e>>}

GenerateRefreshToken(l) ==
  /\ pc[l] = "token"
  /\ GenerateToken("refresh", lu[l], le[l])
  /\ Return(l)
  /\ UNCHANGED <<users, txs, redis, changed>>

(* A step of Login fails, or the auth service dies during it. *)
LoginFail(l) ==
  /\ pc[l] # "idle"
  /\ lost' = IF pc[l] = "expire" THEN lost \cup {le[l]} ELSE lost
  /\ Return(l)
  /\ UNCHANGED <<users, txs, count, left, token, changed>>

(* Redis: the clock of the keys. *)
Tick ==
  LET over == {e \in Email : left[e] = 1} IN
  /\ \E e \in Email : left[e] > 0
  /\ left' = [e \in Email |-> IF left[e] > 0 THEN left[e] - 1 ELSE 0]
  /\ count' = [e \in Email |-> IF e \in over THEN 0 ELSE count[e]]
  /\ lost' = lost \ over
  /\ UNCHANGED <<users, txs, login, token, changed>>

-----------------------------------------------------------------------------
(* Tokens *)

(* The tokens that verify as tokens of a kind: signed, unexpired, and of   *)
(* that type.                                                              *)
VerifyToken(kind) == {t \in token : t[1] = kind}

GetAccessToken ==
  /\ \E t \in VerifyToken("refresh") : GenerateToken("access", t[2], t[3])
  /\ UNCHANGED <<users, txs, redis, login, changed>>

(* The old refresh token stays as it is: there is no rotation. *)
GetRefreshToken ==
  /\ \E t \in VerifyToken("refresh") : GenerateToken("refresh", t[2], t[3])
  /\ UNCHANGED <<users, txs, redis, login, changed>>

(* exp passes. *)
TokenExpires ==
  /\ \E t \in token : token' = token \ {t}
  /\ UNCHANGED <<users, txs, redis, login, changed>>

LoginNext(l) ==
  \/ LoginStart(l) \/ GetLoginAttempts(l)
  \/ ValidateCredentials(l) \/ ValidateFail(l)
  \/ IncrementLoginAttempts(l) \/ Expire(l)
  \/ ResetLoginAttempts(l) \/ ResetFail(l)
  \/ GenerateRefreshToken(l) \/ LoginFail(l)

UsersNext ==
  \/ Create \/ Update \/ Delete
  \/ \E x \in Changer : UpdatePassword(x) \/ LogPassword(x) \/ Commit(x) \/ Rollback(x)

TokenNext == GetAccessToken \/ GetRefreshToken \/ TokenExpires

Next == UsersNext \/ (\E l \in Login : LoginNext(l)) \/ Tick \/ TokenNext

Spec == Init /\ [][Next]_vars

(* Redis expires keys, and an RPC that is about to send EXPIRE sends it or *)
(* fails.                                                                  *)
FairSpec == /\ Spec
            /\ WF_vars(Tick)
            /\ \A l \in Login : WF_vars(Expire(l) \/ (pc[l] = "expire" /\ LoginFail(l)))

-----------------------------------------------------------------------------
(* Properties *)

(* Logins of an email that have passed the throttle and are not counted yet. *)
Passed(e) == {l \in Login : pc[l] \in {"validate", "incr"} /\ le[l] = e}

(* Logins read the counter before any of them has raised it, so the limit  *)
(* can be passed, but only by the logins in flight: with n of them the     *)
(* attempts counted in a window, and those let through and not counted yet, *)
(* are never more than MaxAttempts - 1 + n, whatever is reset, expires or  *)
(* fails meanwhile.                                                        *)
AttemptsBounded ==
  \A e \in Email : count[e] + Cardinality(Passed(e)) <= MaxAttempts - 1 + Cardinality(Login)

(* A counter without an expiry is about to get one, or the EXPIRE that the *)
(* code does not check has failed; only then can an email stay locked out. *)
CounterExpires ==
  \A e \in Email : count[e] > 0 /\ left[e] = 0 =>
    e \in lost \/ \E l \in Login : pc[l] = "expire" /\ le[l] = e

(* Every password a user has had since it exists is in the change log: the *)
(* update and its log row are one transaction.                             *)
PasswordChangesLogged == \A u \in Uid : logs[u] = changed[u]

(* An email that is locked out is let in again, unless its EXPIRE was lost. *)
LockoutEnds ==
  \A e \in Email : (count[e] >= MaxAttempts /\ e \notin lost)
                     ~> (count[e] < MaxAttempts \/ e \in lost)
=============================================================================
