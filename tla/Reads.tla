------------------------------- MODULE Reads -------------------------------
(***************************************************************************)
(* The reading RPCs that take several steps: ListObjects of the metadata   *)
(* service, page by page through the rate limiter of its interceptors,     *)
(* while keys come and go; and RetrieveObject of the storage service, a    *)
(* stream of chunks of a byte range.                                       *)
(*                                                                         *)
(*   services/metadata/internal/.../list*.go        ListObjects            *)
(*   services/storage/internal/.../retrieve_*.go    RetrieveObject         *)
(*   shared/pkg/go-kit/ratelimiter, middleware      TokenBucketLimiter     *)
(*                                                                         *)
(* Keys are numbers in their order.  A page is one statement and sees one  *)
(* snapshot.  The bytes of a blob are their positions.                     *)
(***************************************************************************)
EXTENDS Integers, Sequences, FiniteSets

CONSTANTS Client,
          Key,            \* keys, numbers from 1
          Like,           \* the keys that the LIKE pattern of a prefix matches
          MaxKeysArg,     \* the max_keys clients ask for
          DefaultMaxKeys, \* 1000 in the code
          Limit, Period,  \* of the rate limiter
          Size,           \* bytes of the blob
          MaxInt,         \* the largest int64
          RangeArg,       \* offsets and lengths clients ask for
          ChunkSize

ASSUME KeyAssumption == Key \subseteq Nat \ {0} /\ IsFiniteSet(Key) /\ Like \subseteq Key
ASSUME MaxKeysAssumption == MaxKeysArg \subseteq Int /\ DefaultMaxKeys \in Nat \ {0}
ASSUME RangeAssumption ==
  /\ Size \in Nat /\ MaxInt \in Nat /\ Size <= MaxInt /\ ChunkSize \in Nat \ {0}
  /\ RangeArg \subseteq -MaxInt..MaxInt
(* Below, NewTokenBucketLimiter returns nil and the first RPC panics. *)
ASSUME LimiterAssumption == Limit \in Nat \ {0} /\ Period \in Nat /\ Limit <= Period

VARIABLES
  keys,    \* metadata: the keys with a committed current version
  tokens,  \* limiter: what the channel holds
  recent,  \* history: RPCs admitted in the last intervals of the ticker
  pc,      \* client: where its RPC is
  req,     \* client: its request, and what it has been sent
  seen,    \* history: keys that were there since the listing began
  ever     \* history: keys that were there at some time since

vars == <<keys, tokens, recent, pc, req, seen, ever>>

(* Nanoseconds between two tokens, and the ticks in a period. *)
Interval == Period \div Limit
Window   == Period \div Interval

Idle == [op |-> "none"]

Init ==
  /\ keys \in SUBSET Key
  /\ tokens = Limit
  /\ recent = [i \in 0..Window |-> 0]
  /\ pc = [c \in Client |-> "idle"]
  /\ req = [c \in Client |-> Idle]
  /\ seen = [c \in Client |-> {}]
  /\ ever = [c \in Client |-> {}]

Goto(c, label) == pc' = [pc EXCEPT ![c] = label]

-----------------------------------------------------------------------------
(* The rate limiter *)

(* Mutant of Allow: the token is looked at and not taken. *)
AllowPeeks(c) ==
  /\ pc[c] = "send" /\ tokens > 0
  /\ recent' = [recent EXCEPT ![0] = @ + 1]
  /\ Goto(c, "handler")
  /\ UNCHANGED <<keys, tokens, req, seen, ever>>

Allow(c) ==
  /\ pc[c] = "send" /\ tokens > 0
  /\ tokens' = tokens - 1
  /\ recent' = [recent EXCEPT ![0] = @ + 1]
  /\ Goto(c, "handler")
  /\ UNCHANGED <<keys, req, seen, ever>>

(* RESOURCE_EXHAUSTED: the client tries again, or gives up. *)
Refuse(c) ==
  /\ pc[c] = "send" /\ tokens = 0
  /\ Goto(c, "idle")
  /\ req' = [req EXCEPT ![c] = Idle]
  /\ UNCHANGED <<keys, tokens, recent, seen, ever>>

(* The ticker; a full bucket is left as it is. *)
Tick ==
  /\ tokens' = IF tokens < Limit THEN tokens + 1 ELSE tokens
  /\ recent' = [i \in 0..Window |-> IF i = 0 THEN 0 ELSE recent[i - 1]]
  /\ UNCHANGED <<keys, pc, req, seen, ever>>

-----------------------------------------------------------------------------
(* ListObjects *)

MaxKeys(n) == IF n <= 0 \/ n > DefaultMaxKeys THEN DefaultMaxKeys ELSE n

Matching(q) == IF q.prefix = "none" THEN Key ELSE Like

(* Mutant of Rows: a page begins with the key of its token. *)
RowsFromToken(q) ==
  LET found == {k \in keys \cap Matching(q) : k >= q.token}
  IN  {k \in found : Cardinality({j \in found : j < k}) < q.max}

(* WHERE key > token ORDER BY key LIMIT max. *)
Rows(q) ==
  LET found == {k \in keys \cap Matching(q) : k > q.token}
  IN  {k \in found : Cardinality({j \in found : j < k}) < q.max}

(* ORDER BY key: the one sequence of the rows in which the keys grow. *)
InOrder(rows) ==
  CHOOSE s \in [1..Cardinality(rows) -> rows] :
    \A i, j \in 1..Cardinality(rows) : i < j => s[i] < s[j]

ListStart(c) ==
  /\ pc[c] = "idle"
  /\ \E n \in MaxKeysArg, p \in {"none", "like"} :
       req' = [req EXCEPT ![c] = [op |-> "list", prefix |-> p, max |-> MaxKeys(n),
                                  token |-> 0, got |-> <<>>]]
  /\ seen' = [seen EXCEPT ![c] = keys]
  /\ ever' = [ever EXCEPT ![c] = keys]
  /\ Goto(c, "send")
  /\ UNCHANGED <<keys, tokens, recent>>

(* A page that is full carries a token, also when nothing comes after it. *)
List(c) ==
  LET rows == InOrder(Rows(req[c])) IN
  /\ pc[c] = "handler"
  /\ IF Len(rows) = req[c].max
       THEN /\ req' = [req EXCEPT ![c].got = @ \o rows, ![c].token = rows[Len(rows)]]
            /\ Goto(c, "send")
       ELSE /\ req' = [req EXCEPT ![c].got = @ \o rows]
            /\ Goto(c, "listed")
  /\ UNCHANGED <<keys, tokens, recent, seen, ever>>

(* The statement fails; the client asks for the page again. *)
ListFail(c) ==
  /\ pc[c] = "handler"
  /\ Goto(c, "send")
  /\ UNCHANGED <<keys, tokens, recent, req, seen, ever>>

(* Registrations and deletions meanwhile. *)
Change(k) ==
  LET next == IF k \in keys THEN keys \ {k} ELSE keys \cup {k}
      listing == {c \in Client : req[c].op = "list"}
  IN /\ keys' = next
     /\ seen' = [c \in Client |-> IF c \in listing THEN seen[c] \cap next ELSE seen[c]]
     /\ ever' = [c \in Client |-> IF c \in listing THEN ever[c] \cup next ELSE ever[c]]
     /\ UNCHANGED <<tokens, recent, pc, req>>

-----------------------------------------------------------------------------
(* RetrieveObject: a stream, which the rate limiter does not see *)

(* Mutant of NormalizeRange: length 0 means the whole blob. *)
NormalizeRangeFull(offset, length) ==
  IF length = 0 THEN [offset |-> 0, length |-> MaxInt]
  ELSE [offset |-> IF offset < 0 THEN 0 ELSE offset,
        length |-> IF length <= 0 THEN MaxInt ELSE length]

NormalizeRange(offset, length) ==
  [offset |-> IF offset < 0 THEN 0 ELSE offset,
   length |-> IF length <= 0 THEN MaxInt ELSE length]

(* Where the file is positioned, and how much the reader is limited to. *)
RetrieveBlobRange(r) ==
  LET start == IF r.offset > Size THEN Size ELSE r.offset
      rest  == Size - start
  IN  [pos |-> start, left |-> IF r.length > rest THEN rest ELSE r.length]

RetrieveStart(c) ==
  /\ pc[c] = "idle"
  /\ \E o, l \in RangeArg :
       LET r == RetrieveBlobRange(NormalizeRange(o, l)) IN
       req' = [req EXCEPT ![c] = [op |-> "range", offset |-> o, length |-> l,
                                  pos |-> r.pos, left |-> r.left, got |-> <<>>]]
  /\ Goto(c, "read")
  /\ UNCHANGED <<keys, tokens, recent, seen, ever>>

(* Read and Send: some bytes, at most a chunk. *)
SendChunk(c) ==
  /\ pc[c] = "read" /\ req[c].left > 0
  /\ \E n \in 1..ChunkSize :
       /\ n <= req[c].left
       /\ req' = [req EXCEPT ![c].got = @ \o [i \in 1..n |-> req[c].pos + i - 1],
                             ![c].pos = @ + n, ![c].left = @ - n]
  /\ UNCHANGED <<keys, tokens, recent, pc, seen, ever>>

(* EOF ends the stream without an error. *)
RetrieveEnd(c) ==
  /\ pc[c] = "read" /\ req[c].left = 0
  /\ Goto(c, "retrieved")
  /\ UNCHANGED <<keys, tokens, recent, req, seen, ever>>

(* The client has its answer, or the stream broke. *)
Done(c) ==
  /\ pc[c] \in {"listed", "retrieved", "read"}
  /\ Goto(c, "idle")
  /\ req' = [req EXCEPT ![c] = Idle]
  /\ seen' = [seen EXCEPT ![c] = {}]
  /\ ever' = [ever EXCEPT ![c] = {}]
  /\ UNCHANGED <<keys, tokens, recent>>

ClientNext(c) ==
  \/ Allow(c) \/ Refuse(c)
  \/ ListStart(c) \/ List(c) \/ ListFail(c)
  \/ RetrieveStart(c) \/ SendChunk(c) \/ RetrieveEnd(c)
  \/ Done(c)

Next == (\E c \in Client : ClientNext(c)) \/ (\E k \in Key : Change(k)) \/ Tick

Spec == Init /\ [][Next]_vars

-----------------------------------------------------------------------------
(* Properties *)

(* What a client has been sent, and that it came in growing order. *)
Sent(q) == {q.got[i] : i \in DOMAIN q.got}
Grows(q) == \A i, j \in DOMAIN q.got : i < j => q.got[i] < q.got[j]

(* A listing returns keys in order and none twice, only keys that were     *)
(* there meanwhile and match, and up to its token, at its end altogether,  *)
(* every matching key that was there all the time: whatever is registered, *)
(* deleted or refused between two pages.                                   *)
ListingExact ==
  \A c \in Client : req[c].op = "list" =>
    LET q == req[c]
        upTo == IF pc[c] = "listed" THEN Key ELSE {k \in Key : k <= q.token}
    IN /\ Grows(q)
       /\ Sent(q) \subseteq ever[c] \cap Matching(q)
       /\ seen[c] \cap Matching(q) \cap upTo \subseteq Sent(q)

(* The bytes of a range: from the offset (from the beginning when it is    *)
(* negative), length of them when length is positive.                      *)
Wanted(q) ==
  LET start == IF q.offset > 0 THEN q.offset ELSE 0
  IN  {i \in 0..(Size - 1) : i >= start /\ (q.length > 0 => i - start < q.length)}

(* The chunks of a range are its bytes in their order, none left out up to *)
(* the last one that was sent, and all of them when the stream ends: also  *)
(* at the end of the blob and past it.                                     *)
RangeExact ==
  \A c \in Client : req[c].op = "range" =>
    LET q == req[c]
        upTo == IF pc[c] = "retrieved" THEN Wanted(q)
                ELSE {b \in Wanted(q) : \E a \in Sent(q) : b <= a}
    IN /\ Grows(q)
       /\ Sent(q) \subseteq Wanted(q)
       /\ upTo \subseteq Sent(q)

(* RPCs admitted since the k-th last interval began, each counted once.    *)
Admitted(k) == Cardinality(UNION {{i} \X (1..recent[i]) : i \in 0..k})

(* However the calls are spread, no more are admitted during a period than *)
(* a full bucket and the tokens of the period.                             *)
AdmissionsBounded == Admitted(Window) <= Limit + Window
=============================================================================
