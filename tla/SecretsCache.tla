----------------------------- MODULE SecretsCache -----------------------------
(***************************************************************************)
(* OpenBaoProvider (internal/flagcommons/secrets/openbao.go): reading one  *)
(* secret through a cache with a time to live, by concurrent callers,      *)
(* while an administrator rotates the secret.                              *)
(*                                                                         *)
(* Several keys may name the secret ("db" is "db#value"): each has a cache *)
(* entry of its own.  A value is its version.  Time is discrete; it does   *)
(* not pass the HTTP client's timeout of a request that is under way.  The *)
(* mutex makes the provider safe for concurrent callers, and this is what  *)
(* it promises them; the daemon itself calls it from config.Load only, on  *)
(* one goroutine and once for each key (main.go:45).                       *)
(***************************************************************************)
EXTENDS Naturals

CONSTANTS
  Callers,      \* goroutines that call Get or GetOrDefault
  Keys,         \* keys that name the secret
  BadKey,       \* a key parseKey refuses
  TTL,          \* cacheTTL; 0 switches the cache off
  Timeout,      \* defaultHTTPTimeout
  MaxTime,      \* bound: the last point in time
  MaxVersion    \* bound: rotations of the secret

ASSUME SecretsAssumption ==
  /\ TTL \in Nat /\ Timeout \in Nat /\ MaxTime \in Nat /\ MaxVersion \in Nat
  /\ BadKey \notin Keys

VARIABLES
  now,          \* the clock
  version,      \* the secret as OpenBao has it, 0 before it is written
  replaced,     \* when each earlier version was replaced
  cache,        \* p.cache: for each key a value and its expiry, or Empty
  call,         \* each caller: its position, its key, when its request began, the answer
  result        \* what its last call returned: a value and the time, or an error

sVars == <<now, version, replaced, cache, call, result>>

Time    == 0 .. MaxTime
Version == 0 .. MaxVersion
Empty   == [value |-> 0, expires |-> 0, full |-> FALSE]
Error   == [value |-> 0, at |-> 0, ok |-> FALSE]
Idle    == [pc |-> "idle", key |-> BadKey, asked |-> 0, val |-> 0]
-----------------------------------------------------------------------------
Init ==
  /\ now = 0 /\ version \in {0, 1} \cap Version
  /\ replaced = [v \in Version |-> 0]
  /\ cache = [k \in Keys |-> Empty]
  /\ call = [c \in Callers |-> Idle] /\ result = [c \in Callers |-> Error]

Return(c, r) == call' = [call EXCEPT ![c] = Idle] /\ result' = [result EXCEPT ![c] = r]
Value(v) == [value |-> v, at |-> now, ok |-> TRUE]

(* parseKey: neither path nor field may be empty. *)
Parses(k) == k # BadKey

(* Get: the key is parsed before the cache is looked at. *)
Get(c, k) ==
  /\ call[c].pc = "idle"
  /\ \/ ~Parses(k) /\ Return(c, Error)
     \/ Parses(k) /\ call' = [call EXCEPT ![c].pc = "lookup", ![c].key = k] /\ UNCHANGED result
  /\ UNCHANGED <<now, version, replaced, cache>>

(* fromCache, under the mutex: an expired entry is deleted. *)
NoExpiry(e) == FALSE                            \* mutated: entries are kept for ever
Expired(e) == now > e.expires

Lookup(c) ==
  LET k == call[c].key  e == cache[k] IN
  /\ call[c].pc = "lookup"
  /\ \/ e.full /\ ~Expired(e) /\ Return(c, Value(e.value)) /\ UNCHANGED cache
     \/ /\ ~e.full \/ Expired(e)
        /\ cache' = [cache EXCEPT ![k] = Empty]
        /\ call' = [call EXCEPT ![c].pc = "ask", ![c].asked = now]
        /\ UNCHANGED result
  /\ UNCHANGED <<now, version, replaced>>

(* fetchSecret, without the mutex: OpenBao answers with the secret of that moment ... *)
Answer(c) ==
  /\ call[c].pc = "ask" /\ version > 0
  /\ call' = [call EXCEPT ![c].pc = "answered", ![c].val = version]
  /\ UNCHANGED <<now, version, replaced, cache, result>>

(* ... or with an error, among them a secret or field that is missing, and the timeout,
   which may also strike after the answer was sent.  An error is not cached, and
   GetOrDefault turns it into the default. *)
Fail(c) ==
  /\ call[c].pc \in {"ask", "answered"} /\ Return(c, Error)
  /\ UNCHANGED <<now, version, replaced, cache>>

(* toCache, under the mutex: the entry that another caller stored meanwhile, perhaps of
   a later answer, is overwritten. *)
LateExpiry == now + TTL + Timeout               \* mutated: a wider validity
Expiry == now + TTL

Store(c) ==
  LET entry == [value |-> call[c].val, expires |-> Expiry, full |-> TRUE] IN
  /\ call[c].pc = "answered" /\ Return(c, Value(call[c].val))
  /\ cache' = IF TTL > 0 THEN [cache EXCEPT ![call[c].key] = entry] ELSE cache
  /\ UNCHANGED <<now, version, replaced>>

(* An administrator writes a new version of the secret (external). *)
Rotate ==
  /\ version < MaxVersion /\ version' = version + 1
  /\ replaced' = [replaced EXCEPT ![version] = now]
  /\ UNCHANGED <<now, cache, call, result>>

(* Time passes (external); a request does not outlive the client's timeout.  What is
   left to do once the body is read, decoding it and storing the value, is waited for
   by nothing but a short mutex and is counted to the request. *)
InRequest(c) == call[c].pc \in {"ask", "answered"}
Pass ==
  /\ now < MaxTime /\ now' = now + 1
  /\ \A c \in Callers : InRequest(c) => now < call[c].asked + Timeout
  /\ UNCHANGED <<version, replaced, cache, call, result>>

Call(c) == Lookup(c) \/ Answer(c) \/ Fail(c) \/ Store(c)

Next ==
  \/ \E c \in Callers : Call(c) \/ \E k \in Keys \cup {BadKey} : Get(c, k)
  \/ Rotate \/ Pass

Spec == Init /\ [][Next]_sVars
-----------------------------------------------------------------------------
(* Properties *)

(* Every variable has its type. *)
TypeOK ==
  /\ now \in Time /\ version \in Version /\ replaced \in [Version -> Time]
  /\ cache \in [Keys -> [value : Version, expires : Nat, full : BOOLEAN]]
  /\ call \in [Callers -> [pc : {"idle", "lookup", "ask", "answered"},
                           key : Keys \cup {BadKey}, asked : Time, val : Version]]
  /\ result \in [Callers -> [value : Version, at : Time, ok : BOOLEAN]]

(* v was the secret at some time not before t. *)
CurrentAfter(v, t) == v = version \/ (v < version /\ replaced[v] >= t)

(* The value a call returned was the secret not longer than TTL plus the timeout of one
   request before it returned, however the calls overlap and whichever answer was
   stored last ("cache time-to-live for secrets", openbao.go:65). *)
BoundedStaleness ==
  \A c \in Callers :
    result[c].ok =>
      \A t \in Time : t + TTL + Timeout = result[c].at => CurrentAfter(result[c].value, t)

(* Why: an entry is as fresh as its expiry says, an answer as its request. *)
EntriesFresh ==
  \A k \in Keys :
    cache[k].full =>
      /\ cache[k].expires <= now + TTL
      /\ \A t \in Time : t + TTL + Timeout = cache[k].expires => CurrentAfter(cache[k].value, t)
AnswersFresh ==
  \A c \in Callers :
    /\ call[c].pc # "idle" => call[c].key \in Keys
    /\ InRequest(c) => call[c].asked <= now /\ now <= call[c].asked + Timeout
    /\ call[c].pc = "answered" => CurrentAfter(call[c].val, call[c].asked)
ResultsPast == \A c \in Callers : result[c].at <= now

(* What every step preserves. *)
SecretsInv == TypeOK /\ EntriesFresh /\ AnswersFresh /\ ResultsPast /\ BoundedStaleness
=============================================================================
