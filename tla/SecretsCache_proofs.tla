-------------------------- MODULE SecretsCache_proofs --------------------------
(***************************************************************************)
(* No call returns a secret older than the cache's time to live plus one   *)
(* request, for any number of callers and keys and any TTL and timeout.    *)
(***************************************************************************)
EXTENDS SecretsCache, TLAPS

(* A value that was current after some time was so after any earlier time. *)
LEMMA Older ==
  ASSUME SecretsAssumption, TypeOK, NEW v \in Version, NEW t \in Nat, NEW u \in Nat, u <= t,
         CurrentAfter(v, t)
  PROVE  CurrentAfter(v, u)
<1>1. replaced[v] \in Nat
  BY SMT DEF TypeOK, Time, SecretsAssumption
<1>2. replaced[v] >= t => replaced[v] >= u
  BY <1>1, SMT
<1> QED
  BY <1>2 DEF CurrentAfter

(* A rotation replaces a version now, so that it was current after any time past. *)
LEMMA RotateKeeps ==
  ASSUME SecretsAssumption, TypeOK, Rotate, NEW v \in Version, NEW t \in Nat, t <= now,
         CurrentAfter(v, t)
  PROVE  CurrentAfter(v, t)'
<1>1. CASE v = version
  <2>1. replaced'[v] = now /\ version' = version + 1
    BY <1>1, SMT DEF Rotate, TypeOK
  <2>2. v < version'
    BY <1>1, <2>1, SMT DEF TypeOK, Version
  <2> QED
    BY <2>1, <2>2 DEF CurrentAfter
<1>2. CASE v # version
  <2>1. v < version /\ replaced[v] >= t
    BY <1>2 DEF CurrentAfter
  <2>2. replaced'[v] = replaced[v] /\ version' = version + 1
    BY <1>2, SMT DEF Rotate, TypeOK
  <2>3. v < version'
    BY <2>1, <2>2, SMT DEF TypeOK, Version
  <2> QED
    BY <2>1, <2>2, <2>3 DEF CurrentAfter
<1> QED
  BY <1>1, <1>2

LEMMA InitInv == SecretsAssumption /\ Init => SecretsInv
<1> SUFFICES ASSUME SecretsAssumption, Init PROVE SecretsInv
  OBVIOUS
<1>1. TypeOK
  BY SMT DEF Init, TypeOK, Time, Version, Empty, Error, Idle, SecretsAssumption
<1>2. EntriesFresh
  BY SMT DEF Init, EntriesFresh, Empty
<1>3. AnswersFresh
  <2>1. \A c \in Callers : call[c].pc = "idle"
    BY DEF Init, Idle
  <2> QED
    BY <2>1 DEF AnswersFresh, InRequest
<1>4. ResultsPast /\ BoundedStaleness
  BY SMT DEF Init, ResultsPast, BoundedStaleness, Error
<1> QED
  BY <1>1, <1>2, <1>3, <1>4 DEF SecretsInv

(* A call that ends: it returns an error, or a value as fresh as promised. *)
LEMMA ReturnFresh ==
  ASSUME SecretsAssumption, SecretsInv, NEW c \in Callers, NEW r, Return(c, r),
         UNCHANGED <<now, version, replaced>>,
         r \in [value : Version, at : Time, ok : BOOLEAN], r.at <= now,
         r.ok => \A t \in Time : t + TTL + Timeout = r.at => CurrentAfter(r.value, t)
  PROVE  ResultsPast' /\ BoundedStaleness' /\ AnswersFresh'
         /\ call' \in [Callers -> [pc : {"idle", "lookup", "ask", "answered"},
                           key : Keys \cup {BadKey}, asked : Time, val : Version]]
         /\ result' \in [Callers -> [value : Version, at : Time, ok : BOOLEAN]]
<1>0. TypeOK /\ ResultsPast /\ BoundedStaleness /\ AnswersFresh
  BY DEF SecretsInv
<1>1. /\ call' = [call EXCEPT ![c] = Idle]
      /\ result' = [result EXCEPT ![c] = r]
      /\ now' = now /\ version' = version /\ replaced' = replaced
  BY DEF Return
<1>2. Idle \in [pc : {"idle", "lookup", "ask", "answered"},
                key : Keys \cup {BadKey}, asked : Time, val : Version]
  BY SMT DEF Idle, Time, Version, SecretsAssumption
<1>3. call' \in [Callers -> [pc : {"idle", "lookup", "ask", "answered"},
                           key : Keys \cup {BadKey}, asked : Time, val : Version]]
  BY <1>0, <1>1, <1>2 DEF TypeOK
<1>4. result' \in [Callers -> [value : Version, at : Time, ok : BOOLEAN]]
  BY <1>0, <1>1 DEF TypeOK
<1>5. \A d \in Callers : result'[d] = IF d = c THEN r ELSE result[d]
  BY <1>0, <1>1 DEF TypeOK
<1>6. \A d \in Callers : call'[d] = IF d = c THEN Idle ELSE call[d]
  BY <1>0, <1>1 DEF TypeOK
<1>7. ResultsPast'
  BY <1>0, <1>1, <1>5 DEF ResultsPast
<1>8. BoundedStaleness'
  BY <1>0, <1>1, <1>5 DEF BoundedStaleness, CurrentAfter
<1>9. AnswersFresh'
  BY <1>0, <1>1, <1>6, SMT DEF AnswersFresh, InRequest, CurrentAfter, Idle
<1> QED
  BY <1>3, <1>4, <1>7, <1>8, <1>9

LEMMA NextInv == SecretsAssumption /\ SecretsInv /\ [Next]_sVars => SecretsInv'
<1> SUFFICES ASSUME SecretsAssumption, SecretsInv, [Next]_sVars PROVE SecretsInv'
  OBVIOUS
<1>0. TypeOK /\ EntriesFresh /\ AnswersFresh /\ ResultsPast /\ BoundedStaleness
  BY DEF SecretsInv
<1>e. Error \in [value : Version, at : Time, ok : BOOLEAN] /\ Error.at <= now /\ ~Error.ok
  BY <1>0, SMT DEF Error, Version, Time, SecretsAssumption, TypeOK
<1>1. ASSUME NEW c \in Callers, NEW k \in Keys \cup {BadKey}, Get(c, k) PROVE SecretsInv'
  <2>1. CASE k = BadKey
    <3>1. Return(c, Error) /\ UNCHANGED <<now, version, replaced, cache>>
      BY <1>1, <2>1 DEF Get, Parses
    <3>2. ResultsPast' /\ BoundedStaleness' /\ AnswersFresh' /\ TypeOK'
      BY <1>0, <1>e, <3>1, ReturnFresh DEF TypeOK
    <3>3. EntriesFresh'
      BY <1>0, <3>1 DEF EntriesFresh, CurrentAfter
    <3> QED
      BY <3>2, <3>3 DEF SecretsInv
  <2>2. CASE k # BadKey
    <3>1. /\ call' = [call EXCEPT ![c].pc = "lookup", ![c].key = k] /\ k \in Keys
          /\ UNCHANGED <<result, now, version, replaced, cache>> /\ call[c].pc = "idle"
      BY <1>1, <2>2 DEF Get, Parses
    <3>2. TypeOK'
      BY <1>0, <3>1 DEF TypeOK
    <3>3. EntriesFresh' /\ ResultsPast' /\ BoundedStaleness'
      BY <1>0, <3>1 DEF EntriesFresh, ResultsPast, BoundedStaleness, CurrentAfter
    <3>4. AnswersFresh'
      BY <1>0, <3>1 DEF AnswersFresh, InRequest, CurrentAfter, TypeOK
    <3> QED
      BY <3>2, <3>3, <3>4 DEF SecretsInv
  <2> QED
    BY <2>1, <2>2
<1>2. ASSUME NEW c \in Callers, Lookup(c) PROVE SecretsInv'
  <2> DEFINE k == call[c].key
             e == cache[k]
  <2>k. k \in Keys /\ call[c].pc = "lookup" /\ UNCHANGED <<now, version, replaced>>
    BY <1>0, <1>2 DEF Lookup, AnswersFresh
  <2>e. e \in [value : Version, expires : Nat, full : BOOLEAN]
    BY <1>0, <2>k DEF TypeOK
  <2>1. CASE e.full /\ ~Expired(e) /\ Return(c, Value(e.value)) /\ UNCHANGED cache
    <3>1. now <= e.expires /\ e.expires <= now + TTL
      BY <1>0, <2>1, <2>k, <2>e, SMT DEF EntriesFresh, Expired, TypeOK, Time, SecretsAssumption
    <3>2. \A t \in Time : t + TTL + Timeout = e.expires => CurrentAfter(e.value, t)
      BY <1>0, <2>1, <2>k DEF EntriesFresh
    <3>3. ASSUME NEW t \in Time, t + TTL + Timeout = now PROVE CurrentAfter(e.value, t)
      <4>0. PICK x \in Nat : x = e.expires
        BY <2>e
      <4>n. now \in Nat /\ now <= MaxTime /\ now <= x /\ x <= now + TTL
        BY <1>0, <3>1, <4>0, SMT DEF TypeOK, Time, SecretsAssumption
      <4> DEFINE u == t + (x - now)
      <4>1. u \in Time /\ u + TTL + Timeout = x /\ t <= u /\ u \in Nat /\ t \in Nat
        BY <3>3, <4>n, SMT DEF Time, SecretsAssumption
      <4>2. CurrentAfter(e.value, u)
        BY <3>2, <4>0, <4>1
      <4>3. e.value \in Version
        BY <2>e
      <4> HIDE DEF u, e
      <4> QED
        BY <1>0, <4>1, <4>2, <4>3, Older
    <3>4. /\ Value(e.value) \in [value : Version, at : Time, ok : BOOLEAN]
          /\ Value(e.value).at = now /\ Value(e.value).value = e.value /\ now <= now
      BY <1>0, <2>e, SMT DEF Value, TypeOK, Time, SecretsAssumption
    <3>5. ResultsPast' /\ BoundedStaleness' /\ AnswersFresh' /\ TypeOK'
      BY <1>0, <2>1, <2>k, <3>3, <3>4, ReturnFresh DEF TypeOK
    <3>6. EntriesFresh'
      BY <1>0, <2>1, <2>k DEF EntriesFresh, CurrentAfter
    <3> QED
      BY <3>5, <3>6 DEF SecretsInv
  <2>2. CASE /\ cache' = [cache EXCEPT ![k] = Empty]
             /\ call' = [call EXCEPT ![c].pc = "ask", ![c].asked = now]
             /\ UNCHANGED result
    <3>1. TypeOK'
      <4>1. Empty \in [value : Version, expires : Nat, full : BOOLEAN]
        BY SMT DEF Empty, Version, SecretsAssumption
      <4>2. cache' \in [Keys -> [value : Version, expires : Nat, full : BOOLEAN]]
        BY <1>0, <2>2, <4>1 DEF TypeOK
      <4>3. call' \in [Callers -> [pc : {"idle", "lookup", "ask", "answered"},
                           key : Keys \cup {BadKey}, asked : Time, val : Version]]
        BY <1>0, <2>2 DEF TypeOK
      <4> QED
        BY <1>0, <2>2, <2>k, <4>2, <4>3 DEF TypeOK
    <3>2. EntriesFresh'
      BY <1>0, <2>2, <2>k, SMT DEF EntriesFresh, CurrentAfter, Empty, TypeOK
    <3>3. AnswersFresh'
      BY <1>0, <2>2, <2>k, SMT DEF AnswersFresh, InRequest, CurrentAfter, TypeOK, Time, SecretsAssumption
    <3>4. ResultsPast' /\ BoundedStaleness'
      BY <1>0, <2>2, <2>k DEF ResultsPast, BoundedStaleness, CurrentAfter
    <3> QED
      BY <3>1, <3>2, <3>3, <3>4 DEF SecretsInv
  <2> QED
    BY <1>2, <2>1, <2>2 DEF Lookup
<1>3. ASSUME NEW c \in Callers, Answer(c) PROVE SecretsInv'
  <2>1. /\ call[c].pc = "ask" /\ UNCHANGED <<now, version, replaced, cache, result>>
        /\ call' = [call EXCEPT ![c].pc = "answered", ![c].val = version]
    BY <1>3 DEF Answer
  <2>2. TypeOK'
    BY <1>0, <2>1 DEF TypeOK
  <2>3. EntriesFresh' /\ ResultsPast' /\ BoundedStaleness'
    BY <1>0, <2>1 DEF EntriesFresh, ResultsPast, BoundedStaleness, CurrentAfter
  <2>4. AnswersFresh'
    BY <1>0, <2>1, SMT DEF AnswersFresh, InRequest, CurrentAfter, TypeOK
  <2> QED
    BY <2>2, <2>3, <2>4 DEF SecretsInv
<1>4. ASSUME NEW c \in Callers, Fail(c) PROVE SecretsInv'
  <2>1. Return(c, Error) /\ UNCHANGED <<now, version, replaced, cache>>
    BY <1>4 DEF Fail
  <2>2. ResultsPast' /\ BoundedStaleness' /\ AnswersFresh' /\ TypeOK'
    BY <1>0, <1>e, <2>1, ReturnFresh DEF TypeOK
  <2>3. EntriesFresh'
    BY <1>0, <2>1 DEF EntriesFresh, CurrentAfter
  <2> QED
    BY <2>2, <2>3 DEF SecretsInv
<1>5. ASSUME NEW c \in Callers, Store(c) PROVE SecretsInv'
  <2> DEFINE v == call[c].val
             a == call[c].asked
             k == call[c].key
             entry == [value |-> v, expires |-> now + TTL, full |-> TRUE]
  <2>1. /\ Return(c, Value(v)) /\ UNCHANGED <<now, version, replaced>>
        /\ call[c].pc = "answered"
        /\ cache' = IF TTL > 0 THEN [cache EXCEPT ![k] = entry] ELSE cache
    BY <1>5 DEF Store, Expiry
  <2>2. /\ v \in Version /\ a \in Nat /\ now \in Nat /\ a <= now /\ now <= a + Timeout
        /\ CurrentAfter(v, a) /\ k \in Keys
    BY <1>0, <2>1, SMT DEF AnswersFresh, InRequest, TypeOK, Time, SecretsAssumption
  <2>3. ASSUME NEW t \in Time, t <= a PROVE CurrentAfter(v, t)
    BY <1>0, <2>2, <2>3, Older DEF Time
  <2>4. \A t \in Time : t + TTL + Timeout = now => CurrentAfter(v, t)
    <3> SUFFICES ASSUME NEW t \in Time, t + TTL + Timeout = now PROVE t <= a
      BY <2>3
    <3> QED
      BY <2>2, SMT DEF Time, SecretsAssumption
  <2>5. \A t \in Time : t + TTL + Timeout = now + TTL => CurrentAfter(v, t)
    <3> SUFFICES ASSUME NEW t \in Time, t + TTL + Timeout = now + TTL PROVE t <= a
      BY <2>3
    <3> QED
      BY <2>2, SMT DEF Time, SecretsAssumption
  <2>6. /\ Value(v) \in [value : Version, at : Time, ok : BOOLEAN]
        /\ Value(v).at = now /\ Value(v).value = v /\ now <= now
    BY <1>0, <2>2, SMT DEF Value, TypeOK, Time, SecretsAssumption
  <2>7. cache' \in [Keys -> [value : Version, expires : Nat, full : BOOLEAN]]
    BY <1>0, <2>1, <2>2, SMT DEF TypeOK, SecretsAssumption
  <2>8. ResultsPast' /\ BoundedStaleness' /\ AnswersFresh' /\ TypeOK'
    BY <1>0, <2>1, <2>4, <2>6, <2>7, ReturnFresh DEF TypeOK
  <2>9. EntriesFresh'
    <3>1. \A j \in Keys : cache'[j] = cache[j] \/ cache'[j] = entry
      BY <1>0, <2>1 DEF TypeOK
    <3>2. now' = now /\ version' = version /\ replaced' = replaced
      BY <2>1
    <3>3. entry.expires = now + TTL /\ entry.value = v /\ now + TTL <= now + TTL
      BY <2>2, SMT DEF SecretsAssumption
    <3> SUFFICES ASSUME NEW j \in Keys, cache'[j].full
                 PROVE  /\ cache'[j].expires <= now + TTL
                        /\ \A t \in Time : t + TTL + Timeout = cache'[j].expires
                                             => CurrentAfter(cache'[j].value, t)
      BY <3>2 DEF EntriesFresh, CurrentAfter
    <3> HIDE DEF entry
    <3>4. CASE cache'[j] = cache[j]
      BY <1>0, <3>4 DEF EntriesFresh
    <3>5. CASE cache'[j] = entry
      BY <2>5, <3>3, <3>5
    <3> QED
      BY <3>1, <3>4, <3>5
  <2> QED
    BY <2>8, <2>9 DEF SecretsInv
<1>6. ASSUME Rotate PROVE SecretsInv'
  <2>1. UNCHANGED <<now, cache, call, result>>
    BY <1>6 DEF Rotate
  <2>2. TypeOK'
    BY <1>0, <1>6, SMT DEF TypeOK, Rotate, Version, SecretsAssumption
  <2>3. \A v \in Version, t \in Time : t <= now /\ CurrentAfter(v, t) => CurrentAfter(v, t)'
    BY <1>0, <1>6, RotateKeeps DEF Time
  <2>4. EntriesFresh'
    <3> SUFFICES ASSUME NEW k \in Keys, cache[k].full
                 PROVE  /\ cache[k].expires <= now + TTL
                        /\ \A t \in Time : t + TTL + Timeout = cache[k].expires
                                             => CurrentAfter(cache[k].value, t)'
      BY <2>1 DEF EntriesFresh, CurrentAfter
    <3>1. /\ cache[k].expires <= now + TTL /\ cache[k].value \in Version
          /\ cache[k].expires \in Nat /\ now \in Nat
      BY <1>0, SMT DEF EntriesFresh, TypeOK, Time
    <3>2. ASSUME NEW t \in Time, t + TTL + Timeout = cache[k].expires
          PROVE  CurrentAfter(cache[k].value, t)'
      <4>1. t <= now
        BY <3>1, <3>2, SMT DEF Time, SecretsAssumption
      <4>2. CurrentAfter(cache[k].value, t)
        BY <1>0, <3>2 DEF EntriesFresh
      <4>3. PICK v \in Version : v = cache[k].value
        BY <3>1
      <4> QED
        BY <2>1, <2>3, <4>1, <4>2, <4>3
    <3> QED
      BY <3>1, <3>2
  <2>5. AnswersFresh'
    <3> SUFFICES ASSUME NEW c \in Callers, call[c].pc = "answered"
                 PROVE  CurrentAfter(call[c].val, call[c].asked)'
      BY <1>0, <2>1 DEF AnswersFresh, InRequest
    <3>1. PICK v \in Version : v = call[c].val
      BY <1>0 DEF TypeOK
    <3>2. PICK t \in Time : t = call[c].asked
      BY <1>0 DEF TypeOK
    <3>3. t <= now /\ CurrentAfter(v, t)
      BY <1>0, <3>1, <3>2 DEF AnswersFresh, InRequest
    <3>4. CurrentAfter(v, t)'
      BY <2>3, <3>3
    <3> QED
      BY <2>1, <3>1, <3>2, <3>4 DEF CurrentAfter
  <2>6. ResultsPast'
    BY <1>0, <2>1 DEF ResultsPast
  <2>7. BoundedStaleness'
    <3> SUFFICES ASSUME NEW c \in Callers, result[c].ok, NEW t \in Time,
                        t + TTL + Timeout = result[c].at
                 PROVE  CurrentAfter(result[c].value, t)'
      BY <2>1 DEF BoundedStaleness
    <3>1. PICK v \in Version : v = result[c].value
      BY <1>0 DEF TypeOK
    <3>2. t <= now
      BY <1>0, SMT DEF ResultsPast, TypeOK, Time, SecretsAssumption
    <3>3. CurrentAfter(v, t)'
      BY <1>0, <2>3, <3>1, <3>2 DEF BoundedStaleness
    <3> QED
      BY <2>1, <3>1, <3>3 DEF CurrentAfter
  <2> QED
    BY <2>2, <2>4, <2>5, <2>6, <2>7 DEF SecretsInv
<1>7. ASSUME Pass PROVE SecretsInv'
  <2>1. /\ now < MaxTime /\ now' = now + 1
        /\ \A c \in Callers : InRequest(c) => now < call[c].asked + Timeout
        /\ UNCHANGED <<version, replaced, cache, call, result>>
    BY <1>7 DEF Pass
  <2>2. TypeOK'
    BY <1>0, <2>1, SMT DEF TypeOK, Time, SecretsAssumption
  <2>3. \A x \in Nat : x <= now => x <= now'
    BY <1>0, <2>1, SMT DEF TypeOK, Time
  <2>4. EntriesFresh'
    BY <1>0, <2>1, SMT DEF EntriesFresh, CurrentAfter, TypeOK, Time, SecretsAssumption
  <2>5. AnswersFresh'
    BY <1>0, <2>1, SMT DEF AnswersFresh, InRequest, CurrentAfter, TypeOK, Time, SecretsAssumption
  <2>6. ResultsPast' /\ BoundedStaleness'
    BY <1>0, <2>1, <2>3 DEF ResultsPast, BoundedStaleness, CurrentAfter, TypeOK, Time
  <2> QED
    BY <2>2, <2>4, <2>5, <2>6 DEF SecretsInv
<1>8. ASSUME UNCHANGED sVars PROVE SecretsInv'
  BY <1>8 DEF sVars, SecretsInv, TypeOK, EntriesFresh, AnswersFresh, ResultsPast,
              BoundedStaleness, CurrentAfter, InRequest
<1> QED
  BY <1>1, <1>2, <1>3, <1>4, <1>5, <1>6, <1>7, <1>8 DEF Next, Call

(* Types, and why no entry and no answer is older than it may be, for any number of
   callers, keys and rotations, any TTL and any timeout (OpenBaoProvider.Get). *)
THEOREM SecretsInvariance == Spec => []SecretsInv
  BY InitInv, NextInv, SecretsAssumption, PTL DEF Spec

(* Get and GetOrDefault never return a value that was replaced more than the TTL plus
   the timeout of one request before, whichever of two overlapping answers is stored
   last. *)
THEOREM NotTooStale == Spec => []BoundedStaleness
<1>1. SecretsInv => BoundedStaleness
  BY DEF SecretsInv
<1> QED
  BY <1>1, SecretsInvariance, PTL
=============================================================================
