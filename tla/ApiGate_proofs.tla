---------------------------- MODULE ApiGate_proofs ----------------------------
(***************************************************************************)
(* Theorems about ApiGate, for any number of accounts, addresses and       *)
(* requests, any limits, any window and any delay shorter than it; and     *)
(* about Registration, which makes the accounts and the tokens that        *)
(* ApiGate knows its callers by, for any number of requests and addresses. *)
(***************************************************************************)
EXTENDS ApiGate, Registration, FiniteSetTheorems, TLAPS

USE GateAssumption

-------------------------------------------------------------------------------
(* The least element of a set of times: the order of the intervals that end  *)
(* at its elements is well-founded.                                           *)

LEMMA LeastOf ==
  ASSUME NEW T, T \subseteq Nat, T # {}
  PROVE  \E x \in T : \A y \in T : x <= y
<1> DEFINE R == StrictSubsetOrdering(Nat)
           Below == {0..x : x \in T}
<1>1. Below \subseteq FiniteSubsetsOf(Nat) /\ Below # {}
  <2>1. \A x \in T : IsFiniteSet(0..x) /\ 0..x \subseteq Nat
    <3> TAKE x \in T
    <3>1. IsFiniteSet(0..x) BY FS_Interval
    <3> QED BY <3>1
  <2> QED BY <2>1 DEF FiniteSubsetsOf
<1>2. IsWellFoundedOn(R, FiniteSubsetsOf(Nat))
  BY FS_StrictSubsetOrderingWellFounded
<1> HIDE DEF R
<1>3. PICK B \in Below : \A C \in Below : ~ (<<C, B>> \in R)
  <2> HIDE DEF Below
  <2> QED BY <1>1, <1>2, WFMin
<1>4. PICK x \in T : B = 0..x
  BY <1>3
<1>5. ASSUME NEW y \in T, y < x PROVE FALSE
  <2>1. 0..y \subseteq 0..x /\ x \in 0..x /\ x \notin 0..y
    BY <1>5
  <2>2. 0..y \in Below
    BY <1>5
  <2>3. <<0..y, 0..x>> \in R
    BY <2>1 DEF R, StrictSubsetOrdering
  <2> QED BY <1>3, <1>4, <2>2, <2>3
<1>6. \A y \in T : x <= y
  <2> TAKE y \in T
  <2>1. ~(y < x)
    BY <1>5
  <2> QED BY <2>1
<1> QED BY <1>6

-------------------------------------------------------------------------------
(* What a script reads and writes *)

LEMMA RowOf ==
  ASSUME GateTypeOK, NEW r \in DOMAIN req
  PROVE  /\ req[r] \in Row /\ BucketOf(r) \in Buckets
         /\ \A g \in Gates : req[r].score[g] \in Times /\ req[r].got[g] \in Times
         /\ \A b \in Buckets : GateOf(b) \in Gates /\ Score(b, r) \in Times
<1>1. req[r] \in Row
  BY DEF GateTypeOK
<1> QED BY <1>1 DEF Row, BucketOf, Buckets, GateOf, Gates, Score

\* A request asks for a slot of the bucket whose gate it stands at.
LEMMA GateOfBucketOf ==
  ASSUME GateTypeOK, NEW r \in DOMAIN req
  PROVE  GateOf(BucketOf(r)) = req[r].gate
<1>1. req[r].who \in Users \cup Hosts /\ req[r].gate \in Gates
  BY RowOf DEF Row
<1> QED BY <1>1 DEF GateOf, BucketOf, Gates

LEMMA LimitPositive == \A b : LimitOf(b) \in Nat \ {0}
BY DEF LimitOf

LEMMA BucketFinite ==
  ASSUME GateTypeOK, NEW b \in Buckets
  PROVE  /\ bucket[b] \subseteq DOMAIN req /\ IsFiniteSet(DOMAIN req)
         /\ IsFiniteSet(bucket[b]) /\ Cardinality(bucket[b]) \in Nat
         /\ Cardinality(bucket[b]) <= LimitOf(b)
<1>1. DOMAIN req = 1..Len(req) /\ Len(req) \in Nat /\ bucket[b] \subseteq DOMAIN req
  BY DEF GateTypeOK
<1>2. IsFiniteSet(1..Len(req))
  BY <1>1, FS_Interval
<1>3. IsFiniteSet(bucket[b])
  BY <1>1, <1>2, FS_Subset
<1> QED BY <1>1, <1>2, <1>3, FS_CardinalityType DEF GateTypeOK

\* What is kept of a bucket fits, with one more if it was not full.
LEMMA KeptFits ==
  ASSUME GateTypeOK, NEW b \in Buckets, NEW now, NEW r \in DOMAIN req
  PROVE  LET kept == Kept(b, now)
         IN /\ kept \subseteq bucket[b] /\ Cardinality(kept) \in Nat
            /\ Cardinality(kept) <= LimitOf(b)
            /\ \A o \in bucket[b] \ kept : Cardinality(kept) < LimitOf(b)
            /\ Full(b, kept) => kept # {}
            /\ ~Full(b, kept) => Cardinality(kept \cup {r}) <= LimitOf(b)
<1> DEFINE kept == Kept(b, now)
<1>1. kept \subseteq bucket[b]
  BY DEF Kept
<1> HIDE DEF kept
<1>2. IsFiniteSet(bucket[b]) /\ Cardinality(bucket[b]) \in Nat /\ Cardinality(bucket[b]) <= LimitOf(b)
  BY BucketFinite
<1>3. IsFiniteSet(kept) /\ Cardinality(kept) \in Nat /\ Cardinality(kept) <= Cardinality(bucket[b])
  BY <1>1, <1>2, FS_Subset, FS_CardinalityType
<1>4. LimitOf(b) \in Nat \ {0}
  BY LimitPositive
<1>5. ASSUME NEW o \in bucket[b] \ kept PROVE Cardinality(kept) < LimitOf(b)
  <2>1. Cardinality(kept) # Cardinality(bucket[b])
    BY <1>1, <1>2, <1>5, FS_Subset
  <2> QED BY <1>2, <1>3, <1>4, <2>1
<1>6. Full(b, kept) => kept # {}
  BY <1>4, FS_EmptySet DEF Full
<1>7. ~Full(b, kept) => Cardinality(kept \cup {r}) <= LimitOf(b)
  <2>1. Cardinality(kept \cup {r}) = IF r \in kept THEN Cardinality(kept) ELSE Cardinality(kept) + 1
    BY <1>3, FS_AddElement
  <2> QED BY <1>3, <1>4, <2>1 DEF Full
<1> QED BY <1>1, <1>2, <1>3, <1>4, <1>5, <1>6, <1>7 DEF kept

\* A refusal tells the time of a slot that is held.
LEMMA OldestHeld ==
  ASSUME GateTypeOK, NEW b \in Buckets, NEW now, Kept(b, now) # {}
  PROVE  \E o \in Kept(b, now) : Oldest(b, Kept(b, now)) = Score(b, o)
<1> DEFINE kept == Kept(b, now)
           T == {Score(b, o) : o \in kept}
<1>1. \A o \in kept : o \in DOMAIN req /\ Score(b, o) \in Nat
  BY BucketFinite, RowOf DEF Kept, Times
<1> HIDE DEF kept
<1>2. T \subseteq Nat /\ T # {}
  BY <1>1 DEF kept
<1>3. \E x \in T : \A y \in T : x <= y
  <2> HIDE DEF T
  <2> QED BY <1>2, LeastOf
<1>4. \E x \in T : \A o \in kept : x <= Score(b, o)
  BY <1>3
<1>5. Oldest(b, kept) \in T
  BY <1>4 DEF Oldest
<1> QED BY <1>5 DEF kept

-------------------------------------------------------------------------------
(* What a step does to the requests *)

\* Request r becomes q, and every other request stays as it is.
Becomes(r, q) ==
  /\ req' \in Seq(Row) /\ Len(req') = Len(req) /\ DOMAIN req' = DOMAIN req
  /\ req'[r] = q /\ \A s \in DOMAIN req : s # r => req'[s] = req[s]

LEMMA RowSet ==
  ASSUME GateTypeOK, NEW r \in DOMAIN req, NEW q \in Row, req' = [req EXCEPT ![r] = q]
  PROVE  Becomes(r, q)
BY DEF GateTypeOK, Becomes

LEMMA Arrived ==
  ASSUME GateTypeOK, NEW h \in Hosts, NEW cookie \in Token \cup {NoToken},
         NEW bearer \in Token \cup {NoToken}, Arrive(h, cookie, bearer)
  PROVE  \E q \in Row :
           /\ req' \in Seq(Row) /\ Len(req') = Len(req) + 1 /\ Len(req') <= MaxRequests
           /\ req'[Len(req) + 1] = q /\ DOMAIN req' = DOMAIN req \cup {Len(req) + 1}
           /\ \A s \in DOMAIN req : req'[s] = req[s]
           /\ q.pc = "sent" /\ q.gate = "service" /\ q.who = Identity(q.user, q.host)
           /\ \A g \in Gates : q.got[g] = 0 /\ q.score[g] <= clock
           /\ q.score["service"] = clock
<1> DEFINE user == Decoded(Presented(cookie, bearer))
           q == [host |-> h, user |-> user, who |-> Identity(user, h),
                 pc |-> "sent", gate |-> "service",
                 score |-> [g \in Gates |-> IF g = "service" THEN clock ELSE 0],
                 got |-> [g \in Gates |-> 0], answer |-> "none"]
<1>1. user \in Users \cup {Nobody}
  BY DEF Decoded, Presented, Token, NoToken
<1>2. Identity(user, h) \in Users \cup Hosts
  BY <1>1 DEF Identity
<1> HIDE DEF user
<1>3. clock \in Times /\ 0 \in Times /\ clock \in Nat
  BY DEF GateTypeOK, Times
<1>4. q \in Row
  BY <1>1, <1>2, <1>3 DEF Row, Gates
<1>5. q.pc = "sent" /\ q.gate = "service" /\ q.who = Identity(q.user, q.host)
  OBVIOUS
<1>6. \A g \in Gates : q.got[g] = 0 /\ q.score[g] <= clock
  BY <1>3
<1>7. q.score["service"] = clock
  BY DEF Gates
<1>8. req' = Append(req, q) /\ Len(req) < MaxRequests
  BY DEF Arrive, user
<1> HIDE DEF q
<1>9. /\ req' \in Seq(Row) /\ Len(req') = Len(req) + 1 /\ Len(req') <= MaxRequests
      /\ req'[Len(req) + 1] = q /\ DOMAIN req' = DOMAIN req \cup {Len(req) + 1}
      /\ \A s \in DOMAIN req : req'[s] = req[s]
  BY <1>4, <1>8 DEF GateTypeOK
<1> QED BY <1>4, <1>5, <1>6, <1>7, <1>9

LEMMA Stamped ==
  ASSUME GateTypeOK, NEW r \in DOMAIN req, Stamp(r)
  PROVE  \E q \in Row :
           /\ Becomes(r, q) /\ q.pc = "sent" /\ q.gate = req[r].gate
           /\ q.user = req[r].user /\ q.host = req[r].host /\ q.who = req[r].who
           /\ q.answer = req[r].answer /\ q.got = req[r].got
           /\ q.score[q.gate] = clock
           /\ \A g \in Gates : g # q.gate => q.score[g] = req[r].score[g]
<1> DEFINE q == [req[r] EXCEPT !.pc = "sent", !.score[req[r].gate] = clock]
<1>1. req[r] \in Row /\ clock \in Times
  BY RowOf DEF GateTypeOK, Times
<1>2. q \in Row
  BY <1>1 DEF Row
<1>3. req' = [req EXCEPT ![r] = q]
  BY DEF Stamp
<1>4. /\ q.pc = "sent" /\ q.gate = req[r].gate
      /\ q.user = req[r].user /\ q.host = req[r].host /\ q.who = req[r].who
      /\ q.answer = req[r].answer /\ q.got = req[r].got
      /\ q.score[q.gate] = clock
      /\ \A g \in Gates : g # q.gate => q.score[g] = req[r].score[g]
  BY <1>1 DEF Row
<1> HIDE DEF q
<1>5. Becomes(r, q)
  BY <1>2, <1>3, RowSet
<1> QED BY <1>2, <1>4, <1>5

\* A request ends: refused, without the limiter, or answered by its route.
EndsWith(r, a) ==
  /\ a \in {"ok", "unauthenticated", "rate limit", "capacity", "no limiter"}
  /\ req' = [req EXCEPT ![r].pc = "done", ![r].answer = a]

\* Nothing of it changes but its program counter and its answer.
Ends(r, q) ==
  /\ Becomes(r, q) /\ q.pc = "done" /\ q.gate = req[r].gate
  /\ q.user = req[r].user /\ q.host = req[r].host /\ q.who = req[r].who
  /\ q.got = req[r].got /\ q.score = req[r].score

LEMMA Ended ==
  ASSUME GateTypeOK, NEW r \in DOMAIN req, NEW a, EndsWith(r, a)
  PROVE  \E q \in Row : Ends(r, q) /\ q.answer = a
<1> DEFINE q == [req[r] EXCEPT !.pc = "done", !.answer = a]
<1>1. req[r] \in Row
  BY RowOf
<1>2. q \in Row
  BY <1>1 DEF Row, EndsWith
<1>3. req' = [req EXCEPT ![r] = q]
  BY DEF EndsWith
<1>4. /\ q.pc = "done" /\ q.gate = req[r].gate
      /\ q.user = req[r].user /\ q.host = req[r].host /\ q.who = req[r].who
      /\ q.answer = a /\ q.got = req[r].got /\ q.score = req[r].score
  BY <1>1 DEF Row
<1> HIDE DEF q
<1>5. Becomes(r, q)
  BY <1>2, <1>3, RowSet
<1> QED BY <1>2, <1>4, <1>5 DEF Ends

\* A slot is given: the answer is heard, or it is lost.
LEMMA Granted ==
  ASSUME GateTypeOK, NEW r \in DOMAIN req, req[r].pc = "sent",
         Grant(r) \/ GrantUnheard(r)
  PROVE  \E q \in Row :
           /\ Becomes(r, q) /\ q.score = req[r].score /\ q.answer = req[r].answer
           /\ q.user = req[r].user /\ q.host = req[r].host /\ q.who = req[r].who
           /\ q.got[req[r].gate] = clock
           /\ \A g \in Gates : g # req[r].gate => q.got[g] = req[r].got[g]
           /\ \/ q.gate = req[r].gate /\ q.pc = "sent"
              \/ /\ q.gate = "own"
                 /\ q.pc = IF req[r].gate = "service" THEN "stamp" ELSE "handle"
<1>1. req[r] \in Row /\ clock \in Times /\ BucketOf(r) \in Buckets
  BY RowOf DEF GateTypeOK, Times
<1>2. (BucketOf(r) = Service) <=> (req[r].gate = "service")
  BY <1>1 DEF BucketOf, Row, Gates
<1>3. CASE Grant(r)
  <2> DEFINE q == [req[r] EXCEPT !.got[req[r].gate] = clock, !.gate = "own",
                      !.pc = IF BucketOf(r) = Service THEN "stamp" ELSE "handle"]
  <2>1. q \in Row
    BY <1>1 DEF Row, Gates
  <2>2. req' = [req EXCEPT ![r] = q]
    BY <1>3 DEF Grant
  <2>3. /\ q.score = req[r].score /\ q.answer = req[r].answer
        /\ q.user = req[r].user /\ q.host = req[r].host /\ q.who = req[r].who
        /\ q.got[req[r].gate] = clock
        /\ \A g \in Gates : g # req[r].gate => q.got[g] = req[r].got[g]
        /\ q.gate = "own"
        /\ q.pc = IF req[r].gate = "service" THEN "stamp" ELSE "handle"
    BY <1>1, <1>2 DEF Row
  <2> HIDE DEF q
  <2>4. Becomes(r, q)
    BY <2>1, <2>2, RowSet
  <2> QED BY <2>1, <2>3, <2>4
<1>4. CASE GrantUnheard(r)
  <2> DEFINE q == [req[r] EXCEPT !.got[req[r].gate] = clock]
  <2>1. q \in Row
    BY <1>1 DEF Row
  <2>2. req' = [req EXCEPT ![r] = q]
    BY <1>4 DEF GrantUnheard
  <2>3. /\ q.score = req[r].score /\ q.answer = req[r].answer
        /\ q.user = req[r].user /\ q.host = req[r].host /\ q.who = req[r].who
        /\ q.got[req[r].gate] = clock
        /\ \A g \in Gates : g # req[r].gate => q.got[g] = req[r].got[g]
        /\ q.gate = req[r].gate /\ q.pc = "sent"
    BY <1>1 DEF Row
  <2> HIDE DEF q
  <2>4. Becomes(r, q)
    BY <2>1, <2>2, RowSet
  <2> QED BY <2>1, <2>3, <2>4
<1> QED BY <1>3, <1>4

-------------------------------------------------------------------------------
(* Types *)

LEMMA RefuseTyped ==
  ASSUME GateTypeOK, NEW r \in DOMAIN req, Refuse(r), UNCHANGED clock
  PROVE  GateTypeOK'
<1> DEFINE b == BucketOf(r)
           kept == Kept(b, Score(b, r))
<1>1. b \in Buckets
  BY RowOf
<1>2. /\ Full(b, kept) /\ bucket' = [bucket EXCEPT ![b] = kept]
      /\ told' = [told EXCEPT ![b] = ResetAt(Oldest(b, kept))]
      /\ UNCHANGED <<expires, losses>>
  BY DEF Refuse
<1>3. DOMAIN req' = DOMAIN req /\ req' \in Seq(Row) /\ Len(req') = Len(req)
  <2>1. EndsWith(r, IF b = Service THEN "capacity" ELSE "rate limit")
    BY DEF Refuse, EndsWith
  <2> QED BY <2>1, Ended DEF Ends, Becomes
<1>4. kept # {} /\ kept \subseteq bucket[b] /\ Cardinality(kept) <= LimitOf(b)
  BY <1>1, <1>2, KeptFits
<1>5. PICK o \in kept : Oldest(b, kept) = Score(b, o)
  BY <1>1, <1>4, OldestHeld
<1>6. Score(b, o) \in Times /\ bucket[b] \subseteq DOMAIN req
  BY <1>1, <1>4, BucketFinite, RowOf
<1>7. ResetAt(Oldest(b, kept)) \in 0..(MaxClock + Window)
  BY <1>5, <1>6 DEF ResetAt, Times
<1> HIDE DEF b, kept
<1>8. told' \in [Buckets -> 0..(MaxClock + Window)]
  BY <1>2, <1>7 DEF GateTypeOK
<1>9. bucket' \in [Buckets -> SUBSET DOMAIN req']
  BY <1>1, <1>2, <1>3, <1>4, <1>6 DEF GateTypeOK
<1>10. ASSUME NEW c \in Buckets PROVE Cardinality(bucket'[c]) <= LimitOf(c)
  <2>1. bucket'[c] = IF c = b THEN kept ELSE bucket[c]
    BY <1>1, <1>2 DEF GateTypeOK
  <2> QED BY <1>4, <2>1 DEF GateTypeOK
<1> QED BY <1>2, <1>3, <1>8, <1>9, <1>10 DEF GateTypeOK

LEMMA GivenTyped ==
  ASSUME GateTypeOK, NEW r \in DOMAIN req, req[r].pc = "sent",
         Grant(r) \/ GrantUnheard(r), UNCHANGED clock
  PROVE  GateTypeOK'
<1> DEFINE b == BucketOf(r)
           kept == Kept(b, Score(b, r))
<1>1. b \in Buckets
  BY RowOf
<1>2. /\ ~Full(b, kept) /\ bucket' = [bucket EXCEPT ![b] = kept \cup {r}]
      /\ expires' = [expires EXCEPT ![b] = clock + Window]
      /\ told' = [told EXCEPT ![b] = 0]
      /\ losses' \in 0..LossBound
  BY DEF Grant, GrantUnheard, Given, GateTypeOK
<1>3. DOMAIN req' = DOMAIN req /\ req' \in Seq(Row) /\ Len(req') = Len(req)
  BY Granted DEF Becomes
<1>4. kept \cup {r} \subseteq DOMAIN req /\ Cardinality(kept \cup {r}) <= LimitOf(b)
  BY <1>1, <1>2, KeptFits, BucketFinite
<1> HIDE DEF b, kept
<1>5. clock + Window \in 0..(MaxClock + Window) /\ 0 \in 0..(MaxClock + Window)
  BY DEF GateTypeOK
<1>6. told' \in [Buckets -> 0..(MaxClock + Window)] /\ expires' \in [Buckets -> 0..(MaxClock + Window)]
  BY <1>2, <1>5 DEF GateTypeOK
<1>7. bucket' \in [Buckets -> SUBSET DOMAIN req']
  BY <1>1, <1>2, <1>3, <1>4 DEF GateTypeOK
<1>8. ASSUME NEW c \in Buckets PROVE Cardinality(bucket'[c]) <= LimitOf(c)
  <2>1. bucket'[c] = IF c = b THEN kept \cup {r} ELSE bucket[c]
    BY <1>1, <1>2 DEF GateTypeOK
  <2> QED BY <1>4, <2>1 DEF GateTypeOK
<1> QED BY <1>2, <1>3, <1>6, <1>7, <1>8 DEF GateTypeOK

LEMMA GateInitTyped == Init => GateTypeOK
<1> SUFFICES ASSUME Init PROVE GateTypeOK
  OBVIOUS
<1>1. \A b \in Buckets : Cardinality(bucket[b]) <= LimitOf(b)
  BY LimitPositive, FS_EmptySet DEF Init
<1> QED BY <1>1 DEF Init, GateTypeOK

LEMMA GateStepTyped == GateTypeOK /\ [Next]_vars => GateTypeOK'
<1> SUFFICES ASSUME GateTypeOK, [Next]_vars PROVE GateTypeOK'
  OBVIOUS
<1>1. ASSUME NEW h \in Hosts, NEW cookie \in Token \cup {NoToken},
             NEW bearer \in Token \cup {NoToken}, Arrive(h, cookie, bearer)
      PROVE  GateTypeOK'
  <2>1. /\ req' \in Seq(Row) /\ Len(req') <= MaxRequests /\ DOMAIN req \subseteq DOMAIN req'
    BY <1>1, Arrived
  <2>2. UNCHANGED <<clock, bucket, expires, told, losses>>
    BY <1>1 DEF Arrive
  <2> QED BY <2>1, <2>2 DEF GateTypeOK
<1>2. ASSUME NEW r \in DOMAIN req, Stamp(r) PROVE GateTypeOK'
  <2>1. DOMAIN req' = DOMAIN req /\ req' \in Seq(Row) /\ Len(req') = Len(req)
    BY <1>2, Stamped DEF Becomes
  <2> QED BY <1>2, <2>1 DEF Stamp, GateTypeOK
<1>3. ASSUME NEW r \in DOMAIN req, Check(r) PROVE GateTypeOK'
  BY <1>3, RefuseTyped, GivenTyped DEF Check
<1>4. ASSUME NEW r \in DOMAIN req, LimiterFails(r) \/ Handle(r) PROVE GateTypeOK'
  <2>1. DOMAIN req' = DOMAIN req /\ req' \in Seq(Row) /\ Len(req') = Len(req)
    <3>1. \E a : EndsWith(r, a)
      BY <1>4 DEF LimiterFails, Handle, EndsWith
    <3> QED BY <3>1, Ended DEF Ends, Becomes
  <2> QED BY <1>4, <2>1 DEF LimiterFails, Handle, GateTypeOK
<1>5. CASE Tick
  BY <1>5 DEF Tick, GateTypeOK
<1>6. CASE UNCHANGED vars
  BY <1>6 DEF vars, GateTypeOK
<1> QED BY <1>1, <1>2, <1>3, <1>4, <1>5, <1>6 DEF Next

\* No bucket ever holds more requests than its limit, and every stamp, reset and
\* expiry is a time (RedisRateLimiter.check).
THEOREM GateTypeCorrect == Spec => []GateTypeOK
<1>1. GateTypeOK /\ [Next]_vars => GateTypeOK'
  BY GateStepTyped
<1> QED BY GateInitTyped, <1>1, PTL DEF Spec

-------------------------------------------------------------------------------
(* The inductive invariant.  WithinLimit alone is not inductive: that a slot   *)
(* counts for as long as it should rests on the stamps, the delays and the     *)
(* expiry of the keys.                                                         *)

\* What a request has been through: nobody runs a script later than the delay
\* after its stamp, and the second gate is asked only after the first.
RowSane(q) ==
  /\ q.who = Identity(q.user, q.host)
  /\ \A g \in Gates : q.score[g] <= clock /\ q.got[g] <= clock
  /\ \A g \in Gates : q.got[g] # 0 =>
       q.score[g] <= q.got[g] /\ q.got[g] <= q.score[g] + MaxDelay
  /\ q.pc = "sent" => clock <= q.score[q.gate] + MaxDelay
  /\ q.pc = "stamp" => q.gate = "own"
  /\ q.pc = "stamp" \/ q.gate = "service" => q.got["own"] = 0

RowsSane == \A r \in DOMAIN req : RowSane(req[r])

Got(b, r) == req[r].got[GateOf(b)]

\* A bucket holds only slots that were given in it.
HeldAreGiven ==
  \A b \in Buckets : \A r \in bucket[b] : Of(b, r) /\ Got(b, r) # 0

\* A slot is held for the window less the delay at least.
GivenAreHeld ==
  \A b \in Buckets : \A r \in DOMAIN req :
    (Of(b, r) /\ Got(b, r) # 0 /\ clock + MaxDelay < Got(b, r) + Window)
    => r \in bucket[b] /\ Got(b, r) + Window <= expires[b]

\* The last reset that was told is that of a slot still held.
ToldIsHeld ==
  \A b \in Buckets : told[b] # 0 => \E o \in bucket[b] : Score(b, o) + Window = told[b]

GateInv ==
  /\ GateTypeOK /\ RowsSane /\ HeldAreGiven /\ GivenAreHeld /\ ToldIsHeld /\ WithinLimit

LEMMA OfBucketOf ==
  ASSUME GateTypeOK, RowsSane, NEW r \in DOMAIN req, NEW b \in Buckets,
         GateOf(b) = req[r].gate
  PROVE  Of(b, r) <=> b = BucketOf(r)
<1>1. /\ req[r].who = Identity(req[r].user, req[r].host)
      /\ req[r].user \in Users \cup {Nobody} /\ req[r].host \in Hosts
      /\ req[r].gate \in Gates
  BY RowOf DEF RowsSane, RowSane, Row
<1>2. CASE b = Service
  BY <1>1, <1>2 DEF Of, BucketOf, GateOf
<1>3. CASE b # Service
  <2>1. req[r].gate # "service" /\ b \in Users \cup Hosts
    BY <1>3 DEF GateOf, Buckets
  <2> QED BY <1>1, <1>3, <2>1 DEF Of, BucketOf, Identity
<1> QED BY <1>2, <1>3

LEMMA RowsOf ==
  ASSUME GateTypeOK, RowsSane, NEW r \in DOMAIN req
  PROVE  /\ RowSane(req[r]) /\ req[r] \in Row /\ clock \in Nat /\ clock # 0
         /\ req[r].gate \in Gates
         /\ \A g \in Gates : req[r].score[g] \in Nat /\ req[r].got[g] \in Nat
<1>1. /\ req[r] \in Row
      /\ \A g \in Gates : req[r].score[g] \in Times /\ req[r].got[g] \in Times
  BY RowOf
<1>2. RowSane(req[r]) /\ clock \in Nat /\ clock # 0
  BY DEF RowsSane, GateTypeOK
<1>3. req[r].gate \in Gates
  BY <1>1 DEF Row
<1> QED BY <1>1, <1>2, <1>3 DEF Times

-------------------------------------------------------------------------------
(* What a request has been through *)

LEMMA BecomesSane ==
  ASSUME RowsSane, NEW r \in DOMAIN req, NEW q, Becomes(r, q), UNCHANGED clock, RowSane(q)
  PROVE  RowsSane'
<1> SUFFICES ASSUME NEW s \in DOMAIN req PROVE RowSane(req[s])'
  BY DEF RowsSane, Becomes
<1>1. RowSane(req[s]) /\ (req'[s] = req[s] \/ req'[s] = q)
  BY DEF RowsSane, Becomes
<1> QED BY <1>1 DEF RowSane

LEMMA ArriveSane ==
  ASSUME GateTypeOK, RowsSane, NEW h \in Hosts, NEW cookie \in Token \cup {NoToken},
         NEW bearer \in Token \cup {NoToken}, Arrive(h, cookie, bearer)
  PROVE  RowsSane'
<1>1. PICK q \in Row :
        /\ req'[Len(req) + 1] = q /\ DOMAIN req' = DOMAIN req \cup {Len(req) + 1}
        /\ \A s \in DOMAIN req : req'[s] = req[s]
        /\ q.pc = "sent" /\ q.gate = "service" /\ q.who = Identity(q.user, q.host)
        /\ \A g \in Gates : q.got[g] = 0 /\ q.score[g] <= clock
        /\ q.score["service"] = clock
  BY Arrived
<1>2. clock' = clock /\ clock \in Nat
  BY DEF Arrive, GateTypeOK
<1>3. RowSane(q)
  BY <1>1, <1>2 DEF RowSane, Gates
<1> SUFFICES ASSUME NEW s \in DOMAIN req' PROVE RowSane(req[s])'
  BY DEF RowsSane
<1>4. CASE s \in DOMAIN req
  <2>1. RowSane(req[s]) /\ req'[s] = req[s]
    BY <1>1, <1>4 DEF RowsSane
  <2> QED BY <1>2, <2>1 DEF RowSane
<1>5. CASE s \notin DOMAIN req
  <2>1. req'[s] = q
    BY <1>1, <1>5
  <2> QED BY <1>2, <1>3, <2>1 DEF RowSane
<1> QED BY <1>4, <1>5

LEMMA StampSane ==
  ASSUME GateTypeOK, RowsSane, NEW r \in DOMAIN req, Stamp(r)
  PROVE  RowsSane'
<1>1. PICK q \in Row :
        /\ Becomes(r, q) /\ q.pc = "sent" /\ q.gate = req[r].gate
        /\ q.user = req[r].user /\ q.host = req[r].host /\ q.who = req[r].who
        /\ q.got = req[r].got /\ q.score[q.gate] = clock
        /\ \A g \in Gates : g # q.gate => q.score[g] = req[r].score[g]
  BY Stamped
<1>2. RowSane(req[r]) /\ req[r].pc = "stamp" /\ clock \in Nat /\ UNCHANGED clock
  BY RowsOf DEF Stamp
<1>3. RowSane(q)
  BY <1>1, <1>2 DEF RowSane, Gates
<1> QED BY <1>1, <1>2, <1>3, BecomesSane

LEMMA EndedSane ==
  ASSUME GateTypeOK, RowsSane, NEW r \in DOMAIN req, NEW q \in Row,
         Ends(r, q), UNCHANGED clock
  PROVE  RowsSane'
<1>1. RowSane(req[r])
  BY RowsOf
<1>2. RowSane(q) /\ Becomes(r, q)
  BY <1>1 DEF RowSane, Ends
<1> QED BY <1>2, BecomesSane

LEMMA GrantSane ==
  ASSUME GateTypeOK, RowsSane, NEW r \in DOMAIN req, req[r].pc = "sent",
         Grant(r) \/ GrantUnheard(r), UNCHANGED clock
  PROVE  RowsSane'
<1>1. PICK q \in Row :
        /\ Becomes(r, q) /\ q.score = req[r].score
        /\ q.user = req[r].user /\ q.host = req[r].host /\ q.who = req[r].who
        /\ q.got[req[r].gate] = clock
        /\ \A g \in Gates : g # req[r].gate => q.got[g] = req[r].got[g]
        /\ \/ q.gate = req[r].gate /\ q.pc = "sent"
           \/ /\ q.gate = "own"
              /\ q.pc = IF req[r].gate = "service" THEN "stamp" ELSE "handle"
  BY Granted
<1>2. /\ RowSane(req[r]) /\ clock \in Nat /\ req[r].gate \in Gates
      /\ \A g \in Gates : req[r].score[g] \in Nat /\ req[r].got[g] \in Nat
  BY RowsOf
<1>3. \A g \in Gates : q.score[g] <= clock /\ q.got[g] <= clock
  BY <1>1, <1>2 DEF RowSane
<1>4. \A g \in Gates : q.got[g] # 0 =>
        q.score[g] <= q.got[g] /\ q.got[g] <= q.score[g] + MaxDelay
  BY <1>1, <1>2 DEF RowSane
<1>5. q.pc = "sent" => clock <= q.score[q.gate] + MaxDelay
  BY <1>1, <1>2 DEF RowSane
<1>6. q.pc = "stamp" \/ q.gate = "service" => q.got["own"] = 0
  BY <1>1, <1>2 DEF RowSane, Gates
<1>7. RowSane(q)
  BY <1>1, <1>2, <1>3, <1>4, <1>5, <1>6 DEF RowSane
<1> QED BY <1>1, <1>7, BecomesSane

LEMMA TickSane ==
  ASSUME GateTypeOK, RowsSane, Tick
  PROVE  RowsSane'
<1> SUFFICES ASSUME NEW r \in DOMAIN req PROVE RowSane(req[r])'
  BY DEF RowsSane, Tick
<1>1. /\ RowSane(req[r]) /\ clock \in Nat /\ clock' = clock + 1 /\ req' = req
      /\ req[r].gate \in Gates /\ req[r].pc \in {"stamp", "sent", "handle", "done"}
      /\ \A g \in Gates : req[r].score[g] \in Nat /\ req[r].got[g] \in Nat
  BY RowsOf DEF Tick, Row
<1>2. req[r].pc # "stamp" /\ (req[r].pc = "sent" => clock < req[r].score[req[r].gate] + MaxDelay)
  BY DEF Tick
<1> QED BY <1>1, <1>2 DEF RowSane

-------------------------------------------------------------------------------
(* Steps that give no slot and take none *)

Quiet ==
  /\ UNCHANGED <<clock, bucket, expires, told>> /\ DOMAIN req \subseteq DOMAIN req'
  /\ \A s \in DOMAIN req :
       /\ req'[s].user = req[s].user /\ req'[s].host = req[s].host
       /\ req'[s].got = req[s].got
       /\ \A g \in Gates : req[s].got[g] # 0 => req'[s].score[g] = req[s].score[g]
  /\ \A s \in DOMAIN req' \ DOMAIN req : \A g \in Gates : req'[s].got[g] = 0

Promises == HeldAreGiven /\ GivenAreHeld /\ ToldIsHeld /\ WithinLimit

LEMMA QuietKeepsPromises ==
  ASSUME GateTypeOK, Promises, Quiet
  PROVE  Promises'
<1>1. /\ UNCHANGED <<clock, bucket, expires, told>> /\ DOMAIN req \subseteq DOMAIN req'
      /\ \A b \in Buckets : bucket[b] \subseteq DOMAIN req /\ GateOf(b) \in Gates
  BY DEF Quiet, GateTypeOK, GateOf, Gates
<1>2. ASSUME NEW b \in Buckets, NEW s \in DOMAIN req
      PROVE  /\ Of(b, s)' <=> Of(b, s)
             /\ Got(b, s)' = Got(b, s)
             /\ Got(b, s) # 0 => Score(b, s)' = Score(b, s)
  BY <1>1 DEF Quiet, Of, Got, Score
<1>3. ASSUME NEW b \in Buckets, NEW s \in DOMAIN req' \ DOMAIN req PROVE Got(b, s)' = 0
  BY <1>1 DEF Quiet, Got
<1>4. HeldAreGiven'
  BY <1>1, <1>2 DEF HeldAreGiven, Promises
<1>5. GivenAreHeld'
  BY <1>1, <1>2, <1>3 DEF GivenAreHeld, Promises
<1>6. ToldIsHeld'
  <2> SUFFICES ASSUME NEW b \in Buckets, told[b] # 0
               PROVE  \E o \in bucket[b] : Score(b, o)' + Window = told[b]
    BY <1>1 DEF ToldIsHeld
  <2>1. PICK o \in bucket[b] : Score(b, o) + Window = told[b]
    BY DEF ToldIsHeld, Promises
  <2>2. Got(b, o) # 0 /\ o \in DOMAIN req
    BY <1>1 DEF HeldAreGiven, Promises
  <2> QED BY <1>2, <2>1, <2>2
<1>7. WithinLimit'
  <2> SUFFICES ASSUME NEW b \in Buckets, NEW t \in 1..clock
               PROVE  Cardinality(Slots(b, t, t + Window - MaxDelay - 1)') <= LimitOf(b)
    BY <1>1 DEF WithinLimit
  <2>1. ASSUME NEW from, NEW to PROVE Slots(b, from, to)' = Slots(b, from, to)
    BY <1>1, <1>2, <1>3 DEF Slots, Got
  <2>2. Slots(b, t, t + Window - MaxDelay - 1)' = Slots(b, t, t + Window - MaxDelay - 1)
    BY <2>1
  <2> QED BY <2>2 DEF WithinLimit, Promises
<1> QED BY <1>4, <1>5, <1>6, <1>7 DEF Promises

LEMMA ArriveQuiet ==
  ASSUME GateTypeOK, NEW h \in Hosts, NEW cookie \in Token \cup {NoToken},
         NEW bearer \in Token \cup {NoToken}, Arrive(h, cookie, bearer)
  PROVE  Quiet
BY Arrived DEF Arrive, Quiet

LEMMA StampQuiet ==
  ASSUME GateTypeOK, RowsSane, NEW r \in DOMAIN req, Stamp(r)
  PROVE  Quiet
<1>1. PICK q \in Row :
        /\ Becomes(r, q) /\ q.gate = req[r].gate /\ q.user = req[r].user
        /\ q.host = req[r].host /\ q.got = req[r].got
        /\ \A g \in Gates : g # q.gate => q.score[g] = req[r].score[g]
  BY Stamped
<1>2. req[r].gate = "own" /\ req[r].got["own"] = 0
  BY RowsOf DEF Stamp, RowSane
<1>3. \A g \in Gates : req[r].got[g] # 0 => q.score[g] = req[r].score[g]
  BY <1>1, <1>2
<1>4. UNCHANGED <<clock, bucket, expires, told>>
  BY DEF Stamp
<1> QED BY <1>1, <1>3, <1>4 DEF Becomes, Quiet

LEMMA EndQuiet ==
  ASSUME GateTypeOK, NEW r \in DOMAIN req, LimiterFails(r) \/ Handle(r)
  PROVE  /\ Quiet
         /\ \E q \in Row : Ends(r, q) /\ q.answer \in {"no limiter", "unauthenticated", "ok"}
<1>1. PICK a \in {"no limiter", "unauthenticated", "ok"} : EndsWith(r, a)
  BY DEF LimiterFails, Handle, EndsWith
<1>2. PICK q \in Row : Ends(r, q) /\ q.answer = a
  BY <1>1, Ended
<1>3. UNCHANGED <<clock, bucket, expires, told>>
  BY DEF LimiterFails, Handle
<1>4. Quiet
  BY <1>2, <1>3 DEF Ends, Becomes, Quiet
<1> QED BY <1>2, <1>4

-------------------------------------------------------------------------------
(* The scripts *)

\* What a script finds of the slots given in the last window less the delay.
LEMMA KeptLongEnough ==
  ASSUME GateTypeOK, RowsSane, GivenAreHeld, NEW r \in DOMAIN req, req[r].pc = "sent",
         NEW b, b = BucketOf(r), NEW s \in DOMAIN req, Of(b, s), Got(b, s) # 0,
         clock + MaxDelay < Got(b, s) + Window
  PROVE  s \in Kept(b, Score(b, r)) /\ Got(b, s) + Window <= expires[b]
<1>1. b \in Buckets /\ GateOf(b) \in Gates
  BY RowOf
<1>2. s \in bucket[b] /\ Got(b, s) + Window <= expires[b] /\ expires[b] \in Nat
  BY <1>1 DEF GivenAreHeld, GateTypeOK
<1>3. /\ clock \in Nat /\ Got(b, s) \in Nat /\ Score(b, s) \in Nat /\ Score(b, r) \in Nat
      /\ RowSane(req[r]) /\ RowSane(req[s])
  BY <1>1, RowsOf DEF Got, Score
<1>4. Score(b, r) <= clock /\ Got(b, s) <= Score(b, s) + MaxDelay
  BY <1>1, <1>3 DEF RowSane, Got, Score
<1>5. clock < expires[b] /\ Score(b, s) > Cutoff(Score(b, r))
  BY <1>2, <1>3, <1>4 DEF Cutoff
<1> QED BY <1>2, <1>5 DEF Kept

LEMMA RefuseKeepsPromises ==
  ASSUME GateTypeOK, RowsSane, Promises, NEW r \in DOMAIN req, req[r].pc = "sent",
         Refuse(r), UNCHANGED clock
  PROVE  Promises'
<1> DEFINE b == BucketOf(r)
           kept == Kept(b, Score(b, r))
<1>1. b \in Buckets /\ \A c \in Buckets : GateOf(c) \in Gates /\ bucket[c] \subseteq DOMAIN req
  BY RowOf, BucketFinite
<1>2. /\ Full(b, kept) /\ bucket' = [bucket EXCEPT ![b] = kept]
      /\ told' = [told EXCEPT ![b] = ResetAt(Oldest(b, kept))]
      /\ UNCHANGED <<expires, losses, clock>>
  BY DEF Refuse
<1>3. PICK q \in Row :
        /\ Becomes(r, q) /\ q.user = req[r].user /\ q.host = req[r].host
        /\ q.got = req[r].got /\ q.score = req[r].score
  <2>1. EndsWith(r, IF b = Service THEN "capacity" ELSE "rate limit")
    BY DEF Refuse, EndsWith
  <2>2. \E q \in Row : Ends(r, q)
    BY <2>1, Ended
  <2> QED BY <2>2 DEF Ends
<1>4. kept # {} /\ kept \subseteq bucket[b]
  BY <1>1, <1>2, KeptFits
<1>5. PICK o \in kept : Oldest(b, kept) = Score(b, o)
  BY <1>1, <1>4, OldestHeld
<1>6. ASSUME NEW s \in DOMAIN req, Of(b, s), Got(b, s) # 0, clock + MaxDelay < Got(b, s) + Window
      PROVE  s \in kept
  BY <1>6, KeptLongEnough DEF Promises
<1>7. DOMAIN req' = DOMAIN req /\ \A s \in DOMAIN req :
        /\ req'[s].user = req[s].user /\ req'[s].host = req[s].host
        /\ req'[s].got = req[s].got /\ req'[s].score = req[s].score
  BY <1>3 DEF Becomes
<1> HIDE DEF b, kept
<1>8. \A c \in Buckets :
        /\ bucket'[c] = IF c = b THEN kept ELSE bucket[c]
        /\ told'[c] = IF c = b THEN Score(b, o) + Window ELSE told[c]
        /\ expires'[c] = expires[c]
  BY <1>1, <1>2, <1>5 DEF GateTypeOK, ResetAt
<1>9. ASSUME NEW c \in Buckets, NEW s \in DOMAIN req
      PROVE  (Of(c, s)' <=> Of(c, s)) /\ Got(c, s)' = Got(c, s) /\ Score(c, s)' = Score(c, s)
  BY <1>7 DEF Of, Got, Score
<1>10. HeldAreGiven'
  <2> SUFFICES ASSUME NEW c \in Buckets, NEW s \in bucket'[c]
               PROVE  Of(c, s)' /\ Got(c, s)' # 0
    BY DEF HeldAreGiven
  <2>1. s \in bucket[c] /\ s \in DOMAIN req
    BY <1>1, <1>4, <1>8
  <2> QED BY <1>9, <2>1 DEF HeldAreGiven, Promises
<1>11. GivenAreHeld'
  <2> SUFFICES ASSUME NEW c \in Buckets, NEW s \in DOMAIN req,
                      Of(c, s), Got(c, s) # 0, clock + MaxDelay < Got(c, s) + Window
               PROVE  s \in bucket'[c] /\ Got(c, s) + Window <= expires[c]
    BY <1>2, <1>7, <1>9 DEF GivenAreHeld
  <2>1. s \in bucket[c] /\ Got(c, s) + Window <= expires[c]
    BY DEF GivenAreHeld, Promises
  <2> QED BY <1>6, <1>8, <2>1
<1>12. ToldIsHeld'
  <2> SUFFICES ASSUME NEW c \in Buckets, told'[c] # 0
               PROVE  \E s \in bucket'[c] : Score(c, s)' + Window = told'[c]
    BY DEF ToldIsHeld
  <2>1. CASE c = b
    BY <1>1, <1>4, <1>5, <1>8, <1>9, <2>1
  <2>2. CASE c # b
    <3>1. PICK s \in bucket[c] : Score(c, s) + Window = told[c]
      BY <1>8, <2>2 DEF ToldIsHeld, Promises
    <3> QED BY <1>1, <1>8, <1>9, <2>2, <3>1
  <2> QED BY <2>1, <2>2
<1>13. WithinLimit'
  <2> SUFFICES ASSUME NEW c \in Buckets, NEW t \in 1..clock
               PROVE  Cardinality(Slots(c, t, t + Window - MaxDelay - 1)') <= LimitOf(c)
    BY <1>2 DEF WithinLimit
  <2>1. ASSUME NEW from, NEW to PROVE Slots(c, from, to)' = Slots(c, from, to)
    BY <1>7, <1>9 DEF Slots, Got
  <2>2. Slots(c, t, t + Window - MaxDelay - 1)' = Slots(c, t, t + Window - MaxDelay - 1)
    BY <2>1
  <2> QED BY <2>2 DEF WithinLimit, Promises
<1> QED BY <1>10, <1>11, <1>12, <1>13 DEF Promises

LEMMA SlotsFinite ==
  ASSUME GateTypeOK, NEW b, NEW from, NEW to
  PROVE  IsFiniteSet(Slots(b, from, to)) /\ Slots(b, from, to) \subseteq DOMAIN req
<1>1. IsFiniteSet(DOMAIN req)
  <2>1. DOMAIN req = 1..Len(req) /\ Len(req) \in Nat
    BY DEF GateTypeOK
  <2> QED BY <2>1, FS_Interval
<1>2. Slots(b, from, to) \subseteq DOMAIN req
  BY DEF Slots
<1> QED BY <1>1, <1>2, FS_Subset

LEMMA GrantKeepsPromises ==
  ASSUME GateTypeOK, RowsSane, Promises, NEW r \in DOMAIN req, req[r].pc = "sent",
         Grant(r) \/ GrantUnheard(r), UNCHANGED clock
  PROVE  Promises'
<1> DEFINE b == BucketOf(r)
           kept == Kept(b, Score(b, r))
<1>1. /\ b \in Buckets /\ \A c \in Buckets : GateOf(c) \in Gates /\ bucket[c] \subseteq DOMAIN req
      /\ GateOf(b) = req[r].gate
  BY RowOf, BucketFinite, GateOfBucketOf
<1>2. /\ ~Full(b, kept) /\ bucket' = [bucket EXCEPT ![b] = kept \cup {r}]
      /\ expires' = [expires EXCEPT ![b] = clock + Window]
      /\ told' = [told EXCEPT ![b] = 0]
  BY DEF Grant, GrantUnheard, Given
<1>3. PICK q \in Row :
        /\ Becomes(r, q) /\ q.score = req[r].score
        /\ q.user = req[r].user /\ q.host = req[r].host
        /\ q.got[req[r].gate] = clock
        /\ \A g \in Gates : g # req[r].gate => q.got[g] = req[r].got[g]
  BY Granted
<1>4. /\ kept \subseteq bucket[b] /\ Cardinality(kept \cup {r}) <= LimitOf(b)
      /\ IsFiniteSet(kept \cup {r})
  <2>1. kept \subseteq bucket[b] /\ Cardinality(kept \cup {r}) <= LimitOf(b)
    BY <1>1, <1>2, KeptFits
  <2>2. kept \cup {r} \subseteq DOMAIN req /\ IsFiniteSet(DOMAIN req)
    BY <1>1, <2>1, BucketFinite
  <2> QED BY <2>1, <2>2, FS_Subset
<1>5. ASSUME NEW s \in DOMAIN req, Of(b, s), Got(b, s) # 0, clock + MaxDelay < Got(b, s) + Window
      PROVE  s \in kept
  BY <1>5, KeptLongEnough DEF Promises
<1>6. clock \in Nat /\ clock # 0 /\ UNCHANGED clock /\ DOMAIN req' = DOMAIN req
  BY <1>3 DEF GateTypeOK, Becomes
<1>7. ASSUME NEW c \in Buckets, NEW s \in DOMAIN req
      PROVE  /\ Of(c, s)' <=> Of(c, s)
             /\ Score(c, s)' = Score(c, s)
             /\ Got(c, s)' = IF s = r /\ GateOf(c) = GateOf(b) THEN clock ELSE Got(c, s)
  BY <1>1, <1>3 DEF Becomes, Of, Score, Got
<1>8. ASSUME NEW c \in Buckets, NEW s \in DOMAIN req
      PROVE  Got(c, s) \in Nat /\ Got(c, s) <= clock
  BY <1>1, RowsOf DEF RowSane, Got
<1>9. \A c \in Buckets : GateOf(c) = GateOf(b) => (Of(c, r) <=> c = b)
  BY <1>1, OfBucketOf
<1> HIDE DEF b, kept
<1>10. \A c \in Buckets :
         /\ bucket'[c] = IF c = b THEN kept \cup {r} ELSE bucket[c]
         /\ told'[c] = IF c = b THEN 0 ELSE told[c]
         /\ expires'[c] = IF c = b THEN clock + Window ELSE expires[c]
  BY <1>1, <1>2 DEF GateTypeOK
<1>11. HeldAreGiven'
  <2> SUFFICES ASSUME NEW c \in Buckets, NEW s \in bucket'[c]
               PROVE  Of(c, s)' /\ Got(c, s)' # 0
    BY DEF HeldAreGiven
  <2>1. CASE c = b /\ s = r
    BY <1>1, <1>6, <1>7, <1>9, <2>1
  <2>2. CASE ~(c = b /\ s = r)
    <3>1. s \in bucket[c] /\ s \in DOMAIN req
      BY <1>1, <1>4, <1>10, <2>2
    <3>2. Of(c, s) /\ Got(c, s) # 0
      BY <3>1 DEF HeldAreGiven, Promises
    <3> QED BY <1>6, <1>7, <3>1, <3>2
  <2> QED BY <2>1, <2>2
<1>12. GivenAreHeld'
  <2> SUFFICES ASSUME NEW c \in Buckets, NEW s \in DOMAIN req,
                      Of(c, s), Got(c, s)' # 0, clock + MaxDelay < Got(c, s)' + Window
               PROVE  s \in bucket'[c] /\ Got(c, s)' + Window <= expires'[c]
    BY <1>6, <1>7 DEF GivenAreHeld
  <2>1. CASE s = r /\ GateOf(c) = GateOf(b)
    <3>1. c = b /\ Got(c, s)' = clock
      BY <1>7, <1>9, <2>1
    <3> QED BY <1>1, <1>6, <1>10, <2>1, <3>1
  <2>2. CASE ~(s = r /\ GateOf(c) = GateOf(b))
    <3>1. Got(c, s)' = Got(c, s)
      BY <1>7, <2>2
    <3>2. CASE c = b
      <4>1. s \in kept
        BY <1>5, <3>1, <3>2
      <4> QED BY <1>6, <1>8, <1>10, <3>1, <3>2, <4>1
    <3>3. CASE c # b
      BY <1>10, <3>1, <3>3 DEF GivenAreHeld, Promises
    <3> QED BY <3>2, <3>3
  <2> QED BY <2>1, <2>2
<1>13. ToldIsHeld'
  <2> SUFFICES ASSUME NEW c \in Buckets, told'[c] # 0
               PROVE  \E s \in bucket'[c] : Score(c, s)' + Window = told'[c]
    BY DEF ToldIsHeld
  <2>1. c # b /\ told'[c] = told[c] /\ bucket'[c] = bucket[c]
    BY <1>10
  <2>2. PICK s \in bucket[c] : Score(c, s) + Window = told[c]
    BY <2>1 DEF ToldIsHeld, Promises
  <2> QED BY <1>1, <1>7, <2>1, <2>2
<1>14. WithinLimit'
  <2> SUFFICES ASSUME NEW c \in Buckets, NEW t \in 1..clock
               PROVE  Cardinality(Slots(c, t, t + Window - MaxDelay - 1)') <= LimitOf(c)
    BY <1>6 DEF WithinLimit
  <2> DEFINE to == t + Window - MaxDelay - 1
             before == Slots(c, t, to)
             after == {s \in DOMAIN req : Of(c, s) /\ Got(c, s)' # 0 /\ Got(c, s)' \in t..to}
  <2>1. Slots(c, t, to)' = after
    BY <1>6, <1>7 DEF Slots, Got
  <2>2. /\ IsFiniteSet(before) /\ Cardinality(before) \in Nat
        /\ Cardinality(before) <= LimitOf(c)
    BY SlotsFinite, FS_CardinalityType DEF WithinLimit, Promises
  <2>3. \A s \in before : s \in DOMAIN req /\ Of(c, s) /\ Got(c, s) # 0 /\ Got(c, s) \in t..to
    BY DEF Slots, Got
  <2>4. \A s \in DOMAIN req : Of(c, s) /\ Got(c, s) # 0 /\ Got(c, s) \in t..to => s \in before
    BY DEF Slots, Got
  <2>5. to \in Int /\ t \in Nat
    BY <1>6
  <2>6. Cardinality(after) <= LimitOf(c)
    <3>1. CASE c = b /\ clock <= to
      <4>1. ASSUME NEW s \in after, s # r PROVE s \in kept
        <5>1. s \in DOMAIN req /\ Of(b, s) /\ Got(b, s) # 0 /\ Got(b, s) \in t..to
          BY <1>7, <3>1, <4>1
        <5>2. clock + MaxDelay < Got(b, s) + Window
          BY <1>6, <1>8, <3>1, <5>1
        <5> QED BY <1>5, <5>1, <5>2
      <4>2. after \subseteq kept \cup {r}
        BY <4>1
      <4> HIDE DEF after
      <4>3. Cardinality(after) <= Cardinality(kept \cup {r})
        BY <1>4, <4>2, FS_Subset
      <4>4. Cardinality(after) \in Nat /\ Cardinality(kept \cup {r}) \in Nat
        BY <1>4, <4>2, FS_Subset, FS_CardinalityType
      <4> QED BY <1>4, <3>1, <4>3, <4>4, LimitPositive
    <3>2. CASE ~(c = b /\ clock <= to)
      <4>1. ASSUME NEW s \in after PROVE s \in before
        <5>1. s \in DOMAIN req /\ Of(c, s) /\ Got(c, s)' # 0 /\ Got(c, s)' \in t..to
          OBVIOUS
        <5>2. ~(s = r /\ GateOf(c) = GateOf(b))
          BY <1>6, <1>7, <1>9, <2>5, <3>2, <5>1
        <5>3. Got(c, s)' = Got(c, s)
          BY <1>7, <5>1, <5>2
        <5> QED BY <2>4, <5>1, <5>3
      <4>2. after \subseteq before
        BY <4>1
      <4> HIDE DEF after, before
      <4>3. Cardinality(after) <= Cardinality(before) /\ Cardinality(after) \in Nat
        BY <2>2, <4>2, FS_Subset, FS_CardinalityType
      <4> QED BY <2>2, <4>3, LimitPositive
    <3> QED BY <3>1, <3>2
  <2> QED BY <2>1, <2>6
<1> QED BY <1>11, <1>12, <1>13, <1>14 DEF Promises

LEMMA TickKeepsPromises ==
  ASSUME GateTypeOK, RowsSane, Promises, Tick
  PROVE  Promises'
<1>1. UNCHANGED <<req, bucket, expires, told>> /\ clock' = clock + 1 /\ clock \in Nat
  BY DEF Tick, GateTypeOK
<1>2. ASSUME NEW b \in Buckets, NEW r \in DOMAIN req
      PROVE  Got(b, r) \in Nat /\ Got(b, r) <= clock
  <2>1. GateOf(b) \in Gates
    BY DEF GateOf, Gates
  <2> QED BY <2>1, RowsOf DEF RowSane, Got
<1>3. HeldAreGiven' /\ ToldIsHeld'
  BY <1>1 DEF HeldAreGiven, ToldIsHeld, Promises, Of, Got, Score
<1>4. GivenAreHeld'
  <2> SUFFICES ASSUME NEW b \in Buckets, NEW r \in DOMAIN req,
                      Of(b, r), Got(b, r) # 0, clock + 1 + MaxDelay < Got(b, r) + Window
               PROVE  r \in bucket[b] /\ Got(b, r) + Window <= expires[b]
    BY <1>1 DEF GivenAreHeld, Of, Got
  <2>1. clock + MaxDelay < Got(b, r) + Window
    BY <1>1, <1>2
  <2> QED BY <2>1 DEF GivenAreHeld, Promises
<1>5. WithinLimit'
  <2> SUFFICES ASSUME NEW b \in Buckets, NEW t \in 1..(clock + 1)
               PROVE  Cardinality(Slots(b, t, t + Window - MaxDelay - 1)) <= LimitOf(b)
    BY <1>1 DEF WithinLimit, Slots, Of
  <2>1. CASE t <= clock
    BY <1>1, <2>1 DEF WithinLimit, Promises
  <2>2. CASE t = clock + 1
    <3>1. Slots(b, t, t + Window - MaxDelay - 1) = {}
      BY <1>1, <1>2, <2>2 DEF Slots, Got
    <3> QED BY <3>1, FS_EmptySet, LimitPositive
  <2> QED BY <1>1, <2>1, <2>2
<1> QED BY <1>3, <1>4, <1>5 DEF Promises

-------------------------------------------------------------------------------
(* The theorems *)

LEMMA GateInvInit == Init => GateInv
<1> SUFFICES ASSUME Init PROVE GateInv
  OBVIOUS
<1>1. GateTypeOK
  BY GateInitTyped
<1>2. RowsSane /\ HeldAreGiven /\ GivenAreHeld /\ ToldIsHeld
  BY DEF Init, RowsSane, HeldAreGiven, GivenAreHeld, ToldIsHeld
<1>3. WithinLimit
  <2>1. \A b, from, to : Slots(b, from, to) = {}
    BY DEF Init, Slots
  <2> QED BY <2>1, FS_EmptySet, LimitPositive DEF WithinLimit
<1> QED BY <1>1, <1>2, <1>3 DEF GateInv

LEMMA GateInvStep == GateInv /\ [Next]_vars => GateInv'
<1> SUFFICES ASSUME GateInv, [Next]_vars PROVE GateInv'
  OBVIOUS
<1> USE DEF GateInv
<1>1. GateTypeOK'
  BY GateStepTyped
<1>2. Promises
  BY DEF Promises
<1> SUFFICES RowsSane' /\ Promises'
  BY <1>1 DEF Promises
<1>3. ASSUME NEW h \in Hosts, NEW cookie \in Token \cup {NoToken},
             NEW bearer \in Token \cup {NoToken}, Arrive(h, cookie, bearer)
      PROVE  RowsSane' /\ Promises'
  BY <1>2, <1>3, ArriveSane, ArriveQuiet, QuietKeepsPromises
<1>4. ASSUME NEW r \in DOMAIN req, Stamp(r) PROVE RowsSane' /\ Promises'
  BY <1>2, <1>4, StampSane, StampQuiet, QuietKeepsPromises
<1>5. ASSUME NEW r \in DOMAIN req, Check(r), Refuse(r) PROVE RowsSane' /\ Promises'
  <2>1. req[r].pc = "sent" /\ UNCHANGED clock
    BY <1>5 DEF Check
  <2>2. EndsWith(r, IF BucketOf(r) = Service THEN "capacity" ELSE "rate limit")
    BY <1>5 DEF Refuse, EndsWith
  <2>3. RowsSane'
    BY <2>1, <2>2, Ended, EndedSane
  <2> QED BY <1>2, <1>5, <2>1, <2>3, RefuseKeepsPromises
<1>6. ASSUME NEW r \in DOMAIN req, Check(r), Grant(r) \/ GrantUnheard(r)
      PROVE  RowsSane' /\ Promises'
  <2>1. req[r].pc = "sent" /\ UNCHANGED clock
    BY <1>6 DEF Check
  <2> QED BY <1>2, <1>6, <2>1, GrantSane, GrantKeepsPromises
<1>7. ASSUME NEW r \in DOMAIN req, LimiterFails(r) \/ Handle(r) PROVE RowsSane' /\ Promises'
  <2>1. UNCHANGED clock
    BY <1>7 DEF LimiterFails, Handle
  <2> QED BY <1>2, <1>7, <2>1, EndQuiet, EndedSane, QuietKeepsPromises
<1>8. CASE Tick
  BY <1>2, <1>8, TickSane, TickKeepsPromises
<1>9. CASE UNCHANGED vars
  <2>1. RowsSane'
    BY <1>9 DEF vars, RowsSane, RowSane
  <2>2. Quiet
    BY <1>9 DEF vars, Quiet
  <2> QED BY <1>2, <2>1, <2>2, QuietKeepsPromises
<1> QED BY <1>3, <1>4, <1>5, <1>6, <1>7, <1>8, <1>9 DEF Next, Check

\* Whatever the bounds, no caller and not the service gets more slots than its
\* limit in a window less the delay, by the clock of Redis: late, reordered and
\* repeated scripts included (SLIDING_WINDOW_LUA).
THEOREM LimitsHold == Spec => []WithinLimit
<1>1. GateInv => WithinLimit
  BY DEF GateInv
<1> QED BY GateInvInit, GateInvStep, <1>1, PTL DEF Spec

\* The step that refuses a request is the script's at the bucket of its gate.
LEMMA RefusedBy ==
  ASSUME GateTypeOK, [Next]_vars, NEW r \in DOMAIN req,
         req'[r].answer # req[r].answer, req'[r].answer \in {"rate limit", "capacity"}
  PROVE  /\ req[r].pc = "sent" /\ Refuse(r) /\ UNCHANGED clock
         /\ BucketOf(r) = IF req'[r].answer = "capacity" THEN Service ELSE req[r].who
<1>1. ASSUME NEW h \in Hosts, NEW cookie \in Token \cup {NoToken},
             NEW bearer \in Token \cup {NoToken}, Arrive(h, cookie, bearer)
      PROVE  FALSE
  <2>1. req'[r] = req[r]
    BY <1>1, Arrived
  <2> QED BY <2>1
<1>2. ASSUME NEW s \in DOMAIN req, Stamp(s) PROVE FALSE
  <2>1. req'[r].answer = req[r].answer
    BY <1>2, Stamped DEF Becomes
  <2> QED BY <2>1
<1>3. ASSUME NEW s \in DOMAIN req, req[s].pc = "sent", Grant(s) \/ GrantUnheard(s) PROVE FALSE
  <2>1. req'[r].answer = req[r].answer
    BY <1>3, Granted DEF Becomes
  <2> QED BY <2>1
<1>4. ASSUME NEW s \in DOMAIN req, LimiterFails(s) \/ Handle(s) PROVE FALSE
  <2>1. req'[r] = req[r] \/ req'[r].answer \in {"no limiter", "unauthenticated", "ok"}
    BY <1>4, EndQuiet DEF Ends, Becomes
  <2> QED BY <2>1
<1>5. ~Tick /\ ~UNCHANGED vars
  BY DEF Tick, vars
<1>6. PICK s \in DOMAIN req : Check(s) /\ Refuse(s)
  BY <1>1, <1>2, <1>3, <1>4, <1>5 DEF Next, Check
<1>7. EndsWith(s, IF BucketOf(s) = Service THEN "capacity" ELSE "rate limit")
  BY <1>6 DEF Refuse, EndsWith
<1>8. s = r /\ req'[r].answer = IF BucketOf(r) = Service THEN "capacity" ELSE "rate limit"
  <2> DEFINE a == IF BucketOf(s) = Service THEN "capacity" ELSE "rate limit"
  <2> HIDE DEF a
  <2>1. EndsWith(s, a)
    BY <1>7 DEF a
  <2>2. PICK q \in Row : Ends(s, q) /\ q.answer = a
    BY <2>1, Ended
  <2>3. s = r
    BY <2>2 DEF Ends, Becomes
  <2>4. req'[r].answer = a
    BY <2>2, <2>3 DEF Ends, Becomes
  <2> QED BY <2>3, <2>4 DEF a
<1>9. BucketOf(r) = Service \/ BucketOf(r) = req[r].who
  BY DEF BucketOf
<1> QED BY <1>6, <1>8, <1>9 DEF Check

\* No request is turned away for slots older than the window and the delay, nor
\* for those of another caller (rate_limiter.py:20-24).
THEOREM RefusalsAreEarned == Spec => NoFalseRefusal
<1>1. ASSUME GateInv, [Next]_vars, NEW r \in DOMAIN req,
             req'[r].answer # req[r].answer, req'[r].answer \in {"rate limit", "capacity"}
      PROVE  LET b == IF req'[r].answer = "capacity" THEN Service ELSE req[r].who
             IN Cardinality({s \in DOMAIN req :
                    Of(b, s) /\ req[s].got[GateOf(b)] + Window + MaxDelay > clock
                    /\ req[s].got[GateOf(b)] # 0}) >= LimitOf(b)
  <2> DEFINE b == BucketOf(r)
             kept == Kept(b, Score(b, r))
             recent == {s \in DOMAIN req :
                          Of(b, s) /\ req[s].got[GateOf(b)] + Window + MaxDelay > clock
                          /\ req[s].got[GateOf(b)] # 0}
  <2>1. /\ req[r].pc = "sent" /\ Refuse(r)
        /\ b = IF req'[r].answer = "capacity" THEN Service ELSE req[r].who
    BY <1>1, RefusedBy DEF GateInv
  <2>2. GateTypeOK /\ RowsSane /\ HeldAreGiven
    BY <1>1 DEF GateInv
  <2>3. /\ b \in Buckets /\ GateOf(b) \in Gates /\ GateOf(b) = req[r].gate
        /\ bucket[b] \subseteq DOMAIN req /\ IsFiniteSet(DOMAIN req)
    BY <2>2, RowOf, BucketFinite, GateOfBucketOf
  <2>4. ASSUME NEW s \in kept PROVE s \in recent
    <3>1. s \in bucket[b] /\ Score(b, s) > Score(b, r) - Window /\ s \in DOMAIN req
      BY <2>3 DEF Kept, Cutoff
    <3>2. Of(b, s) /\ Got(b, s) # 0
      BY <2>2, <2>3, <3>1 DEF HeldAreGiven
    <3>3. /\ RowSane(req[s]) /\ RowSane(req[r]) /\ clock \in Nat
          /\ Got(b, s) \in Nat /\ Score(b, s) \in Nat /\ Score(b, r) \in Nat
      BY <2>2, <2>3, <3>1, RowsOf DEF Got, Score
    <3>4. Score(b, s) <= Got(b, s) /\ clock <= Score(b, r) + MaxDelay
      BY <2>1, <2>3, <3>2, <3>3 DEF RowSane, Got, Score
    <3>5. Got(b, s) + Window + MaxDelay > clock
      BY <3>1, <3>3, <3>4
    <3> QED BY <3>1, <3>2, <3>5 DEF Got
  <2>5. IsFiniteSet(recent)
    BY <2>3, FS_Subset
  <2>6. kept \subseteq recent
    BY <2>4
  <2>7. Cardinality(kept) >= LimitOf(b)
    BY <2>1 DEF Refuse, Full
  <2> HIDE DEF kept, recent, b
  <2>8. Cardinality(kept) <= Cardinality(recent) /\ Cardinality(kept) \in Nat /\ Cardinality(recent) \in Nat
    BY <2>5, <2>6, FS_Subset, FS_CardinalityType
  <2>9. Cardinality(recent) >= LimitOf(b)
    BY <2>7, <2>8, LimitPositive
  <2> QED BY <2>1, <2>9 DEF recent
<1>2. GateInv /\ [Next]_vars =>
        \A r \in DOMAIN req :
          (req'[r].answer # req[r].answer /\ req'[r].answer \in {"rate limit", "capacity"})
          => LET b == IF req'[r].answer = "capacity" THEN Service ELSE req[r].who
             IN Cardinality({s \in DOMAIN req :
                    Of(b, s) /\ req[s].got[GateOf(b)] + Window + MaxDelay > clock
                    /\ req[s].got[GateOf(b)] # 0}) >= LimitOf(b)
  BY <1>1
<1> QED BY GateInvInit, GateInvStep, <1>2, PTL DEF Spec, NoFalseRefusal

\* A caller that comes back at the told reset, before anyone else got a slot of
\* that limit, is not refused again (rate_limit.py:30-39, 48-57).
THEOREM RetriesAreHonoured == Spec => RetryHonoured
<1>1. ASSUME GateInv, [Next]_vars, NEW r \in DOMAIN req,
             req'[r].answer # req[r].answer, req'[r].answer \in {"rate limit", "capacity"}
      PROVE  LET b == IF req'[r].answer = "capacity" THEN Service ELSE req[r].who
             IN told[b] = 0 \/ Score(b, r) < told[b]
  <2> DEFINE b == BucketOf(r)
             kept == Kept(b, Score(b, r))
  <2>1. /\ req[r].pc = "sent" /\ Refuse(r)
        /\ b = IF req'[r].answer = "capacity" THEN Service ELSE req[r].who
    BY <1>1, RefusedBy DEF GateInv
  <2>2. GateTypeOK /\ ToldIsHeld /\ b \in Buckets
    BY <1>1, RowOf DEF GateInv
  <2>3. ASSUME told[b] # 0, ~(Score(b, r) < told[b]) PROVE FALSE
    <3>1. PICK o \in bucket[b] : Score(b, o) + Window = told[b]
      BY <2>2, <2>3 DEF ToldIsHeld
    <3>2. Score(b, o) \in Nat /\ Score(b, r) \in Nat
      BY <2>2, RowOf, BucketFinite DEF Times
    <3>3. ~(Score(b, o) > Cutoff(Score(b, r)))
      BY <2>3, <3>1, <3>2 DEF Cutoff
    <3>4. o \in bucket[b] \ kept
      BY <3>3 DEF Kept
    <3>5. Cardinality(kept) < LimitOf(b) /\ Cardinality(kept) \in Nat
      BY <2>2, <3>4, KeptFits
    <3>6. Cardinality(kept) >= LimitOf(b)
      BY <2>1 DEF Refuse, Full
    <3> QED BY <3>5, <3>6, LimitPositive
  <2> QED BY <2>1, <2>3
<1>2. GateInv /\ [Next]_vars =>
        \A r \in DOMAIN req :
          (req'[r].answer # req[r].answer /\ req'[r].answer \in {"rate limit", "capacity"})
          => LET b == IF req'[r].answer = "capacity" THEN Service ELSE req[r].who
             IN told[b] = 0 \/ Score(b, r) < told[b]
  BY <1>1
<1> QED BY GateInvInit, GateInvStep, <1>2, PTL DEF Spec, RetryHonoured

-------------------------------------------------------------------------------
(* Registration: what a state of the requests and of auth_users is like      *)

HIDE GateAssumption
USE RegistrationAssumption

\* A row is written by the registration that names it as its user, and goes with
\* that request: open until its transaction ends, granted before it can commit.
RowsOfCallers ==
  \A i \in DOMAIN account : LET r == account[i].by IN
    /\ r \in DOMAIN caller /\ caller[r].op = "register" /\ caller[r].user = i
    /\ account[i].address = caller[r].address /\ account[i].password = caller[r].password
    /\ account[i].state = "open" => caller[r].pc \in {"grant", "sign", "commit"}
    /\ account[i].state = "stored" => /\ caller[r].pc = "done" /\ caller[r].answer = "ok"
                                      /\ account[i].grants = 1
    /\ account[i].state = "gone" => caller[r].pc = "done"
    /\ caller[r].pc = "grant" => account[i].grants = 0
    /\ caller[r].pc \in {"sign", "commit"} => account[i].grants = 1

\* Where a request stands, what it has answered and whom it has found.
InStep(r) ==
  /\ caller[r].answer = "none" <=> caller[r].pc \notin {"commit", "done"}
  /\ caller[r].pc = "commit" => caller[r].answer = "ok"
  /\ caller[r].pc \in {"look", "insert", "show"} => caller[r].user = NoId
  /\ caller[r].pc \in {"insert", "grant", "sign"} => caller[r].op = "register"
  /\ caller[r].pc \in {"grant", "sign"} =>
       caller[r].user \in DOMAIN account /\ account[caller[r].user].by = r
  /\ caller[r].pc = "show" =>
       /\ caller[r].op = "login" /\ caller[r].token \in Stored
       /\ Own(caller[r].token, r)
  /\ caller[r].answer = "ok" =>
       /\ caller[r].token \in DOMAIN account
       /\ caller[r].op = "login" => caller[r].token \in Stored
  /\ caller[r].knew \subseteq Stored

CallersInStep == \A r \in DOMAIN caller : InStep(r)

\* The unique index holds between rows that are not yet committed, too.
AddressesDiffer ==
  \A i, j \in DOMAIN account :
    /\ i # j /\ account[i].state \in {"open", "stored"} /\ account[j].state \in {"open", "stored"}
    => account[i].address # account[j].address

\* What TwinsOverlapped says, from the moment the second lookup has passed.
TwinsUnknown ==
  \A i \in Stored, j \in DOMAIN account :
    /\ i # j /\ SameMailbox(account[i], account[j]) /\ account[j].state \in {"open", "stored"}
    /\ caller[account[j].by].pc \in {"commit", "done"}
    => i \notin caller[account[j].by].knew

RegistrationInv ==
  /\ RegistrationTypeOK /\ RowsOfCallers /\ CallersInStep /\ AddressesDiffer
  /\ TwinsUnknown /\ SignedInAsSelf /\ RefusedForCause

-------------------------------------------------------------------------------
(* What a step changes *)

LEMMA CallerOf ==
  ASSUME RegistrationTypeOK
  PROVE  /\ DOMAIN caller = 1..Len(caller) /\ Len(caller) \in Nat /\ DOMAIN caller \subseteq Ids
         /\ DOMAIN account = 1..Len(account) /\ Len(account) \in Nat /\ DOMAIN account \subseteq Ids
         /\ \A r \in DOMAIN caller : caller[r] \in Caller
         /\ \A i \in DOMAIN account : account[i] \in Account
         /\ Stored \subseteq DOMAIN account
  BY DEF RegistrationTypeOK, Ids, Stored

\* A request changes its own row of caller.
LEMMA CallerChanges ==
  ASSUME RegistrationTypeOK, NEW r \in DOMAIN caller, NEW c \in Caller,
         caller' = [caller EXCEPT ![r] = c]
  PROVE  /\ caller' \in Seq(Caller) /\ Len(caller') = Len(caller) /\ DOMAIN caller' = DOMAIN caller
         /\ caller'[r] = c
         /\ \A q \in DOMAIN caller : q # r => caller'[q] = caller[q]
  BY DEF RegistrationTypeOK

\* The end of a transaction decides its open rows and touches nothing else.
LEMMA SettledRows ==
  ASSUME RegistrationTypeOK, NEW r \in DOMAIN caller, NEW state \in {"gone", "stored"},
         account' = Settled(r, state)
  PROVE  /\ account' \in Seq(Account) /\ Len(account') = Len(account)
         /\ DOMAIN account' = DOMAIN account
         /\ \A i \in DOMAIN account :
              /\ account'[i].address = account[i].address
              /\ account'[i].password = account[i].password
              /\ account'[i].by = account[i].by /\ account'[i].grants = account[i].grants
              /\ account'[i].state = IF account[i].state = "open" /\ account[i].by = r
                                       THEN state ELSE account[i].state
<1>1. DOMAIN account = 1..Len(account) /\ Len(account) \in Nat
  BY DEF RegistrationTypeOK
<1>2. \A i \in DOMAIN account : account[i] \in Account
  BY DEF RegistrationTypeOK
<1>3. DOMAIN account' = 1..Len(account)
  BY <1>1 DEF Settled
<1>4. ASSUME NEW i \in DOMAIN account
      PROVE  /\ account'[i].address = account[i].address
             /\ account'[i].password = account[i].password
             /\ account'[i].by = account[i].by /\ account'[i].grants = account[i].grants
             /\ account'[i].state = IF account[i].state = "open" /\ account[i].by = r
                                      THEN state ELSE account[i].state
             /\ account'[i] \in Account
  BY <1>2, <1>4 DEF Settled, Account
<1>5. account' = [i \in 1..Len(account) |-> account'[i]]
  BY <1>1 DEF Settled
<1>6. account' \in Seq(Account) /\ Len(account') = Len(account)
  BY <1>1, <1>3, <1>4, <1>5
<1> QED BY <1>1, <1>3, <1>4, <1>6

\* Every row has a caller of its own, and a registration about to insert has none.
LEMMA RoomForRow ==
  ASSUME RegistrationInv, NEW r \in DOMAIN caller, caller[r].pc = "insert"
  PROVE  Len(account) < Len(caller)
<1> DEFINE f == [i \in DOMAIN account |-> account[i].by]
<1>1. /\ DOMAIN caller = 1..Len(caller) /\ Len(caller) \in Nat
      /\ DOMAIN account = 1..Len(account) /\ Len(account) \in Nat
  BY CallerOf DEF RegistrationInv
<1>2. \A i \in DOMAIN account : /\ account[i].by \in DOMAIN caller
                                /\ caller[account[i].by].user = i /\ account[i].by # r
  <2>1. NoId \notin DOMAIN account
    BY <1>1 DEF NoId
  <2> QED BY <2>1 DEF RegistrationInv, RowsOfCallers, CallersInStep, InStep
<1>3. f \in Injection(DOMAIN account, DOMAIN caller \ {r})
  <2>1. f \in [DOMAIN account -> DOMAIN caller \ {r}]
    BY <1>2
  <2>2. \A i, j \in DOMAIN f : f[i] = f[j] => i = j
    BY <1>2
  <2> HIDE DEF f
  <2>3. IsInjective(f)
    BY <2>2 DEF IsInjective
  <2> QED BY <2>1, <2>3 DEF Injection
<1>4. /\ IsFiniteSet(DOMAIN account) /\ Cardinality(DOMAIN account) = Len(account)
      /\ IsFiniteSet(DOMAIN caller) /\ Cardinality(DOMAIN caller) = Len(caller)
  <2>1. ASSUME NEW n \in Nat PROVE IsFiniteSet(1..n) /\ Cardinality(1..n) = n
    <3>1. 1 \in Int /\ n \in Int
      OBVIOUS
    <3>2. Cardinality(1..n) = IF 1 > n THEN 0 ELSE n - 1 + 1
      BY <3>1, FS_Interval
    <3> QED BY <3>1, <3>2, FS_Interval
  <2> QED BY <1>1, <2>1
<1>5. /\ IsFiniteSet(DOMAIN caller \ {r})
      /\ Cardinality(DOMAIN caller \ {r}) = Len(caller) - 1
  <2> HIDE DEF f
  <2>1. ASSUME NEW S, IsFiniteSet(S), NEW x \in S
        PROVE  IsFiniteSet(S \ {x}) /\ Cardinality(S \ {x}) = Cardinality(S) - 1
    BY <2>1, FS_RemoveElement
  <2>2. r \in DOMAIN caller
    OBVIOUS
  <2>3. /\ IsFiniteSet(DOMAIN caller \ {r})
        /\ Cardinality(DOMAIN caller \ {r}) = Cardinality(DOMAIN caller) - 1
    BY <1>4, <2>1, <2>2, Zenon
  <2>4. Cardinality(DOMAIN caller) = Len(caller)
    BY <1>4, Zenon
  <2> QED BY <2>3, <2>4, Zenon
<1>6. Cardinality(DOMAIN account) <= Cardinality(DOMAIN caller \ {r})
  <2> HIDE DEF f
  <2> QED BY <1>3, <1>5, FS_Injection
<1> QED BY <1>1, <1>4, <1>5, <1>6

-------------------------------------------------------------------------------
(* What a lookup finds *)

\* A request without a row of its own sees what is committed.
LEMMA SeesStored ==
  ASSUME RegistrationInv, NEW r \in DOMAIN caller, caller[r].pc \in {"look", "insert", "show"}
  PROVE  Visible(r) = Stored
<1>1. \A i \in DOMAIN account : account[i].by # r
  <2>1. NoId \notin DOMAIN account
    BY CallerOf DEF RegistrationInv, NoId
  <2> QED BY <2>1 DEF RegistrationInv, RowsOfCallers, CallersInStep, InStep
<1> QED BY <1>1 DEF Visible

\* A lookup that does not raise finds one row at most.
LEMMA AtMostOne ==
  ASSUME RegistrationInv, NEW r \in DOMAIN caller, ~Ambiguous(r),
         NEW i \in ByEmail(r), NEW j \in ByEmail(r)
  PROVE  i = j
<1>1. IsFiniteSet(DOMAIN account) /\ ByEmail(r) \in SUBSET (DOMAIN account)
  <2>1. DOMAIN account = 1..Len(account) /\ Len(account) \in Nat
    BY CallerOf DEF RegistrationInv
  <2>2. IsFiniteSet(DOMAIN account)
    BY <2>1, FS_Interval
  <2> QED BY <2>2 DEF ByEmail, Visible, Stored
<1>2. IsFiniteSet(ByEmail(r))
  BY <1>1, FS_Subset
<1>3. {i, j} \in SUBSET ByEmail(r)
  OBVIOUS
<1>4. Cardinality({i, j}) <= Cardinality(ByEmail(r))
  BY <1>2, <1>3, FS_Subset
<1>5. Cardinality(ByEmail(r)) \in Nat /\ Cardinality(ByEmail(r)) <= 1
  BY <1>2, FS_CardinalityType DEF Ambiguous
<1>6. ASSUME i # j PROVE Cardinality({i, j}) = 2
  <2>1. IsFiniteSet({i}) /\ Cardinality({i}) = 1
    BY FS_Singleton
  <2>2. j \notin {i}
    BY <1>6
  <2>4. Cardinality({i} \cup {j}) = Cardinality({i}) + 1
    BY <2>1, <2>2, FS_AddElement
  <2>5. Cardinality({i} \cup {j}) = 2
    BY <2>1, <2>4
  <2>3. {i} \cup {j} = {i, j}
    OBVIOUS
  <2> QED BY <2>3, <2>5
<1> QED BY <1>4, <1>5, <1>6

\* A step leaves what it finds in auth_users, but for the state of its own rows
\* and their grants; a request that it does not touch is where it was.
LEMMA OthersKeep ==
  ASSUME RegistrationInv, NEW q \in DOMAIN caller, q \in DOMAIN caller', caller'[q] = caller[q],
         \A i \in DOMAIN account :
           /\ i \in DOMAIN account' /\ account'[i].address = account[i].address
           /\ account'[i].password = account[i].password /\ account'[i].by = account[i].by,
         Stored \subseteq Stored'
  PROVE  /\ InStep(q)'
         /\ caller'[q].answer = "ok" =>
              caller'[q].token = caller'[q].user /\ Own(caller[q].token, q)'
         /\ caller'[q].answer = "refused" => Cause(q)'
<1>1. InStep(q) /\ Stored \subseteq DOMAIN account
  BY CallerOf DEF RegistrationInv, CallersInStep
<1>2. ASSUME NEW i \in DOMAIN account
      PROVE  SameMailbox(account'[i], caller'[q]) = SameMailbox(account[i], caller[q])
  BY DEF SameMailbox
<1>3. InStep(q)'
  <2>1. caller[q].token \in Stored /\ Own(caller[q].token, q) =>
          caller'[q].token \in Stored' /\ Own(caller[q].token, q)'
    BY <1>1 DEF Own, SameMailbox
  <2> QED BY <1>1, <2>1 DEF InStep
<1>4. caller[q].answer = "ok" =>
        caller[q].token = caller[q].user /\ Own(caller[q].token, q)'
  BY <1>1 DEF RegistrationInv, SignedInAsSelf, InStep, Own, SameMailbox
<1>5. caller[q].answer = "refused" => Cause(q)'
  <2>1. caller[q].answer = "refused" => Cause(q)
    BY DEF RegistrationInv, RefusedForCause
  <2> QED BY <1>1, <1>2, <2>1 DEF Cause, InStep, StrongEnough
<1> QED BY <1>3, <1>4, <1>5

-------------------------------------------------------------------------------
(* A request that fails *)

\* What RefusedForCause asks of a request that is refused now.
HasCause(r) ==
  \/ caller[r].op = "register" /\ ~StrongEnough(r)
  \/ /\ caller[r].op = "register"
     /\ \E i \in Stored : account[i].by # r /\ SameMailbox(account[i], caller[r])
  \/ /\ caller[r].op = "login"
     /\ \A i \in Stored :
          SameMailbox(account[i], caller[r]) => account[i].password # caller[r].password

\* An end without success: the rows of the request go, its answer says so.
LEMMA FailureKeeps ==
  ASSUME RegistrationInv, NEW r \in DOMAIN caller, NEW why \in Failed, NEW knew \in SUBSET Stored,
         caller[r].pc \notin {"commit", "done"}, why = "refused" => HasCause(r) /\ knew = Stored,
         account' = RolledBack(r), deaths' \in 0..DeathBound,
         caller' = [caller EXCEPT ![r].pc = "done", ![r].answer = why, ![r].knew = knew]
  PROVE  RegistrationInv'
<1> DEFINE c == [caller[r] EXCEPT !.pc = "done", !.answer = why, !.knew = knew]
<1>1. /\ DOMAIN caller \subseteq Ids /\ DOMAIN account \subseteq Ids
      /\ \A q \in DOMAIN caller : caller[q] \in Caller
      /\ Stored \subseteq DOMAIN account
  BY CallerOf DEF RegistrationInv
<1>2. /\ c \in Caller /\ c.pc = "done" /\ c.answer = why /\ c.knew = knew
      /\ c.op = caller[r].op /\ c.address = caller[r].address
      /\ c.password = caller[r].password /\ c.token = caller[r].token
      /\ c.user = caller[r].user
  BY <1>1 DEF Caller, Failed
<1>3. caller' = [caller EXCEPT ![r] = c]
  OBVIOUS
<1> HIDE DEF c
<1>4. /\ caller' \in Seq(Caller) /\ Len(caller') = Len(caller) /\ DOMAIN caller' = DOMAIN caller
      /\ caller'[r] = c /\ \A q \in DOMAIN caller : q # r => caller'[q] = caller[q]
  BY <1>2, <1>3, CallerChanges DEF RegistrationInv
<1>5. /\ account' \in Seq(Account) /\ Len(account') = Len(account)
      /\ DOMAIN account' = DOMAIN account
      /\ \A i \in DOMAIN account :
           /\ account'[i].address = account[i].address
           /\ account'[i].password = account[i].password
           /\ account'[i].by = account[i].by /\ account'[i].grants = account[i].grants
           /\ account'[i].state = IF account[i].state = "open" /\ account[i].by = r
                                    THEN "gone" ELSE account[i].state
  BY SettledRows DEF RegistrationInv, RolledBack
<1>6. /\ \A i \in DOMAIN account : account[i].state \in {"open", "stored", "gone"}
      /\ \A q \in DOMAIN caller : caller[q].op \in {"register", "login"}
  BY CallerOf DEF RegistrationInv, Account, Caller
<1>7. Stored' = Stored
  BY <1>5 DEF Stored
<1>8. RegistrationTypeOK'
  BY <1>4, <1>5 DEF RegistrationInv, RegistrationTypeOK
<1>9. RowsOfCallers'
  BY <1>2, <1>4, <1>5, <1>6 DEF RegistrationInv, RowsOfCallers
<1>10. AddressesDiffer'
  BY <1>5, <1>6 DEF RegistrationInv, AddressesDiffer
<1>11. TwinsUnknown'
  <2> SUFFICES ASSUME NEW i \in Stored, NEW j \in DOMAIN account, i # j,
                      SameMailbox(account'[i], account'[j]),
                      account'[j].state \in {"open", "stored"},
                      caller'[account'[j].by].pc \in {"commit", "done"}
               PROVE  i \notin caller'[account'[j].by].knew
    BY <1>5, <1>7 DEF TwinsUnknown
  <2>1. account[j].by # r /\ account[j].state \in {"open", "stored"}
    BY <1>5, <1>6 DEF RegistrationInv, RowsOfCallers
  <2>2. caller'[account'[j].by] = caller[account[j].by]
    BY <1>4, <1>5, <2>1 DEF RegistrationInv, RowsOfCallers
  <2>3. SameMailbox(account[i], account[j])
    BY <1>1, <1>5 DEF SameMailbox
  <2> QED BY <2>1, <2>2, <2>3 DEF RegistrationInv, TwinsUnknown
<1>12. \A q \in DOMAIN caller :
         /\ InStep(q)'
         /\ caller'[q].answer = "ok" =>
              caller'[q].token = caller'[q].user /\ Own(caller[q].token, q)'
         /\ caller'[q].answer = "refused" => Cause(q)'
  <2> TAKE q \in DOMAIN caller
  <2>1. CASE q = r
    <3>1. InStep(q)'
      BY <1>2, <1>4, <1>7, <2>1 DEF InStep, Failed
    <3>2. caller'[q].answer # "ok"
      BY <1>2, <1>4, <2>1 DEF Failed
    <3>3. \A i \in Stored :
            SameMailbox(account'[i], caller'[r]) = SameMailbox(account[i], caller[r])
      BY <1>1, <1>2, <1>4, <1>5 DEF SameMailbox
    <3>4. ASSUME caller'[q].answer = "refused" PROVE Cause(q)'
      <4>1. HasCause(r) /\ caller'[r].knew = Stored
        BY <1>2, <1>4, <2>1, <3>4
      <4>2. /\ caller'[r].op = caller[r].op /\ caller'[r].password = caller[r].password
            /\ \A i \in Stored : /\ account'[i].password = account[i].password
                                 /\ account'[i].by = account[i].by
        BY <1>1, <1>2, <1>4, <1>5
      <4> QED BY <1>7, <2>1, <3>3, <4>1, <4>2 DEF HasCause, Cause, StrongEnough
    <3> QED BY <3>1, <3>2, <3>4
  <2>2. CASE q # r
    BY <1>4, <1>5, <1>7, <2>2, OthersKeep
  <2> QED BY <2>1, <2>2
<1> QED
  BY <1>4, <1>8, <1>9, <1>10, <1>11, <1>12
     DEF RegistrationInv, CallersInStep, SignedInAsSelf, RefusedForCause

-------------------------------------------------------------------------------
(* A request that goes on, and one that ends *)

\* A step that writes no row of auth_users. What it leaves in caller[r] has to
\* fit the rows of r, if it has any.
LEMMA MoveKeeps ==
  ASSUME RegistrationInv, NEW r \in DOMAIN caller, NEW c \in Caller,
         account' = account, deaths' = deaths, caller' = [caller EXCEPT ![r] = c],
         c.op = caller[r].op, c.address = caller[r].address, c.password = caller[r].password,
         \A j \in DOMAIN account : account[j].by = r =>
           /\ c.user = j /\ c.pc = "commit" /\ account[j].state = "open" /\ account[j].grants = 1
           /\ \A i \in Stored : SameMailbox(account[i], account[j]) => i \notin c.knew,
         InStep(r)', c.answer # "refused",
         c.answer = "ok" => c.token = c.user /\ Own(caller[r].token, r)'
  PROVE  RegistrationInv'
<1>1. /\ caller' \in Seq(Caller) /\ Len(caller') = Len(caller) /\ DOMAIN caller' = DOMAIN caller
      /\ caller'[r] = c /\ \A q \in DOMAIN caller : q # r => caller'[q] = caller[q]
  BY CallerChanges DEF RegistrationInv
<1>2. Stored' = Stored
  BY DEF Stored
<1>3. RegistrationTypeOK'
  BY <1>1 DEF RegistrationInv, RegistrationTypeOK
<1>4. RowsOfCallers'
  BY <1>1 DEF RegistrationInv, RowsOfCallers
<1>5. AddressesDiffer'
  BY DEF RegistrationInv, AddressesDiffer
<1>6. TwinsUnknown'
  BY <1>1, <1>2 DEF RegistrationInv, TwinsUnknown, RowsOfCallers
<1>7. \A q \in DOMAIN caller :
        /\ InStep(q)'
        /\ caller'[q].answer = "ok" =>
             caller'[q].token = caller'[q].user /\ Own(caller[q].token, q)'
        /\ caller'[q].answer = "refused" => Cause(q)'
  <2> TAKE q \in DOMAIN caller
  <2>1. CASE q = r
    BY <1>1, <2>1
  <2>2. CASE q # r
    BY <1>1, <1>2, <2>2, OthersKeep
  <2> QED BY <2>1, <2>2
<1> QED
  BY <1>1, <1>3, <1>4, <1>5, <1>6, <1>7
     DEF RegistrationInv, CallersInStep, SignedInAsSelf, RefusedForCause

\* The commit, or the death of a process that has answered: both decide the rows
\* of a request whose second lookup lies behind it.
LEMMA EndKeeps ==
  ASSUME RegistrationInv, NEW r \in DOMAIN caller, NEW state \in {"gone", "stored"},
         caller[r].pc = "commit", account' = Settled(r, state), deaths' \in 0..DeathBound,
         caller' = [caller EXCEPT ![r].pc = "done"]
  PROVE  RegistrationInv'
<1> DEFINE c == [caller[r] EXCEPT !.pc = "done"]
<1>1. /\ DOMAIN caller \subseteq Ids /\ DOMAIN account \subseteq Ids
      /\ \A q \in DOMAIN caller : caller[q] \in Caller
      /\ Stored \subseteq DOMAIN account
  BY CallerOf DEF RegistrationInv
<1>2. /\ c \in Caller /\ c.pc = "done" /\ c.answer = caller[r].answer /\ c.knew = caller[r].knew
      /\ c.op = caller[r].op /\ c.address = caller[r].address
      /\ c.password = caller[r].password /\ c.token = caller[r].token
      /\ c.user = caller[r].user
  BY <1>1 DEF Caller
<1>3. caller' = [caller EXCEPT ![r] = c]
  OBVIOUS
<1> HIDE DEF c
<1>4. /\ caller' \in Seq(Caller) /\ Len(caller') = Len(caller) /\ DOMAIN caller' = DOMAIN caller
      /\ caller'[r] = c /\ \A q \in DOMAIN caller : q # r => caller'[q] = caller[q]
  BY <1>2, <1>3, CallerChanges DEF RegistrationInv
<1>5. /\ account' \in Seq(Account) /\ Len(account') = Len(account)
      /\ DOMAIN account' = DOMAIN account
      /\ \A i \in DOMAIN account :
           /\ account'[i].address = account[i].address
           /\ account'[i].password = account[i].password
           /\ account'[i].by = account[i].by /\ account'[i].grants = account[i].grants
           /\ account'[i].state = IF account[i].state = "open" /\ account[i].by = r
                                    THEN state ELSE account[i].state
  BY SettledRows DEF RegistrationInv
<1>6. InStep(r) /\ caller[r].answer = "ok"
  BY DEF RegistrationInv, CallersInStep, InStep
<1>7. Stored \subseteq Stored'
  BY <1>1, <1>5 DEF Stored
<1>8. RegistrationTypeOK'
  BY <1>4, <1>5 DEF RegistrationInv, RegistrationTypeOK
<1>9. RowsOfCallers'
  BY <1>2, <1>4, <1>5, <1>6, SMTT(30) DEF RegistrationInv, RowsOfCallers
<1>10. AddressesDiffer'
  BY <1>5 DEF RegistrationInv, AddressesDiffer
<1>11. TwinsUnknown'
  <2> SUFFICES ASSUME NEW i \in Stored', NEW j \in DOMAIN account, i # j,
                      SameMailbox(account'[i], account'[j]),
                      account'[j].state \in {"open", "stored"},
                      caller'[account'[j].by].pc \in {"commit", "done"},
                      i \in caller'[account'[j].by].knew
               PROVE  FALSE
    BY <1>5 DEF TwinsUnknown
  <2> DEFINE q == account[j].by
  <2>1. q \in DOMAIN caller /\ account'[j].by = q /\ caller'[q].knew = caller[q].knew
    BY <1>2, <1>4, <1>5 DEF RegistrationInv, RowsOfCallers
  <2>2. i \in Stored
    BY <2>1 DEF RegistrationInv, CallersInStep, InStep
  <2>3. account[j].state \in {"open", "stored"} /\ caller[q].pc \in {"commit", "done"}
    BY <1>4, <1>5, <2>1 DEF RegistrationInv, RowsOfCallers
  <2>4. SameMailbox(account[i], account[j])
    BY <1>1, <1>5, <2>2 DEF SameMailbox
  <2> QED BY <2>1, <2>2, <2>3, <2>4 DEF RegistrationInv, TwinsUnknown
<1>12. InStep(r)'
  <2>1. /\ caller'[r].pc = "done" /\ caller'[r].answer = "ok"
        /\ caller'[r].token = caller[r].token /\ caller'[r].op = caller[r].op
        /\ caller'[r].knew = caller[r].knew
    BY <1>2, <1>4, <1>6
  <2>2. /\ caller[r].token \in DOMAIN account'
        /\ caller[r].op = "login" => caller[r].token \in Stored'
        /\ caller[r].knew \subseteq Stored'
    BY <1>5, <1>6, <1>7 DEF InStep
  <2>3. /\ caller'[r].token \in DOMAIN account'
        /\ caller'[r].op = "login" => caller'[r].token \in Stored'
        /\ caller'[r].knew \subseteq Stored'
    BY <2>1, <2>2
  <2> QED BY <2>1, <2>3 DEF InStep
<1>13. /\ caller'[r].answer = "ok" /\ caller'[r].token = caller'[r].user
       /\ Own(caller[r].token, r)'
  <2>1. caller'[r].answer = "ok" /\ caller[r].token \in DOMAIN account
    BY <1>2, <1>4, <1>6 DEF InStep
  <2>2. caller[r].token = caller[r].user /\ Own(caller[r].token, r)
    BY <1>6 DEF RegistrationInv, SignedInAsSelf
  <2> QED BY <1>2, <1>4, <1>5, <2>1, <2>2 DEF Own, SameMailbox
<1>14. \A q \in DOMAIN caller :
         /\ InStep(q)'
         /\ caller'[q].answer = "ok" =>
              caller'[q].token = caller'[q].user /\ Own(caller[q].token, q)'
         /\ caller'[q].answer = "refused" => Cause(q)'
  <2> TAKE q \in DOMAIN caller
  <2>1. CASE q = r
    BY <1>12, <1>13, <2>1
  <2>2. CASE q # r
    BY <1>4, <1>5, <1>7, <2>2, OthersKeep
  <2> QED BY <2>1, <2>2
<1> QED
  BY <1>4, <1>8, <1>9, <1>10, <1>11, <1>14
     DEF RegistrationInv, CallersInStep, SignedInAsSelf, RefusedForCause

-------------------------------------------------------------------------------
(* The steps *)

LEMMA AskKeeps ==
  ASSUME RegistrationInv, NEW op \in {"register", "login"}, NEW a \in Addresses,
         NEW p \in Passwords, Ask(op, a, p)
  PROVE  RegistrationInv'
<1> DEFINE c == [op |-> op, address |-> a, password |-> p, pc |-> "look",
                 token |-> NoId, user |-> NoId, knew |-> {}, answer |-> "none"]
           n == Len(caller) + 1
<1>1. c \in Caller /\ caller \in Seq(Caller)
  BY DEF Caller, RegistrationInv, RegistrationTypeOK
<1>2. /\ caller' \in Seq(Caller) /\ Len(caller') = n /\ n <= MaxCallers
      /\ DOMAIN caller' = DOMAIN caller \cup {n} /\ n \notin DOMAIN caller
      /\ caller'[n] = c /\ \A q \in DOMAIN caller : caller'[q] = caller[q]
  <2> HIDE DEF c
  <2>1. caller' = Append(caller, c) /\ Len(caller) < MaxCallers
    BY DEF Ask, c
  <2> QED BY <1>1, <2>1
<1>3. account' = account /\ deaths' = deaths /\ Stored' = Stored
  BY DEF Ask, Stored
<1>4. RegistrationTypeOK'
  BY <1>2, <1>3 DEF RegistrationInv, RegistrationTypeOK
<1>5. RowsOfCallers'
  BY <1>2, <1>3 DEF RegistrationInv, RowsOfCallers
<1>6. AddressesDiffer'
  BY <1>3 DEF RegistrationInv, AddressesDiffer
<1>7. TwinsUnknown'
  BY <1>2, <1>3 DEF RegistrationInv, TwinsUnknown, RowsOfCallers
<1>8. \A q \in DOMAIN caller' :
        /\ InStep(q)'
        /\ caller'[q].answer = "ok" =>
             caller'[q].token = caller'[q].user /\ Own(caller[q].token, q)'
        /\ caller'[q].answer = "refused" => Cause(q)'
  <2> TAKE q \in DOMAIN caller'
  <2>1. CASE q = n
    BY <1>2, <2>1 DEF InStep
  <2>2. CASE q # n
    BY <1>2, <1>3, <2>2, OthersKeep
  <2> QED BY <2>1, <2>2
<1> QED
  BY <1>4, <1>5, <1>6, <1>7, <1>8
     DEF RegistrationInv, CallersInStep, SignedInAsSelf, RefusedForCause

\* What leads to an exception, as FailureKeeps wants it.
LEMMA RaiseKeeps ==
  ASSUME RegistrationInv, NEW r \in DOMAIN caller, NEW why \in Failed,
         caller[r].pc \notin {"commit", "done"}, why = "refused" => HasCause(r), Raise(r, why)
  PROVE  RegistrationInv'
<1>1. deaths' \in 0..DeathBound /\ account' = RolledBack(r)
  BY DEF Raise, RegistrationInv, RegistrationTypeOK
<1>2. caller' = [caller EXCEPT ![r].pc = "done", ![r].answer = why, ![r].knew = Stored]
  BY DEF Raise
<1> QED BY <1>1, <1>2, FailureKeeps

LEMMA LookKeeps ==
  ASSUME RegistrationInv, NEW r \in DOMAIN caller, Look(r)
  PROVE  RegistrationInv'
<1>1. /\ caller[r].op = "register" /\ caller[r].pc = "look"
      /\ caller[r] \in Caller /\ InStep(r) /\ Visible(r) = Stored
      /\ \A i \in DOMAIN account : account[i].by # r
  <2>1. caller[r].op = "register" /\ caller[r].pc = "look"
    BY DEF Look, At
  <2>2. NoId \notin DOMAIN account
    BY CallerOf DEF RegistrationInv, NoId, Ids
  <2> QED BY <2>1, <2>2, SeesStored, CallerOf
          DEF RegistrationInv, CallersInStep, InStep, RowsOfCallers
<1>2. CASE ~StrongEnough(r) /\ Raise(r, "refused")
  BY <1>1, <1>2, RaiseKeeps DEF HasCause, Failed
<1>3. CASE Ambiguous(r) /\ Raise(r, "ambiguous")
  BY <1>1, <1>3, RaiseKeeps DEF Failed
<1>4. CASE ByEmail(r) # {} /\ Raise(r, "refused")
  <2>1. HasCause(r)
    BY <1>1, <1>4 DEF HasCause, ByEmail, Stored
  <2> QED BY <1>1, <1>4, <2>1, RaiseKeeps DEF Failed
<1>5. CASE Goes(r, "insert") /\ UNCHANGED <<account, deaths>>
  <2> DEFINE c == [caller[r] EXCEPT !.pc = "insert", !.knew = Stored]
  <2>1. /\ c \in Caller /\ c.pc = "insert" /\ c.knew = Stored /\ c.answer = caller[r].answer
        /\ c.op = caller[r].op /\ c.address = caller[r].address
        /\ c.password = caller[r].password /\ c.user = caller[r].user
    <3>1. Stored \subseteq Ids
      BY CallerOf DEF RegistrationInv
    <3> QED BY <1>1, <3>1 DEF Caller
  <2>2. caller' = [caller EXCEPT ![r] = c] /\ account' = account /\ deaths' = deaths
    BY <1>5 DEF Goes
  <2> HIDE DEF c
  <2>3. caller'[r] = c /\ Stored' = Stored
    BY <2>1, <2>2 DEF Stored
  <2>4. InStep(r)' /\ c.answer = "none"
    BY <1>1, <2>1, <2>3 DEF InStep
  <2> QED BY <1>1, <2>1, <2>2, <2>4, MoveKeeps
<1> QED BY <1>2, <1>3, <1>4, <1>5 DEF Look

\* A registration in its transaction has one row, open, which nobody else sees.
LEMMA OwnRow ==
  ASSUME RegistrationInv, NEW r \in DOMAIN caller, caller[r].pc \in {"grant", "sign"}
  PROVE  /\ caller[r].op = "register" /\ caller[r].user \in DOMAIN account
         /\ account[caller[r].user].by = r /\ account[caller[r].user].state = "open"
         /\ account[caller[r].user].address = caller[r].address
         /\ account[caller[r].user].password = caller[r].password
         /\ caller[r].pc = "grant" => account[caller[r].user].grants = 0
         /\ caller[r].pc = "sign" => account[caller[r].user].grants = 1
         /\ \A j \in DOMAIN account : account[j].by = r => j = caller[r].user
<1>1. /\ caller[r].user \in DOMAIN account /\ account[caller[r].user].by = r
      /\ caller[r].op = "register"
  BY DEF RegistrationInv, CallersInStep, InStep
<1>2. account[caller[r].user].state \in {"open", "stored", "gone"}
  BY <1>1, CallerOf DEF RegistrationInv, Account
<1> QED BY <1>1, <1>2 DEF RegistrationInv, RowsOfCallers

LEMMA InsertKeeps ==
  ASSUME RegistrationInv, NEW r \in DOMAIN caller, Insert(r)
  PROVE  RegistrationInv'
<1>1. /\ caller[r].op = "register" /\ caller[r].pc = "insert" /\ caller[r] \in Caller
      /\ InStep(r) /\ ~SameAddress(r, "open")
  BY CallerOf DEF Insert, At, RegistrationInv, CallersInStep
<1>2. CASE Raise(r, "taken")
  BY <1>1, <1>2, RaiseKeeps DEF Failed
<1>3. CASE ~Raise(r, "taken")
  <2> DEFINE n == Len(account) + 1
             row == [address |-> caller[r].address, password |-> caller[r].password,
                     grants |-> 0, state |-> "open", by |-> r]
             c == [caller[r] EXCEPT !.pc = "grant", !.user = n]
  <2>1. /\ DOMAIN caller = 1..Len(caller) /\ Len(caller) \in Nat /\ Len(caller) <= MaxCallers
        /\ DOMAIN account = 1..Len(account) /\ Len(account) \in Nat
        /\ Len(account) < Len(caller) /\ Stored \subseteq DOMAIN account
        /\ account \in Seq(Account) /\ r \in Ids /\ n \in Ids
    <3>1. Len(account) < Len(caller)
      BY <1>1, RoomForRow
    <3> QED BY <3>1, CallerOf DEF RegistrationInv, RegistrationTypeOK, Ids
  <2>2. /\ row \in Account /\ row.address = caller[r].address /\ row.password = caller[r].password
        /\ row.grants = 0 /\ row.state = "open" /\ row.by = r
    BY <1>1, <2>1 DEF Account, Caller
  <2>3. /\ c \in Caller /\ c.pc = "grant" /\ c.user = n /\ c.answer = caller[r].answer
        /\ c.knew = caller[r].knew /\ c.op = caller[r].op /\ c.address = caller[r].address
        /\ c.password = caller[r].password
    BY <1>1, <2>1 DEF Caller
  <2>4. /\ account' = Append(account, row) /\ caller' = [caller EXCEPT ![r] = c]
        /\ deaths' = deaths /\ ~SameAddress(r, "stored")
    BY <1>3 DEF Insert
  <2> HIDE DEF row, c
  <2>5. /\ account' \in Seq(Account) /\ Len(account') = n
        /\ DOMAIN account' = DOMAIN account \cup {n} /\ n \notin DOMAIN account
        /\ account'[n] = row /\ \A i \in DOMAIN account : account'[i] = account[i]
    BY <2>1, <2>2, <2>4
  <2>6. /\ caller' \in Seq(Caller) /\ Len(caller') = Len(caller) /\ DOMAIN caller' = DOMAIN caller
        /\ caller'[r] = c /\ \A q \in DOMAIN caller : q # r => caller'[q] = caller[q]
    BY <2>3, <2>4, CallerChanges DEF RegistrationInv
  <2>7. Stored' = Stored
    BY <2>2, <2>5 DEF Stored
  <2>8. \A i \in DOMAIN account : account[i].by \in DOMAIN caller /\ account[i].by # r
    <3>1. NoId \notin DOMAIN account
      BY CallerOf DEF RegistrationInv, NoId, Ids
    <3> QED BY <1>1, <3>1 DEF RegistrationInv, RowsOfCallers, InStep
  <2>9. RegistrationTypeOK'
    BY <2>1, <2>4, <2>5, <2>6 DEF RegistrationInv, RegistrationTypeOK
  <2>10. RowsOfCallers'
    BY <1>1, <2>2, <2>3, <2>5, <2>6, <2>8 DEF RegistrationInv, RowsOfCallers
  <2>11. AddressesDiffer'
    <3>1. \A i \in DOMAIN account : account[i].state \in {"open", "stored"} =>
            account[i].address # caller[r].address
      BY <1>1, <2>4 DEF SameAddress
    <3> QED BY <2>2, <2>5, <3>1 DEF RegistrationInv, AddressesDiffer
  <2>12. TwinsUnknown'
    BY <2>1, <2>2, <2>3, <2>5, <2>6, <2>7, <2>8 DEF RegistrationInv, TwinsUnknown
  <2>13. InStep(r)' /\ c.answer = "none"
    BY <1>1, <2>2, <2>3, <2>5, <2>6, <2>7 DEF InStep
  <2>14. \A q \in DOMAIN caller :
           /\ InStep(q)'
           /\ caller'[q].answer = "ok" =>
                caller'[q].token = caller'[q].user /\ Own(caller[q].token, q)'
           /\ caller'[q].answer = "refused" => Cause(q)'
    <3> TAKE q \in DOMAIN caller
    <3>1. CASE q = r
      BY <2>6, <2>13, <3>1
    <3>2. CASE q # r
      BY <2>5, <2>6, <2>7, <3>2, OthersKeep
    <3> QED BY <3>1, <3>2
  <2> QED
    BY <2>6, <2>9, <2>10, <2>11, <2>12, <2>14
       DEF RegistrationInv, CallersInStep, SignedInAsSelf, RefusedForCause
<1> QED BY <1>2, <1>3

LEMMA GrantKeeps ==
  ASSUME RegistrationInv, NEW r \in DOMAIN caller, GrantBudget(r)
  PROVE  RegistrationInv'
<1> DEFINE n == caller[r].user
           c == [caller[r] EXCEPT !.pc = "sign"]
<1>1. /\ caller[r].pc = "grant" /\ caller[r] \in Caller /\ InStep(r)
      /\ \A q \in DOMAIN caller : caller[q] \in Caller
      /\ \A i \in DOMAIN account : account[i] \in Account
      /\ Stored \subseteq DOMAIN account
  BY CallerOf DEF GrantBudget, At, RegistrationInv, CallersInStep
<1>2. /\ caller[r].op = "register" /\ n \in DOMAIN account
      /\ account[n].by = r /\ account[n].state = "open" /\ account[n].grants = 0
      /\ \A j \in DOMAIN account : account[j].by = r => j = n
  BY <1>1, OwnRow
<1>3. /\ c \in Caller /\ c.pc = "sign" /\ c.user = n /\ c.answer = caller[r].answer
      /\ c.knew = caller[r].knew /\ c.op = caller[r].op /\ c.address = caller[r].address
      /\ c.password = caller[r].password /\ c.token = caller[r].token
  BY <1>1 DEF Caller
<1>4. /\ account' = [account EXCEPT ![n] = Credited(account[n])]
      /\ caller' = [caller EXCEPT ![r] = c] /\ deaths' = deaths
  BY DEF GrantBudget
<1>5. /\ Credited(account[n]) \in Account /\ Credited(account[n]).grants = 1
      /\ Credited(account[n]).address = account[n].address
      /\ Credited(account[n]).password = account[n].password
      /\ Credited(account[n]).state = account[n].state /\ Credited(account[n]).by = account[n].by
  BY <1>1, <1>2 DEF Credited, Account
<1> HIDE DEF c
<1>6. /\ caller' \in Seq(Caller) /\ Len(caller') = Len(caller) /\ DOMAIN caller' = DOMAIN caller
      /\ caller'[r] = c /\ \A q \in DOMAIN caller : q # r => caller'[q] = caller[q]
  BY <1>3, <1>4, CallerChanges DEF RegistrationInv
<1>7. /\ account' \in Seq(Account) /\ Len(account') = Len(account)
      /\ DOMAIN account' = DOMAIN account
      /\ account'[n].grants = 1
      /\ \A i \in DOMAIN account : i # n => account'[i] = account[i]
      /\ \A i \in DOMAIN account :
           /\ account'[i].address = account[i].address
           /\ account'[i].password = account[i].password
           /\ account'[i].by = account[i].by /\ account'[i].state = account[i].state
  BY <1>2, <1>4, <1>5 DEF RegistrationInv, RegistrationTypeOK
<1>8. Stored' = Stored
  BY <1>7 DEF Stored
<1>9. RegistrationTypeOK'
  BY <1>4, <1>6, <1>7 DEF RegistrationInv, RegistrationTypeOK
<1>10. RowsOfCallers'
  BY <1>1, <1>2, <1>3, <1>6, <1>7 DEF RegistrationInv, RowsOfCallers
<1>11. AddressesDiffer'
  BY <1>7 DEF RegistrationInv, AddressesDiffer
<1>12. TwinsUnknown'
  <2> SUFFICES ASSUME NEW i \in Stored, NEW j \in DOMAIN account, i # j,
                      SameMailbox(account'[i], account'[j]),
                      account'[j].state \in {"open", "stored"},
                      caller'[account'[j].by].pc \in {"commit", "done"}
               PROVE  i \notin caller'[account'[j].by].knew
    BY <1>7, <1>8 DEF TwinsUnknown
  <2>1. account[j].by # r /\ account[j].state \in {"open", "stored"}
    BY <1>3, <1>6, <1>7
  <2>2. caller'[account'[j].by] = caller[account[j].by]
    BY <1>6, <1>7, <2>1 DEF RegistrationInv, RowsOfCallers
  <2>3. SameMailbox(account[i], account[j])
    BY <1>1, <1>7 DEF SameMailbox
  <2> QED BY <2>1, <2>2, <2>3 DEF RegistrationInv, TwinsUnknown
<1>13. InStep(r)' /\ c.answer = "none"
  BY <1>1, <1>2, <1>3, <1>6, <1>7, <1>8 DEF InStep
<1>14. \A q \in DOMAIN caller :
         /\ InStep(q)'
         /\ caller'[q].answer = "ok" =>
              caller'[q].token = caller'[q].user /\ Own(caller[q].token, q)'
         /\ caller'[q].answer = "refused" => Cause(q)'
  <2> TAKE q \in DOMAIN caller
  <2>1. CASE q = r
    BY <1>6, <1>13, <2>1
  <2>2. CASE q # r
    BY <1>6, <1>7, <1>8, <2>2, OthersKeep
  <2> QED BY <2>1, <2>2
<1> QED
  BY <1>6, <1>9, <1>10, <1>11, <1>12, <1>14
     DEF RegistrationInv, CallersInStep, SignedInAsSelf, RefusedForCause

\* The second lookup of a registration finds its own row, and nothing else unless
\* it raises: all that is committed has another mailbox.
LEMMA SignKeeps ==
  ASSUME RegistrationInv, NEW r \in DOMAIN caller, Sign(r)
  PROVE  RegistrationInv'
<1> DEFINE n == caller[r].user
<1>1. /\ caller[r].pc = "sign" /\ caller[r] \in Caller /\ InStep(r)
      /\ caller[r].answer = "none"
      /\ Stored \subseteq DOMAIN account /\ DOMAIN account \subseteq Ids
  BY CallerOf DEF Sign, At, RegistrationInv, CallersInStep, InStep
<1>2. /\ caller[r].op = "register" /\ n \in DOMAIN account
      /\ account[n].by = r /\ account[n].state = "open" /\ account[n].grants = 1
      /\ account[n].address = caller[r].address /\ account[n].password = caller[r].password
      /\ \A j \in DOMAIN account : account[j].by = r => j = n
  BY <1>1, OwnRow
<1>3. n \in ByEmail(r)
  BY <1>2 DEF ByEmail, Visible, SameMailbox
<1>4. CASE Ambiguous(r) /\ Raise(r, "ambiguous")
  BY <1>1, <1>4, RaiseKeeps DEF Failed
<1>5. ASSUME ~Ambiguous(r), NEW i \in ByEmail(r),
             caller' = [caller EXCEPT ![r].pc = "commit", ![r].answer = "ok",
                                      ![r].token = i, ![r].knew = Stored],
             UNCHANGED <<account, deaths>>
      PROVE  RegistrationInv'
  <2> DEFINE c == [caller[r] EXCEPT !.pc = "commit", !.answer = "ok", !.token = i, !.knew = Stored]
  <2>1. i = n
    BY <1>3, <1>5, AtMostOne
  <2>2. /\ c \in Caller /\ c.pc = "commit" /\ c.user = n /\ c.token = n /\ c.answer = "ok"
        /\ c.knew = Stored /\ c.op = caller[r].op /\ c.address = caller[r].address
        /\ c.password = caller[r].password
    BY <1>1, <1>2, <2>1 DEF Caller
  <2>3. caller' = [caller EXCEPT ![r] = c] /\ account' = account /\ deaths' = deaths
    BY <1>5
  <2> HIDE DEF c
  <2>4. caller'[r] = c /\ Stored' = Stored
    BY <2>2, <2>3 DEF Stored
  <2>5. \A k \in Stored : SameMailbox(account[k], account[n]) => k \notin c.knew
    <3> TAKE k \in Stored
    <3>1. ASSUME SameMailbox(account[k], account[n]) PROVE FALSE
      <4>1. k \in ByEmail(r)
        BY <1>2, <3>1 DEF ByEmail, Visible, SameMailbox
      <4>2. k = n
        BY <1>3, <1>5, <4>1, AtMostOne
      <4> QED BY <1>2, <4>2 DEF Stored
    <3> QED BY <3>1
  <2>6. InStep(r)'
    BY <1>2, <2>2, <2>3, <2>4 DEF InStep
  <2>7. Own(caller[r].token, r)'
    BY <1>2, <2>2, <2>3, <2>4 DEF Own, SameMailbox
  <2> QED BY <1>2, <2>2, <2>3, <2>5, <2>6, <2>7, MoveKeeps
<1>6. CASE ~Ambiguous(r) /\ \E i \in ByEmail(r) : account[i].password # caller[r].password
  <2>1. PICK i \in ByEmail(r) : account[i].password # caller[r].password
    BY <1>6
  <2>2. i = n
    BY <1>3, <1>6, AtMostOne
  <2> QED BY <1>2, <2>1, <2>2
<1>7. \/ Ambiguous(r) /\ Raise(r, "ambiguous")
      \/ ~Ambiguous(r) /\ \E i \in ByEmail(r) : account[i].password # caller[r].password
      \/ ~Ambiguous(r) /\ \E i \in ByEmail(r) :
           /\ caller' = [caller EXCEPT ![r].pc = "commit", ![r].answer = "ok",
                                       ![r].token = i, ![r].knew = Stored]
           /\ UNCHANGED <<account, deaths>>
  BY <1>3 DEF Sign, Credentials
<1> QED BY <1>4, <1>5, <1>6, <1>7

LEMMA LoginKeeps ==
  ASSUME RegistrationInv, NEW r \in DOMAIN caller, Login(r)
  PROVE  RegistrationInv'
<1>1. /\ caller[r].op = "login" /\ caller[r].pc = "look" /\ caller[r] \in Caller /\ InStep(r)
      /\ caller[r].answer = "none" /\ caller[r].user = NoId
      /\ Stored \subseteq DOMAIN account /\ DOMAIN account \subseteq Ids
      /\ \A i \in DOMAIN account : account[i].by # r
  <2>1. caller[r].op = "login" /\ caller[r].pc = "look"
    BY DEF Login, At
  <2> QED BY <2>1, CallerOf DEF RegistrationInv, CallersInStep, InStep, RowsOfCallers
<1>2. ByEmail(r) = {i \in Stored : SameMailbox(account[i], caller[r])}
  BY <1>1, SeesStored DEF ByEmail
<1>3. CASE Ambiguous(r) /\ Raise(r, "ambiguous")
  BY <1>1, <1>3, RaiseKeeps DEF Failed
<1>4. CASE ByEmail(r) = {} /\ Raise(r, "refused")
  <2>1. HasCause(r)
    BY <1>1, <1>2, <1>4 DEF HasCause
  <2> QED BY <1>1, <1>4, <2>1, RaiseKeeps DEF Failed
<1>5. ASSUME ~Ambiguous(r), NEW i \in ByEmail(r), account[i].password # caller[r].password,
             Raise(r, "refused")
      PROVE  RegistrationInv'
  <2>1. \A k \in ByEmail(r) : k = i
    BY <1>5, AtMostOne
  <2>2. HasCause(r)
    BY <1>1, <1>2, <1>5, <2>1 DEF HasCause
  <2> QED BY <1>1, <1>5, <2>2, RaiseKeeps DEF Failed
<1>6. ASSUME NEW i \in ByEmail(r), account[i].password = caller[r].password,
             caller' = [caller EXCEPT ![r].pc = "show", ![r].token = i, ![r].knew = Stored],
             UNCHANGED <<account, deaths>>
      PROVE  RegistrationInv'
  <2> DEFINE c == [caller[r] EXCEPT !.pc = "show", !.token = i, !.knew = Stored]
  <2>1. i \in Stored /\ i \in Ids /\ SameMailbox(account[i], caller[r])
    BY <1>1, <1>2
  <2>2. /\ c \in Caller /\ c.pc = "show" /\ c.user = NoId /\ c.token = i /\ c.answer = "none"
        /\ c.knew = Stored /\ c.op = caller[r].op /\ c.address = caller[r].address
        /\ c.password = caller[r].password
    BY <1>1, <2>1 DEF Caller
  <2>3. caller' = [caller EXCEPT ![r] = c] /\ account' = account /\ deaths' = deaths
    BY <1>6
  <2> HIDE DEF c
  <2>4. caller'[r] = c /\ Stored' = Stored
    BY <2>2, <2>3 DEF Stored
  <2>5. Own(caller[r].token, r)'
    BY <1>1, <1>6, <2>1, <2>2, <2>3, <2>4 DEF Own, SameMailbox
  <2>6. InStep(r)'
    BY <1>1, <2>1, <2>2, <2>4, <2>5 DEF InStep
  <2> QED BY <1>1, <2>2, <2>3, <2>6, MoveKeeps
<1>7. \/ Ambiguous(r) /\ Raise(r, "ambiguous")
      \/ ByEmail(r) = {} /\ Raise(r, "refused")
      \/ ~Ambiguous(r) /\ \E i \in ByEmail(r) :
           account[i].password # caller[r].password /\ Raise(r, "refused")
      \/ \E i \in ByEmail(r) :
           /\ account[i].password = caller[r].password
           /\ caller' = [caller EXCEPT ![r].pc = "show", ![r].token = i, ![r].knew = Stored]
           /\ UNCHANGED <<account, deaths>>
  BY DEF Login, Credentials
<1> QED BY <1>3, <1>4, <1>5, <1>6, <1>7

\* The account for the body of the answer is the one that the token names: the
\* committed rows of that mailbox have not grown without the lookup raising.
LEMMA ShowKeeps ==
  ASSUME RegistrationInv, NEW r \in DOMAIN caller, Show(r)
  PROVE  RegistrationInv'
<1> DEFINE n == caller[r].token
<1>1. /\ caller[r].op = "login" /\ caller[r].pc = "show" /\ caller[r] \in Caller /\ InStep(r)
      /\ Stored \subseteq DOMAIN account /\ DOMAIN account \subseteq Ids
      /\ n \in Stored /\ Own(n, r) /\ caller[r].user = NoId
      /\ \A i \in DOMAIN account : account[i].by # r
  <2>1. caller[r].op = "login" /\ caller[r].pc = "show"
    BY DEF Show, At
  <2> QED BY <2>1, CallerOf DEF RegistrationInv, CallersInStep, InStep, RowsOfCallers
<1>2. n \in ByEmail(r)
  BY <1>1, SeesStored DEF ByEmail, Own
<1>3. CASE Ambiguous(r) /\ Raise(r, "ambiguous")
  BY <1>1, <1>3, RaiseKeeps DEF Failed
<1>4. ASSUME ~Ambiguous(r), NEW i \in ByEmail(r),
             caller' = [caller EXCEPT ![r].pc = "commit", ![r].answer = "ok",
                                      ![r].user = i, ![r].knew = Stored],
             UNCHANGED <<account, deaths>>
      PROVE  RegistrationInv'
  <2> DEFINE c == [caller[r] EXCEPT !.pc = "commit", !.answer = "ok", !.user = i, !.knew = Stored]
  <2>1. i = n
    BY <1>2, <1>4, AtMostOne
  <2>2. /\ c \in Caller /\ c.pc = "commit" /\ c.user = n /\ c.token = n /\ c.answer = "ok"
        /\ c.knew = Stored /\ c.op = caller[r].op /\ c.address = caller[r].address
        /\ c.password = caller[r].password
    BY <1>1, <2>1 DEF Caller
  <2>3. caller' = [caller EXCEPT ![r] = c] /\ account' = account /\ deaths' = deaths
    BY <1>4
  <2> HIDE DEF c
  <2>4. caller'[r] = c /\ Stored' = Stored
    BY <2>2, <2>3 DEF Stored
  <2>5. Own(caller[r].token, r)'
    BY <1>1, <2>2, <2>3, <2>4 DEF Own, SameMailbox
  <2>6. InStep(r)'
    BY <1>1, <2>2, <2>3, <2>4 DEF InStep
  <2> QED BY <1>1, <2>2, <2>3, <2>5, <2>6, MoveKeeps
<1>5. \/ Ambiguous(r) /\ Raise(r, "ambiguous")
      \/ ~Ambiguous(r) /\ \E i \in ByEmail(r) :
           /\ caller' = [caller EXCEPT ![r].pc = "commit", ![r].answer = "ok",
                                       ![r].user = i, ![r].knew = Stored]
           /\ UNCHANGED <<account, deaths>>
  BY DEF Show
<1> QED BY <1>3, <1>4, <1>5

LEMMA CommitKeeps ==
  ASSUME RegistrationInv, NEW r \in DOMAIN caller, Commit(r)
  PROVE  RegistrationInv'
<1>1. /\ caller[r].pc = "commit" /\ account' = Settled(r, "stored") /\ deaths' \in 0..DeathBound
      /\ caller' = [caller EXCEPT ![r].pc = "done"]
  BY DEF Commit, RegistrationInv, RegistrationTypeOK
<1> QED BY <1>1, EndKeeps

LEMMA DieKeeps ==
  ASSUME RegistrationInv, NEW r \in DOMAIN caller, Die(r)
  PROVE  RegistrationInv'
<1>1. /\ caller[r].pc # "done" /\ account' = RolledBack(r) /\ deaths' \in 0..DeathBound
      /\ caller' = [caller EXCEPT ![r].pc = "done",
                                  ![r].answer = IF @ = "ok" THEN @ ELSE "lost"]
  BY DEF Die, RegistrationInv, RegistrationTypeOK
<1>2. caller[r] \in Caller /\ InStep(r) /\ caller[r].knew \in SUBSET Stored
  BY CallerOf DEF RegistrationInv, CallersInStep, InStep
<1>3. CASE caller[r].pc = "commit"
  <2>1. caller[r].answer = "ok"
    BY <1>2, <1>3 DEF InStep
  <2>2. [caller[r] EXCEPT !.pc = "done", !.answer = "ok"] = [caller[r] EXCEPT !.pc = "done"]
    BY <1>2, <2>1 DEF Caller
  <2>3. caller' = [caller EXCEPT ![r].pc = "done"]
    BY <1>1, <2>1, <2>2
  <2>4. account' = Settled(r, "gone")
    BY <1>1 DEF RolledBack
  <2> QED BY <1>1, <1>3, <2>3, <2>4, EndKeeps
<1>4. CASE caller[r].pc # "commit"
  <2> DEFINE knew == caller[r].knew
  <2>1. caller[r].answer = "none"
    BY <1>1, <1>2, <1>4 DEF InStep
  <2>2. [caller[r] EXCEPT !.pc = "done", !.answer = "lost"]
          = [caller[r] EXCEPT !.pc = "done", !.answer = "lost", !.knew = knew]
    BY <1>2 DEF Caller
  <2>3. caller' = [caller EXCEPT ![r].pc = "done", ![r].answer = "lost", ![r].knew = knew]
    BY <1>1, <2>1, <2>2
  <2> QED BY <1>1, <1>2, <1>4, <2>3, FailureKeeps DEF Failed
<1> QED BY <1>3, <1>4

-------------------------------------------------------------------------------
(* The theorems *)

LEMMA RegistrationInvInit == RegistrationInit => RegistrationInv
  BY DEF RegistrationInit, RegistrationInv, RegistrationTypeOK, RowsOfCallers, CallersInStep,
         AddressesDiffer, TwinsUnknown, SignedInAsSelf, RefusedForCause, Stored

LEMMA RegistrationInvStep ==
  RegistrationInv /\ [RegistrationNext]_registrationVars => RegistrationInv'
<1> SUFFICES ASSUME RegistrationInv, [RegistrationNext]_registrationVars
             PROVE  RegistrationInv'
  OBVIOUS
<1>1. ASSUME NEW op \in {"register", "login"}, NEW a \in Addresses, NEW p \in Passwords,
             Ask(op, a, p)
      PROVE  RegistrationInv'
  BY <1>1, AskKeeps
<1>2. ASSUME NEW r \in DOMAIN caller, Step(r)
      PROVE  RegistrationInv'
  BY <1>2, LookKeeps, InsertKeeps, GrantKeeps, SignKeeps, LoginKeeps, ShowKeeps, CommitKeeps
     DEF Step
<1>3. ASSUME NEW r \in DOMAIN caller, Die(r)
      PROVE  RegistrationInv'
  BY <1>3, DieKeeps
<1>4. CASE UNCHANGED registrationVars
  BY <1>4 DEF registrationVars, RegistrationInv, RegistrationTypeOK, RowsOfCallers,
              CallersInStep, InStep, AddressesDiffer, TwinsUnknown, SignedInAsSelf,
              RefusedForCause, Cause, Own, Stored, StrongEnough
<1> QED BY <1>1, <1>2, <1>3, <1>4 DEF RegistrationNext

\* Requests and accounts keep their kinds and bounds, for any number of requests,
\* addresses and deaths: no registration inserts or is granted twice.
THEOREM RegistrationTypeCorrect == RegistrationSpec => []RegistrationTypeOK
<1>1. RegistrationInv => RegistrationTypeOK
  BY DEF RegistrationInv
<1> QED BY RegistrationInvInit, RegistrationInvStep, <1>1, PTL DEF RegistrationSpec

\* Two accounts of one mailbox come only from registrations that overlapped up to
\* their second lookups (auth_service.py:49, :82).
THEOREM TwinsComeFromOverlap == RegistrationSpec => []TwinsOverlapped
<1>1. RegistrationInv => TwinsOverlapped
  <2> SUFFICES ASSUME RegistrationInv PROVE TwinsOverlapped
    OBVIOUS
  <2> QED BY DEF RegistrationInv, TwinsOverlapped, TwinsUnknown, AddressesDiffer, RowsOfCallers,
                 Stored
<1> QED BY RegistrationInvInit, RegistrationInvStep, <1>1, PTL DEF RegistrationSpec

\* An account is committed with its grant, and only by a request that was told so
\* (AuthService.register, get_db_session).
THEOREM RegistrationIsAtomic == RegistrationSpec => []AllOrNothing
<1>1. RegistrationInv => AllOrNothing
  <2> SUFFICES ASSUME RegistrationInv, NEW i \in DOMAIN account
               PROVE  /\ account[i].state = "stored" =>
                           account[i].grants = 1 /\ caller[account[i].by].answer = "ok"
                      /\ caller[account[i].by].answer \in Failed => account[i].state = "gone"
    BY DEF AllOrNothing
  <2>1. account[i].state \in {"open", "stored", "gone"}
    BY CallerOf DEF RegistrationInv, Account
  <2>2. InStep(account[i].by)
    BY DEF RegistrationInv, RowsOfCallers, CallersInStep
  <2> QED BY <2>1, <2>2 DEF RegistrationInv, RowsOfCallers, InStep, Failed
<1> QED BY RegistrationInvInit, RegistrationInvStep, <1>1, PTL DEF RegistrationSpec

\* Whoever is signed in, by a login or a registration, is signed in as the account
\* whose address and password they gave (auth_routes.py:32-33, :44-46).
THEOREM SignInsAreOwn == RegistrationSpec => []SignedInAsSelf
<1>1. RegistrationInv => SignedInAsSelf
  BY DEF RegistrationInv
<1> QED BY RegistrationInvInit, RegistrationInvStep, <1>1, PTL DEF RegistrationSpec

\* A refusal has its cause: a weak password, somebody else's account, or none that
\* the credentials fit.
THEOREM RefusalsHaveCause == RegistrationSpec => []RefusedForCause
<1>1. RegistrationInv => RefusedForCause
  BY DEF RegistrationInv
<1> QED BY RegistrationInvInit, RegistrationInvStep, <1>1, PTL DEF RegistrationSpec
===============================================================================
