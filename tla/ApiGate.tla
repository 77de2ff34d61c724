--------------------------------- MODULE ApiGate ---------------------------------
(***************************************************************************)
(* The middlewares in front of the routes: AuthMiddleware finds out who    *)
(* calls, RateLimitMiddleware asks Redis for a slot of the service and     *)
(* then for one of the caller.  A slot is asked for by a script that knows *)
(* the time only from its caller: the stamp is taken in the API process,   *)
(* the script runs later, and runs again when its answer is lost.          *)
(*                                                                         *)
(* The clock counts the seconds that int(timestamp()) counts; 0 stands for *)
(* no time.  Requests to public paths pass both middlewares untouched and  *)
(* are left out.                                                           *)
(***************************************************************************)
EXTENDS Integers, Sequences, FiniteSets

CONSTANTS
  Users, Hosts,       \* accounts, and the addresses requests come from
  Service, Nobody,    \* the bucket of the whole service; no account
  ServiceLimit, Limit, Window,
  MaxDelay,    \* from a stamp to the last run of its script, in seconds
  MaxClock, MaxRequests, MaxOpen, \* bounds of the model
  LossBound    \* bound of the model: answers of Redis that are lost

\* A script that is still under way when the window has passed counts against
\* nothing: the guarantees need connections that fail sooner (redis_pool.py:33).
ASSUME GateAssumption ==
  /\ ServiceLimit \in Nat \ {0} /\ Limit \in Nat \ {0}
  /\ Window \in Nat \ {0} /\ MaxDelay \in Nat /\ MaxDelay < Window
  /\ MaxClock \in Nat \ {0} /\ MaxRequests \in Nat /\ MaxOpen \in Nat /\ LossBound \in Nat
  /\ Nobody \notin Users \cup Hosts /\ Service \notin Users \cup Hosts
  /\ Users \cap Hosts = {}

VARIABLES
  clock,
  req,      \* the requests that have arrived, in order
  bucket,   \* the sorted set of each key: the requests that hold a slot
  expires,  \* when Redis drops the key
  told,     \* history: the reset_at of the last refusal since the last slot given
  losses

vars == <<clock, req, bucket, expires, told, losses>>

Times    == 0..MaxClock
Requests == 1..MaxRequests
Gates    == {"service", "own"}
Buckets  == {Service} \cup Users \cup Hosts

\* A cookie or a bearer token: absent, or of an account and valid or not, by its
\* signature, its issuer and audience, or its age.
Token   == [user : Users, valid : BOOLEAN]
NoToken == [user |-> Nobody, valid |-> FALSE]

\* user: as whom the request was authenticated; who: what the limiter calls it;
\* score and got: for each gate, the stamp and when the slot was given.
Row == [host : Hosts, user : Users \cup {Nobody},
        who : Users \cup Hosts, pc : {"stamp", "sent", "handle", "done"}, gate : Gates,
        score : [Gates -> Times], got : [Gates -> Times],
        answer : {"none", "ok", "unauthenticated", "rate limit", "capacity", "no limiter"}]

LimitOf(b) == IF b = Service THEN ServiceLimit ELSE Limit
BucketOf(r) == IF req[r].gate = "service" THEN Service ELSE req[r].who
GateOf(b) == IF b = Service THEN "service" ELSE "own"

GateTypeOK ==
  /\ clock \in 1..MaxClock /\ losses \in 0..LossBound
  /\ req \in Seq(Row) /\ Len(req) <= MaxRequests
  /\ bucket \in [Buckets -> SUBSET DOMAIN req]
  /\ expires \in [Buckets -> 0..(MaxClock + Window)]
  /\ told \in [Buckets -> 0..(MaxClock + Window)]
  /\ \A b \in Buckets : Cardinality(bucket[b]) <= LimitOf(b)

Init ==
  /\ clock = 1 /\ losses = 0 /\ req = <<>>
  /\ bucket = [b \in Buckets |-> {}]
  /\ expires = [b \in Buckets |-> 0] /\ told = [b \in Buckets |-> 0]

-------------------------------------------------------------------------------
(* Who calls *)

\* A cookie hides the bearer token, even one that is no longer valid.
Presented(cookie, bearer) == IF cookie # NoToken THEN cookie ELSE bearer

Decoded(token) == IF token.valid THEN token.user ELSE Nobody

Identity(user, h) == IF user # Nobody THEN user ELSE h

\* Nothing is awaited between the arrival and the first stamp.
Arrive(h, cookie, bearer) ==
  /\ Len(req) < MaxRequests
  /\ Cardinality({r \in DOMAIN req : req[r].pc # "done"}) < MaxOpen
  /\ LET user == Decoded(Presented(cookie, bearer))
     IN req' = Append(req,
          [host |-> h, user |-> user, who |-> Identity(user, h),
           pc |-> "sent", gate |-> "service",
           score |-> [g \in Gates |-> IF g = "service" THEN clock ELSE 0],
           got |-> [g \in Gates |-> 0], answer |-> "none"])
  /\ UNCHANGED <<clock, bucket, expires, told, losses>>

-------------------------------------------------------------------------------
(* The limiter *)

\* The answer of the first gate is in: the second stamp.
Stamp(r) ==
  /\ req[r].pc = "stamp"
  /\ req' = [req EXCEPT ![r].pc = "sent", ![r].score[req[r].gate] = clock]
  /\ UNCHANGED <<clock, bucket, expires, told, losses>>

Score(b, r) == req[r].score[GateOf(b)]

\* Mutant: a slot is free again two seconds early.
CutoffEarly(now) == now + 2 - Window

\* Mutant: a slot is held a second too long.
CutoffLate(now) == now - Window - 1

Cutoff(now) == now - Window

\* ZREMRANGEBYSCORE, on a key that may have expired.
Kept(b, now) ==
  {r \in bucket[b] : clock < expires[b] /\ Score(b, r) > Cutoff(now)}

Oldest(b, kept) == CHOOSE t \in {Score(b, r) : r \in kept} :
                     \A r \in kept : t <= Score(b, r)

Full(b, kept) == Cardinality(kept) >= LimitOf(b)

\* Mutant: the reset is told a second early.
ResetEarly(oldest) == oldest + Window - 1

ResetAt(oldest) == oldest + Window

\* The script finds no slot.
Refuse(r) ==
  LET b    == BucketOf(r)
      kept == Kept(b, Score(b, r))
  IN /\ Full(b, kept)
     /\ bucket' = [bucket EXCEPT ![b] = kept]
     /\ told' = [told EXCEPT ![b] = ResetAt(Oldest(b, kept))]
     /\ req' = [req EXCEPT ![r].pc = "done",
                           ![r].answer = IF b = Service THEN "capacity" ELSE "rate limit"]
     /\ UNCHANGED <<expires, losses>>

Given(b, kept, r) ==
  /\ bucket' = [bucket EXCEPT ![b] = kept \cup {r}]
  /\ expires' = [expires EXCEPT ![b] = clock + Window]
  /\ told' = [told EXCEPT ![b] = 0]

\* The script gives a slot, and its answer takes the request to the next gate.
Grant(r) ==
  LET b    == BucketOf(r)
      kept == Kept(b, Score(b, r))
  IN /\ ~Full(b, kept) /\ Given(b, kept, r)
     /\ req' = [req EXCEPT ![r].got[req[r].gate] = clock, ![r].gate = "own",
                           ![r].pc = IF b = Service THEN "stamp" ELSE "handle"]
     /\ UNCHANGED losses

\* The script gives a slot, but its answer is lost; the client sends the script
\* again as it was, until it gives up.
GrantUnheard(r) ==
  LET b    == BucketOf(r)
      kept == Kept(b, Score(b, r))
  IN /\ losses < LossBound /\ losses' = losses + 1
     /\ ~Full(b, kept) /\ Given(b, kept, r)
     /\ req' = [req EXCEPT ![r].got[req[r].gate] = clock]

Check(r) ==
  /\ req[r].pc = "sent"
  /\ Refuse(r) \/ Grant(r) \/ GrantUnheard(r)
  /\ UNCHANGED <<clock>>

\* RedisError, before the script has run or after.
LimiterFails(r) ==
  /\ req[r].pc = "sent"
  /\ losses < LossBound /\ losses' = losses + 1
  /\ req' = [req EXCEPT ![r].pc = "done", ![r].answer = "no limiter"]
  /\ UNCHANGED <<clock, bucket, expires, told>>

\* A route that needs an account (require_authenticated_user).
Handle(r) ==
  /\ req[r].pc = "handle"
  /\ req' = [req EXCEPT ![r].pc = "done",
              ![r].answer = IF req[r].user = Nobody THEN "unauthenticated" ELSE "ok"]
  /\ UNCHANGED <<clock, bucket, expires, told, losses>>

\* Only the scripts take time: an answer is taken up in the second it is given.
Tick ==
  /\ clock < MaxClock
  /\ \A r \in DOMAIN req :
       \/ req[r].pc = "done"
       \/ req[r].pc = "sent" /\ clock < req[r].score[req[r].gate] + MaxDelay
  /\ clock' = clock + 1
  /\ UNCHANGED <<req, bucket, expires, told, losses>>

Next ==
  \/ \E h \in Hosts, cookie, bearer \in Token \cup {NoToken} : Arrive(h, cookie, bearer)
  \/ \E r \in DOMAIN req : Stamp(r) \/ Check(r) \/ LimiterFails(r) \/ Handle(r)
  \/ Tick

Spec == Init /\ [][Next]_vars

-------------------------------------------------------------------------------
\* The requests that got a slot of the service, of a user from wherever they
\* came, or of an address that showed no account.
Of(b, r) ==
  \/ b = Service
  \/ b = req[r].user
  \/ b = req[r].host /\ req[r].user = Nobody

Slots(b, from, to) ==
  {r \in DOMAIN req : Of(b, r) /\ req[r].got[GateOf(b)] # 0 /\ req[r].got[GateOf(b)] \in from..to}

\* No caller, and not the service, gets more slots than its limit in any span of
\* the window less the time a script may be late, by the clock of Redis and not
\* by the stamps (SLIDING_WINDOW_LUA, rate_limiter.py:13-33).
WithinLimit ==
  \A b \in Buckets, t \in 1..clock :
    Cardinality(Slots(b, t, t + Window - MaxDelay - 1)) <= LimitOf(b)

\* A request is turned away only if the limit was used up within the window
\* and the delay: nothing older, and no other caller, costs it its slot
\* (rate_limiter.py:20-24, rate_limit.py:20-21).
NoFalseRefusal ==
  [][\A r \in DOMAIN req :
       (req'[r].answer # req[r].answer /\ req'[r].answer \in {"rate limit", "capacity"})
       => LET b == IF req'[r].answer = "capacity" THEN Service ELSE req[r].who
          IN Cardinality({s \in DOMAIN req :
                 Of(b, s) /\ req[s].got[GateOf(b)] + Window + MaxDelay > clock
                 /\ req[s].got[GateOf(b)] # 0}) >= LimitOf(b)]_vars

\* A caller that comes back when the refusal said, and before anyone else got a
\* slot of that limit, is not refused again (rate_limit.py:30-39, 48-57).
RetryHonoured ==
  [][\A r \in DOMAIN req :
       (req'[r].answer # req[r].answer /\ req'[r].answer \in {"rate limit", "capacity"})
       => LET b == IF req'[r].answer = "capacity" THEN Service ELSE req[r].who
          IN told[b] = 0 \/ Score(b, r) < told[b]]_vars
===============================================================================
