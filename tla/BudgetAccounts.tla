---------------------------- MODULE BudgetAccounts ----------------------------
(***************************************************************************)
(* Admission and accounting of one user's generations, statement by        *)
(* statement: requests that race for the daily slot and the budget, and    *)
(* workers that settle reservations, all at READ COMMITTED.  A transaction *)
(* reads committed rows, locks a row from its first write to its end, and  *)
(* writes back values computed from what it read.                          *)
(*                                                                         *)
(* Row locks are not variables: who holds one follows from where the       *)
(* transactions stand (QuotaUnlocked, AccountUnlocked).                    *)
(***************************************************************************)
EXTENDS SessionStatus, Integers, FiniteSets, FiniteSetsExt

CONSTANTS
  Requests,     \* POST /generate requests of the user in flight at once
  Sessions,     \* blog_sessions.id
  Keys,         \* Idempotency-Key values
  NoKey, NoRequest, NoSession,
  DailyLimit,   \* DAILY_BLOG_GENERATION_LIMIT
  Grant,        \* INITIAL_BUDGET_USD
  Estimate,     \* the amount check_and_reserve holds
  Costs,        \* what the usage of one persisted phase may cost
  MaxDay,       \* bound of the model: the last day
  ChargeBound,  \* bound of the model: the COMMIT entries of a session add up to this
  Faults

\* crash       the process of a request or of a settlement dies
\* lockExpiry  a request holds budget_lock for more than its 10 seconds
FaultKinds == {"crash", "lockExpiry"}

ASSUME BudgetAssumption ==
  /\ IsFiniteSet(Requests)
  /\ NoKey \notin Keys /\ NoRequest \notin Requests /\ NoSession \notin Sessions
  /\ DailyLimit \in Nat \ {0}
  /\ Grant \in Nat /\ Estimate \in Nat \ {0}
  /\ Costs \subseteq Nat
  /\ MaxDay \in Nat /\ ChargeBound \in Nat
  /\ Faults \subseteq FaultKinds

VARIABLES
  session,   \* blog_sessions with their reservation and COMMIT entries
  account,   \* the budget_accounts row
  quota,     \* the user_blog_quotas row
  lock,      \* the request that set budget_lock:<user>
  today,     \* the UTC day
  req,       \* the transactions of create_generation
  settle,    \* the transactions of persist_success and persist_failure
  late,      \* a slot has been booked for a day before the day of the row
  crossed    \* a settlement and another update of the account have overlapped

\* The races that nothing in the code prevents; no guard reads them.
history == <<late, crossed>>

vars == <<session, account, quota, lock, today, req, settle, history>>

Account == [balance : Int, reserved : Int, spent : Int]
Opened  == [balance |-> Grant, reserved |-> 0, spent |-> 0]

\* day: the day whose slot the session used; hold: its reservation;
\* charged: the sum of its COMMIT entries.
SessionRow ==
  [status : Statuses \cup {Absent}, phase : Phases \cup {NoPhase},
   key : Keys \cup {NoKey}, day : 0..MaxDay,
   hold : {"none", "active", "released"}, charged : Nat]

NewSession == [status |-> Absent, phase |-> NoPhase, key |-> NoKey, day |-> 0,
               hold |-> "none", charged |-> 0]

\* The request has passed the checks; has its slot and its session row; has the
\* Redis lock; has read the account; has updated it; has deleted the lock.
Request ==
  [pc : {"idle", "counted", "slot", "locked", "read", "written", "unlocked"},
   session : Sessions \cup {NoSession}, key : Keys \cup {NoKey},
   day : 0..MaxDay, seen : Account]

Settlement ==
  [pc : {"idle", "read", "written"}, to : Statuses \cup {Absent},
   cost : Nat, seen : Account]

NoRequestYet == [pc |-> "idle", session |-> NoSession, key |-> NoKey, day |-> 0,
                 seen |-> Opened]
NoSettlement == [pc |-> "idle", to |-> Absent, cost |-> 0, seen |-> Opened]

TypeOK ==
  /\ session \in [Sessions -> SessionRow]
  /\ account \in Account
  /\ quota   \in [used : Nat, day : 0..MaxDay]
  /\ lock    \in Requests \cup {NoRequest}
  /\ today   \in 0..MaxDay
  /\ req     \in [Requests -> Request]
  /\ settle  \in [Sessions -> Settlement]
  /\ late \in BOOLEAN /\ crossed \in BOOLEAN

Init ==
  /\ session = [s \in Sessions |-> NewSession]
  /\ account = Opened
  /\ quota   = [used |-> 0, day |-> 0]
  /\ lock    = NoRequest
  /\ today   = 0
  /\ req     = [r \in Requests |-> NoRequestYet]
  /\ settle  = [s \in Sessions |-> NoSettlement]
  /\ late = FALSE /\ crossed = FALSE
-----------------------------------------------------------------------------
(* Rows and locks *)

\* Mutant: a session under review is not active.
WorkingStatuses == WorkStatuses

\* active_states
ActiveStatuses == WorkStatuses \cup ReviewStatuses
ActiveSessions == {s \in Sessions : session[s].status \in ActiveStatuses}

KeyFree(k) == k = NoKey \/ \A s \in Sessions : session[s].key # k

\* Mutant: the upsert does not serialise the requests of the user.
QuotaNeverLocked == TRUE

\* The upsert of consume_daily_slot locks the quota row until the commit.
QuotaUnlocked ==
  \A r \in Requests : req[r].pc \in {"idle", "counted"}

\* A request that has read the account and may yet write it.
HasRead(r) == req[r].pc \in {"read", "written", "unlocked"}

AccountUnlocked ==
  /\ \A r \in Requests : req[r].pc \notin {"written", "unlocked"}
  /\ \A s \in Sessions : settle[s].pc # "written"

\* The condition and the new value of the upsert.
SlotFree(day) == quota.day # day \/ quota.used < DailyLimit
Consumed(day) ==
  [used |-> IF quota.day = day THEN quota.used + 1 ELSE 1, day |-> day]

\* Mutant: reserved money counts as available.
AvailableBalance(acc) == acc.balance

Available(acc) == acc.balance - acc.reserved

Reserved(acc)  == [acc EXCEPT !.reserved = @ + Estimate]

\* max(Decimal("0"), ...)
Unreserved(acc) ==
  [acc EXCEPT !.reserved = IF acc.reserved >= Estimate THEN acc.reserved - Estimate ELSE 0]

\* Mutant: the estimate is deducted, the cost is booked as spent.
CommittedByEstimate(acc, cost) ==
  [Unreserved(acc) EXCEPT !.balance = acc.balance - Estimate, !.spent = acc.spent + cost]

\* apply_commit
Committed(acc, cost) ==
  [Unreserved(acc) EXCEPT !.balance = acc.balance - cost, !.spent = acc.spent + cost]

\* The ORM writes the columns whose value it changed, as computed from what it
\* read, over whatever has been committed since.
Written(seen, new, now) == IF new = seen THEN now ELSE new
Stored(seen, new) ==
  [balance  |-> Written(seen.balance, new.balance, account.balance),
   reserved |-> Written(seen.reserved, new.reserved, account.reserved),
   spent    |-> Written(seen.spent, new.spent, account.spent)]

\* get_by_session: released_at IS NULL.
HoldActive(s) == session[s].hold = "active"

\* The rows a request inserts, and the stamp that closes a reservation.
Created(q)    == [status |-> "QUEUED", phase |-> "fresh_generation", key |-> q.key,
                  day |-> q.day, hold |-> "none", charged |-> 0]
Held(row)     == [row EXCEPT !.hold = "active"]
Released(row) == [row EXCEPT !.hold = "released"]

\* The sum of the COMMIT entries with the one just written.
Charged(s, cost) == session[s].charged + cost
-----------------------------------------------------------------------------
(* create_generation *)

Step(r, pc) == req' = [req EXCEPT ![r].pc = pc]
Leave(r)    == req' = [req EXCEPT ![r] = NoRequestYet]

\* The key is new, no session is active; then the clock is read.  A request
\* with a known key returns that session and changes nothing here.
Admit(r, s, k) ==
  /\ req[r].pc = "idle"
  /\ session[s].status = Absent
  /\ \A q \in Requests : req[q].session # s
  /\ KeyFree(k)
  /\ ActiveSessions = {}
  /\ req' = [req EXCEPT ![r] = [pc |-> "counted", session |-> s, key |-> k,
                                day |-> today, seen |-> Opened]]
  /\ UNCHANGED <<session, account, quota, lock, today, settle, history>>

\* Mutant: no unique constraint on the key.
ConsumeSlotAnyKey(r) ==
  /\ req[r].pc = "counted"
  /\ QuotaUnlocked
  /\ SlotFree(req[r].day)
  /\ Step(r, "slot")
  /\ UNCHANGED <<session, account, quota, lock, today, settle, history>>

\* consume_daily_slot and the insert of the session.
ConsumeSlot(r) ==
  /\ req[r].pc = "counted"
  /\ QuotaUnlocked
  /\ SlotFree(req[r].day) /\ KeyFree(req[r].key)
  /\ Step(r, "slot")
  /\ UNCHANGED <<session, account, quota, lock, today, settle, history>>

LockBudget(r) ==
  /\ req[r].pc = "slot"
  /\ lock = NoRequest
  /\ lock' = r
  /\ Step(r, "locked")
  /\ UNCHANGED <<session, account, quota, today, settle, history>>

ReadAccount(r) ==
  /\ req[r].pc = "locked"
  /\ Available(account) >= Estimate
  /\ req' = [req EXCEPT ![r] = [@ EXCEPT !.pc = "read", !.seen = account]]
  /\ UNCHANGED <<session, account, quota, lock, today, settle, history>>

WriteAccount(r) ==
  /\ req[r].pc = "read"
  /\ AccountUnlocked
  /\ Step(r, "written")
  /\ UNCHANGED <<session, account, quota, lock, today, settle, history>>

\* The lock is deleted whoever holds it by now, and before the commit.
UnlockBudget(r) ==
  /\ req[r].pc = "written"
  /\ lock' = NoRequest
  /\ Step(r, "unlocked")
  /\ UNCHANGED <<session, account, quota, today, settle, history>>

CommitRequest(r) ==
  /\ req[r].pc = "unlocked"
  /\ LET q == req[r] IN
     /\ session' = [session EXCEPT ![q.session] = Held(Created(q))]
     /\ account' = Stored(q.seen, Reserved(q.seen))
     /\ quota' = Consumed(q.day)
     /\ late' = (late \/ q.day < quota.day)
  /\ crossed' = \/ crossed
                \/ \E s \in Sessions : settle[s].pc # "idle"
  /\ Leave(r)
  /\ UNCHANGED <<lock, today, settle>>

\* The daily limit, the unique key, the Redis lock or the balance refuses the
\* request: its transaction is rolled back, and a lock it set is deleted.
Refuse(r) ==
  /\ \/ req[r].pc = "counted" /\ QuotaUnlocked
        /\ ~(SlotFree(req[r].day) /\ KeyFree(req[r].key))
     \/ req[r].pc = "slot" /\ lock # NoRequest
     \/ req[r].pc = "locked" /\ Available(account) < Estimate
  /\ lock' = IF req[r].pc = "locked" THEN NoRequest ELSE lock
  /\ Leave(r)
  /\ UNCHANGED <<session, account, quota, today, settle, history>>

CrashRequest(r) ==
  /\ "crash" \in Faults
  /\ req[r].pc # "idle"
  /\ Leave(r)
  /\ UNCHANGED <<session, account, quota, lock, today, settle, history>>

LockExpires ==
  /\ lock # NoRequest
  /\ "lockExpiry" \in Faults \/ req[lock].pc \notin {"locked", "read", "written"}
  /\ lock' = NoRequest
  /\ UNCHANGED <<session, account, quota, today, req, settle, history>>

\* At any time, between a request's clock and its upsert too.
NewDay ==
  /\ today < MaxDay
  /\ today' = today + 1
  /\ UNCHANGED <<session, account, quota, lock, req, settle, history>>
-----------------------------------------------------------------------------
(* The worker, the user and the reaper *)

Moved(s, st, ph) == [session[s] EXCEPT !.status = st, !.phase = ph]

\* The session after an attempt that ends in status st and brings its COMMIT
\* entries to sum.
Persisted(s, st, sum) ==
  [Moved(s, st, IF st = "AGENT_REJECTED" THEN NoPhase ELSE session[s].phase)
     EXCEPT !.charged = sum]

\* The outline checkpoint books its usage and keeps the reservation.
PersistOutline(s, cost) ==
  /\ session[s].status = "QUEUED" /\ session[s].phase = "fresh_generation"
  /\ settle[s].pc = "idle"
  /\ session[s].charged + cost <= ChargeBound
  /\ session' = [session EXCEPT ![s] =
       Persisted(s, "AWAITING_OUTLINE_REVIEW", Charged(s, cost))]
  /\ UNCHANGED <<account, quota, lock, today, req, settle, history>>

\* Where an attempt may end, and with which usage: a failure books none.
Outcome(s, to, cost) ==
  /\ session[s].status = "QUEUED"
  /\ \/ to = "FAILED" /\ cost = 0
     \/ to = "AGENT_REJECTED" /\ session[s].phase = "fresh_generation" /\ cost \in Costs
     \/ to = "AWAITING_FINAL_REVIEW" /\ session[s].phase # "fresh_generation" /\ cost \in Costs
  /\ session[s].charged + cost <= ChargeBound

\* release_excess and release_all find no reservation.
PersistWithoutHold(s, to, cost) ==
  /\ settle[s].pc = "idle"
  /\ Outcome(s, to, cost)
  /\ ~HoldActive(s)
  /\ session' = [session EXCEPT ![s] = Persisted(s, to, Charged(s, cost))]
  /\ UNCHANGED <<account, quota, lock, today, req, settle, history>>

\* The attempt has locked its session; it reads the account...
ReadForSettlement(s, to, cost) ==
  /\ settle[s].pc = "idle"
  /\ Outcome(s, to, cost)
  /\ HoldActive(s)
  /\ settle' = [settle EXCEPT ![s] =
       [pc |-> "read", to |-> to, cost |-> cost, seen |-> account]]
  /\ UNCHANGED <<session, account, quota, lock, today, req, history>>

\* ...updates it...
WriteSettlement(s) ==
  /\ settle[s].pc = "read"
  /\ AccountUnlocked
  /\ settle' = [settle EXCEPT ![s].pc = "written"]
  /\ UNCHANGED <<session, account, quota, lock, today, req, history>>

\* ...and commits: apply_release for a failure, else apply_commit of all that
\* the ledger holds for the session.
CommitSettlement(s) ==
  /\ settle[s].pc = "written"
  /\ LET t   == settle[s]
         sum == Charged(s, t.cost)
     IN /\ account' = Stored(t.seen, IF t.to = "FAILED" THEN Unreserved(t.seen)
                                     ELSE Committed(t.seen, sum))
        /\ session' = [session EXCEPT ![s] = Released(Persisted(s, t.to, sum))]
  /\ settle' = [settle EXCEPT ![s] = NoSettlement]
  /\ crossed' = \/ crossed
                \/ \E r \in Requests : HasRead(r)
                \/ \E t \in Sessions \ {s} : settle[t].pc # "idle"
  /\ UNCHANGED <<quota, lock, today, req, late>>

CrashSettlement(s) ==
  /\ "crash" \in Faults
  /\ settle[s].pc # "idle"
  /\ settle' = [settle EXCEPT ![s] = NoSettlement]
  /\ UNCHANGED <<session, account, quota, lock, today, req, history>>

\* The reviews, none of which touches the budget.
Review(s) ==
  /\ \/ /\ session[s].status = "AWAITING_OUTLINE_REVIEW"
        /\ session' = [session EXCEPT ![s] = Moved(s, "QUEUED", "research_phase")]
     \/ /\ session[s].status = "AWAITING_FINAL_REVIEW"
        /\ session' \in {[session EXCEPT ![s] = Moved(s, "QUEUED", "revision")],
                         [session EXCEPT ![s] = Moved(s, "COMPLETED", session[s].phase)],
                         [session EXCEPT ![s] = Moved(s, "REJECTED", NoPhase)]}
  /\ UNCHANGED <<account, quota, lock, today, req, settle, history>>

\* mark_failed waits for the row lock of a settlement.
Reap(s) ==
  /\ session[s].status = "QUEUED"
  /\ settle[s].pc = "idle"
  /\ session' = [session EXCEPT ![s] = Moved(s, "FAILED", session[s].phase)]
  /\ UNCHANGED <<account, quota, lock, today, req, settle, history>>
-----------------------------------------------------------------------------
RequestStep(r) ==
  \/ \E s \in Sessions, k \in Keys \cup {NoKey} : Admit(r, s, k)
  \/ ConsumeSlot(r) \/ LockBudget(r) \/ ReadAccount(r) \/ WriteAccount(r)
  \/ UnlockBudget(r) \/ CommitRequest(r) \/ Refuse(r) \/ CrashRequest(r)

SessionStep(s) ==
  \/ \E cost \in Costs : PersistOutline(s, cost)
  \/ \E to \in Statuses, cost \in Costs \cup {0} :
       PersistWithoutHold(s, to, cost) \/ ReadForSettlement(s, to, cost)
  \/ WriteSettlement(s) \/ CommitSettlement(s) \/ CrashSettlement(s)
  \/ Review(s) \/ Reap(s)

Next ==
  \/ \E r \in Requests : RequestStep(r)
  \/ \E s \in Sessions : SessionStep(s)
  \/ LockExpires \/ NewDay

Spec == Init /\ [][Next]_vars
-----------------------------------------------------------------------------
(* Properties *)

\* Every committed session has used one slot of its day, a refused request has
\* used none, and no day has more sessions than the limit, whatever midnight does
\* between a request's clock and its upsert.  What it cannot take is a request
\* of one day that is booked after one of the next (late).
DailyQuota ==
  LET Of(d) == {s \in Sessions : session[s].status # Absent /\ session[s].day = d}
  IN ~late => /\ quota.used = Cardinality(Of(quota.day))
              /\ \A d \in 0..MaxDay : Cardinality(Of(d)) <= DailyLimit

\* An Idempotency-Key names one session, however its requests race.
OneSessionPerKey ==
  \A s, t \in Sessions :
    session[s].key = session[t].key /\ session[s].key # NoKey => s = t

\* Why: from its upsert to its commit a request is alone, and its key is free.
KeyInv ==
  /\ OneSessionPerKey
  /\ \A r, q \in Requests :
       req[r].pc \notin {"idle", "counted"} /\ req[q].pc \notin {"idle", "counted"} => r = q
  /\ \A r \in Requests : req[r].pc \notin {"idle", "counted"} => KeyFree(req[r].key)

\* No interleaving of requests and settlements creates or destroys money: what
\* has left the balance has been booked as spent.
Conserved == account.balance + account.spent = Grant

\* Why: what a settlement has read is an account that was conserved as well.
ConservedInv ==
  /\ TypeOK
  /\ Conserved
  /\ \A s \in Sessions : settle[s].seen.balance + settle[s].seen.spent = Grant

\* The account holds an estimate for every reservation that is not released,
\* those of sessions the reaper has failed included, until a settlement and
\* another update of the account overlap.  Requests alone never lose an update,
\* although budget_lock expires and is deleted before the commit.
AccountMirrorsReservations ==
  ~crossed => account.reserved =
                Estimate * Cardinality({s \in Sessions : session[s].hold = "active"})

\* Until then reservations are covered as well: as long as no session costs more
\* than its estimate, the holds of a user never exceed the balance.
Funded ==
  ~crossed /\ (\A s \in Sessions : session[s].charged <= Estimate)
    => account.reserved <= account.balance

\* The active sessions are counted before anything is locked, so requests that
\* overlap may each find none.  A user nevertheless never has more sessions that
\* have not ended than requests in flight at once.
ActiveBounded ==
  Cardinality({s \in Sessions : session[s].status \in WorkStatuses \cup ReviewStatuses})
    <= Cardinality(Requests)

=============================================================================
