------------------------ MODULE BudgetAccounts_proofs ------------------------
(***************************************************************************)
(* Theorems about BudgetAccounts, for any number of requests and sessions, *)
(* any limits and amounts, and every fault.                                *)
(***************************************************************************)
EXTENDS BudgetAccounts, FiniteSetTheorems, TLAPS

USE BudgetAssumption DEF Created, Held, Released, Charged, history

\* The sum that Conserved speaks about, for the account and for what was read
\* of it.
Whole(acc) == acc.balance + acc.spent = Grant

\* What apply_reserve and apply_release store leaves balance and spent as they
\* were committed, whatever was read; apply_commit writes both, as computed
\* from what it read, or neither.
LEMMA StoredWhole ==
  ASSUME NEW seen \in Account, account \in Account, Whole(account)
  PROVE  /\ Stored(seen, Reserved(seen)) \in Account
         /\ Whole(Stored(seen, Reserved(seen)))
         /\ Stored(seen, Unreserved(seen)) \in Account
         /\ Whole(Stored(seen, Unreserved(seen)))
         /\ Whole(seen) => \A cost \in Nat :
              /\ Stored(seen, Committed(seen, cost)) \in Account
              /\ Whole(Stored(seen, Committed(seen, cost)))
<1>1. /\ Reserved(seen) \in Account
      /\ Reserved(seen).balance = seen.balance /\ Reserved(seen).spent = seen.spent
  BY DEF Reserved, Account
<1>2. /\ Unreserved(seen) \in Account
      /\ Unreserved(seen).balance = seen.balance /\ Unreserved(seen).spent = seen.spent
  BY DEF Unreserved, Account
<1>3. ASSUME NEW new \in Account, new.balance = seen.balance, new.spent = seen.spent
      PROVE  Stored(seen, new) \in Account /\ Whole(Stored(seen, new))
  BY <1>3 DEF Stored, Written, Whole, Account
<1>4. ASSUME Whole(seen), NEW cost \in Nat
      PROVE  /\ Stored(seen, Committed(seen, cost)) \in Account
             /\ Whole(Stored(seen, Committed(seen, cost)))
  <2> DEFINE u == Unreserved(seen)
             new == Committed(seen, cost)
  <2>1. u \in Account BY <1>2
  <2>2. new = [u EXCEPT !.balance = seen.balance - cost, !.spent = seen.spent + cost]
    BY DEF Committed
  <2>3. seen.balance - cost \in Int /\ seen.spent + cost \in Int BY DEF Account
  <2> HIDE DEF u
  <2>4. /\ new \in Account
        /\ new.balance = seen.balance - cost /\ new.spent = seen.spent + cost
    BY <2>1, <2>2, <2>3 DEF Account
  <2> HIDE DEF new
  <2>5. Stored(seen, new) \in Account /\ Whole(Stored(seen, new))
    <3>1. CASE cost = 0
      BY <1>4, <2>4, <3>1 DEF Stored, Written, Whole, Account
    <3>2. CASE cost # 0
      BY <1>4, <2>4, <3>2 DEF Stored, Written, Whole, Account
    <3> QED BY <3>1, <3>2
  <2> QED BY <2>5 DEF new
<1> QED BY <1>1, <1>2, <1>3, <1>4

\* A new request, settlement and session are well typed.
LEMMA NewRowsTyped ==
  /\ NewSession \in SessionRow
  /\ Opened \in Account /\ Whole(Opened)
  /\ NoRequestYet \in Request
  /\ NoSettlement \in Settlement /\ NoSettlement.seen = Opened
BY DEF NewSession, SessionRow, Opened, Account, Whole, NoRequestYet, Request,
       NoSettlement, Settlement, Statuses, Phases, Absent, NoPhase

\* The initial state is well typed and conserved.
LEMMA InitConserved == Init => ConservedInv
<1> SUFFICES ASSUME Init PROVE ConservedInv OBVIOUS
<1>1. TypeOK
  <2>1. /\ session \in [Sessions -> SessionRow] /\ req \in [Requests -> Request]
        /\ settle \in [Sessions -> Settlement] /\ account \in Account
    BY NewRowsTyped DEF Init
  <2>2. quota \in [used : Nat, day : 0..MaxDay] /\ today \in 0..MaxDay
    BY DEF Init
  <2>3. lock \in Requests \cup {NoRequest} /\ late \in BOOLEAN /\ crossed \in BOOLEAN
    BY DEF Init
  <2> QED BY <2>1, <2>2, <2>3 DEF TypeOK
<1>2. Conserved
  BY NewRowsTyped DEF Init, Conserved, Whole
<1>3. \A s \in Sessions : settle[s].seen.balance + settle[s].seen.spent = Grant
  BY NewRowsTyped DEF Init, Whole
<1> QED BY <1>1, <1>2, <1>3 DEF ConservedInv

\* A step of a request keeps the rows typed and the account conserved.
LEMMA RequestConserves ==
  ASSUME ConservedInv, NEW r \in Requests, RequestStep(r)
  PROVE  ConservedInv'
<1> USE DEF ConservedInv
<1>t. TypeOK /\ req[r] \in Request
  BY DEF TypeOK
<1>f. req[r].seen \in Account /\ req[r].day \in 0..MaxDay /\ req[r].key \in Keys \cup {NoKey}
  BY <1>t DEF Request
<1>c. ASSUME req' \in [Requests -> Request], lock' \in Requests \cup {NoRequest},
             UNCHANGED <<session, account, quota, today, settle, history>>
      PROVE  ConservedInv'
  BY <1>c, <1>t DEF TypeOK, Conserved
<1>s. ASSUME NEW pc \in {"idle", "counted", "slot", "locked", "read", "written", "unlocked"},
             Step(r, pc)
      PROVE  req' \in [Requests -> Request]
  <2> DEFINE row == [req[r] EXCEPT !.pc = pc]
  <2>1. row \in Request BY <1>t DEF Request
  <2>2. req' = [req EXCEPT ![r] = row] BY <1>s DEF Step
  <2> HIDE DEF row
  <2> QED BY <1>t, <2>1, <2>2 DEF TypeOK
<1>l. ASSUME Leave(r) PROVE req' \in [Requests -> Request]
  BY <1>l, <1>t, NewRowsTyped DEF Leave, TypeOK
<1>k. lock \in Requests \cup {NoRequest}
  BY <1>t DEF TypeOK
<1>1. ASSUME NEW s \in Sessions, NEW k \in Keys \cup {NoKey}, Admit(r, s, k)
      PROVE  ConservedInv'
  <2> DEFINE row == [pc |-> "counted", session |-> s, key |-> k, day |-> today,
                     seen |-> Opened]
  <2>1. row \in Request BY <1>t, NewRowsTyped DEF Request, TypeOK
  <2>2. req' = [req EXCEPT ![r] = row] BY <1>1 DEF Admit
  <2> HIDE DEF row
  <2>3. req' \in [Requests -> Request] BY <1>t, <2>1, <2>2 DEF TypeOK
  <2> QED BY <1>c, <1>k, <1>1, <2>3 DEF Admit
<1>2. CASE ConsumeSlot(r) BY <1>c, <1>s, <1>k, <1>2 DEF ConsumeSlot
<1>3. CASE LockBudget(r) BY <1>c, <1>s, <1>k, <1>3 DEF LockBudget
<1>4. CASE ReadAccount(r)
  <2> DEFINE row == [req[r] EXCEPT !.pc = "read", !.seen = account]
  <2>1. row \in Request BY <1>t DEF Request, TypeOK
  <2>2. req' = [req EXCEPT ![r] = row] BY <1>4 DEF ReadAccount
  <2> HIDE DEF row
  <2>3. req' \in [Requests -> Request] BY <1>t, <2>1, <2>2 DEF TypeOK
  <2> QED BY <1>c, <1>k, <1>4, <2>3 DEF ReadAccount
<1>5. CASE WriteAccount(r) BY <1>c, <1>s, <1>k, <1>5 DEF WriteAccount
<1>6. CASE UnlockBudget(r) BY <1>c, <1>s, <1>k, <1>6 DEF UnlockBudget
<1>7. CASE Refuse(r) BY <1>c, <1>l, <1>k, <1>7 DEF Refuse
<1>8. CASE CrashRequest(r) BY <1>c, <1>l, <1>k, <1>8 DEF CrashRequest
<1>9. CASE CommitRequest(r)
  <2> DEFINE row == Held(Created(req[r]))
  <2>1. row \in SessionRow
    BY <1>f DEF SessionRow, Statuses, Phases
  <2>2. session' = [session EXCEPT ![req[r].session] = row]
    BY <1>9 DEF CommitRequest
  <2> HIDE DEF row
  <2>3. session' \in [Sessions -> SessionRow]
    BY <1>t, <2>1, <2>2 DEF TypeOK
  <2>4. account' \in Account /\ Whole(account')
    BY <1>t, <1>f, <1>9, StoredWhole DEF CommitRequest, TypeOK, Conserved, Whole
  <2>5. quota' \in [used : Nat, day : 0..MaxDay]
    BY <1>t, <1>f, <1>9 DEF CommitRequest, Consumed, TypeOK
  <2>6. req' \in [Requests -> Request] BY <1>l, <1>9 DEF CommitRequest
  <2> QED BY <1>t, <1>9, <2>3, <2>4, <2>5, <2>6 DEF CommitRequest, TypeOK, Conserved, Whole
<1> QED BY <1>1, <1>2, <1>3, <1>4, <1>5, <1>6, <1>7, <1>8, <1>9 DEF RequestStep

\* A step of a worker, the user or the reaper does as well.
LEMMA SessionConserves ==
  ASSUME ConservedInv, NEW s \in Sessions, SessionStep(s)
  PROVE  ConservedInv'
<1> USE DEF ConservedInv
<1>t. TypeOK /\ session[s] \in SessionRow /\ settle[s] \in Settlement
  BY DEF TypeOK
<1>n. session[s].charged \in Nat /\ session[s].phase \in Phases \cup {NoPhase}
  BY <1>t DEF SessionRow
<1>m. ASSUME NEW st \in Statuses \cup {Absent}, NEW ph \in Phases \cup {NoPhase}
      PROVE  Moved(s, st, ph) \in SessionRow
  BY <1>t DEF Moved, SessionRow
<1>p. ASSUME NEW st \in Statuses \cup {Absent}, NEW sum \in Nat
      PROVE  Persisted(s, st, sum) \in SessionRow
  <2> DEFINE row == Moved(s, st, IF st = "AGENT_REJECTED" THEN NoPhase ELSE session[s].phase)
  <2>1. row \in SessionRow BY <1>m, <1>n
  <2>2. Persisted(s, st, sum) = [row EXCEPT !.charged = sum] BY DEF Persisted
  <2> HIDE DEF row
  <2> QED BY <2>1, <2>2 DEF SessionRow
<1>c. ASSUME NEW row \in SessionRow, session' = [session EXCEPT ![s] = row],
             UNCHANGED <<account, quota, lock, today, req, settle, history>>
      PROVE  ConservedInv'
  BY <1>c, <1>t DEF TypeOK, Conserved
<1>d. ASSUME NEW row \in Settlement, settle' = [settle EXCEPT ![s] = row],
             Whole(row.seen),
             UNCHANGED <<session, account, quota, lock, today, req, history>>
      PROVE  ConservedInv'
  BY <1>d, <1>t DEF TypeOK, Conserved, Whole
<1>k. Costs \cup {0} \subseteq Nat
  OBVIOUS
<1>1. ASSUME NEW cost \in Costs, PersistOutline(s, cost)
      PROVE  ConservedInv'
  <2>1. Persisted(s, "AWAITING_OUTLINE_REVIEW", session[s].charged + cost) \in SessionRow
    <3>1. "AWAITING_OUTLINE_REVIEW" \in Statuses BY DEF Statuses
    <3>2. session[s].charged + cost \in Nat BY <1>n, <1>k
    <3> QED BY <1>p, <3>1, <3>2
  <2> QED BY <1>c, <1>1, <2>1 DEF PersistOutline
<1>2. ASSUME NEW to \in Statuses, NEW cost \in Costs \cup {0}, PersistWithoutHold(s, to, cost)
      PROVE  ConservedInv'
  <2>1. Persisted(s, to, session[s].charged + cost) \in SessionRow
    <3>c. cost \in Nat BY <1>k
    <3>1. session[s].charged + cost \in Nat BY <1>n, <3>c
    <3>2. to \in Statuses \cup {Absent} OBVIOUS
    <3> QED BY <1>p, <3>1, <3>2
  <2> QED BY <1>c, <1>2, <2>1 DEF PersistWithoutHold
<1>3. ASSUME NEW to \in Statuses, NEW cost \in Costs \cup {0}, ReadForSettlement(s, to, cost)
      PROVE  ConservedInv'
  <2> DEFINE row == [pc |-> "read", to |-> to, cost |-> cost, seen |-> account]
  <2>1. row \in Settlement BY <1>t, <1>k DEF Settlement, TypeOK
  <2>2. Whole(row.seen) BY DEF Conserved, Whole
  <2>3. settle' = [settle EXCEPT ![s] = row] BY <1>3 DEF ReadForSettlement
  <2> HIDE DEF row
  <2> QED BY <1>d, <1>3, <2>1, <2>2, <2>3 DEF ReadForSettlement
<1>4. CASE WriteSettlement(s)
  <2> DEFINE row == [settle[s] EXCEPT !.pc = "written"]
  <2>1. row \in Settlement /\ row.seen = settle[s].seen BY <1>t DEF Settlement
  <2>2. settle' = [settle EXCEPT ![s] = row] BY <1>4 DEF WriteSettlement
  <2>3. Whole(row.seen) BY <2>1 DEF Whole
  <2> HIDE DEF row
  <2> QED BY <1>d, <1>4, <2>1, <2>2, <2>3 DEF WriteSettlement
<1>5. CASE CommitSettlement(s)
  <2> DEFINE t   == settle[s]
             sum == session[s].charged + t.cost
             row == [Persisted(s, t.to, sum) EXCEPT !.hold = "released"]
  <2>1. t.seen \in Account /\ Whole(t.seen) /\ t.cost \in Nat /\ sum \in Nat
    BY <1>t, <1>n DEF Settlement, Whole
  <2>2. account' \in Account /\ Whole(account')
    BY <1>t, <1>5, <2>1, StoredWhole DEF CommitSettlement, TypeOK, Conserved, Whole
  <2>3. row \in SessionRow
    <3> DEFINE kept == Persisted(s, t.to, sum)
    <3>1. t.to \in Statuses \cup {Absent} BY <1>t DEF Settlement
    <3>2. kept \in SessionRow BY <2>1, <3>1, <1>p
    <3>3. row = [kept EXCEPT !.hold = "released"] OBVIOUS
    <3> HIDE DEF kept, row, sum, t
    <3> QED BY <3>2, <3>3 DEF SessionRow
  <2>4. session' = [session EXCEPT ![s] = row] /\ settle' = [settle EXCEPT ![s] = NoSettlement]
    BY <1>5 DEF CommitSettlement
  <2> HIDE DEF row
  <2>5. session' \in [Sessions -> SessionRow] BY <1>t, <2>3, <2>4 DEF TypeOK
  <2>6. /\ settle' \in [Sessions -> Settlement]
        /\ \A q \in Sessions : Whole(settle'[q].seen)
    BY <1>t, <2>4, NewRowsTyped DEF TypeOK, Whole
  <2> QED BY <1>t, <1>5, <2>2, <2>5, <2>6 DEF CommitSettlement, TypeOK, Conserved, Whole
<1>6. CASE CrashSettlement(s)
  BY <1>d, <1>6, NewRowsTyped DEF CrashSettlement
<1>7. CASE Review(s)
  <2>1. /\ Moved(s, "QUEUED", "research_phase") \in SessionRow
        /\ Moved(s, "QUEUED", "revision") \in SessionRow
        /\ Moved(s, "COMPLETED", session[s].phase) \in SessionRow
        /\ Moved(s, "REJECTED", NoPhase) \in SessionRow
    BY <1>m, <1>n DEF Statuses, Phases
  <2> QED BY <1>c, <1>7, <2>1 DEF Review
<1>8. CASE Reap(s)
  <2>1. Moved(s, "FAILED", session[s].phase) \in SessionRow
    BY <1>m, <1>n DEF Statuses
  <2> QED BY <1>c, <1>8, <2>1 DEF Reap
<1> QED BY <1>1, <1>2, <1>3, <1>4, <1>5, <1>6, <1>7, <1>8 DEF SessionStep

\* The inductive invariant holds in every reachable state.
THEOREM ConservedInvariant == Spec => []ConservedInv
<1>1. ConservedInv /\ [Next]_vars => ConservedInv'
  <2> SUFFICES ASSUME ConservedInv, [Next]_vars PROVE ConservedInv' OBVIOUS
  <2>1. ASSUME NEW r \in Requests, RequestStep(r) PROVE ConservedInv'
    BY <2>1, RequestConserves
  <2>2. ASSUME NEW s \in Sessions, SessionStep(s) PROVE ConservedInv'
    BY <2>2, SessionConserves
  <2>3. CASE LockExpires
    BY <2>3 DEF LockExpires, ConservedInv, TypeOK, Conserved
  <2>4. CASE NewDay
    BY <2>4 DEF NewDay, ConservedInv, TypeOK, Conserved
  <2>5. CASE UNCHANGED vars
    BY <2>5 DEF vars, ConservedInv, TypeOK, Conserved
  <2> QED BY <2>1, <2>2, <2>3, <2>4, <2>5 DEF Next
<1> QED BY <1>1, InitConserved, PTL DEF Spec

\* Whatever races, crashes and lost updates occur, and however many requests and
\* sessions a user has: the money that has left the balance is the money booked
\* as spent.
THEOREM MoneyIsConserved == Spec => []Conserved
<1>1. ConservedInv => Conserved BY DEF ConservedInv
<1> QED BY <1>1, ConservedInvariant, PTL

\* Only a commit of a request gives a session a key.
LEMMA KeysKept ==
  ASSUME TypeOK, NEW s \in Sessions, SessionStep(s)
  PROVE  \A t \in Sessions : session'[t].key = session[t].key
<1>1. ASSUME NEW row, row.key = session[s].key, session' = [session EXCEPT ![s] = row]
      PROVE  \A t \in Sessions : session'[t].key = session[t].key
  BY <1>1 DEF TypeOK
<1>2. session[s] \in SessionRow BY DEF TypeOK
<1>3. ASSUME NEW st, NEW ph
      PROVE  /\ Moved(s, st, ph).key = session[s].key
             /\ \A sum : /\ [Moved(s, st, ph) EXCEPT !.charged = sum].key = session[s].key
                        /\ [[Moved(s, st, ph) EXCEPT !.charged = sum]
                             EXCEPT !.hold = "released"].key = session[s].key
  BY <1>2 DEF Moved, SessionRow
<1>4. ASSUME NEW st, NEW sum
      PROVE  /\ Persisted(s, st, sum).key = session[s].key
             /\ [Persisted(s, st, sum) EXCEPT !.hold = "released"].key = session[s].key
  BY <1>3 DEF Persisted
<1>5. ASSUME NEW cost \in Costs, PersistOutline(s, cost)
      PROVE  \A t \in Sessions : session'[t].key = session[t].key
  BY <1>1, <1>4, <1>5 DEF PersistOutline
<1>6. ASSUME NEW to, NEW cost, PersistWithoutHold(s, to, cost)
      PROVE  \A t \in Sessions : session'[t].key = session[t].key
  BY <1>1, <1>4, <1>6 DEF PersistWithoutHold
<1>7. ASSUME NEW to, NEW cost, ReadForSettlement(s, to, cost) PROVE session' = session
  BY <1>7 DEF ReadForSettlement
<1>8. CASE CommitSettlement(s)
  BY <1>1, <1>4, <1>8 DEF CommitSettlement
<1>9. CASE Review(s) BY <1>1, <1>3, <1>9 DEF Review
<1>10. CASE Reap(s) BY <1>1, <1>3, <1>10 DEF Reap
<1>11. CASE WriteSettlement(s) \/ CrashSettlement(s)
  BY <1>11 DEF WriteSettlement, CrashSettlement
<1> QED BY <1>5, <1>6, <1>7, <1>8, <1>9, <1>10, <1>11 DEF SessionStep

\* The row lock of the upsert keeps the requests of a user apart, and the unique
\* constraint is looked at under it.
LEMMA RequestKeepsKeys ==
  ASSUME TypeOK, KeyInv, NEW r \in Requests, RequestStep(r)
  PROVE  KeyInv'
<1> DEFINE Inside(q) == req[q].pc \notin {"idle", "counted"}
<1>f. req[r] \in Request BY DEF TypeOK
\* A step that leaves the sessions and puts a row for r that is inside only if r
\* was, and then with the same key, keeps the invariant.
<1>k. ASSUME session' = session, NEW row,
             req' = [req EXCEPT ![r] = row],
             row.pc \notin {"idle", "counted"} => Inside(r) /\ row.key = req[r].key
      PROVE  KeyInv'
  <2>1. \A q \in Requests : req'[q].pc \notin {"idle", "counted"}
                            => Inside(q) /\ req'[q].key = req[q].key
    BY <1>k DEF TypeOK
  <2> QED BY <1>k, <2>1 DEF KeyInv, OneSessionPerKey, KeyFree
<1>1. ASSUME NEW s \in Sessions, NEW k \in Keys \cup {NoKey}, Admit(r, s, k)
      PROVE  KeyInv'
  <2> DEFINE row == [pc |-> "counted", session |-> s, key |-> k, day |-> today, seen |-> Opened]
  <2>1. row.pc = "counted" OBVIOUS
  <2>2. req' = [req EXCEPT ![r] = row] /\ session' = session BY <1>1 DEF Admit
  <2> HIDE DEF row
  <2> QED BY <1>k, <2>1, <2>2
<1>2. CASE ConsumeSlot(r)
  <2>1. /\ req'[r].key = req[r].key
        /\ \A q \in Requests : q # r => req'[q] = req[q]
        /\ session' = session
    BY <1>f, <1>2 DEF ConsumeSlot, Step, TypeOK, Request
  <2>2. KeyFree(req[r].key) /\ \A q \in Requests : ~Inside(q)
    BY <1>2 DEF ConsumeSlot, QuotaUnlocked
  <2> QED BY <2>1, <2>2 DEF KeyInv, OneSessionPerKey, KeyFree
<1>3. CASE LockBudget(r) \/ WriteAccount(r) \/ UnlockBudget(r)
  <2>1. PICK pc : Step(r, pc) /\ Inside(r) /\ session' = session
    BY <1>3 DEF LockBudget, WriteAccount, UnlockBudget
  <2> DEFINE row == [req[r] EXCEPT !.pc = pc]
  <2>2. row.key = req[r].key BY <1>f DEF Request
  <2>3. req' = [req EXCEPT ![r] = row] BY <2>1 DEF Step
  <2> HIDE DEF row
  <2> QED BY <1>k, <2>1, <2>2, <2>3
<1>4. CASE ReadAccount(r)
  <2> DEFINE row == [req[r] EXCEPT !.pc = "read", !.seen = account]
  <2>1. row.key = req[r].key BY <1>f DEF Request
  <2>2. req' = [req EXCEPT ![r] = row] /\ Inside(r) /\ session' = session
    BY <1>4 DEF ReadAccount
  <2> HIDE DEF row
  <2> QED BY <1>k, <2>1, <2>2
<1>5. CASE Refuse(r) \/ CrashRequest(r)
  <2>1. req' = [req EXCEPT ![r] = NoRequestYet] /\ session' = session
    BY <1>5 DEF Refuse, CrashRequest, Leave
  <2>2. NoRequestYet.pc = "idle" BY DEF NoRequestYet
  <2> QED BY <1>k, <2>1, <2>2
<1>6. CASE CommitRequest(r)
  <2> DEFINE row == Held(Created(req[r]))
             t == req[r].session
  <2>1. Inside(r) /\ row.key = req[r].key BY <1>6 DEF CommitRequest
  <2>2. session' = [session EXCEPT ![t] = row] /\ req' = [req EXCEPT ![r] = NoRequestYet]
    BY <1>6 DEF CommitRequest, Leave
  <2> HIDE DEF row, t
  <2>3. \A s \in Sessions : session'[s] = IF s = t THEN row ELSE session[s]
    BY <2>2 DEF TypeOK
  <2>4. OneSessionPerKey'
    BY <2>1, <2>3 DEF KeyInv, OneSessionPerKey, KeyFree
  <2>5. \A q \in Requests : req'[q].pc \in {"idle", "counted"}
    <3>1. \A q \in Requests : req'[q] = IF q = r THEN NoRequestYet ELSE req[q]
      BY <2>2 DEF TypeOK
    <3> QED BY <2>1, <3>1 DEF KeyInv, NoRequestYet
  <2> QED BY <2>4, <2>5 DEF KeyInv
<1> QED BY <1>1, <1>2, <1>3, <1>4, <1>5, <1>6 DEF RequestStep

\* From its upsert to its commit a request of a user is alone, and its key free.
LEMMA KeyInvariant == Spec => []KeyInv
<1>1. Init => KeyInv
  BY DEF Init, KeyInv, OneSessionPerKey, NewSession, NoRequestYet
<1>2. ConservedInv /\ KeyInv /\ [Next]_vars => KeyInv'
  <2> SUFFICES ASSUME TypeOK, KeyInv, [Next]_vars PROVE KeyInv'
    BY DEF ConservedInv
  <2>1. ASSUME NEW r \in Requests, RequestStep(r) PROVE KeyInv'
    BY <2>1, RequestKeepsKeys
  <2>2. ASSUME NEW s \in Sessions, SessionStep(s) PROVE KeyInv'
    <3>1. req' = req
      BY <2>2 DEF SessionStep, PersistOutline, PersistWithoutHold, ReadForSettlement,
                  WriteSettlement, CommitSettlement, CrashSettlement, Review, Reap
    <3>2. \A t \in Sessions : session'[t].key = session[t].key
      BY <2>2, KeysKept
    <3> QED BY <3>1, <3>2 DEF KeyInv, OneSessionPerKey, KeyFree
  <2>3. CASE LockExpires \/ NewDay \/ UNCHANGED vars
    BY <2>3 DEF LockExpires, NewDay, vars, KeyInv, OneSessionPerKey, KeyFree
  <2> QED BY <2>1, <2>2, <2>3 DEF Next
<1> QED BY <1>1, <1>2, ConservedInvariant, PTL DEF Spec

\* However the requests of a user race, crash, or outlive their Redis lock, an
\* Idempotency-Key names at most one session.
THEOREM KeysAreUnique == Spec => []OneSessionPerKey
<1>1. KeyInv => OneSessionPerKey BY DEF KeyInv
<1> QED BY <1>1, KeyInvariant, PTL
-----------------------------------------------------------------------------
(* The daily limit *)

\* The sessions that used a slot of a day; the requests that are between their
\* upsert and their commit.
Taken(d)  == {s \in Sessions : session[s].status # Absent /\ session[s].day = d}
Inside(r) == req[r].pc \notin {"idle", "counted"}

\* The quota row counts the sessions of its day, and no session is of a later
\* day, as long as no slot has been booked late.
SlotsCounted ==
  ~late =>
    /\ quota.used = Cardinality(Taken(quota.day))
    /\ \A d \in 0..MaxDay : IsFiniteSet(Taken(d)) /\ Cardinality(Taken(d)) <= DailyLimit
    /\ \A s \in Sessions : session[s].status # Absent => session[s].day <= quota.day

\* A request is about to insert a session of its own.
RequestsReserve ==
  /\ \A r \in Requests : req[r].pc # "idle" =>
       req[r].session \in Sessions /\ session[req[r].session].status = Absent
  /\ \A r, q \in Requests :
       req[r].pc # "idle" /\ req[q].pc # "idle" /\ req[r].session = req[q].session
         => r = q

\* What the condition of the upsert saw still holds at the commit.
SlotsHeld == \A r \in Requests : Inside(r) => SlotFree(req[r].day)

\* A settlement holds the lock of a session in work.
SettlesQueued ==
  \A s \in Sessions : settle[s].pc # "idle" =>
     session[s].status = "QUEUED" /\ settle[s].to \in Statuses

\* Requests of one user inside their transactions exclude each other.
InsideAlone == \A r, q \in Requests : Inside(r) /\ Inside(q) => r = q

QuotaInv == SlotsCounted /\ RequestsReserve /\ SlotsHeld /\ SettlesQueued

\* A session moves without its account: it keeps its key, its day and its
\* reservation, and what it has been charged.
Rewritten(s) ==
  \E row \in SessionRow :
    /\ session' = [session EXCEPT ![s] = row]
    /\ row.key = session[s].key /\ row.day = session[s].day
    /\ row.hold = session[s].hold /\ row.charged >= session[s].charged
    /\ row.status # Absent /\ session[s].status \in ActiveStatuses
    /\ settle[s].pc = "idle" \/ session[s].status # "QUEUED"
    /\ UNCHANGED <<account, quota, lock, today, req, settle, history>>

\* The rows that the steps of a session write.
LEMMA RowsWritten ==
  ASSUME TypeOK, NEW s \in Sessions
  PROVE  /\ \A st \in Statuses, ph \in Phases \cup {NoPhase} :
              LET row == Moved(s, st, ph)
              IN /\ row \in SessionRow /\ row.status = st
                 /\ row.key = session[s].key /\ row.day = session[s].day
                 /\ row.hold = session[s].hold /\ row.charged = session[s].charged
         /\ \A st \in Statuses, sum \in Nat :
              LET row == Persisted(s, st, sum)
              IN /\ row \in SessionRow /\ row.status = st
                 /\ row.key = session[s].key /\ row.day = session[s].day
                 /\ row.hold = session[s].hold /\ row.charged = sum
<1>t. session[s] \in SessionRow /\ session[s].phase \in Phases \cup {NoPhase}
  BY DEF TypeOK, SessionRow
<1>1. ASSUME NEW st \in Statuses, NEW ph \in Phases \cup {NoPhase}
      PROVE  LET row == Moved(s, st, ph)
             IN /\ row \in SessionRow /\ row.status = st
                /\ row.key = session[s].key /\ row.day = session[s].day
                /\ row.hold = session[s].hold /\ row.charged = session[s].charged
  BY <1>t DEF Moved, SessionRow
<1>2. ASSUME NEW st \in Statuses, NEW sum \in Nat
      PROVE  LET row == Persisted(s, st, sum)
             IN /\ row \in SessionRow /\ row.status = st
                /\ row.key = session[s].key /\ row.day = session[s].day
                /\ row.hold = session[s].hold /\ row.charged = sum
  <2> DEFINE moved == Moved(s, st, IF st = "AGENT_REJECTED" THEN NoPhase ELSE session[s].phase)
  <2>1. /\ moved \in SessionRow /\ moved.status = st
        /\ moved.key = session[s].key /\ moved.day = session[s].day
        /\ moved.hold = session[s].hold
    BY <1>1, <1>t
  <2>2. Persisted(s, st, sum) = [moved EXCEPT !.charged = sum] BY DEF Persisted
  <2> HIDE DEF moved
  <2> QED BY <2>1, <2>2 DEF SessionRow
<1> QED BY <1>1, <1>2

\* Which steps of a session leave the account alone.
LEMMA SessionRewritten ==
  ASSUME TypeOK, NEW s \in Sessions, SessionStep(s)
  PROVE  \/ Rewritten(s)
         \/ \E to \in Statuses, cost \in Costs \cup {0} : ReadForSettlement(s, to, cost)
         \/ WriteSettlement(s) \/ CommitSettlement(s) \/ CrashSettlement(s)
<1>k. session[s].charged \in Nat /\ Costs \cup {0} \subseteq Nat
      /\ session[s].phase \in Phases \cup {NoPhase}
  BY DEF TypeOK, SessionRow
<1>a. Absent \notin Statuses /\ "QUEUED" \in ActiveStatuses
      /\ ReviewStatuses \subseteq ActiveStatuses /\ "QUEUED" \notin ReviewStatuses
      /\ ReviewStatuses = {"AWAITING_OUTLINE_REVIEW", "AWAITING_FINAL_REVIEW"}
  BY DEF Absent, Statuses, ActiveStatuses, WorkStatuses, ReviewStatuses
<1>1. ASSUME NEW cost \in Costs, PersistOutline(s, cost)
      PROVE  Rewritten(s)
  <2> DEFINE row == Persisted(s, "AWAITING_OUTLINE_REVIEW", session[s].charged + cost)
  <2>1. "AWAITING_OUTLINE_REVIEW" \in Statuses BY DEF Statuses
  <2>2. session[s].charged + cost \in Nat BY <1>k
  <2>3. /\ row \in SessionRow /\ row.status \in Statuses
        /\ row.key = session[s].key /\ row.day = session[s].day
        /\ row.hold = session[s].hold /\ row.charged >= session[s].charged
    BY <1>k, <2>1, <2>2, RowsWritten
  <2>4. session' = [session EXCEPT ![s] = row] BY <1>1 DEF PersistOutline
  <2> HIDE DEF row
  <2> QED BY <1>1, <1>a, <2>3, <2>4 DEF PersistOutline, Rewritten
<1>2. ASSUME NEW to \in Statuses, NEW cost \in Costs \cup {0}, PersistWithoutHold(s, to, cost)
      PROVE  Rewritten(s)
  <2> DEFINE row == Persisted(s, to, session[s].charged + cost)
  <2>1. cost \in Nat BY <1>k
  <2>2. session[s].charged + cost \in Nat BY <1>k, <2>1
  <2>3. /\ row \in SessionRow /\ row.status \in Statuses
        /\ row.key = session[s].key /\ row.day = session[s].day
        /\ row.hold = session[s].hold /\ row.charged >= session[s].charged
    BY <1>k, <2>2, RowsWritten
  <2>4. session' = [session EXCEPT ![s] = row] BY <1>2 DEF PersistWithoutHold
  <2> HIDE DEF row
  <2> QED BY <1>2, <1>a, <2>3, <2>4 DEF PersistWithoutHold, Outcome, Rewritten
<1>3. CASE Review(s)
  <2>1. PICK st \in Statuses, ph \in Phases \cup {NoPhase} :
          /\ session' = [session EXCEPT ![s] = Moved(s, st, ph)]
          /\ session[s].status \in ReviewStatuses
    BY <1>3, <1>k, <1>a DEF Review, Statuses, Phases
  <2> DEFINE row == Moved(s, st, ph)
  <2>2. /\ row \in SessionRow /\ row.status \in Statuses
        /\ row.key = session[s].key /\ row.day = session[s].day
        /\ row.hold = session[s].hold /\ row.charged >= session[s].charged
    BY <1>k, RowsWritten
  <2>3. session' = [session EXCEPT ![s] = row] BY <2>1
  <2> HIDE DEF row
  <2> QED BY <1>3, <1>a, <2>1, <2>2, <2>3 DEF Review, Rewritten
<1>4. CASE Reap(s)
  <2> DEFINE row == Moved(s, "FAILED", session[s].phase)
  <2>1. "FAILED" \in Statuses BY DEF Statuses
  <2>2. /\ row \in SessionRow /\ row.status \in Statuses
        /\ row.key = session[s].key /\ row.day = session[s].day
        /\ row.hold = session[s].hold /\ row.charged >= session[s].charged
    BY <1>k, <2>1, RowsWritten
  <2>3. session' = [session EXCEPT ![s] = row] BY <1>4 DEF Reap
  <2> HIDE DEF row
  <2> QED BY <1>4, <1>a, <2>2, <2>3 DEF Reap, Rewritten
<1> QED BY <1>1, <1>2, <1>3, <1>4 DEF SessionStep

\* A settlement ends its session, which keeps its key and its day.
LEMMA SettlementWrites ==
  ASSUME TypeOK, SettlesQueued, NEW s \in Sessions, CommitSettlement(s)
  PROVE  \E row \in SessionRow :
           /\ session' = [session EXCEPT ![s] = row]
           /\ row.key = session[s].key /\ row.day = session[s].day
           /\ row.status = settle[s].to /\ row.status \in Statuses
           /\ row.hold = "released" /\ row.charged = session[s].charged + settle[s].cost
<1> DEFINE sum  == session[s].charged + settle[s].cost
           kept == Persisted(s, settle[s].to, sum)
           row  == [kept EXCEPT !.hold = "released"]
<1>1. sum \in Nat /\ settle[s].to \in Statuses
  BY DEF TypeOK, SessionRow, Settlement, SettlesQueued, CommitSettlement
<1>2. /\ kept \in SessionRow /\ kept.status = settle[s].to
      /\ kept.key = session[s].key /\ kept.day = session[s].day
      /\ kept.charged = sum
  BY <1>1, RowsWritten
<1>3. session' = [session EXCEPT ![s] = row] BY DEF CommitSettlement
<1> HIDE DEF kept
<1>4. /\ row \in SessionRow /\ row.status = settle[s].to /\ row.hold = "released"
      /\ row.key = session[s].key /\ row.day = session[s].day
      /\ row.charged = sum
  BY <1>2 DEF SessionRow
<1> HIDE DEF row
<1> QED BY <1>1, <1>3, <1>4

\* No step of a session makes or unmakes one, or changes its day.
LEMMA SessionsStay ==
  ASSUME TypeOK, SettlesQueued, NEW s \in Sessions, SessionStep(s)
  PROVE  /\ UNCHANGED <<quota, lock, today, req, late>>
         /\ \A t \in Sessions : /\ session'[t].status = Absent <=> session[t].status = Absent
                                /\ session'[t].day = session[t].day
         /\ SettlesQueued'
<1>a. Absent \notin Statuses /\ Absent \notin ActiveStatuses
  BY DEF Absent, Statuses, ActiveStatuses, WorkStatuses, ReviewStatuses
<1>1. CASE Rewritten(s)
  BY <1>1, <1>a DEF Rewritten, TypeOK, SettlesQueued
<1>2. ASSUME NEW to \in Statuses, NEW cost \in Costs \cup {0}, ReadForSettlement(s, to, cost)
      PROVE  SettlesQueued' /\ UNCHANGED <<session, quota, lock, today, req, late>>
  <2> DEFINE row == [pc |-> "read", to |-> to, cost |-> cost, seen |-> account]
  <2>1. row.to \in Statuses OBVIOUS
  <2>2. settle' = [settle EXCEPT ![s] = row] BY <1>2 DEF ReadForSettlement
  <2> HIDE DEF row
  <2> QED BY <1>2, <2>1, <2>2 DEF ReadForSettlement, Outcome, TypeOK, SettlesQueued
<1>3. CASE WriteSettlement(s)
  <2> DEFINE row == [settle[s] EXCEPT !.pc = "written"]
  <2>1. row.to = settle[s].to BY DEF TypeOK, Settlement
  <2>2. settle' = [settle EXCEPT ![s] = row] BY <1>3 DEF WriteSettlement
  <2> HIDE DEF row
  <2> QED BY <1>3, <2>1, <2>2 DEF WriteSettlement, TypeOK, SettlesQueued
<1>4. CASE CommitSettlement(s)
  <2>1. session[s].status # Absent
    BY <1>4, <1>a DEF CommitSettlement, SettlesQueued, Absent
  <2>2. settle' = [settle EXCEPT ![s] = NoSettlement] /\ NoSettlement.pc = "idle"
    BY <1>4 DEF CommitSettlement, NoSettlement
  <2>3. UNCHANGED <<quota, lock, today, req, late>>
    BY <1>4 DEF CommitSettlement
  <2>4. PICK row \in SessionRow :
          /\ session' = [session EXCEPT ![s] = row]
          /\ row.day = session[s].day /\ row.status \in Statuses
    BY <1>4, SettlementWrites
  <2> QED BY <1>a, <2>1, <2>2, <2>3, <2>4 DEF TypeOK, SettlesQueued
<1>5. CASE CrashSettlement(s)
  <2>1. settle' = [settle EXCEPT ![s] = NoSettlement] /\ NoSettlement.pc = "idle"
    BY <1>5 DEF CrashSettlement, NoSettlement
  <2> QED BY <1>5, <2>1 DEF CrashSettlement, TypeOK, SettlesQueued
<1> QED BY <1>1, <1>2, <1>3, <1>4, <1>5, SessionRewritten

\* How a request moves.  It puts its row; it is admitted with a session of its
\* own; it goes on, the first time past its upsert; or it leaves.
Puts(r, row) ==
  /\ req' = [req EXCEPT ![r] = row]
  /\ UNCHANGED <<session, account, quota, today, settle, history>>

Opens(r) ==
  \E row \in Request :
    /\ Puts(r, row)
    /\ row.pc = "counted" /\ row.day = today
    /\ row.session \in Sessions /\ session[row.session].status = Absent
    /\ \A q \in Requests : req[q].session # row.session
    /\ ActiveSessions = {}

GoesOn(r) ==
  \E row \in Request :
    /\ Puts(r, row)
    /\ row.session = req[r].session /\ row.day = req[r].day
    /\ req[r].pc # "idle"
    /\ Inside(r) \/ (QuotaUnlocked /\ SlotFree(req[r].day))
    /\ row.pc \notin {"idle", "counted"}
    /\ row.pc \in {"read", "written", "unlocked"} =>
         \/ HasRead(r) /\ row.seen = req[r].seen
         \/ row.seen = account /\ Available(account) >= Estimate

LEMMA RequestMoves ==
  ASSUME TypeOK, NEW r \in Requests, RequestStep(r)
  PROVE  Opens(r) \/ GoesOn(r) \/ Puts(r, NoRequestYet) \/ CommitRequest(r)
<1>f. req[r] \in Request /\ account \in Account /\ today \in 0..MaxDay
  BY DEF TypeOK
<1>s. ASSUME NEW pc \in {"slot", "locked", "written", "unlocked"}, Step(r, pc),
             req[r].pc # "idle", Inside(r) \/ (QuotaUnlocked /\ SlotFree(req[r].day)),
             pc \in {"written", "unlocked"} => HasRead(r),
             UNCHANGED <<session, account, quota, today, settle, history>>
      PROVE  GoesOn(r)
  <2> DEFINE row == [req[r] EXCEPT !.pc = pc]
  <2>1. /\ row \in Request /\ row.session = req[r].session /\ row.day = req[r].day
        /\ row.pc = pc /\ row.seen = req[r].seen
    BY <1>f DEF Request
  <2>2. Puts(r, row) BY <1>s DEF Step, Puts
  <2> HIDE DEF row
  <2> QED BY <1>s, <2>1, <2>2 DEF GoesOn
<1>1. ASSUME NEW s \in Sessions, NEW k \in Keys \cup {NoKey}, Admit(r, s, k)
      PROVE  Opens(r)
  <2> DEFINE row == [pc |-> "counted", session |-> s, key |-> k, day |-> today, seen |-> Opened]
  <2>1. row \in Request /\ row.pc = "counted" /\ row.day = today /\ row.session = s
    BY <1>f, NewRowsTyped DEF Request
  <2>2. Puts(r, row) BY <1>1 DEF Admit, Puts
  <2> HIDE DEF row
  <2> QED BY <1>1, <2>1, <2>2 DEF Admit, Opens
<1>2. CASE ConsumeSlot(r) BY <1>2, <1>s DEF ConsumeSlot
<1>3. CASE LockBudget(r) BY <1>3, <1>s DEF LockBudget, Inside
<1>4. CASE ReadAccount(r)
  <2> DEFINE row == [req[r] EXCEPT !.pc = "read", !.seen = account]
  <2>1. /\ row \in Request /\ row.session = req[r].session /\ row.day = req[r].day
        /\ row.pc = "read" /\ row.seen = account
    BY <1>f DEF Request
  <2>2. Puts(r, row) BY <1>4 DEF ReadAccount, Puts
  <2> HIDE DEF row
  <2> QED BY <1>4, <2>1, <2>2 DEF ReadAccount, GoesOn, Inside
<1>5. CASE WriteAccount(r) BY <1>5, <1>s DEF WriteAccount, Inside, HasRead
<1>6. CASE UnlockBudget(r) BY <1>6, <1>s DEF UnlockBudget, Inside, HasRead
<1>7. CASE Refuse(r) BY <1>7 DEF Refuse, Leave, Puts
<1>8. CASE CrashRequest(r) BY <1>8 DEF CrashRequest, Leave, Puts
<1> QED BY <1>1, <1>2, <1>3, <1>4, <1>5, <1>6, <1>7, <1>8 DEF RequestStep

\* The session that a commit inserts.
LEMMA CommitInserts ==
  ASSUME TypeOK, RequestsReserve, NEW r \in Requests, CommitRequest(r)
  PROVE  \E row \in SessionRow :
           /\ session' = [session EXCEPT ![req[r].session] = row]
           /\ req[r].session \in Sessions /\ session[req[r].session].status = Absent
           /\ row.status = "QUEUED" /\ row.day = req[r].day /\ row.hold = "active"
           /\ row.charged = 0
           /\ req' = [req EXCEPT ![r] = NoRequestYet]
           /\ UNCHANGED <<lock, today, settle>>
<1> DEFINE row == Held(Created(req[r]))
<1>1. /\ row \in SessionRow /\ row.status = "QUEUED" /\ row.day = req[r].day
      /\ row.hold = "active" /\ row.charged = 0
  BY DEF TypeOK, Request, SessionRow, Statuses, Phases
<1>2. session' = [session EXCEPT ![req[r].session] = row]
  BY DEF CommitRequest
<1> HIDE DEF row
<1> QED BY <1>1, <1>2 DEF CommitRequest, Leave, RequestsReserve

\* Every request in progress keeps a session of its own that does not exist yet.
LEMMA RequestKeepsReserve ==
  ASSUME TypeOK, RequestsReserve, NEW r \in Requests, RequestStep(r)
  PROVE  RequestsReserve'
<1>i. NoRequestYet.pc = "idle" BY DEF NoRequestYet
<1>1. CASE Opens(r)
  <2>1. PICK row \in Request :
          /\ req' = [req EXCEPT ![r] = row] /\ session' = session
          /\ row.session \in Sessions /\ session[row.session].status = Absent
          /\ \A q \in Requests : req[q].session # row.session
    BY <1>1 DEF Opens, Puts
  <2> QED BY <2>1 DEF TypeOK, RequestsReserve
<1>2. CASE GoesOn(r)
  <2>1. PICK row \in Request :
          /\ req' = [req EXCEPT ![r] = row] /\ session' = session
          /\ row.session = req[r].session /\ req[r].pc # "idle"
    BY <1>2 DEF GoesOn, Puts
  <2> QED BY <2>1 DEF TypeOK, RequestsReserve
<1>3. CASE Puts(r, NoRequestYet)
  BY <1>i, <1>3 DEF Puts, TypeOK, RequestsReserve
<1>4. CASE CommitRequest(r)
  <2>1. PICK row \in SessionRow :
          /\ session' = [session EXCEPT ![req[r].session] = row]
          /\ req' = [req EXCEPT ![r] = NoRequestYet]
    BY <1>4, CommitInserts
  <2>2. req[r].pc # "idle" BY <1>4 DEF CommitRequest
  <2> QED BY <1>i, <2>1, <2>2 DEF TypeOK, RequestsReserve
<1> QED BY <1>1, <1>2, <1>3, <1>4, RequestMoves

\* The settlements in progress are not touched by a request.
LEMMA RequestKeepsSettlements ==
  ASSUME TypeOK, RequestsReserve, SettlesQueued, NEW r \in Requests, RequestStep(r)
  PROVE  SettlesQueued'
<1>1. CASE session' = session /\ settle' = settle
  BY <1>1 DEF SettlesQueued
<1>2. CASE CommitRequest(r)
  <2>1. PICK row \in SessionRow :
          /\ session' = [session EXCEPT ![req[r].session] = row]
          /\ row.status = "QUEUED" /\ settle' = settle
    BY <1>2, CommitInserts
  <2> QED BY <2>1 DEF TypeOK, SettlesQueued
<1> QED BY <1>1, <1>2, RequestMoves DEF Opens, GoesOn, Puts

\* A committed request takes one slot of its day, which its upsert found free.
LEMMA CommitCounts ==
  ASSUME TypeOK, RequestsReserve, SlotsCounted, SlotsHeld,
         NEW r \in Requests, CommitRequest(r)
  PROVE  SlotsCounted'
<1>l. SUFFICES ASSUME ~late'
               PROVE  SlotsCounted'
  BY DEF SlotsCounted
<1>d. PICK d \in 0..MaxDay : d = req[r].day
  BY DEF TypeOK, Request
<1>t. PICK t \in Sessions : t = req[r].session
  BY DEF RequestsReserve, CommitRequest
<1>0. /\ quota.day \in 0..MaxDay /\ quota.used \in Nat
      /\ ~late /\ quota.day <= d /\ SlotFree(d)
  <2>1. Inside(r) BY DEF Inside, CommitRequest
  <2>2. ~late /\ ~(d < quota.day) BY <1>l, <1>d DEF CommitRequest
  <2> QED BY <1>d, <2>1, <2>2 DEF TypeOK, SlotsHeld
<1>1. PICK row \in SessionRow :
        /\ session' = [session EXCEPT ![t] = row]
        /\ session[t].status = Absent
        /\ row.status = "QUEUED" /\ row.day = d
  BY <1>d, <1>t, CommitInserts
<1>2. /\ quota'.day = d
      /\ quota'.used = IF quota.day = d THEN quota.used + 1 ELSE 1
  BY <1>d DEF CommitRequest, Consumed
<1>3. ASSUME NEW e \in 0..MaxDay
      PROVE  Taken(e)' = IF e = d THEN Taken(e) \cup {t} ELSE Taken(e)
  BY <1>1 DEF TypeOK, Taken, Absent
<1>4. t \notin Taken(d) BY <1>1 DEF Taken
<1>5. IsFiniteSet(Taken(d)) /\ Cardinality(Taken(d)) <= DailyLimit
      /\ Cardinality(Taken(d)) \in Nat
  BY <1>0, FS_CardinalityType DEF SlotsCounted
<1>6. /\ IsFiniteSet(Taken(d) \cup {t})
      /\ Cardinality(Taken(d) \cup {t}) = Cardinality(Taken(d)) + 1
  BY <1>4, <1>5, FS_AddElement
<1>7. quota.day # d => Taken(d) = {} /\ Cardinality(Taken(d)) = 0
  <2>1. quota.day # d => Taken(d) = {}
    <3>1. SUFFICES ASSUME quota.day # d, NEW s \in Taken(d) PROVE FALSE
      BY DEF Taken
    <3>2. s \in Sessions /\ session[s].status # Absent /\ session[s].day = d
      BY DEF Taken
    <3>3. session[s].day <= quota.day BY <1>0, <3>2 DEF SlotsCounted
    <3> QED BY <1>0, <3>1, <3>2, <3>3
  <2> QED BY <2>1, FS_EmptySet
<1>8. Cardinality(Taken(d)) + 1 <= DailyLimit
  BY <1>0, <1>5, <1>7 DEF SlotFree, SlotsCounted
<1>9. quota'.used = Cardinality(Taken(d)')
  <2>1. Taken(d)' = Taken(d) \cup {t} BY <1>3
  <2>2. Cardinality(Taken(d)') = Cardinality(Taken(d)) + 1 BY <1>6, <2>1
  <2>3. quota.day = d => quota.used = Cardinality(Taken(d)) BY <1>0 DEF SlotsCounted
  <2>4. quota'.used = Cardinality(Taken(d)) + 1 BY <1>2, <1>7, <2>3
  <2> QED BY <2>2, <2>4
<1>10. \A e \in 0..MaxDay : IsFiniteSet(Taken(e)') /\ Cardinality(Taken(e)') <= DailyLimit
  <2> TAKE e \in 0..MaxDay
  <2>1. IsFiniteSet(Taken(e)) /\ Cardinality(Taken(e)) <= DailyLimit
    BY <1>0 DEF SlotsCounted
  <2>2. CASE e = d
    <3>1. Taken(e)' = Taken(d) \cup {t} BY <1>3, <2>2
    <3> QED BY <1>6, <1>8, <3>1
  <2>3. CASE e # d
    <3>1. Taken(e)' = Taken(e) BY <1>3, <2>3
    <3> QED BY <2>1, <3>1
  <2> QED BY <2>2, <2>3
<1>11. \A s \in Sessions : session'[s].status # Absent => session'[s].day <= quota'.day
  <2> SUFFICES ASSUME NEW s \in Sessions, session'[s].status # Absent
               PROVE  session'[s].day <= d
    BY <1>2
  <2>1. CASE s = t BY <1>0, <1>1, <2>1 DEF TypeOK
  <2>2. CASE s # t
    <3>1. session'[s] = session[s] BY <1>1, <2>2 DEF TypeOK
    <3>2. session[s].day \in 0..MaxDay BY DEF TypeOK, SessionRow
    <3> QED BY <1>0, <3>1, <3>2 DEF SlotsCounted
  <2> QED BY <2>1, <2>2
<1> QED BY <1>d, <1>2, <1>9, <1>10, <1>11 DEF SlotsCounted, Taken

\* A request in progress keeps the slot it was promised.
LEMMA RequestKeepsSlots ==
  ASSUME TypeOK, InsideAlone, QuotaInv, NEW r \in Requests, RequestStep(r)
  PROVE  SlotsCounted' /\ SlotsHeld'
<1> USE DEF QuotaInv
<1>c. UNCHANGED <<session, quota, late>> => SlotsCounted'
  BY DEF SlotsCounted, Taken
<1>i. NoRequestYet.pc = "idle" BY DEF NoRequestYet
<1>1. CASE Opens(r)
  <2>1. PICK row \in Request :
          /\ req' = [req EXCEPT ![r] = row] /\ UNCHANGED <<session, quota, late>>
          /\ row.pc = "counted"
    BY <1>1 DEF Opens, Puts
  <2> QED BY <1>c, <2>1 DEF TypeOK, SlotsHeld, Inside, SlotFree
<1>2. CASE GoesOn(r)
  <2>1. PICK row \in Request :
          /\ req' = [req EXCEPT ![r] = row] /\ UNCHANGED <<session, quota, late>>
          /\ row.day = req[r].day
    BY <1>2 DEF GoesOn, Puts
  <2>2. SlotFree(req[r].day)
    BY <1>2 DEF GoesOn, SlotsHeld
  <2>3. /\ \A q \in Requests : q # r => req'[q] = req[q]
        /\ req'[r] = row
    BY <2>1 DEF TypeOK
  <2> QED BY <1>c, <2>1, <2>2, <2>3 DEF SlotsHeld, Inside, SlotFree
<1>3. CASE Puts(r, NoRequestYet)
  <2>1. req' = [req EXCEPT ![r] = NoRequestYet] /\ UNCHANGED <<session, quota, late>>
    BY <1>3 DEF Puts
  <2> QED BY <1>c, <1>i, <2>1 DEF TypeOK, SlotsHeld, Inside, SlotFree
<1>4. CASE CommitRequest(r)
  <2>1. req' = [req EXCEPT ![r] = NoRequestYet] /\ Inside(r)
    BY <1>4 DEF CommitRequest, Leave, Inside
  <2>2. SlotsCounted' BY <1>4, CommitCounts
  <2>3. \A q \in Requests : ~Inside(q)'
    BY <1>i, <2>1 DEF TypeOK, InsideAlone, Inside
  <2> QED BY <2>2, <2>3 DEF SlotsHeld
<1> QED BY <1>1, <1>2, <1>3, <1>4, RequestMoves

\* Every step keeps the slots counted.
LEMMA QuotaNext ==
  ASSUME TypeOK, InsideAlone, QuotaInv, [Next]_vars
  PROVE  QuotaInv'
<1> USE DEF QuotaInv
<1>1. ASSUME NEW r \in Requests, RequestStep(r) PROVE QuotaInv'
  BY <1>1, RequestKeepsSlots, RequestKeepsReserve, RequestKeepsSettlements
<1>2. ASSUME NEW s \in Sessions, SessionStep(s) PROVE QuotaInv'
  <2>1. /\ UNCHANGED <<quota, lock, today, req, late>>
        /\ \A t \in Sessions : /\ session'[t].status = Absent <=> session[t].status = Absent
                               /\ session'[t].day = session[t].day
        /\ SettlesQueued'
    BY <1>2, SessionsStay
  <2>2. RequestsReserve' BY <2>1 DEF RequestsReserve
  <2>3. SlotsHeld' BY <2>1 DEF SlotsHeld, Inside, SlotFree
  <2>4. SlotsCounted'
    <3>1. ASSUME NEW d \in 0..MaxDay PROVE Taken(d)' = Taken(d)
      BY <2>1 DEF Taken
    <3>2. PICK d \in 0..MaxDay : d = quota.day BY DEF TypeOK
    <3>3. quota'.day = d BY <2>1, <3>2
    <3> QED BY <2>1, <3>1, <3>2, <3>3 DEF SlotsCounted, Taken
  <2> QED BY <2>1, <2>2, <2>3, <2>4
<1>3. CASE LockExpires \/ NewDay \/ UNCHANGED vars
  <2>1. UNCHANGED <<session, quota, req, settle, late>>
    BY <1>3 DEF LockExpires, NewDay, vars
  <2> QED BY <2>1 DEF SlotsCounted, Taken, RequestsReserve, SlotsHeld, Inside, SlotFree,
                      SettlesQueued
<1> QED BY <1>1, <1>2, <1>3 DEF Next

\* At first no day has a session.
LEMMA QuotaInit == Init => QuotaInv
<1> SUFFICES ASSUME Init PROVE QuotaInv OBVIOUS
<1>1. /\ NewSession.status = Absent /\ NoRequestYet.pc = "idle" /\ NoSettlement.pc = "idle"
  BY DEF NewSession, NoRequestYet, NoSettlement
<1>2. \A d : Taken(d) = {} BY <1>1 DEF Init, Taken
<1>3. IsFiniteSet({}) /\ Cardinality({}) = 0 BY FS_EmptySet
<1>4. SlotsCounted
  BY <1>1, <1>2, <1>3 DEF Init, SlotsCounted
<1>5. RequestsReserve /\ SettlesQueued
  BY <1>1 DEF Init, RequestsReserve, SettlesQueued
<1>6. SlotsHeld
  BY <1>1 DEF Init, SlotsHeld, Inside
<1> QED BY <1>4, <1>5, <1>6 DEF QuotaInv

LEMMA QuotaInvariant == Spec => []QuotaInv
<1>1. TypeOK /\ KeyInv /\ QuotaInv /\ [Next]_vars => QuotaInv'
  BY QuotaNext DEF KeyInv, InsideAlone, Inside
<1>2. ConservedInv => TypeOK BY DEF ConservedInv
<1> QED BY <1>1, <1>2, QuotaInit, KeyInvariant, ConservedInvariant, PTL DEF Spec

\* No race of requests gets a user more sessions on a day than the limit, none
\* is counted twice or not at all, and a request that is refused or dies gives
\* its slot back.  Only a request whose day has passed, and which is booked after
\* one of the new day, sets the count back.
THEOREM DailyLimitHolds == Spec => []DailyQuota
<1>1. QuotaInv => DailyQuota
  BY DEF QuotaInv, SlotsCounted, DailyQuota, Taken
<1> QED BY <1>1, QuotaInvariant, PTL
-----------------------------------------------------------------------------
(* Active sessions *)

InFlight == {r \in Requests : req[r].pc # "idle"}

\* A request finds no session active when it begins, and makes one when it ends.
FewActive ==
  /\ IsFiniteSet(ActiveSessions)
  /\ Cardinality(ActiveSessions) + Cardinality(InFlight) <= Cardinality(Requests)

\* Requests in flight are requests.
LEMMA InFlightFinite ==
  /\ IsFiniteSet(InFlight) /\ Cardinality(InFlight) \in Nat
  /\ Cardinality(Requests) \in Nat /\ Cardinality(InFlight) <= Cardinality(Requests)
<1>1. InFlight \subseteq Requests BY DEF InFlight
<1>2. IsFiniteSet(InFlight) /\ Cardinality(InFlight) <= Cardinality(Requests)
  BY <1>1, FS_Subset
<1> QED BY <1>2, FS_CardinalityType

\* Sessions that end and requests that leave keep the bound.
LEMMA FewerActive ==
  ASSUME FewActive, ActiveSessions' \subseteq ActiveSessions, InFlight' \subseteq InFlight
  PROVE  FewActive'
<1>1. /\ IsFiniteSet(ActiveSessions') /\ Cardinality(ActiveSessions') <= Cardinality(ActiveSessions)
      /\ Cardinality(ActiveSessions) \in Nat /\ Cardinality(ActiveSessions') \in Nat
  BY FS_Subset, FS_CardinalityType DEF FewActive
<1>2. /\ IsFiniteSet(InFlight) /\ Cardinality(InFlight) \in Nat
      /\ Cardinality(Requests) \in Nat
  BY InFlightFinite
<1>3. /\ IsFiniteSet(InFlight') /\ Cardinality(InFlight') <= Cardinality(InFlight)
      /\ Cardinality(InFlight') \in Nat
  BY <1>2, FS_Subset, FS_CardinalityType
<1> QED BY <1>1, <1>2, <1>3 DEF FewActive

\* A step of a request keeps the bound.
LEMMA RequestKeepsFew ==
  ASSUME TypeOK, RequestsReserve, FewActive, NEW r \in Requests, RequestStep(r)
  PROVE  FewActive'
<1>i. NoRequestYet.pc = "idle" BY DEF NoRequestYet
<1>a. "QUEUED" \in ActiveStatuses /\ Absent \notin ActiveStatuses
  BY DEF Absent, ActiveStatuses, WorkStatuses, ReviewStatuses
<1>1. CASE Opens(r)
  <2>1. ActiveSessions' = {} BY <1>1 DEF Opens, Puts, ActiveSessions
  <2>2. IsFiniteSet(ActiveSessions') /\ Cardinality(ActiveSessions') = 0
    BY <2>1, FS_EmptySet
  <2>3. /\ Cardinality(InFlight') \in Nat
        /\ Cardinality(InFlight') <= Cardinality(Requests)
    <3>1. InFlight' \subseteq Requests BY DEF InFlight
    <3>2. IsFiniteSet(InFlight') /\ Cardinality(InFlight') <= Cardinality(Requests)
      BY <3>1, FS_Subset
    <3> QED BY <3>2, FS_CardinalityType
  <2> QED BY <2>2, <2>3 DEF FewActive
<1>2. CASE GoesOn(r)
  <2>1. PICK row : req' = [req EXCEPT ![r] = row] /\ session' = session /\ req[r].pc # "idle"
    BY <1>2 DEF GoesOn, Puts
  <2>2. ActiveSessions' \subseteq ActiveSessions BY <2>1 DEF ActiveSessions
  <2>3. InFlight' \subseteq InFlight BY <2>1 DEF InFlight, TypeOK
  <2> QED BY <2>2, <2>3, FewerActive
<1>3. CASE Puts(r, NoRequestYet)
  <2>1. ActiveSessions' \subseteq ActiveSessions BY <1>3 DEF Puts, ActiveSessions
  <2>2. InFlight' \subseteq InFlight BY <1>i, <1>3 DEF Puts, InFlight, TypeOK
  <2> QED BY <2>1, <2>2, FewerActive
<1>4. CASE CommitRequest(r)
  <2>t. PICK t \in Sessions : t = req[r].session
    BY <1>4 DEF RequestsReserve, CommitRequest
  <2>1. PICK row \in SessionRow :
          /\ session' = [session EXCEPT ![t] = row]
          /\ session[t].status = Absent /\ row.status = "QUEUED"
          /\ req' = [req EXCEPT ![r] = NoRequestYet]
    BY <1>4, <2>t, CommitInserts
  <2>2. ActiveSessions' = ActiveSessions \cup {t} /\ t \notin ActiveSessions
    BY <1>a, <2>1 DEF ActiveSessions, TypeOK
  <2>3. /\ IsFiniteSet(ActiveSessions') /\ Cardinality(ActiveSessions) \in Nat
        /\ Cardinality(ActiveSessions') = Cardinality(ActiveSessions) + 1
    BY <2>2, FS_AddElement, FS_CardinalityType DEF FewActive
  <2>4. InFlight' = InFlight \ {r} /\ r \in InFlight
    BY <1>i, <1>4, <2>1 DEF InFlight, TypeOK, CommitRequest
  <2>5. Cardinality(InFlight') = Cardinality(InFlight) - 1
    BY <2>4, InFlightFinite, FS_RemoveElement
  <2> QED BY <2>3, <2>5, InFlightFinite DEF FewActive
<1> QED BY <1>1, <1>2, <1>3, <1>4, RequestMoves

\* Sessions do not become active again.
LEMMA SessionKeepsFew ==
  ASSUME TypeOK, SettlesQueued, FewActive, NEW s \in Sessions, SessionStep(s)
  PROVE  FewActive'
<1>1. InFlight' \subseteq InFlight
  <2>1. UNCHANGED <<quota, lock, today, req, late>> BY SessionsStay
  <2> QED BY <2>1 DEF InFlight
<1>2. ASSUME NEW row, session' = [session EXCEPT ![s] = row], session[s].status \in ActiveStatuses
      PROVE  ActiveSessions' \subseteq ActiveSessions
  BY <1>2 DEF ActiveSessions, TypeOK
<1>3. ActiveSessions' \subseteq ActiveSessions
  <2>1. CASE Rewritten(s) BY <1>2, <2>1 DEF Rewritten
  <2>2. CASE CommitSettlement(s)
    <3>1. session[s].status \in ActiveStatuses
      BY <2>2 DEF CommitSettlement, SettlesQueued, ActiveStatuses, WorkStatuses
    <3> QED BY <1>2, <2>2, <3>1, SettlementWrites
  <2>3. ASSUME session' = session PROVE ActiveSessions' \subseteq ActiveSessions
    BY <2>3 DEF ActiveSessions
  <2> QED BY <2>1, <2>2, <2>3, SessionRewritten
            DEF ReadForSettlement, WriteSettlement, CrashSettlement
<1> QED BY <1>1, <1>3, FewerActive

\* However its requests race, crash and are refused: a user has no more sessions
\* that have not ended than requests in flight at once.  With one request at a
\* time that is the one session the code means to allow.
THEOREM OverlapBoundsActive == Spec => []ActiveBounded
<1>1. Init => FewActive
  <2> SUFFICES ASSUME Init PROVE FewActive OBVIOUS
  <2>1. ActiveSessions = {}
    BY DEF Init, NewSession, ActiveSessions, ActiveStatuses, WorkStatuses, ReviewStatuses, Absent
  <2>2. IsFiniteSet(ActiveSessions) /\ Cardinality(ActiveSessions) = 0
    BY <2>1, FS_EmptySet
  <2> QED BY <2>2, InFlightFinite DEF FewActive
<1>2. TypeOK /\ QuotaInv /\ FewActive /\ [Next]_vars => FewActive'
  <2> SUFFICES ASSUME TypeOK, QuotaInv, FewActive, [Next]_vars PROVE FewActive' OBVIOUS
  <2>1. ASSUME NEW r \in Requests, RequestStep(r) PROVE FewActive'
    BY <2>1, RequestKeepsFew DEF QuotaInv
  <2>2. ASSUME NEW s \in Sessions, SessionStep(s) PROVE FewActive'
    BY <2>2, SessionKeepsFew DEF QuotaInv
  <2>3. CASE LockExpires \/ NewDay \/ UNCHANGED vars
    <3>1. UNCHANGED <<session, req>> BY <2>3 DEF LockExpires, NewDay, vars
    <3> QED BY <3>1, FewerActive DEF ActiveSessions, InFlight
  <2> QED BY <2>1, <2>2, <2>3 DEF Next
<1>3. FewActive => ActiveBounded
  <2> SUFFICES ASSUME FewActive PROVE Cardinality(ActiveSessions) <= Cardinality(Requests)
    BY DEF ActiveBounded, ActiveSessions, ActiveStatuses
  <2>1. Cardinality(ActiveSessions) \in Nat BY FS_CardinalityType DEF FewActive
  <2> QED BY <2>1, InFlightFinite DEF FewActive
<1>4. ConservedInv => TypeOK BY DEF ConservedInv
<1> QED BY <1>1, <1>2, <1>3, <1>4, QuotaInvariant, ConservedInvariant, PTL DEF Spec
-----------------------------------------------------------------------------
(* The holds of the account *)

Holding == {s \in Sessions : session[s].hold = "active"}

\* Nothing has come between a settlement, or a request, and what it has read of
\* the account.
SettlesCurrent ==
  \A s \in Sessions : settle[s].pc # "idle" =>
     HoldActive(s) /\ (~crossed => settle[s].seen = account)

ReservesCurrent ==
  ~crossed => \A r \in Requests : HasRead(r) =>
                 req[r].seen = account /\ Available(account) >= Estimate

HoldsCounted ==
  /\ IsFiniteSet(Holding)
  /\ ~crossed => account.reserved = Estimate * Cardinality(Holding)
  /\ \A s \in Sessions :
       session[s].status = Absent => session[s].hold # "active" /\ session[s].charged = 0

AccountInv == SettlesCurrent /\ ReservesCurrent /\ HoldsCounted /\ Funded

\* What was read is what is stored over.
LEMMA StoredCurrent ==
  ASSUME account \in Account, NEW new \in Account
  PROVE  Stored(account, new) = new
<1>1. new = [balance |-> new.balance, reserved |-> new.reserved, spent |-> new.spent]
  BY DEF Account
<1> QED BY <1>1 DEF Stored, Written

\* With its holds counted, the account gets one estimate more or less.
LEMMA EstimateMore ==
  ASSUME NEW n \in Nat
  PROVE  Estimate * (n + 1) = Estimate * n + Estimate
BY DEF BudgetAssumption

\* A step that leaves sessions and account keeps the invariant, if what it puts
\* for a request or a settlement has just been read, or was read before.
LEMMA ReadersKeepAccount ==
  ASSUME TypeOK, AccountInv, UNCHANGED <<session, account, crossed>>,
         \A s \in Sessions : settle'[s].pc # "idle" =>
            \/ settle[s].pc # "idle" /\ settle'[s].seen = settle[s].seen
            \/ HoldActive(s) /\ settle'[s].seen = account,
         \A r \in Requests : HasRead(r)' =>
            \/ HasRead(r) /\ req'[r].seen = req[r].seen
            \/ req'[r].seen = account /\ Available(account) >= Estimate
  PROVE  AccountInv'
<1> USE DEF AccountInv
<1>1. SettlesCurrent' BY DEF SettlesCurrent, HoldActive
<1>2. ReservesCurrent' BY DEF ReservesCurrent, Available
<1>3. HoldsCounted' /\ Funded' BY DEF HoldsCounted, Holding, Funded
<1> QED BY <1>1, <1>2, <1>3

\* What a request has read before its commit is still the account: no other
\* request is between its upsert and its commit.
LEMMA CommitKeepsAccount ==
  ASSUME TypeOK, InsideAlone, QuotaInv, AccountInv, NEW r \in Requests, CommitRequest(r)
  PROVE  AccountInv'
<1> USE DEF AccountInv, QuotaInv
<1>t. PICK t \in Sessions : t = req[r].session
  BY DEF RequestsReserve, CommitRequest
<1>1. PICK row \in SessionRow :
        /\ session' = [session EXCEPT ![t] = row]
        /\ session[t].status = Absent
        /\ row.status = "QUEUED" /\ row.hold = "active" /\ row.charged = 0
        /\ req' = [req EXCEPT ![r] = NoRequestYet] /\ settle' = settle
  BY <1>t, CommitInserts
<1>2. \A s \in Sessions : session'[s] = IF s = t THEN row ELSE session[s]
  BY <1>1 DEF TypeOK
<1>3. ~crossed' => ~crossed /\ \A s \in Sessions : settle[s].pc = "idle"
  BY DEF CommitRequest
<1>4. ~crossed' =>
        /\ account' \in Account
        /\ account'.reserved = account.reserved + Estimate
        /\ account'.balance = account.balance
        /\ Available(account) >= Estimate
  <2> SUFFICES ASSUME ~crossed'
               PROVE  /\ account' \in Account
                      /\ account'.reserved = account.reserved + Estimate
                      /\ account'.balance = account.balance
                      /\ Available(account) >= Estimate
    OBVIOUS
  <2>1. req[r].seen = account /\ Available(account) >= Estimate
    BY <1>3 DEF CommitRequest, ReservesCurrent, HasRead
  <2>2. account \in Account BY DEF TypeOK
  <2>3. /\ Reserved(account) \in Account
        /\ Reserved(account).reserved = account.reserved + Estimate
        /\ Reserved(account).balance = account.balance
    BY <2>2 DEF Reserved, Account
  <2>4. account' = Reserved(account)
    BY <2>1, <2>2, <2>3, StoredCurrent DEF CommitRequest
  <2> QED BY <2>1, <2>3, <2>4
<1>5. SettlesCurrent'
  <2> SUFFICES ASSUME NEW s \in Sessions, settle'[s].pc # "idle"
               PROVE  session'[s].hold = "active" /\ crossed'
    BY DEF SettlesCurrent, HoldActive
  <2>1. settle[s].pc # "idle" BY <1>1
  <2>2. session[s].status # Absent
    BY <2>1 DEF SettlesQueued, Absent
  <2>3. session'[s] = session[s] BY <1>1, <1>2, <2>2
  <2> QED BY <1>3, <2>1, <2>3 DEF SettlesCurrent, HoldActive, CommitRequest
<1>6. ReservesCurrent'
  <2>1. Inside(r) BY DEF CommitRequest, Inside
  <2>2. \A q \in Requests : ~HasRead(q)'
    BY <1>1, <2>1 DEF InsideAlone, Inside, HasRead, TypeOK, NoRequestYet
  <2> QED BY <2>2 DEF ReservesCurrent
<1>7. HoldsCounted'
  <2>1. Holding' = Holding \cup {t} /\ t \notin Holding
    BY <1>1, <1>2 DEF Holding, HoldsCounted
  <2>2. IsFiniteSet(Holding) /\ Cardinality(Holding) \in Nat
    BY FS_CardinalityType DEF HoldsCounted
  <2>3. IsFiniteSet(Holding') /\ Cardinality(Holding') = Cardinality(Holding) + 1
    BY <2>1, <2>2, FS_AddElement
  <2>4. ~crossed' => account'.reserved = Estimate * Cardinality(Holding')
    BY <1>3, <1>4, <2>2, <2>3, EstimateMore DEF HoldsCounted
  <2>5. \A s \in Sessions : session'[s].status = Absent =>
          session'[s].hold # "active" /\ session'[s].charged = 0
    BY <1>1, <1>2 DEF HoldsCounted, Absent
  <2> QED BY <2>3, <2>4, <2>5 DEF HoldsCounted
<1>8. Funded'
  BY <1>3, <1>4 DEF Funded, Available, Account, TypeOK
<1> QED BY <1>5, <1>6, <1>7, <1>8

\* A request keeps the invariant.
LEMMA RequestKeepsAccount ==
  ASSUME TypeOK, InsideAlone, QuotaInv, AccountInv, NEW r \in Requests, RequestStep(r)
  PROVE  AccountInv'
<1>i. NoRequestYet.pc = "idle" BY DEF NoRequestYet
<1>1. ASSUME NEW row, Puts(r, row),
             row.pc \in {"read", "written", "unlocked"} =>
               \/ HasRead(r) /\ row.seen = req[r].seen
               \/ row.seen = account /\ Available(account) >= Estimate
      PROVE  AccountInv'
  <2>1. /\ UNCHANGED <<session, account, crossed, settle>>
        /\ req' = [req EXCEPT ![r] = row]
    BY <1>1 DEF Puts
  <2>2. \A q \in Requests : req'[q] = IF q = r THEN row ELSE req[q]
    BY <2>1 DEF TypeOK
  <2> QED BY <1>1, <2>1, <2>2, ReadersKeepAccount DEF HasRead
<1>2. CASE Opens(r) BY <1>1, <1>2 DEF Opens
<1>3. CASE GoesOn(r) BY <1>1, <1>3 DEF GoesOn
<1>4. CASE Puts(r, NoRequestYet) BY <1>1, <1>4, <1>i
<1>5. CASE CommitRequest(r) BY <1>5, CommitKeepsAccount
<1> QED BY <1>2, <1>3, <1>4, <1>5, RequestMoves

\* A settlement releases one estimate and spends what was charged.
LEMMA SettlementKeepsAccount ==
  ASSUME TypeOK, QuotaInv, AccountInv, NEW s \in Sessions, CommitSettlement(s)
  PROVE  AccountInv'
<1> USE DEF AccountInv, QuotaInv
<1>1. /\ account \in Account /\ settle[s].seen \in Account
      /\ settle[s].cost \in Nat /\ session[s].charged \in Nat
      /\ s \in Holding
  BY DEF TypeOK, Settlement, SessionRow, CommitSettlement, SettlesCurrent, HoldActive, Holding
<1>2. PICK row \in SessionRow :
        /\ session' = [session EXCEPT ![s] = row]
        /\ row.status \in Statuses /\ row.hold = "released"
        /\ row.charged = session[s].charged + settle[s].cost
  BY SettlementWrites
<1>3. /\ settle' = [settle EXCEPT ![s] = NoSettlement] /\ NoSettlement.pc = "idle"
      /\ req' = req
  BY DEF CommitSettlement, NoSettlement
<1>4. ~crossed' => /\ ~crossed /\ settle[s].seen = account
                   /\ \A r \in Requests : ~HasRead(r)
                   /\ \A t \in Sessions \ {s} : settle[t].pc = "idle"
  <2> SUFFICES ASSUME ~crossed'
               PROVE  /\ ~crossed /\ settle[s].seen = account
                      /\ \A r \in Requests : ~HasRead(r)
                      /\ \A t \in Sessions \ {s} : settle[t].pc = "idle"
    OBVIOUS
  <2>1. /\ crossed' = (crossed \/ (\E r \in Requests : HasRead(r))
                               \/ \E t \in Sessions \ {s} : settle[t].pc # "idle")
        /\ settle[s].pc # "idle"
    BY DEF CommitSettlement
  <2>2. /\ ~crossed /\ \A r \in Requests : ~HasRead(r)
        /\ \A t \in Sessions \ {s} : settle[t].pc = "idle"
    BY <2>1
  <2> QED BY <2>1, <2>2 DEF SettlesCurrent
<1>5. Holding' = Holding \ {s}
  BY <1>2 DEF Holding, TypeOK
<1>6. IsFiniteSet(Holding) /\ Cardinality(Holding) \in Nat
  BY FS_CardinalityType DEF HoldsCounted
<1>7. /\ IsFiniteSet(Holding') /\ Cardinality(Holding') \in Nat
      /\ Cardinality(Holding) = Cardinality(Holding') + 1
  <2>1. IsFiniteSet(Holding \ {s}) /\ Cardinality(Holding \ {s}) = Cardinality(Holding) - 1
    BY <1>1, <1>6, FS_RemoveElement
  <2>2. Cardinality(Holding \ {s}) \in Nat
    BY <2>1, FS_CardinalityType
  <2> QED BY <1>5, <1>6, <2>1, <2>2
<1>8. ~crossed' => /\ account'.reserved = Estimate * Cardinality(Holding')
                   /\ account'.reserved = account.reserved - Estimate
                   /\ \E spent \in Nat : /\ spent <= row.charged
                                         /\ account'.balance = account.balance - spent
  <2> SUFFICES ASSUME ~crossed'
               PROVE  /\ account'.reserved = Estimate * Cardinality(Holding')
                      /\ account'.reserved = account.reserved - Estimate
                      /\ \E spent \in Nat : /\ spent <= row.charged
                                            /\ account'.balance = account.balance - spent
    OBVIOUS
  <2>1. account.reserved = Estimate * Cardinality(Holding') + Estimate
    BY <1>4, <1>7, EstimateMore DEF HoldsCounted
  <2>2. Estimate * Cardinality(Holding') \in Nat
    BY <1>7
  <2>3. account.reserved >= Estimate /\ account.reserved - Estimate = Estimate * Cardinality(Holding')
    BY <2>1, <2>2
  <2>4. /\ Unreserved(account) \in Account
        /\ Unreserved(account).reserved = account.reserved - Estimate
        /\ Unreserved(account).balance = account.balance
    BY <1>1, <2>3 DEF Unreserved, Account
  <2>5. ASSUME NEW sum \in Nat
        PROVE  /\ Committed(account, sum) \in Account
               /\ Committed(account, sum).reserved = account.reserved - Estimate
               /\ Committed(account, sum).balance = account.balance - sum
    <3> DEFINE u == Unreserved(account)
    <3>1. /\ Committed(account, sum)
               = [u EXCEPT !.balance = account.balance - sum, !.spent = account.spent + sum]
          /\ account.balance - sum \in Int /\ account.spent + sum \in Int
      BY <1>1 DEF Committed, Account
    <3>2. u \in Account /\ u.reserved = account.reserved - Estimate
      BY <2>4
    <3> HIDE DEF u
    <3> QED BY <3>1, <3>2 DEF Account
  <2>6. CASE settle[s].to = "FAILED"
    <3>1. account' = Unreserved(account)
      BY <1>1, <1>4, <2>4, <2>6, StoredCurrent DEF CommitSettlement
    <3>2. account.balance - 0 = account.balance BY <1>1 DEF Account
    <3>3. 0 <= row.charged BY <1>1, <1>2
    <3> QED BY <2>3, <2>4, <3>1, <3>2, <3>3
  <2>7. CASE settle[s].to # "FAILED"
    <3> DEFINE sum == session[s].charged + settle[s].cost
    <3>1. sum \in Nat /\ sum <= row.charged BY <1>1, <1>2
    <3>2. account' = Stored(account, Committed(account, sum))
      BY <1>4, <2>7 DEF CommitSettlement
    <3> HIDE DEF sum
    <3>3. account' = Committed(account, sum)
      BY <1>1, <2>5, <3>1, <3>2, StoredCurrent
    <3> QED BY <2>3, <2>5, <3>1, <3>3
  <2> QED BY <2>6, <2>7
<1>9. SettlesCurrent'
  <2>1. \A t \in Sessions : settle'[t].pc # "idle" =>
          t # s /\ settle'[t] = settle[t] /\ session'[t] = session[t]
    BY <1>2, <1>3 DEF TypeOK
  <2> QED BY <1>4, <2>1 DEF SettlesCurrent, HoldActive
<1>10. ReservesCurrent'
  BY <1>3, <1>4 DEF ReservesCurrent, HasRead
<1>11. HoldsCounted'
  <2>1. \A t \in Sessions : session'[t].status = Absent =>
          session'[t].hold # "active" /\ session'[t].charged = 0
    BY <1>2 DEF HoldsCounted, TypeOK, Statuses, Absent
  <2> QED BY <1>7, <1>8, <2>1 DEF HoldsCounted
<1>12. Funded'
  <2> SUFFICES ASSUME ~crossed', \A t \in Sessions : session'[t].charged <= Estimate
               PROVE  account'.reserved <= account'.balance
    BY DEF Funded
  <2>1. row.charged <= Estimate BY <1>2 DEF TypeOK
  <2>2. \A t \in Sessions : session[t].charged <= Estimate
    <3>1. session[s].charged <= Estimate BY <1>1, <1>2, <2>1
    <3>2. \A t \in Sessions : t # s => session'[t] = session[t] BY <1>2 DEF TypeOK
    <3> QED BY <3>1, <3>2
  <2>3. account.reserved <= account.balance BY <1>4, <2>2 DEF Funded
  <2>4. PICK spent \in Nat : spent <= row.charged /\ account'.balance = account.balance - spent
    BY <1>8
  <2>5. row.charged \in Nat BY <1>1, <1>2
  <2> QED BY <1>1, <1>8, <2>1, <2>3, <2>4, <2>5 DEF Account
<1> QED BY <1>9, <1>10, <1>11, <1>12

\* A session that moves without its account keeps its reservation.
LEMMA RewriteKeepsAccount ==
  ASSUME TypeOK, QuotaInv, AccountInv, NEW s \in Sessions, Rewritten(s)
  PROVE  AccountInv'
<1> USE DEF AccountInv, QuotaInv
<1>1. PICK row \in SessionRow :
        /\ session' = [session EXCEPT ![s] = row]
        /\ row.hold = session[s].hold /\ row.charged >= session[s].charged
        /\ row.status # Absent
        /\ UNCHANGED <<account, req, settle, crossed>>
  BY DEF Rewritten
<1>2. \A t \in Sessions : session'[t] = IF t = s THEN row ELSE session[t]
  BY <1>1 DEF TypeOK
<1>3. SettlesCurrent' BY <1>1, <1>2 DEF SettlesCurrent, HoldActive
<1>4. ReservesCurrent' BY <1>1 DEF ReservesCurrent, HasRead, Available
<1>5. HoldsCounted'
  <2>1. Holding' = Holding BY <1>1, <1>2 DEF Holding
  <2> QED BY <1>1, <1>2, <2>1 DEF HoldsCounted
<1>6. Funded'
  <2>1. (\A t \in Sessions : session'[t].charged <= Estimate)
          => (\A t \in Sessions : session[t].charged <= Estimate)
    <3>1. session[s].charged \in Nat /\ row.charged \in Nat BY DEF TypeOK, SessionRow
    <3>2. row.charged <= Estimate => session[s].charged <= Estimate BY <1>1, <3>1
    <3> QED BY <1>2, <3>2
  <2> QED BY <1>1, <2>1 DEF Funded
<1> QED BY <1>3, <1>4, <1>5, <1>6

\* A step of a worker, the user or the reaper keeps the invariant.
LEMMA SessionKeepsAccount ==
  ASSUME TypeOK, QuotaInv, AccountInv, NEW s \in Sessions, SessionStep(s)
  PROVE  AccountInv'
<1>1. ASSUME NEW row, settle' = [settle EXCEPT ![s] = row],
             row.pc # "idle" => \/ settle[s].pc # "idle" /\ row.seen = settle[s].seen
                                \/ HoldActive(s) /\ row.seen = account,
             UNCHANGED <<session, account, req, crossed>>
      PROVE  AccountInv'
  <2>1. \A t \in Sessions : settle'[t] = IF t = s THEN row ELSE settle[t]
    BY <1>1 DEF TypeOK
  <2> QED BY <1>1, <2>1, ReadersKeepAccount DEF HasRead
<1>2. CASE Rewritten(s) BY <1>2, RewriteKeepsAccount
<1>3. ASSUME NEW to \in Statuses, NEW cost \in Costs \cup {0}, ReadForSettlement(s, to, cost)
      PROVE  AccountInv'
  <2> DEFINE row == [pc |-> "read", to |-> to, cost |-> cost, seen |-> account]
  <2>1. row.seen = account /\ HoldActive(s) /\ settle' = [settle EXCEPT ![s] = row]
    BY <1>3 DEF ReadForSettlement
  <2>2. UNCHANGED <<session, account, req, crossed>>
    BY <1>3 DEF ReadForSettlement
  <2> HIDE DEF row
  <2> QED BY <1>1, <2>1, <2>2
<1>4. CASE WriteSettlement(s)
  <2> DEFINE row == [settle[s] EXCEPT !.pc = "written"]
  <2>1. row.seen = settle[s].seen /\ settle[s].pc # "idle"
    BY <1>4 DEF TypeOK, Settlement, WriteSettlement
  <2>2. settle' = [settle EXCEPT ![s] = row] /\ UNCHANGED <<session, account, req, crossed>>
    BY <1>4 DEF WriteSettlement
  <2> HIDE DEF row
  <2> QED BY <1>1, <2>1, <2>2
<1>5. CASE CrashSettlement(s)
  <2>1. settle' = [settle EXCEPT ![s] = NoSettlement] /\ NoSettlement.pc = "idle"
    BY <1>5 DEF CrashSettlement, NoSettlement
  <2>2. UNCHANGED <<session, account, req, crossed>> BY <1>5 DEF CrashSettlement
  <2> QED BY <1>1, <2>1, <2>2
<1>6. CASE CommitSettlement(s) BY <1>6, SettlementKeepsAccount
<1> QED BY <1>2, <1>3, <1>4, <1>5, <1>6, SessionRewritten

\* At first nothing is held.
LEMMA AccountInit == Init => AccountInv
<1> SUFFICES ASSUME Init PROVE AccountInv OBVIOUS
<1>1. /\ NewSession.status = Absent /\ NewSession.hold = "none" /\ NewSession.charged = 0
      /\ NoRequestYet.pc = "idle" /\ NoSettlement.pc = "idle"
  BY DEF NewSession, NoRequestYet, NoSettlement
<1>2. SettlesCurrent /\ ReservesCurrent
  BY <1>1 DEF Init, SettlesCurrent, ReservesCurrent, HasRead
<1>3. HoldsCounted
  <2>1. Holding = {} BY <1>1 DEF Init, Holding
  <2>2. account.reserved = 0 BY DEF Init, Opened
  <2> QED BY <1>1, <2>1, <2>2, FS_EmptySet DEF Init, HoldsCounted
<1>4. Funded BY DEF Init, Opened, Funded
<1> QED BY <1>2, <1>3, <1>4 DEF AccountInv

LEMMA AccountInvariant == Spec => []AccountInv
<1>1. TypeOK /\ KeyInv /\ QuotaInv /\ AccountInv /\ [Next]_vars => AccountInv'
  <2> SUFFICES ASSUME TypeOK, KeyInv, QuotaInv, AccountInv, [Next]_vars
               PROVE  AccountInv'
    OBVIOUS
  <2>0. InsideAlone BY DEF KeyInv, InsideAlone, Inside
  <2>1. ASSUME NEW r \in Requests, RequestStep(r) PROVE AccountInv'
    BY <2>0, <2>1, RequestKeepsAccount
  <2>2. ASSUME NEW s \in Sessions, SessionStep(s) PROVE AccountInv'
    BY <2>2, SessionKeepsAccount
  <2>3. CASE LockExpires \/ NewDay \/ UNCHANGED vars
    <3>1. UNCHANGED <<session, account, req, settle, crossed>>
      BY <2>3 DEF LockExpires, NewDay, vars
    <3> QED BY <3>1, ReadersKeepAccount DEF HasRead
  <2> QED BY <2>1, <2>2, <2>3 DEF Next
<1>2. ConservedInv => TypeOK BY DEF ConservedInv
<1> QED BY <1>1, <1>2, AccountInit, KeyInvariant, QuotaInvariant, ConservedInvariant,
           PTL DEF Spec

\* Until a settlement overlaps another update, the account holds one estimate
\* for each reservation that is not released, over all failures, crashes and
\* reviews, and however requests race and outlive their Redis lock: the upsert of
\* the quota row keeps their updates apart.
THEOREM HoldsMirrorReservations == Spec => []AccountMirrorsReservations
<1>1. AccountInv => AccountMirrorsReservations
  BY DEF AccountInv, HoldsCounted, Holding, AccountMirrorsReservations
<1> QED BY <1>1, AccountInvariant, PTL

\* Then what is held is also covered by the balance, as long as no session costs
\* more than its estimate.
THEOREM HoldsAreFunded == Spec => []Funded
<1>1. AccountInv => Funded BY DEF AccountInv
<1> QED BY <1>1, AccountInvariant, PTL
=============================================================================
