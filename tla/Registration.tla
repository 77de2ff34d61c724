----------------------------- MODULE Registration -----------------------------
(* Registering an account and logging in: each request is one transaction at  *)
(* READ COMMITTED that looks the address up, and registration looks it up     *)
(* twice, before its insert and when it signs the new account in.             *)
(* get_by_email compares addresses without their case, the unique index of    *)
(* auth_users compares them as they are written. The transaction is committed *)
(* when the answer is already on its way (get_db_session).                    *)
(* Left out: last_login_at, which no lookup reads; its UPDATE makes logins of *)
(* one account wait for each other's commit, and nothing waits for two rows.  *)
EXTENDS Integers, Sequences, FiniteSets

CONSTANTS
  Addresses,    \* e-mail addresses as they are written
  Folded,       \* what is left of an address without its case
  Passwords,
  Weak,         \* the passwords that _validate_password_strength refuses
  MaxCallers,   \* bound of the model: requests
  DeathBound    \* bound of the model: requests whose process or connection dies

ASSUME RegistrationAssumption ==
  /\ DOMAIN Folded = Addresses /\ Weak \subseteq Passwords
  /\ MaxCallers \in Nat /\ DeathBound \in Nat

VARIABLES
  account,  \* auth_users by id, with the grant of each account
  caller,   \* the requests, in the order of their arrival
  deaths

registrationVars == <<account, caller, deaths>>

Ids  == 1..MaxCallers
NoId == 0

\* state: not yet committed, committed, or rolled back (its id is used up);
\* grants: entries of budget_accounts and budget_ledger; by: the request.
Account == [address : Addresses, password : Passwords, grants : 0..1,
            state : {"open", "stored", "gone"}, by : Ids]

\* token: whom the cookie names; user: whom the body shows;
\* knew: history, the accounts committed at the last lookup.
Caller == [op : {"register", "login"}, address : Addresses, password : Passwords,
           pc : {"look", "insert", "grant", "sign", "show", "commit", "done"},
           token : Ids \cup {NoId}, user : Ids \cup {NoId}, knew : SUBSET Ids,
           answer : {"none", "ok", "refused", "taken", "ambiguous", "lost"}]

\* Accounts, requests and deaths keep their kinds and bounds, and an account is
\* granted its budget at most once (AuthService.register).
RegistrationTypeOK ==
  /\ account \in Seq(Account) /\ Len(account) <= MaxCallers
  /\ caller \in Seq(Caller) /\ Len(caller) <= MaxCallers
  /\ deaths \in 0..DeathBound

RegistrationInit == account = <<>> /\ caller = <<>> /\ deaths = 0

Stored == {i \in DOMAIN account : account[i].state = "stored"}

-------------------------------------------------------------------------------
(* What a request reads, and how it fails *)

SameMailbox(row, other) == Folded[row.address] = Folded[other.address]

\* Mutant: the new row is not flushed when the address is looked up again.
VisibleUnflushed(r) == Stored

\* A transaction sees what is committed and what it wrote itself.
Visible(r) ==
  Stored \cup {i \in DOMAIN account : account[i].state = "open" /\ account[i].by = r}

\* Mutant: the lookup compares addresses as they are written.
ByEmailAsWritten(r) == {i \in Visible(r) : account[i].address = caller[r].address}

ByEmail(r) == {i \in Visible(r) : SameMailbox(account[i], caller[r])}

\* Mutant: the lookup takes the first of the rows it finds.
AmbiguousNever(r) == FALSE

\* scalar_one_or_none raises when there is more than one row.
Ambiguous(r) == Cardinality(ByEmail(r)) > 1

\* Every row that the request has inserted ends as state.
Settled(r, state) ==
  [i \in DOMAIN account |->
     [account[i] EXCEPT !.state = IF @ = "open" /\ account[i].by = r THEN state ELSE @]]

\* Mutant: get_db_session commits in any case.
CommittedAnyway(r) == Settled(r, "stored")

\* Mutant: the session is neither committed nor rolled back.
LeftOpen(r) == account

\* An exception leaves the route: the session is rolled back.
RolledBack(r) == Settled(r, "gone")

Raise(r, why) ==
  /\ caller' = [caller EXCEPT ![r].pc = "done", ![r].answer = why, ![r].knew = Stored]
  /\ account' = RolledBack(r) /\ UNCHANGED deaths

\* What the request has found out leads to its next step.
Goes(r, pc) == caller' = [caller EXCEPT ![r].pc = pc, ![r].knew = Stored]

-------------------------------------------------------------------------------
(* Registration *)

Ask(op, a, p) ==
  /\ Len(caller) < MaxCallers
  /\ caller' = Append(caller, [op |-> op, address |-> a, password |-> p, pc |-> "look",
                               token |-> NoId, user |-> NoId, knew |-> {}, answer |-> "none"])
  /\ UNCHANGED <<account, deaths>>

At(r, op, pc) == caller[r].op = op /\ caller[r].pc = pc

StrongEnough(r) == caller[r].password \notin Weak

Look(r) ==
  /\ At(r, "register", "look")
  /\ \/ ~StrongEnough(r) /\ Raise(r, "refused")
     \/ StrongEnough(r) /\ Ambiguous(r) /\ Raise(r, "ambiguous")
     \/ StrongEnough(r) /\ ~Ambiguous(r) /\ ByEmail(r) # {} /\ Raise(r, "refused")
     \/ /\ StrongEnough(r) /\ ByEmail(r) = {}
        /\ Goes(r, "insert") /\ UNCHANGED <<account, deaths>>

\* The unique index: an address that is written the same way.
SameAddress(r, state) ==
  \E i \in DOMAIN account : account[i].address = caller[r].address /\ account[i].state = state

\* The insert waits for a transaction that has inserted the same address.
Insert(r) ==
  /\ At(r, "register", "insert") /\ ~SameAddress(r, "open")
  /\ \/ SameAddress(r, "stored") /\ Raise(r, "taken")
     \/ /\ ~SameAddress(r, "stored")
        /\ account' = Append(account,
             [address |-> caller[r].address, password |-> caller[r].password,
              grants |-> 0, state |-> "open", by |-> r])
        /\ caller' = [caller EXCEPT ![r].pc = "grant", ![r].user = Len(account) + 1]
        /\ UNCHANGED deaths

Credited(row) == [row EXCEPT !.grants = @ + 1]

GrantBudget(r) ==
  /\ At(r, "register", "grant")
  /\ account' = [account EXCEPT ![caller[r].user] = Credited(@)]
  /\ caller' = [caller EXCEPT ![r].pc = "sign"] /\ UNCHANGED deaths

-------------------------------------------------------------------------------
(* Login *)

\* AuthService.login: the token, or the ValueError of its two checks.
Credentials(r, next) ==
  \/ Ambiguous(r) /\ Raise(r, "ambiguous")
  \/ ByEmail(r) = {} /\ Raise(r, "refused")
  \/ /\ ~Ambiguous(r)
     /\ \E i \in ByEmail(r) :
          \/ account[i].password # caller[r].password /\ Raise(r, "refused")
          \/ /\ account[i].password = caller[r].password
             /\ caller' = [next EXCEPT ![r].token = i, ![r].knew = Stored]
             /\ UNCHANGED <<account, deaths>>

\* The new account is signed in within its transaction, and answered with.
Sign(r) ==
  /\ At(r, "register", "sign")
  /\ Credentials(r, [caller EXCEPT ![r].pc = "commit", ![r].answer = "ok"])

Login(r) ==
  /\ At(r, "login", "look")
  /\ Credentials(r, [caller EXCEPT ![r].pc = "show"])

\* The address is looked up again for the body of the answer; no code makes an
\* account inactive, so is_active holds.
Show(r) ==
  /\ At(r, "login", "show")
  /\ \/ Ambiguous(r) /\ Raise(r, "ambiguous")
     \/ ~Ambiguous(r) /\ \E i \in ByEmail(r) :
          /\ caller' = [caller EXCEPT ![r].pc = "commit", ![r].answer = "ok",
                                      ![r].user = i, ![r].knew = Stored]
          /\ UNCHANGED <<account, deaths>>

-------------------------------------------------------------------------------
(* The end of a transaction *)

Commit(r) ==
  /\ caller[r].pc = "commit"
  /\ account' = Settled(r, "stored")
  /\ caller' = [caller EXCEPT ![r].pc = "done"] /\ UNCHANGED deaths

\* The process or its connection dies, the commit after the answer included.
Die(r) ==
  /\ caller[r].pc # "done" /\ deaths < DeathBound
  /\ deaths' = deaths + 1
  /\ account' = RolledBack(r)
  /\ caller' = [caller EXCEPT ![r].pc = "done", ![r].answer = IF @ = "ok" THEN @ ELSE "lost"]

Step(r) ==
  \/ Look(r) \/ Insert(r) \/ GrantBudget(r) \/ Sign(r)
  \/ Login(r) \/ Show(r) \/ Commit(r)

RegistrationNext ==
  \/ \E op \in {"register", "login"}, a \in Addresses, p \in Passwords : Ask(op, a, p)
  \/ \E r \in DOMAIN caller : Step(r) \/ Die(r)

\* The event loop gets back to every request, and PostgreSQL wakes an insert
\* that waits when the other transaction has ended.
RegistrationFairness == \A r \in Ids : WF_registrationVars(r \in DOMAIN caller /\ Step(r))

RegistrationSpec ==
  RegistrationInit /\ [][RegistrationNext]_registrationVars /\ RegistrationFairness

-------------------------------------------------------------------------------
(* Properties *)

\* Two accounts of one mailbox are written differently, and neither was committed
\* when the other was looked up for the last time: only registrations that
\* overlap get past get_by_email (auth_service.py:49 and :82).
TwinsOverlapped ==
  \A i, j \in Stored : i # j /\ SameMailbox(account[i], account[j]) =>
    account[i].address # account[j].address /\ i \notin caller[account[j].by].knew

Failed == {"refused", "taken", "ambiguous", "lost"}

\* An account is committed with its grant or not at all, and a caller who is told
\* that it failed has left no account behind (register, get_db_session).
AllOrNothing ==
  \A i \in DOMAIN account :
    /\ account[i].state = "stored" =>
         account[i].grants = 1 /\ caller[account[i].by].answer = "ok"
    /\ caller[account[i].by].answer \in Failed => account[i].state = "gone"

Own(i, r) ==
  /\ account[i].password = caller[r].password
  /\ SameMailbox(account[i], caller[r])
  /\ caller[r].op = "register" => account[i].by = r

\* Whoever is signed in gave the address and the password of the account, the
\* cookie and the body name the same one, though they come from two lookups, and
\* a registration signs in the account it made (auth_routes.py:32-33, :44-46).
SignedInAsSelf ==
  \A r \in DOMAIN caller : caller[r].answer = "ok" =>
    caller[r].token = caller[r].user /\ Own(caller[r].token, r)

Cause(r) ==
  \/ caller[r].op = "register" /\ ~StrongEnough(r)
  \/ /\ caller[r].op = "register"
     /\ \E i \in Stored : account[i].by # r /\ SameMailbox(account[i], caller[r])
  \/ /\ caller[r].op = "login"
     /\ \A i \in caller[r].knew :
          SameMailbox(account[i], caller[r]) => account[i].password # caller[r].password

\* A registration is refused for its password or for an account of somebody else
\* that stays, a login only if no account it could have seen was its own.
RefusedForCause == \A r \in DOMAIN caller : caller[r].answer = "refused" => Cause(r)

\* Every request ends: the inserts that wait for each other's address are let on,
\* by a commit or by a rollback.
EveryoneAnswered ==
  \A r \in Ids : r \in DOMAIN caller ~> r \in DOMAIN caller /\ caller[r].pc = "done"
===============================================================================
