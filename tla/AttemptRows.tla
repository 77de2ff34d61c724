------------------------------ MODULE AttemptRows ------------------------------
(***************************************************************************)
(* What the transactions on the event, the session and the leases of one   *)
(* job promise, as if each were one step: the rows change only by the      *)
(* transactions of attempts that own them at that moment.                  *)
(***************************************************************************)
EXTENDS Integers

CONSTANTS
  Owners,      \* owner ids of attempts
  NoOwner,
  MaxAttempts

ASSUME AttemptRowsAssumption == NoOwner \notin Owners /\ MaxAttempts \in Nat \ {0}

VARIABLES
  event,    \* the event of the job; live: locked_until lies ahead
  session,  \* the status of the session
  lease     \* for each owner, whether it has an unended lease, and a live one

rows == <<event, session, lease>>

Working  == {"QUEUED", "PROCESSING"}
Ended    == {"REVIEW", "FAILED"}
EventRow == [status : {"PENDING", "PROCESSING", "PROCESSED", "FAILED"},
             by : Owners \cup {NoOwner}, live : BOOLEAN, attempts : Nat]

Owns(o) == event.status = "PROCESSING" /\ event.by = o
Unclaimed(st) == [event EXCEPT !.status = st, !.by = NoOwner, !.live = FALSE]
Holders == {o \in Owners : lease[o] # "none"}

RowsInit ==
  /\ event   = [status |-> "PENDING", by |-> NoOwner, live |-> FALSE, attempts |-> 0]
  /\ session = "QUEUED"
  /\ lease   = [o \in Owners |-> "none"]

Claim(o) ==
  /\ event.status = "PENDING" \/ (event.status = "PROCESSING" /\ ~event.live)
  /\ event' = [status |-> "PROCESSING", by |-> o, live |-> TRUE,
               attempts |-> event.attempts + 1]
  /\ UNCHANGED <<session, lease>>

\* Only for work.  The lease it ends may be live again: a heartbeat of the
\* attempt that lost the claim can renew it between the read and the update.
Acquire(o) ==
  /\ Owns(o)
  /\ session \in Working
  /\ session' = "PROCESSING"
  /\ lease' = [q \in Owners |-> IF q = o THEN "live" ELSE "none"]
  /\ UNCHANGED event

\* The result or the failure of a session that nobody else has taken over.
Finish(o) ==
  /\ Owns(o) /\ session = "PROCESSING" /\ Holders = {o}
  /\ \/ session' = "REVIEW" /\ event' = Unclaimed("PROCESSED")
     \/ session' = "FAILED" /\ event' = Unclaimed("FAILED")
  /\ UNCHANGED lease

GiveBack(o) ==
  /\ Owns(o) /\ session = "PROCESSING" /\ Holders \subseteq {o}
  /\ session' = "QUEUED"
  /\ event' = Unclaimed("PENDING")
  /\ lease' = [lease EXCEPT ![o] = "none"]

\* A claim that met a live lease is given up.
HandBack(o) ==
  /\ Owns(o)
  /\ event' = Unclaimed("PENDING")
  /\ UNCHANGED <<session, lease>>

Release(o) ==
  /\ o \in Holders
  /\ lease' = [lease EXCEPT ![o] = "none"]
  /\ UNCHANGED <<event, session>>

\* A heartbeat changes neither a status nor an owner.
Beat(o) ==
  /\ lease' \in {lease, [lease EXCEPT ![o] = "live"]} /\ (o \notin Holders => lease' = lease)
  /\ event' = [event EXCEPT !.live = event.status = "PROCESSING"]
  /\ UNCHANGED session

Bury ==
  /\ event.status = "PROCESSING" /\ ~event.live /\ event.attempts >= MaxAttempts
  /\ event' = Unclaimed("FAILED")
  /\ session \in Working /\ session' = "FAILED"
  /\ UNCHANGED lease

Lapse ==
  \/ event' = [event EXCEPT !.live = FALSE] /\ UNCHANGED <<session, lease>>
  \/ /\ \E o \in Holders : lease' = [lease EXCEPT ![o] = "expired"]
     /\ UNCHANGED <<event, session>>

RowsNext ==
  \/ \E o \in Owners : \/ Claim(o) \/ Acquire(o) \/ Finish(o) \/ GiveBack(o)
                       \/ HandBack(o) \/ Release(o) \/ Beat(o)
  \/ Bury \/ Lapse

RowsSpec == RowsInit /\ [][RowsNext]_rows
-----------------------------------------------------------------------------
\* A job has one outcome: once its session has a result or has failed, no
\* claim, retry, zombie or reaper changes the session or gives the event to
\* anyone again.
OneOutcome ==
  [][(session \in Ended) => session' = session /\ event' = event]_rows

\* Why: an event ends in the transaction that ends its session.
EndTogether == session \in Ended <=> event.status \in {"PROCESSED", "FAILED"}

RowsTypeOK ==
  /\ event \in EventRow
  /\ session \in Working \cup Ended
  /\ lease \in [Owners -> {"none", "live", "expired"}]

OutcomeInv ==
  /\ RowsTypeOK
  /\ EndTogether
  /\ session \in Ended => event.by = NoOwner /\ ~event.live
=============================================================================
