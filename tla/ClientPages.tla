------------------------------- MODULE ClientPages -------------------------------
(***************************************************************************)
(* A tab of the browser and the API it talks to: the dashboard that starts *)
(* a story with an Idempotency-Key, the status hook that polls a session   *)
(* and moves the tab to the page its status calls for, the review pages.   *)
(* Requests and answers travel on their own: they arrive in any order,     *)
(* late, for a page that has gone, or never.                               *)
(*                                                                         *)
(* Sessions are moved by the workers as the other modules say; a review by *)
(* another tab or device is a move of the session too.  A text is the      *)
(* number of the version it was written for.                               *)
(***************************************************************************)
EXTENDS Naturals, Sequences, FiniteSets, SessionStatus

CONSTANTS
  MaxSessions, \* bound of the model: sessions of the user
  MaxVersions, \* bound of the model: versions of a session
  MaxKeys,     \* bound of the model: keys the tab draws
  LossBound,   \* bound of the model: requests or answers that are lost
  MaxMoved,    \* bound of the model: sessions the workers take up
  MaxInFlight  \* bound of the model: messages in flight when a click or a poll adds one

ASSUME ClientAssumption ==
  /\ MaxSessions \in Nat /\ MaxVersions \in Nat \ {0}
  /\ MaxKeys \in Nat /\ LossBound \in Nat /\ MaxMoved \in Nat /\ MaxInFlight \in Nat

VARIABLES
  sessions, \* the user's sessions, in the order of their creation
  tab,      \* what the tab shows and remembers
  net,      \* requests and answers between the tab and the API
  drawn,    \* the keys drawn, crypto.randomUUID(): the form each was drawn for
  losses,   \* requests and answers lost so far
  ended     \* history: keys whose session the tab was told to have ended

vars == <<sessions, tab, net, drawn, losses, ended>>

Nobody == 0   \* no session, no key, no text
Ids   == 1..MaxSessions
Keys  == 1..MaxKeys
Texts == 0..MaxVersions

Session == [key : Keys, status : Statuses, outlined : BOOLEAN,
            version : 1..MaxVersions, text : Texts]

Pages == {"dashboard", "progress", "outline", "final", "output"}

\* page, session, the interval of the status hook, the draft loaded for review
\* and the text current when the page was mounted (history), the form and its
\* key, and the busy button.  A form is numbered by the keys drawn before it.
Tab == [page : Pages, on : 0..MaxSessions, polling : BOOLEAN,
        loaded : BOOLEAN, draft : Texts, since : Texts,
        form : Nat, key : 0..MaxKeys, busy : BOOLEAN]

Actions == {"approve", "revise", "approved", "revision_requested", "rejected"}

\* A request and, once the API has dealt with it, its answer.  "mounted" says
\* that the page that sent it is still there.
Msg == [kind : {"generate", "status", "outline", "draft", "review"}, on : 0..MaxSessions,
        key : 0..MaxKeys, action : {"none"} \cup Actions,
        auto : BOOLEAN, mounted : BOOLEAN,
        answer : {"none", "loaded", "error", "terminal"} \cup Statuses, text : Texts]

ClientTypeOK ==
  /\ sessions \in Seq(Session) /\ Len(sessions) <= MaxSessions
  /\ tab \in Tab /\ net \subseteq Msg
  /\ drawn \in Seq(Nat) /\ Len(drawn) <= MaxKeys /\ losses \in 0..LossBound
  /\ ended \subseteq {sessions[s].key : s \in DOMAIN sessions}
  /\ tab.polling => tab.on \in DOMAIN sessions

Dashboard ==
  [page |-> "dashboard", on |-> Nobody, polling |-> FALSE, loaded |-> FALSE, draft |-> Nobody,
   since |-> Nobody, form |-> Len(drawn), key |-> Nobody, busy |-> FALSE]

Init ==
  /\ sessions = <<>> /\ net = {} /\ drawn = <<>> /\ losses = 0 /\ ended = {}
  /\ tab = Dashboard

-------------------------------------------------------------------------------
(* Pages *)

\* Mutant: a queued session is not active.
ActiveOnlyRunning == {"PROCESSING"}

\* The statuses during which the hook keeps polling; no session is ever
\* REVISION_REQUESTED.
Polled == {"QUEUED", "PROCESSING"}

PageFor(status) ==
  CASE status = "AWAITING_OUTLINE_REVIEW" -> "outline"
    [] status = "AWAITING_FINAL_REVIEW"   -> "final"
    [] status = "COMPLETED"               -> "output"
    [] OTHER                              -> "progress"

Ask(kind, on) ==
  [kind |-> kind, on |-> on, key |-> Nobody, action |-> "none", auto |-> FALSE,
   mounted |-> TRUE, answer |-> "none", text |-> Nobody]

\* Every page of a session but the output page redirects.
AskStatus(page, s) == [Ask("status", s) EXCEPT !.auto = page # "output"]

TextOf(page, s) == IF page = "final" THEN sessions[s].text ELSE Nobody

\* What a page asks for when it is mounted.
Opening(page, s) ==
  {AskStatus(page, s)}
  \cup (IF page = "outline" THEN {Ask("outline", s)} ELSE {})
  \cup (IF page = "final" THEN {Ask("draft", s)} ELSE {})

Left(msgs) == {[m EXCEPT !.mounted = FALSE] : m \in msgs}

\* The tab moves to a page: what is under way belongs to a page that is gone.
GoTo(page, s, msgs) ==
  /\ tab' = [Dashboard EXCEPT !.page = page, !.on = s, !.polling = TRUE, !.since = TextOf(page, s)]
  /\ net' = Left(msgs) \cup Opening(page, s)

Ready == Cardinality(net) < MaxInFlight

\* The library, a link or the address bar; opening the dashboard drops its ref.
OpenSession(s) ==
  /\ Ready /\ s \in DOMAIN sessions /\ tab.on # s
  /\ GoTo(PageFor(sessions[s].status), s, net)
  /\ UNCHANGED <<sessions, drawn, losses, ended>>

OpenDashboard ==
  /\ Ready /\ tab.page # "dashboard"
  /\ tab' = Dashboard
  /\ net' = Left(net)
  /\ UNCHANGED <<sessions, drawn, losses, ended>>

-------------------------------------------------------------------------------
(* Requests *)

\* The key of the form: drawn once, kept until the story is under way.
KeyFor == IF tab.key = Nobody THEN Len(drawn) + 1 ELSE tab.key

\* Submitting the form, the first time or again after an error.
Submit ==
  /\ tab.page = "dashboard" /\ ~tab.busy /\ Ready
  /\ KeyFor \in Keys
  /\ drawn' = IF KeyFor \in DOMAIN drawn THEN drawn ELSE Append(drawn, tab.form)
  /\ tab' = [tab EXCEPT !.key = KeyFor, !.busy = TRUE]
  /\ net' = net \cup {[Ask("generate", Nobody) EXCEPT !.key = KeyFor]}
  /\ UNCHANGED <<sessions, losses, ended>>

\* The interval of three seconds, or the refresh button.
Poll ==
  /\ tab.polling /\ Ready
  /\ net' = net \cup {AskStatus(tab.page, tab.on)}
  /\ UNCHANGED <<sessions, tab, drawn, losses, ended>>

ReviewChoices(page) ==
  CASE page = "outline" -> {"approve", "revise"}
    [] page = "final"   -> {"approved", "revision_requested", "rejected"}
    [] OTHER            -> {}

Review(action) ==
  /\ tab.loaded /\ ~tab.busy /\ Ready
  /\ action \in ReviewChoices(tab.page)
  /\ tab' = [tab EXCEPT !.busy = TRUE]
  /\ net' = net \cup {[Ask("review", tab.on) EXCEPT !.action = action]}
  /\ UNCHANGED <<sessions, drawn, losses, ended>>

-------------------------------------------------------------------------------
(* The API *)

Reply(reply, answer, text, m) ==
  net' = (net \ {m}) \cup {[reply EXCEPT !.answer = answer, !.text = text]}

WithKey(k) == {s \in DOMAIN sessions : sessions[s].key = k}

\* One session per key: a live one is returned, an ended one refused with 409.
Generate(m) ==
  \/ \E s \in WithKey(m.key) :
       /\ sessions[s].status \notin TerminalStatuses
       /\ Reply([m EXCEPT !.on = s], sessions[s].status, Nobody, m)
       /\ UNCHANGED sessions
  \/ \E s \in WithKey(m.key) :
       /\ sessions[s].status \in TerminalStatuses
       /\ Reply(m, "terminal", Nobody, m)
       /\ UNCHANGED sessions
  \/ /\ WithKey(m.key) = {} /\ Len(sessions) < MaxSessions
     /\ sessions' = Append(sessions, [key |-> m.key, status |-> "QUEUED", outlined |-> FALSE,
                                      version |-> 1, text |-> Nobody])
     /\ Reply([m EXCEPT !.on = Len(sessions) + 1], "QUEUED", Nobody, m)
  \* daily limit, active sessions or budget: 429, 409 or 402
  \/ /\ WithKey(m.key) = {}
     /\ Reply(m, "error", Nobody, m)
     /\ UNCHANGED sessions

\* The final review page loads the newest version, if it has a text.
Load(m) ==
  LET s == sessions[m.on]
  IN IF m.kind = "draft" /\ s.text = Nobody THEN Reply(m, "error", Nobody, m)
                                           ELSE Reply(m, "loaded", IF m.kind = "draft" THEN s.text ELSE Nobody, m)

\* A reviewed session, or what it was when it is not at that review.
Reviewed(s, action) ==
  CASE action \in {"approve", "revise"} /\ s.status = "AWAITING_OUTLINE_REVIEW"
         -> [s EXCEPT !.status = "QUEUED", !.outlined = TRUE]
    [] action = "approved" /\ s.status = "AWAITING_FINAL_REVIEW" -> [s EXCEPT !.status = "COMPLETED"]
    [] action = "rejected" /\ s.status = "AWAITING_FINAL_REVIEW" -> [s EXCEPT !.status = "REJECTED"]
    [] action = "revision_requested" /\ s.status = "AWAITING_FINAL_REVIEW" /\ s.version < MaxVersions
         -> [s EXCEPT !.status = "QUEUED", !.version = @ + 1]
    [] OTHER -> s

Decide(m) ==
  LET after == Reviewed(sessions[m.on], m.action)
  IN /\ sessions' = [sessions EXCEPT ![m.on] = after]
     /\ Reply(m, IF after = sessions[m.on] THEN "error" ELSE after.status, Nobody, m)

Answer(m) ==
  \/ m.kind = "generate" /\ Generate(m)
  \/ m.kind = "status" /\ Reply(m, sessions[m.on].status, Nobody, m) /\ UNCHANGED sessions
  \/ m.kind \in {"outline", "draft"} /\ Load(m) /\ UNCHANGED sessions
  \/ m.kind = "review" /\ Decide(m)

Serve ==
  /\ \E m \in net : m.answer = "none" /\ Answer(m)
  /\ UNCHANGED <<tab, drawn, losses, ended>>

\* The workers, and reviews that reach the API from elsewhere.
Worked(s) ==
  CASE s.status = "QUEUED" -> {[s EXCEPT !.status = "PROCESSING"]}
    [] s.status = "PROCESSING" ->
         {[s EXCEPT !.status = "FAILED"],
          IF s.outlined THEN [s EXCEPT !.status = "AWAITING_FINAL_REVIEW", !.text = s.version]
                        ELSE [s EXCEPT !.status = "AWAITING_OUTLINE_REVIEW"]}
    [] s.status = "AWAITING_OUTLINE_REVIEW" -> {Reviewed(s, "approve")}
    [] s.status = "AWAITING_FINAL_REVIEW" ->
         {Reviewed(s, a) : a \in {"approved", "rejected", "revision_requested"}}
    [] OTHER -> {}

MoveSession(s) ==
  /\ s \in DOMAIN sessions /\ s <= MaxMoved
  /\ \E after \in Worked(sessions[s]) : sessions' = [sessions EXCEPT ![s] = after]
  /\ UNCHANGED <<tab, net, drawn, losses, ended>>

-------------------------------------------------------------------------------
(* Answers *)

\* An answer of /status, even to a hook that is gone, moves the tab to the page
\* of the status it carries; it stops the polling of its own page only.
ReceiveStatus(m) ==
  /\ m.kind = "status" /\ m.answer \in Statuses
  /\ LET page == PageFor(m.answer)
     IN IF m.auto /\ (tab.page # page \/ tab.on # m.on)
        THEN GoTo(page, m.on, net \ {m})
        ELSE /\ tab' = [tab EXCEPT !.polling = @ /\ (m.mounted => m.answer \in Polled)]
             /\ net' = net \ {m}
  /\ UNCHANGED ended

\* Mutant: no isActive.
AlwaysWanted(m) == TRUE

\* isActive: what a page asked for before it was left is dropped.
Wanted(m) == m.mounted

ReceiveLoad(m) ==
  /\ m.answer = "loaded"
  /\ \/ m.kind = "outline" /\ tab.page = "outline"
     \/ m.kind = "draft" /\ tab.page = "final"
  /\ Wanted(m) /\ tab.on = m.on
  /\ tab' = [tab EXCEPT !.loaded = TRUE, !.draft = m.text]
  /\ net' = net \ {m}
  /\ UNCHANGED ended

DropLoad(m) ==
  /\ m.kind \in {"outline", "draft"} /\ m.answer # "none" /\ ~m.mounted
  /\ net' = net \ {m}
  /\ UNCHANGED <<tab, ended>>

\* The story is under way: the tab moves to its page, from wherever it is by
\* now; a dashboard that is opened later draws a new key.
ReceiveGenerated(m) ==
  /\ m.kind = "generate" /\ m.answer \in Statuses
  /\ GoTo(PageFor(m.answer), m.on, net \ {m})
  /\ UNCHANGED ended

\* After "revise" the page stays as it is; after any other review it moves on.
ReceiveReviewed(m) ==
  /\ m.kind = "review" /\ m.answer \in Statuses
  /\ IF m.action = "revise"
     THEN /\ tab' = [tab EXCEPT !.busy = @ /\ ~m.mounted]
          /\ net' = net \ {m}
     ELSE GoTo(PageFor(m.answer), m.on, net \ {m})
  /\ UNCHANGED ended

\* Mutant: the form is given up with the request.
DropKey == Nobody

KeepKey == tab.key

\* Any other end of a request is shown as an error, and the button is free
\* again; the key of the form is kept.
Fails(m) ==
  /\ tab' = IF m.mounted /\ m.kind \in {"generate", "review"}
            THEN [tab EXCEPT !.busy = FALSE, !.key = KeepKey] ELSE tab
  /\ net' = net \ {m}

ReceiveError(m) ==
  /\ m.answer \in {"error", "terminal"}
  /\ Fails(m)
  /\ ended' = ended \cup (IF m.answer = "terminal" /\ m.mounted THEN {m.key} ELSE {})

Receive ==
  /\ \E m \in net : \/ ReceiveStatus(m) \/ ReceiveLoad(m) \/ DropLoad(m)
                    \/ ReceiveGenerated(m) \/ ReceiveReviewed(m) \/ ReceiveError(m)
  /\ UNCHANGED <<sessions, drawn, losses>>

\* The connection fails, before the API has seen the request or after it.
Lose ==
  /\ losses < LossBound /\ losses' = losses + 1
  /\ \E m \in net : Fails(m)
  /\ UNCHANGED <<sessions, drawn, ended>>

Next ==
  \/ \E s \in Ids : OpenSession(s) \/ MoveSession(s)
  \/ \E action \in Actions : Review(action)
  \/ OpenDashboard \/ Submit \/ Poll \/ Serve \/ Receive \/ Lose

Spec == Init /\ [][Next]_vars

\* The interval fires, the API answers, and every fetch ends.
FairSpec == Spec /\ WF_vars(Poll) /\ WF_vars(Serve) /\ WF_vars(Receive)

-------------------------------------------------------------------------------
\* A story that is submitted again after a lost answer is not started twice
\* (DashboardPage.tsx:55, blog_service.py:94): two sessions may stem from one form
\* only if the tab was told that the session of the first key has ended.  Then the
\* form is meant to send another key (KeyRefreshed).
OneSessionPerForm ==
  \A s, r \in DOMAIN sessions :
    s < r /\ drawn[sessions[s].key] = drawn[sessions[r].key] => sessions[s].key \in ended

\* What a review page shows was current when the page was opened or later: no
\* answer to an earlier visit of the page overwrites it (useLatestVersion.ts:16-21).
ShownSinceMount ==
  tab.page = "final" /\ tab.loaded => tab.draft >= tab.since

\* A tab that waits on the progress page gets to the review its session has
\* come to, whatever answers are lost, late or out of order (useSessionStatus.ts:65-83).
FollowsToReview ==
  \A s \in Ids :
    LET Waits == /\ tab.page = "progress" /\ tab.on = s
                 /\ s \in DOMAIN sessions /\ sessions[s].status \in ReviewStatuses
    IN Waits ~> ~Waits

\* A key the tab has been told to belong to an ended session is not sent again:
\* "the frontend respects the signal and refreshes its key before the next attempt"
\* (docs/blogs/incident-idempotency-and-ghost-replay.md:175).
KeyRefreshed ==
  [][\A m \in net' \ net : m.kind = "generate" /\ m.answer = "none" => m.key \notin ended]_vars
===============================================================================
