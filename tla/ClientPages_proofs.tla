--------------------------- MODULE ClientPages_proofs ---------------------------
(***************************************************************************)
(* Theorems about ClientPages, for any number of sessions, versions, keys, *)
(* messages in flight and losses.                                          *)
(***************************************************************************)
EXTENDS ClientPages, TLAPS

USE ClientAssumption

-------------------------------------------------------------------------------
(* The inductive invariant: one form draws one key, one key starts one        *)
(* session, and what is still wanted was asked for by the page the tab shows. *)

\* No two sessions have one key, every key was drawn, and a text is of a version.
SessionsSane ==
  /\ \A s \in DOMAIN sessions :
       /\ sessions[s].key \in DOMAIN drawn
       /\ sessions[s].text <= sessions[s].version
  /\ \A s, r \in DOMAIN sessions : sessions[s].key = sessions[r].key => s = r

\* A form draws one key at most, and a form without a key is the newest.
FormsSane ==
  /\ \A k \in DOMAIN drawn : drawn[k] = k - 1
  /\ IF tab.key = Nobody THEN tab.form = Len(drawn) ELSE tab.key \in DOMAIN drawn

TabSane ==
  /\ tab.page # "dashboard" => tab.on \in DOMAIN sessions
  /\ tab.polling => tab.page # "dashboard"
  /\ tab.page = "final" => tab.since <= sessions[tab.on].text

MsgSane(m) ==
  /\ m.kind # "generate" \/ m.answer \in Statuses => m.on \in DOMAIN sessions
  /\ m.kind = "generate" => m.key \in DOMAIN drawn
  /\ m.answer = "terminal" => \E s \in DOMAIN sessions : sessions[s].key = m.key
  /\ m.kind = "draft" /\ m.mounted => tab.page = "final" /\ tab.on = m.on
  /\ m.kind = "draft" /\ m.mounted /\ m.answer = "loaded" => tab.since <= m.text

ClientInv ==
  /\ ClientTypeOK /\ SessionsSane /\ FormsSane /\ TabSane /\ ShownSinceMount
  /\ \A m \in net : MsgSane(m)

-------------------------------------------------------------------------------
(* Types *)

LEMMA TabTyped ==
  ASSUME ClientTypeOK
  PROVE  /\ tab \in Tab /\ DOMAIN tab = {"page", "on", "polling", "loaded", "draft", "since", "form", "key", "busy"}
         /\ tab.page \in Pages /\ tab.on \in 0..MaxSessions /\ tab.draft \in Texts
         /\ tab.since \in Texts /\ tab.form \in Nat /\ tab.key \in 0..MaxKeys
         /\ tab.polling \in BOOLEAN /\ tab.loaded \in BOOLEAN /\ tab.busy \in BOOLEAN
BY DEF ClientTypeOK, Tab

LEMMA MsgTyped ==
  ASSUME NEW m \in Msg
  PROVE  /\ DOMAIN m = {"kind", "on", "key", "action", "auto", "mounted", "answer", "text"}
         /\ m.kind \in {"generate", "status", "outline", "draft", "review"}
         /\ m.on \in 0..MaxSessions /\ m.key \in 0..MaxKeys
         /\ m.action \in {"none"} \cup Actions
         /\ m.answer \in {"none", "loaded", "error", "terminal"} \cup Statuses
         /\ m.text \in Texts /\ m.auto \in BOOLEAN /\ m.mounted \in BOOLEAN
BY DEF Msg

LEMMA SessionTyped ==
  ASSUME ClientTypeOK, NEW s \in DOMAIN sessions
  PROVE  /\ sessions[s] \in Session /\ s \in Nat /\ s # Nobody /\ s \in 0..MaxSessions
         /\ sessions[s].key \in Keys /\ sessions[s].key # Nobody
         /\ sessions[s].status \in Statuses
         /\ sessions[s].version \in 1..MaxVersions /\ sessions[s].text \in Texts
         /\ sessions[s].outlined \in BOOLEAN
<1>1. sessions[s] \in Session /\ s \in 1..Len(sessions) /\ Len(sessions) <= MaxSessions /\ Len(sessions) \in Nat
  BY DEF ClientTypeOK
<1> QED BY <1>1 DEF Session, Keys, Nobody

LEMMA PageForPage == \A status : PageFor(status) \in Pages \ {"dashboard"}
BY DEF PageFor, Pages

LEMMA AskTyped ==
  ASSUME NEW kind \in {"generate", "status", "outline", "draft", "review"},
         NEW on \in 0..MaxSessions
  PROVE  Ask(kind, on) \in Msg
BY DEF Ask, Msg, Nobody, Texts

LEMMA MsgChanged ==
  ASSUME NEW m \in Msg
  PROVE  /\ [m EXCEPT !.mounted = FALSE] \in Msg
         /\ \A auto \in BOOLEAN : [m EXCEPT !.auto = auto] \in Msg
         /\ \A action \in Actions : [m EXCEPT !.action = action] \in Msg
         /\ \A key \in 0..MaxKeys : [m EXCEPT !.key = key] \in Msg
BY DEF Msg

-------------------------------------------------------------------------------
(* Steps that leave the page as it is *)

Evolved ==
  /\ sessions' \in Seq(Session) /\ Len(sessions') <= MaxSessions
  /\ DOMAIN sessions \subseteq DOMAIN sessions'
  /\ \A s \in DOMAIN sessions :
       sessions'[s].key = sessions[s].key /\ sessions[s].text <= sessions'[s].text
  /\ SessionsSane'

SamePage ==
  /\ tab' \in Tab /\ tab'.page = tab.page /\ tab'.on = tab.on /\ tab'.since = tab.since
  /\ tab'.loaded = tab.loaded /\ tab'.draft = tab.draft
  /\ tab'.polling => tab.polling

LEMMA SamePageKeeps ==
  ASSUME ClientInv, Evolved, SamePage, FormsSane',
         drawn' \in Seq(Nat), Len(drawn') <= MaxKeys, DOMAIN drawn \subseteq DOMAIN drawn',
         net' \subseteq Msg, \A m \in net' : m \in net \/ MsgSane(m)',
         losses' \in 0..LossBound, ended' \subseteq {sessions'[s].key : s \in DOMAIN sessions'}
  PROVE  ClientInv'
<1>1. ClientTypeOK /\ TabSane /\ ShownSinceMount
  BY DEF ClientInv
<1>2. TabSane'
  <2>1. tab.page = "final" => tab.since <= sessions'[tab.on].text
    <3> SUFFICES ASSUME tab.page = "final" PROVE tab.since <= sessions'[tab.on].text
      OBVIOUS
    <3>1. tab.on \in DOMAIN sessions /\ tab.since <= sessions[tab.on].text
      BY <1>1 DEF TabSane
    <3>2. tab.on \in DOMAIN sessions' /\ sessions'[tab.on] \in Session
      BY <3>1 DEF Evolved
    <3>3. tab.since \in Nat /\ sessions[tab.on].text \in Nat /\ sessions'[tab.on].text \in Nat
      BY <1>1, <3>1, <3>2, TabTyped, SessionTyped DEF Texts, Session
    <3> QED BY <3>1, <3>3 DEF Evolved
  <2> QED BY <1>1, <2>1 DEF TabSane, SamePage, Evolved
<1>3. ASSUME NEW m \in net' PROVE MsgSane(m)'
  <2>1. CASE m \in net
    <3>1. MsgSane(m)
      BY <2>1 DEF ClientInv
    <3>2. m.answer = "terminal" => \E s \in DOMAIN sessions' : sessions'[s].key = m.key
      BY <3>1 DEF MsgSane, Evolved
    <3> QED BY <3>1, <3>2 DEF MsgSane, Evolved, SamePage
  <2> QED BY <2>1
<1>4. ShownSinceMount'
  BY <1>1 DEF ShownSinceMount, SamePage
<1>5. ClientTypeOK'
  <2>1. tab'.polling => tab'.on \in DOMAIN sessions'
    BY <1>1 DEF ClientTypeOK, SamePage, Evolved
  <2> QED BY <2>1 DEF ClientTypeOK, SamePage, Evolved
<1> QED BY <1>2, <1>3, <1>4, <1>5 DEF ClientInv, Evolved

LEMMA UnchangedEvolved ==
  ASSUME ClientTypeOK, SessionsSane, UNCHANGED sessions, DOMAIN drawn \subseteq DOMAIN drawn'
  PROVE  Evolved
<1>1. \A s \in DOMAIN sessions : sessions[s].text \in Nat
  BY SessionTyped DEF Texts
<1> QED BY <1>1 DEF ClientTypeOK, SessionsSane, Evolved

\* The key of the form is what it was, and nothing was drawn.
LEMMA SameForm ==
  ASSUME FormsSane, UNCHANGED drawn, tab'.form = tab.form, tab'.key = tab.key
  PROVE  FormsSane'
BY DEF FormsSane

-------------------------------------------------------------------------------
(* Steps to another page *)

LEMMA OpeningSane ==
  ASSUME ClientTypeOK, NEW page \in Pages \ {"dashboard"}, NEW s \in DOMAIN sessions,
         NEW m \in Opening(page, s)
  PROVE  /\ m \in Msg /\ m.kind \in {"status", "outline", "draft"} /\ m.on = s
         /\ m.answer = "none" /\ (m.kind = "draft" => page = "final")
<1>1. s \in 0..MaxSessions
  BY SessionTyped
<1>2. CASE m = AskStatus(page, s)
  <2>1. Ask("status", s) \in Msg /\ Ask("status", s).kind = "status"
        /\ Ask("status", s).on = s /\ Ask("status", s).answer = "none"
    BY <1>1, AskTyped DEF Ask
  <2>2. m = [Ask("status", s) EXCEPT !.auto = page # "output"]
    BY <1>2 DEF AskStatus
  <2>3. m \in Msg
    BY <2>1, <2>2, MsgChanged
  <2>4. m.kind = "status" /\ m.on = s /\ m.answer = "none"
    BY <2>2 DEF Ask
  <2> QED BY <2>3, <2>4
<1>3. CASE m = Ask("outline", s)
  BY <1>1, <1>3, AskTyped DEF Ask
<1>4. CASE m = Ask("draft", s) /\ page = "final"
  <2>1. m \in Msg
    BY <1>1, <1>4, AskTyped
  <2> QED BY <1>4, <2>1 DEF Ask
<1> QED BY <1>2, <1>3, <1>4 DEF Opening

LEMMA LeftSane ==
  ASSUME NEW msgs, msgs \subseteq Msg, NEW m \in Left(msgs)
  PROVE  /\ m \in Msg /\ m.mounted = FALSE
         /\ \E n \in msgs : /\ m.kind = n.kind /\ m.on = n.on /\ m.key = n.key
                            /\ m.answer = n.answer /\ m.text = n.text
<1>1. PICK n \in msgs : m = [n EXCEPT !.mounted = FALSE]
  BY DEF Left
<1>2. m \in Msg
  BY <1>1, MsgChanged
<1>3. /\ m.kind = n.kind /\ m.on = n.on /\ m.key = n.key
      /\ m.answer = n.answer /\ m.text = n.text /\ m.mounted = FALSE
  BY <1>1, MsgTyped
<1> QED BY <1>2, <1>3

LEMMA GoToKeeps ==
  ASSUME ClientInv, NEW page \in Pages \ {"dashboard"}, NEW s \in DOMAIN sessions,
         NEW msgs, msgs \subseteq net, GoTo(page, s, msgs), UNCHANGED <<sessions, drawn>>,
         losses' \in 0..LossBound, ended' \subseteq {sessions[r].key : r \in DOMAIN sessions}
  PROVE  ClientInv'
<1>1. ClientTypeOK /\ SessionsSane /\ FormsSane /\ net \subseteq Msg
  BY DEF ClientInv, ClientTypeOK
<1>2. TextOf(page, s) \in Texts
  BY <1>1, SessionTyped DEF TextOf, Texts, Nobody
<1>3. /\ tab'.page = page /\ tab'.on = s /\ tab'.loaded = FALSE
      /\ tab'.since = TextOf(page, s) /\ tab'.form = Len(drawn) /\ tab'.key = Nobody
      /\ tab' \in Tab
  <2>1. s \in 0..MaxSessions /\ Len(drawn) \in Nat
    BY <1>1, SessionTyped DEF ClientTypeOK
  <2>2. tab' = [page |-> page, on |-> s, polling |-> TRUE, loaded |-> FALSE, draft |-> Nobody,
                since |-> TextOf(page, s), form |-> Len(drawn), key |-> Nobody, busy |-> FALSE]
    BY DEF GoTo, Dashboard
  <2> QED BY <1>2, <2>1, <2>2 DEF Tab, Nobody, Texts
<1>4. ASSUME NEW m \in net' PROVE m \in Msg /\ MsgSane(m)'
  <2>1. CASE m \in Left(msgs)
    <3>1. PICK n \in msgs : /\ m.kind = n.kind /\ m.on = n.on /\ m.key = n.key
                            /\ m.answer = n.answer /\ m.text = n.text
      BY <1>1, <2>1, LeftSane
    <3>2. m \in Msg /\ m.mounted = FALSE
      BY <1>1, <2>1, LeftSane
    <3>3. MsgSane(n)
      BY DEF ClientInv
    <3> QED BY <3>1, <3>2, <3>3 DEF MsgSane
  <2>2. CASE m \in Opening(page, s)
    <3>1. /\ m \in Msg /\ m.kind \in {"status", "outline", "draft"} /\ m.on = s
          /\ m.answer = "none" /\ (m.kind = "draft" => page = "final")
      BY <1>1, <2>2, OpeningSane
    <3>2. m.answer \notin {"terminal", "loaded"}
      BY <3>1
    <3> QED BY <1>3, <3>1, <3>2 DEF MsgSane
  <2> QED BY <2>1, <2>2 DEF GoTo
<1>5. TabSane'
  <2>1. sessions[s].text \in Nat
    BY <1>1, SessionTyped DEF Texts
  <2> QED BY <1>3, <2>1 DEF TabSane, TextOf
<1>6. FormsSane' /\ ShownSinceMount' /\ SessionsSane'
  BY <1>1, <1>3 DEF FormsSane, ShownSinceMount, SessionsSane
<1>7. ClientTypeOK'
  BY <1>1, <1>3, <1>4 DEF ClientTypeOK
<1> QED BY <1>4, <1>5, <1>6, <1>7 DEF ClientInv

LEMMA OpenDashboardKeeps ==
  ASSUME ClientInv, OpenDashboard
  PROVE  ClientInv'
<1>1. /\ ClientTypeOK /\ SessionsSane /\ FormsSane /\ net \subseteq Msg /\ tab' = Dashboard
      /\ net' = Left(net) /\ UNCHANGED <<sessions, drawn, losses, ended>>
  BY DEF ClientInv, ClientTypeOK, OpenDashboard
<1>2. /\ tab' \in Tab /\ tab'.page = "dashboard" /\ tab'.polling = FALSE
      /\ tab'.form = Len(drawn) /\ tab'.key = Nobody
  <2>1. Len(drawn) \in Nat
    BY <1>1 DEF ClientTypeOK
  <2> QED BY <1>1, <2>1 DEF Dashboard, Tab, Pages, Texts, Nobody
<1>3. ASSUME NEW m \in net' PROVE m \in Msg /\ MsgSane(m)'
  <2>1. PICK n \in net : /\ m.kind = n.kind /\ m.on = n.on /\ m.key = n.key
                         /\ m.answer = n.answer /\ m.text = n.text
    BY <1>1, LeftSane
  <2>2. m \in Msg /\ m.mounted = FALSE
    BY <1>1, LeftSane
  <2>3. MsgSane(n)
    BY DEF ClientInv
  <2> QED BY <1>1, <2>1, <2>2, <2>3 DEF MsgSane
<1>4. TabSane' /\ FormsSane' /\ ShownSinceMount' /\ SessionsSane'
  BY <1>1, <1>2 DEF TabSane, FormsSane, ShownSinceMount, SessionsSane
<1>5. ClientTypeOK'
  BY <1>1, <1>2, <1>3 DEF ClientTypeOK
<1> QED BY <1>3, <1>4, <1>5 DEF ClientInv

-------------------------------------------------------------------------------
(* Requests *)

LEMMA SubmitKeeps ==
  ASSUME ClientInv, Submit
  PROVE  ClientInv'
<1>1. ClientTypeOK /\ SessionsSane /\ FormsSane /\ net \subseteq Msg
  BY DEF ClientInv, ClientTypeOK
<1>2. /\ KeyFor \in Keys /\ UNCHANGED <<sessions, losses, ended>>
      /\ drawn' = IF KeyFor \in DOMAIN drawn THEN drawn ELSE Append(drawn, tab.form)
      /\ tab' = [tab EXCEPT !.key = KeyFor, !.busy = TRUE]
      /\ net' = net \cup {[Ask("generate", Nobody) EXCEPT !.key = KeyFor]}
  BY DEF Submit
<1>3. drawn \in Seq(Nat) /\ DOMAIN drawn = 1..Len(drawn) /\ Len(drawn) \in Nat /\ Len(drawn) <= MaxKeys
  BY <1>1 DEF ClientTypeOK
<1>4. tab.form \in Nat
  BY <1>1, TabTyped
<1>5. /\ drawn' \in Seq(Nat) /\ Len(drawn') <= MaxKeys /\ DOMAIN drawn \subseteq DOMAIN drawn'
      /\ KeyFor \in DOMAIN drawn' /\ \A k \in DOMAIN drawn' : drawn'[k] = k - 1
  <2>1. CASE KeyFor \in DOMAIN drawn
    BY <1>1, <1>2, <1>3, <2>1 DEF FormsSane
  <2>2. CASE KeyFor \notin DOMAIN drawn
    <3>1. tab.key = Nobody /\ KeyFor = Len(drawn) + 1 /\ tab.form = Len(drawn)
      BY <1>1, <2>2 DEF KeyFor, FormsSane
    <3>2. drawn' = Append(drawn, Len(drawn))
      BY <1>2, <2>2, <3>1
    <3>3. Len(drawn) + 1 <= MaxKeys
      BY <1>2, <3>1 DEF Keys
    <3> QED BY <1>1, <1>3, <3>1, <3>2, <3>3 DEF FormsSane
  <2> QED BY <2>1, <2>2
<1>6. /\ tab' \in Tab /\ tab'.key = KeyFor /\ KeyFor # Nobody /\ tab'.page = tab.page
      /\ tab'.on = tab.on /\ tab'.since = tab.since /\ tab'.loaded = tab.loaded
      /\ tab'.draft = tab.draft /\ tab'.polling = tab.polling
  <2>1. KeyFor \in 0..MaxKeys /\ KeyFor # Nobody
    BY <1>2 DEF Keys, Nobody
  <2> HIDE DEF KeyFor
  <2> QED BY <1>1, <1>2, <2>1 DEF ClientTypeOK, Tab
<1>7. FormsSane'
  BY <1>5, <1>6 DEF FormsSane
<1>8. SamePage
  BY <1>6 DEF SamePage
<1>9. Evolved
  BY <1>1, <1>2, <1>5, UnchangedEvolved
<1>10. PICK m \in Msg : m = [Ask("generate", Nobody) EXCEPT !.key = KeyFor]
  <2>1. KeyFor \in 0..MaxKeys /\ Nobody \in 0..MaxSessions
    BY <1>2 DEF Keys, Nobody
  <2> QED BY <2>1, AskTyped, MsgChanged
<1>11. MsgSane(m)'
  <2>1. m.kind = "generate" /\ m.key = KeyFor /\ m.answer = "none"
    BY <1>10 DEF Ask
  <2>2. m.answer \notin Statuses
    BY <2>1 DEF Statuses
  <2>3. m.key \in DOMAIN drawn'
    BY <1>5, <2>1
  <2> QED BY <2>1, <2>2, <2>3 DEF MsgSane
<1>12. net' \subseteq Msg /\ \A n \in net' : n \in net \/ MsgSane(n)'
  BY <1>1, <1>2, <1>10, <1>11
<1>13. losses' \in 0..LossBound /\ ended' \subseteq {sessions'[s].key : s \in DOMAIN sessions'}
  BY <1>1, <1>2 DEF ClientTypeOK
<1> QED BY <1>5, <1>7, <1>8, <1>9, <1>12, <1>13, SamePageKeeps

\* A message that is not about a form joins the others.
LEMMA AskKeeps ==
  ASSUME ClientInv, NEW m \in Msg, m.kind \in {"status", "review"}, m.answer = "none",
         m.on \in DOMAIN sessions, net' = net \cup {m}, SamePage,
         tab'.form = tab.form, tab'.key = tab.key,
         UNCHANGED <<sessions, drawn, losses, ended>>
  PROVE  ClientInv'
<1>1. ClientTypeOK /\ SessionsSane /\ FormsSane
  BY DEF ClientInv
<1>2. MsgSane(m)'
  BY DEF MsgSane
<1>3. Evolved /\ FormsSane'
  BY <1>1, UnchangedEvolved, SameForm
<1>4. /\ net' \subseteq Msg /\ \A n \in net' : n \in net \/ MsgSane(n)'
      /\ losses' \in 0..LossBound /\ ended' \subseteq {sessions'[s].key : s \in DOMAIN sessions'}
      /\ drawn' \in Seq(Nat) /\ Len(drawn') <= MaxKeys /\ DOMAIN drawn \subseteq DOMAIN drawn'
  BY <1>1, <1>2 DEF ClientTypeOK
<1> QED BY <1>3, <1>4, SamePageKeeps

LEMMA PollKeeps ==
  ASSUME ClientInv, Poll
  PROVE  ClientInv'
<1> DEFINE m == AskStatus(tab.page, tab.on)
<1>1. ClientTypeOK /\ tab.on \in DOMAIN sessions
  BY DEF ClientInv, ClientTypeOK, Poll
<1>2. m \in Msg
  BY <1>1, SessionTyped, AskTyped, MsgChanged DEF AskStatus
<1>3. m.kind = "status" /\ m.on = tab.on /\ m.answer = "none"
  BY DEF AskStatus, Ask
<1>4. net' = net \cup {m} /\ UNCHANGED <<sessions, tab, drawn, losses, ended>>
  BY DEF Poll
<1>5. SamePage
  BY <1>1, <1>4 DEF SamePage, ClientTypeOK
<1> QED BY <1>1, <1>2, <1>3, <1>4, <1>5, AskKeeps

LEMMA ReviewKeeps ==
  ASSUME ClientInv, NEW action \in Actions, Review(action)
  PROVE  ClientInv'
<1> DEFINE m == [Ask("review", tab.on) EXCEPT !.action = action]
<1>1. tab.page # "dashboard" /\ ClientTypeOK
  BY DEF ClientInv, Review, ReviewChoices
<1>2. tab.on \in DOMAIN sessions
  BY <1>1 DEF ClientInv, TabSane
<1>3. m \in Msg
  BY <1>1, <1>2, SessionTyped, AskTyped, MsgChanged
<1>4. m.kind = "review" /\ m.on = tab.on /\ m.answer = "none"
  BY DEF Ask
<1>5. net' = net \cup {m} /\ UNCHANGED <<sessions, drawn, losses, ended>>
      /\ tab' = [tab EXCEPT !.busy = TRUE]
  BY DEF Review
<1>6. SamePage /\ tab'.form = tab.form /\ tab'.key = tab.key
  BY <1>1, <1>5 DEF SamePage, ClientTypeOK, Tab
<1> HIDE DEF m
<1> QED BY <1>2, <1>3, <1>4, <1>5, <1>6, AskKeeps

-------------------------------------------------------------------------------
(* The API and the workers *)

\* A session moves: its key stays and its text is never that of an older version.
LEMMA SessionSet ==
  ASSUME ClientInv, NEW s \in DOMAIN sessions, NEW after \in Session,
         after.key = sessions[s].key, sessions[s].text <= after.text,
         after.text <= after.version, sessions' = [sessions EXCEPT ![s] = after],
         UNCHANGED drawn
  PROVE  Evolved
<1>1. /\ ClientTypeOK /\ SessionsSane /\ sessions \in Seq(Session) /\ Len(sessions) <= MaxSessions
  BY DEF ClientInv, ClientTypeOK
<1>2. \A r \in DOMAIN sessions : sessions[r].text \in Nat /\ sessions[r].text <= sessions[r].text
  BY <1>1, SessionTyped DEF Texts
<1>3. /\ sessions' \in Seq(Session) /\ Len(sessions') = Len(sessions) /\ DOMAIN sessions' = DOMAIN sessions
      /\ sessions'[s] = after /\ \A r \in DOMAIN sessions : r # s => sessions'[r] = sessions[r]
  BY <1>1
<1>4. \A r \in DOMAIN sessions :
        sessions'[r].key = sessions[r].key /\ sessions[r].text <= sessions'[r].text
  BY <1>2, <1>3
<1>5. SessionsSane'
  BY <1>1, <1>3, <1>4 DEF SessionsSane
<1> QED BY <1>1, <1>3, <1>4, <1>5 DEF Evolved

Moved(s, st) == [s EXCEPT !.status = st]

LEMMA MovedTyped ==
  ASSUME NEW s \in Session, NEW st \in Statuses
  PROVE  /\ Moved(s, st) \in Session /\ Moved(s, st).key = s.key
         /\ Moved(s, st).text = s.text /\ Moved(s, st).version = s.version
BY DEF Moved, Session

Requeued(s) == [s EXCEPT !.status = "QUEUED", !.version = @ + 1]

LEMMA RequeuedTyped ==
  ASSUME NEW s \in Session, s.version < MaxVersions
  PROVE  /\ Requeued(s) \in Session /\ Requeued(s).key = s.key
         /\ Requeued(s).text = s.text /\ Requeued(s).version = s.version + 1
<1>1. s.version + 1 \in 1..MaxVersions /\ "QUEUED" \in Statuses
  BY DEF Session, Statuses
<1> QED BY <1>1 DEF Requeued, Session

Outlined(s) == [s EXCEPT !.status = "QUEUED", !.outlined = TRUE]

LEMMA OutlinedTyped ==
  ASSUME NEW s \in Session
  PROVE  /\ Outlined(s) \in Session /\ Outlined(s).key = s.key
         /\ Outlined(s).text = s.text /\ Outlined(s).version = s.version
<1>1. "QUEUED" \in Statuses
  BY DEF Statuses
<1> QED BY <1>1 DEF Outlined, Session

Written(s) == [s EXCEPT !.status = "AWAITING_FINAL_REVIEW", !.text = s.version]

LEMMA WrittenTyped ==
  ASSUME NEW s \in Session
  PROVE  /\ Written(s) \in Session /\ Written(s).key = s.key
         /\ Written(s).text = s.version /\ Written(s).version = s.version
<1>1. "AWAITING_FINAL_REVIEW" \in Statuses /\ s.version \in Texts
  BY DEF Statuses, Session, Texts
<1> QED BY <1>1 DEF Written, Session

LEMMA ReviewedTyped ==
  ASSUME NEW s \in Session, s.text <= s.version, NEW action
  PROVE  /\ Reviewed(s, action) \in Session /\ Reviewed(s, action).key = s.key
         /\ Reviewed(s, action).text = s.text
         /\ Reviewed(s, action).text <= Reviewed(s, action).version
<1>1. s.version \in Nat /\ s.text \in Nat /\ "COMPLETED" \in Statuses /\ "REJECTED" \in Statuses
  BY DEF Session, Texts, Statuses
<1>2. \/ Reviewed(s, action) = s
      \/ Reviewed(s, action) = Outlined(s)
      \/ Reviewed(s, action) = Moved(s, "COMPLETED") \/ Reviewed(s, action) = Moved(s, "REJECTED")
      \/ s.version < MaxVersions /\ Reviewed(s, action) = Requeued(s)
  BY DEF Reviewed, Outlined, Moved, Requeued
<1> QED BY <1>1, <1>2, OutlinedTyped, MovedTyped, RequeuedTyped

LEMMA WorkedTyped ==
  ASSUME NEW s \in Session, s.text <= s.version, NEW after \in Worked(s)
  PROVE  /\ after \in Session /\ after.key = s.key /\ s.text <= after.text
         /\ after.text <= after.version
<1>1. s.version \in Nat /\ s.text \in Nat
  BY DEF Session, Texts
<1>2. \/ \E st \in Statuses : after = Moved(s, st)
      \/ after = Written(s)
      \/ \E a : after = Reviewed(s, a)
  BY DEF Worked, Statuses, Moved, Written
<1> QED BY <1>1, <1>2, MovedTyped, WrittenTyped, ReviewedTyped

LEMMA MoveSessionKeeps ==
  ASSUME ClientInv, NEW s, MoveSession(s)
  PROVE  ClientInv'
<1>1. /\ s \in DOMAIN sessions /\ UNCHANGED <<tab, net, drawn, losses, ended>>
      /\ ClientTypeOK /\ SessionsSane /\ FormsSane
  BY DEF MoveSession, ClientInv
<1>2. PICK after \in Worked(sessions[s]) : sessions' = [sessions EXCEPT ![s] = after]
  BY DEF MoveSession
<1>3. sessions[s] \in Session /\ sessions[s].text <= sessions[s].version
  BY <1>1, SessionTyped DEF SessionsSane
<1>4. Evolved
  BY <1>1, <1>2, <1>3, WorkedTyped, SessionSet
<1>5. SamePage /\ FormsSane'
  BY <1>1, SameForm DEF SamePage, ClientTypeOK
<1>6. ended' \subseteq {sessions'[r].key : r \in DOMAIN sessions'}
  BY <1>1, <1>4 DEF ClientTypeOK, Evolved
<1>7. /\ net' \subseteq Msg /\ \A m \in net' : m \in net
      /\ losses' \in 0..LossBound /\ drawn' \in Seq(Nat) /\ Len(drawn') <= MaxKeys
      /\ DOMAIN drawn \subseteq DOMAIN drawn'
  BY <1>1 DEF ClientTypeOK
<1> QED BY <1>4, <1>5, <1>6, <1>7, SamePageKeeps

Answered(m, answer, text) == [m EXCEPT !.answer = answer, !.text = text]

LEMMA AnsweredTyped ==
  ASSUME NEW m \in Msg, NEW text \in Texts,
         NEW answer \in {"none", "loaded", "error", "terminal"} \cup Statuses
  PROVE  LET n == Answered(m, answer, text)
         IN /\ n \in Msg /\ n.kind = m.kind /\ n.on = m.on /\ n.key = m.key
            /\ n.mounted = m.mounted /\ n.answer = answer /\ n.text = text
BY DEF Answered, Msg

LEMMA ErrorTyped ==
  ASSUME NEW m \in Msg, NEW answer \in {"error", "terminal"}
  PROVE  LET n == Answered(m, answer, Nobody)
         IN n \in Msg /\ n.kind = m.kind /\ n.key = m.key /\ n.answer = answer
<1>1. Nobody \in Texts
  BY DEF Nobody, Texts
<1> QED BY <1>1, AnsweredTyped

About(m, on) == [m EXCEPT !.on = on]

LEMMA AboutTyped ==
  ASSUME NEW m \in Msg, NEW on \in 0..MaxSessions
  PROVE  LET n == About(m, on)
         IN n \in Msg /\ n.kind = m.kind /\ n.on = on /\ n.key = m.key
BY DEF About, Msg

\* An answer takes the place of its request.
LEMMA ReplyKeeps ==
  ASSUME ClientInv, Evolved, NEW m, NEW n \in Msg, MsgSane(n)', net' = (net \ {m}) \cup {n},
         UNCHANGED <<tab, drawn, losses, ended>>
  PROVE  ClientInv'
<1>1. ClientTypeOK /\ FormsSane
  BY DEF ClientInv
<1>2. SamePage /\ FormsSane'
  BY <1>1, SameForm DEF SamePage, ClientTypeOK
<1>3. ended' \subseteq {sessions'[r].key : r \in DOMAIN sessions'}
  BY <1>1 DEF ClientTypeOK, Evolved
<1>4. /\ net' \subseteq Msg /\ \A k \in net' : k \in net \/ MsgSane(k)'
      /\ losses' \in 0..LossBound /\ drawn' \in Seq(Nat) /\ Len(drawn') <= MaxKeys
      /\ DOMAIN drawn \subseteq DOMAIN drawn'
  BY <1>1 DEF ClientTypeOK
<1> QED BY <1>2, <1>3, <1>4, SamePageKeeps

LEMMA GenerateKeeps ==
  ASSUME ClientInv, NEW m \in net, m.kind = "generate", m.answer = "none", Generate(m),
         UNCHANGED <<tab, drawn, losses, ended>>
  PROVE  ClientInv'
<1>1. ClientTypeOK /\ SessionsSane /\ m \in Msg /\ m.key \in DOMAIN drawn
  BY DEF ClientInv, ClientTypeOK, MsgSane
<1>2. ASSUME NEW s \in WithKey(m.key), UNCHANGED sessions,
             Reply([m EXCEPT !.on = s], sessions[s].status, Nobody, m)
      PROVE  ClientInv'
  <2>1. s \in DOMAIN sessions /\ s \in 0..MaxSessions /\ sessions[s].status \in Statuses
    BY <1>1, SessionTyped DEF WithKey
  <2> DEFINE st == sessions[s].status
  <2> HIDE DEF st
  <2> DEFINE a == About(m, s)
  <2>2. PICK n : n = Answered(a, st, Nobody)
    OBVIOUS
  <2>3. a \in Msg /\ a.kind = "generate" /\ a.on = s /\ a.key = m.key /\ Nobody \in Texts
    BY <1>1, <2>1, AboutTyped DEF Nobody, Texts
  <2>4. st \in Statuses /\ st \in {"none", "loaded", "error", "terminal"} \cup Statuses
    BY <2>1 DEF st
  <2>5. n \in Msg /\ n.kind = "generate" /\ n.on = s /\ n.key = m.key /\ n.answer = st
    <3> HIDE DEF a
    <3>1. Answered(a, st, Nobody) \in Msg
      BY <2>3, <2>4, AnsweredTyped
    <3>2. n \in Msg
      BY <2>2, <3>1
    <3>3. n.kind = "generate" /\ n.on = s /\ n.key = m.key /\ n.answer = st
      BY <2>2, <2>3, <2>4, AnsweredTyped
    <3> QED BY <3>2, <3>3
  <2>6. MsgSane(n)'
    <3>1. n.answer # "terminal"
      BY <2>4, <2>5 DEF Statuses
    <3> QED BY <1>1, <1>2, <2>1, <2>5, <3>1 DEF MsgSane
  <2>7. net' = (net \ {m}) \cup {n}
    BY <1>2, <2>2 DEF Reply, Answered, About, st
  <2>8. Evolved
    BY <1>1, <1>2, UnchangedEvolved
  <2> QED BY <2>5, <2>6, <2>7, <2>8, ReplyKeeps
<1>3. ASSUME NEW s \in WithKey(m.key), UNCHANGED sessions, Reply(m, "terminal", Nobody, m)
      PROVE  ClientInv'
  <2>1. s \in DOMAIN sessions /\ sessions[s].key = m.key
    BY DEF WithKey
  <2>2. PICK n : n = Answered(m, "terminal", Nobody)
    OBVIOUS
  <2>3. n \in Msg
    BY <1>1, <2>2, ErrorTyped
  <2>4. n.kind = "generate" /\ n.key = m.key /\ n.answer = "terminal"
    BY <1>1, <2>2, ErrorTyped
  <2>5. MsgSane(n)'
    BY <1>1, <1>3, <2>1, <2>4 DEF MsgSane, Statuses
  <2>6. net' = (net \ {m}) \cup {n}
    BY <1>3, <2>2 DEF Reply, Answered
  <2>7. Evolved
    BY <1>1, <1>3, UnchangedEvolved
  <2> QED BY <2>3, <2>5, <2>6, <2>7, ReplyKeeps
<1>4. ASSUME WithKey(m.key) = {}, Len(sessions) < MaxSessions,
             sessions' = Append(sessions, [key |-> m.key, status |-> "QUEUED", outlined |-> FALSE,
                                           version |-> 1, text |-> Nobody]),
             Reply([m EXCEPT !.on = Len(sessions) + 1], "QUEUED", Nobody, m)
      PROVE  ClientInv'
  <2> DEFINE new == [key |-> m.key, status |-> "QUEUED", outlined |-> FALSE,
                     version |-> 1, text |-> Nobody]
  <2>1. m.key \in Keys
    BY <1>1 DEF ClientTypeOK, Keys
  <2>2. new \in Session /\ new.key = m.key /\ new.text <= new.version
    BY <2>1 DEF Session, Statuses, Texts, Nobody
  <2> HIDE DEF new
  <2>3. sessions \in Seq(Session) /\ Len(sessions) \in Nat /\ Len(sessions) + 1 <= MaxSessions
    BY <1>1, <1>4 DEF ClientTypeOK
  <2>4. sessions' = Append(sessions, new)
    BY <1>4 DEF new
  <2>5. /\ sessions' \in Seq(Session) /\ Len(sessions') = Len(sessions) + 1
        /\ DOMAIN sessions' = DOMAIN sessions \cup {Len(sessions) + 1}
        /\ sessions'[Len(sessions) + 1] = new
        /\ \A r \in DOMAIN sessions : sessions'[r] = sessions[r]
    BY <2>2, <2>3, <2>4
  <2>6. \A r \in DOMAIN sessions : sessions[r].key # m.key /\ sessions[r].text \in Nat
    BY <1>1, <1>4, SessionTyped DEF WithKey, Texts
  <2>7. SessionsSane'
    BY <1>1, <2>2, <2>5, <2>6 DEF SessionsSane
  <2>8. Evolved
    BY <2>3, <2>5, <2>6, <2>7 DEF Evolved
  <2> DEFINE s == Len(sessions) + 1
  <2>9. PICK n : n = Answered(About(m, s), "QUEUED", Nobody)
    OBVIOUS
  <2>10. /\ About(m, s) \in Msg /\ About(m, s).kind = "generate" /\ About(m, s).on = s
         /\ About(m, s).key = m.key /\ Nobody \in Texts /\ "QUEUED" \in Statuses
    <3>1. s \in 0..MaxSessions
      BY <2>3
    <3> HIDE DEF s
    <3> QED BY <1>1, <3>1, AboutTyped DEF Nobody, Texts, Statuses
  <2>11. n \in Msg
    BY <2>9, <2>10, AnsweredTyped
  <2>12. n.kind = "generate" /\ n.on = s /\ n.key = m.key /\ n.answer = "QUEUED"
    BY <2>9, <2>10, AnsweredTyped
  <2>13. MsgSane(n)'
    BY <1>1, <2>5, <2>12 DEF MsgSane
  <2>14. net' = (net \ {m}) \cup {n}
    BY <1>4, <2>9 DEF Reply, Answered, About
  <2> QED BY <2>8, <2>11, <2>13, <2>14, ReplyKeeps
<1>5. ASSUME UNCHANGED sessions, Reply(m, "error", Nobody, m) PROVE ClientInv'
  <2>1. PICK n : n = Answered(m, "error", Nobody)
    OBVIOUS
  <2>2. n \in Msg
    BY <1>1, <2>1, ErrorTyped
  <2>3. n.kind = "generate" /\ n.key = m.key /\ n.answer = "error"
    BY <1>1, <2>1, ErrorTyped
  <2>4. MsgSane(n)'
    BY <1>1, <2>3 DEF MsgSane, Statuses
  <2>5. net' = (net \ {m}) \cup {n}
    BY <1>5, <2>1 DEF Reply, Answered
  <2>6. Evolved
    BY <1>1, <1>5, UnchangedEvolved
  <2> QED BY <2>2, <2>4, <2>5, <2>6, ReplyKeeps
<1> QED BY <1>2, <1>3, <1>4, <1>5 DEF Generate

LEMMA StatusKeeps ==
  ASSUME ClientInv, NEW m \in net, m.kind = "status", Reply(m, sessions[m.on].status, Nobody, m),
         UNCHANGED <<sessions, tab, drawn, losses, ended>>
  PROVE  ClientInv'
<1>1. ClientTypeOK /\ SessionsSane /\ m \in Msg /\ m.on \in DOMAIN sessions
  BY DEF ClientInv, ClientTypeOK, MsgSane
<1> DEFINE st == sessions[m.on].status
<1>2. st \in Statuses /\ st \in {"none", "loaded", "error", "terminal"} \cup Statuses /\ Nobody \in Texts
  BY <1>1, SessionTyped DEF Nobody, Texts
<1>3. net' = (net \ {m}) \cup {Answered(m, st, Nobody)}
  BY DEF Reply, Answered
<1> HIDE DEF st
<1>4. PICK n : n = Answered(m, st, Nobody)
  OBVIOUS
<1>5. n \in Msg /\ n.kind = "status" /\ n.on = m.on /\ n.answer = st
  BY <1>1, <1>2, <1>4, AnsweredTyped
<1>6. n.answer # "terminal"
  BY <1>2, <1>5 DEF Statuses
<1>7. MsgSane(n)'
  BY <1>1, <1>5, <1>6 DEF MsgSane
<1>8. Evolved
  BY <1>1, UnchangedEvolved
<1> QED BY <1>3, <1>4, <1>5, <1>7, <1>8, ReplyKeeps

\* What is loaded for the final review is the text of that session as it is now.
LEMMA LoadKeeps ==
  ASSUME ClientInv, NEW m \in net, m.kind \in {"outline", "draft"}, Load(m),
         UNCHANGED <<sessions, tab, drawn, losses, ended>>
  PROVE  ClientInv'
<1>1. /\ ClientTypeOK /\ SessionsSane /\ TabSane /\ m \in Msg /\ MsgSane(m)
      /\ m.on \in DOMAIN sessions
  BY DEF ClientInv, ClientTypeOK, MsgSane
<1>2. sessions[m.on].text \in Texts /\ Nobody \in Texts
  BY <1>1, SessionTyped DEF Nobody, Texts
<1>3. PICK a \in {"error", "loaded"}, text \in Texts :
        /\ Reply(m, a, text, m)
        /\ a = "loaded" /\ m.kind = "draft" => text = sessions[m.on].text
  BY <1>2 DEF Load
<1>4. net' = (net \ {m}) \cup {Answered(m, a, text)}
  BY <1>3 DEF Reply, Answered
<1>5. PICK n : n = Answered(m, a, text)
  OBVIOUS
<1>6. a \in {"none", "loaded", "error", "terminal"} \cup Statuses
  OBVIOUS
<1>7. /\ n \in Msg /\ n.kind = m.kind /\ n.on = m.on /\ n.key = m.key /\ n.mounted = m.mounted
      /\ n.answer = a /\ n.text = text
  BY <1>1, <1>5, <1>6, AnsweredTyped
<1>8. n.kind = "draft" /\ n.mounted /\ n.answer = "loaded" => tab.since <= n.text
  BY <1>1, <1>3, <1>7 DEF MsgSane, TabSane
<1>9. MsgSane(n)'
  BY <1>1, <1>3, <1>7, <1>8 DEF MsgSane
<1>10. Evolved
  BY <1>1, UnchangedEvolved
<1> QED BY <1>4, <1>5, <1>7, <1>9, <1>10, ReplyKeeps

LEMMA DecideKeeps ==
  ASSUME ClientInv, NEW m \in net, m.kind = "review", Decide(m),
         UNCHANGED <<tab, drawn, losses, ended>>
  PROVE  ClientInv'
<1>1. ClientTypeOK /\ SessionsSane /\ m \in Msg /\ m.on \in DOMAIN sessions
  BY DEF ClientInv, ClientTypeOK, MsgSane
<1> DEFINE s == sessions[m.on]
           after == Reviewed(s, m.action)
           st == IF after = s THEN "error" ELSE after.status
<1>2. s \in Session /\ s.text \in Nat /\ s.text <= s.version
  BY <1>1, SessionTyped DEF SessionsSane, Texts
<1>3. sessions' = [sessions EXCEPT ![m.on] = after] /\ net' = (net \ {m}) \cup {Answered(m, st, Nobody)}
  BY DEF Decide, Reply, Answered
<1> HIDE DEF s
<1>4. /\ after \in Session /\ after.key = s.key /\ s.text <= after.text
      /\ after.text <= after.version
  BY <1>2, ReviewedTyped
<1>5. st \in {"error"} \cup Statuses
  BY <1>4 DEF Session
<1> HIDE DEF after
<1>6. Evolved
  BY <1>1, <1>3, <1>4, SessionSet DEF s
<1> HIDE DEF st
<1>7. PICK n : n = Answered(m, st, Nobody)
  OBVIOUS
<1>8. st \in {"none", "loaded", "error", "terminal"} \cup Statuses /\ Nobody \in Texts /\ st # "terminal"
  BY <1>5 DEF Nobody, Texts, Statuses
<1>9. n \in Msg /\ n.kind = "review" /\ n.on = m.on /\ n.answer = st
  BY <1>1, <1>7, <1>8, AnsweredTyped
<1>10. MsgSane(n)'
  BY <1>1, <1>6, <1>8, <1>9 DEF MsgSane, Evolved
<1> QED BY <1>3, <1>6, <1>7, <1>9, <1>10, ReplyKeeps

LEMMA ServeKeeps ==
  ASSUME ClientInv, Serve
  PROVE  ClientInv'
<1>1. PICK m \in net : m.answer = "none" /\ Answer(m)
  BY DEF Serve
<1>2. UNCHANGED <<tab, drawn, losses, ended>>
  BY DEF Serve
<1> QED BY <1>1, <1>2, GenerateKeeps, StatusKeeps, LoadKeeps, DecideKeeps DEF Answer

-------------------------------------------------------------------------------
(* Answers *)

\* The tab stays where it is, and messages are taken from the net.
LEMMA StayKeeps ==
  ASSUME ClientInv, SamePage, tab'.form = tab.form, tab'.key = tab.key, net' \subseteq net,
         UNCHANGED <<sessions, drawn>>,
         losses' \in 0..LossBound, ended' \subseteq {sessions[r].key : r \in DOMAIN sessions}
  PROVE  ClientInv'
<1>1. ClientTypeOK /\ SessionsSane /\ FormsSane
  BY DEF ClientInv
<1>2. Evolved /\ FormsSane'
  BY <1>1, UnchangedEvolved, SameForm
<1>3. /\ net' \subseteq Msg /\ \A n \in net' : n \in net
      /\ drawn' \in Seq(Nat) /\ Len(drawn') <= MaxKeys /\ DOMAIN drawn \subseteq DOMAIN drawn'
      /\ ended' \subseteq {sessions'[r].key : r \in DOMAIN sessions'}
  BY <1>1 DEF ClientTypeOK
<1> QED BY <1>2, <1>3, SamePageKeeps

LEMMA SamePageTab ==
  ASSUME ClientTypeOK
  PROVE  /\ UNCHANGED tab => SamePage /\ tab'.form = tab.form /\ tab'.key = tab.key
         /\ \A p \in BOOLEAN : tab' = [tab EXCEPT !.polling = @ /\ p]
              => SamePage /\ tab'.form = tab.form /\ tab'.key = tab.key
         /\ \A p \in BOOLEAN : tab' = [tab EXCEPT !.busy = @ /\ p]
              => SamePage /\ tab'.form = tab.form /\ tab'.key = tab.key
         /\ tab' = [tab EXCEPT !.busy = FALSE, !.key = KeepKey]
              => SamePage /\ tab'.form = tab.form /\ tab'.key = tab.key
<1>1. /\ tab \in Tab /\ tab.polling \in BOOLEAN /\ tab.busy \in BOOLEAN /\ tab.key \in 0..MaxKeys
  BY TabTyped
<1>2. UNCHANGED tab => SamePage
  BY <1>1 DEF SamePage
<1>3. ASSUME NEW p \in BOOLEAN, tab' = [tab EXCEPT !.polling = @ /\ p]
      PROVE  SamePage /\ tab'.form = tab.form /\ tab'.key = tab.key
  <2>1. (tab.polling /\ p) \in BOOLEAN
    BY <1>1
  <2>2. PICK v \in BOOLEAN : v = (tab.polling /\ p)
    BY <2>1
  <2>3. tab' = [tab EXCEPT !.polling = v]
    BY <1>3, <2>2
  <2>4. tab'.polling => tab.polling
    BY <1>1, <2>2, <2>3 DEF Tab
  <2> QED BY <1>1, <2>3, <2>4 DEF SamePage, Tab
<1>4. ASSUME NEW p \in BOOLEAN, tab' = [tab EXCEPT !.busy = @ /\ p]
      PROVE  SamePage /\ tab'.form = tab.form /\ tab'.key = tab.key
  <2>1. (tab.busy /\ p) \in BOOLEAN
    BY <1>1
  <2>2. PICK v \in BOOLEAN : v = (tab.busy /\ p)
    BY <2>1
  <2>3. tab' = [tab EXCEPT !.busy = v]
    BY <1>4, <2>2
  <2> QED BY <1>1, <2>3 DEF SamePage, Tab
<1>5. ASSUME tab' = [tab EXCEPT !.busy = FALSE, !.key = KeepKey]
      PROVE  SamePage /\ tab'.form = tab.form /\ tab'.key = tab.key
  BY <1>1, <1>5 DEF SamePage, Tab, KeepKey
<1> QED BY <1>2, <1>3, <1>4, <1>5

LEMMA FailsKeeps ==
  ASSUME ClientInv, NEW m \in net, Fails(m), UNCHANGED <<sessions, drawn>>,
         losses' \in 0..LossBound, ended' \subseteq {sessions[r].key : r \in DOMAIN sessions}
  PROVE  ClientInv'
<1>1. SamePage /\ tab'.form = tab.form /\ tab'.key = tab.key
  BY SamePageTab DEF Fails, ClientInv
<1>2. net' \subseteq net
  BY DEF Fails
<1> QED BY <1>1, <1>2, StayKeeps

LEMMA ReceiveStatusKeeps ==
  ASSUME ClientInv, NEW m \in net, ReceiveStatus(m), UNCHANGED <<sessions, drawn, losses>>
  PROVE  ClientInv'
<1>1. /\ ClientTypeOK /\ m.on \in DOMAIN sessions /\ m.answer \in Statuses
      /\ losses' \in 0..LossBound /\ ended' \subseteq {sessions[r].key : r \in DOMAIN sessions}
  BY DEF ClientInv, ClientTypeOK, MsgSane, ReceiveStatus
<1>2. CASE GoTo(PageFor(m.answer), m.on, net \ {m})
  BY <1>1, <1>2, PageForPage, GoToKeeps
<1>3. CASE /\ tab' = [tab EXCEPT !.polling = @ /\ (m.mounted => m.answer \in Polled)]
           /\ net' = net \ {m}
  <2>1. SamePage /\ tab'.form = tab.form /\ tab'.key = tab.key
    BY <1>1, <1>3, SamePageTab
  <2> QED BY <1>1, <1>3, <2>1, StayKeeps
<1> QED BY <1>2, <1>3 DEF ReceiveStatus

LEMMA ReceiveLoadKeeps ==
  ASSUME ClientInv, NEW m \in net, ReceiveLoad(m), UNCHANGED <<sessions, drawn, losses>>
  PROVE  ClientInv'
<1>1. /\ ClientTypeOK /\ SessionsSane /\ FormsSane /\ TabSane /\ m \in Msg /\ MsgSane(m)
      /\ net \subseteq Msg
  BY DEF ClientInv, ClientTypeOK
<1>2. /\ m.answer = "loaded" /\ m.mounted /\ tab.on = m.on
      /\ \/ m.kind = "outline" /\ tab.page = "outline"
         \/ m.kind = "draft" /\ tab.page = "final"
      /\ tab' = [tab EXCEPT !.loaded = TRUE, !.draft = m.text] /\ net' = net \ {m}
      /\ UNCHANGED <<sessions, drawn, losses, ended>>
  BY DEF ReceiveLoad, Wanted
<1>3. /\ tab' \in Tab /\ tab'.page = tab.page /\ tab'.on = tab.on /\ tab'.since = tab.since
      /\ tab'.polling = tab.polling /\ tab'.form = tab.form /\ tab'.key = tab.key
      /\ tab'.draft = m.text
  <2>1. tab \in Tab /\ m.text \in Texts
    BY <1>1, MsgTyped DEF ClientTypeOK
  <2> QED BY <1>2, <2>1 DEF Tab
<1>4. tab.page = "final" => tab.since <= m.text
  BY <1>1, <1>2 DEF MsgSane
<1>5. ShownSinceMount'
  <2>1. tab.since \in Nat /\ m.text \in Nat
    BY <1>1, TabTyped, MsgTyped DEF Texts
  <2> QED BY <1>3, <1>4, <2>1 DEF ShownSinceMount
<1>6. TabSane' /\ FormsSane' /\ SessionsSane'
  BY <1>1, <1>2, <1>3 DEF TabSane, FormsSane, SessionsSane
<1>7. ASSUME NEW n \in net' PROVE MsgSane(n)'
  <2>1. MsgSane(n)
    BY <1>2 DEF ClientInv
  <2> QED BY <1>2, <1>3, <2>1 DEF MsgSane
<1>8. ClientTypeOK'
  BY <1>1, <1>2, <1>3 DEF ClientTypeOK
<1> QED BY <1>5, <1>6, <1>7, <1>8 DEF ClientInv

LEMMA ReceiveReviewedKeeps ==
  ASSUME ClientInv, NEW m \in net, ReceiveReviewed(m), UNCHANGED <<sessions, drawn, losses>>
  PROVE  ClientInv'
<1>1. /\ ClientTypeOK /\ m.on \in DOMAIN sessions /\ m.mounted \in BOOLEAN
      /\ losses' \in 0..LossBound /\ ended' \subseteq {sessions[r].key : r \in DOMAIN sessions}
  BY MsgTyped DEF ClientInv, ClientTypeOK, MsgSane, ReceiveReviewed
<1>2. CASE GoTo(PageFor(m.answer), m.on, net \ {m})
  BY <1>1, <1>2, PageForPage, GoToKeeps
<1>3. CASE tab' = [tab EXCEPT !.busy = @ /\ ~m.mounted] /\ net' = net \ {m}
  <2>1. SamePage /\ tab'.form = tab.form /\ tab'.key = tab.key
    BY <1>1, <1>3, SamePageTab
  <2> QED BY <1>1, <1>3, <2>1, StayKeeps
<1> QED BY <1>2, <1>3 DEF ReceiveReviewed

LEMMA ReceiveKeeps ==
  ASSUME ClientInv, Receive
  PROVE  ClientInv'
<1>1. /\ UNCHANGED <<sessions, drawn, losses>> /\ ClientTypeOK /\ losses' \in 0..LossBound
      /\ ended \subseteq {sessions[r].key : r \in DOMAIN sessions}
  <2>1. UNCHANGED <<sessions, drawn, losses>>
    BY DEF Receive
  <2> QED BY <2>1 DEF ClientInv, ClientTypeOK
<1>2. PICK m \in net : \/ ReceiveStatus(m) \/ ReceiveLoad(m) \/ DropLoad(m)
                       \/ ReceiveGenerated(m) \/ ReceiveReviewed(m) \/ ReceiveError(m)
  BY DEF Receive
<1>3. CASE DropLoad(m)
  <2>1. UNCHANGED <<tab, ended>> /\ net' \subseteq net
    BY <1>3 DEF DropLoad
  <2>2. SamePage /\ tab'.form = tab.form /\ tab'.key = tab.key
    BY <1>1, <2>1, SamePageTab
  <2> QED BY <1>1, <2>1, <2>2, StayKeeps
<1>4. CASE ReceiveGenerated(m)
  <2>1. m.on \in DOMAIN sessions /\ GoTo(PageFor(m.answer), m.on, net \ {m}) /\ UNCHANGED ended
    BY <1>4 DEF ReceiveGenerated, ClientInv, MsgSane
  <2> QED BY <1>1, <2>1, PageForPage, GoToKeeps
<1>5. CASE ReceiveError(m)
  <2>1. m.answer = "terminal" => \E s \in DOMAIN sessions : sessions[s].key = m.key
    BY DEF ClientInv, MsgSane
  <2>2. ended' \subseteq {sessions[r].key : r \in DOMAIN sessions}
    BY <1>1, <1>5, <2>1 DEF ReceiveError
  <2>3. Fails(m)
    BY <1>5 DEF ReceiveError
  <2> QED BY <1>1, <2>2, <2>3, FailsKeeps
<1> QED BY <1>1, <1>2, <1>3, <1>4, <1>5, ReceiveStatusKeeps, ReceiveLoadKeeps, ReceiveReviewedKeeps

LEMMA LoseKeeps ==
  ASSUME ClientInv, Lose
  PROVE  ClientInv'
<1>1. PICK m \in net : Fails(m)
  BY DEF Lose
<1>2. /\ UNCHANGED <<sessions, drawn>> /\ losses' \in 0..LossBound
      /\ ended' \subseteq {sessions[r].key : r \in DOMAIN sessions}
  BY DEF Lose, ClientInv, ClientTypeOK
<1> QED BY <1>1, <1>2, FailsKeeps

LEMMA OpenSessionKeeps ==
  ASSUME ClientInv, NEW s, OpenSession(s)
  PROVE  ClientInv'
<1>1. /\ s \in DOMAIN sessions /\ GoTo(PageFor(sessions[s].status), s, net)
      /\ UNCHANGED <<sessions, drawn>> /\ losses' \in 0..LossBound
      /\ ended' \subseteq {sessions[r].key : r \in DOMAIN sessions}
  BY DEF OpenSession, ClientInv, ClientTypeOK
<1> QED BY <1>1, PageForPage, GoToKeeps

-------------------------------------------------------------------------------
(* The theorems *)

LEMMA ClientInvInit == Init => ClientInv
<1> SUFFICES ASSUME Init PROVE ClientInv
  OBVIOUS
<1>1. /\ sessions = <<>> /\ net = {} /\ drawn = <<>> /\ losses = 0 /\ ended = {}
      /\ tab = [page |-> "dashboard", on |-> Nobody, polling |-> FALSE, loaded |-> FALSE,
                draft |-> Nobody, since |-> Nobody, form |-> 0, key |-> Nobody, busy |-> FALSE]
  BY DEF Init, Dashboard
<1>2. tab \in Tab
  BY <1>1 DEF Tab, Pages, Texts, Nobody
<1>3. ClientTypeOK
  BY <1>1, <1>2 DEF ClientTypeOK
<1>4. SessionsSane /\ FormsSane /\ TabSane /\ ShownSinceMount
  BY <1>1 DEF SessionsSane, FormsSane, TabSane, ShownSinceMount
<1> QED BY <1>1, <1>3, <1>4 DEF ClientInv

LEMMA ClientInvStep == ClientInv /\ [Next]_vars => ClientInv'
<1> SUFFICES ASSUME ClientInv, [Next]_vars PROVE ClientInv'
  OBVIOUS
<1>1. CASE UNCHANGED vars
  BY <1>1 DEF vars, ClientInv, ClientTypeOK, SessionsSane, FormsSane, TabSane,
              ShownSinceMount, MsgSane, WithKey
<1> QED BY <1>1, OpenSessionKeeps, MoveSessionKeeps, ReviewKeeps, OpenDashboardKeeps,
           SubmitKeeps, PollKeeps, ServeKeeps, ReceiveKeeps, LoseKeeps DEF Next

\* The tab, the messages and the sessions keep their kinds, and what is polled
\* for is a session that exists (useSessionStatus.ts, DashboardPage.tsx).
THEOREM ClientTypeCorrect == Spec => []ClientTypeOK
<1>1. ClientInv => ClientTypeOK
  BY DEF ClientInv
<1> QED BY ClientInvInit, ClientInvStep, <1>1, PTL DEF Spec

\* However often a form is submitted, and whatever requests and answers are
\* lost, late or repeated, it starts a second session only if the first is known
\* to have ended (DashboardPage.tsx:55).  In fact it starts one: a form that has
\* been told so keeps its key as well.
THEOREM OneSessionOfAForm == Spec => []OneSessionPerForm
<1>1. ClientInv => OneSessionPerForm
  <2> SUFFICES ASSUME ClientInv, NEW s \in DOMAIN sessions, NEW r \in DOMAIN sessions,
                      s < r, drawn[sessions[s].key] = drawn[sessions[r].key]
               PROVE  FALSE
    BY DEF OneSessionPerForm
  <2>1. /\ sessions[s].key \in DOMAIN drawn /\ sessions[r].key \in DOMAIN drawn
        /\ sessions[s].key \in Nat /\ sessions[r].key \in Nat
    BY SessionTyped DEF ClientInv, SessionsSane, Keys
  <2>2. sessions[s].key - 1 = sessions[r].key - 1
    BY <2>1 DEF ClientInv, FormsSane
  <2>3. s = r BY <2>1, <2>2 DEF ClientInv, SessionsSane
  <2>4. s \in Nat BY DEF ClientInv, ClientTypeOK
  <2> QED BY <2>3, <2>4
<1> QED BY ClientInvInit, ClientInvStep, <1>1, PTL DEF Spec

\* An answer to an earlier visit of the review page is never shown in a later
\* one (useLatestVersion.ts:16-21).
THEOREM ShownIsCurrent == Spec => []ShownSinceMount
<1>1. ClientInv => ShownSinceMount
  BY DEF ClientInv
<1> QED BY ClientInvInit, ClientInvStep, <1>1, PTL DEF Spec
===============================================================================
