------------------------------ MODULE OutlineParser ------------------------------
(***************************************************************************)
(* How normalize_outline reads a Markdown outline: one pass over the       *)
(* lines, with the title and the sections found so far and the section the *)
(* next line belongs to.  A line is what the patterns make of it, and a    *)
(* text found in it is the number of the line it was found in, so that the *)
(* outline can be compared with a reading of the document as a whole.      *)
(***************************************************************************)
EXTENDS Naturals, Sequences, FiniteSetsExt, SequencesExt

CONSTANTS
  Lines,        \* the lines a document is made of
  MaxLines,     \* bound of the model: lines of a document
  SectionCount, \* how many sections OutlineSchema admits
  TargetWords,  \* which target_words SectionSchema admits
  TotalWords    \* which estimated_total_words OutlineSchema admits

Unread == 0       \* no line, or no digits where a number is due

\* What a line is and what it says.  A bullet may carry a label, or name a
\* section by number or by word ("Part one").  _BULLET asks for no space after
\* its star: a line all in bold, "**Part one**", is a bullet.
Line == [form : {"heading", "inline", "bullet", "labelled"},
         says : {"numbered", "named", "plain", "title", "goal", "words", "total"},
         level : 1..6, number : Nat]

\* Only a Markdown heading has a level of its own.
ASSUME ParserAssumption ==
  /\ Lines \subseteq Line /\ MaxLines \in Nat
  /\ \A l \in Lines : l.form # "heading" => l.level = 1

VARIABLES
  doc,      \* the lines read so far
  title,    \* state["title"]: the line it was read from
  sections, \* state["sections"]
  current,  \* the section a goal or a word count would go to
  outline   \* what became of the document

vars == <<doc, title, sections, current, outline>>

Section == [id : Nat, heading : Nat, goal : Nat, words : Nat]
Reading == [end |-> "reading"]
Refused == [end |-> "refused"]

ParserTypeOK ==
  /\ doc \in Seq(Lines) /\ Len(doc) <= MaxLines
  /\ title \in 0..Len(doc)
  /\ sections \in Seq(Section) /\ current \in 0..Len(sections)
  /\ outline \in {Reading, Refused} \/ outline.end = "accepted"

Init ==
  /\ doc = <<>> /\ title = Unread
  /\ sections = <<>> /\ current = 0
  /\ outline = Reading

At == Len(doc) + 1

Read(l) == /\ outline = Reading /\ Len(doc) < MaxLines
           /\ doc' = Append(doc, l)
           /\ UNCHANGED outline

NamesSection(l) == l.says \in {"numbered", "named"}

OpenSection(id) ==
  /\ sections' = Append(sections, [id |-> id, heading |-> At, goal |-> Unread, words |-> Unread])
  /\ current' = Len(sections) + 1
  /\ UNCHANGED title

\* Mutant: no return after the title.
BeTitleToo ==
  /\ title' = At
  /\ sections' = Append(sections, [id |-> 1, heading |-> At, goal |-> Unread, words |-> Unread])
  /\ current' = Len(sections) + 1

BeTitle ==
  /\ title' = At /\ current' = 0
  /\ UNCHANGED sections

\* The opening top-level heading is the title, even one that names a section.
OpensDocument(l) == l.level = 1 /\ sections = <<>> /\ title = Unread

ConsumeHeading(l) ==
  \/ l.says = "numbered" /\ OpenSection(l.number)
  \/ l.says = "title" /\ BeTitle
  \/ l.says \in {"named", "plain"} /\ OpensDocument(l) /\ BeTitle
  \/ /\ l.says = "named" \/ (l.says = "plain" /\ sections = <<>>)
     /\ ~OpensDocument(l)
     /\ OpenSection(Len(sections) + 1)
  \/ /\ l.says = "plain" /\ sections # <<>>
     /\ current' = Len(sections)
     /\ UNCHANGED <<title, sections>>

SetField(field) ==
  /\ sections' = IF current = 0 THEN sections ELSE [sections EXCEPT ![current][field] = At]
  /\ UNCHANGED <<title, current>>

ReadHeading(l) ==
  /\ l.form = "heading"
  /\ ConsumeHeading(l)

ReadInline(l) ==
  /\ l.form = "inline"
  /\ \/ l.says = "title" /\ title' = At /\ UNCHANGED <<sections, current>>
     \/ l.says \in {"goal", "words"} /\ SetField(l.says)
     \/ l.says \notin {"title", "goal", "words"} /\ UNCHANGED <<title, sections, current>>

\* Mutant: every bare bullet is a goal.
LastBullet ==
  IF current # 0 THEN SetField("goal") ELSE UNCHANGED <<title, sections, current>>

\* A bare bullet, whatever other label it carries, is the goal a section lacks.
BareGoal ==
  IF current # 0 /\ sections[current].goal = Unread
  THEN SetField("goal") ELSE UNCHANGED <<title, sections, current>>

ReadBullet(l) ==
  /\ l.form = "bullet"
  /\ \/ l.says \in {"goal", "words"} /\ SetField(l.says)
     \/ NamesSection(l) /\ ConsumeHeading(l)
     \/ ~NamesSection(l) /\ l.says \notin {"goal", "words"} /\ BareGoal

ReadLabelled(l) ==
  /\ l.form = "labelled"
  /\ title' = IF l.says = "title" /\ current = 0 /\ title = Unread THEN At ELSE title
  /\ UNCHANGED <<sections, current>>

NumberAt(i) == IF i = Unread THEN Unread ELSE doc[i].number
Sum(s) == FoldLeft(LAMBDA x, y : x + NumberAt(y.words), 0, s)

StatesTotal(l) == l.says = "total" /\ l.form \in {"inline", "bullet", "labelled"}

\* The first explicit total stands if it has a number, else the targets are added up.
TotalLine ==
  LET stated == {i \in DOMAIN doc : StatesTotal(doc[i])}
  IN IF stated = {} \/ NumberAt(Min(stated)) = Unread THEN Unread ELSE Min(stated)

FindTotal == IF TotalLine # Unread THEN NumberAt(TotalLine) ELSE Sum(sections)

Complete(s) == s.goal # Unread /\ s.words # Unread

Valid(total) ==
  /\ title # Unread
  /\ \A k \in DOMAIN sections : Complete(sections[k]) /\ NumberAt(sections[k].words) \in TargetWords
  /\ Len(sections) \in SectionCount
  /\ total \in TotalWords

Finish ==
  /\ outline = Reading
  /\ outline' = IF Valid(FindTotal)
                THEN [end |-> "accepted", title |-> title, sections |-> sections, total |-> FindTotal]
                ELSE Refused
  /\ UNCHANGED <<doc, title, sections, current>>

Next ==
  \/ \E l \in Lines : /\ Read(l)
                      /\ ReadHeading(l) \/ ReadInline(l) \/ ReadBullet(l) \/ ReadLabelled(l)
  \/ Finish

Spec == Init /\ [][Next]_vars

-------------------------------------------------------------------------------
(* The document read as a whole, without a pass over it. *)

\* Lines the parser takes for a heading: those of Markdown, and the bullets that
\* name a section.
IsHeading(d, i) == d[i].form = "heading" \/ (d[i].form = "bullet" /\ NamesSection(d[i]))
IsTitleHeading(d, i) == d[i].form = "heading" /\ d[i].says = "title"
IsTop(d, i) == IsHeading(d, i) /\ d[i].level = 1 /\ d[i].says \in {"named", "plain"}
SaysTitle(d, i) == d[i].form \in {"inline", "labelled"} /\ d[i].says = "title"

Before(i) == 1..(i - 1)

\* A section has begun: a numbered one, a deeper heading, or a top heading that
\* comes after something that already is the title.
Begins(d, j) ==
  /\ IsHeading(d, j) /\ ~IsTitleHeading(d, j)
  /\ IsTop(d, j) => \E k \in Before(j) : IsTitleHeading(d, k) \/ SaysTitle(d, k) \/ IsTop(d, k)
SectionBefore(d, i) == \E j \in Before(i) : Begins(d, j)

TitleBefore(d, i) == \E j \in Before(i) :
  \/ IsTitleHeading(d, j)
  \/ SaysTitle(d, j) /\ d[j].form = "inline"
  \/ ~SectionBefore(d, j) /\ (IsTop(d, j) \/ SaysTitle(d, j))

Opens(d, i) ==
  /\ IsHeading(d, i) /\ ~IsTitleHeading(d, i)
  /\ IsTop(d, i) /\ ~SectionBefore(d, i) => TitleBefore(d, i)
  /\ d[i].says = "plain" => ~SectionBefore(d, i)

\* The heading whose text line i stands under, if that heading is no title.
Under(d, i) ==
  LET above == {j \in Before(i) : IsHeading(d, j)}
      opened == {j \in Before(i) : Opens(d, j)}
  IN IF above = {} \/ opened = {} \/ IsTitleHeading(d, Max(above)) THEN Unread ELSE Max(opened)

Labels(d, i, field) == d[i].form \in {"inline", "bullet"} /\ d[i].says = field

\* A bullet with no label, and one labelled as something no section has.
BulletGoal(d, i) == d[i].form = "bullet" /\ d[i].says = "plain"
Foreign(d, i)    == d[i].form = "bullet" /\ d[i].says \in {"title", "total"}

LastOr(S, default) == IF S = {} THEN default ELSE Max(S)

Labelled(d, h, field) == {i \in DOMAIN d : Labels(d, i, field) /\ Under(d, i) = h}
Bullets(d, h) == {i \in DOMAIN d : BulletGoal(d, i) /\ Under(d, i) = h}

WordsOf(d, h) == LastOr(Labelled(d, h, "words"), Unread)

\* A goal is what the last line so labelled says; with none, the first bullet.
GoalOf(d, h) ==
  LastOr(Labelled(d, h, "goal"), IF Bullets(d, h) = {} THEN Unread ELSE Min(Bullets(d, h)))

\* The parser's guess: with no goal so labelled, a bullet that says it is
\* something else, when it comes before every other.
Guess(d, h) == {i \in DOMAIN d :
  /\ Foreign(d, i) /\ Under(d, i) = h /\ Labelled(d, h, "goal") = {}
  /\ \A j \in Before(i) : (BulletGoal(d, j) \/ Foreign(d, j)) => Under(d, j) # h}

\* The lines that are the title wherever they stand, and the line that is it for
\* want of any before.
Firm(d)  == {i \in DOMAIN d : IsTitleHeading(d, i) \/ (d[i].form = "inline" /\ SaysTitle(d, i))}
First(d) == {i \in DOMAIN d : ~TitleBefore(d, i)
               /\ \/ IsTop(d, i) /\ ~SectionBefore(d, i)
                  \/ d[i].form = "labelled" /\ SaysTitle(d, i) /\ Under(d, i) = Unread}
TitleOf(d) == LastOr(Firm(d), LastOr(First(d), Unread))

\* The parser that goes line by line finds in every document what the whole of
\* it says: each section with the goal and the target of its own lines, and the
\* title, in whatever order and form the model wrote them (normalizer.py:466-529).
\* A goal is not as stated in one case only, the guess at lines 508-516.
ReadsAsStated ==
  /\ {sections[k].heading : k \in DOMAIN sections} = {i \in DOMAIN doc : Opens(doc, i)}
  /\ \A j, k \in DOMAIN sections : j < k => sections[j].heading < sections[k].heading
  /\ \A k \in DOMAIN sections :
       LET h == sections[k].heading
       IN /\ IF Guess(doc, h) = {} THEN sections[k].goal = GoalOf(doc, h)
                                    ELSE sections[k].goal \in Guess(doc, h)
          /\ sections[k].words = WordsOf(doc, h)
  /\ title = TitleOf(doc)

\* An accepted outline is within its schema, and no line is two of its parts,
\* the title and the stated total (normalizer.py:649-655) among them.  The one
\* exception is a total written as a bullet, which the parser can guess to be
\* the goal of the section it stands in (normalizer.py:513-516).
StatedOnce ==
  outline.end = "accepted" =>
    LET parts == {<<k, f>> : k \in DOMAIN outline.sections, f \in {"heading", "goal", "words"}}
        From(p) == outline.sections[p[1]][p[2]]
    IN /\ Len(outline.sections) \in SectionCount /\ outline.total \in TotalWords
       /\ outline.title # TotalLine
       /\ \A p \in parts : From(p) \in DOMAIN doc /\ From(p) # outline.title
       /\ \A p, q \in parts : p # q => From(p) # From(q)
       /\ \A p \in parts : From(p) = TotalLine =>
            p[2] = "goal" /\ From(p) \in Guess(doc, outline.sections[p[1]].heading)
===============================================================================
