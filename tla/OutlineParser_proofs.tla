-------------------------- MODULE OutlineParser_proofs --------------------------
(***************************************************************************)
(* Theorems about OutlineParser, for documents of any length: the pass     *)
(* over the lines finds what the document says as a whole, and takes no    *)
(* line for two parts of an outline.                                       *)
(***************************************************************************)
EXTENDS OutlineParser, WellFoundedInduction, TLAPS

USE ParserAssumption

-------------------------------------------------------------------------------
(* First and last lines of a set *)

LEMMA LeastExists ==
  ASSUME NEW S \in SUBSET Nat, S # {}
  PROVE  \E m \in S : \A y \in S : m <= y
<1> DEFINE R == OpToRel(<, Nat)
<1>1. IsWellFoundedOn(R, Nat) BY NatLessThanWellFounded
<1>2. \A x, y \in Nat : <<x, y>> \in R <=> x < y BY DEF OpToRel
<1> HIDE DEF R
<1>3. PICK m \in S : \A y \in S : <<y, m>> \notin R BY <1>1, WFMin
<1>4. ASSUME NEW y \in S PROVE m <= y
  <2>1. ~(y < m) BY <1>2, <1>3
  <2>2. y \in Nat /\ m \in Nat OBVIOUS
  <2> QED BY <2>1, <2>2
<1> QED BY <1>4

\* The last line of a set of lines, and the first, are the ones that the
\* operators of the library find.
LEMMA LastOfLines ==
  ASSUME NEW n \in Nat, NEW S \in SUBSET (1..n), S # {}
  PROVE  Max(S) \in S /\ \A y \in S : y <= Max(S)
<1> DEFINE T == {n - x : x \in S}
<1>1. T \in SUBSET Nat /\ T # {}
  <2>1. PICK s \in S : TRUE OBVIOUS
  <2>2. n - s \in T OBVIOUS
  <2>3. ASSUME NEW x \in S PROVE n - x \in Nat OBVIOUS
  <2> QED BY <2>2, <2>3
<1>2. PICK t \in T : \A y \in T : t <= y
  <2> HIDE DEF T
  <2> QED BY <1>1, LeastExists
<1>3. PICK m \in S : t = n - m BY <1>2
<1>4. ASSUME NEW y \in S PROVE m >= y
  <2>1. n - y \in T OBVIOUS
  <2>2. n - m <= n - y BY <1>2, <1>3, <2>1
  <2>3. n \in Int /\ m \in Int /\ y \in Int OBVIOUS
  <2> HIDE DEF T
  <2> QED BY <2>2, <2>3
<1> HIDE DEF T
<1>5. Max(S) \in S /\ \A y \in S : Max(S) >= y BY <1>4 DEF Max
<1>6. \A y \in S : y \in Int OBVIOUS
<1> QED BY <1>5, <1>6

LEMMA MaxIs ==
  ASSUME NEW S \in SUBSET Nat, NEW m \in S, \A y \in S : y <= m
  PROVE  Max(S) = m
<1>1. \A y \in S : m >= y OBVIOUS
<1>2. PICK x \in S : x = Max(S) /\ \A y \in S : x >= y BY <1>1 DEF Max
<1>3. x >= m /\ m >= x BY <1>1, <1>2
<1>4. x \in Int /\ m \in Int OBVIOUS
<1>5. x = m BY <1>3, <1>4
<1> QED BY <1>2, <1>5

LEMMA MinIs ==
  ASSUME NEW S \in SUBSET Nat, NEW m \in S, \A y \in S : m <= y
  PROVE  Min(S) = m
<1>1. \A y \in S : m =< y OBVIOUS
<1>2. PICK x \in S : x = Min(S) /\ \A y \in S : x =< y BY <1>1 DEF Min
<1>3. x =< m /\ m =< x BY <1>1, <1>2
<1>4. x \in Int /\ m \in Int OBVIOUS
<1>5. x = m BY <1>3, <1>4
<1> QED BY <1>2, <1>5

-------------------------------------------------------------------------------
(* What the pass takes for a goal, stated and guessed alike *)

Taken(d, i) == d[i].form = "bullet" /\ ~NamesSection(d[i]) /\ d[i].says # "words"
Bares(d, h) == {i \in DOMAIN d : Taken(d, i) /\ Under(d, i) = h}
GoalTaken(d, h) ==
  LastOr(Labelled(d, h, "goal"), IF Bares(d, h) = {} THEN Unread ELSE Min(Bares(d, h)))

ReadsAsTaken ==
  /\ {sections[k].heading : k \in DOMAIN sections} = {i \in DOMAIN doc : Opens(doc, i)}
  /\ \A j, k \in DOMAIN sections : j < k => sections[j].heading < sections[k].heading
  /\ \A k \in DOMAIN sections : /\ sections[k].goal = GoalTaken(doc, sections[k].heading)
                                /\ sections[k].words = WordsOf(doc, sections[k].heading)
  /\ title = TitleOf(doc)

-------------------------------------------------------------------------------
(* What a document says of its lines when another is added *)

Longer(d, l, e) == d \in Seq(Lines) /\ l \in Lines /\ e = Append(d, l)

LEMMA LinesStay ==
  ASSUME NEW d, NEW l, NEW e, Longer(d, l, e)
  PROVE  /\ Len(d) \in Nat /\ DOMAIN d = 1..Len(d)
         /\ e \in Seq(Lines) /\ Len(e) = Len(d) + 1 /\ DOMAIN e = 1..(Len(d) + 1)
         /\ e[Len(d) + 1] = l
         /\ \A i \in 1..Len(d) : e[i] = d[i]
BY DEF Longer

\* What a line says by itself.
LEMMA SaysAsBefore ==
  ASSUME NEW d, NEW l, NEW e, Longer(d, l, e)
  PROVE  \A i \in 1..Len(d) :
           /\ IsHeading(e, i) <=> IsHeading(d, i)
           /\ IsTitleHeading(e, i) <=> IsTitleHeading(d, i)
           /\ IsTop(e, i) <=> IsTop(d, i)
           /\ SaysTitle(e, i) <=> SaysTitle(d, i)
           /\ Taken(e, i) <=> Taken(d, i)
           /\ \A field : Labels(e, i, field) <=> Labels(d, i, field)
BY LinesStay DEF IsHeading, IsTitleHeading, IsTop, SaysTitle, Taken, Labels

\* What it is by those before it.
LEMMA BeginsAsBefore ==
  ASSUME NEW d, NEW l, NEW e, Longer(d, l, e)
  PROVE  /\ \A i \in 1..Len(d) : Begins(e, i) <=> Begins(d, i)
         /\ \A i \in 1..(Len(d) + 1) : SectionBefore(e, i) <=> SectionBefore(d, i)
<1>0. Len(d) \in Nat BY LinesStay
<1>1. \A i \in 1..(Len(d) + 1) : \A j \in Before(i) : j \in 1..Len(d)
  BY <1>0 DEF Before
<1>2. ASSUME NEW i \in 1..Len(d) PROVE Begins(e, i) <=> Begins(d, i)
  <2>1. \A k \in Before(i) : /\ IsTitleHeading(e, k) <=> IsTitleHeading(d, k)
                             /\ IsTop(e, k) <=> IsTop(d, k)
                             /\ SaysTitle(e, k) <=> SaysTitle(d, k)
    BY <1>0, <1>1, SaysAsBefore
  <2> QED BY <2>1, SaysAsBefore DEF Begins
<1> QED BY <1>1, <1>2 DEF SectionBefore

LEMMA ReadsAsBefore ==
  ASSUME NEW d, NEW l, NEW e, Longer(d, l, e)
  PROVE  /\ \A i \in 1..(Len(d) + 1) : TitleBefore(e, i) <=> TitleBefore(d, i)
         /\ \A i \in 1..Len(d) : Opens(e, i) <=> Opens(d, i)
         /\ \A i \in 1..(Len(d) + 1) : Under(e, i) = Under(d, i)
<1>0. Len(d) \in Nat BY LinesStay
<1>1. \A i \in 1..(Len(d) + 1) : \A j \in Before(i) : j \in 1..Len(d)
  BY <1>0 DEF Before
<1>2. ASSUME NEW i \in 1..(Len(d) + 1) PROVE TitleBefore(e, i) <=> TitleBefore(d, i)
  <2>1. ASSUME NEW j \in Before(i)
        PROVE  /\ IsTitleHeading(e, j) <=> IsTitleHeading(d, j)
               /\ SaysTitle(e, j) <=> SaysTitle(d, j)
               /\ IsTop(e, j) <=> IsTop(d, j)
               /\ SectionBefore(e, j) <=> SectionBefore(d, j)
               /\ e[j].form = d[j].form
    <3>1. j \in 1..Len(d) /\ j \in 1..(Len(d) + 1) BY <1>0, <1>1
    <3> QED BY <3>1, SaysAsBefore, BeginsAsBefore, LinesStay
  <2> QED BY <2>1 DEF TitleBefore
<1>3. ASSUME NEW i \in 1..Len(d) PROVE Opens(e, i) <=> Opens(d, i)
  <2>1. i \in 1..(Len(d) + 1) BY <1>0
  <2>2. e[i].says = d[i].says BY LinesStay
  <2> QED BY <1>2, <2>1, <2>2, SaysAsBefore, BeginsAsBefore DEF Opens
<1>4. ASSUME NEW i \in 1..(Len(d) + 1) PROVE Under(e, i) = Under(d, i)
  <2> DEFINE above(f) == {j \in Before(i) : IsHeading(f, j)}
             opened(f) == {j \in Before(i) : Opens(f, j)}
  <2>1. \A j \in Before(i) : j \in 1..Len(d) BY <1>1
  <2>2. above(e) = above(d) BY <2>1, SaysAsBefore
  <2>3. opened(e) = opened(d) BY <2>1, <1>3
  <2>4. above(d) # {} => Max(above(d)) \in 1..Len(d)
    <3>1. above(d) \in SUBSET (1..Len(d)) BY <2>1
    <3> HIDE DEF above
    <3> QED BY <1>0, <3>1, LastOfLines
  <2>5. above(d) # {} => (IsTitleHeading(e, Max(above(d))) <=> IsTitleHeading(d, Max(above(d))))
    <3> HIDE DEF above
    <3> QED BY <2>4, SaysAsBefore
  <2>6. \A f : Under(f, i) = IF above(f) = {} \/ opened(f) = {} \/ IsTitleHeading(f, Max(above(f)))
                             THEN Unread ELSE Max(opened(f))
    BY DEF Under
  <2> HIDE DEF above, opened
  <2> QED BY <2>2, <2>3, <2>5, <2>6
<1> QED BY <1>2, <1>3, <1>4

-------------------------------------------------------------------------------
(* What the line added changes *)

LEMMA LastOrEmpty == \A default : LastOr({}, default) = default
BY DEF LastOr

\* A set of lines that is not empty has its last line in it, and a line added
\* to the document comes after all of them.
LEMMA LastOrIn ==
  ASSUME NEW n \in Nat, NEW S, S \in SUBSET (1..n), S # {}, NEW default
  PROVE  LastOr(S, default) \in S
BY LastOfLines DEF LastOr

LEMMA LastOrAdded ==
  ASSUME NEW n \in Nat, NEW m, m = n + 1, NEW S, S \in SUBSET (1..n), NEW default
  PROVE  LastOr(S \cup {m}, default) = m /\ (S # {} => LastOr(S, default) \in S)
<1> DEFINE T == S \cup {m}
<1>1. T \in SUBSET Nat /\ m \in T /\ \A y \in T : y <= m OBVIOUS
<1> HIDE DEF T
<1>2. Max(T) = m BY <1>1, MaxIs
<1>3. LastOr(T, default) = m BY <1>1, <1>2 DEF LastOr
<1> QED BY <1>3, LastOrIn DEF T

LEMMA SectionsNext ==
  ASSUME NEW d, NEW l, NEW e, Longer(d, l, e)
  PROVE  /\ SectionBefore(e, Len(d) + 2) <=> SectionBefore(d, Len(d) + 1) \/ Begins(e, Len(d) + 1)
         /\ {i \in DOMAIN e : Opens(e, i)}
              = {i \in DOMAIN d : Opens(d, i)} \cup (IF Opens(e, Len(d) + 1) THEN {Len(d) + 1} ELSE {})
<1>0. Len(d) \in Nat /\ DOMAIN d = 1..Len(d) /\ DOMAIN e = 1..(Len(d) + 1) BY LinesStay
<1>1. Before(Len(d) + 2) = Before(Len(d) + 1) \cup {Len(d) + 1} BY <1>0 DEF Before
<1>2. SectionBefore(e, Len(d) + 1) <=> SectionBefore(d, Len(d) + 1) BY <1>0, BeginsAsBefore
<1>3. \A i \in DOMAIN d : Opens(e, i) <=> Opens(d, i) BY <1>0, ReadsAsBefore
<1>4. DOMAIN e = DOMAIN d \cup {Len(d) + 1} BY <1>0
<1> QED BY <1>1, <1>2, <1>3, <1>4 DEF SectionBefore

LEMMA TitleNext ==
  ASSUME NEW d, NEW l, NEW e, Longer(d, l, e)
  PROVE  TitleBefore(e, Len(d) + 2) <=>
           \/ TitleBefore(d, Len(d) + 1)
           \/ IsTitleHeading(e, Len(d) + 1)
           \/ SaysTitle(e, Len(d) + 1) /\ e[Len(d) + 1].form = "inline"
           \/ /\ ~SectionBefore(d, Len(d) + 1)
              /\ IsTop(e, Len(d) + 1) \/ SaysTitle(e, Len(d) + 1)
<1>0. Len(d) \in Nat BY LinesStay
<1>1. Before(Len(d) + 2) = Before(Len(d) + 1) \cup {Len(d) + 1} BY <1>0 DEF Before
<1>2. SectionBefore(e, Len(d) + 1) <=> SectionBefore(d, Len(d) + 1) BY <1>0, BeginsAsBefore
<1>3. TitleBefore(e, Len(d) + 1) <=> TitleBefore(d, Len(d) + 1) BY <1>0, ReadsAsBefore
<1> QED BY <1>1, <1>2, <1>3 DEF TitleBefore

\* Before the first section, whatever can be a title is one.
LEMMA TitleBeforeSections ==
  ASSUME NEW d \in Seq(Lines), NEW n \in Nat, ~SectionBefore(d, n)
  PROVE  TitleBefore(d, n) <=>
           \E k \in Before(n) : IsTitleHeading(d, k) \/ SaysTitle(d, k) \/ IsTop(d, k)
<1>1. \A j \in Before(n) : Before(j) \subseteq Before(n) BY DEF Before
<1>2. \A j \in Before(n) : ~SectionBefore(d, j) BY <1>1 DEF SectionBefore
<1> QED BY <1>2 DEF TitleBefore

LEMMA UnderIsAbove ==
  ASSUME NEW d \in Seq(Lines), NEW i \in Nat
  PROVE  Under(d, i) = Unread \/ (Under(d, i) \in Before(i) /\ Opens(d, Under(d, i)))
<1> DEFINE above == {j \in Before(i) : IsHeading(d, j)}
           opened == {j \in Before(i) : Opens(d, j)}
<1>1. Under(d, i) = IF above = {} \/ opened = {} \/ IsTitleHeading(d, Max(above))
                    THEN Unread ELSE Max(opened)
  BY DEF Under
<1>2. opened # {} => Max(opened) \in opened
  <2>1. CASE i = 0 BY <2>1 DEF Before
  <2>2. CASE i # 0
    <3>1. i - 1 \in Nat /\ opened \in SUBSET (1..(i - 1)) BY <2>2 DEF Before
    <3> HIDE DEF opened
    <3> QED BY <3>1, LastOfLines
  <2> QED BY <2>1, <2>2
<1>3. \A j \in opened : j \in Before(i) /\ Opens(d, j) OBVIOUS
<1> HIDE DEF above, opened
<1> QED BY <1>1, <1>2, <1>3

LEMMA UnderNext ==
  ASSUME NEW d, NEW l, NEW e, Longer(d, l, e)
  PROVE  /\ ~IsHeading(e, Len(d) + 1) => Under(e, Len(d) + 2) = Under(d, Len(d) + 1)
         /\ Opens(e, Len(d) + 1) => Under(e, Len(d) + 2) = Len(d) + 1
         /\ IsTitleHeading(e, Len(d) + 1) => Under(e, Len(d) + 2) = Unread
         /\ IsHeading(e, Len(d) + 1) /\ ~IsTitleHeading(e, Len(d) + 1) /\ ~Opens(e, Len(d) + 1)
              => Under(e, Len(d) + 2) = LastOr({i \in DOMAIN d : Opens(d, i)}, Unread)
<1> DEFINE n == Len(d)
           above(i) == {j \in Before(i) : IsHeading(e, j)}
           opened(i) == {j \in Before(i) : Opens(e, j)}
<1>0. n \in Nat BY LinesStay
<1>1. Before(n + 2) = Before(n + 1) \cup {n + 1} /\ Before(n + 1) = 1..n BY <1>0 DEF Before
<1>2. Under(e, n + 1) = Under(d, n + 1) BY <1>0, ReadsAsBefore
<1>3. above(n + 1) \in SUBSET (1..n) /\ opened(n + 1) \in SUBSET (1..n) BY <1>1
<1>4. above(n + 2) = above(n + 1) \cup (IF IsHeading(e, n + 1) THEN {n + 1} ELSE {}) BY <1>1
<1>5. opened(n + 2) = opened(n + 1) \cup (IF Opens(e, n + 1) THEN {n + 1} ELSE {}) BY <1>1
<1>6. \A i : Under(e, i) = IF above(i) = {} \/ opened(i) = {} \/ IsTitleHeading(e, Max(above(i)))
                           THEN Unread ELSE Max(opened(i))
  BY DEF Under
<1>7. opened(n + 1) = {i \in DOMAIN d : Opens(d, i)} BY <1>1, LinesStay, ReadsAsBefore
<1>8. IsTitleHeading(e, n + 1) => IsHeading(e, n + 1) BY DEF IsTitleHeading, IsHeading
<1>9. Opens(e, n + 1) => IsHeading(e, n + 1) /\ ~IsTitleHeading(e, n + 1) BY DEF Opens
<1> HIDE DEF above, opened, n
<1>10. Max(above(n + 1) \cup {n + 1}) = n + 1 /\ Max(opened(n + 1) \cup {n + 1}) = n + 1
  <2>1. \A S \in SUBSET (1..n) : S \cup {n + 1} # {} OBVIOUS
  <2> QED BY <1>0, <1>3, <2>1, LastOrAdded DEF LastOr
<1>11. ~IsHeading(e, n + 1) => Under(e, n + 2) = Under(d, n + 1)
  BY <1>2, <1>4, <1>5, <1>6, <1>9
<1>12. Opens(e, n + 1) => Under(e, n + 2) = n + 1
  BY <1>4, <1>5, <1>6, <1>9, <1>10
<1>13. IsTitleHeading(e, n + 1) => Under(e, n + 2) = Unread
  BY <1>4, <1>6, <1>8, <1>10
<1>14. IsHeading(e, n + 1) /\ ~IsTitleHeading(e, n + 1) /\ ~Opens(e, n + 1)
         => Under(e, n + 2) = LastOr({i \in DOMAIN d : Opens(d, i)}, Unread)
  BY <1>4, <1>5, <1>6, <1>7, <1>10 DEF LastOr
<1> QED BY <1>11, <1>12, <1>13, <1>14 DEF n

\* Whose the line is, and of what.
LEMMA PartsNext ==
  ASSUME NEW d, NEW l, NEW e, Longer(d, l, e), NEW h
  PROVE  /\ \A field : Labelled(e, h, field) = Labelled(d, h, field) \cup
              (IF Labels(e, Len(d) + 1, field) /\ Under(d, Len(d) + 1) = h THEN {Len(d) + 1} ELSE {})
         /\ Bares(e, h) = Bares(d, h) \cup
              (IF Taken(e, Len(d) + 1) /\ Under(d, Len(d) + 1) = h THEN {Len(d) + 1} ELSE {})
         /\ \A field : Labelled(d, h, field) \in SUBSET (1..Len(d))
         /\ Bares(d, h) \in SUBSET (1..Len(d))
<1>0. Len(d) \in Nat /\ DOMAIN d = 1..Len(d) /\ DOMAIN e = 1..(Len(d) + 1) BY LinesStay
<1>1. DOMAIN e = DOMAIN d \cup {Len(d) + 1} BY <1>0
<1>2. Under(e, Len(d) + 1) = Under(d, Len(d) + 1) BY <1>0, ReadsAsBefore
<1>3. \A i \in DOMAIN d : Under(e, i) = Under(d, i) BY <1>0, ReadsAsBefore
<1>4. \A i \in DOMAIN d : /\ \A field : Labels(e, i, field) <=> Labels(d, i, field)
                          /\ Taken(e, i) <=> Taken(d, i)
  BY <1>0, SaysAsBefore
<1>5. ASSUME NEW field
      PROVE  Labelled(e, h, field) = Labelled(d, h, field) \cup
               (IF Labels(e, Len(d) + 1, field) /\ Under(d, Len(d) + 1) = h THEN {Len(d) + 1} ELSE {})
  BY <1>1, <1>2, <1>3, <1>4 DEF Labelled
<1>6. Bares(e, h) = Bares(d, h) \cup
        (IF Taken(e, Len(d) + 1) /\ Under(d, Len(d) + 1) = h THEN {Len(d) + 1} ELSE {})
  BY <1>1, <1>2, <1>3, <1>4 DEF Bares
<1> QED BY <1>0, <1>5, <1>6 DEF Labelled, Bares

\* Nothing belongs to a heading that is not above it.
LEMMA NoPartsYet ==
  ASSUME NEW d \in Seq(Lines), NEW h \in Nat, h >= Len(d)
  PROVE  h # Unread => (\A field : Labelled(d, h, field) = {}) /\ Bares(d, h) = {}
<1>1. Len(d) \in Nat /\ DOMAIN d = 1..Len(d) OBVIOUS
<1>2. ASSUME h # Unread, NEW i \in DOMAIN d PROVE Under(d, i) # h
  <2>1. i \in Nat /\ i <= Len(d) BY <1>1
  <2>2. \A x \in Before(i) : x < i /\ x \in Nat BY <2>1 DEF Before
  <2>3. Under(d, i) = h => h < i BY <1>2, <2>1, <2>2, UnderIsAbove
  <2> QED BY <1>1, <2>1, <2>3
<1> QED BY <1>2 DEF Labelled, Bares

LEMMA TitleLinesNext ==
  ASSUME NEW d, NEW l, NEW e, Longer(d, l, e)
  PROVE  /\ Firm(e) = Firm(d) \cup
              (IF IsTitleHeading(e, Len(d) + 1) \/ (l.form = "inline" /\ SaysTitle(e, Len(d) + 1))
               THEN {Len(d) + 1} ELSE {})
         /\ First(e) = First(d) \cup
              (IF /\ ~TitleBefore(d, Len(d) + 1)
                  /\ \/ IsTop(e, Len(d) + 1) /\ ~SectionBefore(d, Len(d) + 1)
                     \/ l.form = "labelled" /\ SaysTitle(e, Len(d) + 1)
                        /\ Under(d, Len(d) + 1) = Unread
               THEN {Len(d) + 1} ELSE {})
         /\ Firm(d) \in SUBSET (1..Len(d)) /\ First(d) \in SUBSET (1..Len(d))
<1>0. Len(d) \in Nat /\ DOMAIN d = 1..Len(d) /\ DOMAIN e = 1..(Len(d) + 1) /\ e[Len(d) + 1] = l
  BY LinesStay
<1>1. DOMAIN e = DOMAIN d \cup {Len(d) + 1} BY <1>0
<1>2. /\ Under(e, Len(d) + 1) = Under(d, Len(d) + 1)
      /\ TitleBefore(e, Len(d) + 1) <=> TitleBefore(d, Len(d) + 1)
      /\ SectionBefore(e, Len(d) + 1) <=> SectionBefore(d, Len(d) + 1)
  BY <1>0, ReadsAsBefore, BeginsAsBefore
<1>3. \A i \in DOMAIN d : /\ i \in 1..Len(d) /\ i \in 1..(Len(d) + 1) BY <1>0
<1>4. \A i \in DOMAIN d : /\ Under(e, i) = Under(d, i)
                          /\ TitleBefore(e, i) <=> TitleBefore(d, i)
                          /\ SectionBefore(e, i) <=> SectionBefore(d, i)
  BY <1>3, ReadsAsBefore, BeginsAsBefore
<1>5. \A i \in DOMAIN d : /\ IsTitleHeading(e, i) <=> IsTitleHeading(d, i)
                          /\ SaysTitle(e, i) <=> SaysTitle(d, i)
                          /\ IsTop(e, i) <=> IsTop(d, i)
                          /\ e[i].form = d[i].form
  BY <1>3, SaysAsBefore, LinesStay
<1>6. Firm(e) = Firm(d) \cup
        (IF IsTitleHeading(e, Len(d) + 1) \/ (l.form = "inline" /\ SaysTitle(e, Len(d) + 1))
         THEN {Len(d) + 1} ELSE {})
  BY <1>0, <1>1, <1>5 DEF Firm
<1>7. First(e) = First(d) \cup
        (IF /\ ~TitleBefore(d, Len(d) + 1)
            /\ \/ IsTop(e, Len(d) + 1) /\ ~SectionBefore(d, Len(d) + 1)
               \/ l.form = "labelled" /\ SaysTitle(e, Len(d) + 1)
                  /\ Under(d, Len(d) + 1) = Unread
         THEN {Len(d) + 1} ELSE {})
  BY <1>0, <1>1, <1>2, <1>4, <1>5 DEF First
<1> QED BY <1>0, <1>6, <1>7 DEF Firm, First

-------------------------------------------------------------------------------
(* What the pass does with a line *)

\* Before the first section, a heading begins one exactly when it opens one.
LEMMA FirstSectionOpens ==
  ASSUME NEW d, NEW l, NEW e, Longer(d, l, e), ~SectionBefore(d, Len(d) + 1)
  PROVE  Begins(e, Len(d) + 1) <=> Opens(e, Len(d) + 1)
<1>1. Len(d) \in Nat /\ e \in Seq(Lines) BY LinesStay
<1>2. ~SectionBefore(e, Len(d) + 1) BY <1>1, BeginsAsBefore
<1>3. TitleBefore(e, Len(d) + 1) <=>
        \E k \in Before(Len(d) + 1) : IsTitleHeading(e, k) \/ SaysTitle(e, k) \/ IsTop(e, k)
  BY <1>1, <1>2, TitleBeforeSections
<1> QED BY <1>2, <1>3 DEF Begins, Opens

\* What the pass knows of the lines it has read: whether a section and a title
\* have been among them, and which heading the next line stands under.  All
\* that it will ever need of them is in its four variables.
Shape == /\ doc \in Seq(Lines) /\ title \in 0..Len(doc)
         /\ sections \in Seq(Section) /\ current \in {0, Len(sections)}

Known ==
  /\ sections # <<>> <=> SectionBefore(doc, At)
  /\ title # Unread <=> TitleBefore(doc, At)
  /\ current = 0 /\ sections # <<>> => title # Unread
  /\ Under(doc, At) = IF current = 0 THEN Unread ELSE sections[current].heading

ReadInv == Shape /\ Known /\ ReadsAsTaken

\* What a line is to the pass, by itself and by what has been read.
Heads(l)     == l.form = "heading" \/ (l.form = "bullet" /\ NamesSection(l))
TitleHead(l) == l.form = "heading" /\ l.says = "title"
Tops(l)      == Heads(l) /\ l.level = 1 /\ l.says \in {"named", "plain"}

OpensNow(l) ==
  /\ Heads(l) /\ ~TitleHead(l)
  /\ Tops(l) /\ sections = <<>> => title # Unread
  /\ l.says = "plain" => sections = <<>>

TitleNow(l) ==
  \/ TitleHead(l)
  \/ l.form = "inline" /\ l.says = "title"
  \/ /\ title = Unread
     /\ \/ Tops(l) /\ sections = <<>>
        \/ l.form = "labelled" /\ l.says = "title" /\ current = 0

LabelsNow(l, field) == l.form \in {"inline", "bullet"} /\ l.says = field
GoalNow(l) == l.form = "bullet" /\ ~NamesSection(l) /\ l.says # "words"

GoalAfter(l, k) ==
  IF k = current /\ (LabelsNow(l, "goal") \/ (GoalNow(l) /\ sections[k].goal = Unread))
  THEN At ELSE sections[k].goal
WordsAfter(l, k) == IF k = current /\ LabelsNow(l, "words") THEN At ELSE sections[k].words

Opening(id) == [id |-> id, heading |-> At, goal |-> Unread, words |-> Unread]

Effects(l) ==
  /\ title' = IF TitleNow(l) THEN At ELSE title
  /\ current' = IF OpensNow(l) THEN Len(sections) + 1
                ELSE IF TitleHead(l) THEN 0
                ELSE IF Heads(l) THEN Len(sections) ELSE current
  /\ OpensNow(l) => \E id \in Nat : sections' = Append(sections, Opening(id))
  /\ ~OpensNow(l) => /\ sections' \in Seq(Section) /\ Len(sections') = Len(sections)
                     /\ \A k \in 1..Len(sections) :
                          /\ sections'[k].heading = sections[k].heading
                          /\ sections'[k].goal = GoalAfter(l, k)
                          /\ sections'[k].words = WordsAfter(l, k)

LEMMA FieldSet ==
  ASSUME Shape, NEW field \in {"goal", "words"}, SetField(field)
  PROVE  /\ sections' \in Seq(Section) /\ Len(sections') = Len(sections)
         /\ \A k \in 1..Len(sections) :
              /\ sections'[k].heading = sections[k].heading
              /\ sections'[k].goal =
                   IF k = current /\ field = "goal" THEN At ELSE sections[k].goal
              /\ sections'[k].words =
                   IF k = current /\ field = "words" THEN At ELSE sections[k].words
<1>1. At \in Nat /\ sections \in Seq(Section) BY DEF Shape, At
<1>2. Len(sections) \in Nat /\ DOMAIN sections = 1..Len(sections)
      /\ \A k \in 1..Len(sections) : sections[k] \in Section BY <1>1
<1>3. CASE current = 0 BY <1>2, <1>3 DEF SetField, Shape
<1>4. CASE current # 0
  <2>0. current = Len(sections) BY <1>4 DEF Shape
  <2>1. current = Len(sections) /\ current \in 1..Len(sections)
    <3>1. Len(sections) \in Nat /\ Len(sections) # 0 BY <1>2, <1>4, <2>0
    <3> QED BY <2>0, <3>1
  <2> DEFINE row == [sections[current] EXCEPT ![field] = At]
  <2>2. /\ row \in Section
        /\ row.heading = sections[current].heading
        /\ row.goal = (IF field = "goal" THEN At ELSE sections[current].goal)
        /\ row.words = (IF field = "words" THEN At ELSE sections[current].words)
    BY <1>1, <1>2, <2>1 DEF Section
  <2>3. sections' = [sections EXCEPT ![current] = row] BY <1>4 DEF SetField
  <2> HIDE DEF row
  <2>4. /\ sections' \in Seq(Section) /\ Len(sections') = Len(sections)
        /\ \A k \in 1..Len(sections) :
             sections'[k] = IF k = current THEN row ELSE sections[k]
    BY <1>1, <1>2, <2>1, <2>2, <2>3
  <2> QED BY <2>1, <2>2, <2>4
<1> QED BY <1>3, <1>4

LEMMA SectionsKept ==
  ASSUME Shape, NEW l, UNCHANGED sections, ~LabelsNow(l, "goal"), ~LabelsNow(l, "words"), ~GoalNow(l)
  PROVE  /\ sections' \in Seq(Section) /\ Len(sections') = Len(sections)
         /\ \A k \in 1..Len(sections) :
              /\ sections'[k].heading = sections[k].heading
              /\ sections'[k].goal = GoalAfter(l, k)
              /\ sections'[k].words = WordsAfter(l, k)
BY DEF Shape, GoalAfter, WordsAfter

LEMMA HeadingRead ==
  ASSUME ReadInv, NEW l \in Lines, Heads(l), ConsumeHeading(l)
  PROVE  Effects(l)
<1>1. /\ l \in Line /\ l.number \in Nat /\ Len(sections) \in Nat
      /\ (sections = <<>> <=> Len(sections) = 0)
  BY DEF ReadInv, Shape, Line
<1>2. ~LabelsNow(l, "goal") /\ ~LabelsNow(l, "words") /\ ~GoalNow(l)
      /\ (l.says \in {"named", "plain"} => (OpensDocument(l) <=> Tops(l) /\ sections = <<>> /\ title = Unread))
      /\ l.says \in {"numbered", "title", "named", "plain"}
      /\ (l.says = "title" => TitleHead(l))
      /\ l.form \notin {"inline", "labelled"}
  BY DEF Heads, LabelsNow, GoalNow, NamesSection, ConsumeHeading, OpensDocument, Tops, TitleHead
<1>3. ASSUME NEW id \in Nat, OpenSection(id), OpensNow(l), ~TitleNow(l) PROVE Effects(l)
  BY <1>3 DEF OpenSection, Effects, Opening
<1>4. ASSUME BeTitle, ~OpensNow(l), TitleNow(l), TitleHead(l) \/ sections = <<>> PROVE Effects(l)
  <2>1. UNCHANGED sections BY <1>4 DEF BeTitle
  <2> QED BY <1>1, <1>2, <1>4, <2>1, SectionsKept DEF BeTitle, Effects, ReadInv
<1>5. CASE l.says = "numbered" /\ OpenSection(l.number)
  <2>1. OpensNow(l) /\ ~TitleNow(l) BY <1>2, <1>5 DEF OpensNow, TitleNow, TitleHead, Tops
  <2> QED BY <1>1, <1>3, <1>5, <2>1
<1>6. CASE l.says = "title" /\ BeTitle
  <2>1. ~OpensNow(l) /\ TitleNow(l) /\ TitleHead(l) BY <1>2, <1>6 DEF OpensNow, TitleNow
  <2> QED BY <1>4, <1>6, <2>1
<1>7. CASE l.says \in {"named", "plain"} /\ OpensDocument(l) /\ BeTitle
  <2>1. ~OpensNow(l) /\ TitleNow(l) /\ sections = <<>>
    BY <1>2, <1>7 DEF OpensNow, TitleNow, OpensDocument
  <2> QED BY <1>4, <1>7, <2>1
<1>8. CASE /\ l.says = "named" \/ (l.says = "plain" /\ sections = <<>>)
           /\ ~OpensDocument(l)
           /\ OpenSection(Len(sections) + 1)
  <2>1. OpensNow(l) /\ ~TitleNow(l) BY <1>2, <1>8 DEF OpensNow, TitleNow, TitleHead
  <2> QED BY <1>1, <1>3, <1>8, <2>1
<1>9. CASE /\ l.says = "plain" /\ sections # <<>>
           /\ current' = Len(sections)
           /\ UNCHANGED <<title, sections>>
  <2>1. ~OpensNow(l) /\ ~TitleNow(l) /\ ~TitleHead(l) BY <1>2, <1>9 DEF OpensNow, TitleNow, TitleHead
  <2> QED BY <1>2, <1>9, <2>1, SectionsKept DEF Effects, ReadInv
<1> QED BY <1>5, <1>6, <1>7, <1>8, <1>9 DEF ConsumeHeading

\* A line that is no heading opens nothing and moves nothing.
LEMMA OtherRead ==
  ASSUME ReadInv, NEW l \in Lines, ~Heads(l),
         UNCHANGED current, title' = IF TitleNow(l) THEN At ELSE title,
         /\ sections' \in Seq(Section) /\ Len(sections') = Len(sections)
         /\ \A k \in 1..Len(sections) :
              /\ sections'[k].heading = sections[k].heading
              /\ sections'[k].goal = GoalAfter(l, k)
              /\ sections'[k].words = WordsAfter(l, k)
  PROVE  Effects(l)
BY DEF Effects, OpensNow, TitleHead, Heads

LEMMA LineRead ==
  ASSUME ReadInv, NEW l \in Lines,
         ReadHeading(l) \/ ReadInline(l) \/ ReadBullet(l) \/ ReadLabelled(l)
  PROVE  Effects(l)
<1>0. l \in Line /\ Shape BY DEF ReadInv
<1>1. CASE ReadHeading(l)
  <2>1. Heads(l) /\ ConsumeHeading(l) BY <1>1 DEF ReadHeading, Heads
  <2> QED BY <2>1, HeadingRead
<1>2. ASSUME NEW field \in {"goal", "words"}, SetField(field), LabelsNow(l, field), ~Heads(l)
      PROVE  Effects(l)
  <2>1. ~TitleNow(l) BY <1>2 DEF LabelsNow, TitleNow, TitleHead, Tops
  <2>2. \A f \in {"goal", "words"} : LabelsNow(l, f) <=> f = field BY <1>2 DEF LabelsNow
  <2>3. GoalNow(l) => field = "goal" BY <1>2 DEF GoalNow, LabelsNow
  <2>4. \A k \in 1..Len(sections) :
          /\ GoalAfter(l, k) = IF k = current /\ field = "goal" THEN At ELSE sections[k].goal
          /\ WordsAfter(l, k) = IF k = current /\ field = "words" THEN At ELSE sections[k].words
    BY <1>2, <2>2, <2>3 DEF GoalAfter, WordsAfter
  <2>5. UNCHANGED <<title, current>> BY <1>2 DEF SetField
  <2> HIDE DEF Heads, TitleNow, GoalAfter, WordsAfter
  <2> QED BY <1>0, <1>2, <2>1, <2>4, <2>5, FieldSet, OtherRead
<1>3. CASE ReadInline(l)
  <2>1. l.form = "inline" /\ ~Heads(l) /\ ~GoalNow(l) BY <1>3 DEF ReadInline, Heads, GoalNow
  <2>2. CASE l.says \in {"goal", "words"} /\ SetField(l.says)
    <3>1. LabelsNow(l, l.says) BY <2>1, <2>2 DEF LabelsNow
    <3> QED BY <1>2, <2>1, <2>2, <3>1
  <2>3. CASE l.says \notin {"goal", "words"} /\ UNCHANGED <<sections, current>>
             /\ title' = IF l.says = "title" THEN At ELSE title
    <3>1. ~LabelsNow(l, "goal") /\ ~LabelsNow(l, "words") BY <2>3 DEF LabelsNow
    <3>2. TitleNow(l) <=> l.says = "title" BY <2>1 DEF TitleNow, TitleHead, Tops
    <3> QED BY <1>0, <2>1, <2>3, <3>1, <3>2, SectionsKept, OtherRead
  <2> QED BY <1>3, <2>2, <2>3 DEF ReadInline
<1>4. CASE ReadBullet(l)
  <2>1. l.form = "bullet" BY <1>4 DEF ReadBullet
  <2>2. CASE l.says \in {"goal", "words"} /\ SetField(l.says)
    <3>1. LabelsNow(l, l.says) /\ ~Heads(l) BY <2>1, <2>2 DEF LabelsNow, Heads, NamesSection
    <3> QED BY <1>2, <2>2, <3>1
  <2>3. CASE NamesSection(l) /\ ConsumeHeading(l)
    BY <2>1, <2>3, HeadingRead DEF Heads
  <2>4. CASE ~NamesSection(l) /\ l.says \notin {"goal", "words"} /\ BareGoal
    <3>1. ~Heads(l) /\ GoalNow(l) /\ ~LabelsNow(l, "goal") /\ ~LabelsNow(l, "words") /\ ~TitleNow(l)
      BY <2>1, <2>4 DEF Heads, GoalNow, LabelsNow, TitleNow, TitleHead, Tops
    <3>2. \A k \in 1..Len(sections) :
            /\ GoalAfter(l, k) = IF k = current /\ sections[k].goal = Unread THEN At
                                 ELSE sections[k].goal
            /\ WordsAfter(l, k) = sections[k].words
      BY <3>1 DEF GoalAfter, WordsAfter
    <3>3. UNCHANGED <<title, current>> BY <2>4 DEF BareGoal, SetField
    <3>4. CASE current # 0 /\ sections[current].goal = Unread
      <4>1. SetField("goal") BY <2>4, <3>4 DEF BareGoal
      <4>2. \A k \in 1..Len(sections) :
              /\ GoalAfter(l, k) = IF k = current THEN At ELSE sections[k].goal
              /\ WordsAfter(l, k) = sections[k].words
        BY <3>2, <3>4
      <4> HIDE DEF GoalAfter, WordsAfter
      <4> QED BY <1>0, <3>1, <3>3, <4>1, <4>2, FieldSet, OtherRead
    <3>5. CASE ~(current # 0 /\ sections[current].goal = Unread)
      <4>1. UNCHANGED sections BY <2>4, <3>5 DEF BareGoal
      <4>2. \A k \in 1..Len(sections) : /\ GoalAfter(l, k) = sections[k].goal
                                        /\ WordsAfter(l, k) = sections[k].words
        BY <1>0, <3>2, <3>5 DEF Shape
      <4> QED BY <1>0, <3>1, <3>3, <4>1, <4>2, OtherRead DEF Shape
    <3> QED BY <3>4, <3>5
  <2> QED BY <1>4, <2>2, <2>3, <2>4 DEF ReadBullet
<1>5. CASE ReadLabelled(l)
  <2>1. l.form = "labelled" BY <1>5 DEF ReadLabelled
  <2>2. ~Heads(l) /\ ~LabelsNow(l, "goal") /\ ~LabelsNow(l, "words") /\ ~GoalNow(l)
    BY <2>1 DEF Heads, LabelsNow, GoalNow
  <2>3. TitleNow(l) <=> l.says = "title" /\ current = 0 /\ title = Unread
    BY <2>1 DEF TitleNow, TitleHead, Tops, Heads
  <2> QED BY <1>0, <1>5, <2>2, <2>3, SectionsKept, OtherRead DEF ReadLabelled
<1> QED BY <1>1, <1>3, <1>4, <1>5

-------------------------------------------------------------------------------
(* The pass and the document agree about the next line *)

LEMMA ShapeFacts ==
  ASSUME Shape
  PROVE  /\ doc \in Seq(Lines) /\ Len(doc) \in Nat /\ At = Len(doc) + 1 /\ At \in Nat
         /\ DOMAIN doc = 1..Len(doc)
         /\ Len(sections) \in Nat /\ DOMAIN sections = 1..Len(sections)
         /\ sections = <<>> <=> Len(sections) = 0
         /\ \A k \in 1..Len(sections) : sections[k] \in Section /\ sections[k].heading \in Nat
<1>1. doc \in Seq(Lines) /\ sections \in Seq(Section) BY DEF Shape
<1>2. /\ Len(doc) \in Nat /\ DOMAIN doc = 1..Len(doc)
      /\ Len(sections) \in Nat /\ DOMAIN sections = 1..Len(sections)
      /\ sections = <<>> <=> Len(sections) = 0
      /\ \A k \in 1..Len(sections) : sections[k] \in Section
  BY <1>1
<1>3. \A s \in Section : s.heading \in Nat BY DEF Section
<1> QED BY <1>1, <1>2, <1>3 DEF At

\* The headings found are lines of the document, and no two sections share one.
LEMMA HeadingFacts ==
  ASSUME ReadInv
  PROVE  /\ \A k \in 1..Len(sections) : sections[k].heading \in 1..Len(doc)
         /\ \A j, k \in 1..Len(sections) : sections[j].heading = sections[k].heading => j = k
<1>1. Shape /\ ReadsAsTaken BY DEF ReadInv
<1>2. \A k \in 1..Len(sections) : sections[k].heading \in 1..Len(doc)
  BY <1>1, ShapeFacts DEF ReadsAsTaken
<1>3. ASSUME NEW j \in 1..Len(sections), NEW k \in 1..Len(sections),
             sections[j].heading = sections[k].heading, j # k
      PROVE  FALSE
  <2>1. sections[j].heading \in Nat /\ sections[k].heading \in Nat BY <1>1, ShapeFacts
  <2>2. j < k => sections[j].heading < sections[k].heading BY <1>1, ShapeFacts DEF ReadsAsTaken
  <2>3. k < j => sections[k].heading < sections[j].heading BY <1>1, ShapeFacts DEF ReadsAsTaken
  <2>4. j < k \/ k < j BY <1>1, <1>3, ShapeFacts
  <2> QED BY <1>3, <2>1, <2>2, <2>3, <2>4
<1> QED BY <1>2, <1>3

LEMMA UnderNow ==
  ASSUME ReadInv
  PROVE  /\ Under(doc, At) = Unread <=> current = 0
         /\ \A k \in 1..Len(sections) : Under(doc, At) = sections[k].heading <=> k = current
<1>1. Shape /\ Known BY DEF ReadInv
<1>2. current # 0 => current \in 1..Len(sections) BY <1>1, ShapeFacts DEF Shape
<1>3. \A k \in 1..Len(sections) : sections[k].heading # Unread
  BY HeadingFacts, <1>1, ShapeFacts DEF Unread
<1>4. Under(doc, At) = IF current = 0 THEN Unread ELSE sections[current].heading
  BY <1>1 DEF Known
<1>5. Under(doc, At) = Unread <=> current = 0 BY <1>2, <1>3, <1>4
<1>6. ASSUME NEW k \in 1..Len(sections) PROVE Under(doc, At) = sections[k].heading <=> k = current
  <2>1. k # 0 BY <1>1, ShapeFacts
  <2> QED BY <1>2, <1>3, <1>4, <2>1, HeadingFacts
<1> QED BY <1>5, <1>6

LEMMA SaysNow ==
  ASSUME ReadInv, NEW l \in Lines, NEW e, e = Append(doc, l)
  PROVE  /\ Longer(doc, l, e)
         /\ IsHeading(e, At) <=> Heads(l)
         /\ IsTitleHeading(e, At) <=> TitleHead(l)
         /\ IsTop(e, At) <=> Tops(l)
         /\ SaysTitle(e, At) <=> l.form \in {"inline", "labelled"} /\ l.says = "title"
         /\ \A field : Labels(e, At, field) <=> LabelsNow(l, field)
         /\ Taken(e, At) <=> GoalNow(l)
<1>1. Longer(doc, l, e) BY DEF Longer, ReadInv, Shape
<1>2. e[At] = l BY <1>1, LinesStay DEF At
<1>3. IsHeading(e, At) <=> Heads(l) BY <1>2 DEF IsHeading, Heads
<1>4. IsTop(e, At) <=> Tops(l) BY <1>2, <1>3 DEF IsTop, Tops
<1>5. IsTitleHeading(e, At) <=> TitleHead(l) BY <1>2 DEF IsTitleHeading, TitleHead
<1>6. SaysTitle(e, At) <=> l.form \in {"inline", "labelled"} /\ l.says = "title"
  BY <1>2 DEF SaysTitle
<1>7. \A field : Labels(e, At, field) <=> LabelsNow(l, field) BY <1>2 DEF Labels, LabelsNow
<1>8. Taken(e, At) <=> GoalNow(l) BY <1>2 DEF Taken, GoalNow
<1> QED BY <1>1, <1>3, <1>4, <1>5, <1>6, <1>7, <1>8

LEMMA OpensAsStated ==
  ASSUME ReadInv, NEW l \in Lines, NEW e, e = Append(doc, l)
  PROVE  Opens(e, At) <=> OpensNow(l)
<1>0. Shape /\ Known BY DEF ReadInv
<1>a. Longer(doc, l, e) BY SaysNow
<1>1. Longer(doc, l, e) /\ e[At] = l BY <1>a, LinesStay DEF At
<1>2. At \in 1..(Len(doc) + 1)
  <2>1. At = Len(doc) + 1 /\ Len(doc) \in Nat BY <1>0, ShapeFacts
  <2> QED BY <2>1
<1>3. SectionBefore(e, At) <=> sections # <<>> BY <1>0, <1>1, <1>2, BeginsAsBefore DEF Known
<1>4. TitleBefore(e, At) <=> title # Unread BY <1>0, <1>1, <1>2, ReadsAsBefore DEF Known
<1> QED BY <1>1, <1>3, <1>4, SaysNow DEF Opens, OpensNow

\* The title lines of the document grow by the lines that become the title.
LEMMA TitleAsStated ==
  ASSUME ReadInv, NEW l \in Lines, NEW e, e = Append(doc, l)
  PROVE  /\ TitleNow(l) => At \in Firm(e) \/ (title = Unread /\ At \in First(e))
         /\ ~TitleNow(l) => Firm(e) = Firm(doc) /\ First(e) = First(doc)
         /\ ~TitleHead(l) /\ ~(l.form = "inline" /\ l.says = "title") => Firm(e) = Firm(doc)
         /\ Firm(e) \in {Firm(doc), Firm(doc) \cup {At}}
         /\ First(e) \in {First(doc), First(doc) \cup {At}}
<1>0. Shape /\ Known /\ At = Len(doc) + 1 BY ShapeFacts DEF ReadInv
<1>1. Longer(doc, l, e) BY SaysNow
<1>2. SectionBefore(doc, At) <=> sections # <<>> BY <1>0 DEF Known
<1>3. TitleBefore(doc, At) <=> title # Unread BY <1>0 DEF Known
<1>4. Under(doc, At) = Unread <=> current = 0 BY UnderNow
<1> DEFINE firm == TitleHead(l) \/ (l.form = "inline" /\ l.says = "title")
           first == /\ title = Unread
                    /\ \/ Tops(l) /\ sections = <<>>
                       \/ l.form = "labelled" /\ l.says = "title" /\ current = 0
<1>5. Firm(e) = Firm(doc) \cup (IF firm THEN {At} ELSE {})
  <2>1. firm <=> IsTitleHeading(e, At) \/ (l.form = "inline" /\ SaysTitle(e, At)) BY SaysNow
  <2> HIDE DEF firm
  <2> QED BY <1>0, <1>1, <2>1, TitleLinesNext
<1>6. First(e) = First(doc) \cup (IF first THEN {At} ELSE {})
  <2>1. first <=> /\ ~TitleBefore(doc, At)
                  /\ \/ IsTop(e, At) /\ ~SectionBefore(doc, At)
                     \/ l.form = "labelled" /\ SaysTitle(e, At) /\ Under(doc, At) = Unread
    BY <1>2, <1>3, <1>4, SaysNow
  <2> HIDE DEF first
  <2> QED BY <1>0, <1>1, <2>1, TitleLinesNext
<1>7. TitleNow(l) <=> firm \/ first BY DEF TitleNow
<1>8. first => title = Unread OBVIOUS
<1>9. firm <=> TitleHead(l) \/ (l.form = "inline" /\ l.says = "title") OBVIOUS
<1> HIDE DEF firm, first
<1> QED BY <1>5, <1>6, <1>7, <1>8, <1>9

-------------------------------------------------------------------------------
(* The pass keeps up with the document *)

LEMMA ShapeKept ==
  ASSUME ReadInv, NEW l \in Lines, doc' = Append(doc, l), Effects(l)
  PROVE  Shape'
<1>1. Shape BY DEF ReadInv
<1>2. doc' \in Seq(Lines) /\ Len(doc') = Len(doc) + 1 /\ Len(doc) \in Nat
  BY <1>1 DEF Shape
<1>3. title' \in 0..Len(doc') BY <1>1, <1>2 DEF Shape, Effects, At
<1>4. CASE OpensNow(l)
  <2>1. PICK id \in Nat : sections' = Append(sections, Opening(id)) BY <1>4 DEF Effects
  <2>2. Opening(id) \in Section BY <1>1, ShapeFacts DEF Opening, Section, Unread
  <2>3. sections' \in Seq(Section) /\ Len(sections') = Len(sections) + 1
    BY <1>1, <2>1, <2>2 DEF Shape
  <2>4. current' = Len(sections) + 1 BY <1>4 DEF Effects
  <2> QED BY <1>2, <1>3, <2>3, <2>4 DEF Shape
<1>5. CASE ~OpensNow(l)
  <2>1. sections' \in Seq(Section) /\ Len(sections') = Len(sections) BY <1>5 DEF Effects
  <2>2. current' \in {0, Len(sections)} BY <1>1, <1>5 DEF Effects, Shape
  <2> QED BY <1>2, <1>3, <2>1, <2>2 DEF Shape
<1> QED BY <1>4, <1>5

LEMMA HeadingsKept ==
  ASSUME ReadInv, NEW l \in Lines, doc' = Append(doc, l), Effects(l)
  PROVE  /\ DOMAIN sections' = 1..Len(sections')
         /\ Len(sections') = IF OpensNow(l) THEN Len(sections) + 1 ELSE Len(sections)
         /\ \A k \in 1..Len(sections) : sections'[k].heading = sections[k].heading
         /\ OpensNow(l) => /\ sections'[Len(sections) + 1].heading = At
                           /\ sections'[Len(sections) + 1].goal = Unread
                           /\ sections'[Len(sections) + 1].words = Unread
         /\ {sections'[k].heading : k \in DOMAIN sections'} = {i \in DOMAIN doc' : Opens(doc', i)}
         /\ \A j, k \in DOMAIN sections' : j < k => sections'[j].heading < sections'[k].heading
<1>1. Shape /\ ReadsAsTaken BY DEF ReadInv
<1>2. At \in Nat /\ At = Len(doc) + 1 /\ Len(sections) \in Nat
      /\ DOMAIN sections = 1..Len(sections) BY <1>1, ShapeFacts
<1>3. Longer(doc, l, doc') BY SaysNow
<1>4. {i \in DOMAIN doc' : Opens(doc', i)}
        = {i \in DOMAIN doc : Opens(doc, i)} \cup (IF OpensNow(l) THEN {At} ELSE {})
  BY <1>2, <1>3, OpensAsStated, SectionsNext
<1>5. CASE OpensNow(l)
  <2>1. PICK id \in Nat : sections' = Append(sections, Opening(id)) BY <1>5 DEF Effects
  <2>2. /\ Opening(id).heading = At /\ Opening(id).goal = Unread /\ Opening(id).words = Unread
        /\ Opening(id) \in Section
    BY <1>2 DEF Opening, Section, Unread
  <2>3. /\ Len(sections') = Len(sections) + 1 /\ DOMAIN sections' = 1..(Len(sections) + 1)
        /\ sections'[Len(sections) + 1] = Opening(id)
        /\ \A k \in 1..Len(sections) : sections'[k] = sections[k]
    BY <1>1, <2>1, <2>2 DEF Shape
  <2>4. {sections'[k].heading : k \in DOMAIN sections'}
          = {sections[k].heading : k \in DOMAIN sections} \cup {At}
    <3>1. \A k \in DOMAIN sections' : k \in DOMAIN sections \/ k = Len(sections) + 1
      BY <1>2, <2>3
    <3>2. \A k \in DOMAIN sections : k \in DOMAIN sections' /\ sections'[k] = sections[k]
      BY <1>2, <2>3
    <3>3. Len(sections) + 1 \in DOMAIN sections' /\ sections'[Len(sections) + 1].heading = At
      BY <1>2, <2>2, <2>3
    <3> QED BY <3>1, <3>2, <3>3
  <2>5. ASSUME NEW j \in DOMAIN sections', NEW k \in DOMAIN sections', j < k
        PROVE  sections'[j].heading < sections'[k].heading
    <3>1. j \in 1..Len(sections) /\ (k \in 1..Len(sections) \/ k = Len(sections) + 1)
      BY <1>2, <2>3, <2>5
    <3>2. sections[j].heading \in 1..Len(doc) BY <3>1, HeadingFacts
    <3>3. sections[j].heading < At BY <1>1, <1>2, <3>2, ShapeFacts
    <3>4. k \in 1..Len(sections) => sections[j].heading < sections[k].heading
      BY <1>1, <1>2, <2>5, <3>1 DEF ReadsAsTaken
    <3> QED BY <2>2, <2>3, <3>1, <3>3, <3>4
  <2> QED BY <1>1, <1>4, <1>5, <2>2, <2>3, <2>4, <2>5 DEF ReadsAsTaken
<1>6. CASE ~OpensNow(l)
  <2>1. /\ sections' \in Seq(Section) /\ Len(sections') = Len(sections)
        /\ \A k \in 1..Len(sections) : sections'[k].heading = sections[k].heading
    BY <1>6 DEF Effects
  <2>2. DOMAIN sections' = DOMAIN sections BY <1>2, <2>1
  <2>3. {sections'[k].heading : k \in DOMAIN sections'} = {sections[k].heading : k \in DOMAIN sections}
    BY <1>2, <2>1, <2>2
  <2> QED BY <1>1, <1>2, <1>4, <1>6, <2>1, <2>2, <2>3 DEF ReadsAsTaken
<1> QED BY <1>5, <1>6

LEMMA KnownKept ==
  ASSUME ReadInv, NEW l \in Lines, doc' = Append(doc, l), Effects(l)
  PROVE  Known'
<1>1. Shape /\ Known BY DEF ReadInv
<1>2. At \in Nat /\ At = Len(doc) + 1 /\ At' = Len(doc) + 2
      /\ Len(sections) \in Nat /\ (sections = <<>> <=> Len(sections) = 0)
  <2>1. Len(doc') = Len(doc) + 1 /\ Len(doc) \in Nat BY <1>1, ShapeFacts DEF Shape
  <2> QED BY <1>1, <2>1, ShapeFacts DEF At
<1>3. Longer(doc, l, doc') BY SaysNow
<1>4. sections' # <<>> <=> OpensNow(l) \/ sections # <<>>
  <2>1. sections' \in Seq(Section) BY ShapeKept DEF Shape
  <2>2. sections' # <<>> <=> Len(sections') # 0 BY <2>1
  <2> QED BY <1>2, <2>2, HeadingsKept
<1>5. sections' # <<>> <=> SectionBefore(doc', At')
  <2>1. SectionBefore(doc', At') <=> sections # <<>> \/ Begins(doc', At)
    BY <1>1, <1>2, <1>3, SectionsNext DEF Known
  <2>2. sections = <<>> => (Begins(doc', At) <=> OpensNow(l))
    BY <1>1, <1>2, <1>3, FirstSectionOpens, OpensAsStated DEF Known
  <2> QED BY <1>4, <2>1, <2>2
<1>6. title' # Unread <=> TitleNow(l) \/ title # Unread
  BY <1>2 DEF Effects, Unread
<1>7. title' # Unread <=> TitleBefore(doc', At')
  <2>1. TitleBefore(doc', At') <=>
          \/ title # Unread
          \/ TitleHead(l)
          \/ l.form = "inline" /\ l.says = "title"
          \/ sections = <<>> /\ (Tops(l) \/ (l.form \in {"inline", "labelled"} /\ l.says = "title"))
    <3>1. doc'[At] = l BY <1>2, <1>3, LinesStay
    <3>2. TitleBefore(doc', At') <=>
            \/ TitleBefore(doc, At)
            \/ IsTitleHeading(doc', At)
            \/ SaysTitle(doc', At) /\ l.form = "inline"
            \/ ~SectionBefore(doc, At) /\ (IsTop(doc', At) \/ SaysTitle(doc', At))
      BY <1>2, <1>3, <3>1, TitleNext
    <3> QED BY <1>1, <3>2, SaysNow DEF Known
  <2>2. sections = <<>> => current = 0 BY <1>1, <1>2 DEF Shape
  <2>3. title = Unread /\ current = 0 => sections = <<>> BY <1>1 DEF Known
  <2> QED BY <1>6, <2>1, <2>2, <2>3 DEF TitleNow
<1>8. ASSUME current' = 0, sections' # <<>> PROVE title' # Unread
  <2>1. CASE OpensNow(l) BY <1>2, <1>8, <2>1 DEF Effects
  <2>2. CASE ~OpensNow(l) /\ TitleHead(l) BY <1>6, <2>2 DEF TitleNow
  <2>3. CASE ~OpensNow(l) /\ ~TitleHead(l)
    <3>1. sections # <<>> BY <1>4, <1>8, <2>3
    <3>2. current = 0 BY <1>2, <1>8, <2>3, <3>1 DEF Effects
    <3> QED BY <1>1, <1>6, <3>1, <3>2 DEF Known
  <2> QED BY <2>1, <2>2, <2>3
<1>9. Under(doc', At') = IF current' = 0 THEN Unread ELSE sections'[current'].heading
  <2>1. CASE OpensNow(l)
    <3>1. Under(doc', At') = At BY <1>2, <1>3, <2>1, OpensAsStated, UnderNext
    <3>2. current' = Len(sections) + 1 /\ current' # 0 BY <1>2, <2>1 DEF Effects
    <3> QED BY <2>1, <3>1, <3>2, HeadingsKept
  <2>2. CASE ~OpensNow(l) /\ TitleHead(l)
    <3>1. Under(doc', At') = Unread BY <1>2, <1>3, <2>2, SaysNow, UnderNext
    <3>2. current' = 0 BY <2>2 DEF Effects
    <3> QED BY <3>1, <3>2
  <2>3. CASE ~OpensNow(l) /\ ~TitleHead(l) /\ Heads(l)
    <3>1. current' = Len(sections) BY <2>3 DEF Effects
    <3>2. Under(doc', At') = LastOr({i \in DOMAIN doc : Opens(doc, i)}, Unread)
      BY <1>2, <1>3, <2>3, SaysNow, OpensAsStated, UnderNext
    <3>3. {i \in DOMAIN doc : Opens(doc, i)} = {sections[k].heading : k \in DOMAIN sections}
      BY DEF ReadInv, ReadsAsTaken
    <3>4. CASE sections = <<>>
      <4>1. {sections[k].heading : k \in DOMAIN sections} = {} BY <1>1, <1>2, <3>4, ShapeFacts
      <4> QED BY <1>2, <3>1, <3>2, <3>3, <3>4, <4>1, LastOrEmpty
    <3>5. CASE sections # <<>>
      <4> DEFINE last == sections[Len(sections)].heading
                 found == {sections[k].heading : k \in DOMAIN sections}
      <4>1. Len(sections) \in DOMAIN sections /\ Len(sections) # 0
            /\ DOMAIN sections = 1..Len(sections)
        BY <1>1, <1>2, <3>5, ShapeFacts
      <4>2. found \in SUBSET Nat /\ last \in found BY <1>1, <4>1, ShapeFacts
      <4>3. ASSUME NEW k \in DOMAIN sections PROVE sections[k].heading <= last
        <5>1. k = Len(sections) \/ k < Len(sections) BY <1>2, <4>1
        <5>2. k < Len(sections) => sections[k].heading < last
          BY <4>1 DEF ReadInv, ReadsAsTaken
        <5>3. sections[k].heading \in Nat /\ last \in Nat BY <1>1, <4>1, ShapeFacts
        <5> QED BY <5>1, <5>2, <5>3
      <4>4. \A y \in found : y <= last BY <4>3
      <4>5. last = sections'[Len(sections)].heading BY <4>1, HeadingsKept
      <4> HIDE DEF last, found
      <4>6. Max(found) = last BY <4>2, <4>4, MaxIs
      <4>7. LastOr(found, Unread) = last BY <4>2, <4>6 DEF LastOr
      <4>8. Under(doc', At') = last BY <3>2, <3>3, <4>7 DEF found
      <4> QED BY <3>1, <4>1, <4>5, <4>8
    <3> QED BY <3>4, <3>5
  <2>4. CASE ~Heads(l)
    <3>1. ~OpensNow(l) /\ ~TitleHead(l) BY <2>4 DEF OpensNow, TitleHead, Heads
    <3>2. current' = current BY <2>4, <3>1 DEF Effects
    <3>3. Under(doc', At') = Under(doc, At) BY <1>2, <1>3, <2>4, SaysNow, UnderNext
    <3>4. current # 0 => sections'[current].heading = sections[current].heading
      <4>1. current # 0 => current \in 1..Len(sections) BY <1>1, <1>2 DEF Shape
      <4> QED BY <4>1, HeadingsKept
    <3> QED BY <1>1, <3>2, <3>3, <3>4 DEF Known
  <2> QED BY <2>1, <2>2, <2>3, <2>4
<1> QED BY <1>5, <1>7, <1>8, <1>9 DEF Known

\* The goal and the target found for a heading keep up with the lines under it.
LEMMA PartsKept ==
  ASSUME ReadInv, NEW l \in Lines, doc' = Append(doc, l), Effects(l),
         NEW k \in DOMAIN sections'
  PROVE  /\ sections'[k].goal = GoalTaken(doc', sections'[k].heading)
         /\ sections'[k].words = WordsOf(doc', sections'[k].heading)
<1>1. Shape BY DEF ReadInv
<1>2. At \in Nat /\ At = Len(doc) + 1 /\ Len(doc) \in Nat /\ Len(sections) \in Nat BY <1>1, ShapeFacts
<1>3. Longer(doc, l, doc') BY SaysNow
<1>4. CASE OpensNow(l) /\ k = Len(sections) + 1
  <2>1. /\ sections'[k].heading = At /\ sections'[k].goal = Unread /\ sections'[k].words = Unread
    BY <1>4, HeadingsKept
  <2>2. doc' \in Seq(Lines) /\ Len(doc') = At BY <1>2, <1>3, LinesStay
  <2>3. (\A field : Labelled(doc', At, field) = {}) /\ Bares(doc', At) = {}
    <3>1. At # Unread /\ At >= Len(doc') BY <1>2, <2>2 DEF Unread
    <3> QED BY <1>2, <2>2, <3>1, NoPartsYet
  <2> QED BY <2>1, <2>3, LastOrEmpty DEF GoalTaken, WordsOf
<1>5. CASE ~(OpensNow(l) /\ k = Len(sections) + 1)
  <2> DEFINE h == sections[k].heading
  <2>1. k \in 1..Len(sections)
    <3>1. k \in 1..Len(sections') BY HeadingsKept
    <3> QED BY <1>2, <1>5, <3>1, HeadingsKept
  <2>2. sections'[k].heading = h BY <2>1, HeadingsKept
  <2>3. sections[k].goal = GoalTaken(doc, h) /\ sections[k].words = WordsOf(doc, h)
    BY <1>1, <2>1, ShapeFacts DEF ReadInv, ReadsAsTaken
  <2>4. Under(doc, At) = h <=> k = current BY <2>1, UnderNow
  <2>5. sections'[k].goal = GoalAfter(l, k) /\ sections'[k].words = WordsAfter(l, k)
    <3>1. CASE ~OpensNow(l) BY <2>1, <3>1 DEF Effects
    <3>2. CASE OpensNow(l)
      <4>1. PICK id \in Nat : sections' = Append(sections, Opening(id)) BY <3>2 DEF Effects
      <4>2. sections'[k] = sections[k] BY <1>1, <2>1, <4>1 DEF Shape
      <4>3. Heads(l) BY <3>2 DEF OpensNow
      <4>4. ~LabelsNow(l, "goal") /\ ~LabelsNow(l, "words") /\ ~GoalNow(l)
        BY <3>2, <4>3 DEF LabelsNow, GoalNow, Heads, NamesSection
      <4> QED BY <4>2, <4>4 DEF GoalAfter, WordsAfter
    <3> QED BY <3>1, <3>2
  <2>6. /\ \A field : Labelled(doc', h, field) = Labelled(doc, h, field) \cup
              (IF LabelsNow(l, field) /\ k = current THEN {At} ELSE {})
        /\ Bares(doc', h) = Bares(doc, h) \cup (IF GoalNow(l) /\ k = current THEN {At} ELSE {})
        /\ \A field : Labelled(doc, h, field) \in SUBSET (1..Len(doc))
        /\ Bares(doc, h) \in SUBSET (1..Len(doc))
    <3>1. /\ \A field : Labelled(doc', h, field) = Labelled(doc, h, field) \cup
               (IF Labels(doc', At, field) /\ Under(doc, At) = h THEN {At} ELSE {})
          /\ Bares(doc', h) = Bares(doc, h) \cup
               (IF Taken(doc', At) /\ Under(doc, At) = h THEN {At} ELSE {})
          /\ \A field : Labelled(doc, h, field) \in SUBSET (1..Len(doc))
          /\ Bares(doc, h) \in SUBSET (1..Len(doc))
      BY <1>2, <1>3, PartsNext
    <3> HIDE DEF h
    <3> QED BY <2>4, <3>1, SaysNow
  <2> HIDE DEF h
  <2>7. sections'[k].words = WordsOf(doc', h)
    <3>1. CASE k = current /\ LabelsNow(l, "words")
      <4>1. Labelled(doc', h, "words") = Labelled(doc, h, "words") \cup {At} BY <2>6, <3>1
      <4>2. Labelled(doc, h, "words") \in SUBSET (1..Len(doc)) BY <2>6
      <4>3. LastOr(Labelled(doc, h, "words") \cup {At}, Unread) = At BY <1>2, <4>2, LastOrAdded
      <4> QED BY <2>5, <3>1, <4>1, <4>3 DEF WordsAfter, WordsOf
    <3>2. CASE ~(k = current /\ LabelsNow(l, "words"))
      <4>1. Labelled(doc', h, "words") = Labelled(doc, h, "words") BY <2>6, <3>2
      <4> QED BY <2>3, <2>5, <3>2, <4>1 DEF WordsAfter, WordsOf
    <3> QED BY <3>1, <3>2
  <2>8. sections'[k].goal = GoalTaken(doc', h)
    <3> DEFINE said == Labelled(doc, h, "goal")
               bare == Bares(doc, h)
               firstOf(S) == IF S = {} THEN Unread ELSE Min(S)
    <3>1. GoalTaken(doc, h) = LastOr(said, firstOf(bare)) BY DEF GoalTaken
    <3>2. CASE k = current /\ LabelsNow(l, "goal")
      <4>1. Labelled(doc', h, "goal") = said \cup {At} BY <2>6, <3>2
      <4>2. said \in SUBSET (1..Len(doc)) BY <2>6
      <4>3. \A default : LastOr(said \cup {At}, default) = At BY <1>2, <4>2, LastOrAdded
      <4> QED BY <2>5, <3>2, <4>1, <4>3 DEF GoalAfter, GoalTaken
    <3>3. CASE k = current /\ ~LabelsNow(l, "goal") /\ GoalNow(l)
      <4>1. Labelled(doc', h, "goal") = said /\ Bares(doc', h) = bare \cup {At} BY <2>6, <3>3
      <4>2. GoalTaken(doc', h) = LastOr(said, Min(bare \cup {At})) BY <4>1 DEF GoalTaken
      <4>3. said \in SUBSET (1..Len(doc)) /\ bare \in SUBSET (1..Len(doc)) BY <2>6
      <4>4. 0 \notin said /\ 0 \notin bare BY <4>3
      <4>5. bare # {} => Min(bare) \in bare /\ Min(bare \cup {At}) = Min(bare)
        <5> HIDE DEF bare
        <5>1. ASSUME bare # {} PROVE \E m \in bare : \A y \in bare : m <= y
          <6>1. bare \in SUBSET Nat BY <4>3
          <6> QED BY <5>1, <6>1, LeastExists
        <5>2. ASSUME NEW m \in bare, \A y \in bare : m <= y
              PROVE  Min(bare) = m /\ Min(bare \cup {At}) = m
          <6>1. bare \in SUBSET Nat /\ (bare \cup {At}) \in SUBSET Nat
            <7>1. 1..Len(doc) \subseteq Nat /\ {At} \subseteq Nat BY <1>2
            <7> QED BY <4>3, <7>1
          <6>2. m <= At BY <1>2, <4>3
          <6>3. \A y \in bare \cup {At} : m <= y BY <5>2, <6>2
          <6> QED BY <5>2, <6>1, <6>3, MinIs
        <5> QED BY <5>1, <5>2
      <4>6. bare = {} => Min(bare \cup {At}) = At
        <5>1. {At} \in SUBSET Nat /\ \A y \in {At} : At <= y BY <1>2
        <5>2. Min({At}) = At BY <5>1, MinIs
        <5> HIDE DEF bare
        <5>3. bare = {} => bare \cup {At} = {At} OBVIOUS
        <5> QED BY <5>2, <5>3
      <4>7. sections'[k].goal = IF GoalTaken(doc, h) = Unread THEN At ELSE GoalTaken(doc, h)
        BY <2>3, <2>5, <3>3 DEF GoalAfter
      <4>8. said # {} => \A default : LastOr(said, default) = Max(said) /\ LastOr(said, default) \in said
        BY <1>2, <4>3, LastOrIn DEF LastOr
      <4> HIDE DEF said, bare
      <4>9. CASE said # {}
        <5>1. GoalTaken(doc, h) = Max(said) /\ GoalTaken(doc', h) = Max(said) /\ Max(said) # Unread
          BY <3>1, <4>2, <4>4, <4>8, <4>9 DEF Unread
        <5> QED BY <4>7, <5>1
      <4>10. CASE said = {} /\ bare # {}
        <5>1. GoalTaken(doc, h) = Min(bare) /\ GoalTaken(doc', h) = Min(bare) /\ Min(bare) # Unread
          BY <3>1, <4>2, <4>4, <4>5, <4>10, LastOrEmpty DEF Unread
        <5> QED BY <4>7, <5>1
      <4>11. CASE said = {} /\ bare = {}
        <5>1. GoalTaken(doc, h) = Unread /\ GoalTaken(doc', h) = At
          BY <3>1, <4>2, <4>6, <4>11, LastOrEmpty
        <5> QED BY <4>7, <5>1
      <4> QED BY <4>9, <4>10, <4>11
    <3>4. CASE ~(k = current /\ (LabelsNow(l, "goal") \/ GoalNow(l)))
      <4>1. Labelled(doc', h, "goal") = said /\ Bares(doc', h) = bare BY <2>6, <3>4
      <4> QED BY <2>3, <2>5, <3>4, <4>1 DEF GoalAfter, GoalTaken
    <3> QED BY <3>2, <3>3, <3>4
  <2> QED BY <2>2, <2>7, <2>8
<1> QED BY <1>4, <1>5

LEMMA TitleKept ==
  ASSUME ReadInv, NEW l \in Lines, doc' = Append(doc, l), Effects(l)
  PROVE  title' = TitleOf(doc')
<1>1. Shape BY DEF ReadInv
<1>2. At \in Nat /\ At = Len(doc) + 1 /\ Len(doc) \in Nat BY <1>1, ShapeFacts
<1>3. Longer(doc, l, doc') BY SaysNow
<1>4. title = LastOr(Firm(doc), LastOr(First(doc), Unread))
  BY DEF ReadInv, ReadsAsTaken, TitleOf
<1>5. Firm(doc) \in SUBSET (1..Len(doc)) /\ First(doc) \in SUBSET (1..Len(doc))
  BY <1>3, TitleLinesNext
<1>6. /\ Firm(doc') \in {Firm(doc), Firm(doc) \cup {At}}
      /\ First(doc') \in {First(doc), First(doc) \cup {At}}
  BY TitleAsStated
<1>7. At \notin Firm(doc) /\ At \notin First(doc) BY <1>2, <1>5
<1>8. CASE ~TitleNow(l)
  <2>1. Firm(doc') = Firm(doc) /\ First(doc') = First(doc) BY <1>8, TitleAsStated
  <2> QED BY <1>4, <1>8, <2>1 DEF Effects, TitleOf
<1>9. CASE TitleNow(l) /\ At \in Firm(doc')
  <2>1. Firm(doc') = Firm(doc) \cup {At} BY <1>6, <1>7, <1>9
  <2>2. \A default : LastOr(Firm(doc) \cup {At}, default) = At BY <1>2, <1>5, LastOrAdded
  <2>3. TitleOf(doc') = At BY <2>1, <2>2 DEF TitleOf
  <2> QED BY <1>9, <2>3 DEF Effects
<1>10. CASE TitleNow(l) /\ At \notin Firm(doc')
  <2>1. title = Unread /\ At \in First(doc') BY <1>10, TitleAsStated
  <2>2. Firm(doc') = Firm(doc) /\ First(doc') = First(doc) \cup {At} BY <1>6, <1>7, <1>10, <2>1
  <2>3. Firm(doc) = {}
    <3>1. Firm(doc) # {} => title \in Firm(doc) BY <1>2, <1>4, <1>5, LastOrIn
    <3> QED BY <1>5, <2>1, <3>1 DEF Unread
  <2>4. LastOr(First(doc'), Unread) = At
    <3>1. LastOr(First(doc) \cup {At}, Unread) = At BY <1>2, <1>5, LastOrAdded
    <3> QED BY <2>2, <3>1
  <2>5. TitleOf(doc') = At BY <2>2, <2>3, <2>4, LastOrEmpty DEF TitleOf
  <2> QED BY <1>10, <2>5 DEF Effects
<1> QED BY <1>8, <1>9, <1>10

-------------------------------------------------------------------------------

LEMMA ReadStart == Init => ReadInv
<1> SUFFICES ASSUME Init PROVE ReadInv OBVIOUS
<1>1. doc = <<>> /\ title = 0 /\ sections = <<>> /\ current = 0 /\ At = 1
  BY DEF Init, Unread, At
<1>2. Before(At) = {} BY <1>1 DEF Before
<1>3. Shape BY <1>1 DEF Shape
<1>4. Known BY <1>1, <1>2 DEF Known, SectionBefore, TitleBefore, Under, Unread
<1>5. DOMAIN doc = {} /\ DOMAIN sections = {} BY <1>1
<1>6. Firm(doc) = {} /\ First(doc) = {} BY <1>5 DEF Firm, First
<1>7. ReadsAsTaken BY <1>1, <1>5, <1>6, LastOrEmpty DEF ReadsAsTaken, TitleOf, Unread
<1> QED BY <1>3, <1>4, <1>7 DEF ReadInv

LEMMA ReadNext == ReadInv /\ [Next]_vars => ReadInv'
<1> SUFFICES ASSUME ReadInv, [Next]_vars PROVE ReadInv' OBVIOUS
<1>1. ASSUME UNCHANGED <<doc, title, sections, current>> PROVE ReadInv'
  BY <1>1 DEF ReadInv, Shape, Known, At, ReadsAsTaken
<1>2. ASSUME NEW l \in Lines, Read(l),
             ReadHeading(l) \/ ReadInline(l) \/ ReadBullet(l) \/ ReadLabelled(l)
      PROVE  ReadInv'
  <2>1. doc' = Append(doc, l) /\ Effects(l) BY <1>2, LineRead DEF Read
  <2>2. Shape' BY <2>1, ShapeKept
  <2>3. Known' BY <2>1, KnownKept
  <2>4. ReadsAsTaken' BY <2>1, HeadingsKept, PartsKept, TitleKept DEF ReadsAsTaken
  <2> QED BY <2>2, <2>3, <2>4 DEF ReadInv
<1> QED BY <1>1, <1>2 DEF Next, Finish, vars

\* With no goal so labelled, what the pass takes for one is the first of the
\* bullets without a label and of those it can only guess at.
LEMMA GoalIsStatedOrGuessed ==
  ASSUME doc \in Seq(Lines), NEW h \in Nat
  PROVE  IF Guess(doc, h) = {} THEN GoalTaken(doc, h) = GoalOf(doc, h)
                               ELSE GoalTaken(doc, h) \in Guess(doc, h)
<1> DEFINE said == Labelled(doc, h, "goal")
           bare == Bares(doc, h)
           plain == Bullets(doc, h)
<1>1. Len(doc) \in Nat /\ DOMAIN doc = 1..Len(doc) OBVIOUS
<1>2. GoalTaken(doc, h) = LastOr(said, IF bare = {} THEN Unread ELSE Min(bare)) BY DEF GoalTaken
<1>3. GoalOf(doc, h) = LastOr(said, IF plain = {} THEN Unread ELSE Min(plain)) BY DEF GoalOf
<1>4. said # {} => Guess(doc, h) = {} BY DEF Guess
<1>5. CASE said # {}
  <2>1. \A x, y : LastOr(said, x) = LastOr(said, y) BY <1>5 DEF LastOr
  <2> HIDE DEF said, bare, plain
  <2> QED BY <1>2, <1>3, <1>4, <1>5, <2>1
<1>6. CASE said = {}
  <2>1. \A i \in DOMAIN doc :
          /\ Labels(doc, i, "goal") => Under(doc, i) # h
          /\ Under(doc, i) = h => (Taken(doc, i) <=> BulletGoal(doc, i) \/ Foreign(doc, i))
    <3>1. \A i \in DOMAIN doc : doc[i] \in Line BY <1>1
    <3>2. \A i \in DOMAIN doc : Under(doc, i) = h => ~Labels(doc, i, "goal") BY <1>6 DEF Labelled
    <3>3. \A i \in DOMAIN doc :
            Taken(doc, i) <=> \/ BulletGoal(doc, i) \/ Foreign(doc, i)
                              \/ doc[i].form = "bullet" /\ doc[i].says = "goal"
      BY <3>1 DEF Taken, BulletGoal, Foreign, NamesSection, Line
    <3>4. \A i \in DOMAIN doc :
            doc[i].form = "bullet" /\ doc[i].says = "goal" => Labels(doc, i, "goal")
      BY DEF Labels
    <3> QED BY <3>2, <3>3, <3>4
  <2>2. GoalTaken(doc, h) = (IF bare = {} THEN Unread ELSE Min(bare))
        /\ GoalOf(doc, h) = (IF plain = {} THEN Unread ELSE Min(plain))
    BY <1>2, <1>3, <1>6, LastOrEmpty
  <2>3. plain \in SUBSET bare /\ bare \in SUBSET Nat
    BY <1>1, <2>1 DEF Bares, Bullets
  <2>4. \A i \in DOMAIN doc : i \in Guess(doc, h) <=>
          i \in bare /\ Foreign(doc, i) /\ \A j \in bare : i <= j
    <3>1. ASSUME NEW i \in DOMAIN doc
          PROVE  (\A j \in Before(i) : BulletGoal(doc, j) \/ Foreign(doc, j) => Under(doc, j) # h)
                   <=> (\A j \in bare : i <= j)
      <4>1. \A j \in Before(i) : j \in DOMAIN doc /\ j < i BY <1>1 DEF Before
      <4>2. \A j \in DOMAIN doc : i <= j \/ j \in Before(i) BY <1>1 DEF Before
      <4>3. \A j \in Before(i) : ~(i <= j) BY <1>1, <4>1
      <4> QED BY <2>1, <4>1, <4>2, <4>3 DEF Bares
    <3> QED BY <1>6, <2>1, <3>1 DEF Guess, Bares
  <2>5. Guess(doc, h) \subseteq DOMAIN doc /\ bare \subseteq DOMAIN doc BY DEF Guess, Bares
  <2>6. \A i \in bare : ~Foreign(doc, i) => i \in plain BY <2>1 DEF Bares, Bullets
  <2>7. \A i \in plain : ~Foreign(doc, i) BY DEF Bullets, BulletGoal, Foreign
  <2> HIDE DEF said, bare, plain
  <2>8. CASE bare = {} BY <2>2, <2>3, <2>4, <2>5, <2>8
  <2>9. CASE bare # {}
    <3>1. PICK m \in bare : \A y \in bare : m <= y BY <2>3, <2>9, LeastExists
    <3>2. Min(bare) = m BY <2>3, <3>1, MinIs
    <3>3. CASE Foreign(doc, m)
      <4>1. m \in Guess(doc, h) BY <2>4, <2>5, <3>1, <3>3
      <4> QED BY <2>2, <2>9, <3>2, <4>1
    <3>4. CASE ~Foreign(doc, m)
      <4>1. m \in plain /\ \A y \in plain : m <= y BY <2>3, <2>6, <3>1, <3>4
      <4>2. plain \in SUBSET Nat BY <2>3
      <4>3. Min(plain) = m BY <4>1, <4>2, MinIs
      <4>4. ASSUME NEW i \in Guess(doc, h) PROVE FALSE
        <5>1. i \in bare /\ Foreign(doc, i) /\ i <= m BY <2>4, <2>5, <3>1
        <5>2. i \in Nat /\ m \in Nat /\ m <= i BY <2>3, <3>1, <5>1
        <5>3. i = m BY <5>1, <5>2
        <5> QED BY <3>4, <5>1, <5>3
      <4> QED BY <2>2, <2>9, <3>2, <4>1, <4>3, <4>4
    <3> QED BY <3>3, <3>4
  <2> QED BY <2>8, <2>9
<1> QED BY <1>5, <1>6

LEMMA TakenIsStated == ReadInv => ReadsAsStated
<1> SUFFICES ASSUME ReadInv PROVE ReadsAsStated OBVIOUS
<1>1. Shape /\ ReadsAsTaken BY DEF ReadInv
<1>2. ASSUME NEW k \in DOMAIN sections, NEW h, h = sections[k].heading
      PROVE  /\ IF Guess(doc, h) = {} THEN sections[k].goal = GoalOf(doc, h)
                                      ELSE sections[k].goal \in Guess(doc, h)
             /\ sections[k].words = WordsOf(doc, h)
  <2>1. h \in Nat /\ doc \in Seq(Lines) BY <1>1, <1>2, ShapeFacts
  <2>2. sections[k].goal = GoalTaken(doc, h) /\ sections[k].words = WordsOf(doc, h)
    BY <1>1, <1>2 DEF ReadsAsTaken
  <2> QED BY <2>1, <2>2, GoalIsStatedOrGuessed
<1> QED BY <1>1, <1>2 DEF ReadsAsTaken, ReadsAsStated

\* In every document, however long, the parser that goes line by line finds
\* what the whole of it says: the sections, each with the target and, unless it
\* was guessed, the goal of its own lines, and the title (normalizer.py:466-529).
THEOREM ReadingIsRight == Spec => []ReadsAsStated
<1> QED BY TakenIsStated, ReadStart, ReadNext, PTL DEF Spec

-------------------------------------------------------------------------------
(* What an accepted outline is made of *)

\* An outline is built of what had been read when it was accepted, and nothing
\* is read after.
Ended ==
  outline.end = "accepted" =>
    /\ outline.title = title /\ outline.sections = sections
    /\ title # Unread /\ \A k \in DOMAIN sections : Complete(sections[k])
    /\ Len(sections) \in SectionCount /\ outline.total \in TotalWords

LEMMA EndedHolds == Spec => []Ended
<1>1. Init => Ended BY DEF Init, Ended, Reading
<1>2. Ended /\ [Next]_vars => Ended'
  <2> SUFFICES ASSUME Ended, [Next]_vars PROVE Ended' OBVIOUS
  <2>1. ASSUME NEW l \in Lines, Read(l) PROVE Ended'
    BY <2>1 DEF Read, Ended, Reading
  <2>2. ASSUME Finish PROVE Ended'
    <3>1. UNCHANGED <<doc, title, sections, current>> BY <2>2 DEF Finish
    <3>2. CASE Valid(FindTotal)
      <4>1. outline' = [end |-> "accepted", title |-> title, sections |-> sections, total |-> FindTotal]
        BY <2>2, <3>2 DEF Finish
      <4>2. outline'.title = title /\ outline'.sections = sections /\ outline'.total = FindTotal
        BY <4>1
      <4> QED BY <3>1, <3>2, <4>2 DEF Ended, Valid, Complete
    <3>3. CASE ~Valid(FindTotal)
      <4>1. outline' = Refused BY <2>2, <3>3 DEF Finish
      <4> QED BY <4>1 DEF Refused, Ended
    <3> QED BY <3>2, <3>3
  <2>3. ASSUME UNCHANGED vars PROVE Ended'
    BY <2>3 DEF vars, Ended, Complete
  <2> QED BY <2>1, <2>2, <2>3 DEF Next
<1> QED BY <1>1, <1>2, PTL DEF Spec

\* The lines that can be each part of an outline.
MayBe(i, h, f) ==
  CASE f = "heading" -> i = h /\ Opens(doc, i)
    [] f = "goal"    -> Under(doc, i) = h /\ (Labels(doc, i, "goal") \/ Taken(doc, i))
    [] f = "words"   -> Under(doc, i) = h /\ Labels(doc, i, "words")

LEMMA PartsAreLines ==
  ASSUME ReadInv, NEW k \in DOMAIN sections, Complete(sections[k]),
         NEW f \in {"heading", "goal", "words"}
  PROVE  sections[k][f] \in DOMAIN doc /\ MayBe(sections[k][f], sections[k].heading, f)
<1> DEFINE h == sections[k].heading
<1>1. Shape /\ k \in 1..Len(sections) /\ Len(doc) \in Nat /\ DOMAIN doc = 1..Len(doc)
  BY ShapeFacts DEF ReadInv
<1>2. sections[k].goal = GoalTaken(doc, h) /\ sections[k].words = WordsOf(doc, h)
  BY DEF ReadInv, ReadsAsTaken
<1>3. h \in {i \in DOMAIN doc : Opens(doc, i)} BY DEF ReadInv, ReadsAsTaken
<1> HIDE DEF h
<1>4. /\ Labelled(doc, h, "goal") \in SUBSET (1..Len(doc))
      /\ Labelled(doc, h, "words") \in SUBSET (1..Len(doc))
      /\ Bares(doc, h) \in SUBSET (1..Len(doc))
  BY <1>1 DEF Labelled, Bares
<1>5. CASE f = "heading" BY <1>3, <1>5 DEF MayBe, h
<1>6. CASE f = "words"
  <2>1. Labelled(doc, h, "words") # {} BY <1>2, LastOrEmpty DEF Complete, WordsOf
  <2>2. LastOr(Labelled(doc, h, "words"), Unread) \in Labelled(doc, h, "words")
    BY <1>1, <1>4, <2>1, LastOrIn
  <2>3. sections[k].words \in Labelled(doc, h, "words") BY <1>2, <2>2 DEF WordsOf
  <2> QED BY <1>6, <2>3 DEF MayBe, Labelled, h
<1>7. CASE f = "goal"
  <2>1. CASE Labelled(doc, h, "goal") # {}
    <3>0. \A default : LastOr(Labelled(doc, h, "goal"), default) \in Labelled(doc, h, "goal")
      BY <1>1, <1>4, <2>1, LastOrIn
    <3>1. sections[k].goal \in Labelled(doc, h, "goal") BY <1>2, <3>0 DEF GoalTaken
    <3> QED BY <1>7, <3>1 DEF MayBe, Labelled, h
  <2>2. CASE Labelled(doc, h, "goal") = {}
    <3>1. Bares(doc, h) # {} /\ sections[k].goal = Min(Bares(doc, h))
      BY <1>2, <2>2, LastOrEmpty DEF Complete, GoalTaken
    <3>2. sections[k].goal \in Bares(doc, h)
      <4>1. Bares(doc, h) \in SUBSET Nat
        <5>1. 1..Len(doc) \subseteq Nat OBVIOUS
        <5> QED BY <1>4, <5>1
      <4>2. PICK m \in Bares(doc, h) : \A y \in Bares(doc, h) : m <= y
        BY <3>1, <4>1, LeastExists
      <4>3. Min(Bares(doc, h)) = m BY <4>1, <4>2, MinIs
      <4> QED BY <3>1, <4>3
    <3> QED BY <1>7, <3>2 DEF MayBe, Bares, h
  <2> QED BY <2>1, <2>2
<1> QED BY <1>5, <1>6, <1>7

LEMMA TitleIsALine ==
  ASSUME ReadInv, title # Unread
  PROVE  title \in Firm(doc) \cup First(doc)
<1>1. Shape /\ Len(doc) \in Nat /\ DOMAIN doc = 1..Len(doc) BY ShapeFacts DEF ReadInv
<1>2. title = LastOr(Firm(doc), LastOr(First(doc), Unread)) BY DEF ReadInv, ReadsAsTaken, TitleOf
<1>3. Firm(doc) \in SUBSET (1..Len(doc)) /\ First(doc) \in SUBSET (1..Len(doc))
  BY <1>1 DEF Firm, First
<1>4. CASE Firm(doc) # {} BY <1>1, <1>2, <1>3, <1>4, LastOrIn
<1>5. CASE Firm(doc) = {}
  <2>1. title = LastOr(First(doc), Unread) BY <1>2, <1>5, LastOrEmpty
  <2>2. First(doc) # {} BY <2>1, LastOrEmpty
  <2> QED BY <1>1, <1>3, <2>1, <2>2, LastOrIn
<1> QED BY <1>4, <1>5

\* No line can be two parts, or a part and the title.
LEMMA PartsDiffer ==
  ASSUME NEW i \in DOMAIN doc, NEW h, NEW f \in {"heading", "goal", "words"}, MayBe(i, h, f)
  PROVE  /\ i \notin Firm(doc) \cup First(doc)
         /\ \A h2 : \A f2 \in {"heading", "goal", "words"} : MayBe(i, h2, f2) => h2 = h /\ f2 = f
<1>1. Labels(doc, i, "goal") \/ Taken(doc, i) \/ Labels(doc, i, "words") =>
        /\ ~IsHeading(doc, i) /\ ~SaysTitle(doc, i) /\ ~IsTitleHeading(doc, i) /\ ~IsTop(doc, i)
        /\ ~Opens(doc, i)
  BY DEF Labels, Taken, IsHeading, SaysTitle, IsTitleHeading, IsTop, Opens, NamesSection
<1>2. ~(Labels(doc, i, "words") /\ (Labels(doc, i, "goal") \/ Taken(doc, i)))
  BY DEF Labels, Taken
<1>3. Opens(doc, i) => /\ ~IsTitleHeading(doc, i) /\ ~SaysTitle(doc, i)
                       /\ ~(IsTop(doc, i) /\ ~SectionBefore(doc, i) /\ ~TitleBefore(doc, i))
  BY DEF Opens, IsHeading, SaysTitle
<1>4. i \notin Firm(doc) \cup First(doc) BY <1>1, <1>3 DEF Firm, First, MayBe
<1>5. ASSUME NEW h2, NEW f2 \in {"heading", "goal", "words"}, MayBe(i, h2, f2)
      PROVE  h2 = h /\ f2 = f
  BY <1>1, <1>2, <1>5 DEF MayBe
<1> QED BY <1>4, <1>5

\* The line that states the total is no part of an outline but a guessed goal,
\* and not the title.
LEMMA TotalApart ==
  ASSUME ReadInv, TotalLine # Unread
  PROVE  /\ title # TotalLine
         /\ \A k \in DOMAIN sections, f \in {"heading", "goal", "words"} :
              Complete(sections[k]) /\ sections[k][f] = TotalLine =>
                f = "goal" /\ TotalLine \in Guess(doc, sections[k].heading)
<1> DEFINE stated == {i \in DOMAIN doc : StatesTotal(doc[i])}
<1>1. Shape /\ DOMAIN doc = 1..Len(doc) BY ShapeFacts DEF ReadInv
<1>2. TotalLine = Min(stated) /\ stated # {} BY DEF TotalLine
<1>3. TotalLine \in DOMAIN doc /\ StatesTotal(doc[TotalLine])
  <2>1. stated \in SUBSET Nat BY <1>1
  <2>2. \A i \in stated : i \in DOMAIN doc /\ StatesTotal(doc[i]) OBVIOUS
  <2> HIDE DEF stated
  <2>3. PICK m \in stated : \A y \in stated : m <= y BY <1>2, <2>1, LeastExists
  <2>4. Min(stated) = m BY <2>1, <2>3, MinIs
  <2> QED BY <1>2, <2>2, <2>4
<1>4. /\ ~IsHeading(doc, TotalLine) /\ ~SaysTitle(doc, TotalLine)
      /\ \A field \in {"goal", "words"} : ~Labels(doc, TotalLine, field)
      /\ ~BulletGoal(doc, TotalLine)
  BY <1>3 DEF StatesTotal, IsHeading, SaysTitle, Labels, BulletGoal, NamesSection
<1>5. TotalLine \notin Firm(doc) \cup First(doc)
  BY <1>4 DEF Firm, First, IsTitleHeading, IsTop, IsHeading
<1>6. title # TotalLine BY <1>5, TitleIsALine
<1>7. ASSUME NEW k \in DOMAIN sections, NEW f \in {"heading", "goal", "words"},
             Complete(sections[k]), sections[k][f] = TotalLine
      PROVE  f = "goal" /\ TotalLine \in Guess(doc, sections[k].heading)
  <2> DEFINE h == sections[k].heading
  <2>1. MayBe(TotalLine, h, f) BY <1>7, PartsAreLines
  <2>2. f = "goal" BY <1>4, <2>1 DEF MayBe, Opens
  <2>3. sections[k].goal = TotalLine BY <1>7, <2>2
  <2>4. IF Guess(doc, h) = {} THEN TotalLine = GoalOf(doc, h) ELSE TotalLine \in Guess(doc, h)
    BY <2>3, TakenIsStated DEF ReadsAsStated
  <2> HIDE DEF h
  <2>5. TotalLine # GoalOf(doc, h)
    <3>1. \A S \in SUBSET (1..Len(doc)) : S # {} => \A x : LastOr(S, x) \in S
      BY <1>1, ShapeFacts, LastOrIn
    <3>2. Labelled(doc, h, "goal") \in SUBSET (1..Len(doc))
          /\ TotalLine \notin Labelled(doc, h, "goal")
      BY <1>1, <1>4 DEF Labelled
    <3>3. CASE Labelled(doc, h, "goal") # {} BY <3>1, <3>2, <3>3 DEF GoalOf
    <3>4. CASE Labelled(doc, h, "goal") = {}
      <4>1. GoalOf(doc, h) = IF Bullets(doc, h) = {} THEN Unread ELSE Min(Bullets(doc, h))
        BY <3>4, LastOrEmpty DEF GoalOf
      <4>2. Bullets(doc, h) \in SUBSET Nat /\ TotalLine \notin Bullets(doc, h)
        BY <1>1, <1>4 DEF Bullets
      <4>3. Bullets(doc, h) # {} => Min(Bullets(doc, h)) \in Bullets(doc, h)
        <5>1. SUFFICES ASSUME Bullets(doc, h) # {} PROVE Min(Bullets(doc, h)) \in Bullets(doc, h)
          OBVIOUS
        <5>2. PICK m \in Bullets(doc, h) : \A y \in Bullets(doc, h) : m <= y
          BY <4>2, <5>1, LeastExists
        <5>3. Min(Bullets(doc, h)) = m BY <4>2, <5>2, MinIs
        <5> QED BY <5>3
      <4> QED BY <4>1, <4>2, <4>3
    <3> QED BY <3>3, <3>4
  <2> QED BY <2>2, <2>4, <2>5 DEF h
<1> QED BY <1>6, <1>7

\* An accepted outline, of any document, is within its schema, and no line is
\* two of its parts, the title and the stated total among them, but for a total
\* that is guessed to be a goal as well (normalizer.py:513-516, 649-655).
THEOREM OutlineIsStatedOnce == Spec => []StatedOnce
<1>1. ReadInv /\ Ended => StatedOnce
  <2> SUFFICES ASSUME ReadInv, Ended, outline.end = "accepted"
               PROVE  LET parts == {<<k, f>> : k \in DOMAIN outline.sections,
                                               f \in {"heading", "goal", "words"}}
                          From(p) == outline.sections[p[1]][p[2]]
                      IN /\ Len(outline.sections) \in SectionCount /\ outline.total \in TotalWords
                         /\ outline.title # TotalLine
                         /\ \A p \in parts : From(p) \in DOMAIN doc /\ From(p) # outline.title
                         /\ \A p, q \in parts : p # q => From(p) # From(q)
                         /\ \A p \in parts : From(p) = TotalLine =>
                              p[2] = "goal" /\ From(p) \in Guess(doc, outline.sections[p[1]].heading)
    BY DEF StatedOnce
  <2> DEFINE parts == {<<k, f>> : k \in DOMAIN outline.sections, f \in {"heading", "goal", "words"}}
             From(p) == outline.sections[p[1]][p[2]]
  <2>1. /\ outline.title = title /\ outline.sections = sections
        /\ title # Unread /\ \A k \in DOMAIN sections : Complete(sections[k])
        /\ Len(sections) \in SectionCount /\ outline.total \in TotalWords
    BY DEF Ended
  <2>2. ASSUME NEW p \in parts
        PROVE  \E k \in DOMAIN sections, f \in {"heading", "goal", "words"} :
                 /\ p = <<k, f>> /\ From(p) = sections[k][f]
                 /\ From(p) \in DOMAIN doc /\ MayBe(From(p), sections[k].heading, f)
    <3>1. PICK k \in DOMAIN sections, f \in {"heading", "goal", "words"} : p = <<k, f>>
      BY <2>1
    <3>2. From(p) = sections[k][f] BY <2>1, <3>1
    <3>3. sections[k][f] \in DOMAIN doc /\ MayBe(sections[k][f], sections[k].heading, f)
      BY <2>1, PartsAreLines
    <3> HIDE DEF From
    <3> QED BY <3>1, <3>2, <3>3
  <2>3. title \in Firm(doc) \cup First(doc) BY <2>1, TitleIsALine
  <2>4. Shape /\ DOMAIN sections = 1..Len(sections) BY ShapeFacts DEF ReadInv
  <2>5. outline.title # TotalLine BY <2>1, TotalApart
  <2>6. ASSUME NEW p \in parts, From(p) = TotalLine
        PROVE  p[2] = "goal" /\ From(p) \in Guess(doc, outline.sections[p[1]].heading)
    <3>1. PICK k \in DOMAIN sections, f \in {"heading", "goal", "words"} : p = <<k, f>>
      BY <2>1
    <3>2. sections[k][f] = TotalLine /\ Complete(sections[k]) BY <2>1, <2>6, <3>1
    <3>3. TotalLine # Unread
      <4>1. From(p) \in DOMAIN doc BY <2>2
      <4>2. DOMAIN doc = 1..Len(doc) BY <2>4, ShapeFacts
      <4> HIDE DEF parts, From
      <4> QED BY <2>6, <4>1, <4>2 DEF Unread
    <3>4. f = "goal" /\ TotalLine \in Guess(doc, sections[k].heading)
      BY <3>2, <3>3, TotalApart
    <3> QED BY <2>1, <2>6, <3>1, <3>4
  <2> HIDE DEF parts, From
  <2>7. ASSUME NEW p \in parts PROVE From(p) \in DOMAIN doc /\ From(p) # outline.title
    BY <2>1, <2>2, <2>3, PartsDiffer
  <2>8. ASSUME NEW p \in parts, NEW q \in parts, From(p) = From(q) PROVE p = q
    <3>1. PICK j \in DOMAIN sections, f \in {"heading", "goal", "words"} :
            /\ p = <<j, f>> /\ From(p) \in DOMAIN doc /\ MayBe(From(p), sections[j].heading, f)
      BY <2>2
    <3>2. PICK k \in DOMAIN sections, g \in {"heading", "goal", "words"} :
            /\ q = <<k, g>> /\ MayBe(From(q), sections[k].heading, g)
      BY <2>2
    <3>3. sections[k].heading = sections[j].heading /\ g = f BY <2>8, <3>1, <3>2, PartsDiffer
    <3>4. k = j BY <2>4, <3>3, HeadingFacts
    <3> QED BY <3>1, <3>2, <3>3, <3>4
  <2> QED BY <2>1, <2>5, <2>6, <2>7, <2>8 DEF parts, From
<1> QED BY <1>1, ReadStart, ReadNext, EndedHolds, PTL DEF Spec
=================================================================================
