----------------------------- MODULE MCOutlineParser -----------------------------
(* Documents of up to five lines, one line of each kind the patterns tell apart. *)
EXTENDS OutlineParser

L(form, says, level, number) == [form |-> form, says |-> says, level |-> level, number |-> number]

MCLines == {
  L("heading", "plain", 1, 0), L("heading", "plain", 2, 0), L("heading", "title", 1, 0),
  L("heading", "named", 2, 0), L("heading", "numbered", 2, 1),
  L("bullet", "numbered", 1, 2), L("bullet", "named", 1, 0),
  L("inline", "title", 1, 0), L("labelled", "title", 1, 0),
  L("inline", "goal", 1, 0), L("bullet", "goal", 1, 0), L("bullet", "plain", 1, 0),
  L("bullet", "words", 1, 2), L("inline", "words", 1, 0),
  L("inline", "total", 1, 0), L("bullet", "total", 1, 4), L("bullet", "title", 1, 0) }
=============================================================================
