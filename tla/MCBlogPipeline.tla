----------------------------- MODULE MCBlogPipeline -----------------------------
(* Instances of BlogPipeline for TLC. *)
EXTENDS BlogPipeline

\* Every agent but the writer may fall silent.
MCSilent == Agents \ {"writer"}
=============================================================================
