---------------------------- MODULE MCRegistration ----------------------------
(* Instances of Registration for TLC: an address in two spellings, two        *)
(* passwords and a weak one.                                                  *)
EXTENDS Registration

CONSTANTS ann, Ann, good, other, weak

MCAddresses == {ann, Ann}
MCFolded == [a \in MCAddresses |-> ann]
MCPasswords == {good, other, weak}
MCWeak == {weak}
===============================================================================
