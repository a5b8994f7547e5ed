----------------------------- MODULE MCTokenList ----------------------------
(* A list of 1 that grows to 2 and to 4; 8 is no int.                        *)
EXTENDS TokenList, TLC

CONSTANTS t1, t2, t3, t4, t5, t6

MCToken == {t1, t2, t3, t4, t5, t6}
MCLine == {0, 1}
Perms == Permutations(MCToken)
=============================================================================
