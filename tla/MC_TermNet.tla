----------------------------- MODULE MC_TermNet -----------------------------
(* TermNet with two connections, each a stream of two segments and a FIN,   *)
(* with telnet commands before, between and after the text (250 to 255 are  *)
(* the bytes of commands), and a stream buffer that a segment overfills.    *)
EXTENDS TermNet, TLC

CONSTANTS c1, c2

MCSegments == <<<<1, 2, 255, 251, 250, 3>>, <<255, 253, 251, 4, 255, 252>>>>

(* Another host's frame, and one with a length of 0.                       *)
MCOthers == {[len |-> 1, size |-> 1], [len |-> 0, size |-> 1]}

Symmetry == Permutations(Conns)
=============================================================================
