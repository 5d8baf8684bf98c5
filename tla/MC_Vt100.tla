----------------------------- MODULE MC_Vt100 -----------------------------
(* Vt100 on a screen of two columns and three rows, with 4-bit integers,   *)
(* and three polite hosts: one that types, in wrap mode or not, one that   *)
(* addresses the cursor and erases, and one that saves and restores it.    *)
EXTENDS Vt100

VARIABLE bytes       (* what the host of this behaviour sends               *)

(* The worst junk there is: used once, a polite host would see it.         *)
MCJunk   == {[cell |-> "none", start |-> Size, len |-> 1]}

Types    == {"x", " ", "LF", "CR", "BS", "DEL", "TAB", "ESC", "D", "M", "E", "c",
             "[", "?", "7", "h"}
Controls == {"x", "ESC", "[", "A", "B", "C", "D", "H", "1", "2", "3",
             ";", "J", "K", "r", "#"}
Saves    == {"LF", "ESC", "[", "s", "u", "A", "C"}

Plains   == {"x", " ", "LF", "CR", "BS", "DEL", "TAB", "ESC"}

MCAlphabet == Types \cup Controls \cup Saves

MCInit == Init /\ bytes \in {Types, Controls, Saves}

(* As text all letters are alike, so the hosts send one of them; and the    *)
(* host that types uses 7 only to set the wrap mode.                        *)
MCNext ==
  /\ \E c \in bytes : /\ Polite(term, c) /\ vt100_putc(c)
                      /\ term.state = "idle" => c \in Plains
                      /\ bytes = Types /\ term.state = "escape" => c # "7"
  /\ UNCHANGED bytes

MCSpec == MCInit /\ [][MCNext]_<<term, bytes>>
=============================================================================
