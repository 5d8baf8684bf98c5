------------------------------ MODULE VtScreen ------------------------------
(***************************************************************************)
(* What a terminal is to the host that writes to it: a page of text, a     *)
(* cursor on it, and what every byte and every control sequence does to    *)
(* them.  There is no cursor glyph here and no linear memory, and a        *)
(* control sequence is nothing but its arguments and the byte that ends    *)
(* it.  Vt100 is shown to implement this for a polite host.                *)
(*                                                                         *)
(* Where the comments of vt100.c promise more than its code does, as for   *)
(* ESC M in the top row, this module follows the comments, and Vt100 says  *)
(* which hosts are not promised that.                                      *)
(***************************************************************************)
EXTENDS Integers

CONSTANTS
  W, H,              (* columns and rows                                    *)
  MAX_COMMAND_ARGS,  (* arguments of a control sequence                     *)
  Digits,            (* the bytes that are digits                           *)
  DigitVal(_)        (* what a digit counts                                 *)

VARIABLES
  screen,            (* page, cursor, saved cursor and wrap mode            *)
  mode,              (* "text", or the part of a control sequence awaited   *)
  argc, args,        (* the arguments of the sequence so far                *)
  open               (* the last of them may still grow                     *)

vars == <<screen, mode, argc, args, open>>

Rows == 0 .. H - 1
Cols == 0 .. W - 1
BlankRow == [c \in Cols |-> "blank"]
NoArgs   == [i \in 0 .. MAX_COMMAND_ARGS - 1 |-> 0]

Least(a, b)    == IF a < b THEN a ELSE b
Greatest(a, b) == IF a > b THEN a ELSE b

(* A screen with another page and another cursor.                           *)
Showing(s, page, x, y) ==
  [page |-> page, x |-> x, y |-> y, saved |-> s.saved, wrap |-> s.wrap]

GoTo(s, x, y) == Showing(s, s.page, x, y)

(* A page whose rows have moved up, or down, by one.                        *)
Scrolled(page)     == [r \in Rows |-> IF r = H - 1 THEN BlankRow ELSE page[r + 1]]
ScrolledDown(page) == [r \in Rows |-> IF r = 0 THEN BlankRow ELSE page[r - 1]]

(* The cursor goes one row down, or up; at the edge the page scrolls.       *)
Fed(s) ==
  IF s.y = H - 1 THEN Showing(s, Scrolled(s.page), s.x, s.y) ELSE GoTo(s, s.x, s.y + 1)

FedBack(s) ==
  IF s.y = 0 THEN Showing(s, ScrolledDown(s.page), s.x, s.y) ELSE GoTo(s, s.x, s.y - 1)

(* The cursor advances.  In the last column it stays there, or starts a new *)
(* line when lines wrap.                                                    *)
Advanced(s) ==
  IF s.x < W - 1 THEN GoTo(s, s.x + 1, s.y)
  ELSE IF s.wrap THEN Fed(GoTo(s, 0, s.y))
  ELSE s

(* A character appears at the cursor.                                       *)
Written(page, y, x, cell) == [page EXCEPT ![y][x] = cell]

Put(s, cell) == Advanced(Showing(s, Written(s.page, s.y, s.x, cell), s.x, s.y))

(* Blanks up to the next multiple of four columns.                          *)
Tabbed(s) ==
  LET One(z)   == Put(z, "blank")
      Two(z)   == One(One(z))
  IN  CASE s.x % 4 = 3 -> One(s) [] s.x % 4 = 2 -> Two(s)
        [] s.x % 4 = 1 -> One(Two(s)) [] OTHER -> Two(Two(s))

(* The character at the cursor is blanked; in the last column the cursor    *)
(* goes back by one.                                                        *)
Rubbed(s) ==
  Showing(s, Written(s.page, s.y, s.x, "blank"), IF s.x = W - 1 THEN s.x - 1 ELSE s.x, s.y)

BlankRows(s, rows) ==
  Showing(s, [r \in Rows |-> IF r \in rows THEN BlankRow ELSE s.page[r]], s.x, s.y)

PartBlanked(page, y, cols) ==
  [page EXCEPT ![y] = [c \in Cols |-> IF c \in cols THEN "blank" ELSE page[y][c]]]

BlankCols(s, cols) == Showing(s, PartBlanked(s.page, s.y, cols), s.x, s.y)

Saving(s)    == [page |-> s.page, x |-> s.x, y |-> s.y, saved |-> <<s.x, s.y>>, wrap |-> s.wrap]
Restoring(s) == GoTo(s, s.saved[1], s.saved[2])
Wrapping(s, b) == [page |-> s.page, x |-> s.x, y |-> s.y, saved |-> s.saved, wrap |-> b]

(* A reset puts the cursor home and leaves the text.                        *)
Home(s) == [page |-> s.page, x |-> 0, y |-> 0, saved |-> <<0, 0>>, wrap |-> FALSE]

-----------------------------------------------------------------------------
(* What a byte of plain text does, and the byte after ESC.                  *)
Typed(s, c) ==
  CASE c = "LF"  -> GoTo(Fed(s), 0, Fed(s).y)
    [] c = "CR"  -> GoTo(s, 0, s.y)
    [] c = "BS"  -> GoTo(s, s.x - 1, s.y)
    [] c = "DEL" -> Rubbed(s)
    [] c = "TAB" -> Tabbed(s)
    [] c \in {"ENQ", "BEL", "ESC"} -> s
    [] c = " "   -> Put(s, "blank")
    [] OTHER     -> Put(s, "ink")

Escaped(s, c) ==
  CASE c = "D" -> Fed(s)
    [] c = "M" -> FedBack(s)
    [] c = "E" -> GoTo(Fed(s), 0, Fed(s).y)
    [] c \in {"7", "s"} -> Saving(s)
    [] c \in {"8", "u"} -> Restoring(s)
    [] c = "c" -> Home(s)
    [] OTHER   -> s

(* What the sequence of n arguments a does that ends in byte c.             *)
Steps(n, a) == IF n = 0 THEN 1 ELSE a[0]

(* The kind of an erasure: one argument at most says which.                 *)
Kind(n, a) == IF n = 0 THEN 0 ELSE IF n = 1 THEN a[0] ELSE 3

Commanded(s, c, n, a) ==
  CASE c = "A" -> GoTo(s, s.x, Greatest(s.y - Steps(n, a), 0))
    [] c = "B" -> GoTo(s, s.x, Least(s.y + Steps(n, a), H - 1))
    [] c = "C" -> GoTo(s, Least(s.x + Steps(n, a), W - 1), s.y)
    [] c = "D" -> GoTo(s, Greatest(s.x - Steps(n, a), 0), s.y)
    [] c \in {"f", "H"} -> IF n = 0 THEN GoTo(s, 0, 0) ELSE GoTo(s, a[1] - 1, a[0] - 1)
    [] c = "J" -> CASE Kind(n, a) = 0 -> BlankRows(s, s.y .. H - 1)
                    [] Kind(n, a) = 1 -> BlankRows(s, 0 .. s.y)
                    [] Kind(n, a) = 2 -> BlankRows(s, Rows)
                    [] OTHER          -> s
    [] c = "K" -> CASE Kind(n, a) = 0 -> BlankCols(s, s.x .. W - 1)
                    [] Kind(n, a) = 1 -> BlankCols(s, 0 .. s.x - 1)
                    [] OTHER          -> BlankCols(s, Cols)
    [] c = "s" -> Saving(s)
    [] c = "u" -> Restoring(s)
    [] OTHER   -> s

(* What the private sequence does whose first argument is a[0].             *)
Switched(s, c, a) ==
  IF c \in {"h", "l"} /\ a[0] = 7 THEN Wrapping(s, c = "h") ELSE s

-----------------------------------------------------------------------------
(* A byte of text, or the ESC that begins a sequence.                       *)
Text(c) ==
  /\ mode = "text"
  /\ screen' = Typed(screen, c)
  /\ mode' = IF c = "ESC" THEN "escape" ELSE "text"
  /\ UNCHANGED <<argc, args, open>>

Escape(c) ==
  /\ mode = "escape"
  /\ screen' = Escaped(screen, c)
  /\ mode' = CASE c = "["             -> "sequence"
               [] c \in {"(", ")", "#"} -> "charset"
               [] c = "ESC"           -> "escape"
               [] OTHER               -> "text"
  /\ UNCHANGED <<argc, args, open>>

(* The byte that names a character set is skipped.                          *)
Charset(c) ==
  /\ mode = "charset"
  /\ mode' = "text"
  /\ UNCHANGED <<screen, argc, args, open>>

(* A digit begins an argument or makes the last one grow; a semicolon ends  *)
(* it and begins the next, and is skipped where no argument has begun.      *)
Argument(c) ==
  /\ mode \in {"sequence", "private"}
  /\ \/ /\ c \in Digits
        /\ \E i \in {IF open THEN argc - 1 ELSE argc} :
             /\ args' = [args EXCEPT ![i] = args[i] * 10 + DigitVal(c)]
             /\ argc' = i + 1
        /\ open' = TRUE
     \/ /\ c = ";"
        /\ argc' = IF open THEN argc + 1 ELSE argc
        /\ UNCHANGED <<args, open>>
  /\ UNCHANGED <<screen, mode>>

(* The byte that ends the sequence; a question mark makes it a private one. *)
Command(c) ==
  /\ mode \in {"sequence", "private"}
  /\ c \notin Digits /\ c # ";"
  /\ screen' = IF mode = "private" THEN Switched(screen, c, args)
               ELSE Commanded(screen, c, argc, args)
  /\ open' = FALSE
  /\ IF mode = "sequence" /\ c = "?"
     THEN mode' = "private" /\ UNCHANGED <<argc, args>>
     ELSE mode' = "text" /\ argc' = 0 /\ args' = NoArgs

Receive(c) == Text(c) \/ Escape(c) \/ Charset(c) \/ Argument(c) \/ Command(c)

Init ==
  /\ screen = [page |-> [r \in Rows |-> BlankRow], x |-> 0, y |-> 0,
               saved |-> <<0, 0>>, wrap |-> FALSE]
  /\ mode = "text" /\ argc = 0 /\ args = NoArgs /\ open = FALSE
=============================================================================
