------------------------------- MODULE Vt100 -------------------------------
(***************************************************************************)
(* The terminal emulator of vt100.c: a parser of control sequences, driven *)
(* one byte at a time by vt100_putc(), and the screen it keeps in video    *)
(* RAM.                                                                    *)
(*                                                                         *)
(* The cursor is drawn INTO the video RAM: the cell it covers is kept in   *)
(* CharUnderCursor, with 0 for "the cursor is not drawn".  Every handler   *)
(* that changes the screen first removes the cursor and draws it again at  *)
(* the end.                                                                *)
(*                                                                         *)
(* A byte is a string: a control character by its name, a printable one by *)
(* itself.  What a cell shows is abstracted to blank, ink or the cursor,   *)
(* so colours are left out, and with them the 'm' sequence and the status  *)
(* line.  The handlers are operators from terminal to terminal, composed   *)
(* in the order of the code; the C loops that end in for(;;) when a write  *)
(* has passed the end of the video RAM set hung, after which no byte is    *)
(* handled any more.                                                       *)
(***************************************************************************)
EXTENDS Integers

CONSTANTS
  W, H,              (* VT100_WIDTH and VT100_HEIGHT                        *)
  MAX_COMMAND_ARGS,  (* the size of args[]                                  *)
  ByteMod,           (* narg is an uint8_t: 0 .. ByteMod - 1                *)
  IntHalf,           (* int16_t is -IntHalf .. IntHalf - 1                  *)
  Alphabet,          (* the bytes the host sends                            *)
  Junk               (* what undefined behaviour and memory that is not the *)
                     (* terminal's may supply                               *)

ASSUME ScreenAssumption ==
  /\ W \in Nat /\ W >= 2
  /\ H \in Nat \ {0}
  /\ MAX_COMMAND_ARGS \in Nat /\ MAX_COMMAND_ARGS >= 2
  /\ ByteMod \in Nat /\ ByteMod > MAX_COMMAND_ARGS
  /\ IntHalf \in Nat /\ IntHalf > W /\ IntHalf > H

VARIABLE term        (* the vt100_t of the terminal                         *)

Digits == {"0", "1", "2", "3", "4", "5", "6", "7", "8", "9"}

(* A byte that ends a control sequence.                                     *)
Final(c) == c \notin Digits /\ c # ";"

DigitVal(c) ==
  CASE c = "0" -> 0 [] c = "1" -> 1 [] c = "2" -> 2 [] c = "3" -> 3
    [] c = "4" -> 4 [] c = "5" -> 5 [] c = "6" -> 6 [] c = "7" -> 7
    [] c = "8" -> 8 [] OTHER -> 9

Uint8(i)  == i % ByteMod
Int16(i)  == ((i + IntHalf) % (2 * IntHalf)) - IntHalf
Uint16(i) == i % (2 * IntHalf)
AtLeast0(i) == IF i > 0 THEN i ELSE 0

(* What a cell holds.  "none" is the 0 of CharUnderCursor.                  *)
Text  == {"blank", "ink"}
Shown == Text \cup {"cursor"}

Size    == W * H
Cells   == 0 .. Size - 1
ArgIdx  == 0 .. MAX_COMMAND_ARGS - 1
NoArgs  == [i \in ArgIdx |-> 0]
States  == {"idle", "escape", "sq_bracket", "question", "command_arg",
            "left_br", "right_br", "hash"}

(* The content of a cell outside the terminal's video RAM, and the          *)
(* uninitialised Start and Len of _vt100_clearLine().                       *)
JunkType == [cell : Text \cup {"none"}, start : Nat, len : Nat]

ASSUME JunkAssumption == Junk \subseteq JunkType

-----------------------------------------------------------------------------
(* The screen. *)

Offset(t) == t.y * W + t.x

(* A write through VRam[].  Outside the terminal's cells it strays: below   *)
(* lies the status line, above the end of the memory.                       *)
Poke(t, o, cell) ==
  [t EXCEPT !.vram    = IF o \in Cells THEN [@ EXCEPT ![o] = cell] ELSE @,
            !.strayed = @ \/ o \notin Cells]

(* Cells from, from+1, ... up to but not including to become blank.         *)
Blank(t, from, to) ==
  [t EXCEPT !.vram    = [o \in Cells |-> IF from <= o /\ o < to THEN "blank" ELSE @[o]],
            !.strayed = @ \/ (from < to /\ (from < 0 \/ to > Size)),
            !.hung    = @ \/ to > Size]

(* _vt100_clearLines(): its limit compares Len - Start, not Len + Start.    *)
ClearLines(t, startLine, endLine) ==
  LET s   == Uint16(startLine) * W
      n   == (Uint16(endLine) - Uint16(startLine) + 1) * W
      len == IF n - s > Size THEN Size - s ELSE n
  IN  Blank(t, s, s + AtLeast0(len))

(* _vt100_clearLine(), with whatever Start and Len happen to hold when none *)
(* of the three cases applies.                                              *)
ClearLine(t, j) ==
  LET row  == t.y * W
      mode == IF t.narg = 0 THEN 0 ELSE IF t.narg = 1 THEN t.args[0] ELSE 3
      from == CASE mode = 0 -> row + t.x [] mode \in {1, 2} -> row [] OTHER -> j.start
      len  == CASE mode = 0 -> W - t.x [] mode = 1 -> t.x
                [] mode = 2 -> W [] OTHER -> j.len
  IN  Blank(t, from, from + AtLeast0(len))

(* A mistake: the scroll copies one row too few.                           *)
Scroll_OneRowShort(t, n, j) ==
  LET moved == [t EXCEPT !.vram = [o \in Cells |->
                  IF o < W * (H - n - 1) THEN @[o + W * n] ELSE @[o]]]
  IN  IF n <= 0 THEN t ELSE ClearLines(moved, t.bot - n, t.bot - 1)

(* _vt100_scroll(): the rows below scroll_start_row move up by n rows, up   *)
(* to the row screen_h - n BEHIND it, wherever the region ends; then the    *)
(* last n rows of the region are cleared.  Scrolling down is not there.     *)
Scroll(t, n, j) ==
  LET to     == W * t.top
      count  == AtLeast0(W * (H - n))
      moved  == [t EXCEPT
                  !.vram = [o \in Cells |->
                              IF to <= o /\ o < to + count
                              THEN IF o + W * n \in Cells THEN @[o + W * n] ELSE j.cell
                              ELSE @[o]],
                  !.strayed = @ \/ (count > 0 /\ (to < 0 \/ to + count > Size)),
                  !.hung = @ \/ to + count > Size]
  IN  IF n <= 0 THEN t
      ELSE IF moved.hung THEN moved
      ELSE ClearLines(moved, t.bot - n, t.bot - 1)

(* _vt100_move(): the column that column nx amounts to, and the rows that   *)
(* are added to the motion.  C division truncates towards zero.             *)
Column(t, nx) ==
  CASE nx >= W /\ t.wrap  -> nx % W
    [] nx >= W /\ ~t.wrap -> W - 1
    [] nx < 0             -> (W - ((-nx) % W)) + 1
    [] OTHER              -> nx

RowsAdded(t, nx) ==
  CASE nx >= W /\ t.wrap -> nx \div W
    [] nx < 0            -> -(((-nx) \div W) + 1)
    [] OTHER             -> 0

(* Below the scroll region the region scrolls, above it the cursor stops.   *)
MoveRows(t, down, j) ==
  LET ny == Int16(t.y + down)
  IN  CASE down = 0    -> t
        [] down # 0 /\ ny >= t.bot ->
             Scroll([t EXCEPT !.y = t.bot - 1], (ny - t.bot) + 1, j)
        [] down # 0 /\ ny < t.bot /\ ny < t.top -> [t EXCEPT !.y = t.top]
        [] OTHER       -> [t EXCEPT !.y = ny]

Move(t, dx, dy, j) ==
  LET nx == Int16(t.x + dx)
  IN  MoveRows([t EXCEPT !.x = Column(t, nx)], dy + RowsAdded(t, nx), j)

(* A mistake: a blank under the cursor is taken for no cursor at all.      *)
RemoveCursor_BlankIsNone(t) ==
  IF t.under \in {"none", "blank"} THEN t
  ELSE [Poke(t, Offset(t), t.under) EXCEPT !.under = "none",
                                           !.hung  = Offset(t) >= Size]

RemoveCursor(t) ==
  IF t.under = "none" THEN t
  ELSE [Poke(t, Offset(t), t.under) EXCEPT !.under = "none",
                                           !.hung  = Offset(t) >= Size]

DrawCursor(t, j) ==
  [Poke(t, Offset(t), "cursor") EXCEPT
     !.under = IF Offset(t) \in Cells THEN t.vram[Offset(t)] ELSE j.cell]

(* _vt100_putc() *)
PutCell(t, cell, j) ==
  LET written == [Poke(t, Offset(t), cell) EXCEPT !.under = "none",
                                                  !.hung  = @ \/ Offset(t) >= Size]
  IN  IF written.hung THEN written ELSE Move(written, 1, 0, j)

PutBlank(t, j) == IF t.hung THEN t ELSE PutCell(t, "blank", j)

(* '\t' puts blanks up to the next multiple of four: 4 - cursor_x % 4 of    *)
(* them, at most seven because C's % takes the sign of cursor_x.            *)
Tab(t, j) ==
  LET toPut   == IF t.x >= 0 THEN 4 - (t.x % 4) ELSE 4 + ((-t.x) % 4)
      Two(s)  == PutBlank(PutBlank(s, j), j)
      odd     == IF toPut % 2 = 1 THEN PutBlank(t, j) ELSE t
      evened  == IF toPut % 4 >= 2 THEN Two(odd) ELSE odd
  IN  IF toPut >= 4 THEN Two(Two(evened)) ELSE evened

(* 'P': back over n characters, n blanks over them.                         *)
DeleteChars(t, n, j) ==
  LET put[k \in 0 .. 2 * IntHalf] ==
        IF k = 0 THEN Move(t, Int16(-n), 0, j) ELSE PutBlank(put[k - 1], j)
  IN  put[n]

-----------------------------------------------------------------------------
(* The parser.  A handler of a byte is the state function of the C code     *)
(* between removing the cursor and drawing it again.                        *)

Idle(t) == [t EXCEPT !.state = "idle"]

(* CLEAR_ARGS *)
Begin(t, state) == [t EXCEPT !.state = state, !.narg = 0, !.args = NoArgs]

ResetScroll(t) == [t EXCEPT !.top = 0, !.bot = H]

Save(t)    == [t EXCEPT !.sx = t.x, !.sy = t.y]
Restore(t) == [t EXCEPT !.x = t.sx, !.y = t.sy]

(* _vt100_reset(): neither the video RAM nor CharUnderCursor.               *)
Reset(t) ==
  [ResetScroll(t) EXCEPT !.x = 0, !.y = 0, !.sx = 0, !.sy = 0, !.narg = 0,
                         !.state = "idle", !.ret = "idle",
                         !.wrap = FALSE, !.origin = FALSE]

(* _st_idle() *)
DoIdle(t, c, j) ==
  CASE c = "LF"  -> [Move(t, 0, 1, j) EXCEPT !.x = 0]
    [] c = "CR"  -> [t EXCEPT !.x = 0]
    [] c = "BS"  -> Move(t, -1, 0, j)
    [] c = "DEL" -> LET put == PutCell(t, "blank", j)
                    IN  IF put.hung THEN put ELSE Move(put, -1, 0, j)
    [] c = "TAB" -> Tab(t, j)
    [] c \in {"ENQ", "BEL"} -> t
    [] c = "ESC" -> [t EXCEPT !.state = "escape"]
    [] c = " "   -> PutCell(t, "blank", j)
    [] OTHER     -> PutCell(t, "ink", j)

(* _st_escape() *)
DoEscape(t, c, j) ==
  CASE c = "["   -> Begin(t, "sq_bracket")
    [] c = "("   -> Begin(t, "left_br")
    [] c = ")"   -> Begin(t, "right_br")
    [] c = "#"   -> Begin(t, "hash")
    [] c = "D"   -> Idle(Move(t, 0, 1, j))
    [] c = "M"   -> Idle(Move(t, 0, -1, j))
    [] c = "E"   -> Idle([Move(t, 0, 1, j) EXCEPT !.x = 0])
    [] c \in {"7", "s"} -> Idle(Save(t))
    [] c \in {"8", "u"} -> Idle(Restore(t))
    [] c = "c"   -> Reset(t)
    [] c = "ESC" -> t
    [] OTHER     -> Idle(t)

(* The cursor motions of _st_esc_sq_bracket(): the number of steps is the   *)
(* first argument if there is one.                                          *)
Up(t, n)    == LET y == Int16(t.y - n) IN [t EXCEPT !.y = IF y < 0 THEN 0 ELSE y]
Down(t, n)  == LET y == Int16(t.y + n) IN [t EXCEPT !.y = IF y > H THEN H ELSE y]
Right(t, n) == LET x == Int16(t.x + n) IN [t EXCEPT !.x = IF x > W THEN W ELSE x]
Left(t, n)  == LET x == Int16(t.x - n) IN [t EXCEPT !.x = IF x < 0 THEN 0 ELSE x]

(* A mistake: row and column are still counted from one.                   *)
MoveTo_FromOne(t) ==
  [t EXCEPT !.x = IF t.narg >= 1 THEN t.args[1] ELSE 0,
            !.y = IF t.narg = 2 THEN t.args[0] ELSE 0]

(* 'H' and 'f': row args[0], column args[1], both counted from one.         *)
MoveTo(t) ==
  LET x  == IF t.narg >= 1 THEN Int16(t.args[1] - 1) ELSE 0
      y0 == IF t.narg = 2 THEN Int16(t.args[0] - 1) ELSE 0
      y1 == Int16(y0 + t.top)
      y  == IF ~t.origin THEN y0 ELSE IF y1 >= t.bot THEN t.bot - 1 ELSE y1
  IN  [t EXCEPT !.x = IF x > W THEN W ELSE x, !.y = IF y > H THEN H ELSE y]

(* 'J' *)
Erase(t) ==
  LET mode == IF t.narg = 0 THEN 0 ELSE IF t.narg = 1 THEN t.args[0] ELSE 3
  IN  CASE mode = 0 -> ClearLines(t, t.y, H - 1)
        [] mode = 1 -> ClearLines(t, 0, t.y)
        [] mode = 2 -> ResetScroll(ClearLines(t, 0, H - 1))
        [] OTHER    -> t

(* 'r' *)
SetScroll(t) ==
  IF t.narg = 2 /\ t.args[0] < t.args[1]
  THEN [t EXCEPT !.top = Int16(t.args[0] - 1), !.bot = Int16(t.args[1] - 1)]
  ELSE ResetScroll(t)

(* _st_esc_sq_bracket(), for the byte that ends the sequence                *)
DoCommand(t, c, j) ==
  LET n == IF t.narg > 0 THEN t.args[0] ELSE 1
  IN  CASE c = "A" -> Idle(Up(t, n))
        [] c = "B" -> Idle(Down(t, n))
        [] c = "C" -> Idle(Right(t, n))
        [] c = "D" -> Idle(Left(t, n))
        [] c \in {"f", "H"} -> Idle(MoveTo(t))
        [] c = "J" -> Idle(Erase(t))
        [] c = "K" -> Idle(ClearLine(t, j))
        [] c = "P" -> Idle(DeleteChars(t, n, j))
        [] c = "s" -> Idle(Save(t))
        [] c = "u" -> Idle(Restore(t))
        [] c = "r" -> Idle(SetScroll(t))
        [] c = "?" -> [t EXCEPT !.state = "question"]
        [] OTHER   -> Idle(t)

(* _st_esc_question(), for the byte that ends the sequence.  The cursor     *)
(* stays drawn.                                                             *)
DoQuestion(t, c) ==
  IF c \in {"h", "l"}
  THEN CASE t.args[0] = 6 -> Idle([t EXCEPT !.origin = (c = "h")])
         [] t.args[0] = 7 -> Idle([t EXCEPT !.wrap = (c = "h")])
         [] OTHER         -> Idle(t)
  ELSE Idle(t)

(* Remove the cursor, run the handler, draw the cursor; each of the three   *)
(* may hang, and then the rest does not happen.                             *)
Redrawn(handled, j) == IF handled.hung THEN handled ELSE DrawCursor(handled, j)

(* What _st_esc_sq_bracket() and _st_esc_question() do with a final byte.   *)
Finish(t, c, j) ==
  IF t.state = "question" THEN DoQuestion(t, c)
  ELSE LET bare == RemoveCursor(t)
       IN  IF bare.hung THEN bare ELSE Redrawn(DoCommand(bare, c, j), j)

(* A digit that is added to an argument.  Nothing checks narg: behind       *)
(* args[] come carg, which nobody uses, and then the pointer to the state   *)
(* function, after which all bets are off.                                  *)
Grown(t, c) ==
  IF t.narg \in ArgIdx
  THEN [t EXCEPT !.args[t.narg] = Uint16(@ * 10 + DigitVal(c)), !.state = "command_arg"]
  ELSE [t EXCEPT !.strayed = TRUE, !.hung = @ \/ t.narg > MAX_COMMAND_ARGS,
                 !.state = "command_arg"]

(* A mistake: ret_state is saved after the switch to command_arg.          *)
Digit_RetAfterSwitch(t, c) == [Grown(t, c) EXCEPT !.ret = "command_arg"]

(* The digit that starts an argument also remembers where to come back to.  *)
Digit(t, c) ==
  IF t.state = "command_arg" THEN Grown(t, c) ELSE [Grown(t, c) EXCEPT !.ret = t.state]

-----------------------------------------------------------------------------
(* vt100_putc(), one action per parser state. *)

Awake(state) == ~term.hung /\ term.state = state

(* The junk a byte may meet; the screen of a terminal that does not stray   *)
(* never shows it.                                                          *)
Plain(c) == \E j \in Junk :
  LET bare == RemoveCursor(term)
  IN  term' = IF bare.hung THEN bare ELSE Redrawn(DoIdle(bare, c, j), j)

St_idle(c) == Awake("idle") /\ Plain(c)

St_escape(c) ==
  /\ Awake("escape")
  /\ \E j \in Junk :
       LET bare == RemoveCursor(term)
       IN  term' = IF bare.hung THEN bare ELSE Redrawn(DoEscape(bare, c, j), j)

(* The parser waits for an argument or for the final byte.                  *)
Waiting(state, c) ==
  /\ Awake(state)
  /\ \/ c \in Digits /\ term' = Digit(term, c)
     \/ c = ";" /\ UNCHANGED term
     \/ Final(c) /\ \E j \in Junk : term' = Finish(term, c, j)

St_sq_bracket(c) == Waiting("sq_bracket", c)
St_question(c)   == Waiting("question", c)

(* The parser is inside an argument.  The byte that ends the last argument  *)
(* also ends the sequence.                                                  *)
St_command_arg(c) ==
  /\ Awake("command_arg")
  /\ \/ c \in Digits /\ term' = Digit(term, c)
     \/ c = ";" /\ term' = [term EXCEPT !.narg = Uint8(@ + 1)]
     \/ /\ Final(c)
        /\ \E j \in Junk :
             term' = Finish([term EXCEPT !.narg = Uint8(@ + 1), !.state = term.ret], c, j)

(* ESC (, ESC ) and ESC # take one byte and ignore it.                      *)
St_one_byte(c) ==
  /\ ~term.hung
  /\ term.state \in {"left_br", "right_br", "hash"}
  /\ term' = Idle(term)

vt100_putc(c) ==
  \/ St_idle(c)
  \/ St_escape(c)
  \/ St_sq_bracket(c)
  \/ St_question(c)
  \/ St_command_arg(c)
  \/ St_one_byte(c)

(* vt100_init() *)
Init ==
  term = [state |-> "idle", ret |-> "idle", narg |-> 0, args |-> NoArgs,
          x |-> 0, y |-> 0, sx |-> 0, sy |-> 0, top |-> 0, bot |-> H,
          wrap |-> FALSE, origin |-> FALSE, under |-> "none",
          vram |-> [o \in Cells |-> "blank"], hung |-> FALSE, strayed |-> FALSE]

Next == \E c \in Alphabet : vt100_putc(c)

Spec == Init /\ [][Next]_term

-----------------------------------------------------------------------------
(* A host that knows the size of the screen and what vt100.c lacks: it      *)
(* addresses no cell beyond the screen, asks for no scroll region, does not *)
(* send a backspace in column 0 nor ESC M in the top row, and sends no more *)
(* arguments than args[] holds and none that is not an int16_t.  It may do  *)
(* everything else, in any order.                                           *)
PoliteCommand(t, c) ==
  LET n == IF t.narg > 0 THEN t.args[0] ELSE 1
  IN  /\ c = "B" => t.y + n < H
      /\ c = "C" => t.x + n < W
      /\ c \in {"f", "H"} =>
           t.narg = 0 \/ (t.narg = 2 /\ t.args[0] \in 1 .. H /\ t.args[1] \in 1 .. W)
      /\ c = "K" => t.narg = 0 \/ (t.narg = 1 /\ t.args[0] \in 0 .. 2)
      /\ c = "r" => t.narg # 2 \/ t.args[0] >= t.args[1]
      /\ c # "P"

Polite(t, c) ==
  /\ t.state = "idle" => /\ c = "BS" => t.x > 0
                         /\ c = "DEL" => ~(t.wrap /\ t.x = W - 1)
  /\ t.state = "escape" => (c = "M" => t.y > 0)
  /\ (c \in Digits /\ t.state \in {"sq_bracket", "question", "command_arg"})
       => t.narg < MAX_COMMAND_ARGS /\ t.args[t.narg] * 10 + DigitVal(c) < IntHalf
  /\ (c = ";" /\ t.state = "command_arg") => t.narg + 1 < MAX_COMMAND_ARGS
  /\ (t.state = "sq_bracket" /\ Final(c)) => PoliteCommand(t, c)
  /\ (t.state = "command_arg" /\ t.ret = "sq_bracket" /\ Final(c))
       => PoliteCommand([t EXCEPT !.narg = @ + 1], c)

PoliteNext == \E c \in Alphabet : Polite(term, c) /\ vt100_putc(c)

PoliteSpec == Init /\ [][PoliteNext]_term

-----------------------------------------------------------------------------
(* Every field of the terminal has its C type.                              *)
Terminal ==
  [state : States, ret : {"idle", "sq_bracket", "question"},
   narg : 0 .. ByteMod - 1, args : [ArgIdx -> 0 .. 2 * IntHalf - 1],
   x : -IntHalf .. IntHalf - 1, y : -IntHalf .. IntHalf - 1,
   sx : -IntHalf .. IntHalf - 1, sy : -IntHalf .. IntHalf - 1,
   top : -IntHalf .. IntHalf - 1, bot : -IntHalf .. IntHalf - 1,
   wrap : BOOLEAN, origin : BOOLEAN, under : Shown \cup {"none"},
   vram : [Cells -> Shown \cup {"none"}], hung : BOOLEAN, strayed : BOOLEAN]

TypeOK == term \in Terminal

(* Alive, inside its video RAM, the cursor and the saved cursor on the      *)
(* screen, the whole screen scrollable.                                     *)
Sound(t) ==
  /\ ~t.hung /\ ~t.strayed
  /\ t.x \in 0 .. W - 1 /\ t.y \in 0 .. H - 1
  /\ t.sx \in 0 .. W - 1 /\ t.sy \in 0 .. H - 1
  /\ t.top = 0 /\ t.bot = H

(* The one cell that shows the cursor is where the cursor is, and the text  *)
(* it covers is kept.                                                       *)
Single(t) ==
  /\ t.under \in Text \cup {"none"}
  /\ \A o \in Cells : /\ t.vram[o] \in Shown
                      /\ (t.vram[o] = "cursor") <=> (t.under # "none" /\ o = Offset(t))

(* With a polite host the firmware never hangs in one of vt100.c's for(;;), *)
(* writes only into the terminal's part of the video RAM and into args[],   *)
(* and keeps the cursor on the screen.                                      *)
StaysOnScreen == Sound(term)

(* With a polite host there is never a second cursor left behind, nor a     *)
(* character lost under one.                                                *)
OneCursor == Single(term)

-----------------------------------------------------------------------------
(* The text of the page: what the video RAM holds with the cursor lifted.   *)
TextAt(t, o) == IF t.under # "none" /\ o = Offset(t) THEN t.under ELSE t.vram[o]

PageOf(t) == [r \in 0 .. H - 1 |-> [c \in 0 .. W - 1 |-> TextAt(t, r * W + c)]]

View(t) ==
  [page |-> PageOf(t), x |-> t.x, y |-> t.y, saved |-> <<t.sx, t.sy>>, wrap |-> t.wrap]

(* What the host has sent of a control sequence.                            *)
InSequence(t) == t.state \in {"sq_bracket", "question", "command_arg"}

Mode(t) ==
  CASE t.state = "idle"   -> "text"
    [] t.state = "escape" -> "escape"
    [] t.state \in {"left_br", "right_br", "hash"} -> "charset"
    [] t.state = "sq_bracket" -> "sequence"
    [] t.state = "question"   -> "private"
    [] OTHER -> IF t.ret = "question" THEN "private" ELSE "sequence"

Argc(t) ==
  IF ~InSequence(t) THEN 0
  ELSE IF t.state = "command_arg" THEN t.narg + 1 ELSE t.narg

Args(t) == IF InSequence(t) THEN t.args ELSE NoArgs

Screen == INSTANCE VtScreen WITH
  screen <- View(term), mode <- Mode(term), argc <- Argc(term), args <- Args(term),
  open <- term.state = "command_arg"

(* Every byte of a polite host does to the page, the cursor and the pending *)
(* sequence what VtScreen says of that very byte: where each motion ends,   *)
(* which cells each erasure blanks, when the page scrolls and what becomes  *)
(* of the column, however the bytes of the sequence arrived.  Lifting and   *)
(* drawing the cursor change nothing on the page.                           *)
ImplementsScreen ==
  /\ Screen!Init
  /\ [][\A c \in Alphabet : Polite(term, c) /\ vt100_putc(c) => Screen!Receive(c)]_term
=============================================================================
