---------------------------- MODULE Vt100_proofs ----------------------------
(***************************************************************************)
(* With a polite host the terminal emulator stays on its screen, never     *)
(* hangs and never leaves a cursor behind, and it implements VtScreen, for *)
(* every size of the screen.                                               *)
(*                                                                         *)
(* Every handler of a byte lifts the cursor, works on the bare page and    *)
(* draws the cursor again.  So the argument goes through the bare page:    *)
(* each operator the handlers are composed of takes a bare, sound terminal *)
(* to a bare, sound terminal.                                              *)
(***************************************************************************)
EXTENDS Vt100, TLAPS

(* A sound terminal whose page shows text only: the cursor is lifted, and   *)
(* the parser is not inside an argument.                                    *)
Bare(t) ==
  /\ t \in Terminal
  /\ Sound(t)
  /\ t.under = "none"
  /\ \A o \in Cells : t.vram[o] \in Text
  /\ \A i \in ArgIdx : t.args[i] < IntHalf
  /\ t.state # "command_arg"

(* Products by W that the code's offsets consist of.                        *)
LEMMA Products ==
  /\ W \in Nat /\ H \in Nat /\ Size \in Nat /\ Size = H * W
  /\ \A a, b \in Nat : a <= b => a * W <= b * W
  /\ \A a \in Nat : a * W \in Nat /\ (a + 1) * W = a * W + W /\ W * a = a * W
  /\ (H - 1) * W + W = Size
BY ScreenAssumption DEF ScreenAssumption, Size

(* Integers in range are what they are in 16 bits, too.                     *)
LEMMA InRange ==
  /\ \A i \in -IntHalf .. IntHalf - 1 : Int16(i) = i
  /\ \A i \in 0 .. 2 * IntHalf - 1 : Uint16(i) = i
  /\ \A i \in Int : Uint16(i) \in 0 .. 2 * IntHalf - 1
<1>1. IntHalf \in Nat \ {0}
  BY ScreenAssumption DEF ScreenAssumption
<1>2. \A i \in 0 .. 2 * IntHalf - 1 : i % (2 * IntHalf) = i
  BY <1>1
<1>3. \A i \in Int : i % (2 * IntHalf) \in 0 .. 2 * IntHalf - 1
  BY <1>1
<1>4. ASSUME NEW i \in -IntHalf .. IntHalf - 1 PROVE Int16(i) = i
  <2>1. i + IntHalf \in 0 .. 2 * IntHalf - 1
    BY <1>1
  <2> QED BY <1>1, <1>2, <2>1 DEF Int16
<1> QED BY <1>2, <1>3, <1>4 DEF Uint16

(* A cursor on the screen is at a cell of the video RAM.                    *)
LEMMA OffsetInCells ==
  ASSUME NEW t, t.x \in 0 .. W - 1, t.y \in 0 .. H - 1
  PROVE  Offset(t) \in Cells
<1>1. t.y \in Nat /\ t.x \in Nat /\ H - 1 \in Nat
  BY Products
<1>2. t.y * W <= (H - 1) * W
  BY <1>1, Products
<1>3. t.y * W \in Nat /\ (H - 1) * W \in Nat
  BY <1>1, Products
<1> QED BY <1>1, <1>2, <1>3, Products DEF Offset, Cells

(* Blanking cells of the screen.                                            *)
LEMMA BlankBare ==
  ASSUME NEW t, Bare(t), NEW from \in Nat, NEW to \in 0 .. Size
  PROVE  Bare(Blank(t, from, to))
<1> DEFINE b == Blank(t, from, to)
<1>0. /\ t.strayed = FALSE /\ t.hung = FALSE
      /\ (from < to /\ (from < 0 \/ to > Size)) = FALSE
      /\ (to > Size) = FALSE
  BY Products DEF Bare, Sound, Terminal
<1>1. b = [t EXCEPT !.vram = [o \in Cells |-> IF from <= o /\ o < to THEN "blank" ELSE t.vram[o]],
                    !.strayed = FALSE, !.hung = FALSE]
  BY <1>0 DEF Blank
<1>2. b.vram \in [Cells -> Text]
  BY <1>1 DEF Bare, Terminal, Text
<1>3. b \in Terminal
  BY <1>1, <1>2, ZenonT(60) DEF Bare, Terminal, Text, Shown
<1> QED BY <1>1, <1>2, <1>3, ZenonT(60) DEF Bare, Sound, Terminal

(* Writing a cell through the video RAM, at the cursor.                     *)
LEMMA PokeBare ==
  ASSUME NEW t, Bare(t), NEW cell \in Text
  PROVE  LET p == [Poke(t, Offset(t), cell) EXCEPT !.under = "none",
                                                   !.hung  = @ \/ Offset(t) >= Size]
         IN  /\ Bare(p) /\ p.x = t.x /\ p.wrap = t.wrap
             /\ p = [t EXCEPT !.vram = [t.vram EXCEPT ![Offset(t)] = cell],
                              !.strayed = FALSE, !.under = "none", !.hung = FALSE]
<1> DEFINE o == Offset(t)
           p == [Poke(t, o, cell) EXCEPT !.under = "none", !.hung = @ \/ o >= Size]
           q == [t EXCEPT !.vram = [t.vram EXCEPT ![o] = cell], !.strayed = FALSE,
                          !.under = "none", !.hung = FALSE]
<1>1. o \in Cells /\ (o >= Size) = FALSE
  <2>1. o \in Cells
    BY OffsetInCells DEF Bare, Sound
  <2> QED BY <2>1, Products DEF Cells
<1>2. t.hung = FALSE /\ t.strayed = FALSE /\ t \in Terminal
  BY DEF Bare, Sound, Terminal
<1> HIDE DEF o
<1>3. Poke(t, o, cell) = [t EXCEPT !.vram = [t.vram EXCEPT ![o] = cell], !.strayed = FALSE]
  BY <1>1, <1>2 DEF Poke
<1>4. p = q
  <2>1. Poke(t, o, cell).hung = FALSE
    BY <1>2, <1>3 DEF Terminal
  <2>2. p = [Poke(t, o, cell) EXCEPT !.under = "none", !.hung = FALSE]
    BY <1>1, <2>1
  <2> QED BY <1>3, <2>2
<1>5. [t.vram EXCEPT ![o] = cell] \in [Cells -> Text]
  BY <1>1 DEF Bare, Terminal, Text
<1>6. q \in Terminal
  BY <1>2, <1>5 DEF Terminal, Text, Shown
<1>7. Bare(q) /\ q.x = t.x /\ q.wrap = t.wrap
  BY <1>2, <1>5, <1>6 DEF Bare, Sound, Terminal
<1> QED BY <1>4, <1>7 DEF o

(* Clearing rows of the screen.                                             *)
LEMMA ClearLinesIs ==
  ASSUME NEW t, Bare(t), NEW a \in 0 .. H - 1, NEW b \in a .. H - 1
  PROVE  /\ ClearLines(t, a, b) = Blank(t, a * W, (b + 1) * W)
         /\ a * W \in Nat /\ (b + 1) * W \in 0 .. Size
<1>1. Uint16(a) = a /\ Uint16(b) = b
  <2>1. a \in 0 .. 2 * IntHalf - 1 /\ b \in 0 .. 2 * IntHalf - 1
    BY ScreenAssumption DEF ScreenAssumption
  <2> QED BY <2>1, InRange
<1>2. a \in Nat /\ b \in Nat /\ a <= b + 1 /\ b + 1 <= H /\ b + 1 - a \in Nat
  BY Products
<1>3. /\ a * W \in Nat /\ (b + 1) * W \in Nat /\ (b - a + 1) * W \in Nat
      /\ a * W + (b - a + 1) * W = (b + 1) * W
      /\ (b + 1) * W <= Size
  <2>1. a * W \in Nat /\ (b + 1) * W \in Nat /\ (b + 1) * W <= H * W
    BY <1>2, Products
  <2>2. b - a + 1 \in Nat /\ b - a + 1 = (b + 1) - a
    BY <1>2
  <2>3. (b - a + 1) * W \in Nat
    BY <2>2, Products
  <2>4. a * W + (b - a + 1) * W = (b + 1) * W
    BY <1>2, Products
  <2> QED BY <2>1, <2>3, <2>4, Products
<1> DEFINE n == (b - a + 1) * W
           s == a * W
<1>4. ~(n - s > Size)
  <2>1. n <= Size
    <3>1. b - a + 1 \in Nat /\ b - a + 1 <= H
      BY <1>2, Products
    <3> QED BY <3>1, Products
  <2> QED BY <1>3, <2>1, Products
<1>5. ClearLines(t, a, b) = Blank(t, s, s + n)
  BY <1>1, <1>3, <1>4 DEF ClearLines, AtLeast0
<1>6. s \in Nat /\ s + n \in 0 .. Size
  BY <1>3, Products
<1> QED BY <1>3, <1>5, <1>6

LEMMA ClearLinesBare ==
  ASSUME NEW t, Bare(t), NEW a \in 0 .. H - 1, NEW b \in a .. H - 1
  PROVE  Bare(ClearLines(t, a, b))
BY ClearLinesIs, BlankBare

(* Scrolling by one row.                                                    *)
MovedUp(t, j) ==
  [o \in Cells |-> IF 0 <= o /\ o < 0 + W * (H - 1)
                   THEN IF o + W * 1 \in Cells THEN t.vram[o + W * 1] ELSE j.cell
                   ELSE t.vram[o]]

LEMMA ScrollIs ==
  ASSUME NEW t, Bare(t), NEW j \in Junk
  PROVE  \E m : /\ m = [t EXCEPT !.vram = MovedUp(t, j), !.strayed = FALSE, !.hung = FALSE]
               /\ Bare(m) /\ Scroll(t, 1, j) = ClearLines(m, H - 1, H - 1)
<1> DEFINE count == W * (H - 1)
           v == MovedUp(t, j)
           moved == [t EXCEPT !.vram = v, !.strayed = FALSE, !.hung = FALSE]
<1>1. /\ count \in Nat /\ count + W = Size /\ W \in Nat
      /\ W * t.top = 0 /\ AtLeast0(count) = count
      /\ t.bot - 1 = H - 1 /\ H - 1 \in 0 .. H - 1 /\ H \in Nat
  BY Products, ScreenAssumption DEF ScreenAssumption, Bare, Sound, AtLeast0
<1>2. /\ t.strayed = FALSE /\ t.hung = FALSE
      /\ (count > 0 /\ (0 < 0 \/ 0 + count > Size)) = FALSE
      /\ (0 + count > Size) = FALSE
  BY <1>1 DEF Bare, Sound, Terminal
<1>3. Scroll(t, 1, j) = ClearLines(moved, H - 1, H - 1)
  <2>1. moved.hung = FALSE
    BY DEF Bare, Terminal
  <2>2. ~(1 <= 0)
    OBVIOUS
  <2> QED BY <1>1, <1>2, <2>1, <2>2 DEF Scroll, MovedUp
<1>4. \A o \in Cells : v[o] \in Text
  <2> SUFFICES ASSUME NEW o \in Cells PROVE v[o] \in Text
    OBVIOUS
  <2>1. CASE 0 <= o /\ o < 0 + count
    <3>1. o + W * 1 \in Cells
      BY <2>1, <1>1 DEF Cells
    <3> QED BY <2>1, <3>1 DEF Bare, MovedUp
  <2>2. CASE ~(0 <= o /\ o < 0 + count)
    BY <2>2 DEF Bare, MovedUp
  <2> QED BY <2>1, <2>2
<1>5. v \in [Cells -> Text]
  BY <1>4 DEF MovedUp
<1>6. Bare(moved)
  <2>1. moved \in Terminal
    BY <1>5 DEF Bare, Terminal, Text, Shown
  <2>2. moved.vram = v /\ moved.strayed = FALSE /\ moved.hung = FALSE
    BY DEF Bare, Terminal
  <2> QED BY <1>4, <2>1, <2>2, ZenonT(60) DEF Bare, Sound, Terminal
<1> QED BY <1>3, <1>6

LEMMA ScrollBare ==
  ASSUME NEW t, Bare(t), NEW j \in Junk
  PROVE  Bare(Scroll(t, 1, j))
<1>1. H - 1 \in 0 .. H - 1 /\ H - 1 \in H - 1 .. H - 1
  BY ScreenAssumption DEF ScreenAssumption
<1>2. PICK m : Bare(m) /\ Scroll(t, 1, j) = ClearLines(m, H - 1, H - 1)
  BY ScrollIs
<1> QED BY <1>1, <1>2, ClearLinesBare

(* Motions of the cursor keep a terminal bare as long as they end on the    *)
(* screen.                                                                  *)
LEMMA ColumnBare ==
  ASSUME NEW t, Bare(t), NEW px \in 0 .. W - 1
  PROVE  Bare([t EXCEPT !.x = px]) /\ [t EXCEPT !.x = px].x = px
<1>1. px \in -IntHalf .. IntHalf - 1
  BY ScreenAssumption DEF ScreenAssumption
<1>2. [t EXCEPT !.x = px] \in Terminal
  BY <1>1 DEF Bare, Terminal
<1> QED BY <1>2 DEF Bare, Sound, Terminal

LEMMA RowBare ==
  ASSUME NEW t, Bare(t), NEW py \in 0 .. H - 1
  PROVE  Bare([t EXCEPT !.y = py])
<1>1. py \in -IntHalf .. IntHalf - 1
  BY ScreenAssumption DEF ScreenAssumption
<1>2. [t EXCEPT !.y = py] \in Terminal
  BY <1>1 DEF Bare, Terminal
<1> QED BY <1>2 DEF Bare, Sound, Terminal

(* One row up or down, or none.                                             *)
LEMMA MoveRowsBare ==
  ASSUME NEW t, Bare(t), NEW j \in Junk, NEW down \in -1 .. 1
  PROVE  Bare(MoveRows(t, down, j)) /\ (down = 0 => MoveRows(t, down, j) = t)
<1> DEFINE ny == t.y + down
<1>1. /\ H \in Nat /\ IntHalf \in Nat /\ IntHalf > H
      /\ t.y \in 0 .. H - 1 /\ t.top = 0 /\ t.bot = H
  BY ScreenAssumption DEF ScreenAssumption, Bare, Sound
<1>2. Int16(t.y + down) = ny /\ ny \in -1 .. H
  <2>1. ny \in -1 .. H /\ ny \in -IntHalf .. IntHalf - 1
    BY <1>1
  <2> QED BY <2>1, InRange
<1>3. CASE down = 0
  BY <1>3 DEF MoveRows
<1>4. CASE down # 0 /\ ny >= H
  <2>1. (ny - H) + 1 = 1 /\ H - 1 \in 0 .. H - 1
    BY <1>1, <1>2, <1>4
  <2>2. MoveRows(t, down, j) = Scroll([t EXCEPT !.y = H - 1], 1, j)
    BY <1>1, <1>2, <1>4, <2>1 DEF MoveRows
  <2> QED BY <1>4, <2>1, <2>2, RowBare, ScrollBare
<1>5. CASE down # 0 /\ ny < H /\ ny < 0
  <2>1. MoveRows(t, down, j) = [t EXCEPT !.y = 0]
    BY <1>1, <1>2, <1>5 DEF MoveRows
  <2> QED BY <1>1, <1>5, <2>1, RowBare
<1>6. CASE down # 0 /\ ny < H /\ ny >= 0
  <2>1. MoveRows(t, down, j) = [t EXCEPT !.y = ny]
    BY <1>1, <1>2, <1>6 DEF MoveRows
  <2>2. ny \in 0 .. H - 1
    BY <1>1, <1>2, <1>6
  <2> QED BY <1>6, <2>1, <2>2, RowBare
<1> QED BY <1>1, <1>2, <1>3, <1>4, <1>5, <1>6

(* One step to the left, to the right, up or down, the wrap at the end of a *)
(* line included.                                                           *)
LEMMA MoveBare ==
  ASSUME NEW t, Bare(t), NEW j \in Junk,
         NEW dx \in -1 .. 1, NEW dy \in -1 .. 1, dx = 0 \/ dy = 0, t.x + dx >= 0
  PROVE  /\ Bare(Move(t, dx, dy, j))
         /\ dy = 0 /\ t.x + dx < W => Move(t, dx, dy, j).x = t.x + dx
         /\ dy = 0 /\ t.x + dx >= W /\ ~t.wrap => Move(t, dx, dy, j).x = W - 1
<1> DEFINE nx == t.x + dx
<1>1. /\ W \in Nat /\ IntHalf \in Nat /\ W >= 2 /\ IntHalf > W
      /\ t.x \in 0 .. W - 1 /\ t.wrap \in BOOLEAN
  BY ScreenAssumption DEF ScreenAssumption, Bare, Sound, Terminal
<1>2. Int16(t.x + dx) = nx /\ nx \in 0 .. W
  <2>1. nx \in 0 .. W /\ nx \in -IntHalf .. IntHalf - 1
    BY <1>1
  <2> QED BY <2>1, InRange
<1>3. Move(t, dx, dy, j) = MoveRows([t EXCEPT !.x = Column(t, nx)], dy + RowsAdded(t, nx), j)
  BY <1>2 DEF Move
<1>4. /\ Column(t, nx) \in 0 .. W - 1 /\ dy + RowsAdded(t, nx) \in -1 .. 1
      /\ nx < W => Column(t, nx) = nx /\ RowsAdded(t, nx) = 0
      /\ nx >= W /\ ~t.wrap => Column(t, nx) = W - 1 /\ RowsAdded(t, nx) = 0
  <2>1. CASE nx < W
    <3>1. Column(t, nx) = nx /\ RowsAdded(t, nx) = 0
      BY <1>1, <1>2, <2>1 DEF Column, RowsAdded
    <3> QED BY <1>1, <1>2, <2>1, <3>1
  <2>2. CASE nx >= W /\ ~t.wrap
    <3>1. Column(t, nx) = W - 1 /\ RowsAdded(t, nx) = 0
      BY <1>1, <1>2, <2>2 DEF Column, RowsAdded
    <3> QED BY <1>1, <1>2, <2>2, <3>1
  <2>3. CASE nx >= W /\ t.wrap
    <3>1. nx = W /\ dy = 0 /\ W % W = 0 /\ W \div W = 1
      BY <1>1, <1>2, <2>3
    <3>2. nx % W = 0 /\ nx \div W = 1
      BY <3>1
    <3>3. Column(t, nx) = nx % W /\ RowsAdded(t, nx) = nx \div W
      BY <1>1, <1>2, <2>3 DEF Column, RowsAdded
    <3> QED BY <1>1, <2>3, <3>1, <3>2, <3>3
  <2> QED BY <1>1, <1>2, <2>1, <2>2, <2>3
<1>5. Bare([t EXCEPT !.x = Column(t, nx)]) /\ [t EXCEPT !.x = Column(t, nx)].x = Column(t, nx)
  BY <1>4, ColumnBare
<1> HIDE DEF nx
<1>7. Bare(Move(t, dx, dy, j))
  BY <1>3, <1>4, <1>5, MoveRowsBare
<1>8. dy + RowsAdded(t, nx) = 0 => Move(t, dx, dy, j).x = Column(t, nx)
  BY <1>3, <1>4, <1>5, MoveRowsBare
<1> QED BY <1>1, <1>4, <1>7, <1>8 DEF nx
(* A character at the cursor.                                               *)
LEMMA PutCellBare ==
  ASSUME NEW t, Bare(t), NEW cell \in Text, NEW j \in Junk
  PROVE  /\ Bare(PutCell(t, cell, j))
         /\ ~(t.wrap /\ t.x = W - 1) => PutCell(t, cell, j).x >= 1
<1> DEFINE p == [Poke(t, Offset(t), cell) EXCEPT !.under = "none",
                                                 !.hung  = @ \/ Offset(t) >= Size]
<1>1. Bare(p) /\ p.x = t.x /\ p.wrap = t.wrap
  BY PokeBare
<1>2. PutCell(t, cell, j) = IF p.hung THEN p ELSE Move(p, 1, 0, j)
  BY DEF PutCell
<1> HIDE DEF p
<1>3. PutCell(t, cell, j) = Move(p, 1, 0, j)
  BY <1>1, <1>2 DEF Bare, Sound
<1>4. p.x \in 0 .. W - 1 /\ W \in Nat /\ W >= 2 /\ 1 \in -1 .. 1 /\ 0 \in -1 .. 1
  BY <1>1, ScreenAssumption DEF ScreenAssumption, Bare, Sound
<1>5. /\ Bare(Move(p, 1, 0, j))
      /\ p.x + 1 < W => Move(p, 1, 0, j).x = p.x + 1
      /\ p.x + 1 >= W /\ ~p.wrap => Move(p, 1, 0, j).x = W - 1
  BY <1>1, <1>4, MoveBare
<1> QED BY <1>1, <1>3, <1>4, <1>5

LEMMA PutBlankBare ==
  ASSUME NEW t, Bare(t), NEW j \in Junk
  PROVE  Bare(PutBlank(t, j))
BY PutCellBare DEF PutBlank, Text

LEMMA TabBare ==
  ASSUME NEW t, Bare(t), NEW j \in Junk
  PROVE  Bare(Tab(t, j))
<1> DEFINE toPut   == IF t.x >= 0 THEN 4 - (t.x % 4) ELSE 4 + ((-t.x) % 4)
           Two(s)  == PutBlank(PutBlank(s, j), j)
           odd     == IF toPut % 2 = 1 THEN PutBlank(t, j) ELSE t
           evened  == IF toPut % 4 >= 2 THEN Two(odd) ELSE odd
<1>1. ASSUME NEW s, Bare(s) PROVE Bare(Two(s))
  BY <1>1, PutBlankBare
<1>2. Tab(t, j) = IF toPut >= 4 THEN Two(Two(evened)) ELSE evened
  BY DEF Tab
<1> HIDE DEF toPut
<1>3. Bare(odd)
  BY PutBlankBare
<1> HIDE DEF odd, Two
<1>4. Bare(evened)
  BY <1>1, <1>3
<1> HIDE DEF evened
<1> QED BY <1>1, <1>2, <1>4
(* The parser's own moves.                                                  *)
LEMMA ParserBare ==
  ASSUME NEW t, Bare(t), NEW state \in States \ {"command_arg"}
  PROVE  Bare([t EXCEPT !.state = state]) /\ Bare(Begin(t, state))
<1>1. [t EXCEPT !.state = state] \in Terminal
  BY DEF Bare, Terminal
<1>2. /\ NoArgs \in [ArgIdx -> 0 .. 2 * IntHalf - 1] /\ 0 \in 0 .. ByteMod - 1
      /\ 0 < IntHalf
  BY ScreenAssumption DEF ScreenAssumption, NoArgs, ArgIdx
<1>3. Begin(t, state) \in Terminal
  BY <1>2 DEF Bare, Terminal, Begin
<1>4. \A i \in ArgIdx : NoArgs[i] < IntHalf
  BY <1>2 DEF NoArgs
<1>5. Bare([t EXCEPT !.state = state])
  BY <1>1 DEF Bare, Sound, Terminal
<1>6. Bare(Begin(t, state))
  BY <1>3, <1>4 DEF Bare, Sound, Terminal, Begin
<1> QED BY <1>5, <1>6

LEMMA IdleBare ==
  ASSUME NEW t, Bare(t)
  PROVE  Bare(Idle(t))
BY ParserBare DEF Idle, States

LEMMA SaveRestoreBare ==
  ASSUME NEW t, Bare(t)
  PROVE  Bare(Save(t)) /\ Bare(Restore(t)) /\ Bare(ResetScroll(t)) /\ Bare(Reset(t))
<1>1. H \in -IntHalf .. IntHalf - 1 /\ 0 \in -IntHalf .. IntHalf - 1
      /\ 0 \in 0 .. W - 1 /\ 0 \in 0 .. H - 1 /\ 0 \in 0 .. ByteMod - 1
  BY ScreenAssumption DEF ScreenAssumption
<1>2. Save(t) \in Terminal
  BY DEF Bare, Terminal, Save
<1>3. Restore(t) \in Terminal
  BY DEF Bare, Terminal, Restore
<1>4. ResetScroll(t) \in Terminal
  BY <1>1 DEF Bare, Terminal, ResetScroll
<1>5. Reset(t) \in Terminal
  BY <1>1, <1>4 DEF Bare, Terminal, Reset, States
<1>6. Bare(Save(t))
  BY <1>2 DEF Bare, Sound, Terminal, Save
<1>7. Bare(Restore(t))
  BY <1>3 DEF Bare, Sound, Terminal, Restore
<1>8. Bare(ResetScroll(t))
  BY <1>4 DEF Bare, Sound, Terminal, ResetScroll
<1>9. Bare(Reset(t))
  BY <1>1, <1>5, <1>8 DEF Bare, Sound, Terminal, Reset
<1> QED BY <1>6, <1>7, <1>8, <1>9
(* A character of plain text.                                               *)
LEMMA DoIdleBare ==
  ASSUME NEW t, Bare(t), NEW j \in Junk, NEW c,
         c = "BS" => t.x > 0, c = "DEL" => ~(t.wrap /\ t.x = W - 1)
  PROVE  Bare(DoIdle(t, c, j))
<1>0. /\ t.x \in 0 .. W - 1 /\ W \in Nat /\ 0 \in 0 .. W - 1
      /\ 0 \in -1 .. 1 /\ 1 \in -1 .. 1 /\ -1 \in -1 .. 1
  BY ScreenAssumption DEF ScreenAssumption, Bare, Sound
<1>1. CASE c = "LF"
  <2>1. Bare(Move(t, 0, 1, j))
    BY <1>0, MoveBare
  <2>2. DoIdle(t, c, j) = [Move(t, 0, 1, j) EXCEPT !.x = 0]
    BY <1>1 DEF DoIdle
  <2> QED BY <1>0, <2>1, <2>2, ColumnBare
<1>2. CASE c = "CR"
  BY <1>0, <1>2, ColumnBare DEF DoIdle
<1>3. CASE c = "BS"
  <2>1. t.x + -1 >= 0
    BY <1>0, <1>3
  <2>2. Bare(Move(t, -1, 0, j))
    BY <1>0, <2>1, MoveBare
  <2> QED BY <1>3, <2>2 DEF DoIdle
<1>4. CASE c = "DEL"
  <2> DEFINE put == PutCell(t, "blank", j)
  <2>1. Bare(put) /\ put.x >= 1
    BY <1>4, PutCellBare DEF Text
  <2>2. DoIdle(t, c, j) = IF put.hung THEN put ELSE Move(put, -1, 0, j)
    BY <1>4 DEF DoIdle
  <2> HIDE DEF put
  <2>3. DoIdle(t, c, j) = Move(put, -1, 0, j)
    BY <2>1, <2>2 DEF Bare, Sound
  <2>4. put.x + -1 >= 0
    BY <2>1 DEF Bare, Sound
  <2> QED BY <1>0, <2>1, <2>3, <2>4, MoveBare
<1>5. CASE c = "TAB"
  BY <1>5, TabBare DEF DoIdle
<1>6. CASE c \in {"ENQ", "BEL"}
  BY <1>6 DEF DoIdle
<1>7. CASE c = "ESC"
  BY <1>7, ParserBare DEF DoIdle, States
<1>8. CASE c = " "
  BY <1>8, PutCellBare DEF DoIdle, Text
<1>9. CASE c \notin {"LF", "CR", "BS", "DEL", "TAB", "ENQ", "BEL", "ESC", " "}
  BY <1>9, PutCellBare DEF DoIdle, Text
<1> QED BY <1>1, <1>2, <1>3, <1>4, <1>5, <1>6, <1>7, <1>8, <1>9

(* The byte after ESC.                                                      *)
LEMMA DoEscapeBare ==
  ASSUME NEW t, Bare(t), NEW j \in Junk, NEW c
  PROVE  Bare(DoEscape(t, c, j))
<1>0. /\ t.x \in 0 .. W - 1 /\ W \in Nat /\ 0 \in 0 .. W - 1
      /\ 0 \in -1 .. 1 /\ 1 \in -1 .. 1 /\ -1 \in -1 .. 1 /\ t.x + 0 >= 0
  BY ScreenAssumption DEF ScreenAssumption, Bare, Sound
<1>1. CASE c \in {"[", "(", ")", "#"}
  BY <1>1, ParserBare DEF DoEscape, States
<1>2. Bare(Move(t, 0, 1, j)) /\ Bare(Move(t, 0, -1, j))
  <2>1. Bare(Move(t, 0, 1, j))
    BY <1>0, MoveBare
  <2>2. Bare(Move(t, 0, -1, j))
    BY <1>0, MoveBare
  <2> QED BY <2>1, <2>2
<1>3. CASE c \in {"D", "M"}
  BY <1>2, <1>3, IdleBare DEF DoEscape
<1>4. CASE c = "E"
  <2>1. Bare([Move(t, 0, 1, j) EXCEPT !.x = 0])
    BY <1>0, <1>2, ColumnBare
  <2>2. DoEscape(t, c, j) = Idle([Move(t, 0, 1, j) EXCEPT !.x = 0])
    BY <1>4 DEF DoEscape
  <2> QED BY <2>1, <2>2, IdleBare
<1>5. CASE c \in {"7", "s", "8", "u", "c"}
  BY <1>5, SaveRestoreBare, IdleBare DEF DoEscape
<1>6. CASE c \notin {"[", "(", ")", "#", "D", "M", "E", "7", "s", "8", "u", "c"}
  BY <1>6, IdleBare DEF DoEscape
<1> QED BY <1>1, <1>3, <1>4, <1>5, <1>6
(* The cursor motions, for arguments that stay on the screen.               *)
LEMMA MotionsBare ==
  ASSUME NEW t, Bare(t), NEW n \in 0 .. IntHalf - 1
  PROVE  /\ Bare(Up(t, n)) /\ Bare(Left(t, n))
         /\ t.y + n < H => Bare(Down(t, n))
         /\ t.x + n < W => Bare(Right(t, n))
<1>1. /\ W \in Nat /\ H \in Nat /\ IntHalf \in Nat /\ IntHalf > W /\ IntHalf > H
      /\ t.x \in 0 .. W - 1 /\ t.y \in 0 .. H - 1 /\ 0 \in 0 .. W - 1 /\ 0 \in 0 .. H - 1
  BY ScreenAssumption DEF ScreenAssumption, Bare, Sound
<1>2. Int16(t.y - n) = t.y - n /\ Int16(t.x - n) = t.x - n
  <2>1. t.y - n \in -IntHalf .. IntHalf - 1 /\ t.x - n \in -IntHalf .. IntHalf - 1
    BY <1>1
  <2> QED BY <2>1, InRange
<1>3. Bare(Up(t, n))
  <2>1. Up(t, n) = [t EXCEPT !.y = IF t.y - n < 0 THEN 0 ELSE t.y - n]
    BY <1>2 DEF Up
  <2>2. (IF t.y - n < 0 THEN 0 ELSE t.y - n) \in 0 .. H - 1
    BY <1>1
  <2> QED BY <2>1, <2>2, RowBare
<1>4. Bare(Left(t, n))
  <2>1. Left(t, n) = [t EXCEPT !.x = IF t.x - n < 0 THEN 0 ELSE t.x - n]
    BY <1>2 DEF Left
  <2>2. (IF t.x - n < 0 THEN 0 ELSE t.x - n) \in 0 .. W - 1
    BY <1>1
  <2> QED BY <2>1, <2>2, ColumnBare
<1>5. ASSUME t.y + n < H PROVE Bare(Down(t, n))
  <2>1. t.y + n \in 0 .. H - 1 /\ t.y + n \in -IntHalf .. IntHalf - 1
    BY <1>1, <1>5
  <2>2. Int16(t.y + n) = t.y + n /\ ~(t.y + n > H)
    BY <1>1, <2>1, InRange
  <2>3. Down(t, n) = [t EXCEPT !.y = t.y + n]
    BY <2>2 DEF Down
  <2> QED BY <2>1, <2>3, RowBare
<1>6. ASSUME t.x + n < W PROVE Bare(Right(t, n))
  <2>1. t.x + n \in 0 .. W - 1 /\ t.x + n \in -IntHalf .. IntHalf - 1
    BY <1>1, <1>6
  <2>2. Int16(t.x + n) = t.x + n /\ ~(t.x + n > W)
    BY <1>1, <2>1, InRange
  <2>3. Right(t, n) = [t EXCEPT !.x = t.x + n]
    BY <2>2 DEF Right
  <2> QED BY <2>1, <2>3, ColumnBare
<1> QED BY <1>3, <1>4, <1>5, <1>6

(* A cursor address counted from one.                                       *)
Addressed(t) ==
  t.narg = 0 \/ (t.narg = 2 /\ t.args[0] \in 1 .. H /\ t.args[1] \in 1 .. W)

AddressX(t) == IF t.narg = 0 THEN 0 ELSE t.args[1] - 1
AddressY(t) == IF t.narg = 0 THEN 0 ELSE t.args[0] - 1

Placed(t, x, y) == [[t EXCEPT !.x = x] EXCEPT !.y = y]

LEMMA MoveToIs ==
  ASSUME NEW t, Bare(t), Addressed(t), NEW x, x = AddressX(t), NEW y, y = AddressY(t)
  PROVE  /\ x \in 0 .. W - 1 /\ y \in 0 .. H - 1
         /\ MoveTo(t) = Placed(t, x, y)
<1>1. /\ W \in Nat /\ H \in Nat /\ IntHalf \in Nat /\ IntHalf > W /\ IntHalf > H /\ W >= 2 /\ H >= 1
      /\ t.top = 0 /\ t.bot = H
  BY ScreenAssumption DEF ScreenAssumption, Bare, Sound
<1>2. /\ x \in 0 .. W - 1 /\ y \in 0 .. H - 1
      /\ x \in -IntHalf .. IntHalf - 1 /\ y \in -IntHalf .. IntHalf - 1
  BY <1>1 DEF Addressed, AddressX, AddressY
<1>3. /\ (IF t.narg >= 1 THEN Int16(t.args[1] - 1) ELSE 0) = x
      /\ (IF t.narg = 2 THEN Int16(t.args[0] - 1) ELSE 0) = y
      /\ Int16(y + t.top) = y
  <2>1. y + t.top = y
    BY <1>1, <1>2
  <2>2. Int16(x) = x /\ Int16(y) = y
    BY <1>2, InRange
  <2>3. CASE t.narg = 0
    BY <2>1, <2>2, <2>3 DEF AddressX, AddressY
  <2>4. CASE t.narg = 2
    BY <2>1, <2>2, <2>4 DEF AddressX, AddressY
  <2> QED BY <2>3, <2>4 DEF Addressed
<1>4. MoveTo(t) = [t EXCEPT !.x = x, !.y = y]
  <2>1. ~(y >= t.bot) /\ ~(x > W) /\ ~(y > H)
    BY <1>1, <1>2
  <2> QED BY <1>3, <2>1 DEF MoveTo
<1> QED BY <1>2, <1>4 DEF Placed

LEMMA MoveToBare ==
  ASSUME NEW t, Bare(t), Addressed(t)
  PROVE  Bare(MoveTo(t))
<1>1. PICK x, y : x = AddressX(t) /\ y = AddressY(t)
  OBVIOUS
<1>2. /\ x \in 0 .. W - 1 /\ y \in 0 .. H - 1
      /\ MoveTo(t) = Placed(t, x, y)
  BY <1>1, MoveToIs
<1>3. Bare([t EXCEPT !.x = x])
  BY <1>2, ColumnBare
<1>4. Bare([[t EXCEPT !.x = x] EXCEPT !.y = y])
  BY <1>2, <1>3, RowBare
<1> QED BY <1>2, <1>4 DEF Placed

(* Erasing whole rows.                                                      *)
LEMMA EraseBare ==
  ASSUME NEW t, Bare(t)
  PROVE  Bare(Erase(t))
<1>1. /\ H \in Nat /\ t.y \in 0 .. H - 1 /\ 0 \in 0 .. H - 1
      /\ H - 1 \in t.y .. H - 1 /\ t.y \in 0 .. H - 1 /\ H - 1 \in 0 .. H - 1
  BY ScreenAssumption DEF ScreenAssumption, Bare, Sound
<1>2. /\ Bare(ClearLines(t, t.y, H - 1)) /\ Bare(ClearLines(t, 0, t.y))
      /\ Bare(ClearLines(t, 0, H - 1))
  <2>1. Bare(ClearLines(t, t.y, H - 1))
    BY <1>1, ClearLinesBare
  <2>2. Bare(ClearLines(t, 0, t.y))
    BY <1>1, ClearLinesBare
  <2>3. Bare(ClearLines(t, 0, H - 1))
    BY <1>1, ClearLinesBare
  <2> QED BY <2>1, <2>2, <2>3
<1>3. Bare(ResetScroll(ClearLines(t, 0, H - 1)))
  BY <1>2, SaveRestoreBare
<1> QED BY <1>2, <1>3 DEF Erase

(* Erasing in the row of the cursor.                                        *)
LEMMA ClearLineBare ==
  ASSUME NEW t, Bare(t), NEW j \in Junk,
         t.narg = 0 \/ (t.narg = 1 /\ t.args[0] \in 0 .. 2)
  PROVE  Bare(ClearLine(t, j))
<1> DEFINE row == t.y * W
           mode == IF t.narg = 0 THEN 0 ELSE t.args[0]
<1>1. /\ W \in Nat /\ t.x \in 0 .. W - 1 /\ t.y \in 0 .. H - 1 /\ H \in Nat /\ Size \in Nat
  BY Products DEF Bare, Sound
<1>2. row \in Nat /\ row + W <= Size
  <2>1. t.y \in Nat /\ H - 1 \in Nat /\ t.y <= H - 1
    BY <1>1
  <2> QED BY <2>1, Products
<1>3. mode \in 0 .. 2
  OBVIOUS
<1> HIDE DEF row, mode
<1>4. CASE mode = 0
  <2>1. ClearLine(t, j) = Blank(t, row + t.x, row + t.x + (W - t.x))
    BY <1>1, <1>4 DEF ClearLine, AtLeast0, row, mode
  <2> QED BY <1>1, <1>2, <2>1, BlankBare
<1>5. CASE mode = 1
  <2>1. ClearLine(t, j) = Blank(t, row, row + t.x)
    BY <1>1, <1>5 DEF ClearLine, AtLeast0, row, mode
  <2> QED BY <1>1, <1>2, <2>1, BlankBare
<1>6. CASE mode = 2
  <2>1. ClearLine(t, j) = Blank(t, row, row + W)
    BY <1>1, <1>6 DEF ClearLine, AtLeast0, row, mode
  <2> QED BY <1>1, <1>2, <2>1, BlankBare
<1> QED BY <1>3, <1>4, <1>5, <1>6
(* The byte that ends a control sequence.                                   *)
LEMMA DoCommandBare ==
  ASSUME NEW t, Bare(t), NEW j \in Junk, NEW c, PoliteCommand(t, c)
  PROVE  Bare(DoCommand(t, c, j))
<1> DEFINE n == IF t.narg > 0 THEN t.args[0] ELSE 1
<1>1. n \in 0 .. IntHalf - 1
  BY ScreenAssumption DEF ScreenAssumption, Bare, Terminal, ArgIdx
<1>2. /\ c = "B" => t.y + n < H
      /\ c = "C" => t.x + n < W
      /\ c \in {"f", "H"} =>
           t.narg = 0 \/ (t.narg = 2 /\ t.args[0] \in 1 .. H /\ t.args[1] \in 1 .. W)
      /\ c = "K" => t.narg = 0 \/ (t.narg = 1 /\ t.args[0] \in 0 .. 2)
      /\ c = "r" => t.narg # 2 \/ t.args[0] >= t.args[1]
      /\ c # "P"
  BY DEF PoliteCommand
<1>3. CASE c \in {"A", "B", "C", "D"}
  <2>1. DoCommand(t, c, j) = Idle(CASE c = "A" -> Up(t, n) [] c = "B" -> Down(t, n)
                                     [] c = "C" -> Right(t, n) [] OTHER -> Left(t, n))
    BY <1>3 DEF DoCommand
  <2> HIDE DEF n
  <2>2. Bare(CASE c = "A" -> Up(t, n) [] c = "B" -> Down(t, n)
               [] c = "C" -> Right(t, n) [] OTHER -> Left(t, n))
    BY <1>1, <1>2, <1>3, MotionsBare
  <2> QED BY <2>1, <2>2, IdleBare
<1>4. CASE c \in {"f", "H"}
  <2>1. Bare(MoveTo(t))
    BY <1>2, <1>4, MoveToBare DEF Addressed
  <2> QED BY <1>4, <2>1, IdleBare DEF DoCommand
<1>5. CASE c = "J"
  BY <1>5, EraseBare, IdleBare DEF DoCommand
<1>6. CASE c = "K"
  <2>1. Bare(ClearLine(t, j))
    BY <1>2, <1>6, ClearLineBare
  <2> QED BY <1>6, <2>1, IdleBare DEF DoCommand
<1>7. CASE c \in {"s", "u"}
  BY <1>7, SaveRestoreBare, IdleBare DEF DoCommand
<1>8. CASE c = "r"
  <2>1. t.args[0] \in Nat /\ t.args[1] \in Nat
    BY ScreenAssumption DEF ScreenAssumption, Bare, Terminal, ArgIdx
  <2>2. SetScroll(t) = ResetScroll(t)
    BY <1>2, <1>8, <2>1 DEF SetScroll
  <2> QED BY <1>8, <2>2, SaveRestoreBare, IdleBare DEF DoCommand
<1>9. CASE c = "?"
  BY <1>9, ParserBare DEF DoCommand, States
<1>10. CASE c \notin {"A", "B", "C", "D", "f", "H", "J", "K", "P", "s", "u", "r", "?"}
  BY <1>10, IdleBare DEF DoCommand
<1> QED BY <1>2, <1>3, <1>4, <1>5, <1>6, <1>7, <1>8, <1>9, <1>10

-----------------------------------------------------------------------------
(* The inductive invariant: the terminal is sound and its only cursor drawn *)
(* where it is; an argument is parsed only inside a sequence, within args[] *)
(* and without overflow.                                                    *)
PoliteInv(t) ==
  /\ t \in Terminal
  /\ Sound(t)
  /\ Single(t)
  /\ \A i \in ArgIdx : t.args[i] < IntHalf
  /\ t.state = "command_arg" => t.ret # "idle" /\ t.narg \in ArgIdx

(* Lifting the cursor.                                                      *)
LEMMA LiftBare ==
  ASSUME NEW t, PoliteInv(t), t.state # "command_arg"
  PROVE  /\ Bare(RemoveCursor(t))
         /\ \A c : PoliteCommand(t, c) => PoliteCommand(RemoveCursor(t), c)
         /\ RemoveCursor(t).x = t.x /\ RemoveCursor(t).y = t.y
         /\ RemoveCursor(t).wrap = t.wrap
         /\ RemoveCursor(t).sx = t.sx /\ RemoveCursor(t).sy = t.sy
         /\ RemoveCursor(t).state = t.state /\ RemoveCursor(t).narg = t.narg
         /\ RemoveCursor(t).args = t.args
         /\ \A i \in Cells : RemoveCursor(t).vram[i] = TextAt(t, i)
<1>1. CASE t.under = "none"
  BY <1>1 DEF RemoveCursor, PoliteInv, Bare, Single, Shown, Text, TextAt
<1>2. CASE t.under # "none"
  <2> DEFINE o == Offset(t)
             v == [t.vram EXCEPT ![o] = t.under]
             r == [t EXCEPT !.vram = v, !.strayed = FALSE, !.under = "none", !.hung = FALSE]
  <2>1. o \in Cells /\ (o >= Size) = FALSE
    <3>1. o \in Cells
      BY OffsetInCells DEF PoliteInv, Sound
    <3> QED BY <3>1, Products DEF Cells
  <2>2. t \in Terminal /\ t.hung = FALSE /\ t.strayed = FALSE /\ t.under \in Text
    BY <1>2 DEF PoliteInv, Sound, Terminal, Single
  <2>3. \A i \in Cells \ {o} : t.vram[i] \in Text
    BY DEF PoliteInv, Single, Shown
  <2> HIDE DEF o
  <2>4. v \in [Cells -> Text]
    BY <2>1, <2>2, <2>3 DEF Terminal
  <2>5. RemoveCursor(t) = r
    <3>1. Poke(t, o, t.under) = [t EXCEPT !.vram = v, !.strayed = FALSE]
      BY <2>1, <2>2 DEF Poke
    <3>2. RemoveCursor(t) = [Poke(t, o, t.under) EXCEPT !.under = "none", !.hung = FALSE]
      BY <1>2, <2>1 DEF RemoveCursor, o
    <3> QED BY <3>1, <3>2
  <2>6. r \in Terminal
    BY <2>2, <2>4 DEF Terminal, Text, Shown
  <2>7. /\ r.x = t.x /\ r.y = t.y /\ r.narg = t.narg /\ r.args = t.args
        /\ r.wrap = t.wrap /\ r.sx = t.sx /\ r.sy = t.sy /\ r.vram = v /\ r.state = t.state
    BY <2>2 DEF Terminal
  <2>8. Bare(r)
    BY <2>2, <2>4, <2>6 DEF Bare, PoliteInv, Sound, Terminal
  <2>9. \A i \in Cells : v[i] = TextAt(t, i)
    BY <1>2, <2>1, <2>2 DEF TextAt, Terminal, o
  <2> HIDE DEF r, v
  <2>10. \A c : PoliteCommand(t, c) => PoliteCommand(r, c)
    BY <2>7 DEF PoliteCommand
  <2> QED BY <2>5, <2>7, <2>8, <2>9, <2>10
<1> QED BY <1>1, <1>2

(* Drawing it again.                                                        *)
LEMMA DrawBare ==
  ASSUME NEW t, Bare(t), NEW j \in Junk
  PROVE  /\ PoliteInv(Redrawn(t, j))
         /\ Redrawn(t, j).x = t.x /\ Redrawn(t, j).y = t.y /\ Redrawn(t, j).wrap = t.wrap
         /\ Redrawn(t, j).sx = t.sx /\ Redrawn(t, j).sy = t.sy
         /\ Redrawn(t, j).state = t.state /\ Redrawn(t, j).narg = t.narg
         /\ Redrawn(t, j).args = t.args
         /\ \A i \in Cells : TextAt(Redrawn(t, j), i) = t.vram[i]
<1> DEFINE o == Offset(t)
           v == [t.vram EXCEPT ![o] = "cursor"]
           d == [t EXCEPT !.vram = v, !.strayed = FALSE, !.under = t.vram[o]]
<1>1. o \in Cells
  BY OffsetInCells DEF Bare, Sound
<1>2. t \in Terminal /\ t.hung = FALSE /\ t.strayed = FALSE /\ t.vram[o] \in Text
  BY <1>1 DEF Bare, Sound, Terminal
<1> HIDE DEF o
<1>3. Redrawn(t, j) = d
  <2>1. Poke(t, o, "cursor") = [t EXCEPT !.vram = v, !.strayed = FALSE]
    BY <1>1, <1>2 DEF Poke
  <2> QED BY <1>1, <1>2, <2>1 DEF Redrawn, DrawCursor, o
<1>4. v \in [Cells -> Shown] /\ \A i \in Cells : v[i] = "cursor" <=> i = o
  BY <1>1, <1>2 DEF Bare, Terminal, Shown, Text
<1>5. d \in Terminal
  BY <1>2, <1>4 DEF Terminal, Shown
<1>6. /\ d.x = t.x /\ d.y = t.y /\ d.under = t.vram[o] /\ d.vram = v
      /\ d.hung = FALSE /\ d.strayed = FALSE
      /\ d.sx = t.sx /\ d.sy = t.sy /\ d.top = t.top /\ d.bot = t.bot
      /\ d.args = t.args /\ d.state = t.state /\ d.wrap = t.wrap /\ d.narg = t.narg
  BY <1>2 DEF Terminal
<1>7. Sound(d) /\ (\A i \in ArgIdx : d.args[i] < IntHalf) /\ d.state # "command_arg"
  BY <1>2, <1>6 DEF Bare, Sound
<1>8. Single(d)
  <2>1. Offset(d) = o
    BY <1>6 DEF Offset, o
  <2>2. "none" \notin Text /\ d.under \in Text
    BY <1>2, <1>6 DEF Text
  <2> QED BY <1>4, <1>6, <2>1, <2>2 DEF Single
<1>9. \A i \in Cells : TextAt(d, i) = t.vram[i]
  <2>1. Offset(d) = o
    BY <1>6 DEF Offset, o
  <2>2. v[o] = "cursor" /\ \A i \in Cells \ {o} : v[i] = t.vram[i]
    BY <1>1, <1>2 DEF Bare, Terminal
  <2>3. d.under # "none"
    BY <1>2, <1>6 DEF Text
  <2> HIDE DEF d, v
  <2> QED BY <1>6, <2>1, <2>2, <2>3 DEF TextAt
<1>10. PoliteInv(d)
  BY <1>5, <1>7, <1>8 DEF PoliteInv
<1> HIDE DEF d
<1> QED BY <1>3, <1>6, <1>9, <1>10

(* A byte that the parser takes without touching the screen.                *)
Quiet(t, u) ==
  /\ u.x = t.x /\ u.y = t.y /\ u.sx = t.sx /\ u.sy = t.sy /\ u.wrap = t.wrap
  /\ u.under = t.under /\ u.vram = t.vram

(* Fields of the parser, and the flags, may change under a drawn cursor.    *)
Steady(t, u) ==
  /\ u.x = t.x /\ u.y = t.y /\ u.sx = t.sx /\ u.sy = t.sy
  /\ u.top = t.top /\ u.bot = t.bot /\ u.hung = t.hung /\ u.strayed = t.strayed
  /\ u.under = t.under /\ u.vram = t.vram

LEMMA FieldsInv ==
  ASSUME NEW t, PoliteInv(t), NEW r \in Terminal, Steady(t, r),
         \A i \in ArgIdx : r.args[i] < IntHalf,
         r.state = "command_arg" => r.ret # "idle" /\ r.narg \in ArgIdx
  PROVE  PoliteInv(r)
BY DEF PoliteInv, Sound, Single, Offset, Steady

LEMMA DoQuestionIs ==
  ASSUME NEW t \in Terminal, NEW c
  PROVE  \E o, w \in BOOLEAN :
           DoQuestion(t, c) = [t EXCEPT !.state = "idle", !.origin = o, !.wrap = w]
<1> DEFINE r(o, w) == [t EXCEPT !.state = "idle", !.origin = o, !.wrap = w]
<1>1. t \in Terminal /\ t.origin \in BOOLEAN /\ t.wrap \in BOOLEAN
  BY DEF Terminal
<1>2. \/ DoQuestion(t, c) = [t EXCEPT !.state = "idle"]
      \/ DoQuestion(t, c) = r(c = "h", t.wrap)
      \/ DoQuestion(t, c) = r(t.origin, c = "h")
  <2>1. r(c = "h", t.wrap) = [t EXCEPT !.state = "idle", !.origin = (c = "h")]
    BY <1>1 DEF Terminal
  <2>2. r(t.origin, c = "h") = [t EXCEPT !.state = "idle", !.wrap = (c = "h")]
    BY <1>1 DEF Terminal
  <2> HIDE DEF r
  <2>3. CASE c \in {"h", "l"} /\ t.args[0] = 6
    <3>1. 6 # 7
      OBVIOUS
    <3>2. DoQuestion(t, c) = Idle([t EXCEPT !.origin = (c = "h")])
      BY <2>3, <3>1, Zenon DEF DoQuestion
    <3> QED BY <2>1, <3>2 DEF Idle
  <2>4. CASE c \in {"h", "l"} /\ t.args[0] = 7
    <3>1. 6 # 7
      OBVIOUS
    <3>2. DoQuestion(t, c) = Idle([t EXCEPT !.wrap = (c = "h")])
      BY <2>4, <3>1, Zenon DEF DoQuestion
    <3> QED BY <2>2, <3>2 DEF Idle
  <2>5. CASE ~(c \in {"h", "l"} /\ t.args[0] \in {6, 7})
    BY <2>5 DEF DoQuestion, Idle
  <2> QED BY <2>3, <2>4, <2>5
<1>3. [t EXCEPT !.state = "idle"] = r(t.origin, t.wrap)
  BY <1>1 DEF Terminal
<1>4. \E o, w \in BOOLEAN : DoQuestion(t, c) = r(o, w)
  <2> HIDE DEF r
  <2>1. (c = "h") \in BOOLEAN
    OBVIOUS
  <2> QED BY <1>1, <1>2, <1>3, <2>1, ZenonT(60)
<1> QED BY <1>4, Zenon DEF r

LEMMA DoQuestionInv ==
  ASSUME NEW t, PoliteInv(t), NEW c
  PROVE  PoliteInv(DoQuestion(t, c))
<1>1. PICK o \in BOOLEAN, w \in BOOLEAN :
        DoQuestion(t, c) = [t EXCEPT !.state = "idle", !.origin = o, !.wrap = w]
  BY DoQuestionIs DEF PoliteInv
<1>2. PICK u : u = [t EXCEPT !.state = "idle", !.origin = o, !.wrap = w]
  OBVIOUS
<1>3. t \in Terminal
  BY DEF PoliteInv
<1>4. u \in Terminal
  BY <1>2, <1>3 DEF Terminal, States
<1>5. Steady(t, u) /\ u.args = t.args /\ u.state = "idle"
  BY <1>2, <1>3 DEF Terminal, Steady
<1>6. \A i \in ArgIdx : u.args[i] < IntHalf
  BY <1>5 DEF PoliteInv
<1>7. PoliteInv(u)
  BY <1>4, <1>5, <1>6, FieldsInv
<1> QED BY <1>1, <1>2, <1>7

(* The final byte of a sequence.                                            *)
LEMMA FinishInv ==
  ASSUME NEW t, PoliteInv(t), t.state # "command_arg", NEW c, NEW j \in Junk,
         t.state # "question" => PoliteCommand(t, c)
  PROVE  PoliteInv(Finish(t, c, j))
<1>1. CASE t.state = "question"
  BY <1>1, DoQuestionInv DEF Finish
<1>2. CASE t.state # "question"
  <2>1. Bare(RemoveCursor(t)) /\ PoliteCommand(RemoveCursor(t), c)
    BY <1>2, LiftBare
  <2>2. Finish(t, c, j) = Redrawn(DoCommand(RemoveCursor(t), c, j), j)
    BY <1>2, <2>1 DEF Finish, Bare, Sound
  <2> QED BY <2>1, <2>2, DoCommandBare, DrawBare
<1> QED BY <1>1, <1>2

(* A digit of an argument that is an int16_t.                               *)
LEMMA DigitInv ==
  ASSUME NEW t, PoliteInv(t), NEW c \in Digits, t.narg \in ArgIdx,
         t.state \in {"sq_bracket", "question", "command_arg"},
         t.args[t.narg] * 10 + DigitVal(c) < IntHalf
  PROVE  /\ PoliteInv(Digit(t, c)) /\ Quiet(t, Digit(t, c))
         /\ Digit(t, c).args = [t.args EXCEPT ![t.narg] = t.args[t.narg] * 10 + DigitVal(c)]
         /\ Digit(t, c).state = "command_arg" /\ Digit(t, c).narg = t.narg
         /\ Digit(t, c).ret = IF t.state = "command_arg" THEN t.ret ELSE t.state
<1> DEFINE val == t.args[t.narg] * 10 + DigitVal(c)
           ret == IF t.state = "command_arg" THEN t.ret ELSE t.state
           args == [t.args EXCEPT ![t.narg] = val]
           r == [t EXCEPT !.args = args, !.state = "command_arg", !.ret = ret]
<1>1. t \in Terminal /\ t.args[t.narg] \in Nat /\ DigitVal(c) \in 0 .. 9 /\ IntHalf \in Nat
  BY ScreenAssumption DEF ScreenAssumption, PoliteInv, Terminal, Digits, DigitVal
<1>2. val \in 0 .. IntHalf - 1 /\ Uint16(val) = val
  <2>1. val \in 0 .. IntHalf - 1 /\ val \in 0 .. 2 * IntHalf - 1
    BY <1>1
  <2> QED BY <2>1, InRange
<1>3. Digit(t, c) = r
  <2> DEFINE g == [t EXCEPT !.args = args, !.state = "command_arg"]
  <2>1. Grown(t, c) = g
    BY <1>2 DEF Grown
  <2>2. CASE t.state = "command_arg"
    <3>1. g = r
      BY <1>1, <2>2 DEF Terminal
    <3> QED BY <2>1, <2>2, <3>1 DEF Digit
  <2>3. CASE t.state # "command_arg"
    BY <2>1, <2>3 DEF Digit
  <2> QED BY <2>2, <2>3
<1> HIDE DEF val
<1>4. args \in [ArgIdx -> 0 .. 2 * IntHalf - 1] /\ \A i \in ArgIdx : args[i] < IntHalf
  BY <1>1, <1>2 DEF PoliteInv, Terminal
<1>5. ret \in {"sq_bracket", "question"}
  BY DEF PoliteInv, Terminal
<1> HIDE DEF args, ret
<1>6. r \in Terminal
  BY <1>1, <1>4, <1>5 DEF Terminal, States
<1>7. /\ Steady(t, r) /\ Quiet(t, r)
      /\ r.args = args /\ r.ret = ret /\ r.narg = t.narg /\ r.state = "command_arg"
  BY <1>1 DEF Terminal, Steady, Quiet
<1>8. (\A i \in ArgIdx : r.args[i] < IntHalf) /\ r.ret # "idle" /\ r.narg \in ArgIdx
  BY <1>4, <1>5, <1>7
<1> HIDE DEF r
<1>9. PoliteInv(r)
  BY <1>6, <1>7, <1>8, FieldsInv
<1> QED BY <1>3, <1>7, <1>9 DEF args, ret, val

(* The initial terminal.                                                    *)
LEMMA InitPolite == Init => PoliteInv(term)
<1> SUFFICES ASSUME Init PROVE PoliteInv(term)
  OBVIOUS
<1>1. /\ 0 \in 0 .. W - 1 /\ 0 \in 0 .. H - 1 /\ 0 \in 0 .. ByteMod - 1 /\ 0 < IntHalf
      /\ 0 \in -IntHalf .. IntHalf - 1 /\ H \in -IntHalf .. IntHalf - 1
      /\ NoArgs \in [ArgIdx -> 0 .. 2 * IntHalf - 1]
      /\ \A i \in ArgIdx : NoArgs[i] = 0
  BY ScreenAssumption DEF ScreenAssumption, ArgIdx, NoArgs
<1>2. term \in Terminal
  BY <1>1 DEF Init, Terminal, States, Shown, Text
<1> QED BY <1>1, <1>2 DEF Init, PoliteInv, Sound, Single, Shown, Text

(* A byte that completes an operation: the handlers that run on it.         *)
Handles(t, c, u) ==
  /\ PoliteInv(t) /\ t.state # "command_arg"
  /\ \E j \in Junk :
       \/ /\ c = "BS" => t.x > 0
          /\ c = "DEL" => ~(t.wrap /\ t.x = W - 1)
          /\ u = Redrawn(DoIdle(RemoveCursor(t), c, j), j)
       \/ u = Redrawn(DoEscape(RemoveCursor(t), c, j), j)
       \/ /\ t.state # "question" => PoliteCommand(t, c)
          /\ u = Finish(t, c, j)

LEMMA HandlesInv ==
  ASSUME NEW t, NEW c, NEW u, Handles(t, c, u)
  PROVE  PoliteInv(u)
<1>1. PICK j \in Junk :
        \/ /\ c = "BS" => t.x > 0
           /\ c = "DEL" => ~(t.wrap /\ t.x = W - 1)
           /\ u = Redrawn(DoIdle(RemoveCursor(t), c, j), j)
        \/ u = Redrawn(DoEscape(RemoveCursor(t), c, j), j)
        \/ /\ t.state # "question" => PoliteCommand(t, c)
           /\ u = Finish(t, c, j)
  BY DEF Handles
<1>2. /\ PoliteInv(t) /\ t.state # "command_arg" /\ Bare(RemoveCursor(t))
      /\ RemoveCursor(t).x = t.x /\ RemoveCursor(t).wrap = t.wrap
  BY LiftBare DEF Handles
<1>3. CASE /\ c = "BS" => t.x > 0
           /\ c = "DEL" => ~(t.wrap /\ t.x = W - 1)
           /\ u = Redrawn(DoIdle(RemoveCursor(t), c, j), j)
  <2>1. Bare(DoIdle(RemoveCursor(t), c, j))
    BY <1>2, <1>3, DoIdleBare
  <2> QED BY <1>3, <2>1, DrawBare
<1>4. CASE u = Redrawn(DoEscape(RemoveCursor(t), c, j), j)
  BY <1>2, <1>4, DoEscapeBare, DrawBare
<1>5. CASE /\ t.state # "question" => PoliteCommand(t, c)
           /\ u = Finish(t, c, j)
  BY <1>2, <1>5, FinishInv
<1> QED BY <1>1, <1>3, <1>4, <1>5

(* What a polite host keeps to while it sends arguments.                    *)
LEMMA PoliteDigit ==
  ASSUME NEW t, t \in Terminal, NEW c \in Digits, Polite(t, c),
         t.state \in {"sq_bracket", "question", "command_arg"}
  PROVE  t.narg \in ArgIdx /\ t.args[t.narg] * 10 + DigitVal(c) < IntHalf
<1>1. t.narg < MAX_COMMAND_ARGS /\ t.args[t.narg] * 10 + DigitVal(c) < IntHalf
  BY DEF Polite
<1>2. t.narg \in Nat /\ MAX_COMMAND_ARGS \in Nat
  BY ScreenAssumption DEF ScreenAssumption, Terminal
<1> QED BY <1>1, <1>2 DEF ArgIdx

LEMMA NextArgument ==
  ASSUME NEW n \in ArgIdx
  PROVE  /\ n < MAX_COMMAND_ARGS /\ MAX_COMMAND_ARGS \in Nat
         /\ n + 1 \in 0 .. ByteMod - 1 /\ Uint8(n + 1) = n + 1
BY ScreenAssumption DEF ScreenAssumption, ArgIdx, Uint8

(* One action of the parser after the other: a byte is quiet, or handled    *)
(* once the argument it ends is complete.                                   *)
LEMMA StepIs ==
  ASSUME PoliteInv(term), NEW c \in Alphabet, Polite(term, c), vt100_putc(c)
  PROVE  \/ PoliteInv(term') /\ Quiet(term, term')
         \/ \E t : Quiet(term, t) /\ Handles(t, c, term')
<1> DEFINE Goal == \/ PoliteInv(term') /\ Quiet(term, term')
                   \/ \E t : Quiet(term, t) /\ Handles(t, c, term')
<1>1. Quiet(term, term)
  BY DEF Quiet
<1>2. ASSUME NEW t, Quiet(term, t), Handles(t, c, term') PROVE Goal
  BY <1>2
<1>3. ASSUME PoliteInv(term'), Quiet(term, term') PROVE Goal
  BY <1>3
<1> SUFFICES Goal
  OBVIOUS
<1> HIDE DEF Goal
<1>4. CASE St_idle(c)
  <2>1. PICK j \in Junk :
          term' = IF RemoveCursor(term).hung THEN RemoveCursor(term)
                  ELSE Redrawn(DoIdle(RemoveCursor(term), c, j), j)
    BY <1>4 DEF St_idle, Plain
  <2>2. Bare(RemoveCursor(term)) /\ term.state # "command_arg"
    BY <1>4, LiftBare DEF St_idle, Awake
  <2>3. /\ c = "BS" => term.x > 0
        /\ c = "DEL" => ~(term.wrap /\ term.x = W - 1)
    BY <1>4 DEF Polite, St_idle, Awake
  <2>4. term' = Redrawn(DoIdle(RemoveCursor(term), c, j), j)
    BY <2>1, <2>2 DEF Bare, Sound
  <2>5. Handles(term, c, term')
    BY <2>2, <2>3, <2>4 DEF Handles
  <2> QED BY <1>1, <1>2, <2>5
<1>5. CASE St_escape(c)
  <2>1. PICK j \in Junk :
          term' = IF RemoveCursor(term).hung THEN RemoveCursor(term)
                  ELSE Redrawn(DoEscape(RemoveCursor(term), c, j), j)
    BY <1>5 DEF St_escape
  <2>2. Bare(RemoveCursor(term)) /\ term.state # "command_arg"
    BY <1>5, LiftBare DEF St_escape, Awake
  <2>3. term' = Redrawn(DoEscape(RemoveCursor(term), c, j), j)
    BY <2>1, <2>2 DEF Bare, Sound
  <2>4. Handles(term, c, term')
    BY <2>2, <2>3 DEF Handles
  <2> QED BY <1>1, <1>2, <2>4
<1>6. ASSUME NEW state \in {"sq_bracket", "question"}, Waiting(state, c) PROVE Goal
  <2>1. term.state = state
    BY <1>6 DEF Waiting, Awake
  <2>2. CASE c \in Digits
    <3>1. term' = Digit(term, c)
      BY <1>6, <2>2 DEF Waiting, Final, Digits
    <3>2. term.narg \in ArgIdx /\ term.args[term.narg] * 10 + DigitVal(c) < IntHalf
      BY <2>1, <2>2, PoliteDigit DEF PoliteInv
    <3>4. PoliteInv(term') /\ Quiet(term, term')
      BY <2>1, <2>2, <3>1, <3>2, DigitInv
    <3> QED BY <1>3, <3>4
  <2>3. CASE c = ";"
    <3>1. term' = term
      BY <1>6, <2>3 DEF Waiting, Digits, Final
    <3>2. PoliteInv(term') /\ Quiet(term, term')
      BY <1>1, <3>1
    <3> QED BY <1>3, <3>2
  <2>4. CASE Final(c)
    <3>1. PICK j \in Junk : term' = Finish(term, c, j)
      BY <1>6, <2>4 DEF Waiting, Final, Digits
    <3>2. term.state # "question" => PoliteCommand(term, c)
      BY <2>1, <2>4 DEF Polite
    <3>3. Handles(term, c, term')
      BY <2>1, <3>1, <3>2 DEF Handles
    <3> QED BY <1>1, <1>2, <3>3
  <2> QED BY <2>2, <2>3, <2>4 DEF Final
<1>7. CASE St_command_arg(c)
  <2>1. /\ term.state = "command_arg" /\ term.narg \in ArgIdx
        /\ term.ret \in {"sq_bracket", "question"} /\ term \in Terminal
    BY <1>7 DEF St_command_arg, Awake, PoliteInv, Terminal
  <2>2. /\ term.narg < MAX_COMMAND_ARGS /\ MAX_COMMAND_ARGS \in Nat
        /\ term.narg + 1 \in 0 .. ByteMod - 1 /\ Uint8(term.narg + 1) = term.narg + 1
    BY <2>1, NextArgument
  <2>3. CASE c \in Digits
    <3>1. term' = Digit(term, c)
      BY <1>7, <2>3 DEF St_command_arg, Final, Digits
    <3>2. term.args[term.narg] * 10 + DigitVal(c) < IntHalf
      BY <2>1, <2>3, PoliteDigit
    <3>3. PoliteInv(term') /\ Quiet(term, term')
      BY <2>1, <2>3, <3>1, <3>2, DigitInv
    <3> QED BY <1>3, <3>3
  <2>4. CASE c = ";"
    <3>1. term' = [term EXCEPT !.narg = term.narg + 1] /\ term.narg + 1 < MAX_COMMAND_ARGS
      <4>1. c \notin Digits /\ ~Final(c)
        BY <2>4 DEF Digits, Final
      <4>2. term' = [term EXCEPT !.narg = Uint8(@ + 1)]
        BY <1>7, <4>1 DEF St_command_arg
      <4> QED BY <2>1, <2>2, <2>4, <4>2 DEF Polite
    <3>2. term.narg + 1 \in ArgIdx
      BY <2>1, <2>2, <3>1 DEF ArgIdx
    <3>3. term' \in Terminal
      BY <2>1, <2>2, <3>1 DEF Terminal
    <3>4. /\ Quiet(term, term') /\ Steady(term, term')
          /\ term'.args = term.args /\ term'.ret = term.ret /\ term'.narg \in ArgIdx
      BY <2>1, <3>1, <3>2 DEF Terminal, Quiet, Steady
    <3>5. \A i \in ArgIdx : term'.args[i] < IntHalf
      BY <3>4 DEF PoliteInv
    <3>6. PoliteInv(term')
      BY <2>1, <3>3, <3>4, <3>5, FieldsInv
    <3> QED BY <1>3, <3>4, <3>6
  <2>5. CASE Final(c)
    <3> DEFINE s == [term EXCEPT !.narg = term.narg + 1, !.state = term.ret]
    <3>1. PICK j \in Junk : term' = Finish(s, c, j)
      <4>1. c \notin Digits /\ c # ";"
        BY <2>5 DEF Final
      <4>2. PICK j \in Junk :
              term' = Finish([term EXCEPT !.narg = Uint8(@ + 1), !.state = term.ret], c, j)
        BY <1>7, <4>1 DEF St_command_arg
      <4> QED BY <2>2, <4>2
    <3>2. s \in Terminal
      <4>1. term.ret \in States
        BY <2>1 DEF States
      <4> QED BY <2>1, <2>2, <4>1 DEF Terminal
    <3>3. /\ Quiet(term, s) /\ Steady(term, s)
          /\ s.x = term.x /\ s.y = term.y
          /\ s.args = term.args /\ s.state = term.ret /\ s.narg = term.narg + 1
      BY <2>1 DEF Terminal, Quiet, Steady
    <3>4. \A i \in ArgIdx : s.args[i] < IntHalf
      BY <3>3 DEF PoliteInv
    <3>5. s.state # "question" => PoliteCommand(s, c)
      <4>1. term.ret = "sq_bracket" => PoliteCommand([term EXCEPT !.narg = @ + 1], c)
        BY <2>1, <2>5 DEF Polite
      <4>2. LET p == [term EXCEPT !.narg = @ + 1]
            IN  p.x = term.x /\ p.y = term.y /\ p.args = term.args /\ p.narg = term.narg + 1
        BY <2>1 DEF Terminal
      <4> HIDE DEF s
      <4> QED BY <2>1, <3>3, <4>1, <4>2 DEF PoliteCommand
    <3> HIDE DEF s
    <3>6. PoliteInv(s)
      BY <2>1, <3>2, <3>3, <3>4, FieldsInv
    <3>7. Handles(s, c, term')
      BY <2>1, <3>1, <3>3, <3>5, <3>6 DEF Handles
    <3> QED BY <1>2, <3>3, <3>7
  <2> QED BY <2>3, <2>4, <2>5 DEF Final
<1>8. CASE St_one_byte(c)
  <2>1. term' = [term EXCEPT !.state = "idle"] /\ term \in Terminal
    BY <1>8 DEF St_one_byte, Idle, PoliteInv
  <2>2. term' \in Terminal
    BY <2>1 DEF Terminal, States
  <2>3. /\ Quiet(term, term') /\ Steady(term, term')
        /\ term'.args = term.args /\ term'.state = "idle"
    BY <2>1 DEF Terminal, Quiet, Steady
  <2>4. \A i \in ArgIdx : term'.args[i] < IntHalf
    BY <2>3 DEF PoliteInv
  <2>5. PoliteInv(term')
    BY <2>2, <2>3, <2>4, FieldsInv
  <2> QED BY <1>3, <2>3, <2>5
<1>9. CASE St_sq_bracket(c) \/ St_question(c)
  <2>1. PICK state \in {"sq_bracket", "question"} : Waiting(state, c)
    BY <1>9 DEF St_sq_bracket, St_question
  <2> QED BY <1>6, <2>1
<1> QED
  BY <1>4, <1>5, <1>7, <1>8, <1>9, Zenon DEF vt100_putc

LEMMA NextPolite == PoliteInv(term) /\ [PoliteNext]_term => PoliteInv(term')
<1> SUFFICES ASSUME PoliteInv(term), [PoliteNext]_term PROVE PoliteInv(term')
  OBVIOUS
<1>1. CASE UNCHANGED term
  BY <1>1
<1>2. ASSUME NEW c \in Alphabet, Polite(term, c), vt100_putc(c) PROVE PoliteInv(term')
  BY <1>2, StepIs, HandlesInv
<1> QED BY <1>1, <1>2 DEF PoliteNext

(* The invariant holds of every reachable terminal of a polite host.        *)
LEMMA PoliteInvHolds == PoliteSpec => []PoliteInv(term)
<1>1. Init => PoliteInv(term)
  BY InitPolite
<1>2. PoliteInv(term) /\ [PoliteNext]_term => PoliteInv(term)'
  BY NextPolite
<1> QED BY <1>1, <1>2, PTL DEF PoliteSpec

(* Every field of vt100_t keeps its C type under a polite host.             *)
THEOREM PoliteTypeCorrect == PoliteSpec => []TypeOK
<1>1. PoliteInv(term) => TypeOK
  BY DEF PoliteInv, TypeOK
<1> QED BY <1>1, PoliteInvHolds, PTL

(* A polite host never hangs the firmware in vt100.c, never makes it write  *)
(* outside the terminal's video RAM and never drives the cursor, or the     *)
(* saved one, off the screen.                                               *)
THEOREM PoliteStaysOnScreen == PoliteSpec => []StaysOnScreen
<1>1. PoliteInv(term) => StaysOnScreen
  BY DEF PoliteInv, StaysOnScreen
<1> QED BY <1>1, PoliteInvHolds, PTL

(* Between two bytes of a polite host exactly the cell of the cursor shows  *)
(* it, and the character it covers is not lost.                             *)
THEOREM PoliteOneCursor == PoliteSpec => []OneCursor
<1>1. PoliteInv(term) => OneCursor
  BY DEF PoliteInv, OneCursor
<1> QED BY <1>1, PoliteInvHolds, PTL
-----------------------------------------------------------------------------
(* The page that a video RAM shows when the cursor is lifted.               *)
Lines(v) == [r \in 0 .. H - 1 |-> [c \in 0 .. W - 1 |-> v[r * W + c]]]

(* The cells of the rows lie one row behind the other.                      *)
LEMMA RowsApart ==
  ASSUME NEW r \in Nat, NEW k \in Nat, NEW c \in 0 .. W - 1
  PROVE  (k * W <= r * W + c <=> k <= r) /\ (r * W + c < k * W <=> r < k)
<1>1. W \in Nat /\ r * W \in Nat /\ k * W \in Nat /\ c \in Nat /\ c < W
  BY Products
<1>2. ASSUME k <= r PROVE k * W <= r * W + c
  BY <1>1, <1>2, Products
<1>3. ASSUME r < k PROVE r * W + c < k * W
  <2>1. (r + 1) * W <= k * W /\ (r + 1) * W = r * W + W
    BY <1>3, Products
  <2> QED
    BY <1>1, <2>1
<1> QED
  BY <1>1, <1>2, <1>3

LEMMA CellOf ==
  ASSUME NEW r \in 0 .. H - 1, NEW c \in 0 .. W - 1
  PROVE  /\ r * W + c \in Cells /\ r * W + c \in Nat /\ r \in Nat /\ r * W \in Nat
         /\ \A s \in 0 .. H - 1, d \in 0 .. W - 1 :
              r * W + c = s * W + d => r = s /\ c = d
<1>1. r \in Nat /\ c \in Nat /\ r * W \in Nat /\ W \in Nat /\ H \in Nat
  BY Products
<1>2. r * W + c \in Cells
  <2>1. r * W <= (H - 1) * W
    BY <1>1, Products
  <2> QED
    BY <1>1, <2>1, Products DEF Cells
<1>3. ASSUME NEW s \in 0 .. H - 1, NEW d \in 0 .. W - 1, r * W + c = s * W + d
      PROVE  r = s /\ c = d
  <2>1. s \in Nat /\ d \in Nat /\ s * W \in Nat
    BY <1>1, Products
  <2>2. s * W <= r * W + c /\ r * W <= s * W + d
    BY <1>1, <1>3, <2>1
  <2>3. s <= r /\ r <= s
    BY <1>1, <2>1, <2>2, RowsApart
  <2>4. r = s
    BY <1>1, <2>1, <2>3
  <2> QED
    BY <1>1, <1>3, <2>1, <2>4
<1> QED
  BY <1>1, <1>2, <1>3

(* A cell that is written shows on the page.                                *)
Poked(v, r, c, cell) == [v EXCEPT ![r * W + c] = cell]

LEMMA LinesPoked ==
  ASSUME NEW v \in [Cells -> Text], NEW r \in 0 .. H - 1, NEW c \in 0 .. W - 1, NEW cell
  PROVE  Lines(Poked(v, r, c, cell)) = Screen!Written(Lines(v), r, c, cell)
<1>1. PICK u : u = [v EXCEPT ![r * W + c] = cell]
  OBVIOUS
<1>2. ASSUME NEW s \in 0 .. H - 1, NEW d \in 0 .. W - 1
      PROVE  u[s * W + d] = IF s = r /\ d = c THEN cell ELSE v[s * W + d]
  <2>1. s * W + d \in Cells /\ (r * W + c = s * W + d => r = s /\ c = d)
    BY CellOf
  <2> QED
    BY <1>1, <2>1
<1>3. Lines(u) = [s \in 0 .. H - 1 |-> [d \in 0 .. W - 1 |->
                    IF s = r /\ d = c THEN cell ELSE v[s * W + d]]]
  BY <1>2 DEF Lines
<1>4. Lines(u) = [Lines(v) EXCEPT ![r][c] = cell]
  BY <1>3 DEF Lines
<1> QED
  BY <1>1, <1>4, Zenon DEF Poked, Screen!Written

(* Cells that are blanked are blank on the page.                            *)
LEMMA LinesBlanked ==
  ASSUME NEW v \in [Cells -> Text], NEW from \in Nat, NEW to \in Nat
  PROVE  Lines([o \in Cells |-> IF from <= o /\ o < to THEN "blank" ELSE v[o]]) =
           [r \in 0 .. H - 1 |-> [c \in 0 .. W - 1 |->
              IF from <= r * W + c /\ r * W + c < to THEN "blank" ELSE Lines(v)[r][c]]]
<1>1. PICK u : u = [o \in Cells |-> IF from <= o /\ o < to THEN "blank" ELSE v[o]]
  OBVIOUS
<1>2. ASSUME NEW r \in 0 .. H - 1, NEW c \in 0 .. W - 1
      PROVE  /\ u[r * W + c] = IF from <= r * W + c /\ r * W + c < to THEN "blank" ELSE v[r * W + c]
             /\ Lines(v)[r][c] = v[r * W + c]
  <2>1. r * W + c \in Cells
    BY CellOf
  <2> QED
    BY <1>1, <2>1 DEF Lines
<1>3. Lines(u) = [r \in 0 .. H - 1 |-> [c \in 0 .. W - 1 |->
              IF from <= r * W + c /\ r * W + c < to THEN "blank" ELSE Lines(v)[r][c]]]
  <2>1. PICK l : l = Lines(v)
    OBVIOUS
  <2> QED
    BY <1>2, <2>1 DEF Lines
<1> QED
  BY <1>1, <1>3

(* Rows that are blanked, and a part of one.                                *)
LEMMA LinesCleared ==
  ASSUME NEW v \in [Cells -> Text], NEW a \in 0 .. H - 1, NEW b \in a .. H - 1
  PROVE  Lines([o \in Cells |-> IF a * W <= o /\ o < (b + 1) * W THEN "blank" ELSE v[o]]) =
           [r \in 0 .. H - 1 |-> IF r \in a .. b THEN Screen!BlankRow ELSE Lines(v)[r]]
<1>1. a \in Nat /\ b + 1 \in Nat /\ a * W \in Nat /\ (b + 1) * W \in Nat /\ H \in Nat
  BY Products
<1> DEFINE from == a * W
           to   == (b + 1) * W
<1>2. from \in Nat /\ to \in Nat /\ from = a * W /\ to = (b + 1) * W
  BY <1>1
<1> HIDE DEF from, to
<1>3. ASSUME NEW r \in 0 .. H - 1, NEW c \in 0 .. W - 1
      PROVE  from <= r * W + c /\ r * W + c < to <=> r \in a .. b
  BY <1>1, <1>2, RowsApart
<1> DEFINE l == Lines(v)
<1>4. l = Lines(v)
  OBVIOUS
<1> HIDE DEF l
<1>5. \A r \in 0 .. H - 1 : l[r] = [c \in 0 .. W - 1 |-> l[r][c]]
  BY <1>4 DEF Lines
<1>6. [r \in 0 .. H - 1 |-> [c \in 0 .. W - 1 |->
         IF from <= r * W + c /\ r * W + c < to THEN "blank" ELSE l[r][c]]] =
      [r \in 0 .. H - 1 |-> IF r \in a .. b THEN Screen!BlankRow ELSE l[r]]
  <2>1. ASSUME NEW r \in 0 .. H - 1
        PROVE  [c \in 0 .. W - 1 |->
                  IF from <= r * W + c /\ r * W + c < to THEN "blank" ELSE l[r][c]] =
               IF r \in a .. b THEN Screen!BlankRow ELSE l[r]
    <3>1. CASE r \in a .. b
      BY <1>3, <3>1 DEF Screen!BlankRow, Screen!Cols
    <3>2. CASE r \notin a .. b
      BY <1>3, <1>5, <3>2
    <3> QED
      BY <3>1, <3>2
  <2> QED
    BY <2>1
<1>7. Lines([o \in Cells |-> IF from <= o /\ o < to THEN "blank" ELSE v[o]]) =
        [r \in 0 .. H - 1 |-> [c \in 0 .. W - 1 |->
           IF from <= r * W + c /\ r * W + c < to THEN "blank" ELSE l[r][c]]]
  BY <1>2, LinesBlanked, Zenon DEF l
<1> QED
  BY <1>4, <1>6, <1>7, Zenon DEF from, to, l

LEMMA LinesErased ==
  ASSUME NEW v \in [Cells -> Text], NEW y \in 0 .. H - 1, NEW a \in 0 .. W, NEW b \in 0 .. W
  PROVE  Lines([o \in Cells |-> IF y * W + a <= o /\ o < y * W + b THEN "blank" ELSE v[o]]) =
           Screen!PartBlanked(Lines(v), y, a .. b - 1)
<1>1. /\ y \in Nat /\ y * W \in Nat /\ a \in Nat /\ b \in Nat /\ W \in Nat
      /\ y * W + a \in Nat /\ y * W + b \in Nat
  BY Products
<1> DEFINE from == y * W + a
           to   == y * W + b
<1>2. from \in Nat /\ to \in Nat /\ from = y * W + a /\ to = y * W + b
  BY <1>1
<1> HIDE DEF from, to
<1>3. ASSUME NEW r \in 0 .. H - 1, NEW c \in 0 .. W - 1
      PROVE  from <= r * W + c /\ r * W + c < to <=> r = y /\ c \in a .. b - 1
  <2>1. r \in Nat /\ c \in Nat /\ r * W \in Nat
    BY CellOf
  <2>2. CASE r = y
    BY <1>1, <1>2, <2>1, <2>2
  <2>3. CASE r < y
    <3>1. r * W + c < y * W
      BY <1>1, <2>1, <2>3, RowsApart
    <3> QED
      BY <1>1, <1>2, <2>1, <2>3, <3>1
  <2>4. CASE r > y
    <3>1. (y + 1) * W <= r * W + c
      BY <1>1, <2>1, <2>4, RowsApart
    <3>2. (y + 1) * W = y * W + W
      BY <1>1, Products
    <3> QED
      BY <1>1, <1>2, <2>1, <2>4, <3>1, <3>2
  <2> QED
    BY <1>1, <2>1, <2>2, <2>3, <2>4
<1> DEFINE l == Lines(v)
<1>4. l = Lines(v)
  OBVIOUS
<1> HIDE DEF l
<1>5. \A r \in 0 .. H - 1 : l[r] = [c \in 0 .. W - 1 |-> l[r][c]]
  BY <1>4 DEF Lines
<1>6. PICK line : line = [c \in 0 .. W - 1 |-> IF c \in a .. b - 1 THEN "blank" ELSE l[y][c]]
  OBVIOUS
<1>7. ASSUME NEW r \in 0 .. H - 1
      PROVE  [c \in 0 .. W - 1 |->
                IF from <= r * W + c /\ r * W + c < to THEN "blank" ELSE l[r][c]] =
             IF r = y THEN line ELSE l[r]
  <2>1. CASE r = y
    BY <1>3, <1>6, <2>1
  <2>2. CASE r # y
    BY <1>3, <1>5, <2>2
  <2> QED
    BY <2>1, <2>2
<1>8. [r \in 0 .. H - 1 |-> [c \in 0 .. W - 1 |->
         IF from <= r * W + c /\ r * W + c < to THEN "blank" ELSE l[r][c]]] =
      [r \in 0 .. H - 1 |-> IF r = y THEN line ELSE l[r]]
  BY <1>7
<1>9. [r \in 0 .. H - 1 |-> IF r = y THEN line ELSE l[r]] = [l EXCEPT ![y] = line]
  BY <1>4 DEF Lines
<1>10. Lines([o \in Cells |-> IF from <= o /\ o < to THEN "blank" ELSE v[o]]) =
        [r \in 0 .. H - 1 |-> [c \in 0 .. W - 1 |->
           IF from <= r * W + c /\ r * W + c < to THEN "blank" ELSE l[r][c]]]
  BY <1>2, LinesBlanked, Zenon DEF l
<1> QED
  BY <1>4, <1>6, <1>8, <1>9, <1>10, Zenon DEF from, to, l, Screen!PartBlanked, Screen!Cols

-----------------------------------------------------------------------------
(* The operations of VtScreen on a terminal as its host sees it.            *)
LEMMA PutUnfolds ==
  ASSUME NEW v, NEW cell, NEW p, p = Screen!Written(v.page, v.y, v.x, cell)
  PROVE  Screen!Put(v, cell) = IF v.x < W - 1 THEN Screen!Showing(v, p, v.x + 1, v.y)
                        ELSE IF v.wrap THEN Screen!Fed(Screen!Showing(v, p, 0, v.y))
                        ELSE Screen!Showing(v, p, v.x, v.y)
<1>1. PICK m : m = Screen!Showing(v, p, v.x, v.y)
  OBVIOUS
<1>2. /\ m.page = p /\ m.x = v.x /\ m.y = v.y /\ m.wrap = v.wrap
      /\ \A a, x, y : Screen!Showing(m, a, x, y) = Screen!Showing(v, a, x, y)
  BY <1>1 DEF Screen!Showing
<1>3. Screen!Put(v, cell) = Screen!Advanced(m)
  BY <1>1, Zenon DEF Screen!Put
<1>4. Screen!Advanced(m) = IF m.x < W - 1 THEN Screen!Showing(m, m.page, m.x + 1, m.y)
                  ELSE IF m.wrap THEN Screen!Fed(Screen!Showing(m, m.page, 0, m.y)) ELSE m
  BY Zenon DEF Screen!Advanced, Screen!GoTo
<1>5. /\ Screen!Showing(m, m.page, m.x + 1, m.y) = Screen!Showing(v, p, v.x + 1, v.y)
      /\ Screen!Showing(m, m.page, 0, m.y) = Screen!Showing(v, p, 0, v.y)
  BY <1>2
<1>6. Screen!Advanced(m) = IF v.x < W - 1 THEN Screen!Showing(v, p, v.x + 1, v.y)
                  ELSE IF v.wrap THEN Screen!Fed(Screen!Showing(v, p, 0, v.y)) ELSE m
  BY <1>2, <1>4, <1>5, Zenon
<1> QED BY <1>1, <1>3, <1>6, Zenon

(* Two terminals that differ in no more than what the parser keeps, the     *)
(* page and the cursor.                                                     *)
Alike(t, u) == u.sx = t.sx /\ u.sy = t.sy /\ u.wrap = t.wrap

LEMMA ViewOf ==
  ASSUME NEW t, Bare(t)
  PROVE  /\ PageOf(t) = Lines(t.vram) /\ t.vram \in [Cells -> Text]
         /\ View(t).page = Lines(t.vram) /\ View(t).x = t.x /\ View(t).y = t.y
         /\ View(t).saved = <<t.sx, t.sy>> /\ View(t).wrap = t.wrap
         /\ t.x \in 0 .. W - 1 /\ t.y \in 0 .. H - 1 /\ t.wrap \in BOOLEAN
<1>1. t.vram \in [Cells -> Text] /\ t.under = "none"
  BY DEF Bare, Terminal
<1>2. PageOf(t) = Lines(t.vram)
  BY <1>1 DEF PageOf, TextAt, Lines
<1>3. t.x \in 0 .. W - 1 /\ t.y \in 0 .. H - 1 /\ t.wrap \in BOOLEAN
  BY DEF Bare, Sound, Terminal
<1> HIDE DEF Bare
<1> QED
  BY <1>1, <1>2, <1>3 DEF View

LEMMA ViewMoves ==
  ASSUME NEW t, Bare(t), NEW u, Bare(u), Alike(t, u), NEW p, p = Lines(u.vram)
  PROVE  View(u) = Screen!Showing(View(t), p, u.x, u.y)
<1>1. /\ PageOf(u) = p /\ View(t).saved = <<t.sx, t.sy>> /\ View(t).wrap = t.wrap
  BY ViewOf
<1> QED
  BY <1>1 DEF View, Screen!Showing, Alike

(* The operations on the bare page.                                         *)
LEMMA ColumnShows ==
  ASSUME NEW t, Bare(t), NEW px \in 0 .. W - 1
  PROVE  View([t EXCEPT !.x = px]) = Screen!Showing(View(t), View(t).page, px, View(t).y)
<1>1. PICK u : u = [t EXCEPT !.x = px]
  OBVIOUS
<1>2. Bare(u)
  BY <1>1, ColumnBare
<1>3. Alike(t, u) /\ u.vram = t.vram /\ u.x = px /\ u.y = t.y
  BY <1>1 DEF Alike, Bare, Terminal
<1>4. View(u) = Screen!Showing(View(t), Lines(t.vram), px, t.y)
  BY <1>2, <1>3, ViewMoves
<1> QED
  BY <1>1, <1>4, ViewOf

LEMMA RowShows ==
  ASSUME NEW t, Bare(t), NEW py \in 0 .. H - 1
  PROVE  View([t EXCEPT !.y = py]) = Screen!Showing(View(t), View(t).page, View(t).x, py)
<1>1. PICK u : u = [t EXCEPT !.y = py]
  OBVIOUS
<1>2. Bare(u)
  BY <1>1, RowBare
<1>3. Alike(t, u) /\ u.vram = t.vram /\ u.x = t.x /\ u.y = py
  BY <1>1 DEF Alike, Bare, Terminal
<1>4. View(u) = Screen!Showing(View(t), Lines(t.vram), t.x, py)
  BY <1>2, <1>3, ViewMoves
<1> QED
  BY <1>1, <1>4, ViewOf

LEMMA ParserShows ==
  ASSUME NEW t, Bare(t), NEW u, Bare(u), Alike(t, u), u.vram = t.vram, u.x = t.x, u.y = t.y
  PROVE  View(u) = View(t)
<1>1. PageOf(u) = PageOf(t)
  BY ViewOf
<1> QED
  BY <1>1 DEF View, Alike

LEMMA BlankShows ==
  ASSUME NEW t, Bare(t), NEW from \in Nat, NEW to \in 0 .. Size
  PROVE  View(Blank(t, from, to)) =
           Screen!Showing(View(t), Lines([o \in Cells |-> IF from <= o /\ o < to THEN "blank" ELSE t.vram[o]]),
                 View(t).x, View(t).y)
<1>1. PICK u : u = Blank(t, from, to)
  OBVIOUS
<1>2. Bare(u)
  BY <1>1, BlankBare
<1>3. /\ Alike(t, u) /\ u.x = t.x /\ u.y = t.y
      /\ u.vram = [o \in Cells |-> IF from <= o /\ o < to THEN "blank" ELSE t.vram[o]]
  BY <1>1 DEF Alike, Bare, Terminal, Blank
<1>4. View(u) = Screen!Showing(View(t), Lines(u.vram), t.x, t.y)
  BY <1>2, <1>3, ViewMoves
<1> QED
  BY <1>1, <1>3, <1>4, ViewOf, Zenon

LEMMA ClearLinesShows ==
  ASSUME NEW t, Bare(t), NEW a \in 0 .. H - 1, NEW b \in a .. H - 1
  PROVE  View(ClearLines(t, a, b)) =
           Screen!Showing(View(t), [r \in 0 .. H - 1 |-> IF r \in a .. b THEN Screen!BlankRow
                                                               ELSE View(t).page[r]],
                 View(t).x, View(t).y)
<1>1. /\ ClearLines(t, a, b) = Blank(t, a * W, (b + 1) * W)
      /\ a * W \in Nat /\ (b + 1) * W \in 0 .. Size
  BY ClearLinesIs
<1>2. t.vram \in [Cells -> Text] /\ View(t).page = Lines(t.vram)
  BY ViewOf
<1>3. View(Blank(t, a * W, (b + 1) * W)) =
        Screen!Showing(View(t), Lines([o \in Cells |-> IF a * W <= o /\ o < (b + 1) * W
                                              THEN "blank" ELSE t.vram[o]]),
              View(t).x, View(t).y)
  BY <1>1, BlankShows, Zenon
<1>4. Lines([o \in Cells |-> IF a * W <= o /\ o < (b + 1) * W THEN "blank" ELSE t.vram[o]]) =
        [r \in 0 .. H - 1 |-> IF r \in a .. b THEN Screen!BlankRow ELSE Lines(t.vram)[r]]
  BY <1>2, LinesCleared, ZenonT(60)
<1>5. [r \in 0 .. H - 1 |-> IF r \in a .. b THEN Screen!BlankRow ELSE Lines(t.vram)[r]] =
        [r \in 0 .. H - 1 |-> IF r \in a .. b THEN Screen!BlankRow ELSE View(t).page[r]]
  BY <1>2
<1> QED
  BY <1>1, <1>3, <1>4, <1>5, Zenon

(* The rows move up by one.                                                 *)
LEMMA LinesScrolled ==
  ASSUME NEW t, Bare(t), NEW j \in Junk
  PROVE  [r \in 0 .. H - 1 |-> IF r \in H - 1 .. H - 1 THEN Screen!BlankRow
                                                      ELSE Lines(MovedUp(t, j))[r]] =
           Screen!Scrolled(Lines(t.vram))
<1>1. PICK u : u = MovedUp(t, j)
  OBVIOUS
<1>2. PICK v : v = t.vram
  OBVIOUS
<1>3. H \in Nat /\ W \in Nat /\ W * (H - 1) = (H - 1) * W /\ (H - 1) * W + W = Size
      /\ W * 1 = W
  BY Products
<1>4. ASSUME NEW r \in 0 .. H - 1, r # H - 1, NEW c \in 0 .. W - 1
      PROVE  u[r * W + c] = v[(r + 1) * W + c]
  <2>1. /\ r \in Nat /\ r + 1 \in 0 .. H - 1 /\ r < H - 1 /\ H - 1 \in Nat
        /\ r * W \in Nat /\ c \in Nat /\ (r + 1) * W = r * W + W
    BY <1>3, <1>4, Products
  <2>2. r * W + c \in Cells /\ (r + 1) * W + c \in Cells
    BY <2>1, CellOf
  <2>3. r * W + c < (H - 1) * W
    BY <2>1, RowsApart
  <2>4. PICK o \in Cells : o = r * W + c
    BY <2>2
  <2>5. 0 <= o /\ o < 0 + W * (H - 1) /\ o + W * 1 = (r + 1) * W + c
    BY <1>3, <2>1, <2>3, <2>4
  <2>6. u[o] = IF 0 <= o /\ o < 0 + W * (H - 1)
               THEN IF o + W * 1 \in Cells THEN v[o + W * 1] ELSE j.cell
               ELSE v[o]
    BY <1>1, <1>2, <2>4, Zenon DEF MovedUp
  <2> QED
    BY <2>2, <2>4, <2>5, <2>6, Zenon
<1>5. ASSUME NEW r \in 0 .. H - 1, r # H - 1
      PROVE  Lines(u)[r] = Lines(v)[r + 1]
  <2>1. r + 1 \in 0 .. H - 1
    BY <1>3, <1>5
  <2>2. PICK q \in 0 .. H - 1 : q = r + 1
    BY <2>1
  <2>3. \A c \in 0 .. W - 1 : u[r * W + c] = v[q * W + c]
    BY <1>4, <1>5, <2>2
  <2>4. Lines(u)[r] = [c \in 0 .. W - 1 |-> u[r * W + c]]
    BY DEF Lines
  <2>5. Lines(v)[q] = [c \in 0 .. W - 1 |-> v[q * W + c]]
    BY DEF Lines
  <2>6. Lines(u)[r] = Lines(v)[q]
    BY <2>3, <2>4, <2>5
  <2> QED
    BY <2>2, <2>6
<1>6. ASSUME NEW r \in 0 .. H - 1
      PROVE  (IF r \in H - 1 .. H - 1 THEN Screen!BlankRow ELSE Lines(u)[r]) =
             (IF r = H - 1 THEN Screen!BlankRow ELSE Lines(v)[r + 1])
  BY <1>3, <1>5
<1>7. [r \in 0 .. H - 1 |-> IF r \in H - 1 .. H - 1 THEN Screen!BlankRow ELSE Lines(u)[r]] =
        Screen!Scrolled(Lines(v))
  BY <1>6 DEF Screen!Scrolled, Screen!Rows
<1> QED
  BY <1>1, <1>2, <1>7, Zenon

LEMMA ScrollShows ==
  ASSUME NEW t, Bare(t), NEW j \in Junk
  PROVE  View(Scroll(t, 1, j)) =
           Screen!Showing(View(t), Screen!Scrolled(View(t).page), View(t).x, View(t).y)
<1>1. H - 1 \in 0 .. H - 1 /\ H - 1 \in H - 1 .. H - 1
  BY ScreenAssumption DEF ScreenAssumption
<1>2. PICK m : /\ m = [t EXCEPT !.vram = MovedUp(t, j), !.strayed = FALSE, !.hung = FALSE]
               /\ Bare(m) /\ Scroll(t, 1, j) = ClearLines(m, H - 1, H - 1)
  BY ScrollIs
<1>3. Alike(t, m) /\ m.x = t.x /\ m.y = t.y /\ m.vram = MovedUp(t, j)
  BY <1>2 DEF Alike, Bare, Terminal
<1>4. /\ View(m).page = Lines(MovedUp(t, j)) /\ View(m).x = t.x /\ View(m).y = t.y
      /\ View(m).saved = View(t).saved /\ View(m).wrap = View(t).wrap
  BY <1>2, <1>3, ViewOf, ZenonT(60) DEF Alike
<1>5. View(ClearLines(m, H - 1, H - 1)) =
        Screen!Showing(View(m), [r \in 0 .. H - 1 |-> IF r \in H - 1 .. H - 1 THEN Screen!BlankRow
                                                                    ELSE View(m).page[r]],
              View(m).x, View(m).y)
  BY <1>1, <1>2, ClearLinesShows, Zenon
<1>6. [r \in 0 .. H - 1 |-> IF r \in H - 1 .. H - 1 THEN Screen!BlankRow ELSE View(m).page[r]] =
        [r \in 0 .. H - 1 |-> IF r \in H - 1 .. H - 1 THEN Screen!BlankRow
                                                     ELSE Lines(MovedUp(t, j))[r]]
  BY <1>4
<1>7. View(ClearLines(m, H - 1, H - 1)) =
        Screen!Showing(View(m), Screen!Scrolled(Lines(t.vram)), View(m).x, View(m).y)
  BY <1>5, <1>6, LinesScrolled, Zenon
<1>8. \A p, x, y : Screen!Showing(View(m), p, x, y) = Screen!Showing(View(t), p, x, y)
  BY <1>4, Zenon DEF Screen!Showing
<1>9. View(t).page = Lines(t.vram) /\ View(t).x = t.x /\ View(t).y = t.y
  BY ViewOf
<1>10. View(Scroll(t, 1, j)) = Screen!Showing(View(m), Screen!Scrolled(Lines(t.vram)), View(m).x, View(m).y)
  BY <1>2, <1>7, Zenon
<1>11. View(Scroll(t, 1, j)) = Screen!Showing(View(t), Screen!Scrolled(Lines(t.vram)), View(m).x, View(m).y)
  BY <1>8, <1>10, Zenon
<1> QED
  BY <1>4, <1>9, <1>11, Zenon

(* One row down, and the other motions by one.                              *)
LEMMA MoveRowsShows ==
  ASSUME NEW t, Bare(t), NEW j \in Junk
  PROVE  /\ View(MoveRows(t, 1, j)) = Screen!Fed(View(t))
         /\ t.y > 0 => View(MoveRows(t, -1, j)) = Screen!FedBack(View(t))
<1>1. /\ H \in Nat /\ IntHalf \in Nat /\ IntHalf > H
      /\ t.y \in 0 .. H - 1 /\ t.top = 0 /\ t.bot = H
  BY ScreenAssumption DEF ScreenAssumption, Bare, Sound
<1>2. Int16(t.y + 1) = t.y + 1 /\ Int16(t.y + -1) = t.y - 1
  <2>1. t.y + 1 \in -IntHalf .. IntHalf - 1 /\ t.y + -1 \in -IntHalf .. IntHalf - 1
    BY <1>1
  <2>2. t.y + -1 = t.y - 1
    BY <1>1
  <2> QED BY <2>1, <2>2, InRange
<1>3. View(MoveRows(t, 1, j)) = Screen!Fed(View(t))
  <2>1. CASE t.y = H - 1
    <3>1. (t.y + 1 - H) + 1 = 1 /\ H - 1 \in 0 .. H - 1 /\ t.y + 1 >= H
      BY <1>1, <2>1
    <3>2. MoveRows(t, 1, j) = Scroll([t EXCEPT !.y = H - 1], 1, j)
      BY <1>1, <1>2, <3>1 DEF MoveRows
    <3>3. [t EXCEPT !.y = H - 1] = t
      BY <2>1 DEF Bare, Terminal
    <3>4. View(t).y = H - 1
      BY <2>1, ViewOf
    <3> QED
      BY <3>2, <3>3, <3>4, ScrollShows DEF Screen!Fed, Screen!GoTo
  <2>2. CASE t.y # H - 1
    <3>1. t.y + 1 \in 0 .. H - 1 /\ ~(t.y + 1 >= H) /\ ~(t.y + 1 < 0)
      BY <1>1, <2>2
    <3>2. MoveRows(t, 1, j) = [t EXCEPT !.y = t.y + 1]
      BY <1>1, <1>2, <3>1 DEF MoveRows
    <3>3. View(t).y = t.y
      BY ViewOf
    <3>4. View([t EXCEPT !.y = t.y + 1]) = Screen!Showing(View(t), View(t).page, View(t).x, t.y + 1)
      BY <3>1, RowShows
    <3> QED
      BY <2>2, <3>2, <3>3, <3>4 DEF Screen!Fed, Screen!GoTo
  <2> QED
    BY <2>1, <2>2
<1>4. ASSUME t.y > 0 PROVE View(MoveRows(t, -1, j)) = Screen!FedBack(View(t))
  <2>1. ~(t.y - 1 >= H) /\ ~(t.y - 1 < 0) /\ t.y - 1 \in 0 .. H - 1 /\ t.y # 0
    BY <1>1, <1>4
  <2>2. MoveRows(t, -1, j) = [t EXCEPT !.y = t.y - 1]
    BY <1>1, <1>2, <2>1 DEF MoveRows
  <2>3. View(t).y = t.y
    BY ViewOf
  <2>4. View([t EXCEPT !.y = t.y - 1]) = Screen!Showing(View(t), View(t).page, View(t).x, t.y - 1)
    BY <2>1, RowShows
  <2> QED
    BY <2>1, <2>2, <2>3, <2>4 DEF Screen!FedBack, Screen!GoTo
<1> QED
  BY <1>3, <1>4

LEMMA MoveShows ==
  ASSUME NEW t, Bare(t), NEW j \in Junk
  PROVE  /\ View(Move(t, 0, 1, j)) = Screen!Fed(View(t))
         /\ t.y > 0 => View(Move(t, 0, -1, j)) = Screen!FedBack(View(t))
         /\ t.x > 0 => View(Move(t, -1, 0, j)) = Screen!Showing(View(t), View(t).page, t.x - 1, View(t).y)
         /\ View(Move(t, 1, 0, j)) =
              IF t.x < W - 1 THEN Screen!Showing(View(t), View(t).page, t.x + 1, View(t).y)
              ELSE IF t.wrap THEN Screen!Fed(Screen!Showing(View(t), View(t).page, 0, View(t).y))
              ELSE Screen!Showing(View(t), View(t).page, t.x, View(t).y)
<1>1. /\ W \in Nat /\ IntHalf \in Nat /\ W >= 2 /\ IntHalf > W
      /\ t.x \in 0 .. W - 1 /\ t.wrap \in BOOLEAN /\ t \in Terminal
  BY ScreenAssumption DEF ScreenAssumption, Bare, Sound, Terminal
<1>2. ASSUME NEW dx \in -1 .. 1, NEW dy \in Int, t.x + dx >= 0
      PROVE  /\ Int16(t.x + dx) = t.x + dx
             /\ Move(t, dx, dy, j) =
                  MoveRows([t EXCEPT !.x = Column(t, t.x + dx)], dy + RowsAdded(t, t.x + dx), j)
  <2>1. t.x + dx \in -IntHalf .. IntHalf - 1
    BY <1>1, <1>2
  <2>2. Int16(t.x + dx) = t.x + dx
    BY <2>1, InRange
  <2> QED
    BY <2>2 DEF Move
<1>3. ASSUME NEW nx \in 0 .. W - 1
      PROVE  Column(t, nx) = nx /\ RowsAdded(t, nx) = 0
  <2>1. ~(nx >= W) /\ ~(nx < 0)
    BY <1>1
  <2> QED
    BY <2>1 DEF Column, RowsAdded
<1>4. [t EXCEPT !.x = t.x] = t
  BY <1>1 DEF Terminal
<1>5. ASSUME NEW u PROVE MoveRows(u, 0, j) = u
  BY DEF MoveRows
<1>6. Move(t, 0, 1, j) = MoveRows(t, 1, j) /\ Move(t, 0, -1, j) = MoveRows(t, -1, j)
  <2>1. ASSUME NEW dy \in Int PROVE Move(t, 0, dy, j) = MoveRows(t, dy, j)
    <3>1. 0 \in -1 .. 1 /\ t.x + 0 = t.x /\ t.x >= 0 /\ dy + 0 = dy
      BY <1>1
    <3>2. Move(t, 0, dy, j) =
            MoveRows([t EXCEPT !.x = Column(t, t.x + 0)], dy + RowsAdded(t, t.x + 0), j)
      BY <1>2, <3>1
    <3>3. Column(t, t.x) = t.x /\ RowsAdded(t, t.x) = 0
      BY <1>1, <1>3
    <3> QED
      BY <1>4, <3>1, <3>2, <3>3
  <2> QED
    BY <2>1
<1>7. ASSUME t.x > 0
      PROVE  View(Move(t, -1, 0, j)) = Screen!Showing(View(t), View(t).page, t.x - 1, View(t).y)
  <2>1. -1 \in -1 .. 1 /\ t.x + -1 = t.x - 1 /\ t.x - 1 \in 0 .. W - 1 /\ t.x + -1 >= 0
    BY <1>1, <1>7
  <2>2. Move(t, -1, 0, j) = MoveRows([t EXCEPT !.x = t.x - 1], 0, j)
    BY <1>2, <1>3, <2>1
  <2> QED
    BY <1>5, <2>1, <2>2, ColumnShows
<1>8. CASE t.x < W - 1
  <2>1. 1 \in -1 .. 1 /\ t.x + 1 \in 0 .. W - 1 /\ t.x + 1 >= 0
    BY <1>1, <1>8
  <2>2. Move(t, 1, 0, j) = MoveRows([t EXCEPT !.x = t.x + 1], 0, j)
    BY <1>2, <1>3, <2>1
  <2>3. View(Move(t, 1, 0, j)) = Screen!Showing(View(t), View(t).page, t.x + 1, View(t).y)
    BY <1>5, <2>1, <2>2, ColumnShows
  <2> QED
    BY <1>6, <1>7, <1>8, <2>3, MoveRowsShows
<1>9. CASE t.x = W - 1 /\ ~t.wrap
  <2>1. /\ 1 \in -1 .. 1 /\ t.x + 1 = W /\ t.x + 1 >= 0 /\ W - 1 \in 0 .. W - 1
        /\ ~(W < 0) /\ W >= W /\ ~(t.x < W - 1)
    BY <1>1, <1>9
  <2>2. Column(t, W) = W - 1 /\ RowsAdded(t, W) = 0
    BY <1>9, <2>1 DEF Column, RowsAdded
  <2>3. Move(t, 1, 0, j) = MoveRows([t EXCEPT !.x = W - 1], 0, j)
    BY <1>2, <2>1, <2>2
  <2>4. View(Move(t, 1, 0, j)) = Screen!Showing(View(t), View(t).page, t.x, View(t).y)
    BY <1>5, <1>9, <2>1, <2>3, ColumnShows
  <2> QED
    BY <1>6, <1>7, <1>9, <2>1, <2>4, MoveRowsShows
<1>10. CASE t.x = W - 1 /\ t.wrap
  <2>1. /\ 1 \in -1 .. 1 /\ t.x + 1 = W /\ t.x + 1 >= 0 /\ 0 \in 0 .. W - 1
        /\ W % W = 0 /\ W \div W = 1 /\ ~(W < 0) /\ W >= W /\ ~(t.x < W - 1)
    BY <1>1, <1>10
  <2>2. Column(t, W) = W % W /\ RowsAdded(t, W) = W \div W
    BY <1>10, <2>1 DEF Column, RowsAdded
  <2>3. PICK u : u = [t EXCEPT !.x = 0]
    OBVIOUS
  <2>4. Move(t, 1, 0, j) = MoveRows(u, 1, j)
    BY <1>2, <2>1, <2>2, <2>3
  <2>5. Bare(u) /\ View(u) = Screen!Showing(View(t), View(t).page, 0, View(t).y)
    BY <2>1, <2>3, ColumnBare, ColumnShows
  <2>6. View(Move(t, 1, 0, j)) = Screen!Fed(Screen!Showing(View(t), View(t).page, 0, View(t).y))
    BY <2>4, <2>5, MoveRowsShows
  <2> QED
    BY <1>6, <1>7, <1>10, <2>1, <2>6, MoveRowsShows
<1> QED
  BY <1>1, <1>8, <1>9, <1>10

(* A character at the cursor.                                               *)
LEMMA PutShows ==
  ASSUME NEW t, Bare(t), NEW cell \in Text, NEW j \in Junk
  PROVE  View(PutCell(t, cell, j)) = Screen!Put(View(t), cell)
<1> DEFINE p == [Poke(t, Offset(t), cell) EXCEPT !.under = "none",
                                                 !.hung  = @ \/ Offset(t) >= Size]
<1>1. /\ Bare(p) /\ p.x = t.x /\ p.wrap = t.wrap
      /\ p = [t EXCEPT !.vram = [t.vram EXCEPT ![Offset(t)] = cell],
                       !.strayed = FALSE, !.under = "none", !.hung = FALSE]
  BY PokeBare
<1>2. PutCell(t, cell, j) = IF p.hung THEN p ELSE Move(p, 1, 0, j)
  BY DEF PutCell
<1> HIDE DEF p
<1>3. PutCell(t, cell, j) = Move(p, 1, 0, j)
  BY <1>1, <1>2 DEF Bare, Sound
<1>4. /\ Alike(t, p) /\ p.y = t.y /\ p.vram = [t.vram EXCEPT ![t.y * W + t.x] = cell]
  BY <1>1 DEF Alike, Bare, Terminal, Offset
<1>5. /\ View(t).page = Lines(t.vram) /\ View(t).x = t.x /\ View(t).y = t.y
      /\ View(t).wrap = t.wrap
      /\ t.vram \in [Cells -> Text] /\ t.x \in 0 .. W - 1 /\ t.y \in 0 .. H - 1
  BY ViewOf
<1>6. Lines(p.vram) = Screen!Written(View(t).page, t.y, t.x, cell)
  <2>1. Lines(Poked(t.vram, t.y, t.x, cell)) = Screen!Written(Lines(t.vram), t.y, t.x, cell)
    BY <1>5, LinesPoked
  <2>2. p.vram = Poked(t.vram, t.y, t.x, cell)
    BY <1>4 DEF Poked
  <2> QED
    BY <1>5, <2>1, <2>2, Zenon
<1>7. PICK q : q = Screen!Written(View(t).page, t.y, t.x, cell)
  OBVIOUS
<1>8. View(p) = Screen!Showing(View(t), q, t.x, t.y)
  <2>1. q = Lines(p.vram)
    BY <1>6, <1>7, Zenon
  <2>2. Bare(p) /\ Alike(t, p)
    BY <1>1, <1>4, Zenon
  <2>3. View(p) = Screen!Showing(View(t), q, p.x, p.y)
    BY <2>1, <2>2, ViewMoves
  <2> QED
    BY <1>1, <1>4, <2>3, Zenon
<1>9. /\ View(p).page = q /\ View(p).y = t.y /\ p.wrap = t.wrap /\ p.x = t.x
  BY <1>1, <1>8 DEF Screen!Showing
<1>10. \A a, x, y : Screen!Showing(View(p), a, x, y) = Screen!Showing(View(t), a, x, y)
  BY <1>8 DEF Screen!Showing
<1>11. View(Move(p, 1, 0, j)) =
              IF t.x < W - 1 THEN Screen!Showing(View(t), q, t.x + 1, t.y)
              ELSE IF t.wrap THEN Screen!Fed(Screen!Showing(View(t), q, 0, t.y))
              ELSE Screen!Showing(View(t), q, t.x, t.y)
  <2>1. View(Move(p, 1, 0, j)) =
          IF p.x < W - 1 THEN Screen!Showing(View(p), View(p).page, p.x + 1, View(p).y)
          ELSE IF p.wrap THEN Screen!Fed(Screen!Showing(View(p), View(p).page, 0, View(p).y))
          ELSE Screen!Showing(View(p), View(p).page, p.x, View(p).y)
    BY <1>1, MoveShows, Zenon
  <2>2. View(Move(p, 1, 0, j)) =
          IF t.x < W - 1 THEN Screen!Showing(View(p), q, t.x + 1, t.y)
          ELSE IF t.wrap THEN Screen!Fed(Screen!Showing(View(p), q, 0, t.y))
          ELSE Screen!Showing(View(p), q, t.x, t.y)
    BY <1>9, <2>1, Zenon
  <2> QED
    BY <1>10, <2>2, Zenon
<1>12. Screen!Put(View(t), cell) =
              IF t.x < W - 1 THEN Screen!Showing(View(t), q, t.x + 1, t.y)
              ELSE IF t.wrap THEN Screen!Fed(Screen!Showing(View(t), q, 0, t.y))
              ELSE Screen!Showing(View(t), q, t.x, t.y)
  BY <1>5, <1>7, PutUnfolds, Zenon
<1> QED
  BY <1>3, <1>11, <1>12, Zenon

-----------------------------------------------------------------------------
-----------------------------------------------------------------------------
(* Whatever the screen does, the parser stays in its state.                 *)
LEMMA ClearLinesKeeps ==
  ASSUME NEW t, Bare(t), NEW a \in 0 .. H - 1, NEW b \in a .. H - 1
  PROVE  ClearLines(t, a, b).state = t.state
<1>1. ClearLines(t, a, b) = Blank(t, a * W, (b + 1) * W)
  BY ClearLinesIs
<1>2. \A from, to : Blank(t, from, to).state = t.state
  BY DEF Blank, Bare, Terminal
<1> QED BY <1>1, <1>2

LEMMA ScrollKeeps ==
  ASSUME NEW t, Bare(t), NEW j \in Junk
  PROVE  Scroll(t, 1, j).state = t.state
<1>1. H - 1 \in 0 .. H - 1 /\ H - 1 \in H - 1 .. H - 1
  BY ScreenAssumption DEF ScreenAssumption
<1>2. PICK m : /\ m = [t EXCEPT !.vram = MovedUp(t, j), !.strayed = FALSE, !.hung = FALSE]
               /\ Bare(m) /\ Scroll(t, 1, j) = ClearLines(m, H - 1, H - 1)
  BY ScrollIs
<1>3. m.state = t.state
  BY <1>2 DEF Bare, Terminal
<1>4. ClearLines(m, H - 1, H - 1).state = m.state
  BY <1>1, <1>2, ClearLinesKeeps
<1> QED BY <1>2, <1>3, <1>4

LEMMA MoveRowsKeeps ==
  ASSUME NEW t, Bare(t), NEW j \in Junk, NEW down \in -1 .. 1
  PROVE  MoveRows(t, down, j).state = t.state
<1>1. /\ H \in Nat /\ IntHalf \in Nat /\ IntHalf > H
      /\ t.y \in 0 .. H - 1 /\ t.top = 0 /\ t.bot = H
  BY ScreenAssumption DEF ScreenAssumption, Bare, Sound
<1>2. PICK ny \in -1 .. H : ny = t.y + down /\ Int16(t.y + down) = ny
  <2>1. t.y + down \in -1 .. H /\ t.y + down \in -IntHalf .. IntHalf - 1
    BY <1>1
  <2> QED BY <2>1, InRange
<1>3. \A y : [t EXCEPT !.y = y].state = t.state
  BY DEF Bare, Terminal
<1>4. CASE down # 0 /\ ny >= H
  <2>1. (ny - H) + 1 = 1 /\ H - 1 \in 0 .. H - 1
    BY <1>1, <1>4
  <2>2. MoveRows(t, down, j) = Scroll([t EXCEPT !.y = H - 1], 1, j)
    BY <1>1, <1>2, <1>4, <2>1 DEF MoveRows
  <2>3. PICK u : u = [t EXCEPT !.y = H - 1]
    OBVIOUS
  <2>4. Bare(u) /\ u.state = t.state
    BY <1>3, <2>1, <2>3, RowBare
  <2>5. Scroll(u, 1, j).state = u.state
    BY <2>4, ScrollKeeps
  <2> QED BY <2>2, <2>3, <2>4, <2>5
<1>5. CASE down # 0 /\ ny < H
  <2>1. MoveRows(t, down, j) = [t EXCEPT !.y = IF ny < 0 THEN 0 ELSE ny]
    BY <1>1, <1>2, <1>5 DEF MoveRows
  <2> QED BY <1>3, <2>1
<1>6. CASE down = 0
  BY <1>6 DEF MoveRows
<1> QED BY <1>1, <1>4, <1>5, <1>6

LEMMA MoveKeeps ==
  ASSUME NEW t, Bare(t), NEW j \in Junk,
         NEW dx \in -1 .. 1, NEW dy \in -1 .. 1, dx = 0 \/ dy = 0, t.x + dx >= 0
  PROVE  Move(t, dx, dy, j).state = t.state
<1>1. /\ W \in Nat /\ IntHalf \in Nat /\ W >= 2 /\ IntHalf > W
      /\ t.x \in 0 .. W - 1 /\ t.wrap \in BOOLEAN
  BY ScreenAssumption DEF ScreenAssumption, Bare, Sound, Terminal
<1>2. PICK nx \in 0 .. W : nx = t.x + dx /\ Int16(t.x + dx) = nx
  <2>1. t.x + dx \in 0 .. W /\ t.x + dx \in -IntHalf .. IntHalf - 1
    BY <1>1
  <2> QED BY <2>1, InRange
<1>3. Column(t, nx) \in 0 .. W - 1 /\ dy + RowsAdded(t, nx) \in -1 .. 1
  <2>1. CASE nx < W
    BY <1>1, <1>2, <2>1 DEF Column, RowsAdded
  <2>2. CASE nx = W
    <3>1. dy = 0 /\ W % W = 0 /\ W \div W = 1 /\ ~(W < 0) /\ W >= W
      BY <1>1, <1>2, <2>2
    <3> QED BY <1>1, <2>2, <3>1 DEF Column, RowsAdded
  <2> QED BY <1>1, <2>1, <2>2
<1>4. Move(t, dx, dy, j) = MoveRows([t EXCEPT !.x = Column(t, nx)], dy + RowsAdded(t, nx), j)
  BY <1>2 DEF Move
<1>5. PICK u : u = [t EXCEPT !.x = Column(t, nx)]
  OBVIOUS
<1>6. Bare(u) /\ u.state = t.state
  <2>1. Bare(u)
    BY <1>3, <1>5, ColumnBare
  <2> QED BY <1>5, <2>1 DEF Bare, Terminal
<1>7. PICK down \in -1 .. 1 : down = dy + RowsAdded(t, nx)
  BY <1>3
<1>8. MoveRows(u, down, j).state = u.state
  BY <1>6, MoveRowsKeeps
<1> QED BY <1>4, <1>5, <1>6, <1>7, <1>8

LEMMA PutCellKeeps ==
  ASSUME NEW t, Bare(t), NEW cell \in Text, NEW j \in Junk
  PROVE  PutCell(t, cell, j).state = t.state
<1> DEFINE p == [Poke(t, Offset(t), cell) EXCEPT !.under = "none",
                                                 !.hung  = @ \/ Offset(t) >= Size]
<1>1. /\ Bare(p)
      /\ p = [t EXCEPT !.vram = [t.vram EXCEPT ![Offset(t)] = cell],
                       !.strayed = FALSE, !.under = "none", !.hung = FALSE]
  BY PokeBare
<1>2. PutCell(t, cell, j) = IF p.hung THEN p ELSE Move(p, 1, 0, j)
  BY DEF PutCell
<1> HIDE DEF p
<1>3. PutCell(t, cell, j) = Move(p, 1, 0, j)
  BY <1>1, <1>2 DEF Bare, Sound
<1>4. p.state = t.state
  BY <1>1 DEF Bare, Terminal
<1>5. 1 \in -1 .. 1 /\ 0 \in -1 .. 1 /\ p.x + 1 >= 0
  BY <1>1, ScreenAssumption DEF ScreenAssumption, Bare, Sound
<1>6. Move(p, 1, 0, j).state = p.state
  BY <1>1, <1>5, MoveKeeps
<1> QED BY <1>3, <1>4, <1>6

LEMMA TabKeeps ==
  ASSUME NEW t, Bare(t), NEW j \in Junk
  PROVE  Tab(t, j).state = t.state
<1> DEFINE toPut   == IF t.x >= 0 THEN 4 - (t.x % 4) ELSE 4 + ((-t.x) % 4)
           Two(s)  == PutBlank(PutBlank(s, j), j)
           odd     == IF toPut % 2 = 1 THEN PutBlank(t, j) ELSE t
           evened  == IF toPut % 4 >= 2 THEN Two(odd) ELSE odd
<1>1. ASSUME NEW s, Bare(s)
      PROVE  Bare(PutBlank(s, j)) /\ PutBlank(s, j).state = s.state
  <2>1. PutBlank(s, j) = PutCell(s, "blank", j)
    BY <1>1 DEF PutBlank, Bare, Sound
  <2> QED BY <1>1, <2>1, PutBlankBare, PutCellKeeps DEF Text
<1>2. ASSUME NEW s, Bare(s) PROVE Bare(Two(s)) /\ Two(s).state = s.state
  BY <1>1, <1>2
<1>3. Tab(t, j) = IF toPut >= 4 THEN Two(Two(evened)) ELSE evened
  BY DEF Tab
<1> HIDE DEF toPut
<1>4. Bare(odd) /\ odd.state = t.state
  BY <1>1
<1> HIDE DEF odd, Two
<1>5. Bare(evened) /\ evened.state = t.state
  BY <1>2, <1>4
<1> HIDE DEF evened
<1> QED BY <1>2, <1>3, <1>5

(* Plain text leaves the parser where it is, but ESC begins a sequence.     *)
LEMMA DoIdleKeeps ==
  ASSUME NEW t, Bare(t), NEW j \in Junk, NEW c,
         c = "BS" => t.x > 0, c = "DEL" => ~(t.wrap /\ t.x = W - 1)
  PROVE  DoIdle(t, c, j).state = IF c = "ESC" THEN "escape" ELSE t.state
<1>0. /\ t.x \in 0 .. W - 1 /\ W \in Nat /\ 0 \in 0 .. W - 1
      /\ 0 \in -1 .. 1 /\ 1 \in -1 .. 1 /\ -1 \in -1 .. 1
  BY ScreenAssumption DEF ScreenAssumption, Bare, Sound
<1>1. ASSUME NEW u, Bare(u) PROVE \A x : [u EXCEPT !.x = x].state = u.state
  BY <1>1 DEF Bare, Terminal
<1>2. CASE c = "LF"
  <2>1. Bare(Move(t, 0, 1, j)) /\ Move(t, 0, 1, j).state = t.state
    BY <1>0, MoveBare, MoveKeeps
  <2>2. DoIdle(t, c, j) = [Move(t, 0, 1, j) EXCEPT !.x = 0]
    BY <1>2 DEF DoIdle
  <2> QED BY <1>1, <1>2, <2>1, <2>2
<1>3. CASE c = "CR"
  BY <1>1, <1>3 DEF DoIdle
<1>4. CASE c = "BS"
  <2>1. t.x + -1 >= 0
    BY <1>0, <1>4
  <2> QED BY <1>0, <1>4, <2>1, MoveKeeps DEF DoIdle
<1>5. CASE c = "DEL"
  <2>1. PICK put : put = PutCell(t, "blank", j)
    OBVIOUS
  <2>2. Bare(put) /\ put.x >= 1 /\ put.state = t.state
    BY <1>5, <2>1, PutCellBare, PutCellKeeps DEF Text
  <2>3. DoIdle(t, c, j) = Move(put, -1, 0, j)
    <3>1. DoIdle(t, c, j) = IF put.hung THEN put ELSE Move(put, -1, 0, j)
      BY <1>5, <2>1 DEF DoIdle
    <3> QED BY <2>2, <3>1 DEF Bare, Sound
  <2>4. put.x + -1 >= 0
    BY <2>2 DEF Bare, Sound
  <2> QED BY <1>0, <1>5, <2>2, <2>3, <2>4, MoveKeeps
<1>6. CASE c = "TAB"
  BY <1>6, TabKeeps DEF DoIdle
<1>7. CASE c \in {"ENQ", "BEL"}
  BY <1>7 DEF DoIdle
<1>8. CASE c = "ESC"
  <2>1. DoIdle(t, c, j) = [t EXCEPT !.state = "escape"]
    BY <1>8 DEF DoIdle
  <2> QED BY <1>8, <2>1 DEF Bare, Terminal
<1>9. CASE c \notin {"LF", "CR", "BS", "DEL", "TAB", "ENQ", "BEL", "ESC"}
  BY <1>9, PutCellKeeps DEF DoIdle, Text
<1> QED BY <1>2, <1>3, <1>4, <1>5, <1>6, <1>7, <1>8, <1>9

-----------------------------------------------------------------------------
(* The operations of the handlers.                                          *)
LEMMA IdleShows ==
  ASSUME NEW t, Bare(t)
  PROVE  /\ Bare(Idle(t)) /\ View(Idle(t)) = View(t)
         /\ \A state \in States \ {"command_arg"} :
              View([t EXCEPT !.state = state]) = View(t) /\ View(Begin(t, state)) = View(t)
<1>1. ASSUME NEW state \in States \ {"command_arg"}
      PROVE  View([t EXCEPT !.state = state]) = View(t)
  <2>1. PICK u : u = [t EXCEPT !.state = state]
    OBVIOUS
  <2>2. Bare(u)
    BY <2>1, ParserBare
  <2>3. Alike(t, u) /\ u.vram = t.vram /\ u.x = t.x /\ u.y = t.y
    BY <2>1 DEF Alike, Bare, Terminal
  <2> QED
    BY <2>1, <2>2, <2>3, ParserShows
<1>2. ASSUME NEW state \in States \ {"command_arg"}
      PROVE  View(Begin(t, state)) = View(t)
  <2>1. PICK u : u = Begin(t, state)
    OBVIOUS
  <2>2. Bare(u)
    BY <2>1, ParserBare
  <2>3. Alike(t, u) /\ u.vram = t.vram /\ u.x = t.x /\ u.y = t.y
    BY <2>1 DEF Alike, Bare, Terminal, Begin
  <2> QED
    BY <2>1, <2>2, <2>3, ParserShows
<1>3. "idle" \in States \ {"command_arg"}
  BY DEF States
<1> QED
  BY <1>1, <1>2, <1>3, IdleBare DEF Idle

LEMMA SaveRestoreShows ==
  ASSUME NEW t, Bare(t)
  PROVE  /\ View(Save(t)) = Screen!Saving(View(t)) /\ View(Restore(t)) = Screen!Restoring(View(t))
         /\ View(ResetScroll(t)) = View(t) /\ View(Reset(t)) = Screen!Home(View(t))
<1>1. /\ Bare(Save(t)) /\ Bare(Restore(t)) /\ Bare(ResetScroll(t)) /\ Bare(Reset(t))
      /\ View(t).page = Lines(t.vram) /\ View(t).x = t.x /\ View(t).y = t.y
      /\ View(t).saved = <<t.sx, t.sy>> /\ View(t).wrap = t.wrap /\ t \in Terminal
  BY SaveRestoreBare, ViewOf DEF Bare
<1>2. View(Save(t)) = Screen!Saving(View(t))
  <2>1. PICK u : u = Save(t)
    OBVIOUS
  <2>2. /\ u.vram = t.vram /\ u.x = t.x /\ u.y = t.y /\ u.wrap = t.wrap
        /\ u.sx = t.x /\ u.sy = t.y
    BY <1>1, <2>1 DEF Save, Terminal
  <2>3. PageOf(u) = Lines(t.vram)
    BY <1>1, <2>1, <2>2, ViewOf
  <2>4. View(u) = [page |-> Lines(t.vram), x |-> t.x, y |-> t.y, saved |-> <<t.x, t.y>>,
                   wrap |-> t.wrap]
    BY <2>2, <2>3 DEF View
  <2> QED
    BY <1>1, <2>1, <2>4 DEF Screen!Saving
<1>3. View(Restore(t)) = Screen!Restoring(View(t))
  <2>1. PICK u : u = Restore(t)
    OBVIOUS
  <2>2. u.vram = t.vram /\ u.x = t.sx /\ u.y = t.sy /\ Alike(t, u)
    BY <1>1, <2>1 DEF Restore, Terminal, Alike
  <2>3. View(u) = Screen!Showing(View(t), Lines(t.vram), t.sx, t.sy)
    BY <1>1, <2>1, <2>2, ViewMoves
  <2> QED
    BY <1>1, <2>1, <2>3 DEF Screen!Restoring, Screen!GoTo
<1>4. View(ResetScroll(t)) = View(t)
  <2>1. PICK u : u = ResetScroll(t)
    OBVIOUS
  <2>2. u.vram = t.vram /\ u.x = t.x /\ u.y = t.y /\ Alike(t, u)
    BY <1>1, <2>1 DEF ResetScroll, Terminal, Alike
  <2> QED
    BY <1>1, <2>1, <2>2, ParserShows
<1>5. View(Reset(t)) = Screen!Home(View(t))
  <2>1. PICK u : u = Reset(t)
    OBVIOUS
  <2>2. /\ u.vram = t.vram /\ u.x = 0 /\ u.y = 0 /\ u.wrap = FALSE
        /\ u.sx = 0 /\ u.sy = 0
    BY <1>1, <2>1 DEF Reset, ResetScroll, Terminal
  <2>3. PageOf(u) = Lines(t.vram)
    BY <1>1, <2>1, <2>2, ViewOf
  <2>4. View(u) = [page |-> Lines(t.vram), x |-> 0, y |-> 0, saved |-> <<0, 0>>, wrap |-> FALSE]
    BY <2>2, <2>3 DEF View
  <2> QED
    BY <1>1, <2>1, <2>4 DEF Screen!Home
<1> QED
  BY <1>2, <1>3, <1>4, <1>5

(* Blanks up to the next tabulator.                                         *)
LEMMA TabShows ==
  ASSUME NEW t, Bare(t), NEW j \in Junk
  PROVE  View(Tab(t, j)) = Screen!Tabbed(View(t))
<1> DEFINE One(s)  == PutBlank(s, j)
           Two(s)  == PutBlank(PutBlank(s, j), j)
<1>1. ASSUME NEW s, Bare(s)
      PROVE  Bare(PutBlank(s, j)) /\ View(PutBlank(s, j)) = Screen!Put(View(s), "blank")
  <2>1. PutBlank(s, j) = PutCell(s, "blank", j)
    BY <1>1 DEF PutBlank, Bare, Sound
  <2> QED
    BY <1>1, <2>1, PutBlankBare, PutShows DEF Text
<1>2. PICK a, b, c, d : /\ a = PutBlank(t, j) /\ b = PutBlank(a, j)
                        /\ c = PutBlank(b, j) /\ d = PutBlank(c, j)
  OBVIOUS
<1>3. /\ Bare(a) /\ Bare(b) /\ Bare(c) /\ Bare(d)
      /\ View(a) = Screen!Put(View(t), "blank") /\ View(b) = Screen!Put(View(a), "blank")
      /\ View(c) = Screen!Put(View(b), "blank") /\ View(d) = Screen!Put(View(c), "blank")
  <2>1. Bare(a) /\ View(a) = Screen!Put(View(t), "blank")
    BY <1>1, <1>2
  <2>2. Bare(b) /\ View(b) = Screen!Put(View(a), "blank")
    BY <1>1, <1>2, <2>1
  <2>3. Bare(c) /\ View(c) = Screen!Put(View(b), "blank")
    BY <1>1, <1>2, <2>2
  <2>4. Bare(d) /\ View(d) = Screen!Put(View(c), "blank")
    BY <1>1, <1>2, <2>3
  <2> QED
    BY <2>1, <2>2, <2>3, <2>4
<1>4. t.x \in Nat /\ View(t).x = t.x
  BY ViewOf
<1>5. PICK n \in 1 .. 4 : n = 4 - (t.x % 4)
  BY <1>4
<1>6. Tab(t, j) = CASE n = 1 -> a [] n = 2 -> b [] n = 3 -> c [] OTHER -> d
  <2>1. t.x >= 0
    BY <1>4
  <2>2. CASE n = 1
    <3>1. n % 2 = 1 /\ ~(n % 4 >= 2) /\ ~(n >= 4) /\ n # 2 /\ n # 3
      BY <2>2
    <3> QED
      BY <1>2, <1>5, <2>1, <2>2, <3>1, Zenon DEF Tab
  <2>3. CASE n = 2
    <3>1. ~(n % 2 = 1) /\ n % 4 >= 2 /\ ~(n >= 4) /\ n # 1 /\ n # 3
      BY <2>3
    <3> QED
      BY <1>2, <1>5, <2>1, <2>3, <3>1, Zenon DEF Tab
  <2>4. CASE n = 3
    <3>1. n % 2 = 1 /\ n % 4 >= 2 /\ ~(n >= 4) /\ n # 1 /\ n # 2
      BY <2>4
    <3> QED
      BY <1>2, <1>5, <2>1, <2>4, <3>1, Zenon DEF Tab
  <2>5. CASE n = 4
    <3>1. ~(n % 2 = 1) /\ ~(n % 4 >= 2) /\ n >= 4 /\ n # 1 /\ n # 2 /\ n # 3
      BY <2>5
    <3> QED
      BY <1>2, <1>5, <2>1, <2>5, <3>1, Zenon DEF Tab
  <2> QED
    BY <2>2, <2>3, <2>4, <2>5
<1>7. (n = 1 <=> t.x % 4 = 3) /\ (n = 2 <=> t.x % 4 = 2) /\ (n = 3 <=> t.x % 4 = 1)
  BY <1>4, <1>5
<1>8. View(Tab(t, j)) =
        CASE t.x % 4 = 3 -> View(a) [] t.x % 4 = 2 -> View(b)
          [] t.x % 4 = 1 -> View(c) [] OTHER -> View(d)
  BY <1>6, <1>7
<1> QED
  BY <1>3, <1>4, <1>8, Zenon DEF Screen!Tabbed


(* A line feed that goes back to the first column.                          *)
LEMMA FedHomeShows ==
  ASSUME NEW t, Bare(t), NEW u, Bare(u), View(u) = Screen!Fed(View(t))
  PROVE  View([u EXCEPT !.x = 0]) = Screen!GoTo(Screen!Fed(View(t)), 0, Screen!Fed(View(t)).y)
<1>1. 0 \in 0 .. W - 1
  BY ScreenAssumption DEF ScreenAssumption
<1>2. View([u EXCEPT !.x = 0]) = Screen!Showing(View(u), View(u).page, 0, View(u).y)
  BY <1>1, ColumnShows
<1> QED BY <1>2, Zenon DEF Screen!GoTo

(* Going to another row or column.                                          *)
LEMMA GoToRow ==
  ASSUME NEW t, Bare(t), NEW y \in 0 .. H - 1
  PROVE  View([t EXCEPT !.y = y]) = Screen!GoTo(View(t), View(t).x, y)
BY RowShows DEF Screen!GoTo

LEMMA GoToColumn ==
  ASSUME NEW t, Bare(t), NEW x \in 0 .. W - 1
  PROVE  View([t EXCEPT !.x = x]) = Screen!GoTo(View(t), x, View(t).y)
BY ColumnShows DEF Screen!GoTo

(* A byte of plain text.                                                    *)
LEMMA DoIdleDoes ==
  ASSUME NEW t, Bare(t), NEW j \in Junk, NEW c,
         c = "BS" => t.x > 0, c = "DEL" => ~(t.wrap /\ t.x = W - 1)
  PROVE  View(DoIdle(t, c, j)) = Screen!Typed(View(t), c)
<1>0. /\ t.x \in 0 .. W - 1 /\ t.y \in 0 .. H - 1 /\ W \in Nat /\ 0 \in 0 .. W - 1 /\ W >= 2
      /\ 0 \in -1 .. 1 /\ 1 \in -1 .. 1 /\ -1 \in -1 .. 1
      /\ View(t).x = t.x /\ View(t).y = t.y /\ View(t).wrap = t.wrap
  BY ScreenAssumption, ViewOf DEF ScreenAssumption
<1>1. CASE c = "LF"
  <2>1. PICK u : u = Move(t, 0, 1, j)
    OBVIOUS
  <2>2. Bare(u) /\ View(u) = Screen!Fed(View(t))
    BY <1>0, <2>1, MoveBare, MoveShows
  <2>3. DoIdle(t, c, j) = [u EXCEPT !.x = 0]
    BY <1>1, <2>1 DEF DoIdle
  <2>4. Screen!Typed(View(t), c) = Screen!GoTo(Screen!Fed(View(t)), 0, Screen!Fed(View(t)).y)
    BY <1>1 DEF Screen!Typed
  <2> QED BY <2>2, <2>3, <2>4, FedHomeShows
<1>2. CASE c = "CR"
  <2>1. DoIdle(t, c, j) = [t EXCEPT !.x = 0]
    BY <1>2 DEF DoIdle
  <2>2. Screen!Typed(View(t), c) = Screen!GoTo(View(t), 0, View(t).y)
    BY <1>2 DEF Screen!Typed
  <2> QED BY <1>0, <2>1, <2>2, GoToColumn
<1>3. CASE c = "BS"
  <2>1. DoIdle(t, c, j) = Move(t, -1, 0, j) /\ t.x > 0
    BY <1>0, <1>3 DEF DoIdle
  <2>2. View(DoIdle(t, c, j)) = Screen!Showing(View(t), View(t).page, t.x - 1, View(t).y)
    BY <2>1, MoveShows
  <2>3. Screen!Typed(View(t), c) = Screen!GoTo(View(t), View(t).x - 1, View(t).y)
    BY <1>3 DEF Screen!Typed
  <2> QED BY <1>0, <2>2, <2>3 DEF Screen!GoTo
<1>4. CASE c = "DEL"
  <2>1. PICK p : p = PutCell(t, "blank", j)
    OBVIOUS
  <2>2. Bare(p) /\ p.x >= 1 /\ View(p) = Screen!Put(View(t), "blank") /\ View(p).x = p.x
    BY <1>4, <2>1, PutCellBare, PutShows, ViewOf DEF Text
  <2>3. DoIdle(t, c, j) = Move(p, -1, 0, j)
    <3>1. DoIdle(t, c, j) = IF p.hung THEN p ELSE Move(p, -1, 0, j)
      BY <1>4, <2>1 DEF DoIdle
    <3> QED
      BY <2>2, <3>1 DEF Bare, Sound
  <2>4. p.x > 0
    BY <2>2 DEF Bare, Sound
  <2>5. View(DoIdle(t, c, j)) = Screen!Showing(View(p), View(p).page, p.x - 1, View(p).y)
    BY <2>2, <2>3, <2>4, MoveShows
  <2>6. PICK w : w = Screen!Written(View(t).page, View(t).y, View(t).x, "blank")
    OBVIOUS
  <2>7. View(p) = IF t.x < W - 1 THEN Screen!Showing(View(t), w, t.x + 1, t.y)
                                 ELSE Screen!Showing(View(t), w, t.x, t.y)
    <3>1. t.x < W - 1 \/ ~t.wrap
      BY <1>0, <1>4
    <3>2. Screen!Put(View(t), "blank") =
            IF View(t).x < W - 1 THEN Screen!Showing(View(t), w, View(t).x + 1, View(t).y)
            ELSE IF View(t).wrap THEN Screen!Fed(Screen!Showing(View(t), w, 0, View(t).y))
            ELSE Screen!Showing(View(t), w, View(t).x, View(t).y)
      BY <2>6, PutUnfolds, Zenon
    <3> QED BY <1>0, <2>2, <3>1, <3>2
  <2>8. /\ View(p).page = w /\ View(p).y = t.y
        /\ p.x - 1 = IF t.x = W - 1 THEN t.x - 1 ELSE t.x
        /\ \A a, x, y : Screen!Showing(View(p), a, x, y) = Screen!Showing(View(t), a, x, y)
    BY <1>0, <2>2, <2>7 DEF Screen!Showing
  <2>9. View(DoIdle(t, c, j)) = Screen!Showing(View(t), w, IF t.x = W - 1 THEN t.x - 1 ELSE t.x, t.y)
    BY <2>5, <2>8
  <2>10. Screen!Typed(View(t), c) = Screen!Rubbed(View(t))
    BY <1>4 DEF Screen!Typed
  <2>11. Screen!Rubbed(View(t)) =
           Screen!Showing(View(t), w, IF t.x = W - 1 THEN t.x - 1 ELSE t.x, t.y)
    BY <1>0, <2>6 DEF Screen!Rubbed
  <2> QED BY <2>9, <2>10, <2>11
<1>5. CASE c = "TAB"
  <2>1. DoIdle(t, c, j) = Tab(t, j)
    BY <1>5 DEF DoIdle
  <2>2. Screen!Typed(View(t), c) = Screen!Tabbed(View(t))
    BY <1>5 DEF Screen!Typed
  <2> QED BY <2>1, <2>2, TabShows
<1>6. CASE c \in {"ENQ", "BEL"}
  BY <1>6 DEF DoIdle, Screen!Typed
<1>7. CASE c = "ESC"
  <2>1. DoIdle(t, c, j) = [t EXCEPT !.state = "escape"] /\ "escape" \in States \ {"command_arg"}
    BY <1>7 DEF DoIdle, States
  <2>2. Screen!Typed(View(t), c) = View(t)
    BY <1>7 DEF Screen!Typed
  <2> QED BY <2>1, <2>2, IdleShows
<1>8. CASE c = " "
  <2>1. DoIdle(t, c, j) = PutCell(t, "blank", j)
    BY <1>8 DEF DoIdle
  <2>2. Screen!Typed(View(t), c) = Screen!Put(View(t), "blank")
    BY <1>8 DEF Screen!Typed
  <2> QED BY <2>1, <2>2, PutShows DEF Text
<1>9. CASE c \notin {"LF", "CR", "BS", "DEL", "TAB", "ENQ", "BEL", "ESC", " "}
  <2>1. DoIdle(t, c, j) = PutCell(t, "ink", j)
    BY <1>9 DEF DoIdle
  <2>2. Screen!Typed(View(t), c) = Screen!Put(View(t), "ink")
    BY <1>9 DEF Screen!Typed
  <2> QED BY <2>1, <2>2, PutShows DEF Text
<1> QED
  BY <1>1, <1>2, <1>3, <1>4, <1>5, <1>6, <1>7, <1>8, <1>9

(* The byte after ESC, and the state it leaves the parser in.               *)
Begun(c) ==
  CASE c = "["   -> "sq_bracket"
    [] c = "("   -> "left_br"
    [] c = ")"   -> "right_br"
    [] c = "#"   -> "hash"
    [] c = "ESC" -> "escape"
    [] OTHER     -> "idle"

LEMMA BeginTells ==
  ASSUME NEW t, Bare(t), NEW state
  PROVE  /\ Begin(t, state).state = state /\ Begin(t, state).narg = 0
         /\ Begin(t, state).args = NoArgs
         /\ Idle(t).state = "idle" /\ Idle(t).narg = t.narg /\ Idle(t).args = t.args
         /\ Reset(t).state = "idle"
BY DEF Begin, Idle, Reset, ResetScroll, Bare, Terminal

LEMMA DoEscapeDoes ==
  ASSUME NEW t, Bare(t), t.state = "escape", NEW j \in Junk, NEW c, c = "M" => t.y > 0
  PROVE  /\ View(DoEscape(t, c, j)) = Screen!Escaped(View(t), c)
         /\ DoEscape(t, c, j).state = Begun(c)
         /\ c \in {"[", "(", ")", "#"} =>
              DoEscape(t, c, j).narg = 0 /\ DoEscape(t, c, j).args = NoArgs
<1>0. /\ t.x \in 0 .. W - 1 /\ t.y \in 0 .. H - 1 /\ W \in Nat /\ 0 \in 0 .. W - 1
      /\ 0 \in -1 .. 1 /\ 1 \in -1 .. 1 /\ -1 \in -1 .. 1 /\ t.x + 0 >= 0
      /\ View(t).x = t.x /\ View(t).y = t.y
  BY ScreenAssumption, ViewOf DEF ScreenAssumption
<1>1. CASE c \in {"[", "(", ")", "#"}
  <2>1. DoEscape(t, c, j) = Begin(t, Begun(c)) /\ Begun(c) \in States \ {"command_arg"}
    BY <1>1 DEF DoEscape, Begun, States
  <2>2. Screen!Escaped(View(t), c) = View(t)
    BY <1>1 DEF Screen!Escaped
  <2>3. View(Begin(t, Begun(c))) = View(t)
    BY <2>1, IdleShows
  <2> QED BY <2>1, <2>2, <2>3, BeginTells
<1>2. PICK u : u = Move(t, 0, 1, j)
  OBVIOUS
<1>3. PICK d : d = Move(t, 0, -1, j)
  OBVIOUS
<1>4. Bare(u) /\ Bare(d)
  <2>1. Bare(u)
    BY <1>0, <1>2, MoveBare
  <2>2. Bare(d)
    BY <1>0, <1>3, MoveBare
  <2> QED BY <2>1, <2>2
<1>5. View(u) = Screen!Fed(View(t)) /\ (t.y > 0 => View(d) = Screen!FedBack(View(t)))
  BY <1>2, <1>3, MoveShows
<1>6. ASSUME NEW v, Bare(v), DoEscape(t, c, j) = Idle(v), View(v) = Screen!Escaped(View(t), c),
             c \notin {"[", "(", ")", "#", "ESC"}
      PROVE  /\ View(DoEscape(t, c, j)) = Screen!Escaped(View(t), c)
             /\ DoEscape(t, c, j).state = Begun(c)
  <2>1. View(Idle(v)) = View(v) /\ Idle(v).state = "idle"
    BY <1>6, IdleShows, BeginTells
  <2>2. Begun(c) = "idle"
    BY <1>6 DEF Begun
  <2> QED BY <1>6, <2>1, <2>2
<1>7. CASE c = "D"
  <2>1. DoEscape(t, c, j) = Idle(u) /\ Screen!Escaped(View(t), c) = Screen!Fed(View(t))
    BY <1>2, <1>7 DEF DoEscape, Screen!Escaped
  <2> QED BY <1>4, <1>5, <1>6, <1>7, <2>1
<1>8. CASE c = "M"
  <2>1. DoEscape(t, c, j) = Idle(d) /\ Screen!Escaped(View(t), c) = Screen!FedBack(View(t))
    BY <1>3, <1>8 DEF DoEscape, Screen!Escaped
  <2> QED BY <1>4, <1>5, <1>6, <1>8, <2>1
<1>9. CASE c = "E"
  <2>1. PICK e : e = [u EXCEPT !.x = 0]
    OBVIOUS
  <2>2. /\ Bare(e)
        /\ View(e) = Screen!GoTo(Screen!Fed(View(t)), 0, Screen!Fed(View(t)).y)
    BY <1>0, <1>4, <1>5, <2>1, ColumnBare, FedHomeShows
  <2>3. DoEscape(t, c, j) = Idle(e)
    BY <1>2, <1>9, <2>1 DEF DoEscape
  <2>4. Screen!Escaped(View(t), c) = Screen!GoTo(Screen!Fed(View(t)), 0, Screen!Fed(View(t)).y)
    BY <1>9 DEF Screen!Escaped
  <2> QED BY <1>6, <1>9, <2>2, <2>3, <2>4
<1>10. CASE c \in {"7", "s"}
  <2>1. DoEscape(t, c, j) = Idle(Save(t)) /\ Screen!Escaped(View(t), c) = Screen!Saving(View(t))
    BY <1>10 DEF DoEscape, Screen!Escaped
  <2> QED BY <1>6, <1>10, <2>1, SaveRestoreBare, SaveRestoreShows
<1>11. CASE c \in {"8", "u"}
  <2>1. /\ DoEscape(t, c, j) = Idle(Restore(t))
        /\ Screen!Escaped(View(t), c) = Screen!Restoring(View(t))
    BY <1>11 DEF DoEscape, Screen!Escaped
  <2> QED BY <1>6, <1>11, <2>1, SaveRestoreBare, SaveRestoreShows
<1>12. CASE c = "c"
  <2>1. /\ DoEscape(t, c, j) = Reset(t) /\ Begun(c) = "idle"
        /\ Screen!Escaped(View(t), c) = Screen!Home(View(t))
    BY <1>12 DEF DoEscape, Begun, Screen!Escaped
  <2> QED BY <1>12, <2>1, SaveRestoreShows, BeginTells
<1>13. CASE c = "ESC"
  <2>1. /\ DoEscape(t, c, j) = t /\ Begun(c) = "escape"
        /\ Screen!Escaped(View(t), c) = View(t)
    BY <1>13 DEF DoEscape, Begun, Screen!Escaped
  <2> QED BY <1>13, <2>1
<1>14. CASE c \notin {"[", "(", ")", "#", "D", "M", "E", "7", "s", "8", "u", "c", "ESC"}
  <2>1. DoEscape(t, c, j) = Idle(t) /\ Screen!Escaped(View(t), c) = View(t)
    BY <1>14 DEF DoEscape, Screen!Escaped
  <2> QED BY <1>6, <1>14, <2>1
<1> QED
  BY <1>1, <1>7, <1>8, <1>9, <1>10, <1>11, <1>12, <1>13, <1>14

(* The cursor motions.                                                      *)
LEMMA MotionsShow ==
  ASSUME NEW t, Bare(t), NEW n \in 0 .. IntHalf - 1
  PROVE  /\ View(Up(t, n)) = Screen!GoTo(View(t), View(t).x, Screen!Greatest(View(t).y - n, 0))
         /\ View(Left(t, n)) = Screen!GoTo(View(t), Screen!Greatest(View(t).x - n, 0), View(t).y)
         /\ t.y + n < H => View(Down(t, n)) =
              Screen!GoTo(View(t), View(t).x, Screen!Least(View(t).y + n, H - 1))
         /\ t.x + n < W => View(Right(t, n)) =
              Screen!GoTo(View(t), Screen!Least(View(t).x + n, W - 1), View(t).y)
<1>1. /\ W \in Nat /\ H \in Nat /\ IntHalf \in Nat /\ IntHalf > W /\ IntHalf > H
      /\ t.x \in 0 .. W - 1 /\ t.y \in 0 .. H - 1 /\ View(t).x = t.x /\ View(t).y = t.y
  BY ScreenAssumption, ViewOf DEF ScreenAssumption
<1>2. Int16(t.y - n) = t.y - n /\ Int16(t.x - n) = t.x - n
  <2>1. t.y - n \in -IntHalf .. IntHalf - 1 /\ t.x - n \in -IntHalf .. IntHalf - 1
    BY <1>1
  <2> QED BY <2>1, InRange
<1>3. View(Up(t, n)) = Screen!GoTo(View(t), View(t).x, Screen!Greatest(View(t).y - n, 0))
  <2>1. PICK y \in 0 .. H - 1 : y = IF t.y - n < 0 THEN 0 ELSE t.y - n
    BY <1>1
  <2>2. Up(t, n) = [t EXCEPT !.y = y]
    BY <1>2, <2>1 DEF Up
  <2>3. Screen!Greatest(t.y - n, 0) = y
    BY <1>1, <2>1 DEF Screen!Greatest
  <2> QED BY <1>1, <2>2, <2>3, GoToRow
<1>4. View(Left(t, n)) = Screen!GoTo(View(t), Screen!Greatest(View(t).x - n, 0), View(t).y)
  <2>1. PICK x \in 0 .. W - 1 : x = IF t.x - n < 0 THEN 0 ELSE t.x - n
    BY <1>1
  <2>2. Left(t, n) = [t EXCEPT !.x = x]
    BY <1>2, <2>1 DEF Left
  <2>3. Screen!Greatest(t.x - n, 0) = x
    BY <1>1, <2>1 DEF Screen!Greatest
  <2> QED BY <1>1, <2>2, <2>3, GoToColumn
<1>5. ASSUME t.y + n < H
      PROVE  View(Down(t, n)) =
               Screen!GoTo(View(t), View(t).x, Screen!Least(View(t).y + n, H - 1))
  <2>1. PICK y \in 0 .. H - 1 : y = t.y + n /\ y \in -IntHalf .. IntHalf - 1
    BY <1>1, <1>5
  <2>2. Int16(t.y + n) = y /\ ~(y > H)
    BY <1>1, <2>1, InRange
  <2>3. Down(t, n) = [t EXCEPT !.y = y]
    BY <2>2 DEF Down
  <2>4. Screen!Least(t.y + n, H - 1) = y
    BY <1>1, <2>1 DEF Screen!Least
  <2> QED BY <1>1, <2>3, <2>4, GoToRow
<1>6. ASSUME t.x + n < W
      PROVE  View(Right(t, n)) =
               Screen!GoTo(View(t), Screen!Least(View(t).x + n, W - 1), View(t).y)
  <2>1. PICK x \in 0 .. W - 1 : x = t.x + n /\ x \in -IntHalf .. IntHalf - 1
    BY <1>1, <1>6
  <2>2. Int16(t.x + n) = x /\ ~(x > W)
    BY <1>1, <2>1, InRange
  <2>3. Right(t, n) = [t EXCEPT !.x = x]
    BY <2>2 DEF Right
  <2>4. Screen!Least(t.x + n, W - 1) = x
    BY <1>1, <2>1 DEF Screen!Least
  <2> QED BY <1>1, <2>3, <2>4, GoToColumn
<1> QED BY <1>3, <1>4, <1>5, <1>6

LEMMA MoveToShows ==
  ASSUME NEW t, Bare(t), Addressed(t)
  PROVE  View(MoveTo(t)) = IF t.narg = 0 THEN Screen!GoTo(View(t), 0, 0)
                           ELSE Screen!GoTo(View(t), t.args[1] - 1, t.args[0] - 1)
<1>1. PICK x, y : x = AddressX(t) /\ y = AddressY(t)
  OBVIOUS
<1>2. x \in 0 .. W - 1 /\ y \in 0 .. H - 1 /\ MoveTo(t) = Placed(t, x, y)
  BY <1>1, MoveToIs
<1>3. PICK u : u = [t EXCEPT !.x = x]
  OBVIOUS
<1>4. Bare(u) /\ View(u) = Screen!Showing(View(t), View(t).page, x, View(t).y)
  BY <1>2, <1>3, ColumnBare, ColumnShows
<1>5. View([u EXCEPT !.y = y]) = Screen!Showing(View(u), View(u).page, View(u).x, y)
  BY <1>2, <1>4, RowShows
<1>6. MoveTo(t) = [u EXCEPT !.y = y]
  BY <1>2, <1>3 DEF Placed
<1>7. View(MoveTo(t)) = Screen!GoTo(View(t), x, y)
  BY <1>4, <1>5, <1>6 DEF Screen!Showing, Screen!GoTo
<1> QED BY <1>1, <1>7 DEF AddressX, AddressY

(* Erasing.  An erasure of no known kind does nothing.                      *)
Erased(s, k) ==
  CASE k = 0 -> Screen!BlankRows(s, s.y .. H - 1)
    [] k = 1 -> Screen!BlankRows(s, 0 .. s.y)
    [] k = 2 -> Screen!BlankRows(s, Screen!Rows)
    [] OTHER -> s

LEMMA EraseShows ==
  ASSUME NEW t, Bare(t)
  PROVE  View(Erase(t)) = Erased(View(t), Screen!Kind(t.narg, t.args))
<1>1. /\ H \in Nat /\ t.y \in 0 .. H - 1 /\ 0 \in 0 .. H - 1
      /\ H - 1 \in t.y .. H - 1 /\ t.y \in 0 .. t.y /\ H - 1 \in 0 .. H - 1 /\ View(t).y = t.y
  BY ScreenAssumption, ViewOf DEF ScreenAssumption
<1>2. ASSUME NEW a \in 0 .. H - 1, NEW b \in a .. H - 1
      PROVE  View(ClearLines(t, a, b)) = Screen!BlankRows(View(t), a .. b)
  BY ClearLinesShows DEF Screen!BlankRows, Screen!Rows
<1>3. PICK mode : mode = Screen!Kind(t.narg, t.args)
  OBVIOUS
<1>4. Erase(t) = CASE mode = 0 -> ClearLines(t, t.y, H - 1)
                   [] mode = 1 -> ClearLines(t, 0, t.y)
                   [] mode = 2 -> ResetScroll(ClearLines(t, 0, H - 1))
                   [] OTHER    -> t
  BY <1>3 DEF Erase, Screen!Kind
<1>5. CASE mode = 0
  <2>1. Erased(View(t), mode) = Screen!BlankRows(View(t), View(t).y .. H - 1)
    BY <1>5 DEF Erased
  <2>2. Erase(t) = ClearLines(t, t.y, H - 1)
    BY <1>4, <1>5
  <2>3. View(ClearLines(t, t.y, H - 1)) = Screen!BlankRows(View(t), t.y .. H - 1)
    BY <1>1, <1>2
  <2> QED BY <1>1, <1>3, <2>1, <2>2, <2>3
<1>6. CASE mode = 1
  <2>1. Erased(View(t), mode) = Screen!BlankRows(View(t), 0 .. View(t).y)
    BY <1>6 DEF Erased
  <2>2. Erase(t) = ClearLines(t, 0, t.y)
    BY <1>4, <1>6
  <2>3. View(ClearLines(t, 0, t.y)) = Screen!BlankRows(View(t), 0 .. t.y)
    BY <1>1, <1>2
  <2> QED BY <1>1, <1>3, <2>1, <2>2, <2>3
<1>7. CASE mode = 2
  <2>1. Erased(View(t), mode) = Screen!BlankRows(View(t), 0 .. H - 1)
    BY <1>7 DEF Erased, Screen!Rows
  <2>2. Erase(t) = ResetScroll(ClearLines(t, 0, H - 1))
    BY <1>4, <1>7
  <2>3. /\ Bare(ClearLines(t, 0, H - 1))
        /\ View(ClearLines(t, 0, H - 1)) = Screen!BlankRows(View(t), 0 .. H - 1)
    BY <1>1, <1>2, ClearLinesBare
  <2> QED BY <1>3, <2>1, <2>2, <2>3, SaveRestoreShows
<1>8. CASE mode \notin {0, 1, 2}
  BY <1>3, <1>4, <1>8 DEF Erased
<1> QED BY <1>5, <1>6, <1>7, <1>8

RowErased(s, k) ==
  CASE k = 0 -> Screen!BlankCols(s, s.x .. W - 1)
    [] k = 1 -> Screen!BlankCols(s, 0 .. s.x - 1)
    [] OTHER -> Screen!BlankCols(s, Screen!Cols)

LEMMA ClearLineShows ==
  ASSUME NEW t, Bare(t), NEW j \in Junk,
         t.narg = 0 \/ (t.narg = 1 /\ t.args[0] \in 0 .. 2)
  PROVE  View(ClearLine(t, j)) = RowErased(View(t), Screen!Kind(t.narg, t.args))
<1>1. /\ W \in Nat /\ t.x \in 0 .. W - 1 /\ t.y \in 0 .. H - 1 /\ H \in Nat /\ Size \in Nat
      /\ View(t).x = t.x /\ View(t).y = t.y /\ View(t).page = Lines(t.vram)
      /\ t.vram \in [Cells -> Text]
  BY Products, ViewOf
<1>2. t.y * W \in Nat /\ t.y * W + W <= Size
  <2>1. ASSUME NEW y \in 0 .. H - 1 PROVE y * W \in Nat /\ y * W + W <= Size
    <3>1. y \in Nat /\ H - 1 \in Nat /\ y <= H - 1
      BY <1>1
    <3>2. y * W <= (H - 1) * W /\ y * W \in Nat /\ (H - 1) * W \in Nat
      BY <3>1, Products
    <3> QED BY <3>2, Products
  <2> QED BY <1>1, <2>1
<1>3. ASSUME NEW a \in 0 .. W, NEW b \in 0 .. W, NEW u, u = Blank(t, t.y * W + a, t.y * W + b)
      PROVE  View(u) = Screen!BlankCols(View(t), a .. b - 1)
  <2>1. t.y * W + a \in Nat /\ t.y * W + b \in 0 .. Size
    BY <1>1, <1>2
  <2>2. View(u) = Screen!Showing(View(t), Lines([o \in Cells |-> IF t.y * W + a <= o /\ o < t.y * W + b
                                                       THEN "blank" ELSE t.vram[o]]),
                        View(t).x, View(t).y)
    BY <1>3, <2>1, BlankShows, Zenon
  <2>3. Lines([o \in Cells |-> IF t.y * W + a <= o /\ o < t.y * W + b
                              THEN "blank" ELSE t.vram[o]]) =
          Screen!PartBlanked(Lines(t.vram), t.y, a .. b - 1)
    BY <1>1, LinesErased, Zenon
  <2> QED BY <1>1, <2>2, <2>3, Zenon DEF Screen!BlankCols
<1>4. PICK mode \in 0 .. 2 : /\ mode = Screen!Kind(t.narg, t.args)
                             /\ mode = IF t.narg = 0 THEN 0 ELSE t.args[0]
  BY DEF Screen!Kind
<1>5. CASE mode = 0
  <2>1. ClearLine(t, j) = Blank(t, t.y * W + t.x, t.y * W + t.x + (W - t.x))
    BY <1>1, <1>4, <1>5 DEF ClearLine, AtLeast0
  <2>2. t.x \in 0 .. W /\ W \in 0 .. W /\ t.y * W + t.x + (W - t.x) = t.y * W + W
    BY <1>1, <1>2
  <2>3. View(ClearLine(t, j)) = Screen!BlankCols(View(t), t.x .. W - 1)
    BY <1>3, <2>1, <2>2
  <2>4. RowErased(View(t), mode) = Screen!BlankCols(View(t), View(t).x .. W - 1)
    BY <1>5 DEF RowErased
  <2> QED BY <1>1, <1>4, <2>3, <2>4
<1>6. CASE mode = 1
  <2>1. ClearLine(t, j) = Blank(t, t.y * W, t.y * W + t.x)
    BY <1>1, <1>4, <1>6 DEF ClearLine, AtLeast0
  <2>2. t.x \in 0 .. W /\ 0 \in 0 .. W /\ t.y * W = t.y * W + 0
    BY <1>1, <1>2
  <2>3. View(ClearLine(t, j)) = Screen!BlankCols(View(t), 0 .. t.x - 1)
    BY <1>3, <2>1, <2>2
  <2>4. RowErased(View(t), mode) = Screen!BlankCols(View(t), 0 .. View(t).x - 1)
    BY <1>6 DEF RowErased
  <2> QED BY <1>1, <1>4, <2>3, <2>4
<1>7. CASE mode = 2
  <2>1. ClearLine(t, j) = Blank(t, t.y * W, t.y * W + W)
    BY <1>1, <1>4, <1>7 DEF ClearLine, AtLeast0
  <2>2. W \in 0 .. W /\ 0 \in 0 .. W /\ t.y * W = t.y * W + 0
    BY <1>1, <1>2
  <2>3. View(ClearLine(t, j)) = Screen!BlankCols(View(t), 0 .. W - 1)
    BY <1>3, <2>1, <2>2
  <2>4. RowErased(View(t), mode) = Screen!BlankCols(View(t), 0 .. W - 1)
    BY <1>7 DEF RowErased, Screen!Cols
  <2> QED BY <1>4, <2>3, <2>4
<1> QED BY <1>4, <1>5, <1>6, <1>7

(* The byte that ends a control sequence, and the state it leaves the       *)
(* parser in.                                                               *)
LEMMA DoCommandDoes ==
  ASSUME NEW t, Bare(t), NEW j \in Junk, NEW c, PoliteCommand(t, c), t.state = "sq_bracket"
  PROVE  /\ View(DoCommand(t, c, j)) = Screen!Commanded(View(t), c, t.narg, t.args)
         /\ IF c = "?"
            THEN /\ DoCommand(t, c, j).state = "question"
                 /\ DoCommand(t, c, j).narg = t.narg /\ DoCommand(t, c, j).args = t.args
            ELSE DoCommand(t, c, j).state = "idle"
<1> DEFINE v == View(t)
           done == Screen!Commanded(v, c, t.narg, t.args)
<1>1. PICK n \in 0 .. IntHalf - 1 : /\ n = IF t.narg > 0 THEN t.args[0] ELSE 1
                                    /\ n = Screen!Steps(t.narg, t.args)
  <2>1. t.narg \in Nat
    BY ScreenAssumption DEF ScreenAssumption, Bare, Terminal
  <2>2. t.args[0] \in 0 .. IntHalf - 1 /\ 1 \in 0 .. IntHalf - 1
    BY ScreenAssumption, SMTT(30) DEF ScreenAssumption, Bare, Terminal, ArgIdx
  <2>3. CASE t.narg = 0
    BY <2>2, <2>3 DEF Screen!Steps
  <2>4. CASE t.narg > 0
    BY <2>1, <2>2, <2>4 DEF Screen!Steps
  <2> QED BY <2>1, <2>3, <2>4
<1>2. /\ c = "B" => t.y + n < H
      /\ c = "C" => t.x + n < W
      /\ c \in {"f", "H"} => Addressed(t)
      /\ c = "K" => t.narg = 0 \/ (t.narg = 1 /\ t.args[0] \in 0 .. 2)
      /\ c = "r" => t.narg # 2 \/ t.args[0] >= t.args[1]
      /\ c # "P"
  BY <1>1 DEF PoliteCommand, Addressed
<1> HIDE DEF v
<1>3. ASSUME NEW u, Bare(u), View(u) = done, DoCommand(t, c, j) = Idle(u), c # "?"
      PROVE  View(DoCommand(t, c, j)) = done /\ DoCommand(t, c, j).state = "idle"
  BY <1>3, IdleShows, BeginTells
<1>4. CASE c \in {"A", "B", "C", "D"}
  <2>1. PICK u : u = CASE c = "A" -> Up(t, n) [] c = "B" -> Down(t, n)
                      [] c = "C" -> Right(t, n) [] OTHER -> Left(t, n)
    OBVIOUS
  <2>2. DoCommand(t, c, j) = Idle(u)
    BY <1>1, <1>4, <2>1 DEF DoCommand
  <2>3. done = CASE c = "A" -> Screen!GoTo(v, v.x, Screen!Greatest(v.y - n, 0))
                 [] c = "B" -> Screen!GoTo(v, v.x, Screen!Least(v.y + n, H - 1))
                 [] c = "C" -> Screen!GoTo(v, Screen!Least(v.x + n, W - 1), v.y)
                 [] OTHER   -> Screen!GoTo(v, Screen!Greatest(v.x - n, 0), v.y)
    BY <1>1, <1>4 DEF Screen!Commanded
  <2>4. Bare(u)
    BY <1>2, <1>4, <2>1, MotionsBare
  <2>5. View(u) = done
    <3>1. CASE c = "A"
      BY <2>1, <2>3, <3>1, MotionsShow DEF v
    <3>2. CASE c = "B"
      BY <1>2, <2>1, <2>3, <3>2, MotionsShow DEF v
    <3>3. CASE c = "C"
      BY <1>2, <2>1, <2>3, <3>3, MotionsShow DEF v
    <3>4. CASE c = "D"
      BY <2>1, <2>3, <3>4, MotionsShow DEF v
    <3> QED BY <1>4, <3>1, <3>2, <3>3, <3>4
  <2> QED BY <1>3, <1>4, <2>2, <2>4, <2>5 DEF v
<1>5. CASE c \in {"f", "H"}
  <2>1. /\ Bare(MoveTo(t))
        /\ View(MoveTo(t)) = IF t.narg = 0 THEN Screen!GoTo(v, 0, 0)
                             ELSE Screen!GoTo(v, t.args[1] - 1, t.args[0] - 1)
    BY <1>2, <1>5, MoveToBare, MoveToShows DEF v
  <2>2. DoCommand(t, c, j) = Idle(MoveTo(t))
    BY <1>5 DEF DoCommand
  <2>3. done = IF t.narg = 0 THEN Screen!GoTo(v, 0, 0)
               ELSE Screen!GoTo(v, t.args[1] - 1, t.args[0] - 1)
    BY <1>5 DEF Screen!Commanded
  <2> QED BY <1>3, <1>5, <2>1, <2>2, <2>3 DEF v
<1>6. CASE c = "J"
  <2>1. DoCommand(t, c, j) = Idle(Erase(t))
    BY <1>6 DEF DoCommand
  <2>2. done = Erased(v, Screen!Kind(t.narg, t.args))
    BY <1>6 DEF Screen!Commanded, Erased
  <2> QED BY <1>3, <1>6, <2>1, <2>2, EraseBare, EraseShows DEF v
<1>7. CASE c = "K"
  <2>1. /\ Bare(ClearLine(t, j))
        /\ View(ClearLine(t, j)) = RowErased(v, Screen!Kind(t.narg, t.args))
    BY <1>2, <1>7, ClearLineBare, ClearLineShows DEF v
  <2>2. DoCommand(t, c, j) = Idle(ClearLine(t, j))
    BY <1>7 DEF DoCommand
  <2>3. done = RowErased(v, Screen!Kind(t.narg, t.args))
    BY <1>7 DEF Screen!Commanded, RowErased
  <2> QED BY <1>3, <1>7, <2>1, <2>2, <2>3 DEF v
<1>8. CASE c = "s"
  <2>1. DoCommand(t, c, j) = Idle(Save(t)) /\ done = Screen!Saving(v)
    BY <1>8 DEF DoCommand, Screen!Commanded
  <2> QED BY <1>3, <1>8, <2>1, SaveRestoreBare, SaveRestoreShows DEF v
<1>9. CASE c = "u"
  <2>1. DoCommand(t, c, j) = Idle(Restore(t)) /\ done = Screen!Restoring(v)
    BY <1>9 DEF DoCommand, Screen!Commanded
  <2> QED BY <1>3, <1>9, <2>1, SaveRestoreBare, SaveRestoreShows DEF v
<1>10. CASE c = "r"
  <2>1. t.args[0] \in Nat /\ t.args[1] \in Nat
    BY ScreenAssumption DEF ScreenAssumption, Bare, Terminal, ArgIdx
  <2>2. SetScroll(t) = ResetScroll(t)
    BY <1>2, <1>10, <2>1 DEF SetScroll
  <2>3. DoCommand(t, c, j) = Idle(ResetScroll(t)) /\ done = v
    BY <1>10, <2>2 DEF DoCommand, Screen!Commanded
  <2> QED BY <1>3, <1>10, <2>3, SaveRestoreBare, SaveRestoreShows DEF v
<1>11. CASE c = "?"
  <2>1. PICK u : u = [t EXCEPT !.state = "question"]
    OBVIOUS
  <2>2. /\ DoCommand(t, c, j) = u /\ done = v /\ "question" \in States \ {"command_arg"}
    BY <1>11, <2>1 DEF DoCommand, Screen!Commanded, States
  <2>3. u.state = "question" /\ u.narg = t.narg /\ u.args = t.args
    BY <2>1 DEF Bare, Terminal
  <2>4. View(u) = v
    BY <2>1, <2>2, IdleShows DEF v
  <2> QED BY <1>11, <2>2, <2>3, <2>4 DEF v
<1>12. CASE c \notin {"A", "B", "C", "D", "f", "H", "J", "K", "P", "s", "u", "r", "?"}
  <2>1. DoCommand(t, c, j) = Idle(t) /\ done = v
    BY <1>12 DEF DoCommand, Screen!Commanded
  <2> QED BY <1>3, <1>12, <2>1 DEF v
<1> QED BY <1>2, <1>4, <1>5, <1>6, <1>7, <1>8, <1>9, <1>10, <1>11, <1>12 DEF v

-----------------------------------------------------------------------------
(* The cursor glyph and the parser do not show.                             *)
LEMMA SameShows ==
  ASSUME NEW t, NEW u, \A i \in Cells : TextAt(u, i) = TextAt(t, i),
         u.x = t.x, u.y = t.y, u.sx = t.sx, u.sy = t.sy, u.wrap = t.wrap
  PROVE  View(u) = View(t)
<1>1. PageOf(u) = PageOf(t)
  BY CellOf DEF PageOf
<1> QED BY <1>1 DEF View

LEMMA QuietShows ==
  ASSUME NEW t, NEW u, Quiet(t, u)
  PROVE  View(u) = View(t)
<1>1. \A i \in Cells : TextAt(u, i) = TextAt(t, i)
  BY DEF Quiet, TextAt, Offset
<1> QED BY <1>1, SameShows DEF Quiet

LEMMA LiftShows ==
  ASSUME NEW t, PoliteInv(t), t.state # "command_arg"
  PROVE  View(RemoveCursor(t)) = View(t)
<1>1. PICK u : u = RemoveCursor(t)
  OBVIOUS
<1>2. /\ Bare(u) /\ u.x = t.x /\ u.y = t.y /\ u.wrap = t.wrap /\ u.sx = t.sx /\ u.sy = t.sy
      /\ \A i \in Cells : u.vram[i] = TextAt(t, i)
  BY <1>1, LiftBare
<1>3. \A i \in Cells : TextAt(u, i) = TextAt(t, i)
  BY <1>2 DEF Bare, TextAt
<1> QED BY <1>1, <1>2, <1>3, SameShows

LEMMA DrawShows ==
  ASSUME NEW t, Bare(t), NEW j \in Junk
  PROVE  View(Redrawn(t, j)) = View(t)
<1>1. PICK u : u = Redrawn(t, j)
  OBVIOUS
<1>2. /\ u.x = t.x /\ u.y = t.y /\ u.wrap = t.wrap /\ u.sx = t.sx /\ u.sy = t.sy
      /\ \A i \in Cells : TextAt(u, i) = t.vram[i]
  BY <1>1, DrawBare
<1>3. \A i \in Cells : TextAt(u, i) = TextAt(t, i)
  BY <1>2 DEF Bare, TextAt
<1> QED BY <1>1, <1>2, <1>3, SameShows

(* The byte that ends a private sequence.                                   *)
LEMMA DoQuestionDoes ==
  ASSUME NEW t, PoliteInv(t), NEW c
  PROVE  /\ View(DoQuestion(t, c)) = Screen!Switched(View(t), c, t.args)
         /\ DoQuestion(t, c).state = "idle"
<1>1. t \in Terminal
  BY DEF PoliteInv
<1>2. ASSUME NEW u, u.x = t.x, u.y = t.y, u.sx = t.sx, u.sy = t.sy,
             u.under = t.under, u.vram = t.vram
      PROVE  View(u) = Screen!Wrapping(View(t), u.wrap)
  <2>1. \A i \in Cells : TextAt(u, i) = TextAt(t, i)
    BY <1>2 DEF TextAt, Offset
  <2>2. PageOf(u) = PageOf(t)
    BY <2>1, CellOf DEF PageOf
  <2> QED BY <1>2, <2>2 DEF View, Screen!Wrapping
<1>3. Screen!Wrapping(View(t), t.wrap) = View(t)
  BY DEF View, Screen!Wrapping
<1>4. CASE c \in {"h", "l"} /\ t.args[0] = 7
  <2>1. PICK w : w = (c = "h")
    OBVIOUS
  <2>2. PICK u : u = Idle([t EXCEPT !.wrap = w])
    OBVIOUS
  <2>3. DoQuestion(t, c) = u
    <3>1. 7 # 6
      OBVIOUS
    <3> QED BY <1>4, <2>1, <2>2, <3>1, Zenon DEF DoQuestion
  <2>4. /\ u.x = t.x /\ u.y = t.y /\ u.sx = t.sx /\ u.sy = t.sy
        /\ u.under = t.under /\ u.vram = t.vram /\ u.wrap = w /\ u.state = "idle"
    BY <1>1, <2>2 DEF Idle, Terminal
  <2>5. View(u) = Screen!Wrapping(View(t), w)
    BY <1>2, <2>4
  <2>6. Screen!Switched(View(t), c, t.args) = Screen!Wrapping(View(t), w)
    BY <1>4, <2>1, Zenon DEF Screen!Switched
  <2> QED BY <2>3, <2>4, <2>5, <2>6
<1>5. CASE ~(c \in {"h", "l"} /\ t.args[0] = 7)
  <2>1. PICK o : o = (c = "h")
    OBVIOUS
  <2>2. DoQuestion(t, c) = Idle([t EXCEPT !.origin = o]) \/ DoQuestion(t, c) = Idle(t)
    BY <1>5, <2>1, Zenon DEF DoQuestion
  <2>3. PICK u : u = DoQuestion(t, c)
    OBVIOUS
  <2>4. u = Idle([t EXCEPT !.origin = o]) \/ u = Idle(t)
    BY <2>2, <2>3, Zenon
  <2>5. /\ u.x = t.x /\ u.y = t.y /\ u.sx = t.sx /\ u.sy = t.sy
        /\ u.under = t.under /\ u.vram = t.vram /\ u.wrap = t.wrap /\ u.state = "idle"
    BY <1>1, <2>4 DEF Idle, Terminal
  <2>6. View(u) = View(t)
    BY <1>2, <1>3, <2>5
  <2>7. Screen!Switched(View(t), c, t.args) = View(t)
    BY <1>5, Zenon DEF Screen!Switched
  <2> QED BY <2>3, <2>5, <2>6, <2>7
<1> QED BY <1>4, <1>5

(* Lifting the cursor, a handler, and drawing it again.                     *)
LEMMA RedrawnDoes ==
  ASSUME NEW u, Bare(u), NEW j \in Junk
  PROVE  /\ View(Redrawn(u, j)) = View(u) /\ Redrawn(u, j).state = u.state
         /\ Redrawn(u, j).narg = u.narg /\ Redrawn(u, j).args = u.args
BY DrawShows, DrawBare

LEMMA FinishDoes ==
  ASSUME NEW t, PoliteInv(t), t.state \in {"sq_bracket", "question"}, NEW j \in Junk, NEW c,
         t.state = "sq_bracket" => PoliteCommand(t, c), NEW u, u = Finish(t, c, j)
  PROVE  /\ View(u) = IF t.state = "question" THEN Screen!Switched(View(t), c, t.args)
                      ELSE Screen!Commanded(View(t), c, t.narg, t.args)
         /\ IF t.state = "sq_bracket" /\ c = "?"
            THEN u.state = "question" /\ u.narg = t.narg /\ u.args = t.args
            ELSE u.state = "idle"
<1>1. CASE t.state = "question"
  <2>1. u = DoQuestion(t, c)
    BY <1>1 DEF Finish
  <2> QED BY <1>1, <2>1, DoQuestionDoes
<1>2. CASE t.state = "sq_bracket"
  <2>1. PICK b : b = RemoveCursor(t)
    OBVIOUS
  <2>2. /\ Bare(b) /\ PoliteCommand(b, c) /\ b.state = "sq_bracket"
        /\ b.narg = t.narg /\ b.args = t.args /\ View(b) = View(t)
    BY <1>2, <2>1, LiftBare, LiftShows
  <2>3. u = Redrawn(DoCommand(b, c, j), j)
    <3>1. b.hung = FALSE
      BY <2>2 DEF Bare, Sound, Terminal
    <3> QED BY <1>2, <2>1, <3>1 DEF Finish
  <2>4. PICK d : d = DoCommand(b, c, j)
    OBVIOUS
  <2>5. /\ Bare(d) /\ View(d) = Screen!Commanded(View(t), c, t.narg, t.args)
        /\ IF c = "?" THEN d.state = "question" /\ d.narg = t.narg /\ d.args = t.args
                      ELSE d.state = "idle"
    BY <2>2, <2>4, DoCommandBare, DoCommandDoes
  <2>6. View(u) = View(d) /\ u.state = d.state /\ u.narg = d.narg /\ u.args = d.args
    BY <2>3, <2>4, <2>5, RedrawnDoes
  <2> QED BY <1>2, <2>5, <2>6
<1> QED BY <1>1, <1>2

-----------------------------------------------------------------------------
(* What VtScreen is told of the parser.                                     *)
LEMMA ParserTells ==
  ASSUME NEW t
  PROVE  /\ t.state = "idle" =>
              Mode(t) = "text" /\ Argc(t) = 0 /\ Args(t) = NoArgs
         /\ t.state = "escape" =>
              Mode(t) = "escape" /\ Argc(t) = 0 /\ Args(t) = NoArgs
         /\ t.state \in {"left_br", "right_br", "hash"} =>
              Mode(t) = "charset" /\ Argc(t) = 0 /\ Args(t) = NoArgs
         /\ t.state = "sq_bracket" =>
              Mode(t) = "sequence" /\ Argc(t) = t.narg /\ Args(t) = t.args
         /\ t.state = "question" =>
              Mode(t) = "private" /\ Argc(t) = t.narg /\ Args(t) = t.args
         /\ t.state = "command_arg" =>
              /\ Mode(t) = IF t.ret = "question" THEN "private" ELSE "sequence"
              /\ Argc(t) = t.narg + 1 /\ Args(t) = t.args
BY DEF Mode, Argc, Args, InSequence

(* Each kind of byte is the step of VtScreen that bears its name.           *)
LEMMA TextStep ==
  ASSUME PoliteInv(term), NEW c \in Alphabet, Polite(term, c), St_idle(c)
  PROVE  Screen!Text(c)
<1>1. PICK j \in Junk :
        term' = IF RemoveCursor(term).hung THEN RemoveCursor(term)
                ELSE Redrawn(DoIdle(RemoveCursor(term), c, j), j)
  BY DEF St_idle, Plain
<1>2. term.state = "idle"
  BY DEF St_idle, Awake
<1>3. PICK b : b = RemoveCursor(term)
  OBVIOUS
<1>4. /\ Bare(b) /\ b.state = "idle" /\ b.x = term.x /\ b.wrap = term.wrap
      /\ View(b) = View(term)
  BY <1>2, <1>3, LiftBare, LiftShows
<1>5. /\ c = "BS" => b.x > 0
      /\ c = "DEL" => ~(b.wrap /\ b.x = W - 1)
  BY <1>2, <1>4 DEF Polite
<1>6. PICK d : d = DoIdle(b, c, j)
  OBVIOUS
<1>7. /\ Bare(d) /\ View(d) = Screen!Typed(View(term), c)
      /\ d.state = IF c = "ESC" THEN "escape" ELSE "idle"
  BY <1>4, <1>5, <1>6, DoIdleBare, DoIdleDoes, DoIdleKeeps
<1>8. term' = Redrawn(d, j)
  <2>1. b.hung = FALSE
    BY <1>4 DEF Bare, Sound, Terminal
  <2> QED BY <1>1, <1>3, <1>6, <2>1
<1>9. View(term') = Screen!Typed(View(term), c) /\ term'.state = d.state
  BY <1>7, <1>8, RedrawnDoes
<1>10. /\ Mode(term) = "text" /\ Argc(term) = 0 /\ Args(term) = NoArgs
       /\ Mode(term') = IF c = "ESC" THEN "escape" ELSE "text"
       /\ Argc(term') = 0 /\ Args(term') = NoArgs
  BY <1>2, <1>7, <1>9, ParserTells
<1> QED BY <1>2, <1>7, <1>9, <1>10 DEF Screen!Text

LEMMA EscapeStep ==
  ASSUME PoliteInv(term), NEW c \in Alphabet, Polite(term, c), St_escape(c)
  PROVE  Screen!Escape(c)
<1>1. PICK j \in Junk :
        term' = IF RemoveCursor(term).hung THEN RemoveCursor(term)
                ELSE Redrawn(DoEscape(RemoveCursor(term), c, j), j)
  BY DEF St_escape
<1>2. term.state = "escape"
  BY DEF St_escape, Awake
<1>3. PICK b : b = RemoveCursor(term)
  OBVIOUS
<1>4. /\ Bare(b) /\ b.state = "escape" /\ b.y = term.y /\ View(b) = View(term)
  BY <1>2, <1>3, LiftBare, LiftShows
<1>5. c = "M" => b.y > 0
  BY <1>2, <1>4 DEF Polite
<1>6. PICK d : d = DoEscape(b, c, j)
  OBVIOUS
<1>7. /\ Bare(d) /\ View(d) = Screen!Escaped(View(term), c) /\ d.state = Begun(c)
      /\ c \in {"[", "(", ")", "#"} => d.narg = 0 /\ d.args = NoArgs
  BY <1>4, <1>5, <1>6, DoEscapeBare, DoEscapeDoes
<1>8. term' = Redrawn(d, j)
  <2>1. b.hung = FALSE
    BY <1>4 DEF Bare, Sound, Terminal
  <2> QED BY <1>1, <1>3, <1>6, <2>1
<1>9. /\ View(term') = Screen!Escaped(View(term), c) /\ term'.state = Begun(c)
      /\ c \in {"[", "(", ")", "#"} => term'.narg = 0 /\ term'.args = NoArgs
  BY <1>7, <1>8, RedrawnDoes
<1>10. Mode(term) = "escape" /\ Argc(term) = 0 /\ Args(term) = NoArgs
  BY <1>2, ParserTells
<1>11. /\ Mode(term') = CASE c = "["               -> "sequence"
                          [] c \in {"(", ")", "#"} -> "charset"
                          [] c = "ESC"             -> "escape"
                          [] OTHER                 -> "text"
       /\ Argc(term') = 0 /\ Args(term') = NoArgs /\ term'.state # "command_arg"
  <2>1. CASE c = "["
    BY <1>9, <2>1, ParserTells DEF Begun
  <2>2. CASE c \in {"(", ")", "#"}
    BY <1>9, <2>2, ParserTells DEF Begun
  <2>3. CASE c = "ESC"
    BY <1>9, <2>3, ParserTells DEF Begun
  <2>4. CASE c \notin {"[", "(", ")", "#", "ESC"}
    BY <1>9, <2>4, ParserTells DEF Begun
  <2> QED BY <2>1, <2>2, <2>3, <2>4
<1> QED BY <1>2, <1>9, <1>10, <1>11 DEF Screen!Escape

LEMMA CharsetStep ==
  ASSUME PoliteInv(term), NEW c \in Alphabet, St_one_byte(c)
  PROVE  Screen!Charset(c)
<1>1. term' = [term EXCEPT !.state = "idle"] /\ term \in Terminal
      /\ term.state \in {"left_br", "right_br", "hash"}
  BY DEF St_one_byte, Idle, PoliteInv
<1>2. Quiet(term, term') /\ term'.state = "idle"
  BY <1>1 DEF Terminal, Quiet
<1>3. View(term') = View(term)
  BY <1>2, QuietShows
<1>4. /\ Mode(term) = "charset" /\ Argc(term) = 0 /\ Args(term) = NoArgs
      /\ Mode(term') = "text" /\ Argc(term') = 0 /\ Args(term') = NoArgs
      /\ term.state # "command_arg"
  BY <1>1, <1>2, ParserTells
<1> QED BY <1>2, <1>3, <1>4 DEF Screen!Charset

(* A digit, wherever an argument may stand.                                 *)
LEMMA DigitStep ==
  ASSUME PoliteInv(term), NEW c \in Alphabet, Polite(term, c), c \in Digits,
         term.state \in {"sq_bracket", "question", "command_arg"}, term' = Digit(term, c)
  PROVE  Screen!Argument(c)
<1>1. term.narg \in ArgIdx /\ term.args[term.narg] * 10 + DigitVal(c) < IntHalf
  BY PoliteDigit DEF PoliteInv
<1>2. /\ Quiet(term, term')
      /\ term'.args = [term.args EXCEPT ![term.narg] = term.args[term.narg] * 10 + DigitVal(c)]
      /\ term'.state = "command_arg" /\ term'.narg = term.narg
      /\ term'.ret = IF term.state = "command_arg" THEN term.ret ELSE term.state
  BY <1>1, DigitInv
<1>3. View(term') = View(term)
  BY <1>2, QuietShows
<1>4. /\ Mode(term) \in {"sequence", "private"} /\ Mode(term') = Mode(term)
      /\ Argc(term) = IF term.state = "command_arg" THEN term.narg + 1 ELSE term.narg
      /\ Args(term) = term.args /\ Argc(term') = term.narg + 1 /\ Args(term') = term'.args
  BY <1>2, ParserTells
<1>5. term.narg \in Nat
  BY <1>1 DEF ArgIdx
<1>6. (IF term.state = "command_arg" THEN Argc(term) - 1 ELSE Argc(term)) = term.narg
  BY <1>4, <1>5
<1> QED BY <1>2, <1>3, <1>4, <1>6 DEF Screen!Argument

(* The byte that ends a sequence, t being the terminal with its arguments   *)
(* complete.                                                                *)
LEMMA FinalStep ==
  ASSUME PoliteInv(term), NEW c \in Alphabet, Final(c), NEW j \in Junk,
         NEW t, PoliteInv(t), Quiet(term, t), t.state \in {"sq_bracket", "question"},
         t.state = "sq_bracket" => PoliteCommand(t, c), term' = Finish(t, c, j),
         Mode(term) = IF t.state = "question" THEN "private" ELSE "sequence",
         Argc(term) = t.narg, Args(term) = t.args
  PROVE  Screen!Command(c)
<1>1. View(t) = View(term)
  BY QuietShows
<1>2. /\ View(term') = IF t.state = "question" THEN Screen!Switched(View(t), c, t.args)
                      ELSE Screen!Commanded(View(t), c, t.narg, t.args)
      /\ IF t.state = "sq_bracket" /\ c = "?"
         THEN term'.state = "question" /\ term'.narg = t.narg /\ term'.args = t.args
         ELSE term'.state = "idle"
  <2>1. PICK u : u = term'
    OBVIOUS
  <2>2. u = Finish(t, c, j)
    BY <2>1
  <2>3. /\ View(u) = IF t.state = "question" THEN Screen!Switched(View(t), c, t.args)
                      ELSE Screen!Commanded(View(t), c, t.narg, t.args)
        /\ IF t.state = "sq_bracket" /\ c = "?"
           THEN u.state = "question" /\ u.narg = t.narg /\ u.args = t.args
           ELSE u.state = "idle"
    BY <2>2, FinishDoes
  <2> QED BY <2>1, <2>3
<1>3. View(term') = IF Mode(term) = "private"
                    THEN Screen!Switched(View(term), c, Args(term))
                    ELSE Screen!Commanded(View(term), c, Argc(term), Args(term))
  BY <1>1, <1>2
<1>4. IF Mode(term) = "sequence" /\ c = "?"
      THEN Mode(term') = "private" /\ Argc(term') = Argc(term) /\ Args(term') = Args(term)
      ELSE Mode(term') = "text" /\ Argc(term') = 0 /\ Args(term') = NoArgs
  <2>1. CASE t.state = "sq_bracket" /\ c = "?"
    BY <1>2, <2>1, ParserTells
  <2>2. CASE ~(t.state = "sq_bracket" /\ c = "?")
    BY <1>2, <2>2, ParserTells
  <2> QED BY <2>1, <2>2
<1>5. term'.state # "command_arg" /\ c \notin Digits /\ c # ";"
  BY <1>2 DEF Final
<1>6. NoArgs = Screen!NoArgs
  BY DEF NoArgs, Screen!NoArgs, ArgIdx
<1> QED BY <1>3, <1>4, <1>5, <1>6 DEF Screen!Command

LEMMA WaitingStep ==
  ASSUME PoliteInv(term), NEW c \in Alphabet, Polite(term, c),
         NEW state \in {"sq_bracket", "question"}, Waiting(state, c)
  PROVE  Screen!Receive(c)
<1>1. term.state = state
  BY DEF Waiting, Awake
<1>2. CASE c \in Digits
  <2>1. term' = Digit(term, c)
    BY <1>2 DEF Waiting, Final, Digits
  <2> QED BY <1>1, <1>2, <2>1, DigitStep DEF Screen!Receive
<1>3. CASE c = ";"
  <2>1. term' = term
    BY <1>3 DEF Waiting, Digits, Final
  <2>2. Mode(term) \in {"sequence", "private"} /\ term.state # "command_arg"
    BY <1>1, ParserTells
  <2>3. Screen!Argument(c)
    BY <1>3, <2>1, <2>2 DEF Screen!Argument
  <2> QED BY <2>3 DEF Screen!Receive
<1>4. CASE Final(c)
  <2>1. PICK j \in Junk : term' = Finish(term, c, j)
    BY <1>4 DEF Waiting, Final, Digits
  <2>2. term.state = "sq_bracket" => PoliteCommand(term, c)
    BY <1>1, <1>4 DEF Polite
  <2>3. /\ Mode(term) = IF term.state = "question" THEN "private" ELSE "sequence"
        /\ Argc(term) = term.narg /\ Args(term) = term.args
    BY <1>1, ParserTells
  <2>4. Quiet(term, term)
    BY DEF Quiet
  <2>5. Screen!Command(c)
    BY <1>1, <1>4, <2>1, <2>2, <2>3, <2>4, FinalStep
  <2> QED BY <2>5 DEF Screen!Receive
<1> QED BY <1>2, <1>3, <1>4 DEF Final

LEMMA ArgumentStep ==
  ASSUME PoliteInv(term), NEW c \in Alphabet, Polite(term, c), St_command_arg(c)
  PROVE  Screen!Receive(c)
<1>1. /\ term.state = "command_arg" /\ term.narg \in ArgIdx
      /\ term.ret \in {"sq_bracket", "question"} /\ term \in Terminal
  BY DEF St_command_arg, Awake, PoliteInv, Terminal
<1>2. /\ term.narg + 1 \in 0 .. ByteMod - 1 /\ Uint8(term.narg + 1) = term.narg + 1
      /\ term.narg \in Nat
  BY <1>1, NextArgument DEF ArgIdx
<1>3. /\ Mode(term) = IF term.ret = "question" THEN "private" ELSE "sequence"
      /\ Argc(term) = term.narg + 1 /\ Args(term) = term.args
  BY <1>1, ParserTells
<1>4. CASE c \in Digits
  <2>1. term' = Digit(term, c)
    BY <1>4 DEF St_command_arg, Final, Digits
  <2> QED BY <1>1, <1>4, <2>1, DigitStep DEF Screen!Receive
<1>5. CASE c = ";"
  <2>1. term' = [term EXCEPT !.narg = term.narg + 1]
    <3>1. c \notin Digits /\ ~Final(c)
      BY <1>5 DEF Digits, Final
    <3>2. term' = [term EXCEPT !.narg = Uint8(@ + 1)]
      BY <3>1 DEF St_command_arg
    <3> QED BY <1>2, <3>2
  <2>2. /\ Quiet(term, term') /\ term'.args = term.args /\ term'.ret = term.ret
        /\ term'.narg = term.narg + 1 /\ term'.state = "command_arg"
    BY <1>1, <2>1 DEF Terminal, Quiet
  <2>3. View(term') = View(term)
    BY <2>2, QuietShows
  <2>4. /\ Mode(term') = Mode(term) /\ Argc(term') = Argc(term) + 1
        /\ Args(term') = Args(term) /\ Mode(term) \in {"sequence", "private"}
    BY <1>2, <1>3, <2>2, ParserTells
  <2>5. Screen!Argument(c)
    BY <1>1, <1>5, <2>2, <2>3, <2>4 DEF Screen!Argument
  <2> QED BY <2>5 DEF Screen!Receive
<1>6. CASE Final(c)
  <2>1. PICK s : s = [term EXCEPT !.narg = term.narg + 1, !.state = term.ret]
    OBVIOUS
  <2>2. PICK j \in Junk : term' = Finish(s, c, j)
    <3>1. c \notin Digits /\ c # ";"
      BY <1>6 DEF Final
    <3>2. PICK j \in Junk :
            term' = Finish([term EXCEPT !.narg = Uint8(@ + 1), !.state = term.ret], c, j)
      BY <3>1 DEF St_command_arg
    <3> QED BY <1>2, <2>1, <3>2
  <2>3. s \in Terminal
    <3>1. term.ret \in States
      BY <1>1 DEF States
    <3> QED BY <1>1, <1>2, <2>1, <3>1 DEF Terminal
  <2>4. /\ Quiet(term, s) /\ Steady(term, s) /\ s.x = term.x /\ s.y = term.y
        /\ s.args = term.args /\ s.state = term.ret /\ s.narg = term.narg + 1
    BY <1>1, <2>1 DEF Terminal, Quiet, Steady
  <2>5. \A i \in ArgIdx : s.args[i] < IntHalf
    BY <2>4 DEF PoliteInv
  <2>6. PoliteInv(s)
    BY <1>1, <2>3, <2>4, <2>5, FieldsInv
  <2>7. s.state = "sq_bracket" => PoliteCommand(s, c)
    <3>1. PICK p : p = [term EXCEPT !.narg = @ + 1]
      OBVIOUS
    <3>2. p.x = term.x /\ p.y = term.y /\ p.args = term.args /\ p.narg = term.narg + 1
      BY <1>1, <3>1 DEF Terminal
    <3>3. term.ret = "sq_bracket" => PoliteCommand(p, c)
      BY <1>1, <1>6, <3>1 DEF Polite
    <3> QED BY <2>4, <3>2, <3>3 DEF PoliteCommand
  <2>8. Screen!Command(c)
    BY <1>1, <1>3, <1>6, <2>2, <2>4, <2>6, <2>7, FinalStep
  <2> QED BY <2>8 DEF Screen!Receive
<1> QED BY <1>4, <1>5, <1>6 DEF Final

LEMMA Receives ==
  ASSUME PoliteInv(term), NEW c \in Alphabet, Polite(term, c), vt100_putc(c)
  PROVE  Screen!Receive(c)
<1>1. CASE St_idle(c)
  BY <1>1, TextStep DEF Screen!Receive
<1>2. CASE St_escape(c)
  BY <1>2, EscapeStep DEF Screen!Receive
<1>3. CASE St_sq_bracket(c) \/ St_question(c)
  BY <1>3, WaitingStep DEF St_sq_bracket, St_question
<1>4. CASE St_command_arg(c)
  BY <1>4, ArgumentStep
<1>5. CASE St_one_byte(c)
  BY <1>5, CharsetStep DEF Screen!Receive
<1> QED BY <1>1, <1>2, <1>3, <1>4, <1>5 DEF vt100_putc

(* The emulator of vt100.c with a polite host is a VtScreen: each byte does *)
(* what VtScreen says of it.                                                *)
THEOREM PoliteImplementsScreen == PoliteSpec => ImplementsScreen
<1>1. ASSUME Init PROVE Screen!Init
  <2>1. /\ term.x = 0 /\ term.y = 0 /\ term.sx = 0 /\ term.sy = 0 /\ term.wrap = FALSE
        /\ term.under = "none" /\ term.vram = [o \in Cells |-> "blank"] /\ term.state = "idle"
    BY <1>1 DEF Init
  <2>2. \A i \in Cells : TextAt(term, i) = "blank"
    BY <2>1 DEF TextAt
  <2>3. PageOf(term) = [r \in 0 .. H - 1 |-> [c \in 0 .. W - 1 |-> "blank"]]
    BY <2>2, CellOf DEF PageOf
  <2>4. Mode(term) = "text" /\ Argc(term) = 0 /\ Args(term) = NoArgs
    BY <2>1, ParserTells
  <2>5. NoArgs = Screen!NoArgs
    BY DEF NoArgs, Screen!NoArgs, ArgIdx
  <2> QED
    BY <2>1, <2>3, <2>4, <2>5
       DEF View, Screen!Init, Screen!Rows, Screen!BlankRow, Screen!Cols
<1>2. ASSUME PoliteInv(term)
      PROVE  [\A c \in Alphabet : Polite(term, c) /\ vt100_putc(c) => Screen!Receive(c)]_term
  BY <1>2, Receives
<1> QED
  BY <1>1, <1>2, PoliteInvHolds, PTL DEF PoliteSpec, ImplementsScreen
=============================================================================
