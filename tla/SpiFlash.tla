------------------------------ MODULE SpiFlash ------------------------------
(***************************************************************************)
(* spi_drv.c: reading, programming and erasing the NOR flash.  The flash   *)
(* is a function from addresses to what a byte stands for, and what the    *)
(* driver does with it is a function from one flash to the next.  A byte   *)
(* of a file or of the first content is a natural number.                  *)
(***************************************************************************)
EXTENDS Integers

CONSTANTS
  FlashSize, PageSize, EraseSize  (* of gChip: 8M or 16M, 256, 64K or 256K *)

ASSUME ChipAssumption ==
  /\ FlashSize \in Nat /\ PageSize \in Nat \ {0} /\ EraseSize \in Nat \ {0}
  /\ EraseSize % PageSize = 0 /\ FlashSize % EraseSize = 0

Addresses == 0 .. FlashSize - 1

Erased == -1    (* 0xff                                                    *)
Mixed  == -2    (* bits of two bytes that were programmed over each other  *)
Behind == -3    (* whatever lies in memory behind the buffer               *)
Bytes  == Nat \cup {Erased, Mixed, Behind}

Smaller(a, b) == IF a <= b THEN a ELSE b

PageOf(Adr)   == Adr - (Adr % PageSize)
SectorOf(Adr) == Adr - (Adr % EraseSize)

(* Programming clears bits and sets none.                                  *)
Program(old, new) ==
  CASE new = Erased -> old
    [] old = Erased -> new
    [] OTHER        -> IF old = new THEN old ELSE Mixed

(* What the page commands of one write program: the first one what is left *)
(* of its page, the others a whole page, or Len when that is less, until   *)
(* Len bytes are programmed.  Each takes the size from Len, not from what  *)
(* is left of it, so the last one may go on behind the data.               *)
Wrote(Adr, Len) ==
  LET first == Smaller(Len, PageSize - (Adr % PageSize))
      piece == Smaller(Len, PageSize)
      more  == Len - first
  IN  first + (IF more = 0 THEN 0 ELSE ((more + piece - 1) \div piece) * piece)

(* Nothing is programmed when the data does not fit.  data is indexed from *)
(* 0.                                                                      *)
spi_write(flash, Adr, data, Len) ==
  IF Len = 0 \/ Adr + Len > FlashSize THEN flash
  ELSE LET Programmed == Adr .. Adr + Wrote(Adr, Len) - 1
       IN  [a \in Addresses |->
              IF a \notin Programmed THEN flash[a]
              ELSE Program(flash[a], IF a - Adr < Len THEN data[a - Adr] ELSE Behind)]

(* One sector, which is all its callers ask for.                           *)
spi_erase(flash, Adr) ==
  IF Adr % EraseSize # 0 \/ Adr + EraseSize > FlashSize THEN flash
  ELSE [a \in Addresses |-> IF SectorOf(a) = Adr THEN Erased ELSE flash[a]]

(* Len bytes, indexed from 0; the chip's address wraps at its end.         *)
spi_read(flash, Adr, Len) ==
  [i \in 0 .. Len - 1 |-> flash[(Adr + i) % FlashSize]]
=============================================================================
