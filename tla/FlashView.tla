----------------------------- MODULE FlashView -----------------------------
(***************************************************************************)
(* The commands of main.c that look at the flash: dump shows the bytes of  *)
(* a range, line by line, map the regions that are empty and those that    *)
(* are not.  The shell's connection may be lost meanwhile.                 *)
(***************************************************************************)
EXTENDS SpiFlash, Sequences, SequencesExt

CONSTANTS
  Word,         (* 2^32: addresses and lengths are unsigned                 *)
  TEMP,         (* sizeof(gTemp)                                            *)
  LINE,         (* 16 bytes on a line                                       *)
  Contents,     (* what the flash may hold                                  *)
  Numbers,      (* arguments of dump                                        *)
  MaxLines      (* bound: a dump that goes on beyond is not followed        *)

ASSUME ViewAssumption ==
  /\ {Word, TEMP, LINE, MaxLines} \subseteq Nat \ {0}
  /\ Numbers \subseteq 0 .. Word - 1 /\ Contents \subseteq [Addresses -> Bytes]
  (* 8M or 16M                                                              *)
  /\ FlashSize > 0 /\ Word % FlashSize = 0 /\ 2 * FlashSize <= Word
  (* what is followed of a dump is less than 2^32 bytes                     *)
  /\ MaxLines * LINE + TEMP <= Word

VARIABLES
  flash,
  gShellCon,   (* there is a connection                                     *)
  cmd,         (* the command that runs: "none", "dump" or "map"            *)
  Adr,
  Length, BytesRead, BytesOnLine,  (* dump                                  *)
  LastAdr, bWasEmpty,              (* map                                   *)
  from,        (* history: the command's first address                      *)
  out          (* what it has put out, to whoever was connected             *)

dump == <<Length, BytesRead, BytesOnLine>>
map  == <<LastAdr, bWasEmpty>>
vars == <<flash, gShellCon, cmd, Adr, dump, map, from, out>>

Init ==
  /\ flash \in Contents
  /\ gShellCon = TRUE /\ cmd = "none" /\ Adr = 0 /\ from = 0 /\ out = <<>>
  /\ Length = 0 /\ BytesRead = 0 /\ BytesOnLine = 0
  /\ LastAdr = 0 /\ bWasEmpty = FALSE

-----------------------------------------------------------------------------
(* GetAdrAndLen(): the pairs that it accepts, and what becomes of them.     *)
AdrAndLen ==
  {[adr |-> a, len |-> IF (a + n) % Word > FlashSize THEN FlashSize - a ELSE n] :
     a \in {k \in Numbers : k <= FlashSize}, n \in Numbers}

(* NetDumpHex(): the next byte begins a line, with its address, or goes on  *)
(* with one.                                                                *)
ShowByte(s, a, byte) ==
  [col |-> (s.col + 1) % LINE,
   out |-> IF s.col = 0
           THEN Append(s.out, [adr |-> a % Word, bytes |-> <<byte>>])
           ELSE Append(Front(s.out), [adr |-> Last(s.out).adr, bytes |-> Append(Last(s.out).bytes, byte)])]

(* n bytes that were read at base, one after the other.                     *)
NetDumpHex(data, n, base) ==
  LET after[i \in 0 .. n] ==
        IF i = 0 THEN [col |-> BytesOnLine, out |-> out]
                 ELSE ShowByte(after[i - 1], base + i - 1, data[i - 1])
  IN  after[n]

DumpCmd ==
  /\ cmd = "none" /\ gShellCon
  /\ \E r \in AdrAndLen : Adr' = r.adr /\ from' = r.adr /\ Length' = r.len
  /\ cmd' = "dump" /\ BytesRead' = 0 /\ out' = <<>>
  /\ UNCHANGED <<flash, gShellCon, BytesOnLine, map>>

Bytes2Read == Smaller(Length, TEMP)

DumpChunk ==
  /\ cmd = "dump" /\ gShellCon /\ BytesRead < Length /\ Len(out) < MaxLines
  /\ LET s == NetDumpHex(spi_read(flash, Adr, Bytes2Read), Bytes2Read, Adr)
     IN  BytesOnLine' = s.col /\ out' = s.out
  /\ Adr' = (Adr + Bytes2Read) % Word
  /\ BytesRead' = (BytesRead + Bytes2Read) % Word
  /\ UNCHANGED <<flash, gShellCon, cmd, Length, map, from>>

Forget == cmd' = "none" /\ Adr' = 0 /\ from' = 0 /\ out' = <<>>

DumpDone ==
  /\ cmd = "dump" /\ ~ (gShellCon /\ BytesRead < Length)
  /\ Forget /\ Length' = 0 /\ BytesRead' = 0 /\ BytesOnLine' = 0
  /\ UNCHANGED <<flash, gShellCon, map>>

-----------------------------------------------------------------------------
(* Every page of the sector, in the order of their addresses.               *)
CheckEmpty(a) ==
  \A i \in 0 .. (EraseSize \div PageSize) - 1 :
    LET page == spi_read(flash, a + i * PageSize, PageSize)
    IN  \A k \in DOMAIN page : page[k] = Erased

MapCmd ==
  /\ cmd = "none" /\ gShellCon
  /\ cmd' = "map" /\ Adr' = 0 /\ from' = 0 /\ LastAdr' = 0 /\ out' = <<>>
  /\ bWasEmpty' = CheckEmpty(0)
  /\ UNCHANGED <<flash, gShellCon, dump>>

(* A mistake: the last region is only shown when the one that begins behind *)
(* the end of the flash differs from it.                                    *)
NowEmpty_Unforced(a) == CheckEmpty(a)

(* At the end of the flash the region is ended by force.                    *)
NowEmpty(a) ==
  IF a = FlashSize /\ CheckEmpty(a) = bWasEmpty THEN ~ bWasEmpty ELSE CheckEmpty(a)

MapSector ==
  /\ cmd = "map" /\ Adr < FlashSize
  /\ \E a \in {Adr + EraseSize} :
       /\ Adr' = a
       /\ IF NowEmpty(a) = bWasEmpty
          THEN UNCHANGED <<map, out>>
          ELSE /\ bWasEmpty' = NowEmpty(a)
               /\ out' = Append(out, [first |-> LastAdr, last |-> a - 1, empty |-> ~ bWasEmpty'])
               /\ LastAdr' = a
  /\ UNCHANGED <<flash, gShellCon, cmd, dump, from>>

MapDone ==
  /\ cmd = "map" /\ Adr >= FlashSize
  /\ Forget /\ LastAdr' = 0 /\ bWasEmpty' = FALSE
  /\ UNCHANGED <<flash, gShellCon, dump>>

(* While a command waits for its output to be sent, its connection may go,  *)
(* and another may come.                                                    *)
Connection ==
  /\ gShellCon' = ~ gShellCon
  /\ UNCHANGED <<flash, cmd, Adr, dump, map, from, out>>

Next == DumpCmd \/ DumpChunk \/ DumpDone \/ MapCmd \/ MapSector \/ MapDone \/ Connection

Spec == Init /\ [][Next]_vars
-----------------------------------------------------------------------------
(* The range asked for, that of a dump that stays within the flash, is      *)
(* shown byte by byte from its address, nothing left out and nothing twice  *)
(* from one chunk to the next: every line but the last is full and bears    *)
(* the address of its first byte, a line ends with its dump, and the dump   *)
(* is as long as was asked for.  When gTemp does not divide the length, the *)
(* code shows more than was asked for (README, section 5): what it shows    *)
(* behind the range, and behind the flash's end, is left open here.         *)
Shown == FlattenSeq([i \in 1 .. Len(out) |-> out[i].bytes])

Within    == from + Length <= FlashSize
WholeTemp == Length <= TEMP \/ Length % TEMP = 0

DumpIsFlash ==
  /\ (cmd = "dump" /\ Within) =>
       /\ \A i \in 1 .. Len(out) : (i - 1) * LINE < Length =>
            /\ out[i].adr = from + (i - 1) * LINE
            /\ Len(out[i].bytes) = LINE \/ i = Len(out)
       /\ \A k \in 1 .. Smaller(Len(Shown), Length) : Shown[k] = flash[from + k - 1]
       /\ (gShellCon /\ BytesRead >= Length) => Len(Shown) >= Length
       /\ WholeTemp => Len(Shown) <= Length
  /\ (cmd # "dump") => BytesOnLine = 0

(* The regions that map shows are the flash: they follow each other from    *)
(* its first byte to its last, each is empty or not as it says, and no two  *)
(* neighbours are alike; whatever is read behind the end.                   *)
MapIsFlash ==
  (cmd = "map") =>
    /\ \A i \in 1 .. Len(out) :
         /\ out[i].first = IF i = 1 THEN 0 ELSE out[i - 1].last + 1
         /\ \A a \in out[i].first .. out[i].last :
              a % EraseSize = 0 => CheckEmpty(a) = out[i].empty
         /\ i > 1 => out[i].empty # out[i - 1].empty
    /\ (Adr >= FlashSize) => out # <<>> /\ Last(out).last = FlashSize - 1

(* Both commands show the flash.                                            *)
ShowsFlash == DumpIsFlash /\ MapIsFlash
=============================================================================
