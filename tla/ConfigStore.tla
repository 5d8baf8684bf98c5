---------------------------- MODULE ConfigStore ----------------------------
(***************************************************************************)
(* The settings of main.c: a log of <tag><len><data> entries at the start  *)
(* of the last erase sector of the flash.  ParseDataBlock() reads it from  *)
(* the start and applies every entry, so the last one counts; a new entry  *)
(* goes to the first erased word behind the others.  The flash is a NOR    *)
(* flash: programming clears bits, only erasing the sector sets them.      *)
(*                                                                         *)
(* The unit is the 32-bit word: an entry of the one setting there is, the  *)
(* address of the TFTP server, is three of them.  A word is an integer     *)
(* that says what it stands for; a length is counted in words, after the   *)
(* code's rounding, which makes 0 of the 0xffffffff of an erased one.      *)
(* Power may fail while an entry is programmed.                            *)
(***************************************************************************)
EXTENDS Integers

CONSTANTS
  W,         (* words in gTemp, the window that is read                    *)
  P,         (* words in a page of the flash                               *)
  S,         (* words in the sector                                        *)
  ERASED,    (* 0xffffffff                                                 *)
  TAG_TFTP_SRV,
  IPs,       (* addresses                                                  *)
  TornTags, TornLens, TornIPs,  (* a tag, a length and an address that are *)
                                (* neither erased nor complete             *)
  Fills,     (* words that a flashed image may fill the sector with        *)
  Memory     (* what may lie in memory behind gTemp                        *)

(* A page is longer than an entry that begins before it (256 bytes and 12), *)
(* the window is of whole pages, and the sector has one behind it.          *)
ASSUME WindowAssumption ==
  /\ P \in Nat /\ P >= 5 /\ W \in Nat /\ S \in Nat
  /\ W % P = 0 /\ S % P = 0 /\ W >= 2 * P /\ S >= W + 2

(* No word stands for two things; only a torn length may lead backwards, as *)
(* if it were negative, and a tag or an address, taken for a length, leads  *)
(* out of the window.                                                       *)
ASSUME WordAssumption ==
  /\ IPs \subseteq Nat /\ TornTags \subseteq Nat /\ TornLens \subseteq Int
  /\ TornIPs \subseteq Nat /\ Fills \subseteq Int
  /\ Memory \subseteq Nat \cup {ERASED} /\ Memory # {}
  /\ TAG_TFTP_SRV \in Nat /\ ERASED \in Int
  /\ ERASED \notin IPs \cup TornTags \cup TornIPs \cup {TAG_TFTP_SRV, 0, 1}
  /\ 0 \notin IPs \cup {TAG_TFTP_SRV}
  /\ TAG_TFTP_SRV \notin IPs \cup TornTags \cup TornIPs \cup Fills

VARIABLES
  flash,      (* the sector                                                *)
  ServerIP,   (* gTftp.ServerIP, 0 when there is none                      *)
  hung        (* ParseDataBlock() goes round for ever                      *)

vars == <<flash, ServerIP, hung>>

Words  == 0 .. S - 1
Window == 0 .. W - 1

-----------------------------------------------------------------------------
(* Parsing. *)

(* The distance that a length leads over.                                   *)
Skip(word) == IF word = ERASED THEN 0 ELSE word

(* No entry of the setting, and no place in the block.                      *)
None   == [len |-> 0, value |-> 0]
NoRoom == -1

(* A look at gTemp; behind it there is something else.                      *)
At(f, i) == IF i \in Window THEN f[i] ELSE ERASED

(* A mistake: pValue is taken before the length has been skipped.           *)
Entry_ValueIsLen(f, s) ==
  LET next == s.at + 2 + Skip(f[s.at + 1])
  IN  IF s.at + 1 \in Window /\ next \in Window
      THEN [at   |-> next,
            last |-> IF f[s.at] = TAG_TFTP_SRV
                     THEN [len |-> f[s.at + 1], value |-> At(f, s.at + 1)] ELSE s.last]
      ELSE [s EXCEPT !.at = NoRoom]

(* One entry: the parser is at s.at and has seen s.last.  A length that     *)
(* leads out of the window, or lies behind it, makes the block invalid.     *)
Entry(f, s) ==
  LET next == s.at + 2 + Skip(f[s.at + 1])
  IN  IF s.at + 1 \in Window /\ next \in Window
      THEN [at   |-> next,
            last |-> IF f[s.at] = TAG_TFTP_SRV
                     THEN [len |-> f[s.at + 1], value |-> At(f, s.at + 2)] ELSE s.last]
      ELSE [s EXCEPT !.at = NoRoom]

Ended(f, s) == s.at = NoRoom \/ f[s.at] = ERASED

(* The loop: a parser that has not come to an end after as many entries as  *)
(* there are words has been somewhere twice.                                *)
Places == [at : Window \cup {NoRoom}, last : [len : Int, value : Int]]

Scan(f) ==
  LET step == [s \in Places |-> IF Ended(f, s) THEN s ELSE Entry(f, s)]
      after[n \in 0 .. W] == IF n = 0 THEN [at |-> 0, last |-> None] ELSE step[after[n - 1]]
  IN  after[W]

Loops(f) == ~Ended(f, Scan(f))

(* CheckEmpty(), as ParseDataBlock() calls it: every page of the sector is  *)
(* compared with the SECOND page that has been read.                        *)
CheckEmpty(f) == \A i \in Words : f[i] = f[P + (i % P)]

(* A mistake: the block is used from the start when it is not valid.        *)
ParseDataBlock_Reuse(f) == IF Scan(f).at = NoRoom THEN 0 ELSE Scan(f).at

(* The first free word, as ParseDataBlock() returns it.                     *)
ParseDataBlock(f) ==
  IF Scan(f).at # NoRoom THEN Scan(f).at
  ELSE IF CheckEmpty(f) THEN 0 ELSE NoRoom

(* A mistake: an address that is set is not replaced.                       *)
Applied_Once(f, ip) == IF Scan(f).last = None \/ ip # 0 THEN ip ELSE Scan(f).last.value

(* What applying the entries makes of an address.                           *)
Applied(f, ip) == IF Scan(f).last = None THEN ip ELSE Scan(f).last.value

(* A mistake: the length in words compared with one in bytes.               *)
CheckDataTag_Bytes(f, ip) == Scan(f).last # [len |-> 4, value |-> ip]

(* CheckDataTag(): the last entry is not this address.                      *)
CheckDataTag(f, ip) == Scan(f).last # [len |-> 1, value |-> ip]

-----------------------------------------------------------------------------
(* Programming. *)

(* Two words that are not the same have no bit in common, as far as the     *)
(* model goes.                                                              *)
Program(old, new) ==
  CASE old = ERASED -> new
    [] new = ERASED \/ new = old -> old
    [] OTHER -> 0

NewEntry(ip) == [i \in 0 .. 2 |->
  CASE i = 0 -> TAG_TFTP_SRV [] i = 1 -> 1 [] OTHER -> ip]

(* BytesAvailable is unsigned: with less than an entry left it is huge.     *)
Fits(at) == LET words == W - at - 3 IN words < 0 \/ words >= 1

Writes(f) == ParseDataBlock(f) # NoRoom /\ Fits(ParseDataBlock(f))

(* spi_write() of an entry at a place.  Where it crosses a page, spi_write() *)
(* takes the length of the entry again for the second page, and programs    *)
(* words behind the entry, too.  In the window they get what has been read  *)
(* from them, which changes nothing; of the entry in the last two words of  *)
(* the window the page behind it gets three words, up to W + 2, and those   *)
(* that are not the entry's are whatever lies in memory behind gTemp.       *)
Crosses(at) == at + 2 >= W
NewWord(at, ip, behind, i) ==
  IF i - at \in 0 .. 2 THEN NewEntry(ip)[i - at]
  ELSE IF Crosses(at) /\ i \in at + 3 .. W + 2 THEN behind[i] ELSE ERASED
Behind == [{W + 1, W + 2} -> Memory]

Written(f, ip, behind) ==
  [i \in Words |-> Program(f[i], NewWord(ParseDataBlock(f), ip, behind, i))]

(* The power fails after n words, and in the middle of word n.  (Once the   *)
(* entry is complete it is as if the power failed behind it, with another   *)
(* word behind gTemp.)                                                      *)
Torn(f, ip, n, word) ==
  LET at == ParseDataBlock(f)
  IN  [i \in Words |->
        CASE i - at \in 0 .. n - 1 -> Program(f[i], NewEntry(ip)[i - at])
          [] i - at = n            -> Program(f[i], word)
          [] OTHER                 -> f[i]]

Tears(n) ==
  {ERASED} \cup (CASE n = 0 -> TornTags [] n = 1 -> TornLens [] OTHER -> TornIPs)

-----------------------------------------------------------------------------
(* A mistake: the new entry is not applied.                                 *)
AddBoardInfo_NoReload(ip) ==
  /\ \E behind \in Behind :
       flash' = IF Writes(flash) THEN Written(flash, ip, behind) ELSE flash
  /\ UNCHANGED <<ServerIP, hung>>

(* AddBoardInfo(): write the entry if there is room and read the block      *)
(* again.                                                                   *)
AddBoardInfo(ip) ==
  IF Writes(flash)
  THEN /\ \E behind \in Behind : flash' = Written(flash, ip, behind)
       /\ hung' = Loops(flash')
       /\ ServerIP' = IF Loops(flash') THEN ServerIP ELSE Applied(flash', ServerIP)
  ELSE UNCHANGED vars

(* "tftp <address>"                                                         *)
TftpCmd(ip) == ~hung /\ AddBoardInfo(ip)

(* "commit"                                                                 *)
CommitCmd ==
  /\ ~hung
  /\ IF CheckDataTag(flash, ServerIP) THEN AddBoardInfo(ServerIP) ELSE UNCHANGED vars

(* The first peer of the shell is taken for the server.                     *)
ShellAccept(ip) ==
  /\ ~hung /\ ServerIP = 0
  /\ ServerIP' = ip
  /\ UNCHANGED <<flash, hung>>

(* "erase", of the sector                                                   *)
EraseCmd ==
  /\ ~hung
  /\ flash' = [i \in Words |-> ERASED]
  /\ UNCHANGED <<ServerIP, hung>>

(* "flash", with automatic erase, of an image that covers the sector with   *)
(* one word.                                                                *)
FlashCmd(word) ==
  /\ ~hung
  /\ flash' = [i \in Words |-> word]
  /\ UNCHANGED <<ServerIP, hung>>

(* main() starts with the sector as it is.                                  *)
Boots(f) ==
  /\ hung' = Loops(f)
  /\ ServerIP' = IF Loops(f) THEN 0 ELSE Applied(f, 0)

Reboot == Boots(flash) /\ UNCHANGED flash

(* The power fails while an entry is written, and comes back.               *)
PowerFails(ip) ==
  /\ ~hung /\ Writes(flash)
  /\ ip \in IPs \/ CheckDataTag(flash, ip)
  /\ \E n \in 0 .. 2 : \E word \in Tears(n) : flash' = Torn(flash, ip, n, word)
  /\ Boots(flash')

Init ==
  /\ flash = [i \in Words |-> ERASED]
  /\ ServerIP = 0
  /\ hung = FALSE

Next ==
  \/ \E ip \in IPs : TftpCmd(ip) \/ ShellAccept(ip)
  \/ CommitCmd
  \/ EraseCmd
  \/ \E word \in Fills : FlashCmd(word)
  \/ Reboot
  \/ \E ip \in IPs \cup {ServerIP} : PowerFails(ip)

Spec == Init /\ [][Next]_vars

-----------------------------------------------------------------------------
(* The log of entries is the one setting that it stands for, through full   *)
(* blocks, erasures, reboots and interrupted writes.                        *)
Saved == INSTANCE Setting WITH
  server <- ServerIP, saved <- Applied(flash, 0),
  Wrecks <- TornTags \cup TornIPs \cup {ERASED, TAG_TFTP_SRV}

ImplementsSetting == Saved!Spec

(* The sector has words, and is taken for an empty one: an image has filled *)
(* it with pages that are all alike.  What is written there is ANDed with   *)
(* the image.                                                               *)
Mistaken(f) == Scan(f).at = NoRoom /\ CheckEmpty(f)

(* A command that is over and has written, in the window and to a sector    *)
(* that is not mistaken for an empty one, has saved the address: a reboot   *)
(* finds it, whatever writes were interrupted before.                       *)
CompletedIsSaved ==
  [][\A ip \in IPs :
       /\ TftpCmd(ip) /\ flash' # flash
       /\ ~Mistaken(flash) /\ ParseDataBlock(flash) + 3 \in Window
       => ~hung' /\ ServerIP' = ip /\ Applied(flash', 0) = ip]_vars

(* An interrupted write does not touch the entries before it: a reboot      *)
(* finds the address that it found before, or the new one, complete or      *)
(* torn.  But an entry that was itself interrupted behind its tag has the   *)
(* length 0, and the next tag is written where its address would be.        *)
TornIsLocal ==
  [][\A ip \in IPs : PowerFails(ip) /\ ~hung' /\ Scan(flash).last.len # ERASED =>
       Applied(flash', 0) \in {Applied(flash, 0), ip, ERASED} \cup TornIPs]_vars

(* Nothing but erasing, and flashing an image, changes a word that has been *)
(* programmed, whatever is written or interrupted, in a sector that is not  *)
(* mistaken for an empty one: the end that the parser finds has nothing     *)
(* behind it, with a full window, an entry that crosses its end, and a torn *)
(* one, too.                                                                *)
ProgrammedStays ==
  [][/\ ~EraseCmd /\ ~(\E word \in Fills : FlashCmd(word))
     /\ ~Mistaken(flash)
     => \A i \in Words : flash[i] # ERASED => flash'[i] = flash[i]]_vars

(* After a "commit" that has written, in the window, another one writes     *)
(* nothing: the sector does not fill up by committing again and again.      *)
CommitOnce ==
  [][CommitCmd /\ flash' # flash /\ ParseDataBlock(flash) + 3 \in Window
       => ~(CheckDataTag(flash', ServerIP') /\ Writes(flash'))]_vars

-----------------------------------------------------------------------------
(* What a comment of main.c says. *)

(* "Invalid length, ignore block"                                           *)
InvalidLengthIgnored == ~hung
=============================================================================
