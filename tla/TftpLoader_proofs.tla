-------------------------- MODULE TftpLoader_proofs --------------------------
(***************************************************************************)
(* What the loader's commands promise, for every chip whose pages divide   *)
(* its sectors, every file, every address and any sequence of commands,    *)
(* blocks and errors.                                                      *)
(*                                                                         *)
(* Two inductive invariants.  PcbInv follows the client's pcb: a transfer  *)
(* that could not be started costs one, and verify cleans up whether or    *)
(* not there was one.  Parts follows a transfer: how far it is, what of it *)
(* has been compared, sent or flashed, and which sector was erased last.   *)
(***************************************************************************)
EXTENDS TftpLoader, TLAPS, WellFoundedInduction

(* The client's pcb. *)

Fields == {"upcb", "handle", "blknum", "mode_write", "last"}

(* The client always has its fields; it has a pcb while a command waits,   *)
(* and when no pcb is free.                                                *)
PcbInv ==
  /\ tftp_state = [f \in Fields |-> tftp_state[f]]
  /\ freePcbs \in Nat
  /\ freePcbs = 0 => tftp_state.upcb = TRUE
  /\ pc = "wait" => tftp_state.upcb = TRUE
  /\ pc # "hung"

(* Starting a transfer preserves PcbInv, whatever becomes of the start.    *)
LEMMA StartKeepsPcb ==
  ASSUME PcbInv, NEW name, NEW t, pc = "idle", ldr_tftp_init(name, t)
  PROVE  PcbInv'
<1>1. CASE /\ freePcbs = 0
           /\ gTftp' = Reset(t) /\ NotStarted(name)
           /\ UNCHANGED <<tftp_state, freePcbs>>
  BY <1>1 DEF PcbInv, NotStarted
<1>2. CASE /\ freePcbs > 0
           /\ freePcbs' = freePcbs - 1
           /\ tftp_state' = OpenClient(t.TransferType = "SAVE")
           /\ pc' \in {"wait", "idle"}
  <2>1. tftp_state' = [f \in Fields |-> tftp_state'[f]] /\ tftp_state'.upcb = TRUE
    BY <1>2 DEF OpenClient, Fields
  <2>2. freePcbs' \in Nat
    BY <1>2 DEF PcbInv
  <2> QED
    BY <1>2, <2>1, <2>2 DEF PcbInv
<1> QED
  BY <1>1, <1>2 DEF ldr_tftp_init, NotStarted

(* A callback that closes the handle, or counts a block, leaves the pcb.   *)
LEMMA CallbackKeepsPcb ==
  ASSUME PcbInv, DataArrives \/ AckArrives \/ ErrorArrives
  PROVE  PcbInv'
<1>1. UNCHANGED <<freePcbs, pc>>
  BY DEF DataArrives, AckArrives, ErrorArrives
<1>2. /\ tftp_state' = [f \in Fields |-> tftp_state'[f]]
      /\ tftp_state'.upcb = tftp_state.upcb
  <2>1. CASE DataArrives
    BY <2>1 DEF PcbInv, Fields, DataArrives
  <2>2. CASE AckArrives
    BY <2>2 DEF PcbInv, Fields, AckArrives
  <2>3. CASE ErrorArrives
    BY <2>3 DEF PcbInv, Fields, ErrorArrives
  <2> QED
    BY <2>1, <2>2, <2>3
<1> QED
  BY <1>1, <1>2 DEF PcbInv

(* Every step preserves PcbInv.                                            *)
LEMMA NextKeepsPcb == PcbInv /\ [Next]_vars => PcbInv'
<1> SUFFICES ASSUME PcbInv, [Next]_vars PROVE PcbInv'
  OBVIOUS
<1>1. ASSUME NEW On \in BOOLEAN, AutoEraseCmd(On) PROVE PcbInv'
  BY <1>1 DEF PcbInv, AutoEraseCmd, Command, network
<1>2. ASSUME NEW Adr \in Adrs, NEW EndAdr \in Adrs, EraseCmd(Adr, EndAdr) PROVE PcbInv'
  BY <1>2 DEF PcbInv, EraseCmd, Command, network
<1>3. ASSUME NEW Adr \in Adrs, FlashCmd(Adr) PROVE PcbInv'
  BY <1>3, StartKeepsPcb DEF FlashCmd, Command
<1>4. ASSUME NEW Adr \in Adrs, VerifyCmd(Adr) PROVE PcbInv'
  BY <1>4, StartKeepsPcb DEF VerifyCmd, Command
<1>5. ASSUME NEW Adr \in Adrs, NEW SendLen \in SendLens \cup {NoData},
             SaveCmd(Adr, SendLen)
      PROVE  PcbInv'
  BY <1>5, StartKeepsPcb DEF SaveCmd, Command
<1>6. CASE DataArrives \/ AckArrives \/ ErrorArrives
  BY <1>6, CallbackKeepsPcb
<1>7. CASE TftpTranserWait
  <2>1. tftp_state.upcb = TRUE /\ freePcbs \in Nat
    BY <1>7 DEF PcbInv, TftpTranserWait
  <2>2. freePcbs' = freePcbs + 1 /\ tftp_state' = NoClient /\ pc' = "idle"
    BY <1>7, <2>1 DEF TftpTranserWait, tftp_cleanup
  <2> QED
    BY <2>1, <2>2 DEF PcbInv, NoClient, Fields
<1>8. CASE UNCHANGED vars
  BY <1>8 DEF PcbInv, vars, network
<1> QED
  BY <1>1, <1>2, <1>3, <1>4, <1>5, <1>6, <1>7, <1>8 DEF Next

(* NeverAsserts for every instance: verify, which goes on after a failed   *)
(* start, never reaches tftp_cleanup() without a pcb, because a client     *)
(* that cannot have one still points to the one that was lost last.        *)
THEOREM ClientHasPcb == Spec => []NeverAsserts
<1>1. Init => PcbInv
  BY LoaderAssumption DEF Init, PcbInv, NoClient, Fields
<1>2. PcbInv => NeverAsserts
  BY DEF PcbInv, NeverAsserts
<1> QED
  BY <1>1, <1>2, NextKeepsPcb, PTL DEF Spec
-----------------------------------------------------------------------------

-----------------------------------------------------------------------------
(* Units of n bytes. *)

(* a is q whole units of n and a rest.                                     *)
LEMMA Divide ==
  ASSUME NEW n \in Nat \ {0}, NEW a \in Int
  PROVE  /\ a \div n \in Int /\ a = n * (a \div n) + (a % n) /\ a % n \in 0 .. n - 1
         /\ a \in Nat => a \div n \in Nat
  OBVIOUS

(* A set of numbers that is not empty has a smallest one.                  *)
LEMMA Smallest ==
  ASSUME NEW S \in SUBSET Nat, S # {}
  PROVE  \E i \in S : \A j \in S : i <= j
<1> DEFINE R == {ss \in Nat \X Nat : ss[1] < ss[2]}
<1>1. R = OpToRel(<, Nat)
  BY DEF OpToRel
<1>2. IsWellFoundedOn(R, Nat)
  BY <1>1, NatLessThanWellFounded
<1>3. PICK i \in S : \A j \in S : <<j, i>> \notin R
  BY <1>2, WFMin, Zenon
<1>4. ASSUME NEW j \in S PROVE i <= j
  <2>1. ~(j < i)
    BY <1>3
  <2> QED
    BY <2>1
<1> QED
  BY <1>4

(* Neighbouring multiples of n are n apart.                                *)
LEMMA Times ==
  ASSUME NEW n \in Nat \ {0}, NEW p \in Int, NEW q \in Int
  PROVE  /\ n * p \in Int /\ n * (p + 1) = n * p + n /\ n * (p - 1) = n * p - n
         /\ p < q => n * p + n <= n * q
  <1>1. n * p \in Int /\ n * (p + 1) = n * p + n /\ n * (p - 1) = n * p - n
     OBVIOUS
  <1>2. ASSUME p < q PROVE n * p + n <= n * q
     <2>1. n * (p + 1) <= n * q
        BY <1>2
     <2> QED BY <1>1, <2>1
  <1> QED BY <1>1, <1>2

(* A multiple leaves no rest.                                              *)
LEMMA Whole ==
  ASSUME NEW n \in Nat \ {0}, NEW q \in Int
  PROVE (n * q) % n = 0
  OBVIOUS

(* The multiple of n at a or the nearest below.                            *)
Down(a, n) == a - (a % n)

(* Every number lies between it and the next multiple.                     *)
LEMMA Below ==
  ASSUME NEW n \in Nat \ {0}, NEW a \in Int
  PROVE  /\ Down(a, n) \in Int /\ Down(a, n) % n = 0
         /\ Down(a, n) <= a /\ a < Down(a, n) + n
         /\ a \in Nat => Down(a, n) \in Nat
<1>1. PICK q \in Int : a = n * q + (a % n) /\ a % n \in 0 .. n - 1 /\ (a \in Nat => q \in Nat)
  BY Divide
<1>2. PICK d \in Int : d = n * q
  OBVIOUS
<1>3. d % n = 0
  BY <1>2, Whole
<1>4. a \in Nat => d \in Nat
  BY <1>1, <1>2
<1>5. d = Down(a, n) /\ d <= a /\ a < d + n
  BY <1>1, <1>2 DEF Down
<1> QED
  BY <1>3, <1>4, <1>5

(* A number that leaves no rest is a multiple.                             *)
LEMMA Multiple ==
  ASSUME NEW n \in Nat \ {0}, NEW d \in Int, d % n = 0
  PROVE  \E q \in Int : d = n * q
<1>1. d \div n \in Int /\ d = n * (d \div n) + (d % n)
  BY Divide
<1>2. d = n * (d \div n)
  BY <1>1
<1> QED
  BY <1>1, <1>2

(* Of two multiples the larger is larger by n at least.                    *)
LEMMA Apart ==
  ASSUME NEW n \in Nat \ {0}, NEW d \in Int, NEW e \in Int, d % n = 0, e % n = 0, d < e
  PROVE  d + n <= e
<1>1. PICK p \in Int : d = n * p
  BY Multiple
<1>2. PICK q \in Int : e = n * q
  BY Multiple
<1>3. p < q
  <2>1. ASSUME q <= p PROVE FALSE
    <3>1. CASE q = p
      BY <3>1, <1>1, <1>2
    <3>2. CASE q < p
      BY <3>2, <1>1, <1>2, Times
    <3> QED BY <2>1, <3>1, <3>2
  <2> QED BY <2>1
<1> QED
  BY <1>1, <1>2, <1>3, Times

(* A multiple is that of every address up to the next one.                 *)
LEMMA SameUnit ==
  ASSUME NEW n \in Nat \ {0}, NEW d \in Int, d % n = 0, NEW a \in d .. d + n - 1
  PROVE  Down(a, n) = d
<1>0. a \in Int
  OBVIOUS
<1>1. PICK e \in Int : e = Down(a, n) /\ e % n = 0 /\ e <= a /\ a < e + n
  BY <1>0, Below
<1>2. ~(d < e)
  <2>1. d < e => d + n <= e
    BY <1>1, Apart
  <2> QED
    BY <1>1, <2>1
<1>3. ~(e < d)
  BY <1>1, Apart
<1> QED
  BY <1>1, <1>2, <1>3

(* A page begins at a multiple of its size, and holds what is in between.  *)
LEMMA Pages ==
  ASSUME NEW a \in Int
  PROVE  /\ PageOf(a) \in Int /\ PageOf(a) % PageSize = 0
         /\ PageOf(a) <= a /\ a < PageOf(a) + PageSize
         /\ a \in Nat => PageOf(a) \in Nat
         /\ \A d \in Int : d % PageSize = 0 /\ a \in d .. d + PageSize - 1 => PageOf(a) = d
<1>1. PageOf(a) = Down(a, PageSize)
  BY DEF PageOf, Down
<1>2. PageSize \in Nat \ {0}
  BY ChipAssumption
<1>3. /\ Down(a, PageSize) \in Int /\ Down(a, PageSize) % PageSize = 0
      /\ Down(a, PageSize) <= a /\ a < Down(a, PageSize) + PageSize
      /\ a \in Nat => Down(a, PageSize) \in Nat
  BY <1>2, Below
<1>4. ASSUME NEW d \in Int, d % PageSize = 0, a \in d .. d + PageSize - 1
      PROVE  Down(a, PageSize) = d
  BY <1>2, <1>4, SameUnit
<1> QED
  BY <1>1, <1>3, <1>4

(* The same of sectors.                                                    *)
LEMMA Sectors ==
  ASSUME NEW a \in Int
  PROVE  /\ SectorOf(a) \in Int /\ SectorOf(a) % EraseSize = 0
         /\ SectorOf(a) <= a /\ a < SectorOf(a) + EraseSize
         /\ a \in Nat => SectorOf(a) \in Nat
         /\ \A d \in Int : d % EraseSize = 0 /\ a \in d .. d + EraseSize - 1 => SectorOf(a) = d
<1>1. SectorOf(a) = Down(a, EraseSize)
  BY DEF SectorOf, Down
<1>2. EraseSize \in Nat \ {0}
  BY ChipAssumption
<1>3. /\ Down(a, EraseSize) \in Int /\ Down(a, EraseSize) % EraseSize = 0
      /\ Down(a, EraseSize) <= a /\ a < Down(a, EraseSize) + EraseSize
      /\ a \in Nat => Down(a, EraseSize) \in Nat
  BY <1>2, Below
<1>4. ASSUME NEW d \in Int, d % EraseSize = 0, a \in d .. d + EraseSize - 1
      PROVE  Down(a, EraseSize) = d
  BY <1>2, <1>4, SameUnit
<1> QED
  BY <1>1, <1>3, <1>4

(* Sums and differences of multiples are multiples.                        *)
LEMMA SumOfMultiples ==
  ASSUME NEW n \in Nat \ {0}, NEW d \in Int, d % n = 0, NEW e \in Int, e % n = 0
  PROVE  (d + e) % n = 0 /\ (d - e) % n = 0
<1>1. PICK p \in Int : d = n * p
  BY Multiple
<1>2. PICK q \in Int : e = n * q
  BY Multiple
<1>3. d + e = n * (p + q) /\ d - e = n * (p - q)
  BY <1>1, <1>2
<1>4. (n * (p + q)) % n = 0 /\ (n * (p - q)) % n = 0
  BY Whole
<1> QED
  BY <1>3, <1>4

(* A multiple of a multiple of n is one of n.                              *)
LEMMA Nested ==
  ASSUME NEW n \in Nat \ {0}, NEW m \in Nat \ {0}, m % n = 0, NEW d \in Int, d % m = 0
  PROVE  d % n = 0
<1>1. PICK p \in Int : d = m * p
  BY Multiple
<1>2. PICK q \in Int : m = n * q
  BY Multiple
<1>3. d = n * (q * p) /\ q * p \in Int
  BY <1>1, <1>2
<1>4. (n * (q * p)) % n = 0
  BY <1>3, Whole
<1> QED
  BY <1>3, <1>4

(* Rounded up to whole pieces.                                             *)
LEMMA Pieces ==
  ASSUME NEW piece \in Nat \ {0}, NEW more \in Nat
  PROVE  LET r == ((more + piece - 1) \div piece) * piece
         IN  r \in more .. more + piece - 1 /\ r % piece = 0
<1>1. PICK k \in Int : /\ k = (more + piece - 1) \div piece
                      /\ more + piece - 1 = piece * k + ((more + piece - 1) % piece)
                      /\ (more + piece - 1) % piece \in 0 .. piece - 1
  <2>1. more + piece - 1 \in Int
    OBVIOUS
  <2> QED
    BY <2>1, Divide
<1>2. k * piece = piece * k /\ piece * k \in Int
  OBVIOUS
<1>3. piece * k \in more .. more + piece - 1
  BY <1>1, <1>2
<1>4. (piece * k) % piece = 0
  BY Whole
<1> QED
  BY <1>1, <1>2, <1>3, <1>4

(* The page commands of a write program all of the data, and what they     *)
(* program beyond it lies in pages that the data is in; whole pages are    *)
(* programmed exactly.                                                     *)
LEMMA WroteCovers ==
  ASSUME NEW Adr \in Nat, NEW BufLen \in Nat \ {0}
  PROVE  /\ Wrote(Adr, BufLen) \in Nat /\ Wrote(Adr, BufLen) >= BufLen
         /\ \A a \in Adr + BufLen .. Adr + Wrote(Adr, BufLen) - 1 :
              PageOf(a) \in Adr .. Adr + BufLen - 1
         /\ Adr % PageSize = 0 /\ BufLen % PageSize = 0 => Wrote(Adr, BufLen) = BufLen
<1> DEFINE left  == PageSize - (Adr % PageSize)
           first == Smaller(BufLen, left)
           piece == Smaller(BufLen, PageSize)
           more  == BufLen - first
           P     == Adr + first
           r     == ((more + piece - 1) \div piece) * piece
<1>1. PageSize \in Nat \ {0}
  BY ChipAssumption
<1>2. left \in 1 .. PageSize /\ Adr % PageSize \in 0 .. PageSize - 1
  BY <1>1
<1>3. first \in 1 .. BufLen /\ piece \in 1 .. BufLen /\ piece <= PageSize
  BY <1>1, <1>2 DEF Smaller
<1>4. CASE more = 0
  <2>1. Wrote(Adr, BufLen) = BufLen
    BY <1>3, <1>4 DEF Wrote
  <2> QED
    BY <2>1
<1>5. CASE more # 0
  <2>1. Wrote(Adr, BufLen) = first + r
    BY <1>5 DEF Wrote
  <2>2. more \in Nat \ {0} /\ first = left /\ first < BufLen
    BY <1>2, <1>3, <1>5 DEF Smaller
  <2>3. r \in more .. more + piece - 1 /\ r % piece = 0
    <3>1. more \in Nat /\ piece \in Nat \ {0}
      BY <2>2, <1>3
    <3> HIDE DEF more, piece
    <3> QED
      BY <3>1, Pieces
  <2> HIDE DEF r
  <2>4. P % PageSize = 0
    <3>1. PICK d \in Int : d = Down(Adr, PageSize) /\ d % PageSize = 0
      BY <1>1, Below
    <3>2. PageSize % PageSize = 0 /\ PageSize \in Int
      BY <1>1
    <3>3. (d + PageSize) % PageSize = 0
      BY <3>1, <3>2, <1>1, SumOfMultiples
    <3> QED
      BY <3>1, <3>3, <2>2, <1>1, <1>2 DEF Down
  <2>5. Wrote(Adr, BufLen) \in Nat /\ Wrote(Adr, BufLen) >= BufLen
    BY <2>1, <2>2, <2>3, <1>3
  <2>6. ASSUME NEW a \in Adr + BufLen .. Adr + Wrote(Adr, BufLen) - 1
        PROVE  PageOf(a) \in Adr .. Adr + BufLen - 1
    <3>1. a \in Int /\ P <= a /\ a < P + r /\ P \in Int /\ r \in Int
      BY <2>1, <2>2, <2>3, <2>5, <1>3
    <3>2. PICK d \in Int : d = PageOf(a) /\ d % PageSize = 0 /\ d <= a /\ a < d + PageSize
      BY <3>1, Pages
    <3>3. P <= d
      <4>1. d < P => d + PageSize <= P
        BY <3>1, <3>2, <2>4, <1>1, Apart
      <4> QED
        BY <4>1, <3>1, <3>2, <1>1
    <3>4. CASE piece = PageSize
      <4>1. (P + r) % PageSize = 0
        BY <3>1, <3>4, <2>3, <2>4, <1>1, SumOfMultiples
      <4>2. d + PageSize <= P + r
        BY <4>1, <3>1, <3>2, <1>1, Apart
      <4> QED
        BY <4>2, <3>2, <3>3, <3>4, <2>2, <2>3, <1>1, <1>3
    <3>5. CASE piece = BufLen /\ BufLen < PageSize
      <4>1. r = BufLen
        <5>1. more < BufLen /\ r < BufLen + BufLen /\ r > 0
          BY <2>2, <2>3, <3>5, <1>3
        <5>2. BufLen < r => BufLen + BufLen <= r
          BY <2>3, <3>1, <3>5, Apart
        <5>3. r < BufLen => r + BufLen <= BufLen
          BY <2>3, <3>1, <3>5, Apart
        <5> QED
          BY <5>1, <5>2, <5>3, <3>1
      <4>2. a \in P .. P + PageSize - 1
        BY <4>1, <3>1, <3>5, <1>1
      <4>3. d = P
        BY <4>2, <3>1, <3>2, <2>4, Pages
      <4> QED
        BY <4>3, <3>2, <2>2, <1>3
    <3> QED
      BY <3>4, <3>5, <1>1, <1>3 DEF Smaller
  <2>7. ASSUME Adr % PageSize = 0, BufLen % PageSize = 0 PROVE Wrote(Adr, BufLen) = BufLen
    <3>1. first = PageSize /\ PageSize < BufLen
      BY <2>7, <2>2, <1>1
    <3>2. piece = PageSize /\ more % PageSize = 0
      <4>1. PageSize % PageSize = 0
        BY <1>1
      <4>2. BufLen \in Int /\ PageSize \in Int
        BY <1>1
      <4>3. (BufLen - PageSize) % PageSize = 0
        BY <4>1, <4>2, <2>7, <1>1, SumOfMultiples
      <4> QED
        BY <4>3, <3>1, <1>1 DEF Smaller
    <3>3. r = more
      <4>1. more < r => more + PageSize <= r
        BY <3>2, <2>2, <2>3, <1>1, Apart
      <4> QED
        BY <4>1, <3>2, <2>2, <2>3, <1>1
    <3> QED
      BY <3>3, <2>1, <1>3
  <2> QED
    BY <2>5, <2>6, <2>7
<1> QED
  BY <1>4, <1>5

-----------------------------------------------------------------------------
(* The invariant. *)

(* The types of the loader's state and the client's, field by field.       *)
Errors == {"TFTP_OK", "TFTP_IN_PROGRESS", "TFTP_ERR_COMPARE_FAIL",
           "TFTP_ERR_INTERNAL", "TFTP_ERR_FAILED"}
Types  == {"none", "FLASH", "COMPARE", "SAVE"}

LoaderType ==
  [Error : Errors, BytesTransfered : Nat, TransferType : Types,
   FlashAdr : 0 .. FlashSize, LastEraseAdr : Nat \cup {INVALID_FLASH_ADR},
   SendLen : Nat, ErrMsg : BOOLEAN, bAutoErase : BOOLEAN]

ClientType ==
  [upcb : BOOLEAN, handle : BOOLEAN, blknum : Nat, mode_write : {0, 1},
   last : Nat \cup {NoData}]

Data ==
  /\ TypeOK
  /\ gTftp \in LoaderType /\ tftp_state \in ClientType

Running == gTftp.Error = "TFTP_IN_PROGRESS"

(* How far a transfer that runs is, and what it is.                        *)
Transfer ==
  /\ Running => /\ pc = "wait" /\ tftp_state.handle
                /\ cmd.name \in {"flash", "verify", "save"}
  /\ Running => (tftp_state.mode_write = 0 <=> gTftp.TransferType = "SAVE")
  /\ (Running /\ tftp_state.mode_write = 1)
       => /\ tftp_state.blknum \in Nat \ {0}
          /\ gTftp.BytesTransfered = (tftp_state.blknum - 1) * Block
          /\ gTftp.BytesTransfered <= Len(file)
  /\ (Running /\ tftp_state.mode_write = 0) => gTftp.BytesTransfered <= gTftp.SendLen
  /\ cmd.name = "flash" => gTftp.TransferType = "FLASH"
  /\ cmd.name = "verify" => gTftp.TransferType = "COMPARE"
  /\ gTftp.Error = "TFTP_ERR_COMPARE_FAIL" => gTftp.TransferType = "COMPARE"

(* The byte of the flash that byte i of the file is compared with, or      *)
(* saved from.                                                             *)
There(i) == flash[(gTftp.FlashAdr + i) % FlashSize]

(* What a verify has counted was the same.                                 *)
Verified ==
  LET n == gTftp.BytesTransfered
  IN  (cmd.name = "verify" /\ pc # "hung")
      => /\ n <= Len(file)
         /\ \A i \in 0 .. n - 1 : file[i + 1] = There(i)
         /\ gTftp.Error = "TFTP_ERR_COMPARE_FAIL"
              => n < Len(file) /\ file[n + 1] # There(n)
         /\ (gTftp.Error = "TFTP_OK" /\ n > 0) => n = Len(file)
         /\ pc = "idle" => said = Verdict

(* What a save has sent is the flash, and after its last block the server  *)
(* has as much of it as was asked for.                                     *)
Saved ==
  LET n == gTftp.BytesTransfered
  IN  (cmd.name = "save" /\ gTftp.TransferType = "SAVE")
      => /\ (pc = "wait" /\ gTftp.Error \in {"TFTP_IN_PROGRESS", "TFTP_OK"})
              => Len(sent) = n /\ \A i \in 1 .. n : sent[i] = There(i - 1)
         /\ (Running /\ tftp_state.last \notin {NoData, Block}) => n = gTftp.SendLen
         /\ (/\ gTftp.Error = "TFTP_OK"
             /\ pc = "wait" \/ (pc = "idle" /\ "bytes" \in said))
              => /\ file = sent /\ n = gTftp.SendLen /\ Len(sent) = n
                 /\ \A i \in 1 .. n : sent[i] = There(i - 1)
         /\ (pc = "idle" /\ "bytes" \in said) => gTftp.Error = "TFTP_OK"

(* The transfers that write, and where the next byte goes.                 *)
Flashing == Running /\ gTftp.TransferType = "FLASH"
End == gTftp.FlashAdr + gTftp.BytesTransfered

(* The sector erased last is one of those of the bytes flashed so far.     *)
ErasedHere ==
  (Flashing /\ gTftp.bAutoErase)
  => IF gTftp.BytesTransfered = 0 THEN gTftp.LastEraseAdr = INVALID_FLASH_ADR
     ELSE /\ gTftp.LastEraseAdr \in SectorOf(gTftp.FlashAdr) .. SectorOf(End - 1)
          /\ gTftp.LastEraseAdr % EraseSize = 0

(* The other commands write nothing.                                       *)
Changed ==
  /\ cmd.name \notin {"erase", "flash", "save"} => flash = began
  /\ (cmd.name = "save" /\ gTftp.TransferType # "FLASH") => flash = began

(* A save without a length is taken for what it does: a flash, when the    *)
(* transfer before it was one.                                             *)
InSpan ==
  LET Adr  == gTftp.FlashAdr
      Span == IF cmd.name \in {"flash", "save"} /\ gTftp.TransferType = "FLASH"
              THEN Adr .. Adr + gTftp.BytesTransfered - 1
              ELSE cmd.range
      Around(a) == IF cmd.name = "erase" \/ gTftp.bAutoErase
                   THEN SectorOf(a) ELSE PageOf(a)
  IN  \A a \in Addresses :
        flash[a] # began[a] => \E b \in Span : Around(a) = Around(b)

(* When FlashedIsFile promises the file.                                   *)
Fits ==
  LET Adr == gTftp.FlashAdr
  IN  /\ gTftp.bAutoErase /\ Adr % PageSize = 0 /\ Adr + Len(file) <= FlashSize
      /\ \/ (Adr % EraseSize) + Block <= EraseSize
         \/ (Adr % EraseSize) + Len(file) <= EraseSize

HoldsFile(n) == \A i \in 1 .. n : flash[gTftp.FlashAdr + i - 1] = file[i]

(* The bytes so far are the file's, and behind them the sector is erased.  *)
Flashed ==
  (cmd.name = "flash" /\ Fits)
  => /\ Running =>
          /\ HoldsFile(gTftp.BytesTransfered)
          /\ gTftp.BytesTransfered > 0 =>
               /\ gTftp.LastEraseAdr = SectorOf(End - 1)
               /\ \A a \in End .. gTftp.LastEraseAdr + EraseSize - 1 : flash[a] = Erased
     /\ (pc = "wait" /\ gTftp.Error = "TFTP_OK") => HoldsFile(Len(file))
     /\ (pc = "idle" /\ "bytes" \in said) => HoldsFile(Len(file))

(* The inductive invariant.                                                *)
Parts ==
  /\ Data /\ Transfer /\ Verified /\ Saved /\ ErasedHere /\ Changed /\ InSpan
  /\ Flashed

-----------------------------------------------------------------------------
(* What the actions do, in the terms of the invariant. *)

(* What is assumed of the chip and the loader, in the form the proofs use. *)
LEMMA Consts ==
  /\ FlashSize \in Nat \ {0} /\ PageSize \in Nat \ {0} /\ EraseSize \in Nat \ {0}
  /\ EraseSize % PageSize = 0 /\ FlashSize % EraseSize = 0
  /\ Block \in Nat \ {0} /\ Block <= EraseSize /\ Block % PageSize = 0
  /\ gDefaultFlashAdr \in 0 .. FlashSize /\ Adrs \subseteq Nat /\ SendLens \subseteq Nat
BY ChipAssumption, LoaderAssumption DEF ChipAssumption, LoaderAssumption, Addresses

(* What a command leaves in gTftp before its transfer starts.              *)
LEMMA ValsType ==
  ASSUME gTftp \in LoaderType, NEW Adr \in Nat, NEW Type \in Types,
         NEW SendLen \in Nat \cup {NoData}
  PROVE  /\ TransferVals(Adr, Type, SendLen) \in LoaderType
         /\ Type # "SAVE" => TransferVals(Adr, Type, SendLen).TransferType = Type
<1> DEFINE a == IF Adr > FlashSize THEN gDefaultFlashAdr ELSE Adr
           addressed == [gTftp EXCEPT !.FlashAdr = a]
<1>1. a \in 0 .. FlashSize
  BY Consts
<1>2. TransferVals(Adr, Type, SendLen)
        = IF Type # "SAVE" THEN [addressed EXCEPT !.TransferType = Type]
          ELSE IF SendLen = NoData THEN addressed
          ELSE [addressed EXCEPT !.TransferType = Type, !.SendLen = SendLen]
  BY DEF TransferVals
<1> HIDE DEF a
<1>3. addressed \in LoaderType
  BY <1>1 DEF LoaderType
<1> HIDE DEF addressed
<1>4. CASE Type # "SAVE"
  BY <1>2, <1>3, <1>4 DEF LoaderType
<1>5. CASE Type = "SAVE" /\ SendLen = NoData
  BY <1>2, <1>3, <1>5
<1>6. CASE Type = "SAVE" /\ SendLen # NoData
  BY <1>2, <1>3, <1>6 DEF LoaderType
<1> QED
  BY <1>4, <1>5, <1>6

(* A transfer starts from nothing, or does not start.                      *)
LEMMA Start ==
  ASSUME NEW name, NEW t \in LoaderType, ldr_tftp_init(name, t)
  PROVE  /\ sent' = <<>> /\ file' = file
         /\ gTftp' \in LoaderType
         /\ gTftp'.BytesTransfered = 0 /\ gTftp'.TransferType = t.TransferType
         /\ gTftp'.LastEraseAdr = INVALID_FLASH_ADR
         /\ gTftp'.FlashAdr = t.FlashAdr /\ gTftp'.bAutoErase = t.bAutoErase
         /\ \/ gTftp'.Error = "TFTP_OK" /\ NotStarted(name)
            \/ /\ gTftp'.Error = "TFTP_IN_PROGRESS" /\ pc' = "wait" /\ said' = {}
               /\ tftp_state' = OpenClient(t.TransferType = "SAVE")
         /\ \/ UNCHANGED <<tftp_state, freePcbs>>
            \/ /\ tftp_state' = OpenClient(t.TransferType = "SAVE")
               /\ freePcbs > 0 /\ freePcbs' = freePcbs - 1
<1> DEFINE r == Reset(t)
<1>1. /\ r \in LoaderType /\ r.BytesTransfered = 0 /\ r.TransferType = t.TransferType
      /\ r.LastEraseAdr = INVALID_FLASH_ADR /\ r.Error = "TFTP_OK"
      /\ r.FlashAdr = t.FlashAdr /\ r.bAutoErase = t.bAutoErase
  BY DEF Reset, LoaderType, Errors
<1> HIDE DEF r
<1>2. \/ /\ gTftp' = r /\ NotStarted(name)
         /\ UNCHANGED <<tftp_state, freePcbs>>
      \/ /\ gTftp' = r /\ NotStarted(name)
         /\ tftp_state' = OpenClient(t.TransferType = "SAVE")
         /\ freePcbs > 0 /\ freePcbs' = freePcbs - 1
      \/ /\ gTftp' = [r EXCEPT !.Error = "TFTP_IN_PROGRESS"] /\ pc' = "wait" /\ said' = {}
         /\ tftp_state' = OpenClient(t.TransferType = "SAVE")
         /\ freePcbs > 0 /\ freePcbs' = freePcbs - 1
  BY DEF ldr_tftp_init, r
<1>3. sent' = <<>> /\ file' = file
  BY DEF ldr_tftp_init
<1>4. CASE gTftp' = r /\ NotStarted(name)
  BY <1>1, <1>2, <1>3, <1>4
<1>5. CASE gTftp' = [r EXCEPT !.Error = "TFTP_IN_PROGRESS"] /\ pc' = "wait" /\ said' = {}
  <2>1. /\ gTftp' \in LoaderType /\ gTftp'.BytesTransfered = 0
        /\ gTftp'.TransferType = t.TransferType
        /\ gTftp'.LastEraseAdr = INVALID_FLASH_ADR /\ gTftp'.Error = "TFTP_IN_PROGRESS"
        /\ gTftp'.FlashAdr = t.FlashAdr /\ gTftp'.bAutoErase = t.bAutoErase
    BY <1>1, <1>5 DEF LoaderType, Errors
  <2>2. r # gTftp'
    BY <2>1, <1>1
  <2> QED
    BY <2>1, <2>2, <1>2, <1>3, <1>5
<1> QED
  BY <1>2, <1>4, <1>5

(* The client of a transfer that begins expects the first block, or, of a  *)
(* save, the acknowledgement of the request.                               *)
LEMMA OpenType ==
  ASSUME NEW put \in BOOLEAN
  PROVE  /\ OpenClient(put) \in ClientType
         /\ OpenClient(put).upcb = TRUE /\ OpenClient(put).handle = TRUE
         /\ OpenClient(put).blknum = (IF put THEN 0 ELSE 1)
         /\ OpenClient(put).mode_write = (IF put THEN 0 ELSE 1)
         /\ OpenClient(put).last = NoData
BY DEF OpenClient, ClientType

(* The block that is expected, and the sector erased for it.               *)
BlockLen  == Smaller(Block, Len(file) - gTftp.BytesTransfered)
BlockData == [i \in 0 .. BlockLen - 1 |-> file[gTftp.BytesTransfered + i + 1]]
Sector    == NextErase(gTftp, End, BlockLen)
Clean     == IF Sector = gTftp.LastEraseAdr THEN flash ELSE spi_erase(flash, Sector)
AtFlash   == spi_read(flash, End, BlockLen)

Last(Error) == [gTftp EXCEPT !.Error = Error]
Counted ==
  [gTftp EXCEPT !.BytesTransfered = @ + BlockLen,
                !.Error = IF BlockLen < Block THEN "TFTP_OK" ELSE "TFTP_IN_PROGRESS"]

(* The block lies within the file, and one that is not full is its last.   *)
LEMMA TheBlock ==
  ASSUME Data, Transfer, Running, tftp_state.mode_write = 1
  PROVE  /\ BlockLen \in 0 .. Block /\ gTftp.BytesTransfered \in Nat
         /\ gTftp.BytesTransfered + BlockLen <= Len(file) /\ Len(file) \in Nat
         /\ BlockLen < Block => gTftp.BytesTransfered + BlockLen = Len(file)
         /\ BlockData \in [0 .. BlockLen - 1 -> Bytes]
         /\ End \in Nat
<1>1. Len(file) \in Nat /\ \A i \in 1 .. Len(file) : file[i] \in Bytes
  BY DEF Data, TypeOK
<1>2. gTftp.BytesTransfered \in Nat /\ gTftp.BytesTransfered <= Len(file) /\ gTftp.FlashAdr \in Nat
  BY Consts DEF Data, Transfer, LoaderType
<1>3. /\ BlockLen \in 0 .. Block
      /\ gTftp.BytesTransfered + BlockLen <= Len(file)
      /\ BlockLen < Block => gTftp.BytesTransfered + BlockLen = Len(file)
  BY <1>1, <1>2, Consts DEF BlockLen, Smaller
<1>4. BlockData \in [0 .. BlockLen - 1 -> Bytes]
  <2>1. ASSUME NEW i \in 0 .. BlockLen - 1 PROVE file[gTftp.BytesTransfered + i + 1] \in Bytes
    BY <1>1, <1>2, <1>3
  <2> QED
    BY <2>1 DEF BlockData
<1> QED
  BY <1>1, <1>2, <1>3, <1>4 DEF End

(* What DataArrives makes of the flash and the loader.                     *)
LEMMA Arrival ==
  ASSUME Data, Transfer, DataArrives
  PROVE  /\ Running /\ tftp_state.mode_write = 1 /\ pc = "wait"
         /\ UNCHANGED <<freePcbs, file, sent, pc, cmd, said, began, cmds>>
         /\ tftp_state' = [tftp_state EXCEPT
              !.handle = (gTftp'.Error = "TFTP_IN_PROGRESS"),
              !.blknum = IF BlockLen < Block THEN @ ELSE @ + 1]
         /\ \/ BlockLen = 0 /\ flash' = flash /\ gTftp' = Last("TFTP_OK")
            \/ /\ BlockLen > 0 /\ gTftp.TransferType = "FLASH"
               /\ flash' = spi_write(Clean, End, BlockData, BlockLen)
               /\ gTftp' = [Counted EXCEPT !.LastEraseAdr = Sector]
            \/ /\ BlockLen > 0 /\ gTftp.TransferType = "COMPARE" /\ AtFlash = BlockData
               /\ flash' = flash /\ gTftp' = Counted
            \/ /\ BlockLen > 0 /\ gTftp.TransferType = "COMPARE" /\ AtFlash # BlockData
               /\ flash' = flash
               /\ gTftp' = [Last("TFTP_ERR_COMPARE_FAIL") EXCEPT
                              !.BytesTransfered = @ + Same(BlockData, AtFlash)]
            \/ /\ BlockLen > 0 /\ gTftp.TransferType \notin {"FLASH", "COMPARE"}
               /\ flash' = flash /\ gTftp' = Last("TFTP_ERR_INTERNAL")
<1> DEFINE w == tftp_write(BlockData, BlockLen)
           closes == w.t.Error # "TFTP_IN_PROGRESS" \/ BlockLen < Block
<1>1. Running /\ tftp_state.mode_write = 1 /\ pc = "wait"
  BY DEF DataArrives, Receiving, Running
<1>2. /\ BlockLen \in 0 .. Block /\ gTftp.BytesTransfered \in Nat /\ Block \in Nat \ {0}
      /\ (tftp_state.blknum - 1) * Block = gTftp.BytesTransfered
  BY <1>1, TheBlock, Consts DEF Transfer
<1>3. /\ flash' = w.flash
      /\ gTftp' = IF closes THEN tftp_close(w.t) ELSE w.t
      /\ tftp_state' = [tftp_state EXCEPT
           !.handle = ~closes,
           !.blknum = IF BlockLen < Block THEN @ ELSE @ + 1]
      /\ UNCHANGED <<freePcbs, file, sent, pc, cmd, said, began, cmds>>
  BY <1>2 DEF DataArrives, BlockLen, BlockData
<1>4. gTftp \in LoaderType /\ gTftp.Error = "TFTP_IN_PROGRESS"
  BY <1>1 DEF Data, Running
<1> DEFINE done == [gTftp EXCEPT !.BytesTransfered = @ + BlockLen]
<1>5. CASE BlockLen = 0
  <2>1. w.flash = flash /\ w.t = gTftp
    BY <1>5 DEF tftp_write
  <2>2. closes /\ gTftp' = Last("TFTP_OK")
    BY <2>1, <1>2, <1>3, <1>4, <1>5 DEF tftp_close, Last
  <2>3. gTftp'.Error = "TFTP_OK"
    BY <2>2, <1>4 DEF Last, LoaderType
  <2> QED
    BY <2>1, <2>2, <2>3, <1>1, <1>3, <1>5
<1>6. CASE BlockLen > 0 /\ gTftp.TransferType = "FLASH"
  <2> DEFINE next == [done EXCEPT !.LastEraseAdr = Sector]
  <2>1. /\ w.flash = spi_write(Clean, End, BlockData, BlockLen)
        /\ w.t = next
    BY <1>6 DEF tftp_write, Clean, Sector, End
  <2>2. next.Error = "TFTP_IN_PROGRESS"
    BY <1>4 DEF LoaderType
  <2>3. closes <=> BlockLen < Block
    BY <2>1, <2>2
  <2>4. gTftp' = IF BlockLen < Block THEN [next EXCEPT !.Error = "TFTP_OK"] ELSE next
    BY <2>1, <2>2, <2>3, <1>3 DEF tftp_close
  <2>5. gTftp' = [Counted EXCEPT !.LastEraseAdr = Sector]
    BY <2>4, <1>4 DEF Counted, LoaderType
  <2>6. gTftp'.Error = "TFTP_IN_PROGRESS" <=> ~(BlockLen < Block)
    BY <2>5, <1>4 DEF Counted, LoaderType
  <2> QED
    BY <2>1, <2>3, <2>5, <2>6, <1>1, <1>3, <1>6
<1>7. CASE BlockLen > 0 /\ gTftp.TransferType = "COMPARE" /\ AtFlash = BlockData
  <2>1. w.flash = flash /\ w.t = done
    BY <1>7 DEF tftp_write, AtFlash, End
  <2>2. done.Error = "TFTP_IN_PROGRESS"
    BY <1>4 DEF LoaderType
  <2>3. closes <=> BlockLen < Block
    BY <2>1, <2>2
  <2>4. gTftp' = IF BlockLen < Block THEN [done EXCEPT !.Error = "TFTP_OK"] ELSE done
    BY <2>1, <2>2, <2>3, <1>3 DEF tftp_close
  <2>5. gTftp' = Counted
    BY <2>4, <1>4 DEF Counted, LoaderType
  <2>6. gTftp'.Error = "TFTP_IN_PROGRESS" <=> ~(BlockLen < Block)
    BY <2>5, <1>4 DEF Counted, LoaderType
  <2> QED
    BY <2>1, <2>3, <2>5, <2>6, <1>1, <1>3, <1>7
<1>8. CASE BlockLen > 0 /\ gTftp.TransferType = "COMPARE" /\ AtFlash # BlockData
  <2> DEFINE n == Same(BlockData, AtFlash)
             fail == [gTftp EXCEPT !.BytesTransfered = @ + n, !.Error = "TFTP_ERR_COMPARE_FAIL"]
  <2>1. w.flash = flash /\ w.t = fail
    BY <1>8 DEF tftp_write, AtFlash, End
  <2> HIDE DEF n
  <2>2. fail.Error = "TFTP_ERR_COMPARE_FAIL"
    BY <1>4 DEF LoaderType
  <2>3. closes /\ gTftp' = fail
    BY <2>1, <2>2, <1>3 DEF tftp_close
  <2>4. fail = [Last("TFTP_ERR_COMPARE_FAIL") EXCEPT !.BytesTransfered = @ + n]
    BY <1>4 DEF Last, LoaderType
  <2> QED
    BY <2>1, <2>2, <2>3, <2>4, <1>1, <1>3, <1>8 DEF n
<1>9. CASE BlockLen > 0 /\ gTftp.TransferType \notin {"FLASH", "COMPARE"}
  <2>1. w.flash = flash /\ w.t = Last("TFTP_ERR_INTERNAL")
    BY <1>9 DEF tftp_write, Last
  <2>2. Last("TFTP_ERR_INTERNAL").Error = "TFTP_ERR_INTERNAL"
    BY <1>4 DEF Last, LoaderType
  <2>3. closes /\ gTftp' = Last("TFTP_ERR_INTERNAL")
    BY <2>1, <2>2, <1>3 DEF tftp_close
  <2> QED
    BY <2>1, <2>2, <2>3, <1>1, <1>3, <1>9
<1> QED
  BY <1>2, <1>5, <1>6, <1>7, <1>8, <1>9

(* Where two blocks differ Same() is the first byte that does.             *)
LEMMA Differs ==
  ASSUME NEW n \in Nat, NEW data \in [0 .. n - 1 -> Bytes],
         NEW there \in [0 .. n - 1 -> Bytes], data # there
  PROVE  /\ Same(data, there) \in 0 .. n - 1
         /\ data[Same(data, there)] # there[Same(data, there)]
         /\ \A j \in 0 .. Same(data, there) - 1 : data[j] = there[j]
<1> DEFINE Differ == {i \in DOMAIN data : data[i] # there[i]}
<1>1. Differ # {} /\ Differ \in SUBSET Nat
  OBVIOUS
<1>2. \E i \in Differ : \A j \in Differ : i <= j
  BY <1>1, Smallest
<1>3. Same(data, there) = CHOOSE i \in Differ : \A j \in Differ : i <= j
  BY DEF Same
<1>4. PICK i : i = Same(data, there)
  OBVIOUS
<1>5. i \in Differ /\ \A j \in Differ : i <= j
  BY <1>2, <1>3, <1>4
<1>6. i \in 0 .. n - 1 /\ data[i] # there[i]
  BY <1>5
<1>7. ASSUME NEW j \in 0 .. i - 1 PROVE data[j] = there[j]
  <2>1. j \in DOMAIN data /\ ~(i <= j)
    BY <1>6
  <2> QED
    BY <2>1, <1>5
<1> QED
  BY <1>4, <1>6, <1>7

(* The driver leaves a flash of bytes, and reads bytes.                    *)
LEMMA FlashKeepsType ==
  ASSUME NEW f \in [Addresses -> Bytes], NEW Adr \in Nat, NEW BufLen \in Nat
  PROVE  /\ spi_erase(f, Adr) \in [Addresses -> Bytes]
         /\ \A data \in [0 .. BufLen - 1 -> Bytes] :
              spi_write(f, Adr, data, BufLen) \in [Addresses -> Bytes]
         /\ spi_read(f, Adr, BufLen) \in [0 .. BufLen - 1 -> Bytes]
<1>1. spi_erase(f, Adr) \in [Addresses -> Bytes]
  BY DEF spi_erase, Bytes
<1>2. ASSUME NEW data \in [0 .. BufLen - 1 -> Bytes]
      PROVE  spi_write(f, Adr, data, BufLen) \in [Addresses -> Bytes]
  <2>1. \A old, new \in Bytes : Program(old, new) \in Bytes
    BY DEF Program, Bytes
  <2>2. ASSUME NEW a \in Addresses, a \in Adr .. Adr + Wrote(Adr, BufLen) - 1
        PROVE  (IF a - Adr < BufLen THEN data[a - Adr] ELSE Behind) \in Bytes
    <3>1. a \in Nat /\ Adr <= a
      BY <2>2, Consts DEF Addresses
    <3> QED
      BY <3>1 DEF Bytes
  <2> QED
    BY <2>1, <2>2 DEF spi_write
<1>3. spi_read(f, Adr, BufLen) \in [0 .. BufLen - 1 -> Bytes]
  <2>1. ASSUME NEW i \in 0 .. BufLen - 1 PROVE (Adr + i) % FlashSize \in Addresses
    <3>1. Adr + i \in Int /\ FlashSize \in Nat \ {0}
      BY Consts
    <3> QED
      BY <3>1, Divide DEF Addresses
  <2> QED
    BY <2>1 DEF spi_read
<1> QED
  BY <1>1, <1>2, <1>3

(* A block leaves everything of its type.                                  *)
LEMMA ArrivalKeepsType ==
  ASSUME Data, Transfer, DataArrives
  PROVE  Data'
<1>1. /\ flash \in [Addresses -> Bytes] /\ gTftp \in LoaderType /\ tftp_state \in ClientType
      /\ Running /\ tftp_state.mode_write = 1
  BY Arrival DEF Data, TypeOK
<1>2. /\ BlockLen \in 0 .. Block /\ gTftp.BytesTransfered \in Nat
      /\ BlockData \in [0 .. BlockLen - 1 -> Bytes] /\ End \in Nat
  BY <1>1, TheBlock
<1>3. BlockLen \in Nat
  BY <1>2, Consts
<1>4. Counted \in LoaderType /\ \A e \in Errors : Last(e) \in LoaderType
  <2>1. PICK n \in Nat : n = gTftp.BytesTransfered + BlockLen
    BY <1>2, <1>3
  <2>2. PICK e \in Errors : e = IF BlockLen < Block THEN "TFTP_OK" ELSE "TFTP_IN_PROGRESS"
    BY DEF Errors
  <2>3. Counted = [gTftp EXCEPT !.BytesTransfered = n, !.Error = e]
    BY <2>1, <2>2 DEF Counted
  <2>4. Counted \in LoaderType
    BY <2>3, <1>1 DEF LoaderType
  <2> QED
    BY <2>4, <1>1 DEF Last, LoaderType
<1>5. flash' \in [Addresses -> Bytes] /\ gTftp' \in LoaderType
  <2>1. CASE BlockLen = 0 /\ flash' = flash /\ gTftp' = Last("TFTP_OK")
    BY <2>1, <1>1, <1>4 DEF Errors
  <2>2. CASE /\ BlockLen > 0 /\ gTftp.TransferType = "FLASH"
             /\ flash' = spi_write(Clean, End, BlockData, BlockLen)
             /\ gTftp' = [Counted EXCEPT !.LastEraseAdr = Sector]
    <3>1. SectorOf(End) \in Nat
      BY <1>2, Sectors
    <3>2. Sector \in Nat \cup {INVALID_FLASH_ADR}
      BY <3>1, <1>1, Consts DEF Sector, NextErase, LoaderType
    <3>3. Sector # gTftp.LastEraseAdr => Sector \in Nat
      BY <3>1, <1>1, Consts DEF Sector, NextErase, LoaderType
    <3>4. Clean \in [Addresses -> Bytes]
      BY <3>3, <1>1, FlashKeepsType, Consts DEF Clean
    <3>5. flash' \in [Addresses -> Bytes]
      BY <3>4, <2>2, <1>2, <1>3, FlashKeepsType
    <3>6. gTftp' \in LoaderType
      BY <3>2, <2>2, <1>4 DEF LoaderType
    <3> QED
      BY <3>5, <3>6
  <2>3. CASE flash' = flash /\ gTftp' = Counted
    BY <2>3, <1>1, <1>4
  <2>4. CASE /\ AtFlash # BlockData /\ flash' = flash
             /\ gTftp' = [Last("TFTP_ERR_COMPARE_FAIL") EXCEPT
                            !.BytesTransfered = @ + Same(BlockData, AtFlash)]
    <3>1. AtFlash \in [0 .. BlockLen - 1 -> Bytes]
      BY <1>1, <1>2, <1>3, FlashKeepsType DEF AtFlash
    <3>2. Same(BlockData, AtFlash) \in 0 .. BlockLen - 1
      BY <3>1, <2>4, <1>2, <1>3, Differs
    <3>3. Last("TFTP_ERR_COMPARE_FAIL") \in LoaderType
      BY <1>4 DEF Errors
    <3> QED
      BY <3>2, <3>3, <2>4, <1>1, <1>3 DEF LoaderType
  <2>5. CASE flash' = flash /\ gTftp' = Last("TFTP_ERR_INTERNAL")
    BY <2>5, <1>1, <1>4 DEF Errors
  <2> QED
    BY <2>1, <2>2, <2>3, <2>4, <2>5, Arrival
<1>6. tftp_state' \in ClientType /\ tftp_state'.upcb = tftp_state.upcb
  <2>1. tftp_state' = [tftp_state EXCEPT
              !.handle = (gTftp'.Error = "TFTP_IN_PROGRESS"),
              !.blknum = IF BlockLen < Block THEN @ ELSE @ + 1]
    BY Arrival
  <2>2. PICK h \in BOOLEAN : h = (gTftp'.Error = "TFTP_IN_PROGRESS")
    OBVIOUS
  <2>3. PICK n \in Nat : n = IF BlockLen < Block THEN tftp_state.blknum ELSE tftp_state.blknum + 1
    BY <1>1 DEF ClientType
  <2>4. tftp_state' = [tftp_state EXCEPT !.handle = h, !.blknum = n]
    BY <2>1, <2>2, <2>3
  <2> QED
    BY <2>4, <1>1 DEF ClientType
<1>7. UNCHANGED <<freePcbs, file, sent, pc, began>>
  BY Arrival
<1>8. gTftp'.BytesTransfered \in Nat /\ gTftp'.FlashAdr \in 0 .. FlashSize
      /\ gTftp'.LastEraseAdr \in Nat \cup {INVALID_FLASH_ADR}
  BY <1>5 DEF LoaderType
<1> QED
  BY <1>5, <1>6, <1>7, <1>8 DEF Data, TypeOK

(* Appending n values to a sequence.                                       *)
LEMMA Appended ==
  ASSUME NEW S, NEW s \in Seq(S), NEW n \in Nat, NEW f \in [1 .. n -> S]
  PROVE  /\ s \o f \in Seq(S) /\ Len(s \o f) = Len(s) + n
         /\ \A i \in 1 .. Len(s) : (s \o f)[i] = s[i]
         /\ \A i \in 1 .. n : (s \o f)[Len(s) + i] = f[i]
  OBVIOUS

(* An acknowledgement ends a save, or sends the next n bytes.              *)
LEMMA Acknowledged ==
  ASSUME Data, Transfer, AckArrives
  PROVE  /\ Running /\ tftp_state.mode_write = 0 /\ pc = "wait"
         /\ UNCHANGED <<flash, freePcbs, pc, cmd, said, began>>
         /\ \/ /\ tftp_state.last \notin {NoData, Block}
               /\ gTftp' = Last("TFTP_OK") /\ file' = sent /\ sent' = sent
               /\ tftp_state' = [tftp_state EXCEPT !.handle = FALSE]
            \/ /\ file' = file
               /\ \E n \in Nat :
                    /\ gTftp.BytesTransfered + n <= gTftp.SendLen
                    /\ n # Block => gTftp.BytesTransfered + n = gTftp.SendLen
                    /\ gTftp' = [gTftp EXCEPT !.BytesTransfered = @ + n]
                    /\ tftp_state' = [tftp_state EXCEPT !.blknum = @ + 1, !.last = n]
                    /\ sent' \in Seq(Bytes) /\ Len(sent') = Len(sent) + n
                    /\ \A i \in 1 .. Len(sent) : sent'[i] = sent[i]
                    /\ \A i \in 1 .. n :
                         sent'[Len(sent) + i] = There(gTftp.BytesTransfered + i - 1)
<1>1. Running /\ tftp_state.mode_write = 0 /\ pc = "wait"
  BY DEF AckArrives, Receiving, Running
<1>2. UNCHANGED <<flash, freePcbs, pc, cmd, said, began>>
  BY DEF AckArrives
<1>3. CASE tftp_state.last \notin {NoData, Block}
  <2>1. gTftp' = tftp_close(gTftp) /\ file' = sent /\ sent' = sent
        /\ tftp_state' = [tftp_state EXCEPT !.handle = FALSE]
    BY <1>3 DEF AckArrives
  <2>2. gTftp' = Last("TFTP_OK")
    BY <2>1, <1>1 DEF tftp_close, Last, Running
  <2> QED
    BY <2>1, <2>2, <1>1, <1>2, <1>3
<1>4. CASE tftp_state.last \in {NoData, Block}
  <2> DEFINE k == Smaller(Block, gTftp.SendLen - gTftp.BytesTransfered)
             r == spi_read(flash, ReadAdr, k)
             more == [i \in 1 .. k |-> r[i - 1]]
  <2>1. file' = file
        /\ gTftp' = [gTftp EXCEPT !.BytesTransfered = @ + k]
        /\ tftp_state' = [tftp_state EXCEPT !.blknum = @ + 1, !.last = k]
        /\ sent' = sent \o more
    BY <1>4 DEF AckArrives
  <2>2. /\ gTftp.SendLen \in Nat /\ gTftp.BytesTransfered \in Nat
        /\ gTftp.FlashAdr \in Nat /\ gTftp.BytesTransfered <= gTftp.SendLen
    BY <1>1, Consts DEF Data, LoaderType, Transfer
  <2>3. PICK n \in Nat :
          /\ n = k /\ gTftp.BytesTransfered + n <= gTftp.SendLen
          /\ n # Block => gTftp.BytesTransfered + n = gTftp.SendLen
    BY <2>2, Consts DEF Smaller
  <2>4. ReadAdr \in Nat /\ ReadAdr = End
    BY <2>2 DEF ReadAdr, End
  <2>5. r \in [0 .. n - 1 -> Bytes]
    BY <2>3, <2>4, FlashKeepsType DEF Data, TypeOK
  <2>6. more \in [1 .. n -> Bytes]
    BY <2>3, <2>5
  <2>7. ASSUME NEW i \in 1 .. n PROVE more[i] = There(gTftp.BytesTransfered + i - 1)
    <3>1. i - 1 \in 0 .. n - 1
      OBVIOUS
    <3>2. more[i] = r[i - 1] /\ r[i - 1] = flash[(ReadAdr + (i - 1)) % FlashSize]
      BY <3>1, <2>3 DEF spi_read
    <3>3. ReadAdr + (i - 1) = gTftp.FlashAdr + (gTftp.BytesTransfered + i - 1)
      BY <2>2 DEF ReadAdr
    <3> QED
      BY <3>2, <3>3 DEF There
  <2>8. sent \in Seq(Bytes)
    BY DEF Data, TypeOK
  <2> HIDE DEF more, k
  <2>9. /\ sent' \in Seq(Bytes) /\ Len(sent') = Len(sent) + n
        /\ \A i \in 1 .. Len(sent) : sent'[i] = sent[i]
        /\ \A i \in 1 .. n : sent'[Len(sent) + i] = more[i]
    BY <2>1, <2>6, <2>8, Appended
  <2> QED
    BY <2>1, <2>3, <2>7, <2>9, <1>1, <1>2, ZenonT(60)
<1> QED
  BY <1>3, <1>4

(* The server's error ends a transfer.                                     *)
LEMMA Refused ==
  ASSUME Data, Transfer, ErrorArrives
  PROVE  /\ Running /\ pc = "wait"
         /\ UNCHANGED <<flash, freePcbs, file, sent, pc, cmd, said, began>>
         /\ tftp_state' = [tftp_state EXCEPT !.handle = FALSE]
         /\ \E message \in BOOLEAN :
              gTftp' = [gTftp EXCEPT !.Error = "TFTP_ERR_FAILED", !.ErrMsg = message]
<1>1. PICK message \in BOOLEAN :
        gTftp' = tftp_close([gTftp EXCEPT !.Error = "TFTP_ERR_FAILED", !.ErrMsg = message])
  BY DEF ErrorArrives
<1>2. PICK t : t = [gTftp EXCEPT !.Error = "TFTP_ERR_FAILED", !.ErrMsg = message]
  OBVIOUS
<1>3. t.Error = "TFTP_ERR_FAILED"
  BY <1>2 DEF Data, LoaderType
<1>4. gTftp' = t
  BY <1>1, <1>2, <1>3 DEF tftp_close
<1> QED
  BY <1>2, <1>4 DEF ErrorArrives, Receiving, Running

(* No transfer runs while the shell waits for a command.                   *)
LEMMA NotRunning ==
  ASSUME Transfer, pc = "idle"
  PROVE  ~Running
  BY DEF Transfer

(* flash and save say so when a transfer did not start; verify goes on.    *)
LEMMA SaysNotStarted ==
  ASSUME NEW name, NotStarted(name)
  PROVE  /\ name = "verify" => pc' = "wait"
         /\ name # "verify" => pc' = "idle" /\ "bytes" \notin said'
         /\ pc' \in {"idle", "wait"}
<1>1. CASE name = "verify"
  BY <1>1 DEF NotStarted
<1>2. CASE name # "verify"
  <2>1. pc' = "idle" /\ said' = {"tftp transfer failed"}
    BY <1>2 DEF NotStarted
  <2> QED
    BY <2>1, <1>2
<1> QED
  BY <1>1, <1>2

(* A transfer that starts, or does not.                                    *)
LEMMA BeginKeeps ==
  ASSUME Data, NEW name \in {"flash", "verify", "save"}, NEW t \in LoaderType,
         Command(name, {}), ldr_tftp_init(name, t), UNCHANGED flash,
         name = "flash" => t.TransferType = "FLASH",
         name = "verify" => t.TransferType = "COMPARE"
  PROVE  Parts'
<1>1. /\ pc = "idle" /\ began' = flash /\ flash' = flash
      /\ cmd' = [name |-> name, range |-> {}] /\ cmd'.name = name
  BY DEF Command
<1>2. /\ sent' = <<>> /\ file' = file
      /\ gTftp' \in LoaderType
      /\ gTftp'.BytesTransfered = 0 /\ gTftp'.TransferType = t.TransferType
      /\ gTftp'.LastEraseAdr = INVALID_FLASH_ADR
      /\ \/ gTftp'.Error = "TFTP_OK" /\ NotStarted(name)
         \/ /\ gTftp'.Error = "TFTP_IN_PROGRESS" /\ pc' = "wait" /\ said' = {}
            /\ tftp_state' = OpenClient(t.TransferType = "SAVE")
  BY Start
<1>3. \/ UNCHANGED <<tftp_state, freePcbs>>
      \/ /\ tftp_state' = OpenClient(t.TransferType = "SAVE")
         /\ freePcbs > 0 /\ freePcbs' = freePcbs - 1
  BY Start
<1>4. PICK put \in BOOLEAN : put = (t.TransferType = "SAVE")
  OBVIOUS
<1>5. /\ OpenClient(put) \in ClientType
      /\ OpenClient(put).upcb = TRUE /\ OpenClient(put).handle = TRUE
      /\ OpenClient(put).blknum = (IF put THEN 0 ELSE 1)
      /\ OpenClient(put).mode_write = (IF put THEN 0 ELSE 1)
      /\ OpenClient(put).last = NoData
  BY OpenType
<1>6. /\ gTftp'.SendLen \in Nat /\ gTftp'.FlashAdr \in 0 .. FlashSize
      /\ gTftp'.LastEraseAdr \in Nat \cup {INVALID_FLASH_ADR}
  BY <1>2 DEF LoaderType
<1>7. /\ name # "verify" /\ gTftp'.Error = "TFTP_OK" => pc' = "idle" /\ "bytes" \notin said'
      /\ name # "verify" /\ pc' = "idle" => "bytes" \notin said'
      /\ name = "verify" => pc' = "wait"
      /\ pc' \in {"idle", "wait"}
  <2>1. CASE gTftp'.Error = "TFTP_OK" /\ NotStarted(name)
    BY <2>1, SaysNotStarted
  <2>2. CASE gTftp'.Error = "TFTP_IN_PROGRESS" /\ pc' = "wait"
    BY <2>2
  <2> QED
    BY <2>1, <2>2, <1>2
<1>8. Data'
  <2>1. tftp_state' \in ClientType
    BY <1>3, <1>4, <1>5 DEF Data
  <2>2. freePcbs' \in 0 .. (IF tftp_state'.upcb THEN UdpPcbs - 1 ELSE UdpPcbs)
    BY <1>3, <1>4, <1>5, LoaderAssumption DEF Data, TypeOK, LoaderAssumption
  <2>3. pc' \in {"idle", "wait", "hung"}
    BY <1>7
  <2>4. sent' \in Seq(Bytes)
    BY <1>2
  <2> QED
    BY <2>1, <2>2, <2>3, <2>4, <1>1, <1>2, <1>6 DEF Data, TypeOK
<1>9. Transfer'
  <2>1. CASE gTftp'.Error = "TFTP_OK"
    BY <2>1, <1>1, <1>2 DEF Transfer, Running
  <2>2. CASE gTftp'.Error = "TFTP_IN_PROGRESS"
    <3>1. tftp_state' = OpenClient(put) /\ pc' = "wait"
      BY <2>2, <1>2, <1>4
    <3>2. put => gTftp'.TransferType = "SAVE" /\ tftp_state'.mode_write = 0
      BY <3>1, <1>2, <1>4, <1>5
    <3>3. ~put => /\ gTftp'.TransferType # "SAVE" /\ tftp_state'.mode_write = 1
                  /\ tftp_state'.blknum = 1 /\ (tftp_state'.blknum - 1) * Block = 0
      <4>1. (1 - 1) * Block = 0
        BY Consts
      <4> QED
        BY <4>1, <3>1, <1>2, <1>4, <1>5
    <3>4. Len(file)' \in Nat
      BY <1>8 DEF Data, TypeOK
    <3> QED
      BY <3>1, <3>2, <3>3, <3>4, <2>2, <1>1, <1>2, <1>5, <1>6 DEF Transfer, Running
  <2> QED
    BY <2>1, <2>2, <1>2
<1>10. Verified'
  <2>1. Len(file)' \in Nat
    BY <1>8 DEF Data, TypeOK
  <2>2. name = "verify" => pc' = "wait"
    BY <1>7
  <2>3. gTftp'.Error # "TFTP_ERR_COMPARE_FAIL"
    BY <1>2
  <2> QED
    BY <2>1, <2>2, <2>3, <1>1, <1>2 DEF Verified
<1>11. Saved'
  <2>1. Running' => pc' = "wait" /\ tftp_state'.last = NoData
    BY <1>2, <1>4, <1>5 DEF Running
  <2>2. name = "save" /\ gTftp'.Error = "TFTP_OK" => pc' = "idle" /\ "bytes" \notin said'
    BY <1>7
  <2>3. name = "save" /\ pc' = "idle" => "bytes" \notin said'
    BY <1>7
  <2> QED
    BY <2>1, <2>2, <2>3, <1>1, <1>2 DEF Saved
<1>12. ErasedHere'
  BY <1>2 DEF ErasedHere
<1>13. Changed'
  BY <1>1 DEF Changed
<1>14. InSpan'
  BY <1>1 DEF InSpan
<1>15. Flashed'
  <2>1. name = "flash" /\ gTftp'.Error = "TFTP_OK" => pc' = "idle" /\ "bytes" \notin said'
    BY <1>7
  <2>2. name = "flash" /\ pc' = "idle" => "bytes" \notin said'
    BY <1>7
  <2> QED
    BY <2>1, <2>2, <1>1, <1>2 DEF Flashed, HoldsFile
<1> QED
  BY <1>8, <1>9, <1>10, <1>11, <1>12, <1>13, <1>14, <1>15 DEF Parts

(* erase changes only the sectors of its range; autoerase changes no byte. *)
LEMMA DoneAtOnceKeeps ==
  ASSUME Data, Transfer,
         \/ \E On \in BOOLEAN : AutoEraseCmd(On)
         \/ \E Adr, EndAdr \in Adrs : EraseCmd(Adr, EndAdr)
  PROVE  Parts'
<1>1. /\ pc = "idle" /\ pc' = pc /\ began' = flash /\ UNCHANGED network
      /\ cmd'.name \in {"autoerase", "erase"}
      /\ gTftp' = gTftp \/ \E On \in BOOLEAN : gTftp' = [gTftp EXCEPT !.bAutoErase = On]
  BY DEF AutoEraseCmd, EraseCmd, Command
<1>2. /\ gTftp' \in LoaderType /\ gTftp'.Error = gTftp.Error
      /\ gTftp'.TransferType = gTftp.TransferType
      /\ gTftp'.BytesTransfered \in Nat /\ gTftp'.FlashAdr \in 0 .. FlashSize
      /\ gTftp'.LastEraseAdr \in Nat \cup {INVALID_FLASH_ADR}
  BY <1>1 DEF Data, LoaderType
<1>3. ~Running /\ ~Running'
  BY <1>1, <1>2, NotRunning DEF Running
<1>4. flash' \in [Addresses -> Bytes] /\ InSpan' /\ Changed'
  <2>1. CASE \E On \in BOOLEAN : AutoEraseCmd(On)
    <3>1. flash' = flash /\ cmd'.name = "autoerase"
      BY <2>1 DEF AutoEraseCmd, Command
    <3> QED
      BY <3>1, <1>1 DEF InSpan, Changed, Data, TypeOK
  <2>2. CASE \E Adr, EndAdr \in Adrs : EraseCmd(Adr, EndAdr)
    <3>1. PICK Adr \in Adrs, EndAdr \in Adrs : EraseCmd(Adr, EndAdr)
      BY <2>2
    <3>2. Adr \in Nat /\ EndAdr \in Nat
      BY Consts
    <3>3. /\ cmd'.name = "erase" /\ cmd'.range = Adr .. EndAdr
          /\ flash' = flash \/ flash' = EraseAll(Adr, EndAdr)
      BY <3>1 DEF EraseCmd, Command
    <3>4. flash' \in [Addresses -> Bytes]
      BY <3>3 DEF EraseAll, Data, TypeOK, Bytes
    <3>5. Changed'
      BY <3>3 DEF Changed
    <3>6. ASSUME NEW a \in Addresses, flash'[a] # flash[a]
          PROVE  \E b \in Adr .. EndAdr : SectorOf(a) = SectorOf(b)
      <4>1. Adr <= SectorOf(a) /\ SectorOf(a) < EndAdr
        BY <3>6, <3>3 DEF EraseAll
      <4>2. PICK d \in Int : d = SectorOf(a) /\ d % EraseSize = 0
        <5>1. a \in Int
          BY DEF Addresses
        <5> QED
          BY <5>1, Sectors
      <4>3. d \in d .. d + EraseSize - 1
        BY <4>2, Consts
      <4>4. SectorOf(d) = d
        BY <4>2, <4>3, Sectors
      <4>5. d \in Adr .. EndAdr
        BY <4>1, <4>2, <3>2
      <4> QED
        BY <4>2, <4>4, <4>5
    <3>7. InSpan'
      BY <3>3, <3>6, <1>1 DEF InSpan
    <3> QED
      BY <3>4, <3>5, <3>7
  <2> QED
    BY <2>1, <2>2
<1>5. Data'
  BY <1>1, <1>2, <1>4 DEF Data, TypeOK, network
<1>6. Transfer'
  BY <1>1, <1>2, <1>3 DEF Transfer, Running
<1>7. Verified' /\ Saved' /\ ErasedHere' /\ Flashed'
  BY <1>1, <1>3 DEF Verified, Saved, ErasedHere, Flashing, Flashed, Running
<1> QED
  BY <1>4, <1>5, <1>6, <1>7 DEF Parts

(* What a command has said, for what the transfer came to.                 *)
LEMMA Verdicts ==
  ASSUME gTftp \in LoaderType
  PROVE  /\ "bytes" \in Verdict
              => ~gTftp.ErrMsg /\ gTftp.Error \in {"TFTP_OK", "TFTP_ERR_COMPARE_FAIL"}
         /\ "Compare failed" \in Verdict => gTftp.Error = "TFTP_ERR_COMPARE_FAIL"
         /\ Verdict = {"bytes"} => gTftp.Error = "TFTP_OK"
<1>1. gTftp.ErrMsg \in BOOLEAN
  BY DEF LoaderType
<1>2. CASE gTftp.ErrMsg
  <2>1. Verdict = {"message"}
    BY <1>2 DEF Verdict
  <2> QED
    BY <2>1
<1>3. CASE ~gTftp.ErrMsg /\ gTftp.Error = "TFTP_OK"
  <2>1. Verdict = {"bytes"}
    BY <1>3 DEF Verdict
  <2> QED
    BY <2>1, <1>3
<1>4. CASE ~gTftp.ErrMsg /\ gTftp.Error = "TFTP_ERR_COMPARE_FAIL"
  <2>1. Verdict = {"Compare failed", "bytes"}
    BY <1>4 DEF Verdict
  <2>2. "Compare failed" # "bytes" /\ "Compare failed" \in Verdict
    BY <2>1
  <2>3. Verdict # {"bytes"}
    BY <2>2
  <2> QED
    BY <2>3, <1>4
<1>5. CASE ~gTftp.ErrMsg /\ gTftp.Error \notin {"TFTP_OK", "TFTP_ERR_COMPARE_FAIL"}
  <2>1. Verdict = {"Failed"}
    BY <1>5 DEF Verdict
  <2> QED
    BY <2>1
<1> QED
  BY <1>1, <1>2, <1>3, <1>4, <1>5

(* A command that ends has said the truth about the transfer.              *)
LEMMA WaitKeeps ==
  ASSUME Parts, TftpTranserWait
  PROVE  Parts'
<1>1. /\ pc = "wait" /\ ~Running /\ UNCHANGED <<flash, gTftp, file, sent, cmd, began>>
      /\ \/ /\ tftp_state.upcb /\ tftp_state' = NoClient /\ freePcbs' = freePcbs + 1
            /\ pc' = "idle" /\ said' = Verdict
         \/ pc' = "hung" /\ UNCHANGED <<tftp_state, freePcbs, said>>
  BY DEF TftpTranserWait, tftp_cleanup, Running
<1>2. ~Running' /\ Verdict' = Verdict
  BY <1>1 DEF Running, Verdict
<1>3. Data /\ gTftp \in LoaderType
  BY DEF Parts, Data
<1>4. Data'
  <2>1. CASE pc' = "hung" /\ UNCHANGED <<tftp_state, freePcbs, said>>
    BY <2>1, <1>1, <1>3 DEF Data, TypeOK
  <2>2. CASE /\ tftp_state.upcb /\ tftp_state' = NoClient /\ freePcbs' = freePcbs + 1
             /\ pc' = "idle"
    <3>1. tftp_state' \in ClientType /\ tftp_state'.upcb = FALSE
      BY <2>2 DEF NoClient, ClientType
    <3>2. freePcbs' \in 0 .. UdpPcbs
      BY <2>2, <1>3, LoaderAssumption DEF Data, TypeOK, LoaderAssumption
    <3> QED
      BY <3>1, <3>2, <2>2, <1>1, <1>3 DEF Data, TypeOK
  <2> QED
    BY <2>1, <2>2, <1>1
<1>5. Transfer'
  BY <1>1, <1>2 DEF Parts, Transfer, Running
<1>6. Verified'
  <2>1. There(0)' = There(0) /\ \A i : There(i)' = There(i)
    BY <1>1 DEF There
  <2> QED
    BY <2>1, <1>1, <1>2 DEF Parts, Verified
<1>7. Saved'
  <2>1. \A i : There(i)' = There(i)
    BY <1>1 DEF There
  <2>2. pc' # "wait" /\ (pc' = "idle" => said' = Verdict)
    BY <1>1
  <2>3. (cmd.name = "save" /\ gTftp.TransferType = "SAVE" /\ "bytes" \in Verdict)
          => gTftp.Error = "TFTP_OK"
    BY <1>3, Verdicts DEF Parts, Transfer
  <2> QED
    BY <2>1, <2>2, <2>3, <1>1, <1>2 DEF Parts, Saved
<1>8. ErasedHere' /\ Changed' /\ InSpan'
  BY <1>1, <1>2 DEF Parts, ErasedHere, Flashing, Changed, InSpan
<1>9. Flashed'
  <2>1. (cmd.name = "flash" /\ "bytes" \in Verdict) => gTftp.Error = "TFTP_OK"
    BY <1>3, Verdicts DEF Parts, Transfer
  <2>2. pc' # "wait" /\ (pc' = "idle" => said' = Verdict)
    BY <1>1
  <2>3. Fits' <=> Fits
    BY <1>1 DEF Fits
  <2>4. HoldsFile(Len(file))' <=> HoldsFile(Len(file))
    BY <1>1 DEF HoldsFile
  <2> QED
    BY <2>1, <2>2, <2>3, <2>4, <1>1, <1>2 DEF Parts, Flashed
<1> QED
  BY <1>4, <1>5, <1>6, <1>7, <1>8, <1>9 DEF Parts

(* What is sent of a save is the flash, byte by byte.                      *)
LEMMA AckKeeps ==
  ASSUME Parts, AckArrives
  PROVE  Parts'
<1>1. /\ Data /\ Transfer /\ gTftp \in LoaderType /\ tftp_state \in ClientType
      /\ gTftp.BytesTransfered \in Nat /\ gTftp.SendLen \in Nat
  BY DEF Parts, Data, LoaderType
<1>2. /\ Running /\ tftp_state.mode_write = 0 /\ pc = "wait" /\ gTftp.TransferType = "SAVE"
      /\ UNCHANGED <<flash, freePcbs, pc, cmd, said, began>>
      /\ gTftp.BytesTransfered <= gTftp.SendLen
  BY <1>1, Acknowledged DEF Transfer
<1>3. cmd.name \notin {"flash", "verify"}
  BY <1>1, <1>2 DEF Transfer
<1>4. Verified' /\ Flashed'
  BY <1>2, <1>3 DEF Verified, Flashed
<1>5. CASE /\ tftp_state.last \notin {NoData, Block}
           /\ gTftp' = Last("TFTP_OK") /\ file' = sent /\ sent' = sent
           /\ tftp_state' = [tftp_state EXCEPT !.handle = FALSE]
  <2>1. /\ gTftp' \in LoaderType /\ gTftp'.Error = "TFTP_OK"
        /\ gTftp'.TransferType = "SAVE"
        /\ gTftp'.BytesTransfered = gTftp.BytesTransfered
        /\ gTftp'.SendLen = gTftp.SendLen /\ gTftp'.FlashAdr = gTftp.FlashAdr
        /\ gTftp'.bAutoErase = gTftp.bAutoErase
        /\ gTftp'.LastEraseAdr = gTftp.LastEraseAdr
    BY <1>1, <1>2, <1>5 DEF Last, LoaderType, Errors
  <2>2. tftp_state' \in ClientType /\ tftp_state'.upcb = tftp_state.upcb
    BY <1>1, <1>5 DEF ClientType
  <2>3. ~Running'
    BY <2>1 DEF Running
  <2>4. Data'
    BY <2>1, <2>2, <1>1, <1>2, <1>5 DEF Data, TypeOK, LoaderType
  <2>5. Transfer'
    BY <2>1, <2>3, <1>2, <1>3 DEF Transfer
  <2>6. \A i : There(i)' = There(i)
    BY <2>1, <1>2 DEF There
  <2>7. Saved'
    BY <2>1, <2>3, <2>6, <1>2, <1>5 DEF Parts, Saved, Running
  <2>8. ErasedHere' /\ Changed' /\ InSpan'
    BY <2>1, <2>3, <1>2 DEF Parts, ErasedHere, Flashing, Changed, InSpan
  <2> QED
    BY <2>4, <2>5, <2>7, <2>8, <1>4 DEF Parts
<1>6. ASSUME file' = file, NEW n \in Nat,
             gTftp.BytesTransfered + n <= gTftp.SendLen,
             n # Block => gTftp.BytesTransfered + n = gTftp.SendLen,
             gTftp' = [gTftp EXCEPT !.BytesTransfered = @ + n],
             tftp_state' = [tftp_state EXCEPT !.blknum = @ + 1, !.last = n],
             sent' \in Seq(Bytes), Len(sent') = Len(sent) + n,
             \A i \in 1 .. Len(sent) : sent'[i] = sent[i],
             \A i \in 1 .. n :
               sent'[Len(sent) + i] = There(gTftp.BytesTransfered + i - 1)
      PROVE  Parts'
  <2>1. /\ gTftp' \in LoaderType /\ gTftp'.Error = gTftp.Error
        /\ gTftp'.TransferType = "SAVE"
        /\ gTftp'.BytesTransfered = gTftp.BytesTransfered + n
        /\ gTftp'.SendLen = gTftp.SendLen /\ gTftp'.FlashAdr = gTftp.FlashAdr
        /\ gTftp'.bAutoErase = gTftp.bAutoErase
        /\ gTftp'.LastEraseAdr = gTftp.LastEraseAdr
    BY <1>1, <1>2, <1>6, SMTT(30) DEF LoaderType
  <2>2. /\ tftp_state' \in ClientType /\ tftp_state'.upcb = tftp_state.upcb
        /\ tftp_state'.mode_write = 0 /\ tftp_state'.handle = tftp_state.handle
        /\ tftp_state'.last = n
    <3>1. PICK b \in Nat : b = tftp_state.blknum + 1
      BY <1>1 DEF ClientType
    <3>2. tftp_state' = [tftp_state EXCEPT !.blknum = b, !.last = n]
      BY <3>1, <1>6
    <3> QED
      BY <3>2, <1>1, <1>2 DEF ClientType
  <2>3. Running' /\ gTftp.Error = "TFTP_IN_PROGRESS"
    BY <2>1, <1>2 DEF Running
  <2>4. Data'
    BY <2>1, <2>2, <1>1, <1>2, <1>6 DEF Data, TypeOK, LoaderType
  <2>5. Transfer'
    BY <2>1, <2>2, <2>3, <1>1, <1>2, <1>3, <1>6 DEF Transfer
  <2>6. \A i : There(i)' = There(i)
    BY <2>1, <1>2 DEF There
  <2>7. Saved'
    <3>1. CASE cmd.name = "save"
      <4>1. Len(sent) = gTftp.BytesTransfered
            /\ \A i \in 1 .. gTftp.BytesTransfered : sent[i] = There(i - 1)
        BY <3>1, <2>3, <1>2 DEF Parts, Saved
      <4>2. Len(sent') = gTftp'.BytesTransfered
        BY <4>1, <2>1, <1>6
      <4>3. ASSUME NEW i \in 1 .. gTftp'.BytesTransfered PROVE sent'[i] = There(i - 1)
        <5>1. CASE i <= gTftp.BytesTransfered
          <6>1. i \in 1 .. gTftp.BytesTransfered
            BY <5>1, <1>1
          <6> QED
            BY <6>1, <4>1, <1>6
        <5>2. CASE i > gTftp.BytesTransfered
          <6>1. PICK k \in 1 .. n : i = Len(sent) + k
            <7>1. i - gTftp.BytesTransfered \in 1 .. n
                  /\ i = gTftp.BytesTransfered + (i - gTftp.BytesTransfered)
              BY <5>2, <2>1, <1>1
            <7> QED
              BY <7>1, <4>1
          <6>2. sent'[i] = There(gTftp.BytesTransfered + k - 1)
            BY <6>1, <1>6
          <6>3. gTftp.BytesTransfered + k - 1 = i - 1
            BY <6>1, <4>1, <1>1
          <6> QED
            BY <6>2, <6>3
        <5> QED
          BY <5>1, <5>2, <2>1, <1>1
      <4>4. n \notin {NoData, Block} => gTftp'.BytesTransfered = gTftp'.SendLen
        BY <2>1, <1>6
      <4> QED
        BY <4>2, <4>3, <4>4, <2>1, <2>2, <2>3, <2>6, <1>2 DEF Saved
    <3>2. CASE cmd.name # "save"
      BY <3>2, <1>2 DEF Saved
    <3> QED
      BY <3>1, <3>2
  <2>8. ErasedHere' /\ Changed' /\ InSpan'
    BY <2>1, <1>2 DEF Parts, ErasedHere, Flashing, Changed, InSpan
  <2> QED
    BY <2>4, <2>5, <2>7, <2>8, <1>4 DEF Parts
<1> QED
  BY <1>1, <1>5, <1>6, Acknowledged

(* The server's error leaves the flash, and what was counted, as they are. *)
LEMMA ErrorKeeps ==
  ASSUME Parts, ErrorArrives
  PROVE  Parts'
<1>1. /\ Data /\ Transfer /\ gTftp \in LoaderType /\ tftp_state \in ClientType
  BY DEF Parts, Data
<1>2. /\ Running /\ pc = "wait"
      /\ UNCHANGED <<flash, freePcbs, file, sent, pc, cmd, said, began>>
      /\ tftp_state' = [tftp_state EXCEPT !.handle = FALSE]
  BY <1>1, Refused
<1>3. PICK message \in BOOLEAN :
        gTftp' = [gTftp EXCEPT !.Error = "TFTP_ERR_FAILED", !.ErrMsg = message]
  BY <1>1, Refused
<1>4. /\ gTftp' \in LoaderType /\ gTftp'.Error = "TFTP_ERR_FAILED"
      /\ gTftp'.TransferType = gTftp.TransferType
      /\ gTftp'.BytesTransfered = gTftp.BytesTransfered
      /\ gTftp'.SendLen = gTftp.SendLen /\ gTftp'.FlashAdr = gTftp.FlashAdr
      /\ gTftp'.bAutoErase = gTftp.bAutoErase
      /\ gTftp'.LastEraseAdr = gTftp.LastEraseAdr
  BY <1>1, <1>3 DEF LoaderType, Errors
<1>5. tftp_state' \in ClientType /\ tftp_state'.upcb = tftp_state.upcb
  BY <1>1, <1>2 DEF ClientType
<1>6. ~Running'
  BY <1>4 DEF Running
<1>7. Data'
  BY <1>1, <1>2, <1>4, <1>5 DEF Data, TypeOK, LoaderType
<1>8. Transfer'
  BY <1>1, <1>2, <1>4, <1>6 DEF Transfer
<1>9. \A i : There(i)' = There(i)
  BY <1>2, <1>4 DEF There
<1>10. Verified' /\ Saved'
  BY <1>2, <1>4, <1>6, <1>9 DEF Parts, Verified, Saved
<1>11. ErasedHere' /\ Changed' /\ InSpan' /\ Flashed'
  BY <1>2, <1>4, <1>6 DEF Parts, ErasedHere, Flashing, Changed, InSpan, Flashed
<1> QED
  BY <1>7, <1>8, <1>10, <1>11 DEF Parts

(* What a block changes in the loader.                                     *)
LEMMA ArrivalFields ==
  ASSUME Data, Transfer, DataArrives
  PROVE  /\ gTftp'.TransferType = gTftp.TransferType /\ gTftp'.FlashAdr = gTftp.FlashAdr
         /\ gTftp'.bAutoErase = gTftp.bAutoErase
         /\ \/ /\ BlockLen = 0 /\ flash' = flash /\ gTftp'.Error = "TFTP_OK"
               /\ gTftp'.BytesTransfered = gTftp.BytesTransfered
               /\ gTftp'.LastEraseAdr = gTftp.LastEraseAdr
            \/ /\ BlockLen > 0 /\ gTftp.TransferType = "FLASH"
               /\ flash' = spi_write(Clean, End, BlockData, BlockLen)
               /\ gTftp'.BytesTransfered = gTftp.BytesTransfered + BlockLen
               /\ gTftp'.Error = IF BlockLen < Block THEN "TFTP_OK" ELSE "TFTP_IN_PROGRESS"
               /\ gTftp'.LastEraseAdr = Sector
            \/ /\ BlockLen > 0 /\ gTftp.TransferType = "COMPARE" /\ AtFlash = BlockData
               /\ flash' = flash
               /\ gTftp'.BytesTransfered = gTftp.BytesTransfered + BlockLen
               /\ gTftp'.Error = IF BlockLen < Block THEN "TFTP_OK" ELSE "TFTP_IN_PROGRESS"
            \/ /\ BlockLen > 0 /\ gTftp.TransferType = "COMPARE" /\ AtFlash # BlockData
               /\ flash' = flash
               /\ gTftp'.BytesTransfered = gTftp.BytesTransfered + Same(BlockData, AtFlash)
               /\ gTftp'.Error = "TFTP_ERR_COMPARE_FAIL"
            \/ /\ BlockLen > 0 /\ gTftp.TransferType \notin {"FLASH", "COMPARE"}
               /\ flash' = flash /\ gTftp'.BytesTransfered = gTftp.BytesTransfered
               /\ gTftp'.Error = "TFTP_ERR_INTERNAL"
<1>1. gTftp \in LoaderType
  BY DEF Data
<1>2. CASE BlockLen = 0 /\ flash' = flash /\ gTftp' = Last("TFTP_OK")
  BY <1>1, <1>2 DEF Last, LoaderType
<1>3. CASE /\ BlockLen > 0 /\ gTftp.TransferType = "FLASH"
           /\ flash' = spi_write(Clean, End, BlockData, BlockLen)
           /\ gTftp' = [Counted EXCEPT !.LastEraseAdr = Sector]
  BY <1>1, <1>3 DEF Counted, LoaderType
<1>4. CASE /\ BlockLen > 0 /\ gTftp.TransferType = "COMPARE" /\ AtFlash = BlockData
           /\ flash' = flash /\ gTftp' = Counted
  BY <1>1, <1>4 DEF Counted, LoaderType
<1>5. CASE /\ BlockLen > 0 /\ gTftp.TransferType = "COMPARE" /\ AtFlash # BlockData
           /\ flash' = flash
           /\ gTftp' = [Last("TFTP_ERR_COMPARE_FAIL") EXCEPT
                          !.BytesTransfered = @ + Same(BlockData, AtFlash)]
  BY <1>1, <1>5 DEF Last, LoaderType
<1>6. CASE /\ BlockLen > 0 /\ gTftp.TransferType \notin {"FLASH", "COMPARE"}
           /\ flash' = flash /\ gTftp' = Last("TFTP_ERR_INTERNAL")
  BY <1>1, <1>6 DEF Last, LoaderType
<1> QED
  BY <1>2, <1>3, <1>4, <1>5, <1>6, Arrival

(* A full block that is in order is counted, and the next one expected.    *)
LEMMA ArrivalCounts ==
  ASSUME Data, Transfer, DataArrives
  PROVE  Transfer'
<1>1. /\ Running /\ tftp_state.mode_write = 1 /\ pc = "wait"
      /\ UNCHANGED <<file, pc, cmd>> /\ tftp_state \in ClientType
      /\ tftp_state' = [tftp_state EXCEPT
           !.handle = (gTftp'.Error = "TFTP_IN_PROGRESS"),
           !.blknum = IF BlockLen < Block THEN @ ELSE @ + 1]
  BY Arrival DEF Data
<1>2. /\ tftp_state'.mode_write = 1
      /\ tftp_state'.handle = (gTftp'.Error = "TFTP_IN_PROGRESS")
      /\ tftp_state'.blknum = IF BlockLen < Block THEN tftp_state.blknum
                                                  ELSE tftp_state.blknum + 1
  BY <1>1 DEF ClientType
<1>3. /\ BlockLen \in 0 .. Block /\ gTftp.BytesTransfered \in Nat
      /\ gTftp.BytesTransfered + BlockLen <= Len(file) /\ Len(file) \in Nat
      /\ tftp_state.blknum \in Nat \ {0}
      /\ gTftp.BytesTransfered = (tftp_state.blknum - 1) * Block
      /\ gTftp.TransferType # "SAVE" /\ cmd.name \in {"flash", "verify", "save"}
  BY <1>1, TheBlock DEF Transfer
<1>4. ASSUME Running'
      PROVE  /\ BlockLen = Block /\ gTftp'.BytesTransfered = gTftp.BytesTransfered + Block
  BY <1>3, <1>4, ArrivalFields, Consts DEF Running
<1>5. ASSUME Running'
      PROVE  /\ tftp_state'.blknum \in Nat \ {0}
             /\ gTftp'.BytesTransfered = (tftp_state'.blknum - 1) * Block
             /\ gTftp'.BytesTransfered <= Len(file')
  <2>1. tftp_state'.blknum = tftp_state.blknum + 1
    BY <1>2, <1>4, <1>5, Consts
  <2>2. (tftp_state.blknum + 1 - 1) * Block = (tftp_state.blknum - 1) * Block + Block
    <3>1. \A b \in Nat : (b + 1 - 1) * Block = (b - 1) * Block + Block
      BY Consts
    <3> QED
      BY <3>1, <1>3
  <2> QED
    BY <2>1, <2>2, <1>1, <1>3, <1>4, <1>5
<1>6. gTftp'.TransferType = gTftp.TransferType
  BY ArrivalFields
<1>7. gTftp'.Error = "TFTP_ERR_COMPARE_FAIL" => gTftp.TransferType = "COMPARE"
  BY ArrivalFields
<1>8. /\ cmd.name = "flash" => gTftp.TransferType = "FLASH"
      /\ cmd.name = "verify" => gTftp.TransferType = "COMPARE"
  BY DEF Transfer
<1> QED
  BY <1>1, <1>2, <1>3, <1>5, <1>6, <1>7, <1>8 DEF Transfer, Running

(* A block of a verify is compared from its first byte to its last.        *)
LEMMA ArrivalVerifies ==
  ASSUME Parts, DataArrives
  PROVE  Verified'
<1>1. /\ Data /\ Transfer
      /\ Running /\ tftp_state.mode_write = 1 /\ pc = "wait"
      /\ UNCHANGED <<file, pc, cmd, said>>
  BY Arrival DEF Parts
<1>2. /\ BlockLen \in 0 .. Block /\ gTftp.BytesTransfered \in Nat
      /\ gTftp.BytesTransfered + BlockLen <= Len(file) /\ Len(file) \in Nat
      /\ BlockLen < Block => gTftp.BytesTransfered + BlockLen = Len(file)
      /\ BlockData \in [0 .. BlockLen - 1 -> Bytes] /\ End \in Nat /\ BlockLen \in Nat
  BY <1>1, TheBlock, Consts
<1>3. SUFFICES ASSUME cmd.name = "verify" PROVE Verified'
  BY <1>1 DEF Verified
<1>4. /\ gTftp.TransferType = "COMPARE"
      /\ \A i \in 0 .. gTftp.BytesTransfered - 1 : file[i + 1] = There(i)
  BY <1>1, <1>3 DEF Parts, Transfer, Verified
<1>5. flash' = flash /\ gTftp'.FlashAdr = gTftp.FlashAdr
  BY <1>1, <1>4, ArrivalFields
<1>6. \A i : There(i)' = There(i)
  BY <1>5 DEF There
<1>7. gTftp.FlashAdr \in Nat /\ AtFlash \in [0 .. BlockLen - 1 -> Bytes]
  <2>1. gTftp.FlashAdr \in Nat /\ flash \in [Addresses -> Bytes]
    BY <1>1, Consts DEF Data, TypeOK
  <2> QED
    BY <2>1, <1>2, FlashKeepsType DEF AtFlash
<1>8. ASSUME NEW j \in 0 .. BlockLen - 1
      PROVE  /\ BlockData[j] = file[gTftp.BytesTransfered + j + 1]
             /\ AtFlash[j] = There(gTftp.BytesTransfered + j)
  <2>1. BlockData[j] = file[gTftp.BytesTransfered + j + 1]
    BY DEF BlockData
  <2>2. AtFlash[j] = flash[(End + j) % FlashSize]
    BY DEF AtFlash, spi_read
  <2>3. End + j = gTftp.FlashAdr + (gTftp.BytesTransfered + j)
    BY <1>2, <1>7 DEF End
  <2> QED
    BY <2>1, <2>2, <2>3 DEF There
<1>9. ASSUME NEW m \in 0 .. BlockLen, \A j \in 0 .. m - 1 : BlockData[j] = AtFlash[j]
      PROVE  \A i \in 0 .. gTftp.BytesTransfered + m - 1 : file[i + 1] = There(i)
  <2>1. SUFFICES ASSUME NEW i \in 0 .. gTftp.BytesTransfered + m - 1
                 PROVE  file[i + 1] = There(i)
    OBVIOUS
  <2>2. CASE i < gTftp.BytesTransfered
    <3>1. i \in 0 .. gTftp.BytesTransfered - 1
      BY <2>2, <1>2
    <3> QED
      BY <3>1, <1>4
  <2>3. CASE i >= gTftp.BytesTransfered
    <3>1. PICK j \in 0 .. m - 1 : i = gTftp.BytesTransfered + j
      <4>1. i - gTftp.BytesTransfered \in 0 .. m - 1
            /\ i = gTftp.BytesTransfered + (i - gTftp.BytesTransfered)
        BY <2>3, <1>2
      <4> QED
        BY <4>1
    <3>2. j \in 0 .. BlockLen - 1 /\ BlockData[j] = AtFlash[j]
      BY <3>1, <1>2, <1>9
    <3> QED
      BY <3>1, <3>2, <1>8
  <2> QED
    BY <2>2, <2>3, <1>2
<1>10. CASE /\ BlockLen = 0 /\ gTftp'.Error = "TFTP_OK"
            /\ gTftp'.BytesTransfered = gTftp.BytesTransfered
  <2>1. gTftp.BytesTransfered = Len(file)
    BY <1>2, <1>10, Consts
  <2> QED
    BY <2>1, <1>1, <1>2, <1>4, <1>6, <1>10 DEF Verified
<1>11. CASE /\ AtFlash = BlockData
            /\ gTftp'.BytesTransfered = gTftp.BytesTransfered + BlockLen
            /\ gTftp'.Error = IF BlockLen < Block THEN "TFTP_OK" ELSE "TFTP_IN_PROGRESS"
  <2>1. \A i \in 0 .. gTftp.BytesTransfered + BlockLen - 1 : file[i + 1] = There(i)
    BY <1>2, <1>9, <1>11
  <2> QED
    BY <2>1, <1>1, <1>2, <1>6, <1>11 DEF Verified
<1>12. CASE /\ AtFlash # BlockData
            /\ gTftp'.BytesTransfered = gTftp.BytesTransfered + Same(BlockData, AtFlash)
            /\ gTftp'.Error = "TFTP_ERR_COMPARE_FAIL"
  <2>1. PICK m : /\ m = Same(BlockData, AtFlash) /\ m \in 0 .. BlockLen - 1
                 /\ BlockData[m] # AtFlash[m]
                 /\ \A j \in 0 .. m - 1 : BlockData[j] = AtFlash[j]
    BY <1>2, <1>7, <1>12, Differs, SMTT(30)
  <2>2. m \in 0 .. BlockLen
    BY <2>1, <1>2
  <2>3. \A i \in 0 .. gTftp.BytesTransfered + m - 1 : file[i + 1] = There(i)
    BY <2>1, <2>2, <1>9
  <2>4. file[gTftp.BytesTransfered + m + 1] # There(gTftp.BytesTransfered + m)
    BY <2>1, <1>8
  <2>5. gTftp.BytesTransfered + m < Len(file)
    BY <2>1, <1>2
  <2>6. gTftp'.BytesTransfered = gTftp.BytesTransfered + m
    BY <2>1, <1>12
  <2>7. PICK n : n = gTftp.BytesTransfered + m
    OBVIOUS
  <2>8. n < Len(file') /\ n <= Len(file')
    BY <2>5, <2>7, <1>1, <1>2, <2>1
  <2>9. \A i \in 0 .. n - 1 : file'[i + 1] = There(i)'
    <3>1. SUFFICES ASSUME NEW i \in 0 .. n - 1 PROVE file'[i + 1] = There(i)'
      OBVIOUS
    <3>2. gTftp.BytesTransfered \in Nat /\ m \in Nat
      BY <2>2, <1>2
    <3>3. i \in 0 .. gTftp.BytesTransfered + m - 1
      BY <3>2, <2>7
    <3>4. file[i + 1] = There(i)
      BY <3>3, <2>3
    <3> QED
      BY <3>4, <1>1, <1>6
  <2>10. file'[n + 1] # There(n)'
    BY <2>4, <2>7, <1>1, <1>6
  <2>11. n = gTftp'.BytesTransfered /\ gTftp'.Error # "TFTP_OK" /\ pc' # "idle"
    BY <2>6, <2>7, <1>1, <1>12
  <2> QED
    BY <2>8, <2>9, <2>10, <2>11 DEF Verified, There
<1> QED
  BY <1>1, <1>4, <1>10, <1>11, <1>12, ArrivalFields

(* A sector does not change within a page, and a page begins itself.       *)
LEMMA PageInSector ==
  ASSUME NEW a \in Nat
  PROVE  PageOf(PageOf(a)) = PageOf(a) /\ SectorOf(PageOf(a)) = SectorOf(a)
<1>1. PICK p \in Nat : /\ p = PageOf(a) /\ p % PageSize = 0
                       /\ p <= a /\ a < p + PageSize
  BY Pages
<1>2. PICK s \in Nat : /\ s = SectorOf(a) /\ s % EraseSize = 0
                       /\ s <= a /\ a < s + EraseSize
  BY Sectors
<1>3. PageOf(p) = p
  <2>1. p \in p .. p + PageSize - 1
    BY <1>1, Consts
  <2> QED
    BY <2>1, <1>1, Pages
<1>4. s % PageSize = 0
  BY <1>2, Nested, Consts
<1>5. s <= p
  <2>1. p < s => p + PageSize <= s
    BY <1>1, <1>2, <1>4, Apart, Consts
  <2> QED
    BY <2>1, <1>1, <1>2, Consts
<1>6. p \in s .. s + EraseSize - 1
  BY <1>1, <1>2, <1>5, Consts
<1>7. SectorOf(p) = s
  BY <1>2, <1>6, <1>1, Sectors
<1> QED
  BY <1>1, <1>2, <1>3, <1>7

(* A sector between those of the first and the last byte has a byte.       *)
LEMMA SectorBetween ==
  ASSUME NEW a \in Nat, NEW z \in Nat, a <= z, NEW s \in SectorOf(a) .. SectorOf(z),
         s % EraseSize = 0
  PROVE  \E b \in a .. z : SectorOf(b) = s
<1>1. PICK sa \in Nat : sa = SectorOf(a) /\ sa % EraseSize = 0 /\ sa <= a /\ a < sa + EraseSize
  BY Sectors
<1>2. PICK sz \in Nat : sz = SectorOf(z) /\ sz <= z
  BY Sectors
<1>3. s \in Int /\ sa <= s /\ s <= sz
  BY <1>1, <1>2
<1>4. CASE s < a
  <2>1. sa < s => sa + EraseSize <= s
    BY <1>1, <1>3, Apart, Consts
  <2>2. sa = s
    BY <2>1, <1>1, <1>3, <1>4, Consts
  <2> QED
    BY <2>2, <1>1
<1>5. CASE a <= s
  <2>1. s \in a .. z
    BY <1>2, <1>3, <1>5
  <2>2. s \in s .. s + EraseSize - 1
    BY <1>3, Consts
  <2>3. SectorOf(s) = s
    BY <2>2, <1>3, Sectors
  <2> QED
    BY <2>1, <2>3
<1> QED
  BY <1>3, <1>4, <1>5

(* What programming does to a byte.                                        *)
LEMMA Written ==
  ASSUME NEW f \in [Addresses -> Bytes], NEW Adr \in Nat, NEW BufLen \in Nat \ {0},
         NEW data \in [0 .. BufLen - 1 -> Bytes], NEW a \in Addresses
  PROVE  LET g == spi_write(f, Adr, data, BufLen)
         IN  /\ a \notin Adr .. Adr + Wrote(Adr, BufLen) - 1 => g[a] = f[a]
             /\ (f[a] = Erased /\ a \in Adr .. Adr + BufLen - 1 /\ Adr + BufLen <= FlashSize)
                  => g[a] = data[a - Adr]
<1> DEFINE g == spi_write(f, Adr, data, BufLen)
<1>1. a \in Nat /\ Wrote(Adr, BufLen) \in Nat /\ Wrote(Adr, BufLen) >= BufLen
  BY WroteCovers, Consts DEF Addresses
<1>2. CASE Adr + BufLen > FlashSize
  <2>1. g = f
    BY <1>2 DEF spi_write
  <2> QED
    BY <2>1, <1>2, Consts
<1>3. CASE ~(Adr + BufLen > FlashSize)
  <2>1. g[a] = IF a \notin Adr .. Adr + Wrote(Adr, BufLen) - 1 THEN f[a]
               ELSE Program(f[a], IF a - Adr < BufLen THEN data[a - Adr] ELSE Behind)
    BY <1>3 DEF spi_write
  <2>2. ASSUME f[a] = Erased, a \in Adr .. Adr + BufLen - 1 PROVE g[a] = data[a - Adr]
    <3>1. a \in Adr .. Adr + Wrote(Adr, BufLen) - 1 /\ a - Adr < BufLen
      BY <2>2, <1>1
    <3>2. g[a] = Program(Erased, data[a - Adr])
      BY <3>1, <2>1, <2>2
    <3>3. \A new : Program(Erased, new) = new
      BY DEF Program
    <3> QED
      BY <3>2, <3>3
  <2> QED
    BY <2>1, <2>2
<1> QED
  BY <1>2, <1>3

(* What erasing does to a byte.                                            *)
LEMMA ErasedSector ==
  ASSUME NEW f \in [Addresses -> Bytes], NEW s \in Nat, s % EraseSize = 0, s < FlashSize
  PROVE  /\ s + EraseSize <= FlashSize
         /\ spi_erase(f, s)
              = [a \in Addresses |-> IF SectorOf(a) = s THEN Erased ELSE f[a]]
<1>1. s + EraseSize <= FlashSize
  <2>1. PICK f1 \in Int : f1 = FlashSize /\ f1 % EraseSize = 0
    BY Consts
  <2>2. EraseSize \in Nat \ {0} /\ s \in Int /\ s < f1
    BY <2>1, Consts
  <2>3. s + EraseSize <= f1
    BY <2>1, <2>2, Apart
  <2> QED
    BY <2>1, <2>3
<1> QED
  BY <1>1, Consts DEF spi_erase

(* The sector that is erased for a block is one of those of the bytes      *)
(* flashed so far, this block's included.                                  *)
LEMMA SectorOfBlock ==
  ASSUME Parts, DataArrives, BlockLen > 0, gTftp.TransferType = "FLASH"
  PROVE  /\ Sector # gTftp.LastEraseAdr => gTftp.bAutoErase
         /\ gTftp.bAutoErase
              => /\ Sector \in SectorOf(gTftp.FlashAdr) .. SectorOf(End + BlockLen - 1)
                 /\ Sector % EraseSize = 0 /\ Sector \in Nat
<1> DEFINE A    == gTftp.FlashAdr
           z    == End + BlockLen - 1
           last == gTftp.LastEraseAdr
<1>1. /\ Data /\ Transfer /\ Running /\ tftp_state.mode_write = 1
  BY Arrival DEF Parts
<1>2. /\ BlockLen \in Nat \ {0} /\ BlockLen <= Block /\ gTftp.BytesTransfered \in Nat
      /\ A \in Nat /\ End = A + gTftp.BytesTransfered /\ z \in Nat /\ End \in Nat
      /\ A <= z /\ EraseEnd(End, BlockLen) = SectorOf(z)
  BY <1>1, TheBlock, Consts, SMTT(30) DEF Data, LoaderType, End, EraseEnd
<1>3. Sector # last => gTftp.bAutoErase
  BY DEF Sector, NextErase
<1>4. SUFFICES ASSUME gTftp.bAutoErase
               PROVE  /\ Sector \in SectorOf(A) .. SectorOf(z)
                      /\ Sector % EraseSize = 0 /\ Sector \in Nat
  BY <1>3
<1> HIDE DEF A, z, last
<1>5. PICK sa \in Nat : sa = SectorOf(A) /\ sa % EraseSize = 0 /\ sa <= A /\ A < sa + EraseSize
  BY <1>2, Sectors
<1>6. PICK sz \in Nat : sz = SectorOf(z) /\ sz % EraseSize = 0 /\ sz <= z /\ z < sz + EraseSize
  BY <1>2, Sectors
<1>7. sa <= sz
  <2>1. sz < sa => sz + EraseSize <= sa
    BY <1>5, <1>6, Apart, Consts
  <2> QED
    BY <2>1, <1>2, <1>5, <1>6, Consts
<1>8. CASE last = sz
  <2>1. Sector = last
    BY <1>2, <1>6, <1>8 DEF Sector, NextErase, last
  <2> QED
    BY <2>1, <1>5, <1>6, <1>7, <1>8
<1>9. CASE last # sz /\ gTftp.BytesTransfered = 0
  <2>1. last = INVALID_FLASH_ADR
    BY <1>1, <1>4, <1>9 DEF Parts, ErasedHere, Flashing, last
  <2>2. Sector = sa
    BY <2>1, <1>2, <1>4, <1>5, <1>6, <1>9 DEF Sector, NextErase, last
  <2> QED
    BY <2>2, <1>5, <1>6, <1>7
<1>10. CASE last # sz /\ gTftp.BytesTransfered # 0
  <2>1. last \in SectorOf(A) .. SectorOf(End - 1) /\ last % EraseSize = 0
    BY <1>1, <1>4, <1>10 DEF Parts, ErasedHere, Flashing, last, A
  <2>2. PICK se \in Nat : se = SectorOf(End - 1) /\ se % EraseSize = 0 /\ se <= End - 1
    <3>1. End - 1 \in Nat
      BY <1>2, <1>10
    <3> QED
      BY <3>1, Sectors
  <2>3. last \in Nat /\ sa <= last /\ last <= se
    BY <2>1, <2>2, <1>5
  <2>4. last < sz
    <3>1. sz < last => sz + EraseSize <= last
      BY <2>1, <2>3, <1>6, Apart, Consts
    <3>2. last <= z
      BY <2>2, <2>3, <1>2 DEF z
    <3>3. ~(sz < last)
      BY <3>1, <3>2, <2>3, <1>2, <1>6, Consts
    <3> QED
      BY <3>3, <2>3, <1>6, <1>10
  <2>5. last + EraseSize <= sz
    BY <2>1, <2>3, <2>4, <1>6, Apart, Consts
  <2>6. Sector = last + EraseSize
    BY <2>3, <1>2, <1>4, <1>6, <1>10 DEF Sector, NextErase, last, INVALID_FLASH_ADR
  <2>7. (last + EraseSize) % EraseSize = 0
    <3>1. EraseSize \in Nat \ {0} /\ EraseSize % EraseSize = 0
      BY Consts
    <3>2. PICK e \in Int : e = EraseSize /\ e % EraseSize = 0
      BY <3>1
    <3>3. last \in Int /\ last % EraseSize = 0
      BY <2>1, <2>3
    <3>4. (last + e) % EraseSize = 0
      BY <3>1, <3>2, <3>3, SumOfMultiples
    <3> QED
      BY <3>2, <3>4
  <2> QED
    BY <2>3, <2>5, <2>6, <2>7, <1>5, <1>6, Consts
<1> QED
  BY <1>8, <1>9, <1>10

(* A block keeps to the sectors, or the pages, of what has been flashed.   *)
LEMMA ArrivalStays ==
  ASSUME Parts, DataArrives
  PROVE  ErasedHere' /\ Changed' /\ InSpan'
<1>1. /\ Data /\ Transfer /\ Running /\ tftp_state.mode_write = 1
      /\ UNCHANGED <<cmd, began>>
      /\ cmd.name \in {"flash", "verify", "save"}
      /\ cmd.name = "verify" => gTftp.TransferType = "COMPARE"
      /\ gTftp'.TransferType = gTftp.TransferType /\ gTftp'.FlashAdr = gTftp.FlashAdr
      /\ gTftp'.bAutoErase = gTftp.bAutoErase
  BY Arrival, ArrivalFields DEF Parts, Transfer
<1>2. /\ BlockLen \in 0 .. Block /\ gTftp.BytesTransfered \in Nat /\ BlockLen \in Nat
      /\ BlockData \in [0 .. BlockLen - 1 -> Bytes] /\ End \in Nat
      /\ gTftp.FlashAdr \in Nat /\ End = gTftp.FlashAdr + gTftp.BytesTransfered
  BY <1>1, TheBlock, Consts DEF Data, LoaderType, End
<1>3. CASE gTftp.TransferType # "FLASH"
  <2>1. flash' = flash
    BY <1>3, ArrivalFields, <1>1 DEF Parts
  <2>2. ErasedHere'
    BY <1>1, <1>3 DEF ErasedHere, Flashing
  <2>3. InSpan'
    BY <2>1, <1>1, <1>3 DEF Parts, InSpan
  <2> QED
    BY <2>1, <2>2, <2>3, <1>1 DEF Parts, Changed
<1>4. CASE gTftp.TransferType = "FLASH" /\ BlockLen = 0
  <2>1. /\ flash' = flash /\ gTftp'.BytesTransfered = gTftp.BytesTransfered
        /\ gTftp'.Error = "TFTP_OK"
    BY <1>4, ArrivalFields, <1>1
  <2>2. ErasedHere'
    BY <2>1 DEF ErasedHere, Flashing, Running
  <2>3. InSpan'
    BY <2>1, <1>1, <1>4 DEF Parts, InSpan
  <2> QED
    BY <2>1, <2>2, <2>3, <1>1 DEF Parts, Changed
<1>5. CASE gTftp.TransferType = "FLASH" /\ BlockLen > 0
  <2> DEFINE z == End + BlockLen - 1
  <2>1. /\ flash' = spi_write(Clean, End, BlockData, BlockLen)
        /\ gTftp'.BytesTransfered = gTftp.BytesTransfered + BlockLen
        /\ gTftp'.LastEraseAdr = Sector
    BY <1>1, <1>5, ArrivalFields
  <2>2. /\ Sector # gTftp.LastEraseAdr => gTftp.bAutoErase
        /\ gTftp.bAutoErase => /\ Sector \in SectorOf(gTftp.FlashAdr) .. SectorOf(z)
                               /\ Sector % EraseSize = 0 /\ Sector \in Nat
    BY <1>5, SectorOfBlock
  <2>3. z \in Nat /\ gTftp.FlashAdr <= z /\ End <= z /\ BlockLen \in Nat \ {0}
        /\ gTftp.FlashAdr + (gTftp.BytesTransfered + BlockLen) - 1 = z
    BY <1>2, <1>5
  <2>4. ErasedHere'
    <3>1. End' - 1 = z /\ gTftp'.BytesTransfered # 0
      BY <2>1, <2>3, <1>1, <1>2 DEF End
    <3> QED
      BY <3>1, <2>1, <2>2, <1>1 DEF ErasedHere
  <2>5. Changed'
    BY <1>1, <1>5 DEF Changed
  <2> HIDE DEF z
  <2>6. ASSUME NEW a \in Addresses, flash'[a] # flash[a]
        PROVE  \E b \in gTftp.FlashAdr .. z :
                 IF gTftp.bAutoErase THEN SectorOf(a) = SectorOf(b) ELSE PageOf(a) = PageOf(b)
    <3>1. a \in Nat /\ flash \in [Addresses -> Bytes]
      BY <1>1 DEF Addresses, Data, TypeOK
    <3>2. CASE Clean[a] # flash[a]
      <4>1. gTftp.bAutoErase /\ Clean = spi_erase(flash, Sector)
        BY <3>2, <2>2 DEF Clean
      <4>2. SectorOf(a) = Sector
        BY <4>1, <3>2 DEF spi_erase
      <4> QED
        BY <4>1, <4>2, <2>2, <2>3, <1>2, SectorBetween
    <3>3. CASE flash'[a] # Clean[a]
      <4>1. Clean \in [Addresses -> Bytes]
        BY <3>1, <2>2, FlashKeepsType DEF Clean
      <4>2. a \in End .. End + Wrote(End, BlockLen) - 1
        <5>1. PICK f \in [Addresses -> Bytes] : f = Clean
          BY <4>1
        <5>2. flash' = spi_write(f, End, BlockData, BlockLen) /\ flash'[a] # f[a]
          BY <5>1, <3>3, <2>1
        <5>3. BlockLen \in Nat \ {0} /\ End \in Nat /\ BlockData \in [0 .. BlockLen - 1 -> Bytes]
          BY <2>3, <1>2
        <5> QED
          BY <5>2, <5>3, Written
      <4>3. CASE a < End + BlockLen
        <5>1. a \in gTftp.FlashAdr .. z
          BY <4>2, <4>3, <3>1, <1>2, <2>3, SMTT(30) DEF z
        <5> QED
          BY <5>1
      <4>4. CASE a >= End + BlockLen
        <5>1. a \in End + BlockLen .. End + Wrote(End, BlockLen) - 1
          BY <4>2, <4>4, <3>1, <1>2
        <5>2. PageOf(a) \in End .. End + BlockLen - 1
          BY <5>1, <2>3, <1>2, WroteCovers
        <5>3. PageOf(a) \in gTftp.FlashAdr .. z
          BY <5>2, <1>2 DEF z
        <5> QED
          BY <5>3, <3>1, PageInSector
      <4> QED
        BY <4>3, <4>4, <3>1, <1>2
    <3> QED
      BY <3>2, <3>3, <2>6
  <2>7. InSpan'
    <3>1. SUFFICES ASSUME NEW a \in Addresses, flash'[a] # began[a]
                   PROVE  \E b \in gTftp.FlashAdr .. z :
                            IF gTftp.bAutoErase THEN SectorOf(a) = SectorOf(b)
                                                ELSE PageOf(a) = PageOf(b)
      BY <2>1, <2>3, <1>1, <1>5 DEF InSpan
    <3>2. CASE flash[a] # began[a]
      <4>1. \E b \in gTftp.FlashAdr .. gTftp.FlashAdr + gTftp.BytesTransfered - 1 :
              IF gTftp.bAutoErase THEN SectorOf(a) = SectorOf(b) ELSE PageOf(a) = PageOf(b)
        BY <3>2, <1>1, <1>5 DEF Parts, InSpan
      <4>2. gTftp.FlashAdr .. gTftp.FlashAdr + gTftp.BytesTransfered - 1
              \subseteq gTftp.FlashAdr .. z
        BY <2>3, <1>2, SMTT(30) DEF z
      <4> QED
        BY <4>1, <4>2
    <3>3. CASE flash[a] = began[a]
      BY <3>1, <3>3, <2>6
    <3> QED
      BY <3>2, <3>3
  <2> QED
    BY <2>4, <2>5, <2>7
<1> QED
  BY <1>2, <1>3, <1>4, <1>5

(* When every sector is erased for the file, the block meets only erased   *)
(* bytes, and so does the next one up to the end of its sector.            *)
LEMMA CleanForBlock ==
  ASSUME Parts, DataArrives, BlockLen > 0, cmd.name = "flash", Fits
  PROVE  /\ Clean \in [Addresses -> Bytes]
         /\ End + BlockLen <= FlashSize
         /\ Sector = SectorOf(End + BlockLen - 1) /\ Sector \in Nat
         /\ Sector + EraseSize <= FlashSize
         /\ End + BlockLen - 1 < Sector + EraseSize
         /\ \A a \in End .. Sector + EraseSize - 1 : Clean[a] = Erased
         /\ \A a \in gTftp.FlashAdr .. End - 1 : Clean[a] = flash[a]
<1> DEFINE A    == gTftp.FlashAdr
           BT   == gTftp.BytesTransfered
           z    == End + BlockLen - 1
           last == gTftp.LastEraseAdr
<1>1. /\ Data /\ Transfer /\ Running /\ tftp_state.mode_write = 1
      /\ gTftp.TransferType = "FLASH" /\ flash \in [Addresses -> Bytes]
  BY Arrival DEF Parts, Transfer, Data, TypeOK
<1>2. /\ BlockLen \in Nat \ {0} /\ BlockLen <= Block /\ BT \in Nat
      /\ A \in Nat /\ End = A + BT /\ z \in Nat /\ End \in Nat /\ End <= z
      /\ BT + BlockLen <= Len(file) /\ Len(file) \in Nat
      /\ EraseEnd(End, BlockLen) = SectorOf(z)
  BY <1>1, TheBlock, Consts, SMTT(30) DEF Data, LoaderType, End, EraseEnd
<1>3. /\ gTftp.bAutoErase /\ A + Len(file) <= FlashSize
      /\ \/ (A % EraseSize) + Block <= EraseSize
         \/ (A % EraseSize) + Len(file) <= EraseSize
  BY DEF Fits
<1>4. BT > 0 => /\ last = SectorOf(End - 1)
                /\ \A a \in End .. last + EraseSize - 1 : flash[a] = Erased
  BY <1>1 DEF Parts, Flashed
<1>5. BT = 0 => last = INVALID_FLASH_ADR
  BY <1>1, <1>3 DEF Parts, ErasedHere, Flashing
<1> HIDE DEF A, BT, z, last
<1>6. z < FlashSize /\ End + BlockLen <= FlashSize /\ z = End + BlockLen - 1
  BY <1>2, <1>3, Consts DEF z
<1>7. PICK sz \in Nat : sz = SectorOf(z) /\ sz % EraseSize = 0 /\ sz <= z /\ z < sz + EraseSize
  BY <1>2, Sectors
<1>8. \A s \in Nat : (s % EraseSize = 0 /\ s < FlashSize)
        => /\ s + EraseSize <= FlashSize
           /\ spi_erase(flash, s)
                = [a \in Addresses |-> IF SectorOf(a) = s THEN Erased ELSE flash[a]]
  BY <1>1, ErasedSector
<1>9. sz < FlashSize /\ sz + EraseSize <= FlashSize
  BY <1>6, <1>7, <1>8, Consts
<1>10. CASE BT = 0
  <2>1. End = A
    BY <1>2, <1>10
  <2>2. PICK sa \in Nat : sa = SectorOf(A) /\ sa % EraseSize = 0 /\ sa <= A /\ A < sa + EraseSize
    <3>1. A \in Nat
      BY <1>2
    <3> QED
      BY <3>1, Sectors
  <2>3. A = sa + (A % EraseSize) /\ A % EraseSize \in Nat
    BY <2>2, <1>2, Consts DEF SectorOf
  <2>4. z \in sa .. sa + EraseSize - 1
    BY <2>1, <2>2, <2>3, <1>2, <1>3, <1>6, <1>10, Consts
  <2>5. sa = sz
    BY <2>2, <2>4, <1>2, <1>7, Sectors
  <2>6. Sector = sz /\ Sector # last
    BY <2>1, <2>2, <2>5, <1>2, <1>3, <1>5, <1>7, <1>10
    DEF Sector, NextErase, last, INVALID_FLASH_ADR
  <2>7. Clean = [a \in Addresses |-> IF SectorOf(a) = sz THEN Erased ELSE flash[a]]
    BY <2>6, <1>7, <1>8, <1>9 DEF Clean, last
  <2>8. ASSUME NEW a \in End .. sz + EraseSize - 1 PROVE Clean[a] = Erased
    <3>1. a \in Addresses /\ a \in sz .. sz + EraseSize - 1
      BY <2>1, <2>2, <2>5, <1>2, <1>9, Consts DEF Addresses
    <3>2. SectorOf(a) = sz
      BY <3>1, <1>7, Sectors
    <3> QED
      BY <3>1, <3>2, <2>7
  <2>9. A .. End - 1 = {}
    BY <2>1, <1>2
  <2> QED
    BY <2>6, <2>7, <2>8, <2>9, <1>6, <1>7, <1>9, <1>1 DEF A, Bytes
<1>11. CASE BT # 0
  <2>1. End - 1 \in Nat
    BY <1>2, <1>11
  <2>2. PICK se \in Nat : se = SectorOf(End - 1) /\ se % EraseSize = 0
                          /\ se <= End - 1 /\ End - 1 < se + EraseSize
    BY <2>1, Sectors
  <2>3. last = se /\ \A a \in End .. se + EraseSize - 1 : flash[a] = Erased
    BY <2>2, <1>2, <1>4, <1>11
  <2>4. CASE se = sz
    <3>1. Sector = sz /\ Clean = flash
      BY <2>3, <2>4, <1>2, <1>7 DEF Sector, NextErase, Clean, last
    <3> QED
      BY <3>1, <2>3, <2>4, <1>1, <1>6, <1>7, <1>9
  <2>5. CASE se # sz
    <3>1. PICK s \in Nat : s = se + EraseSize
      BY Consts
    <3>2. s % EraseSize = 0
      <4>1. EraseSize \in Nat \ {0} /\ EraseSize % EraseSize = 0
        BY Consts
      <4>2. PICK e \in Int : e = EraseSize /\ e % EraseSize = 0
        BY <4>1
      <4>3. se \in Int
        BY <2>2
      <4>4. (se + e) % EraseSize = 0
        BY <4>1, <4>2, <4>3, <2>2, SumOfMultiples
      <4> QED
        BY <4>2, <4>4, <3>1
    <3>3. ~(sz < se)
      <4>1. sz < se => sz + EraseSize <= se
        BY <2>2, <1>7, Apart, Consts
      <4> QED
        BY <4>1, <2>2, <1>2, <1>7, Consts
    <3>4. s <= sz
      <4>1. se < sz => se + EraseSize <= sz
        BY <2>2, <1>7, Apart, Consts
      <4> QED
        BY <4>1, <3>1, <3>3, <2>2, <2>5, <1>7
    <3>5. ~(s < sz)
      <4>1. s < sz => s + EraseSize <= sz
        BY <3>1, <3>2, <1>7, Apart, Consts
      <4> QED
        BY <4>1, <3>1, <2>2, <1>2, <1>6, <1>7, Consts, SMTT(30)
    <3>6. s = sz
      BY <3>1, <3>4, <3>5, <1>7
    <3>7. Sector = sz /\ Sector # last
      BY <3>1, <3>6, <2>2, <2>3, <2>5, <1>2, <1>3, <1>7
      DEF Sector, NextErase, last, INVALID_FLASH_ADR
    <3>8. Clean = [a \in Addresses |-> IF SectorOf(a) = sz THEN Erased ELSE flash[a]]
      BY <3>7, <1>7, <1>8, <1>9 DEF Clean, last
    <3>9. ASSUME NEW a \in End .. sz + EraseSize - 1 PROVE Clean[a] = Erased
      <4>1. a \in Addresses /\ a \in Nat
        BY <1>2, <1>9, Consts DEF Addresses
      <4>2. CASE a < sz
        <5>1. a \in End .. se + EraseSize - 1
          BY <4>1, <4>2, <3>1, <3>6, <2>2, <1>2, Consts
        <5> QED
          BY <5>1, <4>1, <3>8, <2>3
      <4>3. CASE a >= sz
        <5>1. a \in sz .. sz + EraseSize - 1
          BY <4>1, <4>3
        <5>2. SectorOf(a) = sz
          BY <5>1, <4>1, <1>7, Sectors
        <5> QED
          BY <5>2, <4>1, <3>8
      <4> QED
        BY <4>1, <4>2, <4>3, <1>7
    <3>10. ASSUME NEW a \in A .. End - 1 PROVE Clean[a] = flash[a]
      <4>1. a \in Addresses /\ a \in Nat
        BY <1>2, <1>6, Consts DEF Addresses
      <4>2. SectorOf(a) <= a
        BY <4>1, Sectors
      <4>3. SectorOf(a) # sz
        BY <4>1, <4>2, <3>1, <3>6, <2>2, <1>2, Consts
      <4> QED
        BY <4>1, <4>3, <3>8
    <3> QED
      BY <3>7, <3>8, <3>9, <3>10, <1>1, <1>6, <1>7, <1>9 DEF A, Bytes
  <2> QED
    BY <2>4, <2>5
<1> QED
  BY <1>10, <1>11

(* No block arrives for a save.                                            *)
LEMMA ArrivalSaves ==
  ASSUME Data, Transfer, DataArrives
  PROVE  Saved'
<1>1. Running /\ tftp_state.mode_write = 1 /\ gTftp'.TransferType = gTftp.TransferType
  BY Arrival, ArrivalFields
<1>2. gTftp.TransferType # "SAVE"
  BY <1>1 DEF Transfer
<1> QED
  BY <1>1, <1>2 DEF Saved

(* A block of a file whose sectors are erased for it is flashed as it is,  *)
(* and the bytes before it stay.                                           *)
LEMMA ArrivalFlashes ==
  ASSUME Parts, DataArrives
  PROVE  Flashed'
<1> DEFINE A  == gTftp.FlashAdr
           BT == gTftp.BytesTransfered
           n  == BT + BlockLen
<1>1. /\ Data /\ Transfer /\ Running /\ tftp_state.mode_write = 1 /\ pc = "wait"
      /\ UNCHANGED <<file, pc, cmd, said>>
      /\ gTftp'.FlashAdr = A /\ gTftp'.bAutoErase = gTftp.bAutoErase
  BY Arrival, ArrivalFields DEF Parts
<1>2. /\ BlockLen \in 0 .. Block /\ BT \in Nat /\ BlockLen \in Nat
      /\ n <= Len(file) /\ Len(file) \in Nat
      /\ BlockLen < Block => n = Len(file)
      /\ BlockData \in [0 .. BlockLen - 1 -> Bytes] /\ End \in Nat
      /\ A \in Nat /\ End = A + BT
  BY <1>1, TheBlock, Consts DEF Data, LoaderType, End
<1>3. Fits' <=> Fits
  BY <1>1 DEF Fits
<1>4. SUFFICES ASSUME cmd.name = "flash", Fits PROVE Flashed'
  BY <1>1, <1>3 DEF Flashed
<1>5. gTftp.TransferType = "FLASH" /\ \A i \in 1 .. BT : flash[A + i - 1] = file[i]
  BY <1>1, <1>4 DEF Parts, Transfer, Flashed, HoldsFile
<1>6. CASE BlockLen = 0
  <2>1. flash' = flash /\ gTftp'.Error = "TFTP_OK"
    BY <1>1, <1>6, ArrivalFields
  <2>2. BT = Len(file)
    BY <1>2, <1>6, Consts
  <2>3. HoldsFile(Len(file))'
    BY <2>1, <2>2, <1>1, <1>5 DEF HoldsFile
  <2> QED
    BY <2>1, <2>3, <1>1 DEF Flashed, Running
<1>7. CASE BlockLen > 0
  <2>1. /\ flash' = spi_write(Clean, End, BlockData, BlockLen)
        /\ gTftp'.BytesTransfered = n
        /\ gTftp'.Error = IF BlockLen < Block THEN "TFTP_OK" ELSE "TFTP_IN_PROGRESS"
        /\ gTftp'.LastEraseAdr = Sector
    BY <1>1, <1>5, <1>7, ArrivalFields
  <2>2. PICK f \in [Addresses -> Bytes], s \in Nat :
          /\ f = Clean /\ s = Sector
          /\ End + BlockLen <= FlashSize
          /\ s = SectorOf(End + BlockLen - 1) /\ s + EraseSize <= FlashSize
          /\ End + BlockLen - 1 < s + EraseSize
          /\ \A a \in End .. s + EraseSize - 1 : f[a] = Erased
          /\ \A a \in A .. End - 1 : f[a] = flash[a]
    BY <1>4, <1>7, CleanForBlock
  <2>3. BlockLen \in Nat \ {0}
    BY <1>2, <1>7
  <2>4. \A a \in Addresses :
          /\ a \notin End .. End + Wrote(End, BlockLen) - 1 => flash'[a] = f[a]
          /\ (f[a] = Erased /\ a \in End .. End + BlockLen - 1)
               => flash'[a] = BlockData[a - End]
    <3>1. SUFFICES ASSUME NEW a \in Addresses
                   PROVE  /\ a \notin End .. End + Wrote(End, BlockLen) - 1 => flash'[a] = f[a]
                          /\ (f[a] = Erased /\ a \in End .. End + BlockLen - 1)
                               => flash'[a] = BlockData[a - End]
      OBVIOUS
    <3>2. flash' = spi_write(f, End, BlockData, BlockLen) /\ End + BlockLen <= FlashSize
          /\ End \in Nat /\ BlockData \in [0 .. BlockLen - 1 -> Bytes]
      BY <2>1, <2>2, <1>2
    <3> QED
      BY <3>2, <2>3, Written
  <2>5. PICK e \in Nat, b \in Nat, l \in Nat \ {0}, m \in Nat :
          /\ e = End /\ b = BT /\ l = BlockLen /\ m = A
          /\ e = m + b /\ n = b + l
    BY <2>3, <1>2
  <2>6. PICK top \in Nat : /\ s + EraseSize - 1 = top - 1 /\ e + l <= top
                           /\ \A a \in 0 .. top - 1 : a \in Addresses
    <3>1. PICK top \in Nat, size \in Nat : /\ top = s + EraseSize /\ size = FlashSize
                                          /\ top <= size
      BY <2>2, Consts
    <3>2. e + l <= top
      BY <3>1, <2>2, <2>5
    <3>3. \A a \in 0 .. top - 1 : a \in Addresses
      BY <3>1 DEF Addresses
    <3> QED
      BY <3>1, <3>2, <3>3, Consts
  <2>7. ASSUME NEW i \in 1 .. n PROVE flash'[A + i - 1] = file[i]
    <3>1. i \in 1 .. b + l
      BY <2>5
    <3>2. CASE i <= b
      <4>1. PICK a \in m .. e - 1 : a = m + i - 1
        BY <3>1, <3>2, <2>5
      <4>2. a \in Addresses /\ a < e
        <5>1. a \in 0 .. top - 1 /\ a < e
          BY <4>1, <2>6
        <5> QED
          BY <5>1, <2>6
      <4>3. a \notin End .. End + Wrote(End, BlockLen) - 1 /\ a \in A .. End - 1
        BY <4>1, <4>2, <2>5
      <4>4. flash'[a] = flash[a]
        BY <4>2, <4>3, <2>2, <2>4
      <4>5. i \in 1 .. BT
        BY <3>1, <3>2, <2>5
      <4> QED
        BY <4>1, <4>4, <4>5, <2>5, <1>5
    <3>3. CASE i > b
      <4>1. PICK a \in e .. e + l - 1 : a = m + i - 1 /\ a - e = i - b - 1
        BY <3>1, <3>3, <2>5
      <4>2. a \in Addresses /\ a \in e .. s + EraseSize - 1
        <5>1. a \in 0 .. top - 1 /\ a \in e .. top - 1
          BY <4>1, <2>6
        <5> QED
          BY <5>1, <2>6
      <4>3. a \in End .. s + EraseSize - 1 /\ a \in End .. End + BlockLen - 1
        BY <4>1, <4>2, <2>5
      <4>4. flash'[a] = BlockData[a - End]
        BY <4>2, <4>3, <2>2, <2>4
      <4>5. i - b - 1 \in 0 .. l - 1 /\ b + (i - b - 1) + 1 = i
        BY <3>1, <3>3
      <4>6. BlockData[i - b - 1] = file[b + (i - b - 1) + 1]
        BY <4>5, <2>5 DEF BlockData
      <4> QED
        BY <4>1, <4>4, <4>5, <4>6, <2>5
    <3> QED
      BY <3>1, <3>2, <3>3
  <2>8. CASE BlockLen < Block
    <3>1. gTftp'.Error = "TFTP_OK" /\ n = Len(file)
      BY <2>1, <2>8, <1>2
    <3>2. HoldsFile(Len(file))'
      BY <3>1, <2>7, <1>1 DEF HoldsFile
    <3> QED
      BY <3>1, <3>2, <1>1 DEF Flashed, Running
  <2>9. CASE BlockLen = Block
    <3>1. gTftp'.Error = "TFTP_IN_PROGRESS" /\ pc' = "wait"
      BY <2>1, <2>9, <1>1, Consts
    <3>2. HoldsFile(gTftp.BytesTransfered)'
      BY <2>1, <2>7, <1>1 DEF HoldsFile
    <3>3. End' = e + l /\ End' - 1 = End + BlockLen - 1
      <4>1. End' = A + n
        BY <2>1, <1>1 DEF End
      <4>2. A + n = e + l /\ e + l - 1 = End + BlockLen - 1
        BY <2>5
      <4> QED
        BY <4>1, <4>2
    <3>4. gTftp'.LastEraseAdr = SectorOf(End' - 1) /\ gTftp'.LastEraseAdr = s
      BY <3>3, <2>1, <2>2
    <3>5. Wrote(End, BlockLen) = BlockLen
      <4>1. PICK q \in Int : q = tftp_state.blknum - 1 /\ b = q * Block
        BY <1>1, <2>5 DEF Transfer, Data, ClientType
      <4>2. PICK k \in Nat \ {0} : k = Block /\ k % PageSize = 0 /\ PageSize \in Nat \ {0}
        BY Consts
      <4>3. b % PageSize = 0
        <5>1. b = k * q /\ (k * q) % k = 0
          BY <4>1, <4>2, Whole
        <5>2. b % k = 0 /\ b \in Int /\ PageSize \in Nat \ {0}
          BY <5>1, <4>2
        <5> QED
          BY <5>2, <4>2, Nested
      <4>4. m % PageSize = 0
        BY <2>5, <1>4 DEF Fits
      <4>5. b \in Int /\ m \in Int
        OBVIOUS
      <4>6. (m + b) % PageSize = 0
        BY <4>2, <4>3, <4>4, <4>5, SumOfMultiples
      <4>7. l % PageSize = 0 /\ e % PageSize = 0
        BY <4>2, <4>6, <2>5, <2>9
      <4>8. Wrote(e, l) = l
        BY <4>7, WroteCovers
      <4> QED
        BY <4>8, <2>5
    <3>6. ASSUME NEW a \in e + l .. s + EraseSize - 1 PROVE flash'[a] = Erased
      <4>1. a \in Addresses /\ a \in e .. s + EraseSize - 1 /\ a \notin e .. e + l - 1
        <5>1. a \in e + l .. top - 1
          BY <2>6
        <5>2. a \in 0 .. top - 1 /\ a \in e .. top - 1 /\ a \notin e .. e + l - 1
          BY <5>1
        <5> QED
          BY <5>2, <2>6
      <4>2. a \in End .. s + EraseSize - 1 /\ a \notin End .. End + Wrote(End, BlockLen) - 1
        BY <4>1, <3>5, <2>5
      <4> QED
        BY <4>1, <4>2, <2>2, <2>4
    <3>7. \A a \in End' .. gTftp'.LastEraseAdr + EraseSize - 1 : flash'[a] = Erased
      BY <3>3, <3>4, <3>6
    <3> QED
      BY <3>1, <3>2, <3>4, <3>7 DEF Flashed
  <2> QED
    BY <2>8, <2>9, <1>2, Consts
<1> QED
  BY <1>2, <1>6, <1>7

(* Every step keeps what the properties need.                              *)
LEMMA NextKeepsParts == Parts /\ [Next]_vars => Parts'
<1> SUFFICES ASSUME Parts, [Next]_vars PROVE Parts'
  OBVIOUS
<1>1. Data /\ Transfer /\ gTftp \in LoaderType /\ Adrs \subseteq Nat /\ SendLens \subseteq Nat
  BY Consts DEF Parts, Data
<1>2. CASE \/ \E On \in BOOLEAN : AutoEraseCmd(On)
           \/ \E Adr, EndAdr \in Adrs : EraseCmd(Adr, EndAdr)
  BY <1>1, <1>2, DoneAtOnceKeeps
<1>3. ASSUME NEW Adr \in Adrs, FlashCmd(Adr) PROVE Parts'
  <2>1. PICK t : t = TransferVals(Adr, "FLASH", NoData)
    OBVIOUS
  <2>2. t \in LoaderType /\ t.TransferType = "FLASH"
    BY <1>1, <2>1, ValsType DEF Types
  <2>3. Command("flash", {}) /\ ldr_tftp_init("flash", t) /\ UNCHANGED flash
    BY <1>3, <2>1 DEF FlashCmd
  <2> QED
    BY <2>2, <2>3, <1>1, BeginKeeps
<1>4. ASSUME NEW Adr \in Adrs, VerifyCmd(Adr) PROVE Parts'
  <2>1. PICK t : t = TransferVals(Adr, "COMPARE", NoData)
    OBVIOUS
  <2>2. t \in LoaderType /\ t.TransferType = "COMPARE"
    BY <1>1, <2>1, ValsType DEF Types
  <2>3. Command("verify", {}) /\ ldr_tftp_init("verify", t) /\ UNCHANGED flash
    BY <1>4, <2>1 DEF VerifyCmd
  <2> QED
    BY <2>2, <2>3, <1>1, BeginKeeps
<1>5. ASSUME NEW Adr \in Adrs, NEW SendLen \in SendLens \cup {NoData}, SaveCmd(Adr, SendLen)
      PROVE  Parts'
  <2>1. PICK t : t = TransferVals(Adr, "SAVE", SendLen)
    OBVIOUS
  <2>2. t \in LoaderType
    BY <1>1, <2>1, ValsType DEF Types
  <2>3. Command("save", {}) /\ ldr_tftp_init("save", t) /\ UNCHANGED flash
    BY <1>5, <2>1 DEF SaveCmd
  <2> QED
    BY <2>2, <2>3, <1>1, BeginKeeps
<1>6. CASE DataArrives
  BY <1>1, <1>6, ArrivalKeepsType, ArrivalCounts, ArrivalVerifies, ArrivalSaves,
     ArrivalStays, ArrivalFlashes DEF Parts
<1>7. CASE AckArrives
  BY <1>7, AckKeeps
<1>8. CASE ErrorArrives
  BY <1>8, ErrorKeeps
<1>9. CASE TftpTranserWait
  BY <1>9, WaitKeeps
<1>10. CASE UNCHANGED vars
  <2>1. UNCHANGED <<flash, gTftp, tftp_state, freePcbs, file, sent, pc, cmd, said, began>>
    BY <1>10 DEF vars, network
  <2>2. Data' /\ Transfer' /\ ErasedHere' /\ Changed' /\ InSpan'
    BY <2>1 DEF Parts, Data, TypeOK, Transfer, Running, ErasedHere, Flashing, End,
                Changed, InSpan
  <2>3. (\A i : There(i)' = There(i)) /\ Verdict' = Verdict
    BY <2>1 DEF There, Verdict
  <2>4. Verified' /\ Saved'
    BY <2>1, <2>3 DEF Parts, Verified, Saved, Running, There
  <2>5. Flashed'
    BY <2>1 DEF Parts, Flashed, Fits, HoldsFile, Running, End
  <2> QED
    BY <2>2, <2>4, <2>5 DEF Parts
<1> QED
  BY <1>2, <1>3, <1>4, <1>5, <1>6, <1>7, <1>8, <1>9, <1>10 DEF Next

(* Before the first command nothing is counted, said or changed.           *)
LEMMA InitParts == Init => Parts
<1> SUFFICES ASSUME Init PROVE Parts
  OBVIOUS
<1>1. Data
  <2>1. gTftp \in LoaderType
    BY Consts DEF Init, LoaderType, Errors, Types
  <2>2. tftp_state \in ClientType /\ tftp_state.upcb = FALSE
    BY DEF Init, NoClient, ClientType
  <2>3. flash \in [Addresses -> Bytes] /\ began \in [Addresses -> Bytes]
    BY LoaderAssumption DEF LoaderAssumption, Init, Bytes
  <2>4. file \in Seq(Bytes)
    <3>1. file \in Seq(Nat) /\ Nat \subseteq Bytes
      BY LoaderAssumption DEF LoaderAssumption, Init, Bytes
    <3> QED
      BY <3>1
  <2>5. sent \in Seq(Bytes) /\ pc \in {"idle", "wait", "hung"} /\ freePcbs \in 0 .. UdpPcbs
    BY LoaderAssumption DEF LoaderAssumption, Init
  <2> QED
    BY <2>1, <2>2, <2>3, <2>4, <2>5 DEF Data, TypeOK, LoaderType
<1>2. /\ gTftp.Error = "TFTP_OK" /\ pc = "idle" /\ cmd.name = "none" /\ began = flash
  BY DEF Init
<1> QED
  BY <1>1, <1>2 DEF Parts, Transfer, Running, Verified, Saved, ErasedHere, Flashing,
                    Changed, InSpan, Flashed

(* Parts is an invariant of every instance.                                *)
LEMMA Invariant == Spec => []Parts
BY InitParts, NextKeepsParts, PTL DEF Spec

(* TypeOK for every instance: whatever the files, the addresses and the    *)
(* answers, every count of gTftp and the client keeps its type, the flash  *)
(* holds bytes, and no more pcbs are free than there are.                  *)
THEOREM TypeCorrect == Spec => []TypeOK
<1>1. Parts => TypeOK
  BY DEF Parts, Data
<1> QED
  BY <1>1, Invariant, PTL

(* OnlyItsSectors for every instance: erase changes only the sectors of    *)
(* its range, a flash, block by block, only the sectors, or without        *)
(* automatic erase only the pages, of the bytes it has counted, and save,  *)
(* if it was given a length, and verify change nothing.                    *)
THEOREM StaysInItsSectors == Spec => []OnlyItsSectors
<1>1. Parts => OnlyItsSectors
  <2> SUFFICES ASSUME Parts, ~SaveWithoutLength PROVE OnlyItsSectors
    BY DEF OnlyItsSectors
  <2>1. CASE cmd.name = "flash"
    BY <2>1 DEF Parts, Transfer, InSpan, OnlyItsSectors
  <2>2. CASE cmd.name = "erase"
    BY <2>2 DEF Parts, InSpan, OnlyItsSectors
  <2>3. CASE cmd.name \notin {"flash", "erase"}
    <3>1. flash = began
      BY <2>3 DEF Parts, Changed, SaveWithoutLength
    <3> QED
      BY <3>1 DEF OnlyItsSectors
  <2> QED
    BY <2>1, <2>2, <2>3
<1> QED
  BY <1>1, Invariant, PTL

(* FlashedIsFile for every instance: when flash says it is done, and its   *)
(* sectors were erased for it, the flash holds the file, if the file       *)
(* starts at a page, fits, and its first block is within one sector.       *)
THEOREM FlashHoldsFile == Spec => []FlashedIsFile
<1>1. Parts => FlashedIsFile
  BY DEF Parts, Flashed, Fits, HoldsFile, FlashedIsFile
<1> QED
  BY <1>1, Invariant, PTL

(* VerifyTells for every instance: what a verify has counted is the same   *)
(* in the file and the flash, the byte it names is not, and if it names    *)
(* none and has counted any byte, it has counted the file.                 *)
THEOREM VerifyIsRight == Spec => []VerifyTells
<1>1. Parts => VerifyTells
  <2> SUFFICES ASSUME Parts, pc = "idle", cmd.name = "verify" PROVE VerifyTells
    BY DEF VerifyTells
  <2>1. gTftp \in LoaderType /\ said = Verdict
    BY DEF Parts, Data, Verified
  <2>2. /\ "Compare failed" \in said => gTftp.Error = "TFTP_ERR_COMPARE_FAIL"
        /\ said = {"bytes"} => gTftp.Error = "TFTP_OK"
    BY <2>1, Verdicts
  <2> QED
    BY <2>2 DEF Parts, Verified, VerifyTells, There
<1> QED
  BY <1>1, Invariant, PTL

(* SavedIsFlash for every instance: the file a finished save has made has  *)
(* the length it was asked for, and is the flash byte by byte.             *)
THEOREM SaveIsFlash == Spec => []SavedIsFlash
<1>1. Parts => SavedIsFlash
  BY DEF Parts, Saved, SavedIsFlash, There
<1> QED
  BY <1>1, Invariant, PTL
=============================================================================
