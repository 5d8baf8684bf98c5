----------------------------- MODULE TftpLoader -----------------------------
(***************************************************************************)
(* The commands that move files between the flash and a TFTP server:       *)
(* flash, save, verify, erase and autoerase of main.c with the callbacks   *)
(* of tftp_ldr.c.  They share one global, gTftp, which outlives them, and  *)
(* the one state of lwIP's TFTP client.  A command that waits polls the    *)
(* network; the client's callbacks run from there.                         *)
(*                                                                         *)
(* The client and the server are outside the sources: the client opens a   *)
(* pcb, sends one request, takes the block it expects and no other, and    *)
(* has no timeout of its own.  There is one file on the server.            *)
(***************************************************************************)
EXTENDS SpiFlash, Sequences

CONSTANTS
  Block,            (* TFTP_MAX_PAYLOAD_SIZE, 512                          *)
  UdpPcbs,          (* pcbs there are for the client                       *)
  gDefaultFlashAdr,
  Adrs,             (* addresses in commands, some behind the flash        *)
  SendLens,         (* lengths in save commands                            *)
  Files,            (* what the server's file may be at first              *)
  FirstFlash,       (* what the flash holds at first                       *)
  MaxCmds           (* bound: commands in a behaviour                      *)

ASSUME LoaderAssumption ==
  /\ Block \in Nat \ {0} /\ Block <= EraseSize /\ Block % PageSize = 0
  /\ UdpPcbs \in Nat \ {0}
  /\ gDefaultFlashAdr \in Addresses
  /\ Adrs \subseteq Nat /\ SendLens \subseteq Nat
  /\ Files \subseteq Seq(Nat) /\ FirstFlash \in [Addresses -> Nat]
  /\ MaxCmds \in Nat

VARIABLES
  flash,
  gTftp,        (* the loader's state                                      *)
  tftp_state,   (* the client's                                            *)
  freePcbs,
  file,         (* the file on the server                                  *)
  sent,         (* what the server has got of the file that is saved       *)
  pc,           (* "idle", "wait": in TftpTranserWait(), or "hung"         *)
  cmd,          (* the last command, and the range an erase command names  *)
  said,         (* what it has told the user                               *)
  began,        (* the flash when it began                                 *)
  cmds          (* commands so far                                         *)

network == <<tftp_state, freePcbs, file, sent>>
vars == <<flash, gTftp, network, pc, cmd, said, began, cmds>>

INVALID_FLASH_ADR == -1
NoData == -1    (* no block of a put has been sent                         *)

NoClient == [upcb |-> FALSE, handle |-> FALSE, blknum |-> 0,
             mode_write |-> 0, last |-> NoData]

Init ==
  /\ flash = FirstFlash
  /\ gTftp = [Error |-> "TFTP_OK", BytesTransfered |-> 0, TransferType |-> "none",
              FlashAdr |-> 0, LastEraseAdr |-> 0, SendLen |-> 0,
              ErrMsg |-> FALSE, bAutoErase |-> FALSE]
  /\ tftp_state = NoClient /\ freePcbs = UdpPcbs
  /\ file \in Files /\ sent = <<>>
  /\ pc = "idle" /\ cmd = [name |-> "none", range |-> {}]
  /\ said = {} /\ began = flash /\ cmds = 0

Command(name, range) ==
  /\ pc = "idle" /\ cmds < MaxCmds
  /\ cmds' = cmds + 1
  /\ cmd' = [name |-> name, range |-> range]
  /\ began' = flash

-----------------------------------------------------------------------------
(* Commands that are done at once. *)

AutoEraseCmd(On) ==
  /\ Command("autoerase", {})
  /\ gTftp' = [gTftp EXCEPT !.bAutoErase = On]
  /\ said' = {"AutoErase"}
  /\ UNCHANGED <<flash, network, pc>>

(* spi_erase() of every sector that begins before EndAdr.                  *)
EraseAll(Adr, EndAdr) ==
  [a \in Addresses |->
     IF Adr <= SectorOf(a) /\ SectorOf(a) < EndAdr THEN Erased ELSE flash[a]]

(* Len is unsigned: an end before the start passes as a length when the    *)
(* distance is right, and erases nothing.                                  *)
EraseCmd(Adr, EndAdr) ==
  /\ Command("erase", Adr .. EndAdr)
  /\ IF /\ Adr <= FlashSize /\ EndAdr <= FlashSize
        /\ Adr % EraseSize = 0 /\ (EndAdr - Adr + 1) % EraseSize = 0
     THEN flash' = EraseAll(Adr, EndAdr) /\ said' = {"Erased"}
     ELSE flash' = flash /\ said' = {"Error"}
  /\ UNCHANGED <<gTftp, network, pc>>

-----------------------------------------------------------------------------
(* Starting a transfer. *)

(* What GetTftpTransferVals() leaves in gTftp.  An address it cannot take  *)
(* is replaced by the default.  A save without a length leaves the type    *)
(* and the length of the transfer before, and is no error.                 *)
TransferVals(Adr, Type, SendLen) ==
  LET addressed == [gTftp EXCEPT
                      !.FlashAdr = IF Adr > FlashSize THEN gDefaultFlashAdr ELSE Adr]
  IN  IF Type # "SAVE" THEN [addressed EXCEPT !.TransferType = Type]
      ELSE IF SendLen = NoData THEN addressed
      ELSE [addressed EXCEPT !.TransferType = Type, !.SendLen = SendLen]

(* A mistake: the sector erased last is remembered from the last transfer. *)
Reset_KeepsErase(t) ==
  [t EXCEPT !.Error = "TFTP_OK", !.BytesTransfered = 0, !.ErrMsg = FALSE]

Reset(t) ==
  [t EXCEPT !.Error = "TFTP_OK", !.LastEraseAdr = INVALID_FLASH_ADR,
            !.BytesTransfered = 0, !.ErrMsg = FALSE]

(* tftp_init_client() and tftp_get() or tftp_put().                        *)
OpenClient(put) ==
  [upcb |-> TRUE, handle |-> TRUE, blknum |-> IF put THEN 0 ELSE 1,
   mode_write |-> IF put THEN 0 ELSE 1, last |-> NoData]

(* A transfer that was not started: flash and save return, verify goes on  *)
(* to TftpTranserWait().                                                   *)
NotStarted(name) ==
  IF name = "verify" THEN pc' = "wait" /\ said' = {}
                     ELSE pc' = "idle" /\ said' = {"tftp transfer failed"}

(* A mistake: a transfer that cannot have a pcb forgets the one there was. *)
ldr_tftp_init_Forgets(name, t) ==
  /\ sent' = <<>> /\ UNCHANGED file
  /\ \/ /\ freePcbs = 0
        /\ gTftp' = Reset(t) /\ tftp_state' = NoClient /\ NotStarted(name)
        /\ UNCHANGED freePcbs
     \/ /\ freePcbs > 0
        /\ freePcbs' = freePcbs - 1
        /\ tftp_state' = OpenClient(t.TransferType = "SAVE")
        /\ \/ gTftp' = Reset(t) /\ NotStarted(name)
           \/ /\ gTftp' = [Reset(t) EXCEPT !.Error = "TFTP_IN_PROGRESS"]
              /\ pc' = "wait" /\ said' = {}

(* There is no pcb, or the request cannot be sent, or the transfer begins. *)
(* The pcb of a request that was not sent stays until the client's state   *)
(* is overwritten by the next transfer's, or cleaned up by a verify.       *)
ldr_tftp_init(name, t) ==
  /\ sent' = <<>> /\ UNCHANGED file
  /\ \/ /\ freePcbs = 0
        /\ gTftp' = Reset(t) /\ NotStarted(name)
        /\ UNCHANGED <<tftp_state, freePcbs>>
     \/ /\ freePcbs > 0
        /\ freePcbs' = freePcbs - 1
        /\ tftp_state' = OpenClient(t.TransferType = "SAVE")
        /\ \/ gTftp' = Reset(t) /\ NotStarted(name)
           \/ /\ gTftp' = [Reset(t) EXCEPT !.Error = "TFTP_IN_PROGRESS"]
              /\ pc' = "wait" /\ said' = {}

FlashCmd(Adr) ==
  /\ Command("flash", {})
  /\ ldr_tftp_init("flash", TransferVals(Adr, "FLASH", NoData))
  /\ UNCHANGED flash

VerifyCmd(Adr) ==
  /\ Command("verify", {})
  /\ ldr_tftp_init("verify", TransferVals(Adr, "COMPARE", NoData))
  /\ UNCHANGED flash

SaveCmd(Adr, SendLen) ==
  /\ Command("save", {})
  /\ ldr_tftp_init("save", TransferVals(Adr, "SAVE", SendLen))
  /\ UNCHANGED flash

-----------------------------------------------------------------------------
(* The callbacks. *)

(* A mistake: the end of a transfer is left to the others to notice.       *)
tftp_close_Silent(t) == t

(* What the client's close_handle() calls.                                 *)
tftp_close(t) ==
  IF t.Error = "TFTP_IN_PROGRESS" THEN [t EXCEPT !.Error = "TFTP_OK"] ELSE t

(* A mistake: the sector is taken from the first address behind the block. *)
EraseEnd_Behind(Adr, BufLen) == SectorOf(Adr + BufLen)

(* The sector a block ends in.                                             *)
EraseEnd(Adr, BufLen) == SectorOf(Adr + BufLen - 1)

(* Automatic erase: the sector to erase for this block, if there is one.   *)
NextErase(t, Adr, BufLen) ==
  IF ~t.bAutoErase \/ t.LastEraseAdr = EraseEnd(Adr, BufLen) THEN t.LastEraseAdr
  ELSE IF t.LastEraseAdr = INVALID_FLASH_ADR THEN SectorOf(Adr)
       ELSE t.LastEraseAdr + EraseSize

(* A mistake: the bytes before the difference are not counted.             *)
Same_None(data, there) == 0

(* How many bytes are the same before the first that is not.               *)
Same(data, there) ==
  LET Differ == {i \in DOMAIN data : data[i] # there[i]}
  IN  CHOOSE i \in Differ : \A j \in Differ : i <= j

(* tftp_write(): the flash and the loader after a block.  A block is one   *)
(* pbuf.                                                                   *)
tftp_write(data, BufLen) ==
  LET t    == gTftp
      Adr  == t.FlashAdr + t.BytesTransfered
      done == [t EXCEPT !.BytesTransfered = @ + BufLen]
  IN  IF BufLen = 0 THEN [flash |-> flash, t |-> t]
      ELSE CASE t.TransferType = "FLASH" ->
                  LET sector == NextErase(t, Adr, BufLen)
                      clean  == IF sector = t.LastEraseAdr THEN flash
                                ELSE spi_erase(flash, sector)
                  IN  [flash |-> spi_write(clean, Adr, data, BufLen),
                       t     |-> [done EXCEPT !.LastEraseAdr = sector]]
             [] t.TransferType = "COMPARE" ->
                  LET there == spi_read(flash, Adr, BufLen)
                  IN  [flash |-> flash,
                       t     |-> IF there = data THEN done
                                 ELSE [t EXCEPT
                                         !.BytesTransfered = @ + Same(data, there),
                                         !.Error = "TFTP_ERR_COMPARE_FAIL"]]
             [] OTHER -> [flash |-> flash,
                          t     |-> [t EXCEPT !.Error = "TFTP_ERR_INTERNAL"]]

(* A mistake: every block is read from where the first one is.             *)
ReadAdr_First == gTftp.FlashAdr

ReadAdr == gTftp.FlashAdr + gTftp.BytesTransfered

-----------------------------------------------------------------------------
(* What comes from the server.  A block or an acknowledgement other than   *)
(* the one expected reaches no callback, and nobody answers a request that *)
(* was not sent.                                                           *)

Receiving ==
  pc = "wait" /\ tftp_state.handle /\ gTftp.Error = "TFTP_IN_PROGRESS"

DataArrives ==
  /\ Receiving /\ tftp_state.mode_write = 1
  /\ LET at     == (tftp_state.blknum - 1) * Block
         BufLen == Smaller(Block, Len(file) - at)
         w      == tftp_write([i \in 0 .. BufLen - 1 |-> file[at + i + 1]], BufLen)
         closes == w.t.Error # "TFTP_IN_PROGRESS" \/ BufLen < Block
     IN  /\ flash' = w.flash
         /\ gTftp' = IF closes THEN tftp_close(w.t) ELSE w.t
         /\ tftp_state' = [tftp_state EXCEPT
              !.handle = ~closes,
              !.blknum = IF BufLen < Block THEN @ ELSE @ + 1]
  /\ UNCHANGED <<freePcbs, file, sent, pc, cmd, said, began, cmds>>

(* The server has what was sent.  A block that was not full was the last.  *)
AckArrives ==
  /\ Receiving /\ tftp_state.mode_write = 0
  /\ IF tftp_state.last \notin {NoData, Block}
     THEN /\ gTftp' = tftp_close(gTftp)
          /\ tftp_state' = [tftp_state EXCEPT !.handle = FALSE]
          /\ file' = sent
          /\ UNCHANGED sent
     ELSE LET n == Smaller(Block, gTftp.SendLen - gTftp.BytesTransfered)
              r == spi_read(flash, ReadAdr, n)
          IN  /\ gTftp' = [gTftp EXCEPT !.BytesTransfered = @ + n]
              /\ tftp_state' = [tftp_state EXCEPT !.blknum = @ + 1, !.last = n]
              /\ sent' = sent \o [i \in 1 .. n |-> r[i - 1]]
              /\ UNCHANGED file
  /\ UNCHANGED <<flash, freePcbs, pc, cmd, said, began, cmds>>

(* The server gives up, with a message or with an empty one.               *)
ErrorArrives ==
  /\ Receiving
  /\ \E message \in BOOLEAN :
       gTftp' = tftp_close([gTftp EXCEPT !.Error = "TFTP_ERR_FAILED", !.ErrMsg = message])
  /\ tftp_state' = [tftp_state EXCEPT !.handle = FALSE]
  /\ UNCHANGED <<flash, freePcbs, file, sent, pc, cmd, said, began, cmds>>

-----------------------------------------------------------------------------
(* The end of TftpTranserWait(), and of the command. *)

Verdict ==
  CASE gTftp.ErrMsg                            -> {"message"}
    [] ~gTftp.ErrMsg /\ gTftp.Error = "TFTP_OK" -> {"bytes"}
    [] ~gTftp.ErrMsg /\ gTftp.Error = "TFTP_ERR_COMPARE_FAIL" ->
         {"Compare failed", "bytes"}
    [] OTHER -> {"Failed"}

(* A mistake: the client keeps the pointer to the pcb it has removed.      *)
tftp_cleanup_Keeps ==
  /\ freePcbs' = freePcbs + 1
  /\ tftp_state' = [NoClient EXCEPT !.upcb = TRUE]

tftp_cleanup ==
  /\ freePcbs' = freePcbs + 1
  /\ tftp_state' = NoClient

(* tftp_cleanup() asserts that there is a pcb; lwip_pano_assert() does not *)
(* return.  The handle that a request which was not sent leaves open is    *)
(* closed, which changes nothing.                                          *)
TftpTranserWait ==
  /\ pc = "wait" /\ gTftp.Error # "TFTP_IN_PROGRESS"
  /\ IF tftp_state.upcb
     THEN tftp_cleanup /\ pc' = "idle" /\ said' = Verdict
     ELSE pc' = "hung" /\ UNCHANGED <<tftp_state, freePcbs, said>>
  /\ UNCHANGED <<flash, gTftp, file, sent, cmd, began, cmds>>

Next ==
  \/ \E On \in BOOLEAN : AutoEraseCmd(On)
  \/ \E Adr, EndAdr \in Adrs : EraseCmd(Adr, EndAdr)
  \/ \E Adr \in Adrs : FlashCmd(Adr) \/ VerifyCmd(Adr)
  \/ \E Adr \in Adrs, SendLen \in SendLens \cup {NoData} : SaveCmd(Adr, SendLen)
  \/ DataArrives \/ AckArrives \/ ErrorArrives
  \/ TftpTranserWait

(* The server answers every block, and the main loop goes on.              *)
Spec ==
  /\ Init /\ [][Next]_vars
  /\ WF_vars(DataArrives) /\ WF_vars(AckArrives) /\ WF_vars(TftpTranserWait)

-----------------------------------------------------------------------------
(* Properties. *)

(* Every pcb is counted once: those that are free, and the client's.  A    *)
(* pcb that is lost is in neither.                                         *)
TypeOK ==
  /\ flash \in [Addresses -> Bytes] /\ began \in [Addresses -> Bytes]
  /\ file \in Seq(Bytes) /\ sent \in Seq(Bytes)
  /\ freePcbs \in 0 .. (IF tftp_state.upcb THEN UdpPcbs - 1 ELSE UdpPcbs)
  /\ pc \in {"idle", "wait", "hung"}
  /\ gTftp.BytesTransfered \in Nat /\ gTftp.FlashAdr \in 0 .. FlashSize
  /\ gTftp.LastEraseAdr \in Nat \cup {INVALID_FLASH_ADR}

(* FlashedIsFile: when flash says it has flashed a file, and every sector  *)
(* was erased for it, the flash holds the file.  This asks for an address  *)
(* at the start of a page, a file that fits, and a first block that does   *)
(* not reach into a second sector.                                         *)
FlashedIsFile ==
  LET Adr == gTftp.FlashAdr
  IN  (/\ pc = "idle" /\ cmd.name = "flash" /\ "bytes" \in said
       /\ gTftp.bAutoErase /\ Adr % PageSize = 0 /\ Adr + Len(file) <= FlashSize
       /\ \/ (Adr % EraseSize) + Block <= EraseSize
          \/ (Adr % EraseSize) + Len(file) <= EraseSize)
      => \A i \in 1 .. Len(file) : flash[Adr + i - 1] = file[i]

(* OnlyItsSectors: a command changes no byte outside the range it names:   *)
(* an erase outside its sectors, a flash with automatic erase outside the  *)
(* sectors of what it has received, without it outside the pages; every    *)
(* other command changes nothing, save and verify among them.  A save that *)
(* was not given its length is left out: it does what the transfer before  *)
(* it did, flashing the file it should write included.                     *)
SaveWithoutLength == cmd.name = "save" /\ gTftp.TransferType # "SAVE"

OnlyItsSectors ==
  LET Adr  == gTftp.FlashAdr
      Span == IF cmd.name = "flash" THEN Adr .. Adr + gTftp.BytesTransfered - 1
              ELSE cmd.range
      Around(a) == IF cmd.name = "erase" \/ gTftp.bAutoErase
                   THEN SectorOf(a) ELSE PageOf(a)
  IN  ~SaveWithoutLength =>
        \A a \in Addresses :
          flash[a] # began[a] => \E b \in Span : Around(a) = Around(b)

(* VerifyTells: the bytes a verify has counted are the same in the file    *)
(* and in the flash; when it says "Compare failed", the byte it names is   *)
(* not; when it says nothing of the kind, and has counted any, it has      *)
(* counted them all.                                                       *)
VerifyTells ==
  LET n        == gTftp.BytesTransfered
      there(i) == flash[(gTftp.FlashAdr + i) % FlashSize]
  IN  (pc = "idle" /\ cmd.name = "verify")
      => /\ \A i \in 0 .. n - 1 : file[i + 1] = there(i)
         /\ "Compare failed" \in said => file[n + 1] # there(n)
         /\ (said = {"bytes"} /\ n > 0) => n = Len(file)

(* SavedIsFlash: a save that sent what it was asked for has made a file of *)
(* the flash.                                                              *)
SavedIsFlash ==
  (/\ pc = "idle" /\ cmd.name = "save" /\ "bytes" \in said
   /\ gTftp.TransferType = "SAVE")
  => /\ Len(file) = gTftp.SendLen
     /\ \A i \in 1 .. Len(file) :
          file[i] = flash[(gTftp.FlashAdr + i - 1) % FlashSize]

(* NeverAsserts: verify, which cleans up even when there was nothing to    *)
(* clean up, never meets a client without a pcb: when all of them are lost *)
(* the client still points to the last one.                                *)
NeverAsserts == pc # "hung"

(* TransferEnds: with a server that answers the shell gets its prompt.     *)
TransferEnds == pc = "wait" ~> pc = "idle"
=============================================================================
