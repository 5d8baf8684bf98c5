------------------------------- MODULE Shell -------------------------------
(***************************************************************************)
(* The command shell of main.c on TCP port 23: one command line and one    *)
(* print buffer, shared by whatever connections there are.                 *)
(*                                                                         *)
(* The firmware has a single thread.  lwIP runs inside pano_netif_poll()   *)
(* and calls back ShellAccept(), ShellRecv(), ShellSent(), ShellPoll() and *)
(* ShellError(); main() polls once in each round of its loop.  But         *)
(* NetPrintf() and NetPuts() poll, too: NetWaitBufEmpty() spins on the     *)
(* poll until the peer has acknowledged the print buffer, and ShellRecv()  *)
(* echoes with NetPuts().  So callbacks run in the middle of main()'s      *)
(* commands and, nested, in the middle of callbacks.  The variable stack   *)
(* is the C stack: the head is the function that runs, the last frame is   *)
(* main()'s loop.                                                          *)
(*                                                                         *)
(* The connections are lwIP's and the peer's: a pcb, and the bytes on the  *)
(* wire, which tcp_write() took and the peer has not acknowledged.         *)
(***************************************************************************)
EXTENDS Integers, Sequences

CONSTANTS
  Conns,      (* lwIP's pool of pcbs (MEMP_NUM_TCP_PCB)                     *)
  NULL,       (* no connection                                              *)
  RX_BUF_LEN,         (* size of gRxBuf                                     *)
  NET_PRINT_BUF_LEN,  (* size of PrintBuf                                   *)
  TCP_SND_BUF,        (* what lwIP buffers for a connection                 *)
  Pbufs,      (* what a peer may send in one segment ...                    *)
  RudePbufs,  (* ... and what of it, where peers type ahead or overlap      *)
  Worlds,     (* what peers may do besides one user connecting, typing a    *)
              (* line, waiting for the prompt and going, and what else may  *)
              (* go wrong, each a set of                                    *)
              (* "again"  another user connects when one has gone           *)
              (* "erase"  backspaces are typed while output is on its way   *)
              (* "ahead"  anything is typed while output is on its way      *)
              (* "second" a connection is opened beside another             *)
              (* "reset"  a connection is reset                             *)
              (* "nomem"  tcp_write() is out of memory                      *)
  MaxDepth    (* bound: frames on the stack                                 *)

ASSUME ShellAssumption ==
  /\ NULL \notin Conns
  /\ RX_BUF_LEN \in Nat \ {0} /\ NET_PRINT_BUF_LEN \in Nat /\ TCP_SND_BUF \in Nat
  /\ 2 <= NET_PRINT_BUF_LEN /\ NET_PRINT_BUF_LEN <= TCP_SND_BUF
  /\ Pbufs \subseteq Seq(STRING) /\ RudePbufs \subseteq Pbufs
  /\ Worlds \subseteq SUBSET {"again", "erase", "ahead", "second", "reset", "nomem"}

VARIABLES
  world,        (* the one of Worlds that this behaviour is about           *)
  pcb,          (* lwIP: the state of every pcb                             *)
  wire,         (* lwIP: the unacknowledged bytes of every connection       *)
  wild,         (* a pcb was used after lwIP had freed it                   *)
  gShellCon,    (* the connection that is printed to, or NULL               *)
  gShellPrint,  (* the print buffer and its counters                        *)
  gRxBuf,       (* the command line ...                                     *)
  gRxCount,     (* ... and where its next character goes                    *)
  gInputReady,  (* a line is complete                                       *)
  gSendWelcome, (* a connection has been accepted                           *)
  stack

net   == <<pcb, wire, wild>>
line  == <<gRxBuf, gRxCount, gInputReady>>
vars  == <<net, gShellCon, gShellPrint, line, gSendWelcome, stack>>

(* What is printed, a byte or two of it.                                    *)
gVerStr == <<"ver", "sion">>
Newline == <<"nl">>
Prompt  == <<"P", ">">>
Rubout  == <<"rub", "out">>  (* "\b \b" *)
Beep    == <<"bel">>

PrintIdx == 0 .. NET_PRINT_BUF_LEN - 1
RxIdx    == 0 .. RX_BUF_LEN - 1

(* What an array holds where nothing of interest has been written.          *)
Old == "old"
NUL == "NUL"

Empty == [PrintBuf |-> [i \in PrintIdx |-> Old], Len |-> 0, BytesQueued |-> 0, BytesSent |-> 0]

-----------------------------------------------------------------------------
(* The stack. *)

Main(at)         == [op |-> "main", at |-> at]
Calls(todo)      == [op |-> "calls", todo |-> todo]
Printf(s)        == [op |-> "printf", s |-> s]
Puts(s, cp)      == [op |-> "puts", s |-> s, cp |-> cp]
Recv(c, rest, n) == [op |-> "recv", con |-> c, rest |-> rest, n |-> n]
Wait             == [op |-> "wait"]

Top       == Head(stack)
Runs(op)  == Top.op = op
Below     == Tail(stack)
Become(f) == <<f>> \o Below         (* the function that runs goes on as f *)

(* A mistake: the next output does not wait for the last one.              *)
NetWaitBufEmpty_Never(con, p) == <<>>

(* NetWaitBufEmptyInternal(): nothing to wait for without a connection.     *)
NetWaitBufEmpty(con, p) ==
  IF con # NULL /\ p.Len # p.BytesSent THEN <<Wait>> ELSE <<>>

(* pano_netif_poll() is called by main() and by NetWaitBufEmpty().          *)
Polling ==
  \/ Top = Main("poll")
  \/ Runs("wait") /\ gShellPrint.Len # gShellPrint.BytesSent

Polled == IF Runs("main") THEN Become(Main("welcome")) ELSE stack

-----------------------------------------------------------------------------
(* NetPrintFillPcb(): hand lwIP what is not queued yet, as far as it has    *)
(* room, taken from PrintBuf[BytesSent].  tcp_write() finds memory when ok. *)
(* tcp_sndbuf(), a field of the pcb, is read before tpcb is compared with   *)
(* NULL: what is read of a pcb that is not there is not used, whatever lies *)
(* at that address.                                                         *)
CanSend(w, tpcb) == TCP_SND_BUF - Len(w[tpcb])

Byte2Write(p, w, tpcb) ==
  LET todo == p.Len - p.BytesQueued
  IN  IF todo > CanSend(w, tpcb) THEN CanSend(w, tpcb) ELSE todo

(* A byte of the buffer; behind Len, and behind the buffer, there are old   *)
(* ones.                                                                    *)
ByteAt(p, i) == IF i \in PrintIdx THEN p.PrintBuf[i] ELSE Old

Written(p, w, con) ==
  [k \in 1 .. Byte2Write(p, w, con) |-> ByteAt(p, (p.BytesSent + k) - 1)]

MayFindMemory == {TRUE} \cup (IF "nomem" \in world THEN {FALSE} ELSE {})

NetPrintFillPcb(p, w, con, ok) ==
  LET writes == con # NULL /\ p.Len > p.BytesQueued
      taken  == writes /\ ok /\ pcb[con] \in {"open", "peer_closed"}
  IN  /\ gShellPrint' = IF taken THEN [p EXCEPT !.BytesQueued = @ + Byte2Write(p, w, con)] ELSE p
      /\ wire' = IF taken THEN [w EXCEPT ![con] = @ \o Written(p, w, con)] ELSE w
      /\ wild' = (wild \/ (con # NULL /\ pcb[con] = "free"))

-----------------------------------------------------------------------------
(* What pano_netif_poll() may bring, one event at a time. *)

PollNothing ==
  /\ Top = Main("poll")
  /\ stack' = Polled
  /\ UNCHANGED <<net, gShellCon, gShellPrint, line, gSendWelcome>>

(* A polite peer leaves nothing on the wire when it goes.                   *)
Alone == \A c \in Conns : pcb[c] # "open" /\ wire[c] = <<>>
MayConnect ==
  \/ "second" \in world
  \/ Alone /\ ("again" \in world \/ \A c \in Conns : pcb[c] = "free")

ShellAccept(c) ==
  /\ Polling
  /\ MayConnect
  /\ pcb[c] = "free"
  /\ pcb' = [pcb EXCEPT ![c] = "open"]
  /\ gShellCon' = c
  /\ gShellPrint' = Empty
  /\ gInputReady' = FALSE
  /\ gSendWelcome' = TRUE
  /\ gRxCount' = 0
  /\ stack' = Polled
  /\ UNCHANGED <<wire, wild, gRxBuf>>

(* The peer has seen the prompt.                                            *)
Prompted(c) ==
  /\ Top = Main("poll") /\ ~gSendWelcome /\ ~gInputReady
  /\ wire[c] = <<>> /\ gShellPrint.Len = 0

ShellRecv(c, p) ==
  /\ Polling
  /\ pcb[c] = "open"
  /\ Prompted(c) \/ "ahead" \in world \/ ("erase" \in world /\ p = <<"BS">>)
  /\ world \cap {"ahead", "second"} # {} => p \in RudePbufs
  /\ Len(stack) < MaxDepth
  /\ stack' = <<Recv(c, p, Len(p))>> \o Polled
  /\ UNCHANGED <<net, gShellCon, gShellPrint, line, gSendWelcome>>

(* ShellRecv() without a pbuf: the peer has closed its side.  The firmware  *)
(* does not close the other one, so the pcb stays.                          *)
ShellRecvClosed(c) ==
  /\ Polling
  /\ pcb[c] = "open"
  /\ pcb' = [pcb EXCEPT ![c] = "peer_closed"]
  /\ gShellCon' = NULL
  /\ stack' = Polled
  /\ UNCHANGED <<wire, wild, gShellPrint, line, gSendWelcome>>

(* A connection that the firmware closed ends; lwIP calls nobody.           *)
CloseDone(c) ==
  /\ Polling
  /\ pcb[c] = "closed" /\ wire[c] = <<>>
  /\ pcb' = [pcb EXCEPT ![c] = "free"]
  /\ stack' = Polled
  /\ UNCHANGED <<wire, wild, gShellCon, gShellPrint, line, gSendWelcome>>

(* ShellError(): lwIP has freed the pcb; the handler only logs.             *)
ShellError(c) ==
  /\ Polling
  /\ "reset" \in world
  /\ pcb[c] # "free"
  /\ pcb' = [pcb EXCEPT ![c] = "free"]
  /\ wire' = [wire EXCEPT ![c] = <<>>]
  /\ stack' = Polled
  /\ UNCHANGED <<wild, gShellCon, gShellPrint, line, gSendWelcome>>

(* A mistake: one counter of three is not reset.                           *)
ShellSent_KeepsQueued(c, n, ok) ==
  /\ Polling
  /\ n \in 1 .. Len(wire[c])
  /\ LET acked == [wire EXCEPT ![c] = SubSeq(@, n + 1, Len(@))]
         p     == [gShellPrint EXCEPT !.BytesSent = @ + n]
     IN  IF p.BytesSent = p.Len
         THEN /\ gShellPrint' = [Empty EXCEPT !.BytesQueued = p.BytesQueued]
              /\ wire' = acked /\ UNCHANGED wild
         ELSE NetPrintFillPcb(p, acked, c, ok)
  /\ stack' = Polled
  /\ UNCHANGED <<pcb, gShellCon, line, gSendWelcome>>

(* The peer acknowledges n bytes.                                           *)
ShellSent(c, n, ok) ==
  /\ Polling
  /\ n \in 1 .. Len(wire[c])
  /\ LET acked == [wire EXCEPT ![c] = SubSeq(@, n + 1, Len(@))]
         p     == [gShellPrint EXCEPT !.BytesSent = @ + n]
     IN  IF p.BytesSent = p.Len
         THEN gShellPrint' = Empty /\ wire' = acked /\ UNCHANGED wild
         ELSE NetPrintFillPcb(p, acked, c, ok)
  /\ stack' = Polled
  /\ UNCHANGED <<pcb, gShellCon, line, gSendWelcome>>

(* lwIP's slow timer, for every pcb that is not free.                       *)
ShellPoll(c, ok) ==
  /\ Polling
  /\ pcb[c] # "free"
  /\ NetPrintFillPcb(gShellPrint, wire, c, ok)
  /\ stack' = Polled
  /\ UNCHANGED <<pcb, gShellCon, line, gSendWelcome>>

-----------------------------------------------------------------------------
(* The steps of the function on top of the stack. *)

WaitDone ==
  /\ Runs("wait") /\ gShellPrint.Len = gShellPrint.BytesSent
  /\ stack' = Below
  /\ UNCHANGED <<net, gShellCon, gShellPrint, line, gSendWelcome>>

(* NetPrintf(), when the buffer is empty or there is nobody to wait for.    *)
NetPrintf(ok) ==
  /\ Runs("printf")
  /\ LET s == Top.s
         p == [gShellPrint EXCEPT
                 !.PrintBuf = [i \in PrintIdx |-> IF i < Len(s) THEN s[i + 1] ELSE Old],
                 !.Len = Len(s)]
     IN  NetPrintFillPcb(p, wire, gShellCon, ok)
  /\ stack' = Below
  /\ UNCHANGED <<pcb, gShellCon, line, gSendWelcome>>

(* NetPuts(): copy as much as fits ...                                      *)
NetPutsCopy ==
  /\ Runs("puts") /\ gShellCon # NULL /\ Top.s # <<>>
  /\ gShellPrint.Len < NET_PRINT_BUF_LEN
  /\ gShellPrint' = [gShellPrint EXCEPT
       !.PrintBuf = [i \in PrintIdx |-> IF i = Top.cp THEN Head(Top.s) ELSE @[i]],
       !.Len = @ + 1]
  /\ stack' = Become(Puts(Tail(Top.s), Top.cp + 1))
  /\ UNCHANGED <<net, gShellCon, line, gSendWelcome>>

(* ... send a full buffer and wait, to go on at its start ...               *)
NetPutsFlush(ok) ==
  /\ Runs("puts") /\ gShellCon # NULL /\ Top.s # <<>>
  /\ gShellPrint.Len >= NET_PRINT_BUF_LEN
  /\ NetPrintFillPcb(gShellPrint, wire, gShellCon, ok)
  /\ stack' = NetWaitBufEmpty(gShellCon, gShellPrint) \o Become(Puts(Top.s, 0))
  /\ UNCHANGED <<pcb, gShellCon, line, gSendWelcome>>

(* ... and send the rest.                                                   *)
NetPutsEnd(ok) ==
  /\ Runs("puts") /\ (gShellCon = NULL \/ Top.s = <<>>)
  /\ IF gShellPrint.Len > 0
     THEN /\ NetPrintFillPcb(gShellPrint, wire, gShellCon, ok)
          /\ stack' = NetWaitBufEmpty(gShellCon, gShellPrint) \o Below
     ELSE stack' = Below /\ UNCHANGED <<wire, wild, gShellPrint>>
  /\ UNCHANGED <<pcb, gShellCon, line, gSendWelcome>>

(* The loop of ShellRecv() over a pbuf: rest is what cp points at, n is how *)
(* often the loop still goes round.  After a backspace, as after the CR, cp *)
(* stays where it is.                                                       *)
Forward(k) ==
  LET left == Top.n - k
  IN  Recv(Top.con, SubSeq(Top.rest, k + 1, Len(Top.rest)), IF left > 0 THEN left ELSE 0)
Stay == Recv(Top.con, Top.rest, Top.n - 1)

InLoop(bytes) ==
  /\ Runs("recv") /\ Top.n > 0 /\ ~gInputReady
  /\ Head(Top.rest) \in bytes

SkipTelnetCommand ==
  /\ InLoop({"IAC"})
  /\ stack' = Become(Forward(3))
  /\ UNCHANGED <<net, gShellCon, gShellPrint, line, gSendWelcome>>

BackSpace ==
  /\ InLoop({"BS"})
  /\ gRxCount' = IF gRxCount > 0 THEN gRxCount - 1 ELSE 0
  /\ stack' = <<Puts(IF gRxCount > 0 THEN Rubout ELSE Beep, gShellPrint.Len)>> \o Become(Stay)
  /\ UNCHANGED <<net, gShellCon, gShellPrint, gRxBuf, gInputReady, gSendWelcome>>

(* A mistake: the line is not terminated.                                  *)
Enter_NoNul ==
  /\ InLoop({"CR"})
  /\ gInputReady' = TRUE
  /\ stack' = Become(Stay)
  /\ UNCHANGED <<net, gShellCon, gShellPrint, gRxBuf, gRxCount, gSendWelcome>>

Enter ==
  /\ InLoop({"CR"})
  /\ gInputReady' = TRUE
  /\ gRxBuf' = [gRxBuf EXCEPT ![gRxCount] = NUL]
  /\ stack' = Become(Stay)
  /\ UNCHANGED <<net, gShellCon, gShellPrint, gRxCount, gSendWelcome>>

(* A mistake: the size of the line is not checked.                         *)
Character_NoLimit ==
  /\ Runs("recv") /\ Top.n > 0 /\ ~gInputReady
  /\ Head(Top.rest) \notin {"IAC", "BS", "CR"}
  /\ gRxBuf' = [gRxBuf EXCEPT ![gRxCount] = Head(Top.rest)]
  /\ gRxCount' = gRxCount + 1
  /\ stack' = Become(Forward(1))
  /\ UNCHANGED <<net, gShellCon, gShellPrint, gInputReady, gSendWelcome>>

Character ==
  /\ Runs("recv") /\ Top.n > 0 /\ ~gInputReady
  /\ Head(Top.rest) \notin {"IAC", "BS", "CR"}
  /\ gRxBuf' = [gRxBuf EXCEPT ![gRxCount] = Head(Top.rest)]
  /\ gRxCount' = IF gRxCount < RX_BUF_LEN - 1 THEN gRxCount + 1 ELSE gRxCount
  /\ stack' = Become(Forward(1))
  /\ UNCHANGED <<net, gShellCon, gShellPrint, gInputReady, gSendWelcome>>

(* The end of the pbuf, or an input that has not been processed yet: what   *)
(* is left of the pbuf is dropped, and tcp_recved() told that it was read.  *)
RecvDone ==
  /\ Runs("recv") /\ (Top.n = 0 \/ gInputReady)
  /\ wild' = (wild \/ pcb[Top.con] = "free")
  /\ stack' = Below
  /\ UNCHANGED <<pcb, wire, gShellCon, gShellPrint, line, gSendWelcome>>

-----------------------------------------------------------------------------
(* What main() and the commands call, one after the other. *)

Say(s)   == [call |-> "printf", s |-> s]
Put(s)   == [call |-> "puts", s |-> s]
Await    == [call |-> "wait", s |-> <<>>]
Close    == [call |-> "close", s |-> <<>>]
Clear    == [call |-> "clear", s |-> <<>>]   (* gRxCount = 0 *)

(* The line as the parser reads it, up to the first NUL.                    *)
Terminated == \E i \in RxIdx : gRxBuf[i] = NUL
TheLine ==
  LET n == IF Terminated
           THEN CHOOSE i \in RxIdx : gRxBuf[i] = NUL /\ \A k \in RxIdx : k < i => gRxBuf[k] # NUL
           ELSE RX_BUF_LEN
  IN  [k \in 1 .. n |-> gRxBuf[k - 1]]

(* ParseCmd(): "i" is a command that answers with NetPrintf() (info), "d"   *)
(* one that answers with NetPuts() (dump), "x" is exit.                     *)
ParseCmd(cmd) ==
  CASE cmd = <<>>    -> <<>>
    [] cmd = <<"i">> -> <<Say(<<"in", "fo">>)>>
    [] cmd = <<"d">> -> <<Put(<<"d1", "d2", "d3", "d4", "d5">>)>>
    [] cmd = <<"x">> -> <<Await, Close>>
    [] OTHER         -> <<Say(<<"err">>)>>

(* main() after the poll: the prompt is part of the welcome, and follows    *)
(* every command.                                                           *)
Welcome ==
  /\ Top = Main("welcome")
  /\ gSendWelcome' = FALSE
  /\ stack' = (IF gSendWelcome
               THEN <<Calls(<<Say(gVerStr), Say(Newline), Say(Prompt)>>)>> ELSE <<>>)
              \o Become(Main("input"))
  /\ UNCHANGED <<net, gShellCon, gShellPrint, line>>

Command ==
  /\ Top = Main("input")
  /\ gInputReady' = FALSE
  /\ stack' = (IF gInputReady THEN <<Calls(ParseCmd(TheLine) \o <<Clear, Say(Prompt)>>)>>
               ELSE <<>>)
              \o Become(Main("poll"))
  /\ UNCHANGED <<net, gShellCon, gShellPrint, gRxBuf, gRxCount, gSendWelcome>>

Calling(call) == Runs("calls") /\ Top.todo # <<>> /\ Head(Top.todo).call = call
Rest          == Become(Calls(Tail(Top.todo)))

CallPrintf ==
  /\ Calling("printf")
  /\ stack' = NetWaitBufEmpty(gShellCon, gShellPrint) \o <<Printf(Head(Top.todo).s)>> \o Rest
  /\ UNCHANGED <<net, gShellCon, gShellPrint, line, gSendWelcome>>

CallPuts ==
  /\ Calling("puts")
  /\ stack' = <<Puts(Head(Top.todo).s, gShellPrint.Len)>> \o Rest
  /\ UNCHANGED <<net, gShellCon, gShellPrint, line, gSendWelcome>>

CallWait ==
  /\ Calling("wait")
  /\ stack' = NetWaitBufEmpty(gShellCon, gShellPrint) \o Rest
  /\ UNCHANGED <<net, gShellCon, gShellPrint, line, gSendWelcome>>

(* A mistake: the closed connection is still printed to.                   *)
CallClose_KeepsCon ==
  /\ Calling("close")
  /\ pcb' = IF gShellCon # NULL /\ pcb[gShellCon] # "free"
            THEN [pcb EXCEPT ![gShellCon] = "closed"] ELSE pcb
  /\ wild' = (wild \/ (gShellCon # NULL /\ pcb[gShellCon] = "free"))
  /\ stack' = Rest
  /\ UNCHANGED <<wire, gShellCon, gShellPrint, line, gSendWelcome>>

(* ExitCmd(): tcp_close(NULL) does nothing.                                 *)
CallClose ==
  /\ Calling("close")
  /\ pcb' = IF gShellCon # NULL /\ pcb[gShellCon] # "free"
            THEN [pcb EXCEPT ![gShellCon] = "closed"] ELSE pcb
  /\ wild' = (wild \/ (gShellCon # NULL /\ pcb[gShellCon] = "free"))
  /\ gShellCon' = NULL
  /\ stack' = Rest
  /\ UNCHANGED <<wire, gShellPrint, line, gSendWelcome>>

CallClear ==
  /\ Calling("clear")
  /\ gRxCount' = 0
  /\ stack' = Rest
  /\ UNCHANGED <<net, gShellCon, gShellPrint, gRxBuf, gInputReady, gSendWelcome>>

CallsDone ==
  /\ Runs("calls") /\ Top.todo = <<>>
  /\ stack' = Below
  /\ UNCHANGED <<net, gShellCon, gShellPrint, line, gSendWelcome>>

-----------------------------------------------------------------------------
Init ==
  /\ world \in Worlds
  /\ pcb = [c \in Conns |-> "free"]
  /\ wire = [c \in Conns |-> <<>>]
  /\ wild = FALSE
  /\ gShellCon = NULL
  /\ gShellPrint = Empty
  /\ gRxBuf = [i \in RxIdx |-> NUL]
  /\ gRxCount = 0
  /\ gInputReady = FALSE
  /\ gSendWelcome = FALSE
  /\ stack = <<Main("poll")>>

(* The firmware goes on without waiting for anybody.                        *)
Step ==
  \/ PollNothing
  \/ WaitDone
  \/ \E ok \in MayFindMemory : NetPrintf(ok) \/ NetPutsFlush(ok) \/ NetPutsEnd(ok)
  \/ NetPutsCopy
  \/ SkipTelnetCommand \/ BackSpace \/ Enter \/ Character \/ RecvDone
  \/ Welcome \/ Command
  \/ CallPrintf \/ CallPuts \/ CallWait \/ CallClose \/ CallClear \/ CallsDone

Acked(c) == \E n \in 1 .. TCP_SND_BUF, ok \in MayFindMemory : ShellSent(c, n, ok)

Next ==
  \/ Step
  \/ \E c \in Conns :
       \/ ShellAccept(c)
       \/ \E p \in Pbufs : ShellRecv(c, p)
       \/ ShellRecvClosed(c)
       \/ CloseDone(c)
       \/ ShellError(c)
       \/ Acked(c)
       \/ \E ok \in MayFindMemory : ShellPoll(c, ok)

Spec == Init /\ [][Next /\ UNCHANGED world]_<<vars, world>>

-----------------------------------------------------------------------------
(* What the firmware prints, and what is typed.                             *)
Printed == {"ver", "sion", "nl", "P", ">", "rub", "out", "bel", "in", "fo",
            "d1", "d2", "d3", "d4", "d5", "err", Old}
Typed   == UNION {{p[i] : i \in DOMAIN p} : p \in Pbufs}

CallType == [call : {"printf", "puts", "wait", "close", "clear"}, s : Seq(Printed)]

FrameType ==
  [op : {"main"}, at : {"poll", "welcome", "input"}]
    \cup [op : {"calls"}, todo : Seq(CallType)]
    \cup [op : {"printf"}, s : Seq(Printed)]
    \cup [op : {"puts"}, s : Seq(Printed), cp : Nat]
    \cup [op : {"recv"}, con : Conns, rest : Seq(Typed), n : Nat]
    \cup {Wait}

(* Every variable has its type, nothing that was typed gets to the wire     *)
(* and nothing that is printed into the line, and the stack ends in main(). *)
TypeOK ==
  /\ pcb \in [Conns -> {"free", "open", "peer_closed", "closed"}]
  /\ wire \in [Conns -> Seq(Printed)]
  /\ world \in Worlds /\ wild \in BOOLEAN
  /\ gShellCon \in Conns \cup {NULL}
  /\ gShellPrint \in [PrintBuf : [PrintIdx -> Printed], Len : Nat,
                      BytesQueued : Nat, BytesSent : Nat]
  /\ gRxBuf \in [RxIdx -> Typed \cup {NUL}] /\ gRxCount \in RxIdx
  /\ gInputReady \in BOOLEAN /\ gSendWelcome \in BOOLEAN
  /\ stack \in Seq(FrameType) /\ stack # <<>>
  /\ stack[Len(stack)].op = "main"

(* One user at a time, who waits for the prompt; memory runs short only     *)
(* when there is no other pcb that could be written to.                     *)
Tame == world \subseteq {"again"} \/ world \subseteq {"nomem"}

(* For such users the counters of the print buffer agree with lwIP's idea   *)
(* of the connection that is printed to: what is on the wire is what has    *)
(* been queued and not acknowledged, byte by byte.  A user who erases or    *)
(* types ahead while a command prints breaks that, and so does a second     *)
(* connection or a reset one.                                               *)
Slice(p, from, to) == [k \in 1 .. to - from |-> ByteAt(p, from + k - 1)]

StreamIntact ==
  Tame /\ gShellCon # NULL =>
    /\ gShellPrint.BytesSent <= gShellPrint.BytesQueued
    /\ gShellPrint.BytesQueued <= gShellPrint.Len
    /\ gShellPrint.Len <= NET_PRINT_BUF_LEN
    /\ wire[gShellCon] = Slice(gShellPrint, gShellPrint.BytesSent, gShellPrint.BytesQueued)

(* NetWaitBufEmpty() does not wait for what can not come: as long as it     *)
(* goes round, the bytes it counts are on their way, of this connection or  *)
(* of the one that has gone since, and each acknowledgement brings it       *)
(* nearer to its end.  That is so when users come one after the other, wait *)
(* for the prompt and may go at any time, and lwIP has memory; a reset, a   *)
(* second connection or a failed tcp_write() can make main() wait for ever. *)
NoWaitInVain ==
  world \subseteq {"again"} /\ Runs("wait") /\ gShellPrint.Len # gShellPrint.BytesSent =>
    \E c \in Conns : /\ pcb[c] # "free"
                     /\ Len(wire[c]) = gShellPrint.Len - gShellPrint.BytesSent

(* A line is never handed to the parser without its end: whatever is typed, *)
(* erased, typed ahead or reset, there is a NUL in gRxBuf.                  *)
LineTerminated == gInputReady => Terminated

(* As long as no connection is reset the firmware never uses a pcb that     *)
(* lwIP has freed, however connections come, overlap and go.                *)
NeverWild == "reset" \notin world => ~wild
=============================================================================
