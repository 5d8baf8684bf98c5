---------------------------- MODULE Shell_proofs ----------------------------
(***************************************************************************)
(* However connections come, overlap, are reset and go, and whatever is    *)
(* typed when, the command line keeps its end; as long as no connection is *)
(* reset no pcb is used after lwIP has freed it; and for users who wait    *)
(* for the prompt, the print buffer and the connection agree byte by byte. *)
(* For every size of the buffers and any number of connections.            *)
(***************************************************************************)
EXTENDS Shell, TLAPS, SequenceTheorems

(* A frame of ShellRecv() never has more rounds to go than bytes left.      *)
Frame == {f \in FrameType : f.op = "recv" => f.n <= Len(f.rest)}

(* main() is at the bottom and nowhere else, and what runs the commands is  *)
(* called by main() only: the callbacks lie above it.                       *)
Stacked(s) ==
  /\ s \in Seq(Frame) /\ s # <<>>
  /\ \A i \in 1 .. Len(s) :
       /\ s[i].op = "main" <=> i = Len(s)
       /\ s[i].op = "calls" => i = Len(s) - 1

(* A free pcb has nothing on the wire, and no connection more than lwIP     *)
(* buffers for it.                                                          *)
WireOK(w) ==
  /\ w \in [Conns -> Seq(Printed)]
  /\ \A c \in Conns : Len(w[c]) <= TCP_SND_BUF /\ (pcb[c] = "free" => w[c] = <<>>)

PrintType == [PrintBuf : [PrintIdx -> Printed], Len : Nat, BytesQueued : Nat, BytesSent : Nat]

Data ==
  /\ pcb \in [Conns -> {"free", "open", "peer_closed", "closed"}]
  /\ WireOK(wire)
  /\ world \in Worlds /\ wild \in BOOLEAN
  /\ gShellCon \in Conns \cup {NULL}
  /\ gShellPrint \in PrintType
  /\ gRxBuf \in [RxIdx -> Typed \cup {NUL}] /\ gRxCount \in RxIdx
  /\ gInputReady \in BOOLEAN /\ gSendWelcome \in BOOLEAN

(* Everything has its type, and a line that is complete has its end.        *)
TypeInv == Data /\ Stacked(stack) /\ LineTerminated

(* The pcbs that the firmware holds on to, in gShellCon and in the frames   *)
(* of ShellRecv(), are lwIP's still.                                        *)
RecvCons(s) == {s[i].con : i \in {j \in 1 .. Len(s) : s[j].op = "recv"}}

Held ==
  "reset" \notin world =>
    /\ ~wild
    /\ gShellCon # NULL => pcb[gShellCon] = "open"
    /\ \A c \in RecvCons(stack) : pcb[c] \in {"open", "peer_closed"}

-----------------------------------------------------------------------------
Live == gShellCon # NULL

(* The connection that is printed to is the only one that is open or has    *)
(* anything on the wire.                                                    *)
OneCon ==
  /\ \A c \in Conns : pcb[c] = "open" => c = gShellCon
  /\ Live => pcb[gShellCon] = "open"
  /\ Live => \A c \in Conns \ {gShellCon} :
               wire[c] = <<>> /\ ("nomem" \in world => pcb[c] = "free")

(* The buffer is handed to lwIP as a whole or not at all, and what lwIP     *)
(* has of it and the peer has not acknowledged is on the wire.              *)
BufferOK(p, w, con) ==
  /\ p.Len <= NET_PRINT_BUF_LEN
  /\ p.BytesQueued = p.Len \/ (p.BytesQueued = 0 /\ p.BytesSent = 0)
  /\ p.BytesSent <= p.BytesQueued
  /\ p.Len > 0 => p.BytesSent < p.Len
  /\ w[con] = Slice(p, p.BytesSent, p.BytesQueued)

Buffered ==
  Live => /\ BufferOK(gShellPrint, wire, gShellCon)
          /\ ("nomem" \notin world /\ stack[1].op # "puts") =>
               gShellPrint.BytesQueued = gShellPrint.Len

(* What is told to the user begins with an empty buffer.                    *)
Fresh == Live => gShellPrint.Len = 0

IsPut(call) == call.call = "puts"
Short(call) == call.call = "printf" => Len(call.s) <= 2

(* What a frame is that waits for the one above it, or is the top one.      *)
TameFrame(s, i) ==
  /\ s[i].op = "wait" => i = 1
  /\ s[i].op = "printf" => Len(s[i].s) <= 2 /\ i < Len(s) /\ s[i + 1].op = "calls"
  /\ (s[i].op = "puts" /\ i > 1) => s[i].cp = 0
  /\ s[i].op = "recv" =>
       /\ i = Len(s) - 1 /\ s[Len(s)] = Main("welcome")
       /\ (i > 1 /\ s[i].n > 0) => Head(s[i].rest) = "BS"
  /\ s[i].op = "calls" => \A k \in 1 .. Len(s[i].todo) :
                            /\ Short(s[i].todo[k])
                            /\ IsPut(s[i].todo[k]) => i = 1 /\ k = 1

TameFrames(s) == \A i \in 1 .. Len(s) : TameFrame(s, i)

(* What the function f finds when it runs.                                  *)
Ready(f) ==
  /\ (f.op = "puts" /\ Live) => /\ f.cp = gShellPrint.Len
                                /\ gShellPrint.BytesQueued = 0 /\ gShellPrint.BytesSent = 0
  /\ f.op \in {"printf", "recv"} => Fresh
  /\ (f.op = "calls" /\ f.todo # <<>> /\ IsPut(f.todo[1])) => Fresh
  /\ (f.op = "recv" /\ f.n > 0 /\ Head(f.rest) # "BS") => ~gSendWelcome
  /\ gInputReady => /\ f.op = "recv" \/ f \in {Main("welcome"), Main("input")}
                    /\ Fresh /\ ~gSendWelcome

Told == TameFrames(stack) /\ Ready(stack[1])

TameInv == Tame => OneCon /\ Buffered /\ Told

-----------------------------------------------------------------------------
(* The stack. *)

(* What the functions of the program push is a frame.                       *)
LEMMA MakesFrame ==
  /\ \A at \in {"poll", "welcome", "input"} : Main(at) \in Frame /\ Main(at).op = "main"
  /\ \A todo \in Seq(CallType) : Calls(todo) \in Frame /\ Calls(todo).op = "calls"
  /\ \A s \in Seq(Printed) : Printf(s) \in Frame /\ Printf(s).op = "printf"
  /\ \A s \in Seq(Printed), cp \in Nat : Puts(s, cp) \in Frame /\ Puts(s, cp).op = "puts"
  /\ \A c \in Conns, rest \in Seq(Typed), n \in Nat :
       /\ n <= Len(rest) => Recv(c, rest, n) \in Frame
       /\ Recv(c, rest, n).op = "recv"
  /\ Wait \in Frame /\ Wait.op = "wait"
BY DEF Frame, FrameType, Main, Calls, Printf, Puts, Recv, Wait

(* What a frame of a function has.                                          *)
LEMMA FrameHas ==
  ASSUME NEW f \in Frame
  PROVE  /\ f.op \in {"main", "calls", "printf", "puts", "recv", "wait"}
         /\ f.op = "main" => f.at \in {"poll", "welcome", "input"} /\ f = Main(f.at)
         /\ f.op = "calls" => f.todo \in Seq(CallType) /\ f = Calls(f.todo)
         /\ f.op = "printf" => f.s \in Seq(Printed) /\ f = Printf(f.s)
         /\ f.op = "puts" => f.s \in Seq(Printed) /\ f.cp \in Nat /\ f = Puts(f.s, f.cp)
         /\ f.op = "recv" => /\ f.con \in Conns /\ f.rest \in Seq(Typed) /\ f.n \in Nat
                             /\ f.n <= Len(f.rest) /\ f = Recv(f.con, f.rest, f.n)
         /\ f.op = "wait" => f = Wait
BY DEF Frame, FrameType, Main, Calls, Printf, Puts, Recv, Wait

(* A function that is called goes on top of the others.                     *)
LEMMA Push ==
  ASSUME NEW s, Stacked(s), NEW f \in Frame, f.op \notin {"main", "calls"}
  PROVE  /\ Stacked(<<f>> \o s)
         /\ Len(<<f>> \o s) = Len(s) + 1 /\ (<<f>> \o s)[1] = f
         /\ \A i \in 1 .. Len(s) : (<<f>> \o s)[i + 1] = s[i]
         /\ Head(<<f>> \o s) = f /\ Tail(<<f>> \o s) = s
<1>1. PICK t : t = <<f>> \o s
  OBVIOUS
<1>2. /\ s \in Seq(Frame) /\ Len(s) \in Nat \ {0} /\ t \in Seq(Frame) /\ t # <<>>
      /\ Len(t) = Len(s) + 1 /\ t[1] = f
      /\ \A i \in 1 .. Len(s) : t[i + 1] = s[i]
      /\ Head(t) = f /\ Tail(t) = s
  BY <1>1, SMTT(30) DEF Stacked
<1>3. ASSUME NEW i \in 1 .. Len(t)
      PROVE  /\ t[i].op = "main" <=> i = Len(t)
             /\ t[i].op = "calls" => i = Len(t) - 1
  <2>1. CASE i = 1
    BY <1>2, <2>1
  <2>2. CASE i # 1
    <3>1. PICK j \in 1 .. Len(s) : i = j + 1
      BY <1>2, <2>2
    <3>2. t[i] = s[j]
      BY <1>2, <3>1
    <3> QED
      BY <1>2, <3>1, <3>2 DEF Stacked
  <2> QED
    BY <2>1, <2>2
<1>4. Stacked(t)
  BY <1>2, <1>3 DEF Stacked
<1> QED
  BY <1>1, <1>2, <1>4, Zenon

(* A sequence without its head.                                             *)
LEMMA TailHas ==
  ASSUME NEW S, NEW s \in Seq(S), s # <<>>
  PROVE  /\ Tail(s) \in Seq(S) /\ Len(Tail(s)) = Len(s) - 1
         /\ \A i \in 1 .. Len(s) - 1 : Tail(s)[i] = s[i + 1]
         /\ Head(s) = s[1] /\ Head(s) \in S /\ Len(s) \in Nat \ {0}
OBVIOUS

LEMMA TailOfOne == ASSUME NEW S, NEW s \in Seq(S), Len(s) = 1 PROVE Tail(s) = <<>>
<1>1. Tail(s) \in Seq(S) /\ Len(Tail(s)) = 0
  BY TailHas
<1> QED
  BY <1>1, EmptySeq

(* A stack without its top is one.                                          *)
LEMMA RestStacked ==
  ASSUME NEW s, Stacked(s), s[1].op # "main", NEW t \in Seq(Frame), Len(t) = Len(s) - 1,
         \A i \in 1 .. Len(s) - 1 : t[i] = s[i + 1]
  PROVE  Stacked(t)
<1>1. s \in Seq(Frame) /\ Len(s) \in Nat /\ Len(s) > 1
  BY DEF Stacked
<1>2. t # <<>>
  BY <1>1
<1>3. ASSUME NEW i \in 1 .. Len(t)
      PROVE  /\ t[i].op = "main" <=> i = Len(t)
             /\ t[i].op = "calls" => i = Len(t) - 1
  <2>1. i + 1 \in 1 .. Len(s) /\ t[i] = s[i + 1]
    BY <1>1
  <2> QED
    BY <1>1, <2>1 DEF Stacked
<1> QED
  BY <1>2, <1>3 DEF Stacked

(* A function that returns leaves the others.                               *)
LEMMA Pop ==
  ASSUME NEW s, Stacked(s), s[1].op # "main"
  PROVE  /\ Stacked(Tail(s)) /\ Len(Tail(s)) = Len(s) - 1
         /\ \A i \in 1 .. Len(s) - 1 : Tail(s)[i] = s[i + 1]
         /\ Head(s) = s[1] /\ Head(s) \in Frame
<1>1. s \in Seq(Frame) /\ s # <<>>
  BY DEF Stacked
<1> QED
  BY <1>1, TailHas, RestStacked

(* A function that goes on does so where it is.                             *)
LEMMA Goes ==
  ASSUME NEW s, Stacked(s), NEW f \in Frame,
         f.op = s[1].op \/ (f.op \notin {"main", "calls"} /\ s[1].op \notin {"main", "calls"})
  PROVE  /\ Stacked(<<f>> \o Tail(s)) /\ Len(<<f>> \o Tail(s)) = Len(s)
         /\ (<<f>> \o Tail(s))[1] = f
         /\ \A i \in 2 .. Len(s) : (<<f>> \o Tail(s))[i] = s[i]
BY DEF Stacked

-----------------------------------------------------------------------------
(* The print buffer. *)

(* Whatever is read of the buffer, and behind it, is a byte.                *)
LEMMA ByteTyped == ASSUME NEW p \in PrintType, NEW i \in Int PROVE ByteAt(p, i) \in Printed
<1>1. p.PrintBuf \in [PrintIdx -> Printed]
  BY DEF PrintType
<1>2. CASE i \in PrintIdx
  BY <1>1, <1>2 DEF ByteAt
<1>3. CASE i \notin PrintIdx
  BY <1>3 DEF ByteAt, Old, Printed
<1> QED
  BY <1>2, <1>3

(* What is left of a sequence.                                              *)
LEMMA RestHas ==
  ASSUME NEW S, NEW s \in Seq(S), NEW n \in 1 .. Len(s)
  PROVE  /\ SubSeq(s, n + 1, Len(s)) \in Seq(S)
         /\ Len(SubSeq(s, n + 1, Len(s))) = Len(s) - n
         /\ \A k \in 1 .. Len(s) - n : SubSeq(s, n + 1, Len(s))[k] = s[n + k]
OBVIOUS

(* What is printed goes to the buffer.                                      *)
LEMMA Printing ==
  ASSUME NEW p \in PrintType, NEW b \in [PrintIdx -> Printed], NEW n \in Nat, NEW q,
         q = [p EXCEPT !.PrintBuf = b, !.Len = n]
  PROVE  /\ q \in PrintType
         /\ q.PrintBuf = b /\ q.Len = n
         /\ q.BytesQueued = p.BytesQueued /\ q.BytesSent = p.BytesSent
BY DEF PrintType

(* What is handed to lwIP goes to the connection, and nowhere else; it is   *)
(* all of it, or what there is room for.                                    *)
LEMMA Fill ==
  ASSUME Data, NEW p \in PrintType, NEW w, WireOK(w), NEW con \in Conns \cup {NULL},
         NEW ok \in BOOLEAN, NetPrintFillPcb(p, w, con, ok)
  PROVE  /\ gShellPrint' \in PrintType /\ WireOK(wire') /\ wild' \in BOOLEAN
         /\ gShellPrint'.PrintBuf = p.PrintBuf /\ gShellPrint'.Len = p.Len
         /\ gShellPrint'.BytesSent = p.BytesSent
         /\ (con = NULL \/ pcb[con] # "free") => wild' = wild
<1> DEFINE writes == con # NULL /\ p.Len > p.BytesQueued
           taken  == writes /\ ok /\ pcb[con] \in {"open", "peer_closed"}
<1>1. CASE ~taken
  BY <1>1 DEF Data, NetPrintFillPcb
<1>2. CASE taken
  <2>1. con \in Conns /\ pcb[con] # "free"
    BY <1>2
  <2>2. Byte2Write(p, w, con) \in Nat /\ Byte2Write(p, w, con) + Len(w[con]) <= TCP_SND_BUF
    BY <1>2, <2>1, ShellAssumption DEF Byte2Write, CanSend, WireOK, PrintType
  <2>3. Written(p, w, con) \in Seq(Printed) /\ Len(Written(p, w, con)) = Byte2Write(p, w, con)
    <3> DEFINE n == Byte2Write(p, w, con)
    <3>1. \A k \in 1 .. n : ByteAt(p, (p.BytesSent + k) - 1) \in Printed
      BY ByteTyped DEF PrintType
    <3>2. n \in Nat
      BY <2>2
    <3> HIDE DEF n
    <3>3. [k \in 1 .. n |-> ByteAt(p, (p.BytesSent + k) - 1)] \in Seq(Printed)
      BY <3>1, <3>2
    <3> QED
      BY <3>2, <3>3 DEF Written, n
  <2>4. gShellPrint' = [p EXCEPT !.BytesQueued = @ + Byte2Write(p, w, con)]
        /\ wire' = [w EXCEPT ![con] = @ \o Written(p, w, con)]
        /\ wild' = (wild \/ (con # NULL /\ pcb[con] = "free"))
    BY <1>2 DEF NetPrintFillPcb
  <2>5. WireOK(wire')
    <3>1. PICK t : t = Written(p, w, con) /\ t \in Seq(Printed)
                   /\ Len(t) + Len(w[con]) <= TCP_SND_BUF
      BY <2>1, <2>2, <2>3 DEF WireOK
    <3>2. wire' = [w EXCEPT ![con] = w[con] \o t]
      BY <2>4, <3>1
    <3>3. w[con] \in Seq(Printed) /\ w \in [Conns -> Seq(Printed)]
      BY <2>1 DEF WireOK
    <3>4. w[con] \o t \in Seq(Printed) /\ Len(w[con] \o t) = Len(w[con]) + Len(t)
      BY <3>1, <3>3
    <3> QED
      BY <2>1, <3>1, <3>2, <3>3, <3>4 DEF WireOK
  <2> QED
    BY <2>1, <2>2, <2>4, <2>5 DEF PrintType, Data
<1> QED
  BY <1>1, <1>2

-----------------------------------------------------------------------------
(* The stack, step by step. *)

(* The function that runs is a frame of its kind.                           *)
LEMMA TopHas ==
  ASSUME Stacked(stack)
  PROVE  /\ Top = stack[1] /\ Top \in Frame /\ Len(stack) \in Nat \ {0}
         /\ stack \in Seq(Frame)
BY TailHas DEF Stacked, Top

(* The poll of main() is over when it has brought something; a poll that    *)
(* waits goes on.                                                           *)
LEMMA PolledStack ==
  ASSUME Stacked(stack), Polling
  PROVE  /\ Stacked(Polled) /\ Len(Polled) = Len(stack)
         /\ \A i \in 2 .. Len(stack) : Polled[i] = stack[i]
         /\ IF Runs("main") THEN Polled[1] = Main("welcome") /\ Len(stack) = 1
                            ELSE Polled[1] = stack[1]
<1>1. CASE Runs("main")
  <2>1. Main("welcome") \in Frame /\ Main("welcome").op = stack[1].op
    BY <1>1, TopHas, MakesFrame DEF Runs
  <2>2. Len(stack) = 1
    <3>1. 1 \in 1 .. Len(stack) /\ stack[1].op = "main"
      BY <1>1, TopHas DEF Runs
    <3> QED
      BY <3>1 DEF Stacked
  <2> QED
    BY <1>1, <2>1, <2>2, Goes DEF Polled, Become, Below
<1>2. CASE ~Runs("main")
  BY <1>2 DEF Polled
<1> QED
  BY <1>1, <1>2

(* What NetWaitBufEmpty() puts on the stack.                                *)
LEMMA Waits ==
  ASSUME NEW s \in Seq(Frame), NEW con, NEW p
  PROVE  NetWaitBufEmpty(con, p) \o s =
           IF con # NULL /\ p.Len # p.BytesSent THEN <<Wait>> \o s ELSE s
<1>1. <<>> \o s = s
  OBVIOUS
<1> QED
  BY <1>1, Zenon DEF NetWaitBufEmpty

LEMMA WaitsAbove ==
  ASSUME NEW s \in Seq(Frame), NEW f \in Frame, NEW con, NEW p
  PROVE  NetWaitBufEmpty(con, p) \o <<f>> \o s = NetWaitBufEmpty(con, p) \o (<<f>> \o s)
<1>1. NetWaitBufEmpty(con, p) \in Seq(Frame)
  BY MakesFrame DEF NetWaitBufEmpty
<1>2. PICK w \in Seq(Frame) : w = NetWaitBufEmpty(con, p)
  BY <1>1
<1>3. w \o <<f>> \o s = w \o (<<f>> \o s)
  OBVIOUS
<1> QED
  BY <1>2, <1>3

(* Waiting on top of a stack.                                               *)
LEMMA WaitsStacked ==
  ASSUME NEW s, Stacked(s), NEW con, NEW p
  PROVE  Stacked(NetWaitBufEmpty(con, p) \o s)
<1>1. s \in Seq(Frame) /\ Wait \in Frame /\ Wait.op = "wait"
  BY MakesFrame DEF Stacked
<1> QED
  BY <1>1, Waits, Push, ZenonT(60)

(* The loop of ShellRecv() never runs past its bytes.                       *)
LEMMA LoopFrames ==
  ASSUME TypeInv, Runs("recv"), Top.n > 0
  PROVE  /\ Top.rest # <<>> /\ Head(Top.rest) \in Typed
         /\ Stay \in Frame /\ Stay.op = "recv"
         /\ \A k \in Nat : Forward(k) \in Frame /\ Forward(k).op = "recv"
<1>1. /\ Top.con \in Conns /\ Top.rest \in Seq(Typed) /\ Top.n \in Nat
      /\ Top.n <= Len(Top.rest)
  BY TopHas, FrameHas DEF TypeInv, Runs
<1>2. Top.rest # <<>> /\ Head(Top.rest) \in Typed
  BY <1>1
<1>3. Stay \in Frame /\ Stay.op = "recv"
  BY <1>1, MakesFrame DEF Stay
<1>4. ASSUME NEW k \in Nat PROVE Forward(k) \in Frame /\ Forward(k).op = "recv"
  <2> DEFINE rest == SubSeq(Top.rest, k + 1, Len(Top.rest))
             n == IF Top.n - k > 0 THEN Top.n - k ELSE 0
  <2>1. rest \in Seq(Typed) /\ n \in Nat /\ n <= Len(rest)
    BY <1>1
  <2>2. Forward(k) = Recv(Top.con, rest, n)
    BY DEF Forward
  <2> HIDE DEF rest, n
  <2> QED
    BY <1>1, <2>1, <2>2, MakesFrame
<1> QED
  BY <1>2, <1>3, <1>4

-----------------------------------------------------------------------------
LEMMA Concat ==
  ASSUME NEW S, NEW f \in S, NEW g \in S
  PROVE  LET t == <<f>> \o <<g>>
         IN  t \in Seq(S) /\ Len(t) = 2 /\ t[1] = f /\ t[2] = g /\ t # <<>>
OBVIOUS

(* What a step makes of the stack: the frames below the new ones are those  *)
(* of s from the a-th on, and from the b-th on in t.                        *)
Keeps(s, t, a, b) ==
  /\ Len(t) = Len(s) + (b - a)
  /\ \A i \in a .. Len(s) : t[i + (b - a)] = s[i]

Callable(f) == f \in Frame /\ f.op \notin {"main", "calls"}

LEMMA Returns ==
  ASSUME Stacked(stack), ~Runs("main"), NEW t, t = Below
  PROVE  Stacked(t) /\ Keeps(stack, t, 2, 1)
<1>1. stack[1].op # "main"
  BY TopHas DEF Runs
<1>2. /\ Stacked(t) /\ Len(t) = Len(stack) - 1 /\ Len(stack) \in Nat
      /\ \A i \in 1 .. Len(stack) - 1 : t[i] = stack[i + 1]
  BY <1>1, Pop, TopHas DEF Below
<1>3. ASSUME NEW i \in 2 .. Len(stack) PROVE t[i + (1 - 2)] = stack[i]
  <2>1. i - 1 \in 1 .. Len(stack) - 1 /\ i + (1 - 2) = i - 1 /\ (i - 1) + 1 = i
    BY <1>2
  <2> QED
    BY <1>2, <2>1
<1> QED
  BY <1>2, <1>3 DEF Keeps

LEMMA GoesOn ==
  ASSUME Stacked(stack), NEW f \in Frame, NEW t, t = Become(f),
         f.op = Top.op \/ (Callable(f) /\ Callable(Top))
  PROVE  Stacked(t) /\ Keeps(stack, t, 2, 2) /\ t[1] = f
<1>1. f.op = stack[1].op \/ (f.op \notin {"main", "calls"} /\ stack[1].op \notin {"main", "calls"})
  BY TopHas DEF Callable
<1> QED
  BY <1>1, Goes, TopHas DEF Become, Below, Keeps

LEMMA Enters ==
  ASSUME NEW s, Stacked(s), NEW f, Callable(f), NEW t, t = <<f>> \o s
  PROVE  Stacked(t) /\ Keeps(s, t, 1, 2) /\ t[1] = f
BY Push DEF Callable, Keeps

LEMMA CallsIt ==
  ASSUME Stacked(stack), NEW f \in Frame, NEW g, Callable(g), NEW t, t = <<g>> \o Become(f),
         f.op = Top.op \/ (Callable(f) /\ Callable(Top))
  PROVE  Stacked(t) /\ Keeps(stack, t, 2, 3) /\ t[1] = g /\ t[2] = f
<1>1. PICK u : u = Become(f)
  OBVIOUS
<1>2. Stacked(u) /\ Keeps(stack, u, 2, 2) /\ u[1] = f
  BY <1>1, GoesOn
<1>3. Stacked(t) /\ Keeps(u, t, 1, 2) /\ t[1] = g
  BY <1>1, <1>2, Enters
<1>4. Len(stack) \in Nat \ {0} /\ Len(u) \in Nat
  BY <1>2, TopHas DEF Keeps
<1> QED
  BY <1>2, <1>3, <1>4 DEF Keeps

(* main() alone, and main() with the commands above it.                     *)
LEMMA MainAlone ==
  ASSUME Stacked(stack), Runs("main")
  PROVE  Len(stack) = 1 /\ Below = <<>> /\ \A f : Become(f) = <<f>>
<1>1. 1 \in 1 .. Len(stack) /\ stack[1].op = "main" /\ stack \in Seq(Frame)
  BY TopHas DEF Runs
<1>2. Len(stack) = 1
  BY <1>1 DEF Stacked
<1>3. Below = <<>>
  BY <1>1, <1>2, TailOfOne DEF Below
<1> QED
  BY <1>2, <1>3 DEF Become

LEMMA CallsAlone ==
  ASSUME Stacked(stack), Runs("calls")
  PROVE  Len(stack) = 2 /\ stack[2].op = "main" /\ stack[2] \in Frame
<1>1. 1 \in 1 .. Len(stack) /\ stack[1].op = "calls" /\ stack \in Seq(Frame)
  BY TopHas DEF Runs
<1>2. 1 = Len(stack) - 1 /\ Len(stack) \in Nat
  BY <1>1, TopHas DEF Stacked
<1>3. 2 \in 1 .. Len(stack)
  BY <1>2
<1> QED
  BY <1>1, <1>2, <1>3 DEF Stacked

(* main() calls what there is to tell.                                      *)
LEMMA MainCalls ==
  ASSUME NEW at \in {"poll", "welcome", "input"}, NEW todo \in Seq(CallType),
         NEW t, t = <<Calls(todo)>> \o <<Main(at)>>
  PROVE  Stacked(t) /\ Len(t) = 2 /\ t[1] = Calls(todo) /\ t[2] = Main(at)
<1> DEFINE f == Calls(todo)
           g == Main(at)
<1>1. f \in Frame /\ f.op = "calls" /\ g \in Frame /\ g.op = "main"
  BY MakesFrame
<1> HIDE DEF f, g
<1>2. t = <<f>> \o <<g>>
  BY DEF f, g
<1>3. t \in Seq(Frame) /\ Len(t) = 2 /\ t[1] = f /\ t[2] = g /\ t # <<>>
  BY ONLY <1>1, <1>2, Concat
<1>4. \A i \in 1 .. 2 : i = 1 \/ i = 2
  OBVIOUS
<1>5. Stacked(t)
  BY <1>1, <1>3, <1>4 DEF Stacked
<1> QED
  BY <1>3, <1>5 DEF f, g

LEMMA MainGoesOn ==
  ASSUME NEW at \in {"poll", "welcome", "input"}, NEW t, t = <<>> \o <<Main(at)>>
  PROVE  Stacked(t) /\ Len(t) = 1 /\ t[1] = Main(at)
<1> DEFINE g == Main(at)
<1>1. g \in Frame /\ g.op = "main"
  BY MakesFrame
<1> HIDE DEF g
<1>2. t = <<g>>
  BY DEF g
<1>3. t \in Seq(Frame) /\ Len(t) = 1 /\ t[1] = g /\ t # <<>>
  BY <1>1, <1>2
<1>4. \A i \in 1 .. 1 : i = 1
  OBVIOUS
<1>5. Stacked(t)
  BY <1>1, <1>3, <1>4 DEF Stacked
<1> QED
  BY <1>3, <1>5 DEF g

-----------------------------------------------------------------------------
(* Types, and the end of the line. *)

(* A callback that returns to the poll.                                     *)
LEMMA CallbackTypes ==
  ASSUME TypeInv, UNCHANGED world, NEW c,
         \/ PollNothing
         \/ /\ c \in Conns
            /\ ShellAccept(c) \/ ShellRecvClosed(c) \/ CloseDone(c) \/ ShellError(c)
  PROVE  TypeInv'
<1>1. Stacked(stack')
  <2>1. stack' = Polled /\ Polling
    BY DEF PollNothing, ShellAccept, ShellRecvClosed, CloseDone, ShellError, Polling
  <2> QED
    BY <2>1, PolledStack DEF TypeInv
<1>2. LineTerminated'
  BY DEF TypeInv, LineTerminated, Terminated, line,
         PollNothing, ShellAccept, ShellRecvClosed, CloseDone, ShellError
<1>3. Data'
  <2>1. CASE PollNothing
    BY <2>1 DEF PollNothing, TypeInv, Data, WireOK, net, line
  <2>2. CASE c \in Conns /\ ShellAccept(c)
    <3>1. Empty \in PrintType
      BY ShellAssumption DEF Empty, PrintType, Printed
    <3>2. 0 \in RxIdx
      BY ShellAssumption DEF RxIdx
    <3>3. WireOK(wire)' /\ pcb' \in [Conns -> {"free", "open", "peer_closed", "closed"}]
      BY <2>2 DEF ShellAccept, TypeInv, Data, WireOK
    <3> QED
      BY <2>2, <3>1, <3>2, <3>3 DEF ShellAccept, TypeInv, Data
  <2>3. CASE c \in Conns /\ ShellRecvClosed(c)
    BY <2>3 DEF ShellRecvClosed, TypeInv, Data, WireOK, line
  <2>4. CASE c \in Conns /\ CloseDone(c)
    BY <2>4 DEF CloseDone, TypeInv, Data, WireOK, line
  <2>5. CASE c \in Conns /\ ShellError(c)
    BY <2>5, ShellAssumption DEF ShellError, TypeInv, Data, WireOK, line
  <2> QED
    BY <2>1, <2>2, <2>3, <2>4, <2>5
<1> QED
  BY <1>1, <1>2, <1>3 DEF TypeInv

LEMMA ShellRecvTypes ==
  ASSUME TypeInv, UNCHANGED world, NEW c \in Conns, NEW p \in Pbufs, ShellRecv(c, p)
  PROVE  TypeInv'
<1>1. Recv(c, p, Len(p)) \in Frame /\ Recv(c, p, Len(p)).op = "recv"
  <2>1. p \in Seq(STRING) /\ \A i \in DOMAIN p : p[i] \in Typed
    BY ShellAssumption DEF Typed
  <2>2. p \in Seq(Typed)
    BY <2>1
  <2> QED
    BY <2>2, MakesFrame
<1>2. Stacked(stack')
  BY <1>1, PolledStack, Enters DEF ShellRecv, TypeInv, Callable
<1> QED
  BY <1>2 DEF ShellRecv, TypeInv, Data, WireOK, LineTerminated, Terminated, net, line

LEMMA MemoryTyped == MayFindMemory \subseteq BOOLEAN
BY DEF MayFindMemory

LEMMA ShellSentTypes ==
  ASSUME TypeInv, UNCHANGED world, NEW c \in Conns, NEW n \in Nat, NEW ok \in BOOLEAN,
         ShellSent(c, n, ok)
  PROVE  TypeInv'
<1> DEFINE acked == [wire EXCEPT ![c] = SubSeq(@, n + 1, Len(@))]
           p     == [gShellPrint EXCEPT !.BytesSent = @ + n]
<1>1. Stacked(stack')
  BY PolledStack DEF ShellSent, TypeInv
<1>2. WireOK(acked)
  <2>1. n \in 1 .. Len(wire[c]) /\ wire \in [Conns -> Seq(Printed)] /\ WireOK(wire)
    BY DEF ShellSent, TypeInv, Data, WireOK
  <2>2. pcb[c] # "free"
    BY <2>1 DEF WireOK
  <2>3. PICK r : /\ r = SubSeq(wire[c], n + 1, Len(wire[c])) /\ r \in Seq(Printed)
                 /\ Len(r) <= Len(wire[c])
    <3>1. wire[c] \in Seq(Printed) /\ Len(wire[c]) \in Nat
      BY <2>1
    <3>2. Len(wire[c]) - n <= Len(wire[c])
      BY <2>1, <3>1
    <3> QED
      BY <2>1, <3>1, <3>2, RestHas
  <2>4. acked = [wire EXCEPT ![c] = r]
    BY <2>3
  <2>5. Len(wire[c]) \in Nat /\ Len(r) \in Nat
    BY <2>1, <2>3
  <2> HIDE DEF acked
  <2> QED
    BY <2>1, <2>2, <2>3, <2>4, <2>5, ShellAssumption DEF WireOK
<1>3. p \in PrintType /\ Empty \in PrintType
  BY ShellAssumption DEF TypeInv, Data, PrintType, Empty, Printed
<1>4. gShellPrint' \in PrintType /\ WireOK(wire') /\ wild' \in BOOLEAN
  <2>1. CASE p.BytesSent = p.Len
    BY <2>1, <1>2, <1>3 DEF ShellSent, TypeInv, Data
  <2>2. CASE p.BytesSent # p.Len
    <3>1. NetPrintFillPcb(p, acked, c, ok)
      BY <2>2 DEF ShellSent
    <3> HIDE DEF p, acked
    <3> QED
      BY <1>2, <1>3, <3>1, Fill DEF TypeInv
  <2> QED
    BY <2>1, <2>2
<1> QED
  BY <1>1, <1>4 DEF ShellSent, TypeInv, Data, WireOK, LineTerminated, Terminated, line

LEMMA ShellPollTypes ==
  ASSUME TypeInv, UNCHANGED world, NEW c \in Conns, NEW ok \in BOOLEAN, ShellPoll(c, ok)
  PROVE  TypeInv'
<1>1. Stacked(stack')
  BY PolledStack DEF ShellPoll, TypeInv
<1>2. gShellPrint' \in PrintType /\ WireOK(wire') /\ wild' \in BOOLEAN
  BY Fill DEF ShellPoll, TypeInv, Data
<1> QED
  BY <1>1, <1>2 DEF ShellPoll, TypeInv, Data, WireOK, LineTerminated, Terminated, line

(* The end of a function, of a wait and of a command.                       *)
LEMMA ReturnTypes ==
  ASSUME TypeInv, UNCHANGED world, WaitDone \/ RecvDone \/ CallsDone
  PROVE  TypeInv'
<1>1. stack' = Below /\ ~Runs("main")
  BY DEF WaitDone, RecvDone, CallsDone, Runs
<1>2. Stacked(stack')
  BY <1>1, Returns DEF TypeInv
<1>3. CASE WaitDone \/ CallsDone
  BY <1>2, <1>3 DEF TypeInv, Data, WireOK, LineTerminated, Terminated, net, line,
                    WaitDone, CallsDone
<1>4. CASE RecvDone
  BY <1>2, <1>4 DEF TypeInv, Data, WireOK, LineTerminated, Terminated, line, RecvDone
<1> QED
  BY <1>3, <1>4

(* What NetPrintf() hands to lwIP.                                          *)
LEMMA PrintfTakes ==
  ASSUME TypeInv, NEW ok \in BOOLEAN, NetPrintf(ok)
  PROVE  /\ Top.s \in Seq(Printed)
         /\ \E p \in PrintType : /\ NetPrintFillPcb(p, wire, gShellCon, ok)
                                 /\ p.Len = Len(Top.s)
                                 /\ p.BytesQueued = gShellPrint.BytesQueued
                                 /\ p.BytesSent = gShellPrint.BytesSent
<1> DEFINE s == Top.s
           b == [i \in PrintIdx |-> IF i < Len(s) THEN s[i + 1] ELSE Old]
           p == [gShellPrint EXCEPT !.PrintBuf = b, !.Len = Len(s)]
<1>1. s \in Seq(Printed)
  BY TopHas, FrameHas DEF NetPrintf, TypeInv, Runs
<1>2. b \in [PrintIdx -> Printed] /\ Len(s) \in Nat
  <2>1. ASSUME NEW i \in PrintIdx PROVE (IF i < Len(s) THEN s[i + 1] ELSE Old) \in Printed
    BY <1>1 DEF PrintIdx, Printed
  <2> HIDE DEF s
  <2> QED
    BY <1>1, <2>1
<1>3. NetPrintFillPcb(p, wire, gShellCon, ok) /\ gShellPrint \in PrintType
  BY DEF NetPrintf, TypeInv, Data
<1> HIDE DEF b
<1>4. p = [gShellPrint EXCEPT !.PrintBuf = b, !.Len = Len(s)]
  OBVIOUS
<1> HIDE DEF p, s
<1>5. /\ p \in PrintType /\ p.Len = Len(s)
      /\ p.BytesQueued = gShellPrint.BytesQueued /\ p.BytesSent = gShellPrint.BytesSent
  BY <1>2, <1>3, <1>4 DEF PrintType
<1> QED
  BY <1>1, <1>3, <1>5 DEF s

LEMMA NetPrintfTypes ==
  ASSUME TypeInv, UNCHANGED world, NEW ok \in BOOLEAN, NetPrintf(ok)
  PROVE  TypeInv'
<1>1. Stacked(stack')
  BY Returns DEF NetPrintf, TypeInv, Runs
<1>2. gShellPrint' \in PrintType /\ WireOK(wire') /\ wild' \in BOOLEAN
  BY PrintfTakes, Fill DEF TypeInv, Data
<1> QED
  BY <1>1, <1>2 DEF NetPrintf, TypeInv, Data, WireOK, LineTerminated, Terminated, line

LEMMA NetPutsCopyTypes ==
  ASSUME TypeInv, UNCHANGED world, NetPutsCopy
  PROVE  TypeInv'
<1>1. Top.s \in Seq(Printed) /\ Top.s # <<>> /\ Top.cp \in Nat /\ Top.op = "puts"
  BY TopHas, FrameHas DEF NetPutsCopy, TypeInv, Runs
<1>2. Tail(Top.s) \in Seq(Printed) /\ Head(Top.s) \in Printed
  BY <1>1
<1>3. Stacked(stack')
  <2>1. PICK s : s = Tail(Top.s) /\ s \in Seq(Printed)
    BY <1>2
  <2>2. PICK cp : cp = Top.cp + 1 /\ cp \in Nat
    BY <1>1
  <2>3. Puts(s, cp) \in Frame /\ Puts(s, cp).op = "puts"
    BY <2>1, <2>2, MakesFrame
  <2>4. stack' = Become(Puts(s, cp))
    BY <2>1, <2>2 DEF NetPutsCopy
  <2> QED
    BY <1>1, <2>3, <2>4, GoesOn DEF TypeInv
<1>4. gShellPrint' \in PrintType
  <2> DEFINE b == [i \in PrintIdx |-> IF i = Top.cp THEN Head(Top.s) ELSE gShellPrint.PrintBuf[i]]
  <2>1. gShellPrint \in PrintType /\ gShellPrint.PrintBuf \in [PrintIdx -> Printed]
    BY DEF TypeInv, Data, PrintType
  <2>2. b \in [PrintIdx -> Printed]
    BY <1>2, <2>1
  <2>3. gShellPrint' = [gShellPrint EXCEPT !.PrintBuf = b, !.Len = gShellPrint.Len + 1]
    BY DEF NetPutsCopy
  <2>4. gShellPrint.Len + 1 \in Nat
    BY <2>1 DEF PrintType
  <2> HIDE DEF b
  <2> QED
    BY <2>1, <2>2, <2>3, <2>4, Printing, ZenonT(60)
<1> QED
  BY <1>3, <1>4 DEF NetPutsCopy, TypeInv, Data, WireOK, LineTerminated, Terminated, net, line

LEMMA NetPutsFlushTypes ==
  ASSUME TypeInv, UNCHANGED world, NEW ok \in BOOLEAN, NetPutsFlush(ok)
  PROVE  TypeInv'
<1>1. Top.s \in Seq(Printed) /\ Top.op = "puts"
  BY TopHas, FrameHas DEF NetPutsFlush, TypeInv, Runs
<1>2. Puts(Top.s, 0) \in Frame /\ Puts(Top.s, 0).op = "puts"
  BY <1>1, MakesFrame
<1>3. Stacked(Become(Puts(Top.s, 0)))
  BY <1>1, <1>2, GoesOn DEF TypeInv
<1>4. Stacked(stack')
  BY <1>3, WaitsStacked DEF NetPutsFlush
<1>5. gShellPrint' \in PrintType /\ WireOK(wire') /\ wild' \in BOOLEAN
  BY Fill DEF NetPutsFlush, TypeInv, Data
<1> QED
  BY <1>4, <1>5 DEF NetPutsFlush, TypeInv, Data, WireOK, LineTerminated, Terminated, line

LEMMA NetPutsEndTypes ==
  ASSUME TypeInv, UNCHANGED world, NEW ok \in BOOLEAN, NetPutsEnd(ok)
  PROVE  TypeInv'
<1>1. Stacked(Below)
  BY Returns DEF NetPutsEnd, TypeInv, Runs
<1>2. Stacked(stack')
  BY <1>1, WaitsStacked DEF NetPutsEnd
<1>3. gShellPrint' \in PrintType /\ WireOK(wire') /\ wild' \in BOOLEAN
  BY Fill DEF NetPutsEnd, TypeInv, Data
<1> QED
  BY <1>2, <1>3 DEF NetPutsEnd, TypeInv, Data, WireOK, LineTerminated, Terminated, line

(* The loop of ShellRecv(): the index stays within the line, and what ends  *)
(* a line is written to it.                                                 *)
LEMMA LoopTypes ==
  ASSUME TypeInv, UNCHANGED world, SkipTelnetCommand \/ BackSpace \/ Enter \/ Character
  PROVE  TypeInv'
<1>1. Runs("recv") /\ Top.op = "recv" /\ Top.n > 0 /\ ~gInputReady
  BY DEF SkipTelnetCommand, BackSpace, Enter, Character, InLoop, Runs
<1>2. /\ Head(Top.rest) \in Typed /\ Stay \in Frame /\ Stay.op = "recv"
      /\ \A k \in Nat : Forward(k) \in Frame /\ Forward(k).op = "recv"
  BY <1>1, LoopFrames
<1>3. Stacked(stack')
  <2>1. CASE BackSpace
    <3>1. Rubout \in Seq(Printed) /\ Beep \in Seq(Printed) /\ gShellPrint.Len \in Nat
      BY DEF Rubout, Beep, Printed, TypeInv, Data, PrintType
    <3>2. \A s \in {Rubout, Beep} : Callable(Puts(s, gShellPrint.Len))
      BY <3>1, MakesFrame DEF Callable
    <3>3. PICK g : g = Puts(IF gRxCount > 0 THEN Rubout ELSE Beep, gShellPrint.Len)
      OBVIOUS
    <3>4. Callable(g)
      BY <3>2, <3>3
    <3>5. PICK f : f = Stay
      OBVIOUS
    <3>6. PICK t : t = <<g>> \o Become(f)
      OBVIOUS
    <3>7. stack' = t
      BY <2>1, <3>3, <3>5, <3>6, Zenon DEF BackSpace
    <3>8. Stacked(stack) /\ f \in Frame /\ f.op = Top.op
      BY <1>1, <1>2, <3>5 DEF TypeInv
    <3>9. Stacked(t)
      BY <3>4, <3>6, <3>8, CallsIt, Zenon
    <3> QED
      BY <3>7, <3>9
  <2>2. CASE SkipTelnetCommand \/ Character
    BY <1>1, <1>2, <2>2, GoesOn DEF SkipTelnetCommand, Character, TypeInv
  <2>3. CASE Enter
    BY <1>1, <1>2, <2>3, GoesOn DEF Enter, TypeInv
  <2> QED
    BY <2>1, <2>2, <2>3
<1>4. /\ gRxBuf' \in [RxIdx -> Typed \cup {NUL}] /\ gRxCount' \in RxIdx
      /\ gInputReady' \in BOOLEAN
  <2>1. CASE SkipTelnetCommand
    BY <2>1 DEF SkipTelnetCommand, TypeInv, Data, line
  <2>2. CASE BackSpace
    BY <2>2, ShellAssumption DEF BackSpace, TypeInv, Data, RxIdx
  <2>3. CASE Enter
    BY <2>3 DEF Enter, TypeInv, Data
  <2>4. CASE Character
    <3>1. gRxBuf' \in [RxIdx -> Typed \cup {NUL}]
      BY <1>2, <2>4 DEF Character, TypeInv, Data
    <3>2. gRxCount' \in RxIdx
      BY <2>4, ShellAssumption DEF Character, TypeInv, Data, RxIdx
    <3> QED
      BY <2>4, <3>1, <3>2 DEF Character, TypeInv, Data
  <2> QED
    BY <2>1, <2>2, <2>3, <2>4
<1>5. LineTerminated'
  <2>1. CASE Enter
    BY <2>1 DEF Enter, TypeInv, Data, LineTerminated, Terminated
  <2>2. CASE ~Enter
    BY <1>1, <2>2 DEF SkipTelnetCommand, BackSpace, Character, LineTerminated, line
  <2> QED
    BY <2>1, <2>2
<1> QED
  BY <1>3, <1>4, <1>5
     DEF SkipTelnetCommand, BackSpace, Enter, Character, TypeInv, Data, WireOK, net, line

(* What main() and the commands have to call is typed.                      *)
LEMMA CallsTyped ==
  /\ \A s \in Seq(Printed) : Say(s) \in CallType /\ Put(s) \in CallType
  /\ Await \in CallType /\ Close \in CallType /\ Clear \in CallType
BY DEF CallType, Say, Put, Await, Close, Clear

LEMMA TextTyped ==
  /\ gVerStr \in Seq(Printed) /\ Newline \in Seq(Printed) /\ Prompt \in Seq(Printed)
  /\ <<"in", "fo">> \in Seq(Printed) /\ <<"err">> \in Seq(Printed)
  /\ <<"d1", "d2", "d3", "d4", "d5">> \in Seq(Printed)
BY DEF gVerStr, Newline, Prompt, Printed

LEMMA CommandTyped == \A cmd : ParseCmd(cmd) \in Seq(CallType)
<1> SUFFICES ASSUME NEW cmd PROVE ParseCmd(cmd) \in Seq(CallType)
  OBVIOUS
<1> DEFINE info == Say(<<"in", "fo">>)
           dump == Put(<<"d1", "d2", "d3", "d4", "d5">>)
           err  == Say(<<"err">>)
<1>1. ParseCmd(cmd) \in {<<>>, <<info>>, <<dump>>, <<Await, Close>>, <<err>>}
  BY DEF ParseCmd
<1>2. info \in CallType /\ dump \in CallType /\ err \in CallType
  BY CallsTyped, TextTyped
<1>3. Await \in CallType /\ Close \in CallType
  BY CallsTyped
<1> HIDE DEF info, dump, err
<1>4. /\ <<>> \in Seq(CallType) /\ <<info>> \in Seq(CallType) /\ <<dump>> \in Seq(CallType)
      /\ <<Await, Close>> \in Seq(CallType) /\ <<err>> \in Seq(CallType)
  BY <1>2, <1>3
<1> QED
  BY <1>1, <1>4, Zenon

LEMMA MainTypes ==
  ASSUME TypeInv, UNCHANGED world, Welcome \/ Command
  PROVE  TypeInv'
<1>1. Stacked(stack) /\ Runs("main") /\ \A f : Become(f) = <<f>>
  <2>1. Runs("main")
    BY DEF Welcome, Command, Runs, Main
  <2> QED
    BY <2>1, MainAlone DEF TypeInv
<1>2. CASE Welcome
  <2> DEFINE todo == <<Say(gVerStr), Say(Newline), Say(Prompt)>>
  <2>1. todo \in Seq(CallType)
    BY CallsTyped, TextTyped
  <2>2. stack' = <<Calls(todo)>> \o <<Main("input")>> \/ stack' = <<>> \o <<Main("input")>>
    BY <1>1, <1>2 DEF Welcome
  <2> HIDE DEF todo
  <2>3. Stacked(stack')
    BY <2>1, <2>2, MainCalls, MainGoesOn
  <2> QED
    BY <1>2, <2>3 DEF Welcome, TypeInv, Data, WireOK, LineTerminated, Terminated, net, line
<1>3. CASE Command
  <2> DEFINE todo == ParseCmd(TheLine) \o <<Clear, Say(Prompt)>>
  <2>1. todo \in Seq(CallType)
    <3> DEFINE p == Say(Prompt)
    <3>1. Clear \in CallType /\ p \in CallType
      BY CallsTyped, TextTyped
    <3>2. ParseCmd(TheLine) \in Seq(CallType)
      BY CommandTyped
    <3> HIDE DEF p
    <3>3. <<Clear, p>> \in Seq(CallType)
      BY <3>1
    <3> QED
      BY <3>2, <3>3 DEF p
  <2>2. stack' = <<Calls(todo)>> \o <<Main("poll")>> \/ stack' = <<>> \o <<Main("poll")>>
    BY <1>1, <1>3 DEF Command
  <2> HIDE DEF todo
  <2>3. Stacked(stack')
    BY <2>1, <2>2, MainCalls, MainGoesOn
  <2> QED
    BY <1>3, <2>3 DEF Command, TypeInv, Data, WireOK, LineTerminated, Terminated, net
<1> QED
  BY <1>2, <1>3

(* One call after the other.                                                *)
LEMMA RestTyped ==
  ASSUME TypeInv, Runs("calls"), Top.todo # <<>>
  PROVE  /\ Head(Top.todo) \in CallType /\ Top.todo \in Seq(CallType)
         /\ Tail(Top.todo) \in Seq(CallType)
         /\ Calls(Tail(Top.todo)) \in Frame /\ Calls(Tail(Top.todo)).op = "calls"
         /\ Stacked(Rest)
<1>1. Top.todo \in Seq(CallType) /\ Top.op = "calls"
  BY TopHas, FrameHas DEF TypeInv, Runs
<1>2. Head(Top.todo) \in CallType /\ Tail(Top.todo) \in Seq(CallType)
  BY <1>1, TailHas
<1>3. Calls(Tail(Top.todo)) \in Frame /\ Calls(Tail(Top.todo)).op = "calls"
  BY <1>2, MakesFrame
<1> QED
  BY <1>1, <1>2, <1>3, GoesOn DEF Rest, TypeInv

LEMMA CallTypes ==
  ASSUME TypeInv, UNCHANGED world, CallPrintf \/ CallPuts \/ CallWait \/ CallClose \/ CallClear
  PROVE  TypeInv'
<1>1. /\ Runs("calls") /\ Top.todo # <<>> /\ Stacked(Rest) /\ Rest \in Seq(Frame)
      /\ Head(Top.todo).s \in Seq(Printed)
  <2>1. Runs("calls") /\ Top.todo # <<>>
    BY DEF CallPrintf, CallPuts, CallWait, CallClose, CallClear, Calling
  <2> QED
    BY <2>1, RestTyped DEF CallType, Stacked
<1>2. CASE CallPrintf
  <2>1. Callable(Printf(Head(Top.todo).s))
    BY <1>1, MakesFrame DEF Callable
  <2>2. Stacked(<<Printf(Head(Top.todo).s)>> \o Rest)
    BY <1>1, <2>1, Enters
  <2>3. stack' = NetWaitBufEmpty(gShellCon, gShellPrint) \o (<<Printf(Head(Top.todo).s)>> \o Rest)
    BY <1>1, <1>2, <2>1, WaitsAbove DEF CallPrintf, Callable
  <2>4. Stacked(stack')
    BY <2>2, <2>3, WaitsStacked
  <2> QED
    BY <1>2, <2>4 DEF CallPrintf, TypeInv, Data, WireOK, LineTerminated, Terminated, net, line
<1>3. CASE CallPuts
  <2>1. gShellPrint.Len \in Nat
    BY DEF TypeInv, Data, PrintType
  <2>2. Callable(Puts(Head(Top.todo).s, gShellPrint.Len))
    BY <1>1, <2>1, MakesFrame DEF Callable
  <2>3. Stacked(stack')
    BY <1>1, <1>3, <2>2, Enters, ZenonT(60) DEF CallPuts
  <2> QED
    BY <1>3, <2>3 DEF CallPuts, TypeInv, Data, WireOK, LineTerminated, Terminated, net, line
<1>4. CASE CallWait
  <2>1. Stacked(stack')
    BY <1>1, <1>4, WaitsStacked DEF CallWait
  <2> QED
    BY <1>4, <2>1 DEF CallWait, TypeInv, Data, WireOK, LineTerminated, Terminated, net, line
<1>5. CASE CallClose
  <2>1. Stacked(stack')
    BY <1>1, <1>5 DEF CallClose
  <2>2. pcb' \in [Conns -> {"free", "open", "peer_closed", "closed"}]
    BY <1>5 DEF CallClose, TypeInv, Data
  <2>3. WireOK(wire)'
    BY <1>5 DEF CallClose, TypeInv, Data, WireOK
  <2> QED
    BY <1>5, <2>1, <2>2, <2>3 DEF CallClose, TypeInv, Data, LineTerminated, Terminated, line
<1>6. CASE CallClear
  <2>1. Stacked(stack') /\ 0 \in RxIdx
    BY <1>1, <1>6, ShellAssumption DEF CallClear, RxIdx
  <2> QED
    BY <1>6, <2>1 DEF CallClear, TypeInv, Data, WireOK, LineTerminated, Terminated, net
<1> QED
  BY <1>2, <1>3, <1>4, <1>5, <1>6

LEMMA InitTypes == Init => TypeInv
<1> SUFFICES ASSUME Init PROVE TypeInv
  OBVIOUS
<1>1. Stacked(stack)
  BY MainGoesOn DEF Init
<1>2. Empty \in PrintType
  BY ShellAssumption DEF Empty, PrintType, Printed
<1>3. 0 \in RxIdx
  BY ShellAssumption DEF RxIdx
<1>4. WireOK(wire)
  BY ShellAssumption DEF Init, WireOK
<1> QED
  BY <1>1, <1>2, <1>3, <1>4 DEF Init, TypeInv, Data, LineTerminated

(* The actions, by name.                                                    *)
LEMMA NextIs ==
  ASSUME Next
  PROVE  \/ PollNothing
         \/ \E c \in Conns : \/ ShellAccept(c) \/ ShellRecvClosed(c) \/ CloseDone(c) \/ ShellError(c)
                             \/ \E p \in Pbufs : ShellRecv(c, p)
                             \/ \E n \in Nat, ok \in BOOLEAN : ShellSent(c, n, ok)
                                                        /\ ok \in MayFindMemory
                             \/ \E ok \in BOOLEAN : ShellPoll(c, ok) /\ ok \in MayFindMemory
         \/ \E ok \in BOOLEAN : /\ NetPrintf(ok) \/ NetPutsFlush(ok) \/ NetPutsEnd(ok)
                                /\ ok \in MayFindMemory
         \/ NetPutsCopy
         \/ SkipTelnetCommand \/ BackSpace \/ Enter \/ Character
         \/ WaitDone \/ RecvDone \/ CallsDone
         \/ Welcome \/ Command
         \/ CallPrintf \/ CallPuts \/ CallWait \/ CallClose \/ CallClear
<1>1. MayFindMemory \subseteq BOOLEAN /\ 1 .. TCP_SND_BUF \subseteq Nat
  BY MemoryTyped
<1> QED
  BY <1>1 DEF Next, Step, Acked

LEMMA TypeStep == TypeInv /\ [Next /\ UNCHANGED world]_<<vars, world>> => TypeInv'
<1>1. CASE UNCHANGED <<vars, world>>
  BY <1>1 DEF vars, net, line, TypeInv, Data, WireOK, LineTerminated, Terminated
<1>2. ASSUME TypeInv, Next, UNCHANGED world PROVE TypeInv'
  <2>1. CASE PollNothing
    BY <1>2, <2>1, CallbackTypes
  <2>2. ASSUME NEW c \in Conns,
               ShellAccept(c) \/ ShellRecvClosed(c) \/ CloseDone(c) \/ ShellError(c)
        PROVE  TypeInv'
    BY <1>2, <2>2, CallbackTypes
  <2>3. ASSUME NEW c \in Conns, NEW p \in Pbufs, ShellRecv(c, p) PROVE TypeInv'
    BY <1>2, <2>3, ShellRecvTypes
  <2>4. ASSUME NEW c \in Conns, NEW n \in Nat, NEW ok \in BOOLEAN, ShellSent(c, n, ok)
        PROVE  TypeInv'
    BY <1>2, <2>4, ShellSentTypes
  <2>5. ASSUME NEW c \in Conns, NEW ok \in BOOLEAN, ShellPoll(c, ok) PROVE TypeInv'
    BY <1>2, <2>5, ShellPollTypes
  <2>6. ASSUME NEW ok \in BOOLEAN, NetPrintf(ok) PROVE TypeInv'
    BY <1>2, <2>6, NetPrintfTypes
  <2>7. ASSUME NEW ok \in BOOLEAN, NetPutsFlush(ok) PROVE TypeInv'
    BY <1>2, <2>7, NetPutsFlushTypes
  <2>8. ASSUME NEW ok \in BOOLEAN, NetPutsEnd(ok) PROVE TypeInv'
    BY <1>2, <2>8, NetPutsEndTypes
  <2>9. CASE NetPutsCopy
    BY <1>2, <2>9, NetPutsCopyTypes
  <2>10. CASE SkipTelnetCommand \/ BackSpace \/ Enter \/ Character
    BY <1>2, <2>10, LoopTypes
  <2>11. CASE WaitDone \/ RecvDone \/ CallsDone
    BY <1>2, <2>11, ReturnTypes
  <2>12. CASE Welcome \/ Command
    BY <1>2, <2>12, MainTypes
  <2>13. CASE CallPrintf \/ CallPuts \/ CallWait \/ CallClose \/ CallClear
    BY <1>2, <2>13, CallTypes
  <2> QED
    BY <1>2, <2>1, <2>2, <2>3, <2>4, <2>5, <2>6, <2>7, <2>8, <2>9, <2>10, <2>11, <2>12, <2>13, NextIs
<1> QED
  BY <1>1, <1>2

LEMMA TypeInvIs == TypeInv => TypeOK /\ LineTerminated
<1> SUFFICES ASSUME TypeInv PROVE TypeOK
  BY DEF TypeInv
<1>1. stack \in Seq(FrameType) /\ stack # <<>> /\ stack[Len(stack)].op = "main"
  <2>1. stack \in Seq(Frame) /\ stack # <<>> /\ Len(stack) \in 1 .. Len(stack)
    BY TopHas DEF TypeInv, Stacked
  <2>2. Frame \subseteq FrameType
    BY DEF Frame
  <2> QED
    BY <2>1, <2>2, SeqMonotonic DEF TypeInv, Stacked
<1> QED
  BY <1>1 DEF TypeInv, Data, WireOK, TypeOK, PrintType

LEMMA TypeInvariant == Spec => []TypeInv
BY InitTypes, TypeStep, PTL DEF Spec

(* TypeOK: every variable has its type whatever happens, and the stack      *)
(* ends in main(), because callbacks and commands return in order.          *)
THEOREM TypeCorrect == Spec => []TypeOK
BY TypeInvariant, TypeInvIs, PTL

(* LineTerminated: whatever is typed, erased, typed ahead or reset, the     *)
(* parser is given a line with an end: ShellRecv() writes the NUL at an     *)
(* index within gRxBuf, and nothing to a line that is complete.             *)
THEOREM LinesEnd == Spec => []LineTerminated
BY TypeInvariant, TypeInvIs, PTL

-----------------------------------------------------------------------------
(* The connections of ShellRecv(). *)

LEMMA RecvBelow ==
  ASSUME Stacked(stack), ~Runs("main")
  PROVE  RecvCons(Below) \subseteq RecvCons(stack) /\ Below \in Seq(Frame)
<1>1. PICK t : t = Below
  OBVIOUS
<1>2. /\ Len(t) = Len(stack) - 1 /\ Len(stack) \in Nat /\ Stacked(t)
      /\ \A i \in 1 .. Len(stack) - 1 : t[i] = stack[i + 1]
  BY <1>1, TopHas, Pop DEF Runs, Below
<1>3. ASSUME NEW i \in 1 .. Len(t) PROVE i + 1 \in 1 .. Len(stack) /\ t[i] = stack[i + 1]
  BY <1>2
<1>4. RecvCons(t) \subseteq RecvCons(stack)
  BY <1>3 DEF RecvCons
<1> QED
  BY <1>1, <1>2, <1>4 DEF Stacked

LEMMA RecvAbove ==
  ASSUME NEW s \in Seq(Frame), NEW f \in Frame, NEW C, RecvCons(s) \subseteq C,
         f.op = "recv" => f.con \in C
  PROVE  RecvCons(<<f>> \o s) \subseteq C
<1>1. PICK t : t = <<f>> \o s
  OBVIOUS
<1>2. /\ Len(s) \in Nat /\ Len(t) = Len(s) + 1 /\ t[1] = f
      /\ \A i \in 1 .. Len(s) : t[i + 1] = s[i]
  BY <1>1
<1>3. ASSUME NEW i \in 1 .. Len(t), t[i].op = "recv" PROVE t[i].con \in C
  <2>1. CASE i = 1
    BY <1>2, <1>3, <2>1
  <2>2. CASE i # 1
    <3>1. i - 1 \in 1 .. Len(s) /\ t[i] = s[i - 1]
      BY <1>2, <2>2
    <3> QED
      BY <1>3, <3>1 DEF RecvCons
  <2> QED
    BY <2>1, <2>2
<1> QED
  BY <1>1, <1>3 DEF RecvCons

LEMMA RecvWaits ==
  ASSUME NEW s \in Seq(Frame), NEW con, NEW p
  PROVE  RecvCons(NetWaitBufEmpty(con, p) \o s) \subseteq RecvCons(s)
<1>1. Wait \in Frame /\ Wait.op # "recv"
  BY MakesFrame
<1> QED
  BY <1>1, Waits, RecvAbove

LEMMA RecvPolled ==
  ASSUME Stacked(stack), Polling
  PROVE  RecvCons(Polled) \subseteq RecvCons(stack) /\ Polled \in Seq(Frame)
<1>1. CASE Runs("main")
  <2>1. Polled = <<Main("welcome")>> /\ Main("welcome").op = "main" /\ Main("welcome") \in Frame
    BY <1>1, MainAlone, MakesFrame DEF Polled
  <2>2. Polled[1].op = "main" /\ Len(Polled) = 1 /\ Polled \in Seq(Frame)
    BY <2>1
  <2> QED
    BY <2>2 DEF RecvCons
<1>2. CASE ~Runs("main")
  BY <1>2 DEF Polled, Stacked
<1> QED
  BY <1>1, <1>2

LEMMA RecvBecomes ==
  ASSUME Stacked(stack), NEW f \in Frame,
         f.op = Top.op \/ (Callable(f) /\ Callable(Top)),
         f.op = "recv" => Runs("recv") /\ f.con = Top.con
  PROVE  RecvCons(Become(f)) \subseteq RecvCons(stack) /\ Become(f) \in Seq(Frame)
<1>1. PICK t : t = Become(f)
  OBVIOUS
<1>2. /\ Stacked(t) /\ Len(t) = Len(stack) /\ t[1] = f /\ Len(stack) \in Nat \ {0}
      /\ \A i \in 2 .. Len(stack) : t[i] = stack[i]
  BY <1>1, GoesOn, TopHas DEF Keeps
<1>3. ASSUME NEW i \in 1 .. Len(t), t[i].op = "recv" PROVE t[i].con \in RecvCons(stack)
  <2>1. CASE i = 1
    <3>1. stack[1].op = "recv" /\ t[i].con = stack[1].con /\ 1 \in 1 .. Len(stack)
      BY <1>2, <1>3, <2>1, TopHas DEF Runs
    <3> QED
      BY <3>1 DEF RecvCons
  <2>2. CASE i # 1
    <3>1. i \in 1 .. Len(stack) /\ t[i] = stack[i]
      BY <1>2, <2>2
    <3> QED
      BY <1>3, <3>1 DEF RecvCons
  <2> QED
    BY <2>1, <2>2
<1> QED
  BY <1>1, <1>2, <1>3 DEF RecvCons, Stacked

(* main() and the commands run when no ShellRecv() does.                    *)
LEMMA NoRecv ==
  ASSUME Stacked(stack), Runs("main") \/ Runs("calls")
  PROVE  RecvCons(stack) = {}
<1>1. \A i \in 1 .. Len(stack) : i = 1 \/ i = 2
  <2>1. PICK n : n = Len(stack) /\ n \in {1, 2}
    BY MainAlone, CallsAlone
  <2>2. \A i \in 1 .. n : i = 1 \/ i = 2
    BY <2>1
  <2> QED
    BY <2>1, <2>2
<1>2. \A i \in 1 .. Len(stack) : stack[i].op # "recv"
  BY <1>1, MainAlone, CallsAlone, TopHas DEF Runs
<1> QED
  BY <1>2 DEF RecvCons

(* Only a callback adds a frame of ShellRecv().                             *)
LEMMA RecvStep ==
  ASSUME TypeInv, Next, \A c \in Conns, p \in Pbufs : ~ShellRecv(c, p)
  PROVE  RecvCons(stack') \subseteq RecvCons(stack)
<1> USE DEF TypeInv
<1>1. CASE stack' = Polled /\ Polling
  BY <1>1, RecvPolled
<1>2. CASE stack' = Below /\ ~Runs("main")
  BY <1>2, RecvBelow
<1>3. CASE \E ok \in BOOLEAN : NetPutsFlush(ok)
  <2>1. Top.op = "puts" /\ Top.s \in Seq(Printed)
    BY <1>3, TopHas, FrameHas DEF NetPutsFlush, Runs
  <2>2. Puts(Top.s, 0) \in Frame /\ Puts(Top.s, 0).op = "puts"
    BY <2>1, MakesFrame
  <2>3. RecvCons(Become(Puts(Top.s, 0))) \subseteq RecvCons(stack)
        /\ Become(Puts(Top.s, 0)) \in Seq(Frame)
    BY <2>1, <2>2, RecvBecomes
  <2> QED
    BY <1>3, <2>3, RecvWaits DEF NetPutsFlush
<1>4. CASE \E ok \in BOOLEAN : NetPutsEnd(ok)
  <2>1. ~Runs("main")
    BY <1>4 DEF NetPutsEnd, Runs
  <2> QED
    BY <1>4, <2>1, RecvBelow, RecvWaits DEF NetPutsEnd
<1>5. CASE NetPutsCopy
  <2>1. Top.s \in Seq(Printed) /\ Top.s # <<>> /\ Top.cp \in Nat /\ Top.op = "puts"
    BY <1>5, TopHas, FrameHas DEF NetPutsCopy, Runs
  <2>2. PICK s : s = Tail(Top.s) /\ s \in Seq(Printed)
    BY <2>1, TailHas
  <2>3. Puts(s, Top.cp + 1) \in Frame /\ Puts(s, Top.cp + 1).op = "puts"
    <3>1. Top.cp + 1 \in Nat
      BY <2>1
    <3> QED
      BY <2>2, <3>1, MakesFrame
  <2>4. RecvCons(Become(Puts(s, Top.cp + 1))) \subseteq RecvCons(stack)
    BY <2>1, <2>3, RecvBecomes
  <2> QED
    BY <1>5, <2>2, <2>4 DEF NetPutsCopy
<1>6. CASE SkipTelnetCommand \/ BackSpace \/ Enter \/ Character
  <2>1. Runs("recv") /\ Top.op = "recv" /\ Top.n > 0
    BY <1>6 DEF SkipTelnetCommand, BackSpace, Enter, Character, InLoop, Runs
  <2>2. /\ Stay \in Frame /\ Stay.op = "recv"
        /\ \A k \in Nat : Forward(k) \in Frame /\ Forward(k).op = "recv"
    BY <2>1, LoopFrames
  <2>3. Stay.con = Top.con /\ \A k : Forward(k).con = Top.con
    BY DEF Stay, Forward, Recv
  <2>4. /\ RecvCons(Become(Stay)) \subseteq RecvCons(stack) /\ Become(Stay) \in Seq(Frame)
        /\ \A k \in Nat : RecvCons(Become(Forward(k))) \subseteq RecvCons(stack)
    BY <2>1, <2>2, <2>3, RecvBecomes
  <2>5. CASE BackSpace
    <3>1. Rubout \in Seq(Printed) /\ Beep \in Seq(Printed) /\ gShellPrint.Len \in Nat
      BY DEF Rubout, Beep, Printed, Data, PrintType
    <3>2. \A s \in {Rubout, Beep} : Puts(s, gShellPrint.Len) \in Frame
                                   /\ Puts(s, gShellPrint.Len).op # "recv"
      BY <3>1, MakesFrame
    <3> QED
      BY <2>4, <2>5, <3>2, RecvAbove DEF BackSpace
  <2> QED
    BY <1>6, <2>4, <2>5 DEF SkipTelnetCommand, Enter, Character
<1>7. CASE Welcome \/ Command
  <2>1. Runs("main")
    BY <1>7 DEF Welcome, Command, Runs, Main
  <2>2. ASSUME NEW at \in {"poll", "welcome", "input"}, NEW todo
        PROVE  /\ RecvCons(<<Calls(todo)>> \o <<Main(at)>>) = {}
               /\ RecvCons(<<>> \o <<Main(at)>>) = {}
    <3>1. \A i \in 1 .. 1 : i = 1
      OBVIOUS
    <3>2. \A i \in 1 .. 2 : i = 1 \/ i = 2
      OBVIOUS
    <3> QED
      BY <3>1, <3>2 DEF RecvCons, Calls, Main
  <2>3. \A f : Become(f) = <<f>>
    BY <2>1, MainAlone
  <2> QED
    BY <1>7, <2>2, <2>3 DEF Welcome, Command
<1>8. CASE CallPrintf \/ CallPuts \/ CallWait \/ CallClose \/ CallClear
  <2>1. Runs("calls") /\ Top.todo # <<>>
    BY <1>8 DEF CallPrintf, CallPuts, CallWait, CallClose, CallClear, Calling
  <2>2. /\ Calls(Tail(Top.todo)) \in Frame /\ Calls(Tail(Top.todo)).op = Top.op
        /\ Calls(Tail(Top.todo)).op # "recv"
        /\ Head(Top.todo).s \in Seq(Printed) /\ gShellPrint.Len \in Nat
    BY <2>1, RestTyped DEF Runs, CallType, Data, PrintType
  <2>3. RecvCons(Rest) \subseteq RecvCons(stack) /\ Rest \in Seq(Frame)
    BY <2>2, RecvBecomes DEF Rest
  <2>4. /\ Printf(Head(Top.todo).s) \in Frame /\ Printf(Head(Top.todo).s).op # "recv"
        /\ Puts(Head(Top.todo).s, gShellPrint.Len) \in Frame
        /\ Puts(Head(Top.todo).s, gShellPrint.Len).op # "recv"
    BY <2>2, MakesFrame
  <2>5. CASE CallPrintf
    <3>1. stack' = NetWaitBufEmpty(gShellCon, gShellPrint) \o (<<Printf(Head(Top.todo).s)>> \o Rest)
      BY <2>3, <2>4, <2>5, WaitsAbove DEF CallPrintf
    <3>2. /\ RecvCons(<<Printf(Head(Top.todo).s)>> \o Rest) \subseteq RecvCons(stack)
          /\ <<Printf(Head(Top.todo).s)>> \o Rest \in Seq(Frame)
      <4>1. PICK f : f = Printf(Head(Top.todo).s) /\ f \in Frame /\ f.op # "recv"
        BY <2>4
      <4>2. <<f>> \o Rest \in Seq(Frame)
        BY <2>3, <4>1
      <4>3. RecvCons(<<f>> \o Rest) \subseteq RecvCons(stack)
        BY <2>3, <4>1, RecvAbove
      <4> QED
        BY <4>1, <4>2, <4>3
    <3> QED
      BY <3>1, <3>2, RecvWaits
  <2>6. CASE CallPuts
    BY <2>3, <2>4, <2>6, RecvAbove DEF CallPuts
  <2>7. CASE CallWait
    BY <2>3, <2>7, RecvWaits DEF CallWait
  <2>8. CASE CallClose \/ CallClear
    BY <2>3, <2>8 DEF CallClose, CallClear
  <2> QED
    BY <1>8, <2>5, <2>6, <2>7, <2>8
<1>9. CASE \E ok \in BOOLEAN : NetPrintf(ok)
  BY <1>2, <1>9 DEF NetPrintf, Runs
<1>10. CASE WaitDone \/ RecvDone \/ CallsDone
  BY <1>2, <1>10 DEF WaitDone, RecvDone, CallsDone, Runs
<1>11. CASE PollNothing
  BY <1>1, <1>11 DEF PollNothing, Polling
<1>12. ASSUME NEW c \in Conns,
              \/ ShellAccept(c) \/ ShellRecvClosed(c) \/ CloseDone(c) \/ ShellError(c)
              \/ \E n \in Nat, ok \in BOOLEAN : ShellSent(c, n, ok)
              \/ \E ok \in BOOLEAN : ShellPoll(c, ok)
       PROVE  RecvCons(stack') \subseteq RecvCons(stack)
  BY <1>1, <1>12 DEF ShellAccept, ShellRecvClosed, CloseDone, ShellError, ShellSent, ShellPoll
<1> HIDE DEF TypeInv
<1> QED
  BY <1>3, <1>4, <1>5, <1>6, <1>7, <1>8, <1>9, <1>10, <1>11, <1>12, NextIs

-----------------------------------------------------------------------------
(* No pcb is used after it is free. *)

(* What lwIP does with a pcb that the firmware holds on to.                 *)
HeldCon   == gShellCon # NULL => pcb[gShellCon] = "open"
HeldRecvs == \A c \in RecvCons(stack) : pcb[c] \in {"open", "peer_closed"}

LEMMA HeldStep ==
  ASSUME TypeInv, Held, Next, UNCHANGED world
  PROVE  Held'
<1> SUFFICES ASSUME "reset" \notin world PROVE ~wild' /\ HeldCon' /\ HeldRecvs'
  BY DEF Held, HeldCon, HeldRecvs
<1>1. ~wild /\ HeldCon /\ HeldRecvs
  BY DEF Held, HeldCon, HeldRecvs
<1>2. Data /\ pcb \in [Conns -> {"free", "open", "peer_closed", "closed"}] /\ wild \in BOOLEAN
  BY DEF TypeInv, Data
<1>3. ASSUME NEW c \in Conns, NEW p \in Pbufs, ShellRecv(c, p)
      PROVE  ~wild' /\ HeldCon' /\ HeldRecvs'
  <2>1. RecvCons(Polled) \subseteq RecvCons(stack) \cup {c} /\ Polled \in Seq(Frame)
    BY <1>3, RecvPolled DEF ShellRecv, TypeInv
  <2>2. Recv(c, p, Len(p)) \in Frame /\ Recv(c, p, Len(p)).con = c
    <3>1. p \in Seq(STRING) /\ \A i \in DOMAIN p : p[i] \in Typed
      BY ShellAssumption DEF Typed
    <3>2. p \in Seq(Typed)
      BY <3>1
    <3> QED
      BY <3>2, MakesFrame DEF Recv
  <2>3. RecvCons(stack') \subseteq RecvCons(stack) \cup {c}
    BY <1>3, <2>1, <2>2, RecvAbove DEF ShellRecv
  <2> QED
    BY <1>1, <1>3, <2>3 DEF ShellRecv, net, HeldCon, HeldRecvs
<1>4. ASSUME \A c \in Conns, p \in Pbufs : ~ShellRecv(c, p)
      PROVE  ~wild' /\ HeldCon' /\ HeldRecvs'
  <2>1. RecvCons(stack') \subseteq RecvCons(stack)
    BY <1>4, RecvStep
  <2>2. ASSUME NEW c \in Conns,
               ShellAccept(c) \/ ShellRecvClosed(c) \/ CloseDone(c) \/ ShellError(c)
        PROVE  ~wild' /\ HeldCon' /\ HeldRecvs'
    <3>1. ~wild' /\ HeldCon'
      BY <1>1, <1>2, <2>2, ShellAssumption
         DEF ShellAccept, ShellRecvClosed, CloseDone, ShellError, HeldCon, Data
    <3>2. \A d \in RecvCons(stack) : d \in Conns /\ pcb'[d] \in {"open", "peer_closed"}
      <4>1. RecvCons(stack) \subseteq Conns
        BY TopHas, FrameHas DEF RecvCons, TypeInv, Stacked
      <4> QED
        BY <1>1, <1>2, <2>2, <4>1
           DEF ShellAccept, ShellRecvClosed, CloseDone, ShellError, HeldRecvs
    <3> QED
      BY <2>1, <3>1, <3>2 DEF HeldRecvs
  <2>3. ASSUME NEW c \in Conns, NEW n \in Nat, NEW ok \in BOOLEAN, ShellSent(c, n, ok)
        PROVE  ~wild' /\ HeldCon' /\ HeldRecvs'
    <3>1. pcb[c] # "free"
      BY <2>3 DEF ShellSent, Data, WireOK, TypeInv
    <3>2. ~wild'
      BY <1>1, <2>3, <3>1 DEF ShellSent, NetPrintFillPcb
    <3> QED
      BY <1>1, <2>1, <2>3, <3>2 DEF ShellSent, HeldCon, HeldRecvs
  <2>4. ASSUME NEW c \in Conns, NEW ok \in BOOLEAN, ShellPoll(c, ok)
        PROVE  ~wild' /\ HeldCon' /\ HeldRecvs'
    <3>1. ~wild'
      BY <1>1, <2>4 DEF ShellPoll, NetPrintFillPcb
    <3> QED
      BY <1>1, <2>1, <2>4, <3>1 DEF ShellPoll, HeldCon, HeldRecvs
  <2>5. ASSUME NEW ok \in BOOLEAN, NetPrintf(ok) \/ NetPutsFlush(ok) \/ NetPutsEnd(ok)
        PROVE  ~wild' /\ HeldCon' /\ HeldRecvs'
    <3>1. ~wild'
      BY <1>1, <2>5 DEF NetPrintf, NetPutsFlush, NetPutsEnd, NetPrintFillPcb, HeldCon
    <3> QED
      BY <1>1, <2>1, <2>5, <3>1 DEF NetPrintf, NetPutsFlush, NetPutsEnd, HeldCon, HeldRecvs
  <2>6. CASE RecvDone
    <3>1. Top.con \in RecvCons(stack)
      <4>1. 1 \in 1 .. Len(stack) /\ stack[1].op = "recv" /\ Top = stack[1]
        BY <2>6, TopHas DEF RecvDone, Runs, TypeInv
      <4> QED
        BY <4>1 DEF RecvCons
    <3>2. pcb[Top.con] \in {"open", "peer_closed"}
      BY <1>1, <3>1 DEF HeldRecvs
    <3> QED
      BY <1>1, <2>1, <2>6, <3>2 DEF RecvDone, HeldCon, HeldRecvs
  <2>7. CASE CallClose
    <3>1. RecvCons(stack) = {}
      BY <2>7, NoRecv DEF CallClose, Calling, TypeInv
    <3> QED
      BY <1>1, <2>1, <2>7, <3>1 DEF CallClose, HeldCon, HeldRecvs
  <2>8. CASE UNCHANGED <<net, gShellCon>>
    BY <1>1, <2>1, <2>8 DEF net, HeldCon, HeldRecvs
  <2>9. CASE \/ PollNothing \/ NetPutsCopy \/ SkipTelnetCommand \/ BackSpace \/ Enter \/ Character
             \/ WaitDone \/ CallsDone \/ Welcome \/ Command
             \/ CallPrintf \/ CallPuts \/ CallWait \/ CallClear
    BY <2>8, <2>9 DEF PollNothing, NetPutsCopy, SkipTelnetCommand, BackSpace, Enter, Character,
         WaitDone, CallsDone, Welcome, Command, CallPrintf, CallPuts, CallWait, CallClear
  <2> QED
    BY <1>4, <2>2, <2>3, <2>4, <2>5, <2>6, <2>7, <2>9, NextIs
<1> QED
  BY <1>3, <1>4

LEMMA HeldStutters == Held /\ UNCHANGED <<vars, world>> => Held'
BY DEF vars, net, Held

LEMMA HeldInit == Init => Held
<1> SUFFICES ASSUME Init PROVE Held
  OBVIOUS
<1>1. RecvCons(stack) = {}
  <2>1. Runs("main") /\ Stacked(stack)
    BY InitTypes DEF Init, Runs, Top, Main, TypeInv
  <2> QED
    BY <2>1, NoRecv
<1> QED
  BY <1>1 DEF Init, Held

LEMMA HeldInvariant == Spec => []Held
<1>1. TypeInv /\ Held /\ [Next /\ UNCHANGED world]_<<vars, world>> => Held'
  BY HeldStep, HeldStutters
<1> QED
  BY <1>1, HeldInit, TypeInvariant, PTL DEF Spec

(* NeverWild for any number of connections: as long as none is reset, what  *)
(* the firmware prints to, and what it reads from when the end of the pbuf  *)
(* is reached, is a pcb that lwIP has not freed, because ShellRecv() is     *)
(* never under way when exit closes the connection.                         *)
THEOREM NoPcbAfterFree == Spec => []NeverWild
<1>1. Held => NeverWild
  BY DEF Held, NeverWild
<1> QED
  BY <1>1, HeldInvariant, PTL

-----------------------------------------------------------------------------
(* The print buffer and the wire. *)

LEMMA SliceIs ==
  ASSUME NEW p \in PrintType, NEW from \in Nat, NEW to \in Nat, from <= to
  PROVE  /\ Slice(p, from, to) \in Seq(Printed) /\ Len(Slice(p, from, to)) = to - from
         /\ \A k \in 1 .. to - from : Slice(p, from, to)[k] = ByteAt(p, from + k - 1)
<1> DEFINE n == to - from
<1>1. \A k \in 1 .. n : ByteAt(p, from + k - 1) \in Printed
  BY ByteTyped
<1>2. n \in Nat
  OBVIOUS
<1> HIDE DEF n
<1>3. /\ [k \in 1 .. n |-> ByteAt(p, from + k - 1)] \in Seq(Printed)
      /\ Len([k \in 1 .. n |-> ByteAt(p, from + k - 1)]) = n
  BY <1>1, <1>2
<1> QED
  BY <1>3 DEF Slice, n

(* What is on the wire depends on the bytes of the buffer only.             *)
LEMMA SliceSame ==
  ASSUME NEW p, NEW q, p.PrintBuf = q.PrintBuf, NEW from, NEW to
  PROVE  Slice(p, from, to) = Slice(q, from, to)
BY DEF Slice, ByteAt

LEMMA SliceNone == ASSUME NEW p, NEW i \in Nat PROVE Slice(p, i, i) = <<>>
BY DEF Slice

(* An acknowledgement takes the first bytes.                                *)
LEMMA SliceRest ==
  ASSUME NEW p \in PrintType, NEW from \in Nat, NEW to \in Nat, NEW n \in 1 .. to - from
  PROVE  SubSeq(Slice(p, from, to), n + 1, Len(Slice(p, from, to))) = Slice(p, from + n, to)
<1>1. from <= to /\ from + n \in Nat /\ from + n <= to
  OBVIOUS
<1>2. PICK s : s = Slice(p, from, to)
  OBVIOUS
<1>3. PICK t : t = Slice(p, from + n, to)
  OBVIOUS
<1>4. /\ s \in Seq(Printed) /\ Len(s) = to - from
      /\ \A k \in 1 .. to - from : s[k] = ByteAt(p, from + k - 1)
  BY <1>1, <1>2, SliceIs
<1>5. /\ t \in Seq(Printed) /\ Len(t) = to - (from + n)
      /\ \A k \in 1 .. to - (from + n) : t[k] = ByteAt(p, (from + n) + k - 1)
  BY <1>1, <1>3, SliceIs
<1>6. PICK r : r = SubSeq(s, n + 1, Len(s)) /\ r \in Seq(Printed) /\ Len(r) = Len(s) - n
               /\ \A k \in 1 .. Len(s) - n : r[k] = s[n + k]
  <2>1. n \in 1 .. Len(s)
    BY <1>4
  <2>2. /\ SubSeq(s, n + 1, Len(s)) \in Seq(Printed) /\ Len(SubSeq(s, n + 1, Len(s))) = Len(s) - n
        /\ \A k \in 1 .. Len(s) - n : SubSeq(s, n + 1, Len(s))[k] = s[n + k]
    BY ONLY <1>4, <2>1, RestHas
  <2> QED
    BY <2>2, Zenon
<1>7. Len(r) = Len(t)
  BY <1>4, <1>5, <1>6
<1>8. ASSUME NEW k \in 1 .. Len(r) PROVE r[k] = t[k]
  <2>1. n + k \in 1 .. to - from /\ from + (n + k) - 1 = (from + n) + k - 1
        /\ k \in 1 .. Len(s) - n /\ k \in 1 .. to - (from + n)
    BY <1>4, <1>6
  <2> QED
    BY <1>4, <1>5, <1>6, <2>1
<1>9. r = t
  BY <1>5, <1>6, <1>7, <1>8, SeqEqual
<1> QED
  BY <1>2, <1>3, <1>6, <1>9

(* tcp_write() takes the whole buffer, if it finds memory, or there is      *)
(* nothing to write.                                                        *)
LEMMA FillAll ==
  ASSUME Data, NEW con \in Conns, pcb[con] = "open", NEW p \in PrintType, NEW w, WireOK(w),
         BufferOK(p, w, con), NEW ok \in BOOLEAN, NetPrintFillPcb(p, w, con, ok)
  PROVE  /\ BufferOK(gShellPrint', wire', con)
         /\ gShellPrint'.Len = p.Len /\ gShellPrint'.BytesSent = p.BytesSent
         /\ ok => gShellPrint'.BytesQueued = p.Len
         /\ gShellPrint'.BytesQueued \in {p.BytesQueued, p.Len}
         /\ \A c \in Conns \ {con} : wire'[c] = w[c]
<1>1. con # NULL
  BY ShellAssumption
<1>2. CASE ~(p.Len > p.BytesQueued /\ ok)
  <2>1. gShellPrint' = p /\ wire' = w
    BY <1>2 DEF NetPrintFillPcb
  <2>2. ok => p.BytesQueued = p.Len
    BY <1>2 DEF BufferOK, PrintType
  <2> QED
    BY <2>1, <2>2
<1>3. CASE p.Len > p.BytesQueued /\ ok
  <2>1. p.BytesQueued = 0 /\ p.BytesSent = 0 /\ p.Len \in Nat /\ p.Len <= NET_PRINT_BUF_LEN
    BY <1>3 DEF BufferOK, PrintType
  <2>2. w[con] = <<>>
    BY <2>1, SliceNone DEF BufferOK
  <2>3. Byte2Write(p, w, con) = p.Len
    BY <2>1, <2>2, ShellAssumption DEF Byte2Write, CanSend
  <2>4. Written(p, w, con) = Slice(p, 0, p.Len)
    BY <2>1, <2>3 DEF Written, Slice
  <2>5. Slice(p, 0, p.Len) \in Seq(Printed)
    <3>1. 0 \in Nat /\ p.Len \in Nat /\ 0 <= p.Len
      BY <2>1
    <3> QED
      BY ONLY <3>1, p \in PrintType, ShellAssumption, SliceIs
  <2>6. /\ gShellPrint' = [p EXCEPT !.BytesQueued = p.BytesQueued + Byte2Write(p, w, con)]
        /\ wire' = [w EXCEPT ![con] = w[con] \o Written(p, w, con)]
    BY <1>1, <1>3 DEF NetPrintFillPcb
  <2>7. /\ gShellPrint'.BytesQueued = p.Len /\ gShellPrint'.BytesSent = 0
        /\ gShellPrint'.Len = p.Len /\ gShellPrint'.PrintBuf = p.PrintBuf
    BY <2>1, <2>3, <2>6 DEF PrintType
  <2>8. wire'[con] = Slice(gShellPrint', 0, p.Len) /\ \A c \in Conns \ {con} : wire'[c] = w[c]
    <3>1. PICK t : t = Slice(p, 0, p.Len) /\ t \in Seq(Printed)
      BY <2>5
    <3>2. wire' = [w EXCEPT ![con] = t]
      BY <2>2, <2>4, <2>6, <3>1
    <3>3. wire'[con] = t /\ \A c \in Conns \ {con} : wire'[c] = w[c]
      BY <3>2 DEF WireOK
    <3> QED
      BY <2>7, <3>1, <3>3, SliceSame
  <2> QED
    BY <1>3, <2>1, <2>7, <2>8 DEF BufferOK
<1> QED
  BY <1>2, <1>3

-----------------------------------------------------------------------------
(* One connection at a time. *)

LEMMA TameWorld ==
  ASSUME Tame
  PROVE  /\ world \cap {"reset", "second", "erase", "ahead"} = {}
         /\ "nomem" \in world => "again" \notin world
BY DEF Tame

TameParts == OneCon /\ Buffered /\ Told

LEMMA MayFind == ASSUME NEW ok \in MayFindMemory PROVE ok \/ "nomem" \in world
BY DEF MayFindMemory

(* A poll brings nothing while something is copied to the buffer.           *)
LEMMA PollingTop ==
  ASSUME TypeInv, Polling
  PROVE  stack[1] = Main("poll") \/ stack[1].op = "wait"
BY TopHas DEF TypeInv, Polling, Runs

LEMMA EmptyOK ==
  ASSUME NEW w, NEW con, w[con] = <<>>
  PROVE  Empty \in PrintType /\ BufferOK(Empty, w, con)
<1>1. Empty \in PrintType
  BY ShellAssumption DEF Empty, PrintType, Printed
<1>2. Empty.Len = 0 /\ Empty.BytesQueued = 0 /\ Empty.BytesSent = 0
  BY DEF Empty
<1> QED
  BY <1>1, <1>2, SliceNone, ShellAssumption DEF BufferOK

(* Steps that leave the connections and the buffer alone.                   *)
LEMMA AloneStep ==
  ASSUME TypeInv, TameParts, UNCHANGED <<world, pcb, wire, gShellCon, gShellPrint>>,
         stack[1].op # "puts"
  PROVE  OneCon' /\ Buffered'
<1>1. OneCon'
  BY DEF TameParts, OneCon, Live
<1>2. Buffered'
  BY DEF TameParts, Buffered, BufferOK, Live, Slice, ByteAt
<1> QED
  BY <1>1, <1>2

LEMMA AcceptStep ==
  ASSUME TypeInv, Tame, TameParts, UNCHANGED world, NEW c \in Conns, ShellAccept(c)
  PROVE  OneCon' /\ Buffered'
<1>1. Alone /\ ("nomem" \in world => \A d \in Conns : pcb[d] = "free")
  BY TameWorld DEF ShellAccept, MayConnect
<1>2. OneCon'
  BY <1>1 DEF ShellAccept, OneCon, Live, Alone, TypeInv, Data
<1>3. BufferOK(Empty, wire', c)
  <2>1. wire'[c] = <<>>
    BY <1>1 DEF ShellAccept, Alone
  <2> QED
    BY <2>1, EmptyOK
<1>4. Empty.BytesQueued = Empty.Len
  BY DEF Empty
<1> QED
  BY <1>2, <1>3, <1>4 DEF ShellAccept, Buffered, BufferOK, Slice, ByteAt

(* The connection is given up: nothing is open.                             *)
LEMMA LeaveStep ==
  ASSUME TypeInv, Tame, TameParts, UNCHANGED world,
         CallClose \/ \E c \in Conns : ShellRecvClosed(c)
  PROVE  OneCon' /\ Buffered'
<1>1. gShellCon' = NULL
  BY DEF CallClose, ShellRecvClosed
<1>2. \A c \in Conns : pcb'[c] # "open"
  <2>1. CASE CallClose
    BY <2>1, ShellAssumption DEF CallClose, TypeInv, Data, TameParts, OneCon, Live
  <2>2. ASSUME NEW c \in Conns, ShellRecvClosed(c) PROVE \A d \in Conns : pcb'[d] # "open"
    BY <2>2 DEF ShellRecvClosed, TypeInv, Data, TameParts, OneCon
  <2> QED
    BY <2>1, <2>2
<1> QED
  BY <1>1, <1>2 DEF OneCon, Buffered, Live

LEMMA EndsStep ==
  ASSUME TypeInv, Tame, TameParts, UNCHANGED world, NEW c \in Conns, CloseDone(c)
  PROVE  OneCon' /\ Buffered'
<1>1. OneCon'
  BY DEF CloseDone, TypeInv, Data, TameParts, OneCon, Live
<1>2. stack[1].op # "puts"
  BY PollingTop DEF CloseDone, Main
<1>3. Buffered'
  BY <1>2 DEF CloseDone, TameParts, Buffered, BufferOK, Live, Slice, ByteAt
<1> QED
  BY <1>1, <1>3

(* What is handed to lwIP for the connection that is printed to.            *)
LEMMA FillStep ==
  ASSUME TypeInv, OneCon, Live, UNCHANGED <<world, pcb, gShellCon>>, NEW p \in PrintType,
         NEW w, WireOK(w), \A c \in Conns \ {gShellCon} : w[c] = wire[c],
         BufferOK(p, w, gShellCon), NEW ok \in BOOLEAN, ok \/ "nomem" \in world,
         NetPrintFillPcb(p, w, gShellCon, ok)
  PROVE  /\ OneCon' /\ Buffered'
         /\ gShellPrint'.Len = p.Len /\ gShellPrint'.BytesSent = p.BytesSent
<1>1. gShellCon \in Conns /\ pcb[gShellCon] = "open"
  BY DEF TypeInv, Data, OneCon, Live
<1>2. /\ BufferOK(gShellPrint', wire', gShellCon)
      /\ gShellPrint'.Len = p.Len /\ gShellPrint'.BytesSent = p.BytesSent
      /\ ok => gShellPrint'.BytesQueued = p.Len
      /\ \A c \in Conns \ {gShellCon} : wire'[c] = w[c]
  BY <1>1, FillAll DEF TypeInv
<1>3. OneCon'
  BY <1>2 DEF OneCon, Live
<1>4. Buffered'
  BY <1>2 DEF Buffered, BufferOK, Slice, ByteAt
<1> QED
  BY <1>2, <1>3, <1>4

(* Without a connection nothing of it matters.                              *)
LEMMA NobodyStep ==
  ASSUME TypeInv, OneCon, ~Live, UNCHANGED <<world, pcb, gShellCon>>
  PROVE  OneCon' /\ Buffered'
BY DEF OneCon, Buffered, Live

(* What the peer acknowledges is what was queued first.                     *)
LEMMA SentStep ==
  ASSUME TypeInv, Tame, TameParts, UNCHANGED world, NEW c \in Conns, NEW n \in Nat,
         NEW ok \in BOOLEAN, ok \/ "nomem" \in world, ShellSent(c, n, ok)
  PROVE  OneCon' /\ Buffered'
<1> DEFINE acked == [wire EXCEPT ![c] = SubSeq(@, n + 1, Len(@))]
           p     == [gShellPrint EXCEPT !.BytesSent = @ + n]
<1>1. n \in 1 .. Len(wire[c]) /\ wire \in [Conns -> Seq(Printed)] /\ UNCHANGED <<pcb, gShellCon>>
  BY DEF ShellSent, TypeInv, Data, WireOK
<1>2. CASE ~Live
  BY <1>1, <1>2, NobodyStep DEF TameParts
<1>3. CASE Live
  <2>1. c = gShellCon /\ BufferOK(gShellPrint, wire, c) /\ pcb[c] = "open"
    <3>1. Len(<<>>) = 0
      OBVIOUS
    <3> QED
      BY <1>1, <1>3, <3>1 DEF TameParts, OneCon, Buffered
  <2>2. PICK q \in PrintType : q = gShellPrint
    BY DEF TypeInv, Data
  <2>3. /\ q.Len \in Nat /\ q.BytesQueued \in Nat /\ q.BytesSent \in Nat
        /\ q.BytesSent <= q.BytesQueued
        /\ wire[c] = Slice(q, q.BytesSent, q.BytesQueued)
    BY <2>1, <2>2 DEF PrintType, BufferOK
  <2>4. Len(wire[c]) = q.BytesQueued - q.BytesSent
    <3> HIDE DEF acked, p
    <3>1. PICK a \in Nat : a = q.BytesSent
      BY <2>3
    <3>2. PICK b \in Nat : b = q.BytesQueued
      BY <2>3
    <3>3. a <= b /\ wire[c] = Slice(q, a, b)
      BY <2>3, <3>1, <3>2
    <3>4. Len(Slice(q, a, b)) = b - a
      BY <3>3, SliceIs
    <3>5. Len(wire[c]) = b - a
      BY <3>3, <3>4, Zenon
    <3> QED
      BY <3>1, <3>2, <3>5, Zenon
  <2>5. q.BytesQueued = q.Len /\ q.Len > 0 /\ n \in 1 .. q.Len - q.BytesSent
        /\ q.Len <= NET_PRINT_BUF_LEN
    BY <1>1, <2>1, <2>2, <2>3, <2>4 DEF BufferOK
  <2>6. /\ acked \in [Conns -> Seq(Printed)] /\ WireOK(acked)
        /\ acked[c] = Slice(q, q.BytesSent + n, q.Len)
        /\ \A d \in Conns \ {c} : acked[d] = wire[d]
    <3>1. PICK r : r = Slice(q, q.BytesSent + n, q.Len)
      OBVIOUS
    <3>2. SubSeq(wire[c], n + 1, Len(wire[c])) = r
      BY <2>3, <2>5, <3>1, SliceRest, SMTT(90)
    <3>3. r \in Seq(Printed) /\ Len(r) = q.Len - (q.BytesSent + n)
      <4>1. q.BytesSent + n \in Nat /\ q.BytesSent + n <= q.Len
        BY <2>3, <2>5
      <4> QED
        BY <2>3, <3>1, <4>1, SliceIs
    <3>4. Len(r) <= Len(wire[c])
      BY <2>3, <2>4, <2>5, <3>3
    <3>5. acked = [wire EXCEPT ![c] = r]
      BY <3>2
    <3> HIDE DEF acked
    <3>6. WireOK(wire) /\ Len(wire[c]) \in Nat /\ Len(r) \in Nat
      BY <1>1, <3>3 DEF TypeInv, Data
    <3>7. acked[c] = r /\ \A d \in Conns \ {c} : acked[d] = wire[d]
      BY <1>1, <3>5
    <3>8. WireOK(acked)
      BY <1>1, <2>1, <3>3, <3>4, <3>5, <3>6, ShellAssumption DEF WireOK
    <3> QED
      BY <1>1, <3>1, <3>7, <3>8 DEF WireOK
  <2>7. /\ p \in PrintType /\ p.Len = q.Len /\ p.BytesQueued = q.Len /\ p.PrintBuf = q.PrintBuf
        /\ p.BytesSent = q.BytesSent + n
    BY <2>2, <2>5 DEF PrintType
  <2>8. /\ IF p.BytesSent = p.Len
           THEN gShellPrint' = Empty /\ wire' = acked
           ELSE NetPrintFillPcb(p, acked, c, ok)
    BY DEF ShellSent
  <2>9. c # NULL /\ gShellCon' = c
    BY <1>1, <2>1, ShellAssumption
  <2> HIDE DEF p, acked
  <2>10. CASE p.BytesSent = p.Len
    <3>1. acked[c] = <<>>
      BY <2>3, <2>6, <2>7, <2>10, SliceNone
    <3>2. BufferOK(Empty, acked, c) /\ Empty.BytesQueued = Empty.Len
      BY <3>1, EmptyOK DEF Empty
    <3>3. Buffered'
      BY <2>1, <2>8, <2>10, <2>9, <3>2 DEF Buffered, BufferOK, Slice, ByteAt
    <3>4. OneCon'
      BY <1>1, <2>1, <2>6, <2>8, <2>10 DEF TameParts, OneCon, Live
    <3> QED
      BY <3>3, <3>4
  <2>11. CASE p.BytesSent # p.Len
    <3>1. BufferOK(p, acked, c)
      <4>1. acked[c] = Slice(p, p.BytesSent, p.BytesQueued)
        BY <2>6, <2>7, SliceSame
      <4> QED
        BY <2>3, <2>5, <2>7, <2>11, <4>1 DEF BufferOK
    <3> QED
      BY <1>1, <1>3, <2>1, <2>6, <2>7, <2>8, <2>11, <3>1, FillStep DEF TameParts
  <2> QED
    BY <2>10, <2>11
<1> QED
  BY <1>2, <1>3

(* lwIP's timer finds nothing to queue for another pcb.                     *)
LEMMA PollStep ==
  ASSUME TypeInv, Tame, TameParts, UNCHANGED world, NEW c \in Conns,
         NEW ok \in BOOLEAN, ok \/ "nomem" \in world, ShellPoll(c, ok)
  PROVE  OneCon' /\ Buffered'
<1>1. UNCHANGED <<pcb, gShellCon>> /\ pcb[c] # "free" /\ NetPrintFillPcb(gShellPrint, wire, c, ok)
  BY DEF ShellPoll
<1>2. CASE ~Live
  BY <1>1, <1>2, NobodyStep DEF TameParts
<1>3. CASE Live /\ c = gShellCon
  <2>1. gShellPrint \in PrintType /\ WireOK(wire) /\ BufferOK(gShellPrint, wire, gShellCon)
    BY <1>3 DEF TypeInv, Data, TameParts, Buffered
  <2> QED
    BY <1>1, <1>3, <2>1, FillStep DEF TameParts
<1>4. CASE Live /\ c # gShellCon
  <2>1. "nomem" \notin world /\ stack[1].op # "puts"
    BY <1>1, <1>4, PollingTop DEF TameParts, OneCon, ShellPoll, Main
  <2>2. gShellPrint.BytesQueued = gShellPrint.Len /\ gShellPrint.Len \in Nat
    BY <1>4, <2>1 DEF TameParts, Buffered, TypeInv, Data, PrintType
  <2>3. UNCHANGED <<gShellPrint, wire>>
    BY <1>1, <2>2 DEF NetPrintFillPcb
  <2> QED
    BY <1>1, <2>1, <2>3, AloneStep
<1> QED
  BY <1>2, <1>3, <1>4

(* NetPrintf() finds an empty buffer, and fills it.                         *)
LEMMA PrintfStep ==
  ASSUME TypeInv, Tame, TameParts, UNCHANGED world,
         NEW ok \in BOOLEAN, ok \/ "nomem" \in world, NetPrintf(ok)
  PROVE  OneCon' /\ Buffered'
<1>1. UNCHANGED <<pcb, gShellCon>> /\ stack[1].op = "printf"
  BY TopHas DEF NetPrintf, TypeInv, Runs
<1>2. CASE ~Live
  BY <1>1, <1>2, NobodyStep DEF TameParts
<1>3. CASE Live
  <2>1. PICK p \in PrintType : /\ NetPrintFillPcb(p, wire, gShellCon, ok)
                               /\ p.Len = Len(Top.s)
                               /\ p.BytesQueued = gShellPrint.BytesQueued
                               /\ p.BytesSent = gShellPrint.BytesSent
    BY PrintfTakes
  <2>2. Len(Top.s) <= 2
    <3>1. 1 \in 1 .. Len(stack) /\ Top = stack[1]
      BY TopHas DEF TypeInv
    <3> QED
      BY <1>1, <3>1 DEF TameParts, Told, TameFrames, TameFrame
  <2>3. gShellPrint.Len = 0 /\ BufferOK(gShellPrint, wire, gShellCon)
    BY <1>1, <1>3 DEF TameParts, Told, Ready, Fresh, Buffered
  <2>4. gShellPrint.BytesQueued = 0 /\ gShellPrint.BytesSent = 0
    BY <2>3 DEF BufferOK, TypeInv, Data, PrintType
  <2>5. wire[gShellCon] = <<>>
    BY <2>3, <2>4, SliceNone DEF BufferOK
  <2>6. BufferOK(p, wire, gShellCon)
    BY <2>1, <2>2, <2>4, <2>5, SliceNone, ShellAssumption DEF BufferOK, PrintType
  <2>7. WireOK(wire)
    BY DEF TypeInv, Data
  <2> QED
    BY <1>1, <1>3, <2>1, <2>6, <2>7, FillStep DEF TameParts
<1> QED
  BY <1>2, <1>3

(* NetPuts() copies to a buffer of which nothing has been handed to lwIP.   *)
LEMMA CopyStep ==
  ASSUME TypeInv, TypeInv', Tame, TameParts, UNCHANGED world, NetPutsCopy
  PROVE  OneCon' /\ Buffered'
<1>1. UNCHANGED <<pcb, wire, gShellCon>> /\ stack[1].op = "puts" /\ Live
  BY TopHas DEF NetPutsCopy, TypeInv, Runs, net, Live
<1>2. stack'[1].op = "puts"
  <2>1. Below \in Seq(Frame)
    BY TailHas DEF TypeInv, Stacked, Below
  <2>5. \A s, cp : Puts(s, cp).op = "puts"
    BY DEF Puts
  <2>2. PICK f : f = Puts(Tail(Top.s), Top.cp + 1) /\ f.op = "puts"
    BY <2>5, Zenon
  <2>3. stack' = <<f>> \o Below
    BY <2>2 DEF NetPutsCopy, Become
  <2>4. (<<f>> \o Below)[1] = f
    BY <2>1
  <2> QED
    BY <2>2, <2>3, <2>4
<1>3. /\ gShellPrint.BytesQueued = 0 /\ gShellPrint.BytesSent = 0
      /\ BufferOK(gShellPrint, wire, gShellCon)
  BY <1>1 DEF TameParts, Told, Ready, Buffered
<1>4. wire[gShellCon] = <<>>
  BY <1>3, SliceNone DEF BufferOK
<1>5. /\ gShellPrint'.Len = gShellPrint.Len + 1 /\ gShellPrint.Len \in Nat
      /\ gShellPrint.Len < NET_PRINT_BUF_LEN
      /\ gShellPrint'.BytesQueued = 0 /\ gShellPrint'.BytesSent = 0
  BY <1>3 DEF NetPutsCopy, TypeInv, Data, PrintType
<1>6. BufferOK(gShellPrint', wire', gShellCon)
  BY <1>1, <1>4, <1>5, SliceNone, ShellAssumption DEF BufferOK
<1>7. OneCon'
  BY <1>1 DEF TameParts, OneCon, Live
<1>8. Buffered'
  BY <1>1, <1>2, <1>6 DEF Buffered, BufferOK, Slice, ByteAt
<1> QED
  BY <1>7, <1>8

(* A buffer that is full, or the end of what is put, goes to lwIP, and      *)
(* NetPuts() waits, unless the buffer is empty or there is nobody to wait   *)
(* for.                                                                     *)
LEMMA FlushStep ==
  ASSUME TypeInv, Tame, TameParts, UNCHANGED world,
         NEW ok \in BOOLEAN, ok \/ "nomem" \in world, NetPutsFlush(ok) \/ NetPutsEnd(ok)
  PROVE  /\ OneCon' /\ Buffered'
         /\ (Live /\ gShellPrint.Len # 0) => gShellPrint.Len # gShellPrint.BytesSent
         /\ Live => gShellPrint'.Len = gShellPrint.Len
<1>1. UNCHANGED <<pcb, gShellCon>> /\ stack[1].op = "puts" /\ gShellPrint \in PrintType
  BY TopHas DEF NetPutsFlush, NetPutsEnd, TypeInv, Data, Runs
<1>2. CASE ~Live
  BY <1>1, <1>2, NobodyStep DEF TameParts
<1>3. CASE Live
  <2>1. BufferOK(gShellPrint, wire, gShellCon) /\ WireOK(wire)
    BY <1>3 DEF TameParts, Buffered, TypeInv, Data
  <2>2. gShellPrint.Len # 0 => gShellPrint.Len # gShellPrint.BytesSent
    BY <1>1, <2>1 DEF BufferOK, PrintType
  <2>3. CASE NetPrintFillPcb(gShellPrint, wire, gShellCon, ok)
    BY <1>1, <1>3, <2>1, <2>2, <2>3, FillStep DEF TameParts
  <2>4. CASE gShellPrint.Len = 0 /\ UNCHANGED <<wire, gShellPrint>>
    <3>1. gShellPrint.BytesQueued = gShellPrint.Len
      BY <1>1, <2>1, <2>4 DEF BufferOK, PrintType
    <3>2. OneCon'
      BY <1>1, <2>4 DEF TameParts, OneCon, Live
    <3>3. Buffered'
      BY <1>1, <2>1, <2>4, <3>1 DEF Buffered, BufferOK, Slice, ByteAt
    <3> QED
      BY <2>2, <2>4, <3>2, <3>3
  <2> QED
    BY <1>1, <2>3, <2>4 DEF NetPutsFlush, NetPutsEnd, PrintType
<1> QED
  BY <1>2, <1>3

-----------------------------------------------------------------------------
(* What is told to the user, frame by frame. *)

(* A function that waits for another one.                                   *)
Waiting(f) ==
  /\ f.op # "wait"
  /\ f.op = "puts" => f.cp = 0
  /\ (f.op = "recv" /\ f.n > 0) => Head(f.rest) = "BS"
  /\ f.op = "calls" => \A k \in 1 .. Len(f.todo) : ~IsPut(f.todo[k])

LEMMA BelowWaits ==
  ASSUME NEW s, TameFrames(s), NEW i \in 2 .. Len(s)
  PROVE  Waiting(s[i])
<1>1. TameFrame(s, i) /\ i > 1 /\ i # 1
  BY DEF TameFrames
<1> QED
  BY <1>1 DEF TameFrame, Waiting

(* The frames that a step leaves alone are as they should be, wherever they *)
(* are now.                                                                 *)
LEMMA FramesKept ==
  ASSUME NEW s, Stacked(s), TameFrames(s), NEW t, NEW b \in Nat \ {0}, Keeps(s, t, 2, b)
  PROVE  \A i \in b .. Len(t) : TameFrame(t, i)
<1> SUFFICES ASSUME NEW i \in b .. Len(t) PROVE TameFrame(t, i)
  OBVIOUS
<1>1. Len(s) \in Nat /\ Len(t) = Len(s) + (b - 2)
  BY DEF Stacked, Keeps
<1>2. PICK j \in Int : j = i - (b - 2)
  OBVIOUS
<1>3. j \in 2 .. Len(s) /\ i = j + (b - 2) /\ j \in 1 .. Len(s)
  BY <1>1, <1>2
<1>4. t[i] = s[j]
  BY <1>3 DEF Keeps
<1>5. t[Len(t)] = s[Len(s)]
  BY <1>1, <1>3 DEF Keeps
<1>6. (i = Len(t) - 1 <=> j = Len(s) - 1) /\ (i < Len(t) <=> j < Len(s))
  BY <1>1, <1>3
<1>7. j < Len(s) => t[i + 1] = s[j + 1]
  <2>1. j < Len(s) => j + 1 \in 2 .. Len(s) /\ (j + 1) + (b - 2) = i + 1
    BY <1>1, <1>3
  <2> QED
    BY <2>1, SMTT(30) DEF Keeps
<1>8. TameFrame(s, j) /\ j # 1 /\ j > 1
  BY <1>3 DEF TameFrames
<1> QED
  BY <1>4, <1>5, <1>6, <1>7, <1>8 DEF TameFrame

LEMMA TameReturns ==
  ASSUME Stacked(stack), ~Runs("main"), TameFrames(stack), NEW t, t = Below
  PROVE  /\ Stacked(t) /\ TameFrames(t) /\ t[1] = stack[2] /\ 2 \in 1 .. Len(stack)
         /\ Waiting(stack[2])
<1>1. Stacked(t) /\ Keeps(stack, t, 2, 1)
  BY Returns
<1>2. Len(stack) \in Nat /\ Len(t) \in Nat \ {0} /\ 2 \in 2 .. Len(stack)
  BY <1>1, TopHas DEF Stacked, Keeps
<1>3. t[1] = stack[2]
  <2>1. t[2 + (1 - 2)] = stack[2]
    BY <1>1, <1>2 DEF Keeps
  <2> QED
    BY <2>1
<1>4. TameFrames(t)
  BY <1>1, FramesKept DEF TameFrames
<1>5. Waiting(stack[2])
  BY <1>2, BelowWaits
<1> QED
  BY <1>1, <1>2, <1>3, <1>4, <1>5

LEMMA TamePush ==
  ASSUME NEW s, Stacked(s), TameFrames(s), Waiting(s[1]), NEW g, Callable(g),
         NEW t, t = <<g>> \o s,
         g.op = "printf" => Len(g.s) <= 2 /\ s[1].op = "calls",
         g.op = "recv" => Len(s) = 1 /\ s[1] = Main("welcome")
  PROVE  Stacked(t) /\ TameFrames(t) /\ t[1] = g
<1>1. Stacked(t) /\ Keeps(s, t, 1, 2) /\ t[1] = g
  BY Enters, ZenonT(60)
<1>2. /\ Len(s) \in Nat \ {0} /\ Len(t) = Len(s) + 1
      /\ \A i \in 1 .. Len(s) : t[i + 1] = s[i]
  <2>1. Len(s) \in Nat \ {0} /\ Len(t) = Len(s) + (2 - 1)
        /\ \A i \in 1 .. Len(s) : t[i + (2 - 1)] = s[i]
    BY <1>1 DEF Keeps, Stacked
  <2> QED
    BY <2>1
<1>3. ASSUME NEW i \in 2 .. Len(t) PROVE TameFrame(t, i)
  <2>1. PICK j \in Int : j = i - 1
    OBVIOUS
  <2>2. j \in 1 .. Len(s) /\ i = j + 1 /\ t[i] = s[j] /\ t[Len(t)] = s[Len(s)]
    BY <1>2, <2>1
  <2>3. (i = Len(t) - 1 <=> j = Len(s) - 1) /\ (i < Len(t) <=> j < Len(s))
    BY <1>2, <2>2
  <2>4. j < Len(s) => t[i + 1] = s[j + 1]
    BY <1>2, <2>2
  <2>5. TameFrame(s, j) /\ Waiting(s[j])
    <3>1. j # 1 => j \in 2 .. Len(s)
      BY <2>2
    <3> QED
      BY <2>2, <3>1, BelowWaits DEF TameFrames
  <2> QED
    BY <2>2, <2>3, <2>4, <2>5 DEF TameFrame, Waiting
<1>4. TameFrame(t, 1)
  <2>1. g.op \notin {"main", "calls"}
    BY DEF Callable
  <2>2. t[1 + 1] = s[1] /\ 1 < Len(t)
    BY <1>2
  <2>3. g.op = "recv" => 1 = Len(t) - 1 /\ t[Len(t)] = Main("welcome")
    <3>1. Len(s) = 1 => Len(t) = 2 /\ t[Len(t)] = s[1]
      BY <1>2, <2>2
    <3> QED
      BY <3>1
  <2> QED
    BY <1>1, <2>1, <2>2, <2>3 DEF TameFrame
<1>5. \A i \in 1 .. Len(t) : i = 1 \/ i \in 2 .. Len(t)
  BY <1>2
<1> QED
  BY <1>1, <1>3, <1>4, <1>5 DEF TameFrames

LEMMA TameGoesOn ==
  ASSUME Stacked(stack), TameFrames(stack), NEW f \in Frame, NEW t, t = Become(f),
         f.op = Top.op, f.op \in {"puts", "recv", "calls"},
         f.op = "calls" => \A k \in 1 .. Len(f.todo) :
                             Short(f.todo[k]) /\ (IsPut(f.todo[k]) => k = 1)
  PROVE  Stacked(t) /\ TameFrames(t) /\ t[1] = f
<1>1. Stacked(t) /\ Keeps(stack, t, 2, 2) /\ t[1] = f
  BY GoesOn
<1>2. \A i \in 2 .. Len(t) : TameFrame(t, i)
  BY <1>1, FramesKept
<1>3. Len(stack) \in Nat \ {0} /\ Len(t) = Len(stack) /\ stack[1].op = f.op
  BY <1>1, TopHas DEF Keeps
<1>4. TameFrame(t, 1)
  <2>1. f.op = "recv" => 1 = Len(t) - 1 /\ t[Len(t)] = Main("welcome")
    <3>1. TameFrame(stack, 1)
      BY <1>3 DEF TameFrames
    <3>2. f.op = "recv" => 1 = Len(stack) - 1 /\ stack[Len(stack)] = Main("welcome")
      BY <1>3, <3>1 DEF TameFrame
    <3>3. Len(stack) = 2 => t[2] = stack[2]
      BY <1>1 DEF Keeps
    <3> QED
      BY <1>3, <3>2, <3>3
  <2> QED
    BY <1>1, <2>1 DEF TameFrame
<1>5. \A i \in 1 .. Len(t) : i = 1 \/ i \in 2 .. Len(t)
  BY <1>3
<1> QED
  BY <1>1, <1>2, <1>4, <1>5 DEF TameFrames

(* An empty buffer is empty altogether.                                     *)
LEMMA AllEmpty ==
  ASSUME NEW p \in PrintType, NEW w, NEW con, BufferOK(p, w, con), p.Len = 0 \/ p.Len = p.BytesSent
  PROVE  p.Len = 0 /\ p.BytesQueued = 0 /\ p.BytesSent = 0
BY DEF BufferOK, PrintType

-----------------------------------------------------------------------------
(* Every step tells the user what it should. *)

LEMMA MainsDiffer ==
  /\ Main("poll") # Main("welcome") /\ Main("poll") # Main("input")
  /\ \A at : Main(at).op = "main"
BY DEF Main

(* While main() or a wait polls there is no input to be processed.          *)
LEMMA PollingQuiet ==
  ASSUME TypeInv, TameParts, Polling
  PROVE  ~gInputReady /\ stack[1].op # "puts"
BY PollingTop, MainsDiffer DEF TameParts, Told, Ready

LEMMA PolledTold ==
  ASSUME TypeInv, TameParts, Polling, stack' = Polled, gInputReady' => gInputReady
  PROVE  Told'
<1>1. ~gInputReady'
  BY PollingQuiet
<1>2. CASE Runs("main")
  <2>1. Len(Polled) = 1 /\ Polled[1] = Main("welcome")
    BY <1>2, PolledStack DEF TypeInv
  <2>2. \A i \in 1 .. 1 : i = 1
    OBVIOUS
  <2>3. TameFrames(stack')
    BY <2>1, <2>2, MainsDiffer DEF TameFrames, TameFrame
  <2> QED
    BY <1>1, <2>1, <2>3, MainsDiffer DEF Told, Ready
<1>3. CASE ~Runs("main")
  <2>1. stack' = stack /\ stack[1].op = "wait"
    BY <1>3, PollingTop, TopHas, MainsDiffer DEF Polled, Runs, TypeInv
  <2> QED
    BY <1>1, <2>1 DEF TameParts, Told, Ready, TameFrames
<1> QED
  BY <1>2, <1>3

(* What was typed in answer to the prompt.                                  *)
LEMMA RecvTold ==
  ASSUME TypeInv, TameParts, Tame, UNCHANGED world, NEW c \in Conns, NEW p \in Pbufs,
         ShellRecv(c, p)
  PROVE  Told'
<1>1. Prompted(c) /\ Polling
  BY TameWorld DEF ShellRecv
<1>2. Runs("main") /\ ~gSendWelcome /\ ~gInputReady /\ gShellPrint.Len = 0
  BY <1>1, MainsDiffer DEF Prompted, Runs
<1>3. Stacked(Polled) /\ Len(Polled) = 1 /\ Polled[1] = Main("welcome")
  BY <1>1, <1>2, PolledStack DEF TypeInv
<1>4. TameFrames(Polled) /\ Waiting(Polled[1])
  <2>1. \A i \in 1 .. 1 : i = 1
    OBVIOUS
  <2> QED
    BY <1>3, <2>1, MainsDiffer DEF TameFrames, TameFrame, Waiting
<1>5. Recv(c, p, Len(p)) \in Frame /\ Recv(c, p, Len(p)).op = "recv"
  <2>1. p \in Seq(STRING) /\ \A i \in DOMAIN p : p[i] \in Typed
    BY ShellAssumption DEF Typed
  <2>2. p \in Seq(Typed)
    BY <2>1
  <2> QED
    BY <2>2, MakesFrame
<1>6. stack' = <<Recv(c, p, Len(p))>> \o Polled /\ UNCHANGED <<gShellPrint, gShellCon, gSendWelcome, gInputReady>>
  BY DEF ShellRecv, line
<1>7. PICK f : f = Recv(c, p, Len(p))
  OBVIOUS
<1>8. TameFrames(stack') /\ stack'[1] = f /\ f.op = "recv"
  BY <1>3, <1>4, <1>5, <1>6, <1>7, TamePush DEF Callable
<1> QED
  BY <1>2, <1>6, <1>8 DEF Told, Ready, Fresh, Live

(* The end of a wait: the buffer is empty.                                  *)
LEMMA WaitTold ==
  ASSUME TypeInv, TameParts, UNCHANGED world, WaitDone
  PROVE  Told'
<1>1. stack[1].op = "wait" /\ ~Runs("main") /\ gShellPrint \in PrintType
  BY TopHas DEF WaitDone, Runs, TypeInv, Data
<1>2. ~gInputReady
  BY <1>1, MainsDiffer DEF TameParts, Told, Ready
<1>3. Live => /\ gShellPrint.Len = 0 /\ gShellPrint.BytesQueued = 0
              /\ gShellPrint.BytesSent = 0
  BY <1>1, AllEmpty DEF WaitDone, TameParts, Buffered
<1>4. TameFrames(stack') /\ stack'[1] = stack[2] /\ Waiting(stack[2])
  BY <1>1, TameReturns DEF WaitDone, TameParts, Told, TypeInv
<1>5. UNCHANGED <<gShellPrint, gShellCon, gSendWelcome, gInputReady>>
  BY DEF WaitDone, line
<1> QED
  BY <1>2, <1>3, <1>4, <1>5 DEF Told, Ready, Fresh, Live, Waiting

(* ShellRecv() returns to main(), which goes on with what was typed.        *)
LEMMA RecvDoneTold ==
  ASSUME TypeInv, TameParts, UNCHANGED world, RecvDone
  PROVE  Told'
<1>1. stack[1].op = "recv" /\ ~Runs("main") /\ 1 \in 1 .. Len(stack)
  BY TopHas DEF RecvDone, Runs, TypeInv
<1>2. 1 = Len(stack) - 1 /\ stack[Len(stack)] = Main("welcome")
  BY <1>1 DEF TameParts, Told, TameFrames, TameFrame
<1>3. TameFrames(stack') /\ stack'[1] = stack[2]
  BY <1>1, TameReturns DEF RecvDone, TameParts, Told, TypeInv
<1>4. stack'[1] = Main("welcome")
  <2>1. Len(stack) = 2
    BY <1>2, TopHas DEF TypeInv
  <2> QED
    BY <1>2, <1>3, <2>1
<1>5. UNCHANGED <<gShellPrint, gShellCon, gSendWelcome, gInputReady>>
  BY DEF RecvDone, line
<1> QED
  BY <1>1, <1>3, <1>4, <1>5, MainsDiffer DEF TameParts, Told, Ready, Fresh, Live

LEMMA CallsDoneTold ==
  ASSUME TypeInv, TameParts, UNCHANGED world, CallsDone
  PROVE  Told'
<1>1. stack[1].op = "calls" /\ ~Runs("main") /\ Runs("calls")
  BY TopHas DEF CallsDone, Runs, TypeInv
<1>2. stack[2].op = "main" /\ ~gInputReady
  BY <1>1, CallsAlone, MainsDiffer DEF TypeInv, TameParts, Told, Ready
<1>3. TameFrames(stack') /\ stack'[1] = stack[2]
  BY <1>1, TameReturns DEF CallsDone, TameParts, Told, TypeInv
<1>4. UNCHANGED <<gShellPrint, gShellCon, gSendWelcome, gInputReady>>
  BY DEF CallsDone, line
<1> QED
  BY <1>2, <1>3, <1>4 DEF Told, Ready

LEMMA PrintfTold ==
  ASSUME TypeInv, TameParts, UNCHANGED world, NEW ok \in BOOLEAN, NetPrintf(ok)
  PROVE  Told'
<1>1. stack[1].op = "printf" /\ ~Runs("main") /\ 1 \in 1 .. Len(stack)
  BY TopHas DEF NetPrintf, Runs, TypeInv
<1>2. stack[1 + 1].op = "calls"
  BY <1>1 DEF TameParts, Told, TameFrames, TameFrame
<1>3. ~gInputReady
  BY <1>1, MainsDiffer DEF TameParts, Told, Ready
<1>4. TameFrames(stack') /\ stack'[1] = stack[2] /\ Waiting(stack[2])
  BY <1>1, TameReturns DEF NetPrintf, TameParts, Told, TypeInv
<1>5. UNCHANGED gInputReady
  BY DEF NetPrintf, line
<1>6. PICK f : f = stack[2]
  OBVIOUS
<1>7. f.todo # <<>> => ~IsPut(f.todo[1])
  <2>1. f \in Frame /\ f.op = "calls"
    BY <1>1, <1>2, <1>6, TameReturns, TopHas DEF TypeInv, TameParts, Told
  <2>2. f.todo \in Seq(CallType)
    BY <2>1, FrameHas
  <2>3. f.todo # <<>> => 1 \in 1 .. Len(f.todo)
    BY <2>2
  <2> QED
    BY <1>4, <1>6, <2>1, <2>3 DEF Waiting
<1> QED
  BY <1>2, <1>3, <1>4, <1>5, <1>6, <1>7 DEF Told, Ready

(* A function waits for the buffer to be empty, or goes on.                 *)
LEMMA WaitsTold ==
  ASSUME NEW s, Stacked(s), TameFrames(s), Waiting(s[1]), NEW con, NEW p,
         con # NULL, p.Len # p.BytesSent
  PROVE  LET t == NetWaitBufEmpty(con, p) \o s
         IN  TameFrames(t) /\ t[1] = Wait
<1>1. Callable(Wait) /\ Wait.op = "wait" /\ s \in Seq(Frame)
  BY MakesFrame DEF Callable, Stacked
<1>2. NetWaitBufEmpty(con, p) \o s = <<Wait>> \o s
  BY <1>1, Waits
<1>3. PICK t : t = <<Wait>> \o s
  OBVIOUS
<1>4. TameFrames(t) /\ t[1] = Wait
  BY <1>1, <1>3, TamePush
<1> QED
  BY <1>2, <1>3, <1>4

LEMMA CopyTold ==
  ASSUME TypeInv, TameParts, UNCHANGED world, NetPutsCopy
  PROVE  Told'
<1>1. /\ stack[1].op = "puts" /\ Top = stack[1]
      /\ Top.s \in Seq(Printed) /\ Top.s # <<>> /\ Top.cp \in Nat
  BY TopHas, FrameHas DEF NetPutsCopy, TypeInv, Runs
<1>2. PICK s : s = Tail(Top.s) /\ s \in Seq(Printed)
  BY <1>1, TailHas
<1>3. PICK cp \in Nat : cp = Top.cp + 1
  BY <1>1
<1>4. Puts(s, cp) \in Frame /\ Puts(s, cp).op = "puts" /\ Puts(s, cp).cp = cp
  BY <1>2, <1>3, MakesFrame DEF Puts
<1>5. TameFrames(stack') /\ stack'[1] = Puts(s, cp)
  <2>1. stack' = Become(Puts(s, cp))
    BY <1>2, <1>3 DEF NetPutsCopy
  <2> QED
    BY <1>1, <1>4, <2>1, TameGoesOn DEF TypeInv, TameParts, Told
<1>6. ~gInputReady
  BY <1>1, MainsDiffer DEF TameParts, Told, Ready
<1>7. /\ gShellPrint'.Len = gShellPrint.Len + 1
      /\ gShellPrint'.BytesQueued = gShellPrint.BytesQueued
      /\ gShellPrint'.BytesSent = gShellPrint.BytesSent
      /\ UNCHANGED <<gShellCon, gInputReady>>
  BY DEF NetPutsCopy, TypeInv, Data, PrintType, line
<1>8. Live => /\ Top.cp = gShellPrint.Len
              /\ gShellPrint.BytesQueued = 0 /\ gShellPrint.BytesSent = 0
  BY <1>1 DEF TameParts, Told, Ready
<1>9. PICK f : f = stack'[1] /\ f.op = "puts" /\ f.cp = cp
  BY <1>4, <1>5
<1> QED
  BY <1>3, <1>5, <1>6, <1>7, <1>8, <1>9 DEF Told, Ready, Live

LEMMA FlushTold ==
  ASSUME TypeInv, Tame, TameParts, UNCHANGED world,
         NEW ok \in BOOLEAN, ok \/ "nomem" \in world, NetPutsFlush(ok)
  PROVE  Told'
<1>1. stack[1].op = "puts" /\ Top = stack[1] /\ Top.s \in Seq(Printed) /\ Live
  BY TopHas, FrameHas DEF NetPutsFlush, TypeInv, Runs, Live
<1>2. Puts(Top.s, 0) \in Frame /\ Puts(Top.s, 0).op = "puts" /\ Puts(Top.s, 0).cp = 0
  BY <1>1, MakesFrame DEF Puts
<1>3. PICK s : s = Become(Puts(Top.s, 0))
  OBVIOUS
<1>4. Stacked(s) /\ TameFrames(s) /\ Waiting(s[1])
  <2>1. Stacked(s) /\ TameFrames(s) /\ s[1] = Puts(Top.s, 0)
    BY <1>1, <1>2, <1>3, TameGoesOn DEF TypeInv, TameParts, Told
  <2> QED
    BY <1>2, <2>1 DEF Waiting
<1>5. gShellPrint.Len # gShellPrint.BytesSent
  <2>1. gShellPrint.Len # 0
    BY ShellAssumption DEF NetPutsFlush, TypeInv, Data, PrintType
  <2> QED
    BY <1>1, <2>1, FlushStep
<1>6. TameFrames(stack') /\ stack'[1].op = "wait"
  <2>1. PICK t : t = NetWaitBufEmpty(gShellCon, gShellPrint) \o s
    OBVIOUS
  <2>2. TameFrames(t) /\ t[1].op = "wait"
    <3>1. PICK con : con = gShellCon
      OBVIOUS
    <3>2. PICK p : p = gShellPrint
      OBVIOUS
    <3>3. con # NULL /\ p.Len # p.BytesSent /\ t = NetWaitBufEmpty(con, p) \o s
      BY <1>1, <1>5, <2>1, <3>1, <3>2 DEF Live
    <3> QED
      BY <1>4, <3>3, WaitsTold, MakesFrame
  <2>3. stack' = t
    BY <1>3, <2>1 DEF NetPutsFlush
  <2> QED
    BY <2>2, <2>3
<1>7. ~gInputReady /\ UNCHANGED gInputReady
  BY <1>1, MainsDiffer DEF TameParts, Told, Ready, NetPutsFlush, line
<1> QED
  BY <1>6, <1>7 DEF Told, Ready

LEMMA EndTold ==
  ASSUME TypeInv, Tame, TameParts, UNCHANGED world,
         NEW ok \in BOOLEAN, ok \/ "nomem" \in world, NetPutsEnd(ok)
  PROVE  Told'
<1>1. stack[1].op = "puts" /\ ~Runs("main") /\ gShellPrint \in PrintType
  BY TopHas DEF NetPutsEnd, TypeInv, Runs, Data
<1>2. PICK s : s = Below
  OBVIOUS
<1>3. Stacked(s) /\ TameFrames(s) /\ s[1] = stack[2] /\ Waiting(s[1])
  BY <1>1, <1>2, TameReturns DEF TypeInv, TameParts, Told
<1>4. ~gInputReady /\ UNCHANGED <<gInputReady, gShellCon, gSendWelcome>>
  BY <1>1, MainsDiffer DEF TameParts, Told, Ready, NetPutsEnd, line
<1>5. CASE Live /\ gShellPrint.Len # 0
  <2>1. stack' = NetWaitBufEmpty(gShellCon, gShellPrint) \o s
    BY <1>1, <1>2, <1>5 DEF NetPutsEnd, PrintType
  <2>2. gShellPrint.Len # gShellPrint.BytesSent
    BY <1>5, FlushStep
  <2>3. TameFrames(stack') /\ stack'[1].op = "wait"
    <3>1. PICK t : t = NetWaitBufEmpty(gShellCon, gShellPrint) \o s
      OBVIOUS
    <3>2. TameFrames(t) /\ t[1].op = "wait"
      <4>1. PICK con : con = gShellCon
        OBVIOUS
      <4>2. PICK p : p = gShellPrint
        OBVIOUS
      <4>3. con # NULL /\ p.Len # p.BytesSent /\ t = NetWaitBufEmpty(con, p) \o s
        BY <1>5, <2>2, <3>1, <4>1, <4>2 DEF Live
      <4> QED
        BY <1>3, <4>3, WaitsTold, MakesFrame
    <3> QED
      BY <2>1, <3>1, <3>2
  <2> QED
    BY <1>4, <2>3 DEF Told, Ready
<1>6. CASE ~(Live /\ gShellPrint.Len # 0)
  <2>1. stack' = s
    <3>1. CASE Live
      BY <1>1, <1>2, <1>6, <3>1 DEF NetPutsEnd, PrintType
    <3>2. CASE ~Live
      <4>1. NetWaitBufEmpty(gShellCon, gShellPrint) \o s = s
        BY <1>3, <3>2, Waits DEF Live, Stacked
      <4> QED
        BY <1>2, <4>1 DEF NetPutsEnd
    <3> QED
      BY <3>1, <3>2
  <2>2. Live => /\ UNCHANGED gShellPrint /\ gShellPrint.Len = 0
                /\ gShellPrint.BytesQueued = 0 /\ gShellPrint.BytesSent = 0
    BY <1>1, <1>6, AllEmpty DEF NetPutsEnd, TameParts, Buffered, PrintType
  <2> QED
    BY <1>3, <1>4, <2>1, <2>2 DEF Told, Ready, Fresh, Live, Waiting
<1> QED
  BY <1>5, <1>6

(* The loop of ShellRecv().                                                 *)
LEMMA LoopTold ==
  ASSUME TypeInv, TameParts, UNCHANGED world, SkipTelnetCommand \/ BackSpace \/ Enter \/ Character
  PROVE  Told'
<1>1. Runs("recv") /\ Top.op = "recv" /\ Top.n > 0 /\ ~gInputReady /\ Top = stack[1]
  BY TopHas DEF SkipTelnetCommand, BackSpace, Enter, Character, InLoop, Runs, TypeInv
<1>2. /\ Stay \in Frame /\ Stay.op = "recv"
      /\ \A k \in Nat : Forward(k) \in Frame /\ Forward(k).op = "recv"
  BY <1>1, LoopFrames
<1>3. UNCHANGED <<gShellCon, gShellPrint, gSendWelcome>>
  BY DEF SkipTelnetCommand, BackSpace, Enter, Character
<1>4. Fresh /\ (Head(Top.rest) # "BS" => ~gSendWelcome)
  BY <1>1 DEF TameParts, Told, Ready
<1>5. Stacked(stack) /\ TameFrames(stack)
  BY DEF TypeInv, TameParts, Told
<1>6. CASE SkipTelnetCommand \/ Character
  <2>1. PICK f \in Frame : stack' = Become(f) /\ f.op = "recv"
    BY <1>2, <1>6 DEF SkipTelnetCommand, Character
  <2>2. TameFrames(stack') /\ stack'[1] = f
    BY <1>1, <1>5, <2>1, TameGoesOn
  <2>3. ~gSendWelcome /\ UNCHANGED gInputReady
    BY <1>4, <1>6 DEF SkipTelnetCommand, Character, InLoop, line
  <2> QED
    BY <1>1, <1>3, <1>4, <2>1, <2>2, <2>3 DEF Told, Ready, Fresh, Live
<1>7. CASE Enter
  <2>1. PICK f \in Frame : stack' = Become(f) /\ f.op = "recv"
    BY <1>2, <1>7 DEF Enter
  <2>2. TameFrames(stack') /\ stack'[1] = f
    BY <1>1, <1>5, <2>1, TameGoesOn
  <2>3. ~gSendWelcome
    BY <1>4, <1>7 DEF Enter, InLoop
  <2> QED
    BY <1>3, <1>4, <2>1, <2>2, <2>3 DEF Told, Ready, Fresh, Live
<1>8. CASE BackSpace
  <2>1. PICK s : s = Become(Stay)
    OBVIOUS
  <2>2. Stacked(s) /\ TameFrames(s) /\ s[1] = Stay
    BY <1>1, <1>2, <1>5, <2>1, TameGoesOn
  <2>3. Waiting(s[1])
    <3>1. Stay.rest = Top.rest /\ Head(Top.rest) = "BS"
      BY <1>8 DEF Stay, Recv, BackSpace, InLoop
    <3> QED
      BY <1>2, <2>2, <3>1 DEF Waiting
  <2>4. Rubout \in Seq(Printed) /\ Beep \in Seq(Printed) /\ gShellPrint.Len \in Nat
    BY DEF Rubout, Beep, Printed, TypeInv, Data, PrintType
  <2>5. PICK x \in {Rubout, Beep} : stack' = <<Puts(x, gShellPrint.Len)>> \o s
    <3>1. PICK y : y = IF gRxCount > 0 THEN Rubout ELSE Beep
      OBVIOUS
    <3>2. stack' = <<Puts(y, gShellPrint.Len)>> \o s
      BY <1>8, <2>1, <3>1, Zenon DEF BackSpace
    <3>3. y \in {Rubout, Beep}
      BY <3>1
    <3> QED
      BY <3>2, <3>3, Zenon
  <2>6. PICK g : g = Puts(x, gShellPrint.Len)
    OBVIOUS
  <2>7. Callable(g) /\ g.op = "puts" /\ g.cp = gShellPrint.Len
    BY <2>4, <2>6, MakesFrame DEF Callable, Puts
  <2>8. TameFrames(stack') /\ stack'[1] = g
    <3>1. PICK t : t = <<g>> \o s
      OBVIOUS
    <3>2. TameFrames(t) /\ t[1] = g
      BY <2>2, <2>3, <2>7, <3>1, TamePush, ZenonT(60)
    <3> QED
      BY <2>5, <2>6, <3>1, <3>2
  <2>9. Live => /\ gShellPrint.Len = 0 /\ gShellPrint.BytesQueued = 0
                /\ gShellPrint.BytesSent = 0
    BY <1>4, AllEmpty DEF Fresh, TameParts, Buffered, TypeInv, Data
  <2>10. UNCHANGED gInputReady
    BY <1>8 DEF BackSpace
  <2> QED
    BY <1>1, <1>3, <2>7, <2>8, <2>9, <2>10 DEF Told, Ready, Live
<1> QED
  BY <1>6, <1>7, <1>8

(* What a command has to say: at most one text that does not fit, and that  *)
(* one first, when the buffer is still empty.                               *)
Tells(todo) ==
  \A k \in 1 .. Len(todo) : Short(todo[k]) /\ (IsPut(todo[k]) => k = 1)

LEMMA TellsMore ==
  ASSUME NEW a \in Seq(CallType), Tells(a), NEW b \in Seq(CallType),
         \A k \in 1 .. Len(b) : Short(b[k]) /\ ~IsPut(b[k])
  PROVE  Tells(a \o b)
<1>1. PICK t : t = a \o b
  OBVIOUS
<1>2. /\ Len(a) \in Nat /\ Len(b) \in Nat /\ Len(t) = Len(a) + Len(b)
      /\ \A k \in 1 .. Len(a) : t[k] = a[k]
      /\ \A k \in Len(a) + 1 .. Len(t) : t[k] = b[k - Len(a)]
  BY <1>1
<1>3. ASSUME NEW k \in 1 .. Len(t) PROVE Short(t[k]) /\ (IsPut(t[k]) => k = 1)
  <2>1. CASE k \in 1 .. Len(a)
    BY <1>2, <2>1 DEF Tells
  <2>2. CASE k \notin 1 .. Len(a)
    <3>1. k - Len(a) \in 1 .. Len(b) /\ k \in Len(a) + 1 .. Len(t)
      BY <1>2, <2>2
    <3> QED
      BY <1>2, <3>1
  <2> QED
    BY <2>1, <2>2
<1> QED
  BY <1>1, <1>3 DEF Tells

LEMMA OneCall ==
  ASSUME NEW x \in CallType, NEW y \in CallType, NEW z \in CallType
  PROVE  /\ Len(<<x>>) = 1 /\ <<x>>[1] = x /\ <<x>> \in Seq(CallType)
         /\ Len(<<x, y>>) = 2 /\ <<x, y>>[1] = x /\ <<x, y>>[2] = y /\ <<x, y>> \in Seq(CallType)
         /\ Len(<<x, y, z>>) = 3 /\ <<x, y, z>>[1] = x /\ <<x, y, z>>[2] = y
         /\ <<x, y, z>>[3] = z /\ <<x, y, z>> \in Seq(CallType)
OBVIOUS

LEMMA OneTwoThree ==
  /\ \A k \in 1 .. 1 : k = 1
  /\ \A k \in 1 .. 2 : k = 1 \/ k = 2
  /\ \A k \in 1 .. 3 : k = 1 \/ k = 2 \/ k = 3
OBVIOUS

LEMMA SayShort ==
  /\ \A s : Len(s) <= 2 => Short(Say(s)) /\ ~IsPut(Say(s))
  /\ \A s : Short(Put(s))
  /\ Short(Await) /\ ~IsPut(Await) /\ Short(Close) /\ ~IsPut(Close)
  /\ Short(Clear) /\ ~IsPut(Clear)
BY DEF Short, IsPut, Say, Put, Await, Close, Clear

LEMMA TextShort ==
  /\ Len(gVerStr) <= 2 /\ Len(Newline) <= 2 /\ Len(Prompt) <= 2
  /\ Len(<<"in", "fo">>) <= 2 /\ Len(<<"err">>) <= 2
BY DEF gVerStr, Newline, Prompt

LEMMA WelcomeTells ==
  LET todo == <<Say(gVerStr), Say(Newline), Say(Prompt)>>
  IN  todo \in Seq(CallType) /\ \A k \in 1 .. Len(todo) : Short(todo[k]) /\ ~IsPut(todo[k])
<1> DEFINE x == Say(gVerStr)
           y == Say(Newline)
           z == Say(Prompt)
<1>1. x \in CallType /\ y \in CallType /\ z \in CallType
  BY CallsTyped, TextTyped
<1>2. Short(x) /\ ~IsPut(x) /\ Short(y) /\ ~IsPut(y) /\ Short(z) /\ ~IsPut(z)
  BY SayShort, TextShort
<1> HIDE DEF x, y, z
<1>3. <<x, y, z>> \in Seq(CallType)
      /\ \A k \in 1 .. Len(<<x, y, z>>) : Short(<<x, y, z>>[k]) /\ ~IsPut(<<x, y, z>>[k])
  BY <1>1, <1>2, OneCall, OneTwoThree
<1> QED
  BY <1>3 DEF x, y, z

LEMMA CommandTells ==
  ASSUME NEW cmd
  PROVE  LET todo == ParseCmd(cmd) \o <<Clear, Say(Prompt)>>
         IN  todo \in Seq(CallType) /\ Tells(todo)
<1> DEFINE info == Say(<<"in", "fo">>)
           dump == Put(<<"d1", "d2", "d3", "d4", "d5">>)
           err  == Say(<<"err">>)
           p    == Say(Prompt)
<1>1. ParseCmd(cmd) \in {<<>>, <<info>>, <<dump>>, <<Await, Close>>, <<err>>}
  BY DEF ParseCmd
<1>2. /\ info \in CallType /\ dump \in CallType /\ err \in CallType /\ p \in CallType
      /\ Await \in CallType /\ Close \in CallType /\ Clear \in CallType
  BY CallsTyped, TextTyped
<1>3. /\ Short(info) /\ ~IsPut(info) /\ Short(err) /\ ~IsPut(err) /\ Short(dump)
      /\ Short(p) /\ ~IsPut(p)
  BY SayShort, TextShort
<1> HIDE DEF info, dump, err, p
<1>4. ASSUME NEW a, a \in {<<>>, <<info>>, <<dump>>, <<Await, Close>>, <<err>>}
      PROVE  Tells(a) /\ a \in Seq(CallType)
  <2>1. CASE a = <<>>
    BY <2>1 DEF Tells
  <2>2. CASE a = <<info>>
    BY <1>2, <1>3, <2>2, OneCall, OneTwoThree DEF Tells
  <2>3. CASE a = <<dump>>
    BY <1>2, <1>3, <2>3, OneCall, OneTwoThree DEF Tells
  <2>4. CASE a = <<Await, Close>>
    BY <1>2, <2>4, SayShort, OneCall, OneTwoThree DEF Tells
  <2>5. CASE a = <<err>>
    BY <1>2, <1>3, <2>5, OneCall, OneTwoThree DEF Tells
  <2> QED
    BY <1>4, <2>1, <2>2, <2>3, <2>4, <2>5
<1>5. PICK b : b = <<Clear, p>>
  OBVIOUS
<1>6. b \in Seq(CallType) /\ \A k \in 1 .. Len(b) : Short(b[k]) /\ ~IsPut(b[k])
  BY <1>2, <1>3, <1>5, SayShort, OneCall, OneTwoThree
<1>7. PICK a : a = ParseCmd(cmd) /\ a \in Seq(CallType) /\ Tells(a)
  BY <1>1, <1>4
<1>8. a \o b \in Seq(CallType) /\ Tells(a \o b)
  BY <1>6, <1>7, TellsMore
<1> QED
  BY <1>5, <1>7, <1>8 DEF p

(* main() with nothing to say, and with the commands above it.              *)
LEMMA MainTame ==
  ASSUME NEW at \in {"poll", "welcome", "input"}, NEW todo \in Seq(CallType), NEW t
  PROVE  /\ t = <<>> \o <<Main(at)>> => TameFrames(t) /\ t[1] = Main(at)
         /\ (t = <<Calls(todo)>> \o <<Main(at)>> /\ Tells(todo)) =>
              TameFrames(t) /\ t[1] = Calls(todo)
<1>1. ASSUME t = <<>> \o <<Main(at)>> PROVE TameFrames(t) /\ t[1] = Main(at)
  <2>1. Len(t) = 1 /\ t[1] = Main(at)
    BY <1>1, MainGoesOn
  <2> QED
    BY <2>1, OneTwoThree, MainsDiffer DEF TameFrames, TameFrame
<1>2. ASSUME t = <<Calls(todo)>> \o <<Main(at)>>, Tells(todo)
      PROVE  TameFrames(t) /\ t[1] = Calls(todo)
  <2>1. Len(t) = 2 /\ t[1] = Calls(todo) /\ t[2] = Main(at)
    BY <1>2, MainCalls
  <2>2. Calls(todo).op = "calls" /\ Calls(todo).todo = todo
    BY DEF Calls
  <2>3. TameFrame(t, 1)
    BY <1>2, <2>1, <2>2 DEF TameFrame, Tells
  <2>4. TameFrame(t, 2)
    BY <2>1, MainsDiffer DEF TameFrame
  <2> QED
    BY <2>1, <2>3, <2>4, OneTwoThree DEF TameFrames
<1> QED
  BY <1>1, <1>2

LEMMA MainTold ==
  ASSUME TypeInv, TameParts, UNCHANGED world, Welcome \/ Command
  PROVE  Told'
<1>1. Runs("main") /\ \A f : Become(f) = <<f>>
  <2>1. Runs("main")
    BY DEF Welcome, Command, Runs, Main
  <2> QED
    BY <2>1, MainAlone DEF TypeInv
<1>2. gInputReady => Fresh /\ ~gSendWelcome
  BY DEF TameParts, Told, Ready
<1>3. UNCHANGED <<gShellPrint, gShellCon>>
  BY DEF Welcome, Command
<1>4. PICK t : t = stack'
  OBVIOUS
<1>5. CASE Welcome
  <2>1. PICK todo \in Seq(CallType) : /\ todo = <<Say(gVerStr), Say(Newline), Say(Prompt)>>
                                     /\ \A k \in 1 .. Len(todo) : Short(todo[k]) /\ ~IsPut(todo[k])
    BY WelcomeTells
  <2>2. Tells(todo) /\ (todo # <<>> => ~IsPut(todo[1]))
    BY <2>1 DEF Tells
  <2>3. CASE gSendWelcome
    <3>1. t = <<Calls(todo)>> \o <<Main("input")>> /\ UNCHANGED gInputReady
      BY <1>1, <1>4, <1>5, <2>1, <2>3 DEF Welcome, line
    <3>2. TameFrames(t) /\ t[1] = Calls(todo)
      BY <2>2, <3>1, MainTame
    <3> QED
      BY <1>2, <1>4, <2>2, <2>3, <3>1, <3>2 DEF Told, Ready, Calls
  <2>4. CASE ~gSendWelcome
    <3>1. t = <<>> \o <<Main("input")>> /\ UNCHANGED gInputReady /\ ~gSendWelcome'
      BY <1>1, <1>4, <1>5, <2>4 DEF Welcome, line
    <3>2. TameFrames(t) /\ t[1] = Main("input")
      BY <2>1, <3>1, MainTame
    <3> QED
      BY <1>2, <1>3, <1>4, <3>1, <3>2, MainsDiffer DEF Told, Ready, Fresh, Live
  <2> QED
    BY <2>3, <2>4
<1>6. CASE Command
  <2>1. PICK todo \in Seq(CallType) : /\ todo = ParseCmd(TheLine) \o <<Clear, Say(Prompt)>>
                                     /\ Tells(todo)
    BY CommandTells
  <2>2. ~gInputReady'
    BY <1>6 DEF Command
  <2>3. CASE gInputReady
    <3>1. t = <<Calls(todo)>> \o <<Main("poll")>>
      BY <1>1, <1>4, <1>6, <2>1, <2>3 DEF Command
    <3>2. TameFrames(t) /\ t[1] = Calls(todo)
      BY <2>1, <3>1, MainTame
    <3> QED
      BY <1>2, <1>3, <1>4, <2>2, <2>3, <3>2 DEF Told, Ready, Fresh, Live, Calls
  <2>4. CASE ~gInputReady
    <3>1. t = <<>> \o <<Main("poll")>>
      BY <1>1, <1>4, <1>6, <2>4 DEF Command
    <3>2. TameFrames(t) /\ t[1] = Main("poll")
      BY <2>1, <3>1, MainTame
    <3> QED
      BY <1>4, <2>2, <3>2, MainsDiffer DEF Told, Ready
  <2> QED
    BY <2>3, <2>4
<1> QED
  BY <1>5, <1>6

(* What is left to call is short, and no NetPuts() is.                      *)
LEMMA RestTold ==
  ASSUME TypeInv, TameParts, Runs("calls"), Top.todo # <<>>
  PROVE  /\ Stacked(Rest) /\ TameFrames(Rest) /\ Waiting(Rest[1])
         /\ Rest[1].op = "calls" /\ (Rest[1].todo # <<>> => ~IsPut(Rest[1].todo[1]))
         /\ Short(Head(Top.todo)) /\ (IsPut(Head(Top.todo)) => Fresh) /\ ~gInputReady
<1>1. stack[1].op = "calls" /\ Top = stack[1] /\ Len(stack) \in Nat \ {0}
  BY TopHas DEF TypeInv, Runs
<1>2. PICK todo \in Seq(CallType) : todo = Top.todo /\ todo # <<>>
  BY RestTyped
<1>3. TameFrame(stack, 1) /\ TameFrames(stack) /\ Ready(stack[1])
  BY <1>1 DEF TameParts, Told, TameFrames
<1>4. Tells(todo)
  BY <1>1, <1>2, <1>3 DEF TameFrame, Tells
<1>5. PICK rest \in Seq(CallType) :
        /\ rest = Tail(Top.todo) /\ Len(rest) = Len(todo) - 1 /\ Len(todo) \in Nat \ {0}
        /\ \A k \in 1 .. Len(todo) - 1 : rest[k] = todo[k + 1]
  <2>1. /\ Tail(todo) \in Seq(CallType) /\ Len(Tail(todo)) = Len(todo) - 1
        /\ Len(todo) \in Nat \ {0}
        /\ \A k \in 1 .. Len(todo) - 1 : Tail(todo)[k] = todo[k + 1]
    BY <1>2, TailHas
  <2> QED
    BY <1>2, <2>1, Zenon
<1>6. \A k \in 1 .. Len(rest) : Short(rest[k]) /\ ~IsPut(rest[k])
  <2>1. \A k \in 1 .. Len(rest) : k + 1 \in 1 .. Len(todo) /\ k + 1 # 1 /\ rest[k] = todo[k + 1]
    BY <1>5
  <2> QED
    BY <1>4, <2>1 DEF Tells
<1>7. PICK f \in Frame : f = Calls(rest) /\ f.op = "calls" /\ f.todo = rest
  BY MakesFrame DEF Calls
<1>8. PICK t : t = Become(f)
  OBVIOUS
<1>9. Stacked(t) /\ TameFrames(t) /\ t[1] = f
  BY <1>1, <1>3, <1>6, <1>7, <1>8, TameGoesOn DEF TypeInv
<1>10. t = Rest
  BY <1>5, <1>7, <1>8 DEF Rest
<1>11. Waiting(f) /\ (f.todo # <<>> => ~IsPut(f.todo[1]))
  <2>1. rest # <<>> => 1 \in 1 .. Len(rest)
    OBVIOUS
  <2> QED
    BY <1>6, <1>7, <2>1 DEF Waiting
<1>12. Head(Top.todo) = todo[1] /\ 1 \in 1 .. Len(todo)
  BY <1>2, <1>5
<1>13. Short(Head(Top.todo)) /\ (IsPut(Head(Top.todo)) => Fresh)
  <2>1. Short(todo[1])
    BY <1>4, <1>12 DEF Tells
  <2>2. IsPut(todo[1]) => Fresh
    BY <1>1, <1>2, <1>3 DEF Ready
  <2> QED
    BY <1>12, <2>1, <2>2
<1>14. ~gInputReady
  BY <1>1, <1>3, MainsDiffer DEF Ready
<1> QED
  BY <1>7, <1>9, <1>10, <1>11, <1>13, <1>14

LEMMA CallsTold ==
  ASSUME TypeInv, TameParts, UNCHANGED world,
         CallPrintf \/ CallPuts \/ CallWait \/ CallClose \/ CallClear
  PROVE  Told'
<1>1. Runs("calls") /\ Top.todo # <<>>
  BY DEF CallPrintf, CallPuts, CallWait, CallClose, CallClear, Calling
<1>2. PICK r : r = Rest
  OBVIOUS
<1>3. /\ Stacked(r) /\ TameFrames(r) /\ Waiting(r[1])
      /\ r[1].op = "calls" /\ (r[1].todo # <<>> => ~IsPut(r[1].todo[1]))
  BY <1>1, <1>2, RestTold
<1>4. Short(Head(Top.todo)) /\ (IsPut(Head(Top.todo)) => Fresh) /\ ~gInputReady
  BY <1>1, RestTold
<1>5. UNCHANGED gInputReady
  BY DEF CallPrintf, CallPuts, CallWait, CallClose, CallClear, line
<1>6. PICK con : con = gShellCon
  OBVIOUS
<1>7. PICK p \in PrintType : p = gShellPrint
  BY DEF TypeInv, Data
<1>8. r \in Seq(Frame) /\ Head(Top.todo).s \in Seq(Printed)
  BY <1>1, <1>3, RestTyped DEF Stacked, CallType
<1>9. PICK t : t = stack'
  OBVIOUS
<1>10. CASE CallPrintf
  <2>1. PICK f : f = Printf(Head(Top.todo).s)
    OBVIOUS
  <2>2. Callable(f) /\ f \in Frame /\ f.op = "printf" /\ f.s = Head(Top.todo).s
    BY <1>8, <2>1, MakesFrame DEF Callable, Printf
  <2>3. Len(f.s) <= 2
    BY <1>4, <1>10, <2>2 DEF Short, CallPrintf, Calling
  <2>4. PICK u : u = <<f>> \o r
    OBVIOUS
  <2>5. Stacked(u) /\ TameFrames(u) /\ u[1] = f
    BY <1>3, <2>2, <2>3, <2>4, TamePush, ZenonT(120)
  <2>6. t = NetWaitBufEmpty(con, p) \o u
    <3>1. PICK w : w = NetWaitBufEmpty(con, p)
      OBVIOUS
    <3>2. stack' = NetWaitBufEmpty(gShellCon, gShellPrint)
                     \o <<Printf(Head(Top.todo).s)>> \o Rest
      BY <1>10 DEF CallPrintf
    <3>3. t = w \o <<f>> \o r
      BY <1>2, <1>6, <1>7, <1>9, <2>1, <3>1, <3>2, Zenon
    <3>4. w \o <<f>> \o r = w \o (<<f>> \o r)
      BY <1>8, <2>2, <3>1, WaitsAbove
    <3> QED
      BY <2>4, <3>1, <3>3, <3>4, Zenon
  <2>7. CASE con # NULL /\ p.Len # p.BytesSent
    <3>1. Waiting(u[1])
      BY <2>2, <2>5 DEF Waiting
    <3>2. TameFrames(t) /\ t[1] = Wait
      BY <2>5, <2>6, <2>7, <3>1, WaitsTold
    <3> QED
      BY <1>4, <1>5, <1>9, <3>2, MakesFrame DEF Told, Ready
  <2>8. CASE ~(con # NULL /\ p.Len # p.BytesSent)
    <3>1. t = u
      <4>1. u \in Seq(Frame)
        BY <2>5 DEF Stacked
      <4> QED
        BY <2>6, <2>8, <4>1, Waits
    <3>2. Fresh
      BY <1>6, <1>7, <2>8, AllEmpty DEF Fresh, Live, TameParts, Buffered
    <3>3. UNCHANGED <<gShellPrint, gShellCon>>
      BY <1>10 DEF CallPrintf
    <3> QED
      BY <1>4, <1>5, <1>9, <2>2, <2>5, <3>1, <3>2, <3>3 DEF Told, Ready, Fresh, Live
  <2> QED
    BY <2>7, <2>8
<1>11. CASE CallPuts
  <2>1. PICK g : g = Puts(Head(Top.todo).s, p.Len)
    OBVIOUS
  <2>2. Callable(g) /\ g.op = "puts" /\ g.cp = p.Len
    BY <1>8, <2>1, MakesFrame DEF Callable, Puts, PrintType
  <2>3. PICK u : u = <<g>> \o r
    OBVIOUS
  <2>4. TameFrames(u) /\ u[1] = g
    <3>1. Stacked(r) /\ TameFrames(r) /\ Waiting(r[1])
      BY <1>3
    <3>2. Callable(g) /\ g.op = "puts"
      BY <2>2
    <3> QED
      BY <2>3, <3>1, <3>2, TamePush
  <2>5. t = u /\ UNCHANGED <<gShellPrint, gShellCon>>
    BY <1>2, <1>7, <1>9, <1>11, <2>1, <2>3 DEF CallPuts
  <2>6. Fresh
    BY <1>4, <1>11 DEF CallPuts, Calling, IsPut
  <2>7. Live => p.Len = 0 /\ p.BytesQueued = 0 /\ p.BytesSent = 0
    BY <1>7, <2>6, AllEmpty DEF Fresh, TameParts, Buffered
  <2> QED
    BY <1>4, <1>5, <1>7, <1>9, <2>2, <2>4, <2>5, <2>7 DEF Told, Ready, Live
<1>12. CASE CallWait
  <2>1. t = NetWaitBufEmpty(con, p) \o r
    BY <1>2, <1>6, <1>7, <1>9, <1>12 DEF CallWait
  <2>2. CASE con # NULL /\ p.Len # p.BytesSent
    <3>1. TameFrames(t) /\ t[1] = Wait
      BY <1>3, <2>1, <2>2, WaitsTold
    <3> QED
      BY <1>4, <1>5, <1>9, <3>1, MakesFrame DEF Told, Ready
  <2>3. CASE ~(con # NULL /\ p.Len # p.BytesSent)
    <3>1. t = r
      BY <1>8, <2>1, <2>3, Waits
    <3> QED
      BY <1>3, <1>4, <1>5, <1>9, <3>1 DEF Told, Ready
  <2> QED
    BY <2>2, <2>3
<1>13. CASE CallClose \/ CallClear
  <2>1. t = r
    BY <1>2, <1>9, <1>13 DEF CallClose, CallClear
  <2> QED
    BY <1>3, <1>4, <1>5, <1>9, <2>1 DEF Told, Ready
<1> QED
  BY <1>10, <1>11, <1>12, <1>13

-----------------------------------------------------------------------------
(* For users who wait for the prompt, one at a time. *)

LEMMA TameStep ==
  ASSUME TypeInv, TypeInv', Tame, TameParts, Next, UNCHANGED world
  PROVE  TameParts'
<1>1. CASE PollNothing
  <2>1. Polling /\ stack' = Polled /\ stack[1].op # "puts"
    BY <1>1, PollingQuiet DEF PollNothing, Polling
  <2> QED
    BY <1>1, <2>1, AloneStep, PolledTold DEF PollNothing, net, line, TameParts
<1>2. ASSUME NEW c \in Conns, ShellAccept(c) PROVE TameParts'
  BY <1>2, AcceptStep, PolledTold DEF ShellAccept, TameParts
<1>3. ASSUME NEW c \in Conns, ShellRecvClosed(c) PROVE TameParts'
  BY <1>3, LeaveStep, PolledTold DEF ShellRecvClosed, line, TameParts
<1>4. ASSUME NEW c \in Conns, CloseDone(c) PROVE TameParts'
  BY <1>4, EndsStep, PolledTold DEF CloseDone, line, TameParts
<1>5. ASSUME NEW c \in Conns, ShellError(c) PROVE TameParts'
  BY <1>5, TameWorld DEF ShellError
<1>6. ASSUME NEW c \in Conns, NEW p \in Pbufs, ShellRecv(c, p) PROVE TameParts'
  <2>1. stack[1].op # "puts"
    BY <1>6, PollingQuiet DEF ShellRecv
  <2> QED
    BY <1>6, <2>1, AloneStep, RecvTold DEF ShellRecv, net, TameParts
<1>7. ASSUME NEW c \in Conns, NEW n \in Nat, NEW ok \in BOOLEAN, ShellSent(c, n, ok),
             ok \in MayFindMemory
      PROVE  TameParts'
  BY <1>7, MayFind, SentStep, PolledTold DEF ShellSent, line, TameParts
<1>8. ASSUME NEW c \in Conns, NEW ok \in BOOLEAN, ShellPoll(c, ok), ok \in MayFindMemory
      PROVE  TameParts'
  BY <1>8, MayFind, PollStep, PolledTold DEF ShellPoll, line, TameParts
<1>9. ASSUME NEW ok \in BOOLEAN, ok \in MayFindMemory, NetPrintf(ok) PROVE TameParts'
  BY <1>9, MayFind, PrintfStep, PrintfTold DEF TameParts
<1>10. ASSUME NEW ok \in BOOLEAN, ok \in MayFindMemory, NetPutsFlush(ok) PROVE TameParts'
  BY <1>10, MayFind, FlushStep, FlushTold DEF TameParts
<1>11. ASSUME NEW ok \in BOOLEAN, ok \in MayFindMemory, NetPutsEnd(ok) PROVE TameParts'
  BY <1>11, MayFind, FlushStep, EndTold DEF TameParts
<1>12. CASE NetPutsCopy
  BY <1>12, CopyStep, CopyTold DEF TameParts
<1>13. CASE SkipTelnetCommand \/ BackSpace \/ Enter \/ Character
  <2>1. stack[1].op # "puts"
    BY <1>13, TopHas DEF SkipTelnetCommand, BackSpace, Enter, Character, InLoop, Runs, TypeInv
  <2> QED
    BY <1>13, <2>1, AloneStep, LoopTold
       DEF SkipTelnetCommand, BackSpace, Enter, Character, net, TameParts
<1>14. CASE WaitDone \/ RecvDone \/ CallsDone
  <2>1. stack[1].op # "puts"
    BY <1>14, TopHas DEF WaitDone, RecvDone, CallsDone, Runs, TypeInv
  <2> QED
    BY <1>14, <2>1, AloneStep, WaitTold, RecvDoneTold, CallsDoneTold
       DEF WaitDone, RecvDone, CallsDone, net, TameParts
<1>15. CASE Welcome \/ Command
  <2>1. stack[1].op # "puts"
    BY <1>15, TopHas, MainsDiffer DEF Welcome, Command, TypeInv
  <2> QED
    BY <1>15, <2>1, AloneStep, MainTold DEF Welcome, Command, net, TameParts
<1>16. CASE CallPrintf \/ CallPuts \/ CallWait \/ CallClear
  <2>1. stack[1].op # "puts"
    BY <1>16, TopHas
       DEF CallPrintf, CallPuts, CallWait, CallClear, Calling, Runs, TypeInv
  <2> QED
    BY <1>16, <2>1, AloneStep, CallsTold
       DEF CallPrintf, CallPuts, CallWait, CallClear, net, TameParts
<1>17. CASE CallClose
  BY <1>17, LeaveStep, CallsTold DEF TameParts
<1> QED
  BY <1>1, <1>2, <1>3, <1>4, <1>5, <1>6, <1>7, <1>8, <1>9, <1>10, <1>11, <1>12, <1>13, <1>14,
     <1>15, <1>16, <1>17, NextIs

LEMMA TameStutters == TameParts /\ UNCHANGED <<vars, world>> => TameParts'
BY DEF vars, net, line, TameParts, OneCon, Buffered, BufferOK, Slice, ByteAt, Live, Told, Ready,
       Fresh, TameFrames, TameFrame

LEMMA TameInit == Init => TameParts
<1> SUFFICES ASSUME Init PROVE TameParts
  OBVIOUS
<1>1. TameFrames(stack) /\ stack[1] = Main("poll")
  <2>1. PICK t : t = stack /\ t = <<>> \o <<Main("poll")>>
    BY DEF Init
  <2>2. PICK todo : todo \in Seq(CallType)
    BY CommandTyped
  <2>3. TameFrames(t) /\ t[1] = Main("poll")
    BY <2>1, <2>2, MainTame
  <2> QED
    BY <2>1, <2>3
<1>2. Told
  BY <1>1, MainsDiffer DEF Told, Ready, Init
<1>3. OneCon /\ Buffered
  BY ShellAssumption DEF Init, OneCon, Buffered, Live
<1> QED
  BY <1>2, <1>3 DEF TameParts

LEMMA TameInvariant == Spec => []TameInv
<1>1. Init => TameInv
  BY TameInit DEF TameInv, TameParts
<1>2. TypeInv /\ TypeInv' /\ TameInv /\ [Next /\ UNCHANGED world]_<<vars, world>> => TameInv'
  <2>1. Tame' /\ [Next /\ UNCHANGED world]_<<vars, world>> => Tame
    BY DEF Tame
  <2>2. Tame /\ TypeInv /\ TypeInv' /\ TameParts /\ [Next /\ UNCHANGED world]_<<vars, world>>
          => TameParts'
    BY TameStep, TameStutters
  <2> QED
    BY <2>1, <2>2 DEF TameInv, TameParts
<1> QED
  BY <1>1, <1>2, TypeInvariant, PTL DEF Spec

(* StreamIntact for any sizes of the buffers and any number of pcbs, when   *)
(* users come one after the other and wait for the prompt, or when lwIP is  *)
(* out of memory now and then: what is on the wire is what NetPrintf() and  *)
(* NetPuts() have put into PrintBuf and the peer has not acknowledged, byte *)
(* by byte, because both only start on an empty buffer and lwIP takes all   *)
(* of it or nothing.                                                        *)
THEOREM StreamsIntact == Spec => []StreamIntact
<1>1. TypeInv /\ TameInv => StreamIntact
  <2>1. Data => /\ gShellPrint.Len \in Nat /\ gShellPrint.BytesQueued \in Nat
                /\ gShellPrint.BytesSent \in Nat
    BY DEF Data, PrintType
  <2> QED
    BY <2>1 DEF TypeInv, TameInv, Buffered, BufferOK, StreamIntact, Live
<1> QED
  BY <1>1, TypeInvariant, TameInvariant, PTL
=============================================================================
