---------------------------- MODULE I2cHw_proofs ----------------------------
(***************************************************************************)
(* Whatever the devices hold, acknowledge or stretch, and however the      *)
(* driver's polls fall between the controller's ticks, a call's            *)
(* transactions are its own; for any set of devices, setup of the encoders *)
(* and budget of polls that suffices for a block.                          *)
(*                                                                         *)
(* The inductive invariant says at which point of its code a call is, in   *)
(* which phase the controller is then, and that the polls that are left    *)
(* are enough for the ticks that the transaction still takes; or that a    *)
(* device holds the clock, and the call can only fail.                     *)
(***************************************************************************)
EXTENDS I2cHw, TLAPS, SequenceTheorems, WellFoundedInduction

CallSet ==
  {c \in [rw : {"read", "write"}, dev : Devices, addr : Nat, data : DATA, len : {1, 2}] :
     c.rw = "write" => c.len = 1}

-----------------------------------------------------------------------------
(* What is left of a call c at each point of its code, before the points t. *)

Registers == [rw : {"read", "write"}, enable : BOOLEAN, dev : Devices, addr : Nat, data : DATA]

Patches ==
  [rw : {"read", "write"}, enable : BOOLEAN]
    \cup [dev : Devices] \cup [addr : Nat] \cup [data : DATA]

OpSet ==
  {<<"wait", b>> : b \in BOOLEAN} \cup {<<"check">>, <<"result">>} \cup {<<"put", p>> : p \in Patches}

Code == Seq(OpSet)

SResult(t)     == << <<"result">> >> \o t
SCheck2(t)     == << <<"check">> >> \o SResult(t)
SWait2(t)      == Wait(TRUE, SCheck2(t))
SClear(c, t)   == Put(Command(c, FALSE), SWait2(t))
SAwait(c, t)   == Wait(FALSE, SClear(c, t))
SEnable(c, t)  == Put(Command(c, TRUE), SAwait(c, t))
SPrepare(c, t) == Put(Command(c, FALSE), SEnable(c, t))
SCheck1(c, t)  == << <<"check">> >> \o SPrepare(c, t)
SWait1(c, t)   == Wait(TRUE, SCheck1(c, t))
SData(c, t)    == Put([data |-> c.data], SWait1(c, t))
SAddr(c, j, t) ==
  Put([addr |-> c.addr + j - 1], IF c.rw = "write" THEN SData(c, t) ELSE SWait1(c, t))
Rest(c, j)     == IF j < c.len THEN SAddr(c, j + 1, <<>>) ELSE <<>>
SDev(c)        == Put([dev |-> c.dev], SAddr(c, 1, Rest(c, 1)))
SCheck0(c)     == << <<"check">> >> \o SDev(c)
SWait0(c)      == Wait(TRUE, SCheck0(c))

-----------------------------------------------------------------------------
(* The steps of a call.                                                     *)
LEMMA OpTypes ==
  ASSUME NEW c \in CallSet
  PROVE  /\ \A b \in BOOLEAN : <<"wait", b>> \in OpSet /\ <<"put", Command(c, b)>> \in OpSet
         /\ <<"check">> \in OpSet /\ <<"result">> \in OpSet
         /\ <<"put", [dev |-> c.dev]>> \in OpSet /\ <<"put", [data |-> c.data]>> \in OpSet
         /\ \A j \in 1 .. 2 : <<"put", [addr |-> c.addr + j - 1]>> \in OpSet
<1>1. c.rw \in {"read", "write"} /\ c.dev \in Devices /\ c.addr \in Nat /\ c.data \in DATA
  BY DEF CallSet
<1>2. \A p \in Patches : <<"put", p>> \in OpSet
  BY DEF OpSet
<1>3. \A b \in BOOLEAN : Command(c, b) \in Patches
  BY <1>1 DEF Patches, Command
<1>4. [dev |-> c.dev] \in Patches /\ [data |-> c.data] \in Patches
  BY <1>1 DEF Patches
<1>5. \A j \in 1 .. 2 : [addr |-> c.addr + j - 1] \in Patches
  <2> SUFFICES ASSUME NEW j \in 1 .. 2 PROVE [addr |-> c.addr + j - 1] \in Patches
    OBVIOUS
  <2>1. c.addr + j - 1 \in Nat
    BY <1>1
  <2> QED
    BY <2>1 DEF Patches
<1>6. \A b \in BOOLEAN : <<"wait", b>> \in OpSet
  BY DEF OpSet
<1>7. <<"check">> \in OpSet /\ <<"result">> \in OpSet
  BY DEF OpSet
<1> QED
  BY <1>2, <1>3, <1>4, <1>5, <1>6, <1>7

(* An operation before the others: op is the first, s are the others.       *)
Begins(code, op, s) ==
  code \in Code /\ s \in Code /\ code # <<>> /\ Head(code) = op /\ Tail(code) = s

LEMMA FirstIs ==
  ASSUME NEW op \in OpSet, NEW s \in Code
  PROVE  Begins(<<op>> \o s, op, s)
<1>1. s \in Seq(OpSet) /\ <<op>> \in Seq(OpSet)
  BY DEF Code
<1>2. <<op>> \o s \in Seq(OpSet) /\ Len(<<op>> \o s) = 1 + Len(s)
  BY <1>1
<1>3. <<op>> \o s # <<>> /\ Head(<<op>> \o s) = op /\ Tail(<<op>> \o s) = s
  BY <1>1, <1>2
<1> QED
  BY <1>1, <1>2, <1>3 DEF Begins, Code

LEMMA Fires ==
  ASSUME NEW c \in CallSet, NEW t \in Code
  PROVE  /\ Begins(SWait1(c, t), <<"wait", TRUE>>, SCheck1(c, t))
         /\ Begins(SCheck1(c, t), <<"check">>, SPrepare(c, t))
         /\ Begins(SPrepare(c, t), <<"put", Command(c, FALSE)>>, SEnable(c, t))
         /\ Begins(SEnable(c, t), <<"put", Command(c, TRUE)>>, SAwait(c, t))
         /\ Begins(SAwait(c, t), <<"wait", FALSE>>, SClear(c, t))
         /\ Begins(SClear(c, t), <<"put", Command(c, FALSE)>>, SWait2(t))
         /\ Begins(SWait2(t), <<"wait", TRUE>>, SCheck2(t))
         /\ Begins(SCheck2(t), <<"check">>, SResult(t))
         /\ Begins(SResult(t), <<"result">>, t)
<1>0. \A op \in OpSet, s \in Code : Begins(<<op>> \o s, op, s)
  BY FirstIs
<1>c. \A code, op, s : Begins(code, op, s) => code \in Code
  BY DEF Begins
<1>o. /\ <<"wait", TRUE>> \in OpSet /\ <<"wait", FALSE>> \in OpSet
      /\ <<"put", Command(c, TRUE)>> \in OpSet /\ <<"put", Command(c, FALSE)>> \in OpSet
      /\ <<"check">> \in OpSet /\ <<"result">> \in OpSet
  BY OpTypes
<1>1. Begins(SResult(t), <<"result">>, t)
  BY <1>0, <1>o DEF SResult
<1>2. Begins(SCheck2(t), <<"check">>, SResult(t))
  BY <1>0, <1>o, <1>1, <1>c DEF SCheck2
<1>3. Begins(SWait2(t), <<"wait", TRUE>>, SCheck2(t))
  BY <1>0, <1>o, <1>2, <1>c DEF SWait2, Wait
<1>4. Begins(SClear(c, t), <<"put", Command(c, FALSE)>>, SWait2(t))
  BY <1>0, <1>o, <1>3, <1>c DEF SClear, Put
<1>5. Begins(SAwait(c, t), <<"wait", FALSE>>, SClear(c, t))
  BY <1>0, <1>o, <1>4, <1>c DEF SAwait, Wait
<1>6. Begins(SEnable(c, t), <<"put", Command(c, TRUE)>>, SAwait(c, t))
  BY <1>0, <1>o, <1>5, <1>c DEF SEnable, Put
<1>7. Begins(SPrepare(c, t), <<"put", Command(c, FALSE)>>, SEnable(c, t))
  BY <1>0, <1>o, <1>6, <1>c DEF SPrepare, Put
<1>8. Begins(SCheck1(c, t), <<"check">>, SPrepare(c, t))
  BY <1>0, <1>o, <1>7, <1>c DEF SCheck1
<1>9. Begins(SWait1(c, t), <<"wait", TRUE>>, SCheck1(c, t))
  BY <1>0, <1>o, <1>8, <1>c DEF SWait1, Wait
<1> QED
  BY <1>1, <1>2, <1>3, <1>4, <1>5, <1>6, <1>7, <1>8, <1>9

LEMMA Fills ==
  ASSUME NEW c \in CallSet, NEW t \in Code, NEW j \in 1 .. 2
  PROVE  /\ Begins(SData(c, t), <<"put", [data |-> c.data]>>, SWait1(c, t))
         /\ Begins(SAddr(c, j, t), <<"put", [addr |-> c.addr + j - 1]>>,
                   IF c.rw = "write" THEN SData(c, t) ELSE SWait1(c, t))
<1>0. \A op \in OpSet, s \in Code : Begins(<<op>> \o s, op, s)
  BY FirstIs
<1>c. \A code, op, s : Begins(code, op, s) => code \in Code
  BY DEF Begins
<1>1. SWait1(c, t) \in Code
  BY <1>c, Fires
<1>2. Begins(SData(c, t), <<"put", [data |-> c.data]>>, SWait1(c, t))
  BY <1>0, <1>1, OpTypes DEF SData, Put
<1>3. SData(c, t) \in Code
  BY <1>2, <1>c
<1>4. <<"put", [addr |-> c.addr + j - 1]>> \in OpSet
  BY OpTypes
<1> DEFINE op == <<"put", [addr |-> c.addr + j - 1]>>
           s == IF c.rw = "write" THEN SData(c, t) ELSE SWait1(c, t)
<1>5. op \in OpSet /\ s \in Code /\ SAddr(c, j, t) = <<op>> \o s
  BY <1>1, <1>3, <1>4 DEF SAddr, Put
<1> HIDE DEF op, s
<1>6. Begins(SAddr(c, j, t), op, s)
  BY <1>0, <1>5
<1> QED
  BY <1>2, <1>6 DEF op, s

LEMMA Rests ==
  ASSUME NEW c \in CallSet
  PROVE  /\ \A j \in 1 .. 2 : Rest(c, j) \in Code
         /\ \A j \in 1 .. 2, t \in Code : SAddr(c, j, t) \in Code
<1>1. <<>> \in Code
  BY DEF Code
<1>2. ASSUME NEW j \in 1 .. 2, NEW t \in Code PROVE SAddr(c, j, t) \in Code
  BY Fills DEF Begins
<1>3. c.len \in {1, 2}
  BY DEF CallSet
<1>4. ASSUME NEW j \in 1 .. 2 PROVE Rest(c, j) \in Code
  <2>1. CASE j < c.len
    <3>1. j + 1 \in 1 .. 2 /\ Rest(c, j) = SAddr(c, j + 1, <<>>)
      BY <2>1, <1>3 DEF Rest
    <3> QED
      BY <3>1, <1>1, <1>2
  <2>2. CASE ~(j < c.len)
    BY <1>1, <2>2 DEF Rest
  <2> QED
    BY <2>1, <2>2
<1> QED
  BY <1>2, <1>4

LEMMA Opens ==
  ASSUME NEW c \in CallSet
  PROVE  /\ Begins(SWait0(c), <<"wait", TRUE>>, SCheck0(c))
         /\ Begins(SCheck0(c), <<"check">>, SDev(c))
         /\ Begins(SDev(c), <<"put", [dev |-> c.dev]>>, SAddr(c, 1, Rest(c, 1)))
<1>0. \A op \in OpSet, s \in Code : Begins(<<op>> \o s, op, s)
  BY FirstIs
<1>c. \A code, op, s : Begins(code, op, s) => code \in Code
  BY DEF Begins
<1>1. SAddr(c, 1, Rest(c, 1)) \in Code
  <2>1. Rest(c, 1) \in Code
    BY Rests
  <2> QED
    BY <2>1, Rests
<1>2. Begins(SDev(c), <<"put", [dev |-> c.dev]>>, SAddr(c, 1, Rest(c, 1)))
  BY <1>0, <1>1, OpTypes DEF SDev, Put
<1>3. Begins(SCheck0(c), <<"check">>, SDev(c))
  BY <1>0, <1>2, <1>c, OpTypes DEF SCheck0
<1>4. Begins(SWait0(c), <<"wait", TRUE>>, SCheck0(c))
  BY <1>0, <1>3, <1>c, OpTypes DEF SWait0, Wait
<1> QED
  BY <1>2, <1>3, <1>4

(* The code of a call.                                                      *)
LEMMA OpsAre ==
  ASSUME NEW c \in CallSet
  PROVE  Ops(c) = SWait0(c)
<1>0. c.rw \in {"read", "write"} /\ c.len \in {1, 2} /\ c.addr \in Nat /\ (c.rw = "write" => c.len = 1)
  BY DEF CallSet
<1>1. \A t : Ready(Fire(c, t)) = SWait1(c, t)
  BY DEF Ready, Fire, SWait1, SCheck1, SPrepare, SEnable, SAwait, SClear, SWait2, SCheck2, SResult
<1>2. \A t : Ready(Put([dev |-> c.dev], t)) = Wait(TRUE, << <<"check">> >> \o Put([dev |-> c.dev], t))
  BY DEF Ready
<1>3. SWait0(c) = Ready(Put([dev |-> c.dev], SAddr(c, 1, Rest(c, 1))))
  BY <1>2 DEF SWait0, SCheck0, SDev
<1>4. CASE c.len = 1
  <2>1. Rest(c, 1) = <<>> /\ c.addr + 1 - 1 = c.addr
    BY <1>0, <1>4 DEF Rest
  <2>2. SAddr(c, 1, <<>>) = Put([addr |-> c.addr], IF c.rw = "write" THEN SData(c, <<>>) ELSE SWait1(c, <<>>))
    BY <2>1 DEF SAddr
  <2>3. CASE c.rw = "write"
    BY <1>1, <1>3, <2>1, <2>2, <2>3 DEF Ops, WriteOps, SData
  <2>4. CASE c.rw = "read"
    BY <1>1, <1>3, <1>4, <2>1, <2>2, <2>4 DEF Ops, ReadOps
  <2> QED
    BY <1>0, <2>3, <2>4
<1>5. CASE c.len = 2
  <2>0. c.rw = "read"
    BY <1>0, <1>5
  <2>1. \A j, t : SAddr(c, j, t) = Put([addr |-> c.addr + j - 1], Ready(Fire(c, t)))
    BY <1>1, <2>0 DEF SAddr
  <2> DEFINE Law(f) ==
        f = [i \in 1 .. c.len + 1 |->
               IF i > c.len THEN <<>>
               ELSE Put([addr |-> c.addr + i - 1], Ready(Fire(c, f[i + 1])))]
      g == [i \in 1 .. 3 |->
              IF i = 3 THEN <<>>
              ELSE IF i = 2 THEN SAddr(c, 2, <<>>) ELSE SAddr(c, 1, SAddr(c, 2, <<>>))]
      round == CHOOSE f : Law(f)
  <2>2. Law(g)
    <3>1. 1 .. c.len + 1 = 1 .. 3
      BY <1>5
    <3>2. g[2] = SAddr(c, 2, <<>>) /\ g[3] = <<>>
      OBVIOUS
    <3>3. ASSUME NEW i \in 1 .. 3
          PROVE  g[i] = IF i > 2 THEN <<>> ELSE Put([addr |-> c.addr + i - 1], Ready(Fire(c, g[i + 1])))
      <4>1. CASE i = 3
        BY <4>1
      <4>2. CASE i = 2
        <5>1. SAddr(c, 2, <<>>) = Put([addr |-> c.addr + 2 - 1], Ready(Fire(c, <<>>)))
          BY <2>1
        <5> QED
          BY <4>2, <3>2, <5>1
      <4>3. CASE i = 1
        <5>1. g[1] = SAddr(c, 1, g[2])
          BY <3>2
        <5>2. SAddr(c, 1, g[2]) = Put([addr |-> c.addr + 1 - 1], Ready(Fire(c, g[2])))
          BY <2>1
        <5> HIDE DEF g
        <5> QED
          BY <4>3, <5>1, <5>2
      <4> QED
        BY <4>1, <4>2, <4>3
    <3> HIDE DEF g
    <3>4. g = [i \in 1 .. 3 |-> g[i]]
      BY DEF g
    <3>5. g = [i \in 1 .. 3 |-> IF i > 2 THEN <<>> ELSE Put([addr |-> c.addr + i - 1], Ready(Fire(c, g[i + 1])))]
      BY <3>3, <3>4
    <3> QED
      BY <3>1, <3>5, <1>5
  <2> HIDE DEF g
  <2>3. Law(round)
    BY <2>2
  <2> HIDE DEF round
  <2>4. round[3] = <<>>
    BY <2>3, <1>5
  <2>5. round[2] = SAddr(c, 2, <<>>)
    <3>1. round[2] = Put([addr |-> c.addr + 2 - 1], Ready(Fire(c, round[2 + 1])))
      BY <2>3, <1>5
    <3>2. SAddr(c, 2, <<>>) = Put([addr |-> c.addr + 2 - 1], Ready(Fire(c, <<>>)))
      BY <2>1
    <3>3. round[2 + 1] = <<>>
      BY <2>4
    <3> HIDE DEF Law
    <3> QED
      BY <3>1, <3>2, <3>3
  <2>6. round[1] = SAddr(c, 1, SAddr(c, 2, <<>>))
    <3>1. round[1] = Put([addr |-> c.addr + 1 - 1], Ready(Fire(c, round[1 + 1])))
      BY <2>3, <1>5
    <3>2. SAddr(c, 1, SAddr(c, 2, <<>>)) = Put([addr |-> c.addr + 1 - 1], Ready(Fire(c, SAddr(c, 2, <<>>))))
      BY <2>1
    <3>3. round[1 + 1] = SAddr(c, 2, <<>>)
      BY <2>5
    <3> HIDE DEF Law
    <3> QED
      BY <3>1, <3>2, <3>3
  <2>7. Rest(c, 1) = SAddr(c, 2, <<>>)
    BY <1>5 DEF Rest
  <2>8. BlockOps(c) = Ready(Put([dev |-> c.dev], round[1]))
    BY DEF BlockOps, round
  <2> QED
    BY <1>3, <1>5, <2>0, <2>6, <2>7, <2>8 DEF Ops
<1> QED
  BY <1>0, <1>4, <1>5

-----------------------------------------------------------------------------
(* The points of a call's code, by name: what is left of the call c at l,   *)
(* in its j-th transaction, what is done first, and which point comes next. *)
Waits  == {"wait0", "wait1", "await", "wait2"}
Checks == {"check0", "check1", "check2"}
Puts   == {"dev", "addr", "data", "prepare", "enable", "clear"}
Labels == Waits \cup Checks \cup Puts \cup {"result"}

Pos(l, c, j) ==
  [wait0 |-> SWait0(c), check0 |-> SCheck0(c), dev |-> SDev(c), addr |-> SAddr(c, j, Rest(c, j)),
   data |-> SData(c, Rest(c, j)), wait1 |-> SWait1(c, Rest(c, j)), check1 |-> SCheck1(c, Rest(c, j)),
   prepare |-> SPrepare(c, Rest(c, j)), enable |-> SEnable(c, Rest(c, j)), await |-> SAwait(c, Rest(c, j)),
   clear |-> SClear(c, Rest(c, j)), wait2 |-> SWait2(Rest(c, j)), check2 |-> SCheck2(Rest(c, j)),
   result |-> SResult(Rest(c, j))][l]

OpAt(l, c, j) ==
  [wait0 |-> <<"wait", TRUE>>, check0 |-> <<"check">>, dev |-> <<"put", [dev |-> c.dev]>>,
   addr |-> <<"put", [addr |-> c.addr + j - 1]>>, data |-> <<"put", [data |-> c.data]>>,
   wait1 |-> <<"wait", TRUE>>, check1 |-> <<"check">>, prepare |-> <<"put", Command(c, FALSE)>>,
   enable |-> <<"put", Command(c, TRUE)>>, await |-> <<"wait", FALSE>>,
   clear |-> <<"put", Command(c, FALSE)>>, wait2 |-> <<"wait", TRUE>>, check2 |-> <<"check">>,
   result |-> <<"result">>][l]

After(l, c) ==
  [wait0 |-> "check0", check0 |-> "dev", dev |-> "addr",
   addr |-> IF c.rw = "write" THEN "data" ELSE "wait1", data |-> "wait1", wait1 |-> "check1",
   check1 |-> "prepare", prepare |-> "enable", enable |-> "await", await |-> "clear",
   clear |-> "wait2", wait2 |-> "check2", check2 |-> "result"][l]

(* The first part of a call is gone through once, and data is for writes.   *)
Proper(l, c, j) == (l \in {"wait0", "check0", "dev"} => j = 1) /\ (l = "data" => c.rw = "write")

-----------------------------------------------------------------------------
Transaction == [rw : {"read", "write"}, dev : Devices, addr : Nat, data : DATA]

States == {"idle", "start", "device", "register", "data", "restart", "again", "value", "stop"}

Controller ==
  [state : States, enable : BOOLEAN, rw : {"read", "write"}, busy : BOOLEAN, nack : BOOLEAN, miso : DATA]

TypeInv ==
  /\ regs \in Registers /\ hw \in Controller
  /\ stretch \in Nat \cup {DEAD} /\ polls \in 0 .. PPT
  /\ todo \in Seq(CallSet) /\ call \in CallSet \cup {NoCall} /\ ops \in Code
  /\ Timeout \in Nat /\ Ret \in {"OK", "ERR"} /\ got \in Seq(DATA) /\ log \in Seq(Transaction)

(* The transactions that were begun are those the call asks for, n of them. *)
Mine ==
  /\ Len(log) <= call.len
  /\ \A i \in 1 .. Len(log) :
       /\ log[i].rw = call.rw /\ log[i].dev = call.dev /\ log[i].addr = call.addr + i - 1
       /\ call.rw = "write" => log[i].data = call.data

Made(n) == Mine /\ Len(log) = n

Read(n) ==
  call.rw = "read" => Len(got) = n /\ \A i \in 1 .. n : got[i] = log[i].data

(* Nothing goes on, and nothing will.                                       *)
Quiet == regs.enable = FALSE /\ hw.enable = FALSE /\ hw.state = "idle" /\ hw.busy = FALSE

(* The budget: r ticks take at most so many polls; the transactions after   *)
(* the j-th need theirs.                                                    *)
Cost(r)    == PPT * r
Budget     == Cost(10 + MaxStretch)
Need(j)    == IF j < call.len THEN Budget + 1 ELSE 1
Owes(j, r) == Timeout + polls >= Need(j) + Cost(r)

(* The ticks that a transaction still takes when nobody stretches.          *)
Left ==
  [device |-> 7, register |-> 6, restart |-> 5, again |-> 4, value |-> 3, data |-> 3, stop |-> 2, idle |-> 1]

(* What the controller read is what the device gave.                        *)
Outcome(j) ==
  (call.rw = "read" /\ hw.state \in {"stop", "idle"} /\ hw.nack = FALSE) => hw.miso = log[j].data

Before(j) == Quiet /\ Made(j - 1) /\ Timeout >= Budget + Need(j)

Busy(j) ==
  /\ hw.busy = TRUE /\ hw.enable = FALSE /\ hw.rw = call.rw
  /\ hw.state \in DOMAIN Left
  /\ hw.state = "data" => hw.rw = "write"
  /\ hw.state \in {"restart", "again", "value"} => hw.rw = "read"
  /\ Made(j) /\ Outcome(j) /\ Owes(j, Left[hw.state] + stretch)

Over(j) == Quiet /\ Made(j) /\ Outcome(j) /\ Timeout >= Need(j)

(* The start flag is set: the controller has not seen it, has seen it, has  *)
(* started, or is busy.                                                     *)
Unseen(j)  == hw.state = "idle" /\ hw.busy = FALSE /\ hw.enable = FALSE /\ Made(j - 1) /\ Owes(j, 10 + MaxStretch)
Seen(j)    == hw.state = "idle" /\ hw.busy = FALSE /\ hw.enable = TRUE /\ Made(j - 1) /\ Owes(j, 9 + MaxStretch)
Started(j) == hw.state = "start" /\ hw.busy = FALSE /\ hw.rw = call.rw /\ Made(j) /\ Owes(j, 8 + MaxStretch)
Begun(j)   == Busy(j) /\ hw.state = "device" /\ polls = 0
Awaits(j)  == Unseen(j) \/ Seen(j) \/ Started(j) \/ Begun(j)

(* The registers that are written by then.                                  *)
Known(l, j) ==
  /\ l \notin {"wait0", "check0", "dev"} => regs.dev = call.dev
  /\ l \in {"data", "wait1", "check1", "prepare", "enable", "await"} => regs.addr = call.addr + j - 1
  /\ l \in {"wait1", "check1", "prepare", "enable", "await"} => (call.rw = "write" => regs.data = call.data)
  /\ l \in {"enable", "await"} => regs.rw = call.rw

Early == {"wait0", "check0", "dev", "addr", "data", "wait1", "check1", "prepare", "enable"}

At(l, j) ==
  /\ Proper(l, call, j) /\ Known(l, j) /\ Read(j - 1)
  /\ l \in Early => Before(j)
  /\ l = "await" => Awaits(j) /\ regs.enable = TRUE
  /\ l = "clear" => Busy(j) /\ regs.enable = TRUE /\ (polls = 0 \/ hw.state = "device")
  /\ l = "wait2" => (Busy(j) /\ regs.enable = FALSE) \/ (Over(j) /\ polls = 0)
  /\ l \in {"check2", "result"} => Over(j)

(* No device holds the clock for ever.                                      *)
LiveNone   == call = NoCall /\ ops = <<>> /\ log = <<>> /\ Quiet
LiveDone   == /\ call \in CallSet /\ ops = <<>> /\ Quiet /\ Mine
              /\ Ret = "OK" => Made(call.len) /\ Read(call.len)
LiveAt(l, j) == ops = Pos(l, call, j) /\ At(l, j)
LiveCall   == call \in CallSet /\ Ret = "OK" /\ \E j \in 1 .. call.len, l \in Labels : LiveAt(l, j)
Live       == stretch \in Nat /\ (LiveNone \/ LiveDone \/ LiveCall)

(* One does: the controller is busy, and a call spends its budget and fails.*)
Hangs == {"device", "register", "again", "data", "value", "stop"}
DeadNone   == call = NoCall /\ ops = <<>> /\ log = <<>>
DeadDone   == call \in CallSet /\ ops = <<>> /\ Ret = "ERR" /\ Mine
DeadAt(l, j) ==
  /\ ops = Pos(l, call, j) /\ Proper(l, call, j) /\ Mine
  /\ l \in {"check0", "check2"} => Timeout = 0
DeadCall ==
  /\ call \in CallSet
  /\ \E j \in 1 .. call.len, l \in {"wait0", "check0", "clear", "wait2", "check2"} : DeadAt(l, j)
Dead ==
  /\ stretch = DEAD /\ hw.busy = TRUE /\ hw.enable = FALSE /\ hw.state \in Hangs
  /\ DeadNone \/ DeadDone \/ DeadCall

Inv == TypeInv /\ (Live \/ Dead)

-----------------------------------------------------------------------------
LEMMA Flow ==
  ASSUME NEW c \in CallSet, NEW j \in 1 .. c.len, NEW l \in Labels, Proper(l, c, j)
  PROVE  Begins(Pos(l, c, j), OpAt(l, c, j), IF l = "result" THEN Rest(c, j) ELSE Pos(After(l, c), c, j))
<1>1. c.len \in {1, 2} /\ j \in 1 .. 2
  BY DEF CallSet
<1>2. PICK t \in Code : t = Rest(c, j)
  BY <1>1, Rests
<1>3. CASE l = "wait0"
  BY <1>3, Opens DEF Pos, OpAt, After
<1>4. CASE l = "check0"
  BY <1>4, Opens DEF Pos, OpAt, After
<1>5. CASE l = "dev"
  <2>1. j = 1
    BY <1>5 DEF Proper
  <2> QED
    BY <1>5, <2>1, Opens DEF Pos, OpAt, After
<1>6. CASE l = "addr"
  <2>1. Begins(SAddr(c, j, t), <<"put", [addr |-> c.addr + j - 1]>>, IF c.rw = "write" THEN SData(c, t) ELSE SWait1(c, t))
    BY <1>1, Fills
  <2> QED
    BY <1>2, <1>6, <2>1 DEF Pos, OpAt, After
<1>7. CASE l = "data"
  BY <1>1, <1>2, <1>7, Fills DEF Pos, OpAt, After
<1>8. CASE l = "wait1"
  BY <1>2, <1>8, Fires DEF Pos, OpAt, After
<1>9. CASE l = "check1"
  BY <1>2, <1>9, Fires DEF Pos, OpAt, After
<1>10. CASE l = "prepare"
  BY <1>2, <1>10, Fires DEF Pos, OpAt, After
<1>11. CASE l = "enable"
  BY <1>2, <1>11, Fires DEF Pos, OpAt, After
<1>12. CASE l = "await"
  BY <1>2, <1>12, Fires DEF Pos, OpAt, After
<1>13. CASE l = "clear"
  BY <1>2, <1>13, Fires DEF Pos, OpAt, After
<1>14. CASE l = "wait2"
  BY <1>2, <1>14, Fires DEF Pos, OpAt, After
<1>15. CASE l = "check2"
  BY <1>2, <1>15, Fires DEF Pos, OpAt, After
<1>16. CASE l = "result"
  BY <1>2, <1>16, Fires DEF Pos, OpAt, After
<1> QED
  BY <1>3, <1>4, <1>5, <1>6, <1>7, <1>8, <1>9, <1>10, <1>11, <1>12, <1>13, <1>14, <1>15, <1>16
     DEF Labels, Waits, Checks, Puts

LEMMA Kinds ==
  ASSUME NEW c \in CallSet, NEW j \in 1 .. c.len, NEW l \in Labels
  PROVE  /\ l \in Waits => OpAt(l, c, j)[1] = "wait"
         /\ l = "await" => OpAt(l, c, j)[2] = FALSE
         /\ l \in {"wait0", "wait1", "wait2"} => OpAt(l, c, j)[2] = TRUE
         /\ l \in Checks => OpAt(l, c, j)[1] = "check"
         /\ l \in Puts => OpAt(l, c, j)[1] = "put"
         /\ l = "result" => OpAt(l, c, j)[1] = "result"
<1>1. ASSUME l \in Waits
      PROVE  /\ OpAt(l, c, j)[1] = "wait"
             /\ l = "await" => OpAt(l, c, j)[2] = FALSE
             /\ l # "await" => OpAt(l, c, j)[2] = TRUE
  <2>1. CASE l = "await"
    BY <2>1 DEF OpAt
  <2>2. CASE l = "wait0"
    BY <2>2 DEF OpAt
  <2>3. CASE l = "wait1"
    BY <2>3 DEF OpAt
  <2>4. CASE l = "wait2"
    BY <2>4 DEF OpAt
  <2> QED
    BY <1>1, <2>1, <2>2, <2>3, <2>4 DEF Waits
<1>2. ASSUME l \in Checks PROVE OpAt(l, c, j)[1] = "check"
  BY <1>2 DEF OpAt, Checks
<1>3. ASSUME l \in Puts PROVE OpAt(l, c, j)[1] = "put"
  <2>1. CASE l \in {"dev", "addr", "data"}
    BY <2>1 DEF OpAt
  <2>2. CASE l \in {"prepare", "enable", "clear"}
    BY <2>2 DEF OpAt
  <2> QED
    BY <1>3, <2>1, <2>2 DEF Puts
<1>4. ASSUME l = "result" PROVE OpAt(l, c, j)[1] = "result"
  BY <1>4 DEF OpAt
<1> QED
  BY <1>1, <1>2, <1>3, <1>4 DEF Waits

LEMMA NextPoint ==
  ASSUME NEW c \in CallSet, NEW j \in 1 .. c.len, NEW l \in Labels, Proper(l, c, j), l # "result"
  PROVE  After(l, c) \in Labels /\ Proper(After(l, c), c, j)
  BY DEF After, Proper, Labels, Waits, Checks, Puts

(* After the last step of a transaction comes the next one, or nothing.     *)
LEMMA NextRound ==
  ASSUME NEW c \in CallSet, NEW j \in 1 .. c.len
  PROVE  IF j < c.len THEN Rest(c, j) = Pos("addr", c, j + 1) /\ j + 1 \in 1 .. c.len ELSE Rest(c, j) = <<>>
<1>1. c.len \in {1, 2}
  BY DEF CallSet
<1>2. CASE j < c.len
  <2>1. Rest(c, j + 1) = <<>> /\ Rest(c, j) = SAddr(c, j + 1, <<>>) /\ j + 1 \in 1 .. c.len
    BY <1>1, <1>2 DEF Rest
  <2>2. Pos("addr", c, j + 1) = SAddr(c, j + 1, Rest(c, j + 1))
    BY DEF Pos
  <2> QED
    BY <1>2, <2>1, <2>2
<1>3. CASE ~(j < c.len)
  BY <1>3 DEF Rest
<1> QED
  BY <1>2, <1>3

-----------------------------------------------------------------------------
(* Numbers: the budget, and what holds from 0 on.                           *)
LEMMA Costs ==
  /\ \A r \in Int : Cost(r) \in Int
  /\ \A q \in Int, r \in Int : q < r => Cost(q) + PPT <= Cost(r)
  /\ Cost(0) = 0
<1>1. PPT \in Nat \ {0}
  BY I2cAssumption
<1>2. \A r \in Int : PPT * r \in Int
  BY <1>1
<1>3. ASSUME NEW q \in Int, NEW r \in Int, q < r PROVE PPT * q + PPT <= PPT * r
  <2>1. PICK d \in Nat : r = q + 1 + d
    <3>1. r - q - 1 \in Nat /\ r = q + 1 + (r - q - 1)
      BY <1>3
    <3> QED
      BY <3>1
  <2>2. PPT * (q + 1 + d) = PPT * q + PPT + PPT * d
    BY <1>1
  <2>3. PPT * d \in Nat
    BY <1>1
  <2> QED
    BY <1>1, <2>1, <2>2, <2>3
<1> QED
  BY <1>1, <1>2, <1>3 DEF Cost

LEMMA Smallest ==
  ASSUME NEW T \in SUBSET Nat, T # {}
  PROVE  \E i \in T : \A j \in T : i <= j
<1> DEFINE R == {ss \in Nat \X Nat : ss[1] < ss[2]}
<1>1. R = OpToRel(<, Nat)
  BY DEF OpToRel
<1>2. IsWellFoundedOn(R, Nat)
  BY <1>1, NatLessThanWellFounded
<1>3. PICK i \in T : \A j \in T : <<j, i>> \notin R
  BY <1>2, WFMin, Zenon
<1>4. ASSUME NEW j \in T PROVE i <= j
  <2>1. ~(j < i)
    BY <1>3
  <2> QED
    BY <2>1
<1> QED
  BY <1>4

(* What holds of 1, and of every number after one it holds of, holds of all *)
(* up to m.                                                                 *)
LEMMA UpFromOne ==
  ASSUME NEW m \in Nat, NEW T, m >= 1 => 1 \in T, \A n \in 2 .. m : n - 1 \in T => n \in T
  PROVE  1 .. m \subseteq T
<1> SUFFICES ASSUME {n \in 1 .. m : n \notin T} # {} PROVE FALSE
  OBVIOUS
<1> DEFINE Out == {n \in 1 .. m : n \notin T}
<1>1. Out \in SUBSET Nat
  OBVIOUS
<1>2. PICK i \in Out : \A j \in Out : i <= j
  BY <1>1, Smallest
<1>3. i # 1 /\ i \in 2 .. m
  OBVIOUS
<1>4. i - 1 \in 1 .. m /\ i - 1 \notin Out
  BY <1>2, <1>3
<1> QED
  BY <1>3, <1>4

-----------------------------------------------------------------------------
(* Sequences of sequences put together.                                     *)
LEMMA FlattenType ==
  ASSUME NEW S, NEW q \in Seq(Seq(S))
  PROVE  FlattenSeq(q) \in Seq(S)
<1>1. CASE Len(q) = 0
  <2>1. q = <<>>
    BY <1>1
  <2> QED
    BY <1>1, <2>1 DEF FlattenSeq
<1>2. CASE Len(q) # 0
  <2> DEFINE n == Len(q)
             Law(f, k) == \A i \in 1 .. k : f[i] = IF i = 1 THEN q[i] ELSE f[i - 1] \o q[i]
             T == {k \in 1 .. n : \E f \in [1 .. k -> Seq(S)] : Law(f, k)}
  <2>0. n \in Nat /\ n >= 1 /\ \A i \in 1 .. n : q[i] \in Seq(S)
    BY <1>2
  <2> HIDE DEF n
  <2>1. 1 \in T
    <3> DEFINE f == [i \in 1 .. 1 |-> q[1]]
    <3>1. f \in [1 .. 1 -> Seq(S)] /\ Law(f, 1)
      BY <2>0
    <3> HIDE DEF f, Law
    <3> QED
      BY <2>0, <3>1
  <2>2. ASSUME NEW k \in 2 .. n, k - 1 \in T PROVE k \in T
    <3>1. PICK f \in [1 .. k - 1 -> Seq(S)] : Law(f, k - 1)
      BY <2>2
    <3>2. f[k - 1] \in Seq(S) /\ q[k] \in Seq(S)
      BY <2>0, <2>2
    <3>a. \A p \in Seq(S), r \in Seq(S) : p \o r \in Seq(S)
      OBVIOUS
    <3>b. f[k - 1] \o q[k] \in Seq(S)
      BY <3>2, <3>a, Zenon
    <3> PICK new \in Seq(S) : new = f[k - 1] \o q[k]
      BY <3>b, Zenon
    <3> DEFINE g == [i \in 1 .. k |-> IF i = k THEN new ELSE f[i]]
    <3>3. g \in [1 .. k -> Seq(S)]
      BY <2>2
    <3>4. ASSUME NEW i \in 1 .. k PROVE g[i] = IF i = 1 THEN q[i] ELSE g[i - 1] \o q[i]
      <4>1. CASE i = k
        <5>0. k \in 1 .. k /\ k - 1 \in 1 .. k /\ k - 1 # k /\ k # 1
          BY <2>2
        <5>1. g[i] = new /\ g[i - 1] = f[k - 1] /\ i # 1
          BY <4>1, <5>0
        <5> QED
          BY <4>1, <5>1
      <4>2. CASE i # k
        <5>1. i \in 1 .. k - 1 /\ g[i] = f[i] /\ (i # 1 => g[i - 1] = f[i - 1])
          BY <4>2, <2>2
        <5> HIDE DEF g
        <5> QED
          BY <3>1, <5>1
      <4> QED
        BY <4>1, <4>2
    <3>5. Law(g, k)
      BY <3>4
    <3> HIDE DEF g, Law
    <3> QED
      BY <2>0, <2>2, <3>3, <3>5
  <2>3. n \in T
    <3> HIDE DEF T
    <3>1. 1 .. n \subseteq T
      BY <2>0, <2>1, <2>2, UpFromOne
    <3> QED
      BY <2>0, <3>1
  <2> DEFINE Rule(f) == f = [i \in 1 .. n |-> IF i = 1 THEN q[i] ELSE f[i - 1] \o q[i]]
             flat == CHOOSE f : Rule(f)
  <2>4. PICK f \in [1 .. n -> Seq(S)] : Law(f, n)
    BY <2>3
  <2>5. Rule(f)
    <3>1. f = [i \in 1 .. n |-> f[i]]
      OBVIOUS
    <3> QED
      BY <2>4, <3>1
  <2>6. Rule(flat)
    <3> HIDE DEF Rule
    <3> QED
      BY <2>5
  <2> DEFINE U == {k \in 1 .. n : flat[k] \in Seq(S)}
  <2> HIDE DEF flat
  <2>7. 1 \in U
    BY <2>0, <2>6
  <2>8. ASSUME NEW k \in 2 .. n, k - 1 \in U PROVE k \in U
    <3>0. k \in 1 .. n /\ k # 1 /\ flat[k - 1] \in Seq(S) /\ q[k] \in Seq(S)
      BY <2>0, <2>8
    <3>1. flat[k] = flat[k - 1] \o q[k]
      BY <2>6, <3>0
    <3>a. \A p \in Seq(S), r \in Seq(S) : p \o r \in Seq(S)
      OBVIOUS
    <3>2. flat[k] \in Seq(S)
      BY <3>0, <3>1, <3>a, Zenon
    <3> QED
      BY <2>8, <3>2
  <2>9. n \in U
    <3> HIDE DEF U
    <3>1. 1 .. n \subseteq U
      BY <2>0, <2>7, <2>8, UpFromOne
    <3> QED
      BY <2>0, <3>1
  <2>10. FlattenSeq(q) = flat[n]
    BY <1>2 DEF FlattenSeq, flat, n
  <2> QED
    BY <2>9, <2>10
<1> QED
  BY <1>1, <1>2

-----------------------------------------------------------------------------
(* Types.                                                                   *)
LEMMA NoCallIsNone == NoCall \notin CallSet /\ NoCall.rw = "none"
  BY DEF NoCall, CallSet

(* What a register write does to the registers.                             *)
LEMMA Sets ==
  ASSUME regs \in Registers
  PROVE  /\ \A w \in {"read", "write"}, b \in BOOLEAN :
              Set([rw |-> w, enable |-> b])
                = [rw |-> w, enable |-> b, dev |-> regs.dev, addr |-> regs.addr, data |-> regs.data]
         /\ \A d \in Devices :
              Set([dev |-> d])
                = [rw |-> regs.rw, enable |-> regs.enable, dev |-> d, addr |-> regs.addr, data |-> regs.data]
         /\ \A a \in Nat :
              Set([addr |-> a])
                = [rw |-> regs.rw, enable |-> regs.enable, dev |-> regs.dev, addr |-> a, data |-> regs.data]
         /\ \A v \in DATA :
              Set([data |-> v])
                = [rw |-> regs.rw, enable |-> regs.enable, dev |-> regs.dev, addr |-> regs.addr, data |-> v]
<1>0. DOMAIN regs = {"rw", "enable", "dev", "addr", "data"}
  BY DEF Registers
<1>1. ASSUME NEW w \in {"read", "write"}, NEW b \in BOOLEAN
      PROVE  Set([rw |-> w, enable |-> b])
               = [rw |-> w, enable |-> b, dev |-> regs.dev, addr |-> regs.addr, data |-> regs.data]
  <2> DEFINE p == [rw |-> w, enable |-> b]
  <2>1. DOMAIN p = {"rw", "enable"} /\ p.rw = w /\ p.enable = b
    OBVIOUS
  <2> HIDE DEF p
  <2>2. Set(p) = [rw |-> w, enable |-> b, dev |-> regs.dev, addr |-> regs.addr, data |-> regs.data]
    BY <1>0, <2>1 DEF Set
  <2> QED
    BY <2>2 DEF p
<1>2. ASSUME NEW d \in Devices
      PROVE  Set([dev |-> d])
               = [rw |-> regs.rw, enable |-> regs.enable, dev |-> d, addr |-> regs.addr, data |-> regs.data]
  BY <1>0 DEF Set
<1>3. ASSUME NEW a \in Nat
      PROVE  Set([addr |-> a])
               = [rw |-> regs.rw, enable |-> regs.enable, dev |-> regs.dev, addr |-> a, data |-> regs.data]
  BY <1>0 DEF Set
<1>4. ASSUME NEW v \in DATA
      PROVE  Set([data |-> v])
               = [rw |-> regs.rw, enable |-> regs.enable, dev |-> regs.dev, addr |-> regs.addr, data |-> v]
  BY <1>0 DEF Set
<1> QED
  BY <1>1, <1>2, <1>3, <1>4

LEMMA SetType ==
  ASSUME regs \in Registers, NEW p \in Patches
  PROVE  Set(p) \in Registers
<1>f. /\ regs.rw \in {"read", "write"} /\ regs.enable \in BOOLEAN /\ regs.dev \in Devices
      /\ regs.addr \in Nat /\ regs.data \in DATA
  BY DEF Registers
<1>1. CASE p \in [rw : {"read", "write"}, enable : BOOLEAN]
  <2>1. PICK w \in {"read", "write"}, b \in BOOLEAN : p = [rw |-> w, enable |-> b]
    BY <1>1
  <2>2. Set(p) = [rw |-> w, enable |-> b, dev |-> regs.dev, addr |-> regs.addr, data |-> regs.data]
    BY <2>1, Sets
  <2> QED
    BY <2>2, <1>f DEF Registers
<1>2. CASE p \in [dev : Devices]
  <2>1. PICK d \in Devices : p = [dev |-> d]
    BY <1>2
  <2>2. Set(p) = [rw |-> regs.rw, enable |-> regs.enable, dev |-> d, addr |-> regs.addr, data |-> regs.data]
    BY <2>1, Sets
  <2> QED
    BY <2>2, <1>f DEF Registers
<1>3. CASE p \in [addr : Nat]
  <2>1. PICK a \in Nat : p = [addr |-> a]
    BY <1>3
  <2>2. Set(p) = [rw |-> regs.rw, enable |-> regs.enable, dev |-> regs.dev, addr |-> a, data |-> regs.data]
    BY <2>1, Sets
  <2> QED
    BY <2>2, <1>f DEF Registers
<1>4. CASE p \in [data : DATA]
  <2>1. PICK v \in DATA : p = [data |-> v]
    BY <1>4
  <2>2. Set(p) = [rw |-> regs.rw, enable |-> regs.enable, dev |-> regs.dev, addr |-> regs.addr, data |-> v]
    BY <2>1, Sets
  <2> QED
    BY <2>2, <1>f DEF Registers
<1> QED
  BY <1>1, <1>2, <1>3, <1>4 DEF Patches

LEMMA CallsType ==
  ASSUME TypeInv
  PROVE  Calls \subseteq CallSet
<1>1. CASE todo # <<>>
  <2>1. Head(todo) \in CallSet
    BY <1>1 DEF TypeInv
  <2> QED
    BY <1>1, <2>1 DEF Calls
<1>2. CASE todo = <<>>
  <2>1. I2CRead(KEYBOARD, 0) \in CallSet
    BY I2cAssumption DEF I2CRead, CallSet
  <2>2. Requests \subseteq CallSet
    BY I2cAssumption DEF CallSet
  <2> QED
    BY <1>2, <2>1, <2>2 DEF Calls, I2CWriteCmd, I2CReadCmd
<1> QED
  BY <1>1, <1>2

LEMMA DirtyType ==
  ASSUME NEW c, NEW v
  PROVE  Dirty(c, v) \in Seq(CallSet)
<1>1. I2CRead(KEYBOARD, 8) \in CallSet /\ I2CReadBlock(KEYBOARD, 6, 2) \in CallSet
  BY I2cAssumption DEF I2CRead, I2CReadBlock, CallSet
<1> DEFINE one == IF v % 2 = 1 THEN <<I2CRead(KEYBOARD, 8)>> ELSE <<>>
           two == IF (v \div 2) % 2 = 1 THEN <<I2CReadBlock(KEYBOARD, 6, 2)>> ELSE <<>>
<1>2. one \in Seq(CallSet) /\ two \in Seq(CallSet)
  BY <1>1
<1> HIDE DEF one, two
<1>3. one \o two \in Seq(CallSet)
  BY <1>2
<1>4. <<>> \in Seq(CallSet)
  OBVIOUS
<1>5. Dirty(c, v) = IF c # I2CRead(KEYBOARD, 0) THEN <<>> ELSE one \o two
  BY DEF Dirty, one, two
<1> QED
  BY <1>3, <1>4, <1>5

LEMMA InitType == Init => TypeInv
<1> SUFFICES ASSUME Init PROVE TypeInv
  OBVIOUS
<1> USE I2cAssumption
<1>1. regs \in Registers /\ hw \in Controller /\ stretch \in Nat /\ polls \in 0 .. PPT
  BY DEF Init, Registers, Controller, States
<1>2. todo \in Seq(CallSet)
  <2> DEFINE q == [i \in 1 .. Len(ENCODERS) |-> dvi_setup(ENCODERS[i])]
  <2>1. ASSUME NEW d \in Devices PROVE dvi_setup(d) \in Seq(CallSet)
    <3>1. ASSUME NEW i \in 1 .. Len(DVI_SETUP)
          PROVE  I2CWrite(d, DVI_SETUP[i][1], DVI_SETUP[i][2]) \in CallSet
      <4>1. DVI_SETUP[i] \in Nat \X DATA
        OBVIOUS
      <4>2. DVI_SETUP[i][1] \in Nat /\ DVI_SETUP[i][2] \in DATA
        BY <4>1
      <4> QED
        BY <4>2 DEF I2CWrite, CallSet
    <3>2. Len(DVI_SETUP) \in Nat
      OBVIOUS
    <3> QED
      BY <3>1, <3>2 DEF dvi_setup
  <2>2. \A i \in 1 .. Len(ENCODERS) : ENCODERS[i] \in Devices
    OBVIOUS
  <2>3. q \in Seq(Seq(CallSet))
    <3>1. Len(ENCODERS) \in Nat /\ \A i \in 1 .. Len(ENCODERS) : dvi_setup(ENCODERS[i]) \in Seq(CallSet)
      BY <2>1, <2>2
    <3> QED
      BY <3>1
  <2> HIDE DEF q
  <2>4. FlattenSeq(q) \in Seq(CallSet)
    BY <2>3, FlattenType
  <2> QED
    BY <2>4 DEF Init, q
<1>3. call = NoCall /\ ops \in Code /\ Timeout \in Nat /\ Ret \in {"OK", "ERR"}
  BY DEF Init, Code
<1>4. got \in Seq(DATA) /\ log \in Seq(Transaction)
  BY DEF Init
<1> QED
  BY <1>1, <1>2, <1>3, <1>4 DEF TypeInv

LEMMA DriverType ==
  ASSUME TypeInv, Driver
  PROVE  TypeInv'
<1>p. PPT \in Nat \ {0} /\ TIMEOUT \in Nat \ {0}
  BY I2cAssumption
<1>t. ASSUME ops # <<>> PROVE Tail(ops) \in Code /\ Head(ops) \in OpSet
  BY <1>t DEF TypeInv, Code
<1>s. ASSUME Step, polls < PPT
      PROVE  polls' \in 0 .. PPT /\ hw' = hw /\ stretch' = stretch /\ log' = log /\ call' = call
  BY <1>s, <1>p DEF Step, TypeInv
<1>e. <<>> \in Code
  BY DEF Code
<1>1. CASE Call
  <2>1. PICK c \in Calls : call' = c /\ ops' = Ops(c)
    BY <1>1 DEF Call
  <2>2. c \in CallSet
    BY <2>1, CallsType
  <2>3. ops' \in Code
    BY <2>1, <2>2, OpsAre, Opens DEF Begins
  <2>4. todo' \in Seq(CallSet)
    BY <1>1 DEF Call, TypeInv
  <2>5. <<>> \in Seq(DATA) /\ <<>> \in Seq(Transaction)
    OBVIOUS
  <2> QED
    BY <1>1, <1>p, <2>1, <2>2, <2>3, <2>4, <2>5 DEF Call, TypeInv
<1>2. CASE Poll
  <2>1. ops' \in Code
    BY <1>2, <1>t DEF Poll, Op, TypeInv
  <2>2. Timeout' \in Nat
    BY <1>2 DEF Poll, Spent, TypeInv
  <2> QED
    BY <1>2, <1>s, <2>1, <2>2 DEF Poll, Op, TypeInv
<1>3. CASE Check
  <2>1. ops' \in Code /\ Ret' \in {"OK", "ERR"}
    BY <1>3, <1>t, <1>e DEF Check, Op, TypeInv
  <2> QED
    BY <1>3, <1>s, <2>1 DEF Check, Op, TypeInv
<1>4. CASE Write
  <2>1. Head(ops) \in OpSet /\ Head(ops)[1] = "put"
    BY <1>4, <1>t DEF Write, Op
  <2>2. PICK p \in Patches : Head(ops) = <<"put", p>>
    BY <2>1 DEF OpSet
  <2>3. regs' = Set(p)
    BY <1>4, <2>2 DEF Write
  <2>4. regs' \in Registers
    BY <2>3, SetType DEF TypeInv
  <2>5. ops' \in Code
    BY <1>4, <1>t DEF Write, Op
  <2> QED
    BY <1>4, <1>s, <2>4, <2>5 DEF Write, Op, TypeInv
<1>5. CASE Result
  <2>1. ops' \in Code /\ Ret' \in {"OK", "ERR"}
    BY <1>5, <1>t, <1>e DEF Result, Op, TypeInv
  <2>2. got' \in Seq(DATA)
    BY <1>5 DEF Result, TypeInv, Controller
  <2> QED
    BY <1>5, <1>s, <2>1, <2>2 DEF Result, Op, TypeInv
<1>6. CASE Return
  <2>1. PICK d \in Seq(CallSet) : todo' = todo \o d
    <3>1. Dirty(call, got[1]) \in Seq(CallSet) /\ <<>> \in Seq(CallSet)
      BY DirtyType
    <3> QED
      BY <1>6, <3>1 DEF Return
  <2>2. todo' \in Seq(CallSet)
    BY <2>1 DEF TypeInv
  <2>3. <<>> \in Seq(DATA) /\ <<>> \in Seq(Transaction)
    OBVIOUS
  <2> QED
    BY <1>6, <2>2, <2>3 DEF Return, TypeInv
<1> QED
  BY <1>1, <1>2, <1>3, <1>4, <1>5, <1>6 DEF Driver

(* The last transaction's data.                                             *)
WithData(h, v) == [h EXCEPT ![Len(h)].data = v]

LEMMA Given ==
  ASSUME NEW v \in DATA, NEW h \in Seq(Transaction)
  PROVE  /\ WithData(h, v) \in Seq(Transaction) /\ Len(WithData(h, v)) = Len(h)
         /\ \A i \in 1 .. Len(h) :
              /\ WithData(h, v)[i].rw = h[i].rw /\ WithData(h, v)[i].dev = h[i].dev
              /\ WithData(h, v)[i].addr = h[i].addr
              /\ i # Len(h) => WithData(h, v)[i] = h[i]
         /\ Len(h) > 0 => WithData(h, v)[Len(h)].data = v
<1>0. PICK g : g = WithData(h, v)
  OBVIOUS
<1>1. PICK n \in Nat : n = Len(h)
  OBVIOUS
<1>2. h \in [1 .. n -> Transaction]
  BY <1>1
<1>3. g = [i \in 1 .. n |-> IF i = n THEN [h[i] EXCEPT !.data = v] ELSE h[i]]
  BY <1>0, <1>1, <1>2 DEF WithData
<1>4. ASSUME NEW i \in 1 .. n
      PROVE  /\ [h[i] EXCEPT !.data = v] \in Transaction
             /\ [h[i] EXCEPT !.data = v].rw = h[i].rw /\ [h[i] EXCEPT !.data = v].dev = h[i].dev
             /\ [h[i] EXCEPT !.data = v].addr = h[i].addr /\ [h[i] EXCEPT !.data = v].data = v
  <2>1. h[i] \in Transaction
    BY <1>2
  <2> QED
    BY <2>1 DEF Transaction
<1>5. \A i \in 1 .. n : g[i] \in Transaction
  BY <1>2, <1>3, <1>4
<1>6. g \in [1 .. n -> Transaction]
  BY <1>3, <1>5
<1>7. g \in Seq(Transaction) /\ Len(g) = n
  BY <1>6, <1>1
<1>8. ASSUME NEW i \in 1 .. n
      PROVE  /\ g[i].rw = h[i].rw /\ g[i].dev = h[i].dev /\ g[i].addr = h[i].addr
             /\ i # n => g[i] = h[i]
             /\ i = n => g[i].data = v
  <2>1. CASE i = n
    BY <1>3, <1>4, <2>1
  <2>2. CASE i # n
    BY <1>3, <2>2
  <2> QED
    BY <2>1, <2>2
<1>9. n > 0 => n \in 1 .. n
  OBVIOUS
<1> QED
  BY <1>0, <1>1, <1>7, <1>8, <1>9

(* A tick's outcomes, field by field.                                       *)
LEMMA TickType ==
  ASSUME TypeInv, Tick
  PROVE  TypeInv'
<1>0. /\ regs' = regs /\ todo' = todo /\ call' = call /\ ops' = ops /\ Timeout' = Timeout
      /\ Ret' = Ret /\ got' = got /\ polls' = 0
  BY DEF Tick, driver
<1>p. PPT \in Nat \ {0} /\ MaxStretch \in Nat
  BY I2cAssumption
<1>h. /\ hw.state \in States /\ hw.enable \in BOOLEAN /\ hw.rw \in {"read", "write"}
      /\ hw.busy \in BOOLEAN /\ hw.nack \in BOOLEAN /\ hw.miso \in DATA
  BY DEF TypeInv, Controller
<1>r. /\ regs.rw \in {"read", "write"} /\ regs.enable \in BOOLEAN /\ regs.dev \in Devices
      /\ regs.addr \in Nat /\ regs.data \in DATA
  BY DEF TypeInv, Registers
<1> SUFFICES hw' \in Controller /\ stretch' \in Nat \cup {DEAD} /\ log' \in Seq(Transaction)
  BY <1>0, <1>p DEF TypeInv
<1>1. CASE Idle
  <2>1. hw' \in Controller
    BY <1>1, <1>r DEF Idle, TypeInv, Controller, States
  <2>2. log' \in Seq(Transaction)
    <3>1. [rw |-> regs.rw, dev |-> regs.dev, addr |-> regs.addr, data |-> regs.data] \in Transaction
      BY <1>r DEF Transaction
    <3> QED
      BY <1>1, <3>1 DEF Idle, TypeInv
  <2> QED
    BY <1>1, <2>1, <2>2 DEF Idle, TypeInv
<1>2. CASE Start
  BY <1>2, <1>p DEF Start, TypeInv, Controller, States
<1>3. CASE Byte
  <2>1. ASSUME hw.state \in DOMAIN Follows PROVE Follows[hw.state] \in States
    BY <2>1 DEF Follows, States
  <2> QED
    BY <1>3, <2>1 DEF Byte, TypeInv, Controller, States
<1>4. CASE Restart
  BY <1>4 DEF Restart, TypeInv, Controller, States
<1>5. CASE Value
  <2>1. PICK v \in DATA : /\ hw' = [hw EXCEPT !.state = "stop", !.miso = v]
                         /\ log' = [log EXCEPT ![Len(log)].data = v]
    BY <1>5 DEF Value
  <2>2. hw' \in Controller
    BY <2>1 DEF TypeInv, Controller, States
  <2>3. log' \in Seq(Transaction)
    BY <2>1, Given DEF TypeInv, WithData
  <2> QED
    BY <1>5, <2>2, <2>3 DEF Value, TypeInv
<1>6. CASE Stop
  BY <1>6 DEF Stop, TypeInv, Controller, States
<1>7. CASE Stretch
  <2>1. stretch' \in Nat \cup {DEAD}
    BY <1>7 DEF Stretch, TypeInv, DEAD
  <2> QED
    BY <1>7, <2>1 DEF Stretch, TypeInv
<1> QED
  BY <1>1, <1>2, <1>3, <1>4, <1>5, <1>6, <1>7 DEF Tick

LEMMA TypeStep == TypeInv /\ [Next]_vars => TypeInv'
<1> SUFFICES ASSUME TypeInv, [Next]_vars PROVE TypeInv'
  OBVIOUS
<1>1. CASE UNCHANGED vars
  BY <1>1 DEF vars, TypeInv
<1> QED
  BY <1>1, DriverType, TickType DEF Next

-----------------------------------------------------------------------------
(* The driver's steps while nothing hangs.  They leave the controller and   *)
(* the log alone.                                                           *)
Same == hw' = hw /\ stretch' = stretch /\ log' = log /\ call' = call

LEMMA SameHw ==
  ASSUME Same
  PROVE  /\ Mine' <=> Mine
         /\ \A n : (Made(n)' <=> Made(n)) /\ (Outcome(n)' <=> Outcome(n)) /\ Need(n)' = Need(n)
         /\ got' = got => \A n : Read(n)' <=> Read(n)
         /\ regs' = regs => (Quiet' <=> Quiet) /\ \A l, j : Known(l, j)' <=> Known(l, j)
         /\ \A l, c, j : (Pos(l, c, j)' = Pos(l, c, j)) /\ (Proper(l, c, j)' <=> Proper(l, c, j))
<1>1. Mine' <=> Mine
  BY DEF Same, Mine
<1>2. \A n : Made(n)' <=> Made(n)
  BY <1>1 DEF Same, Made
<1>3. \A n : (Outcome(n)' <=> Outcome(n)) /\ Need(n)' = Need(n)
  BY DEF Same, Outcome, Need
<1>4. got' = got => \A n : Read(n)' <=> Read(n)
  BY DEF Same, Read
<1>5. regs' = regs => (Quiet' <=> Quiet) /\ \A l, j : Known(l, j)' <=> Known(l, j)
  BY DEF Same, Quiet, Known
<1> QED
  BY <1>1, <1>2, <1>3, <1>4, <1>5

(* The budget in numbers.                                                   *)
LEMMA Needs ==
  /\ Budget \in Nat /\ \A r \in Nat : Cost(r) \in Nat /\ (r >= 1 => Cost(r) >= PPT)
  /\ \A j : Need(j) \in Nat /\ Need(j) >= 1
<1>1. PPT \in Nat \ {0} /\ MaxStretch \in Nat
  BY I2cAssumption
<1>2. ASSUME NEW r \in Nat PROVE Cost(r) \in Nat /\ (r >= 1 => Cost(r) >= PPT)
  <2>1. CASE r = 0
    BY <2>1, Costs
  <2>2. CASE r # 0
    <3>1. 0 < r /\ r \in Int /\ 0 \in Int
      BY <2>2
    <3>2. Cost(r) \in Int /\ Cost(0) + PPT <= Cost(r) /\ Cost(0) = 0
      BY <3>1, Costs
    <3> QED
      BY <1>1, <3>2
  <2> QED
    BY <2>1, <2>2
<1>3. Budget \in Nat
  BY <1>1, <1>2 DEF Budget
<1>4. \A j : Need(j) \in Nat /\ Need(j) >= 1
  BY <1>3 DEF Need
<1> QED
  BY <1>2, <1>3, <1>4

LEMMA Lefts ==
  ASSUME NEW x \in DOMAIN Left
  PROVE  Left[x] \in 1 .. 7
  BY DEF Left

(* A transaction that goes on, whose ticks are not counted twice.           *)
LEMMA SameBusy ==
  ASSUME Same, NEW j, Busy(j), polls' = polls + 1, Timeout' \in {Timeout, Timeout - 1}, stretch \in Nat,
         TypeInv, TypeInv'
  PROVE  Busy(j)'
<1>1. (Made(j)' <=> Made(j)) /\ (Outcome(j)' <=> Outcome(j)) /\ Need(j)' = Need(j)
  BY SameHw
<1>2. hw' = hw /\ stretch' = stretch /\ call' = call
  BY DEF Same
<1>3. Owes(j, Left[hw.state] + stretch)'
  <2>1. Timeout + polls >= Need(j) + Cost(Left[hw.state] + stretch)
    BY DEF Busy, Owes
  <2>2. Left[hw.state] + stretch \in Nat
    <3>1. Left[hw.state] \in 1 .. 7
      BY Lefts DEF Busy
    <3> QED
      BY <3>1
  <2>3. Cost(Left[hw.state] + stretch) \in Nat /\ Need(j) \in Nat
    BY <2>2, Needs
  <2>4. /\ Timeout \in Nat /\ polls \in Nat /\ Timeout' \in Nat /\ polls' \in Nat
    BY I2cAssumption DEF TypeInv
  <2>5. Timeout' + polls' >= Need(j) + Cost(Left[hw.state] + stretch)
    <3>1. PICK n \in Nat : n = Cost(Left[hw.state] + stretch)
      BY <2>3
    <3>2. PICK m \in Nat : m = Need(j)
      BY <2>3
    <3>3. Timeout + polls >= m + n
      BY <2>1, <3>1, <3>2
    <3>t. PICK t \in Nat : t = Timeout
      BY <2>4
    <3>p. PICK p \in Nat : p = polls
      BY <2>4
    <3>u. PICK u \in Nat : u = Timeout'
      BY <2>4
    <3>w. u = t \/ u = t - 1
      BY <3>t, <3>u
    <3>x. t + p >= m + n
      BY <3>3, <3>t, <3>p
    <3>v. u + (p + 1) >= m + n
      BY <3>w, <3>x
    <3>4. Timeout' + polls' >= m + n
      BY <3>p, <3>u, <3>v
    <3> QED
      BY <3>1, <3>2, <3>4
  <2> QED
    BY <1>1, <1>2, <2>5 DEF Owes
<1> QED
  BY <1>1, <1>2, <1>3 DEF Busy

LEMMA Point ==
  ASSUME call \in CallSet, NEW j \in 1 .. call.len, NEW l \in Labels, LiveAt(l, j)
  PROVE  /\ ops # <<>> /\ Head(ops) = OpAt(l, call, j)
         /\ l # "result" => Tail(ops) = Pos(After(l, call), call, j)
         /\ l = "result" => Tail(ops) = Rest(call, j)
         /\ l # "result" => After(l, call) \in Labels /\ Proper(After(l, call), call, j)
<1>1. Proper(l, call, j) /\ ops = Pos(l, call, j)
  BY DEF LiveAt, At
<1>2. Begins(ops, OpAt(l, call, j), IF l = "result" THEN Rest(call, j) ELSE Pos(After(l, call), call, j))
  BY <1>1, Flow
<1>3. l # "result" => After(l, call) \in Labels /\ Proper(After(l, call), call, j)
  BY <1>1, NextPoint
<1> QED
  BY <1>2, <1>3 DEF Begins

LEMMA LiveIn ==
  ASSUME Live, call # NoCall, ops # <<>>
  PROVE  /\ call \in CallSet /\ Ret = "OK" /\ stretch \in Nat
         /\ \E j \in 1 .. call.len, l \in Labels : LiveAt(l, j)
  BY DEF Live, LiveNone, LiveDone, LiveCall

(* What a live step leads to.                                               *)
LEMMA LiveTo ==
  ASSUME call' \in CallSet, Ret' = "OK", stretch' \in Nat, NEW j \in 1 .. call'.len, NEW l \in Labels,
         ops' = Pos(l, call', j), At(l, j)'
  PROVE  Live'
  BY DEF Live, LiveCall, LiveAt

(* To be at a point is to be in one of its phases.                          *)
LEMMA AtIs ==
  ASSUME NEW l, NEW j, Proper(l, call, j)', Known(l, j)', Read(j - 1)',
         \/ l \in Early /\ Before(j)'
         \/ l = "await" /\ Awaits(j)' /\ regs'.enable = TRUE
         \/ l = "clear" /\ Busy(j)' /\ regs'.enable = TRUE /\ (polls' = 0 \/ hw'.state = "device")
         \/ l = "wait2" /\ Busy(j)' /\ regs'.enable = FALSE
         \/ l = "wait2" /\ Over(j)' /\ polls' = 0
         \/ l \in {"check2", "result"} /\ Over(j)'
  PROVE  At(l, j)'
  BY DEF At, Early

LEMMA LivePoll ==
  ASSUME TypeInv, TypeInv', Live, Poll
  PROVE  Live'
<1>s. /\ Same /\ polls' = polls + 1 /\ regs' = regs /\ got' = got /\ Ret' = Ret
      /\ call # NoCall /\ ops # <<>> /\ Head(ops)[1] = "wait" /\ polls < PPT
  BY DEF Poll, Step, Same, Op
<1>l. call \in CallSet /\ Ret = "OK" /\ stretch \in Nat
  BY <1>s, LiveIn
<1>1. PICK j \in 1 .. call.len, l \in Labels : LiveAt(l, j)
  BY <1>s, LiveIn
<1>2. At(l, j) /\ ops = Pos(l, call, j)
  BY <1>1 DEF LiveAt
<1>3. Head(ops) = OpAt(l, call, j)
  BY <1>l, <1>1, Point
<1>k. /\ l = "await" => OpAt(l, call, j)[2] = FALSE
      /\ l \in {"wait0", "wait1", "wait2"} => OpAt(l, call, j)[2] = TRUE
      /\ l \in Checks => OpAt(l, call, j)[1] = "check"
      /\ l \in Puts => OpAt(l, call, j)[1] = "put"
      /\ l = "result" => OpAt(l, call, j)[1] = "result"
  BY <1>l, Kinds
<1>4. l \in Waits
  <2>1. Head(ops)[1] = "wait"
    BY <1>s
  <2>2. l \in Checks \cup Puts \cup {"result"} => Head(ops)[1] # "wait"
    BY <1>3, <1>k
  <2> QED
    BY <2>1, <2>2 DEF Labels
<1>5. /\ Tail(ops) = Pos(After(l, call), call, j) /\ After(l, call) \in Labels
      /\ Proper(After(l, call), call, j)
  BY <1>l, <1>1, <1>4, Point DEF Waits
<1>6. (l = "await" => Head(ops)[2] = FALSE) /\ (l \in {"wait0", "wait1", "wait2"} => Head(ops)[2] = TRUE)
  BY <1>3, <1>k
<1>c. call' = call /\ hw' = hw /\ stretch' = stretch
  BY <1>s DEF Same
<1>7. /\ Proper(l, call, j) /\ Known(l, j) /\ Read(j - 1)
      /\ \A k : Proper(k, call, j)' <=> Proper(k, call, j)
      /\ \A k : Known(k, j)' <=> Known(k, j)
      /\ Read(j - 1)' <=> Read(j - 1)
      /\ \A n : (Made(n)' <=> Made(n)) /\ (Outcome(n)' <=> Outcome(n)) /\ Need(n)' = Need(n)
      /\ Quiet' <=> Quiet
  <2>1. Proper(l, call, j) /\ Known(l, j) /\ Read(j - 1)
    BY <1>2 DEF At
  <2>2. \A k : Proper(k, call, j)' <=> Proper(k, call, j)
    BY <1>c DEF Proper
  <2>3. Read(j - 1)' <=> Read(j - 1)
    BY <1>s, SameHw
  <2>4. (Quiet' <=> Quiet) /\ \A k : Known(k, j)' <=> Known(k, j)
    BY <1>s, SameHw
  <2>5. \A n : (Made(n)' <=> Made(n)) /\ (Outcome(n)' <=> Outcome(n)) /\ Need(n)' = Need(n)
    BY <1>s, SameHw
  <2> QED
    BY <2>1, <2>2, <2>3, <2>4, <2>5
<1>n. /\ Timeout \in Nat /\ polls \in Nat /\ PPT \in Nat \ {0} /\ MaxStretch \in Nat
      /\ Need(j) \in Nat /\ Need(j) >= 1 /\ Budget \in Nat
  <2>1. Timeout \in Nat /\ polls \in 0 .. PPT
    BY DEF TypeInv
  <2>2. PPT \in Nat \ {0} /\ MaxStretch \in Nat
    BY I2cAssumption
  <2> QED
    BY <2>1, <2>2, Needs
(* The wait is over: the next point.                                        *)
<1>8. ASSUME NEW m \in Labels, ops' = Pos(m, call, j), At(m, j)' PROVE Live'
  <2>1. /\ call' \in CallSet /\ Ret' = "OK" /\ stretch' \in Nat /\ j \in 1 .. call'.len
        /\ ops' = Pos(m, call', j)
    BY <1>s, <1>l, <1>c, <1>8
  <2> QED
    BY <1>8, <2>1, LiveTo
<1>9. CASE l \in {"wait0", "wait1"}
  <2>1. Before(j) /\ Head(ops)[2] = TRUE
    BY <1>2, <1>6, <1>9 DEF At, Early
  <2>2. hw.busy # Head(ops)[2]
    BY <2>1 DEF Before, Quiet
  <2>3. ops' = Tail(ops) /\ Timeout' = Timeout
    BY <2>2 DEF Poll
  <2>4. Before(j)'
    BY <2>1, <2>3, <1>7 DEF Before, Budget, Cost
  <2>a. PICK m \in Labels : m = After(l, call)
    BY <1>5
  <2>5. m \in Early /\ (Known(l, j) => Known(m, j))
    BY <1>9, <2>a DEF After, Early, Known
  <2>6. At(m, j)'
    BY <2>4, <2>5, <2>a, <1>5, <1>7, AtIs
  <2> QED
    BY <1>5, <1>8, <2>3, <2>6, <2>a
<1>10. CASE l = "await"
  <2>1. Awaits(j) /\ regs.enable = TRUE /\ Head(ops)[2] = FALSE
    BY <1>2, <1>6, <1>10 DEF At
  <2>2. CASE Begun(j)
    <3>1. hw.busy # Head(ops)[2]
      BY <2>1, <2>2 DEF Begun, Busy
    <3>2. ops' = Tail(ops) /\ Timeout' = Timeout
      BY <3>1 DEF Poll
    <3>3. Busy(j)'
      BY <3>2, <2>2, <1>s, <1>l, SameBusy DEF Begun
    <3>4. After(l, call) = "clear" /\ (Known(l, j) => Known("clear", j))
      BY <1>10 DEF After, Known
    <3>5. hw'.state = "device" /\ regs'.enable = TRUE
      BY <2>1, <2>2, <1>s, <1>c DEF Begun
    <3>6. At("clear", j)'
      BY <3>3, <3>4, <3>5, <1>5, <1>7, AtIs
    <3> QED
      BY <1>5, <1>8, <3>2, <3>4, <3>6
  <2>3. CASE Unseen(j) \/ Seen(j) \/ Started(j)
    <3>1. PICK r \in Nat \ {0} : /\ Owes(j, r) /\ Cost(r) \in Nat /\ Cost(r) >= PPT
                                 /\ r \in {8 + MaxStretch, 9 + MaxStretch, 10 + MaxStretch}
      <4>1. /\ 8 + MaxStretch \in Nat \ {0} /\ 8 + MaxStretch >= 1
            /\ 9 + MaxStretch \in Nat \ {0} /\ 9 + MaxStretch >= 1
            /\ 10 + MaxStretch \in Nat \ {0} /\ 10 + MaxStretch >= 1
        BY <1>n
      <4>2. Owes(j, 8 + MaxStretch) \/ Owes(j, 9 + MaxStretch) \/ Owes(j, 10 + MaxStretch)
        BY <2>3 DEF Unseen, Seen, Started
      <4> QED
        BY <4>1, <4>2, Needs
    <3>2. Timeout > 0
      <4>1. PICK x \in Nat : x = Cost(r)
        BY <3>1
      <4>2. Timeout + polls >= Need(j) + x /\ x >= PPT
        BY <3>1, <4>1 DEF Owes
      <4> QED
        BY <4>2, <1>n, <1>s
    <3>3. hw.busy = Head(ops)[2]
      BY <2>1, <2>3 DEF Unseen, Seen, Started
    <3>4. Timeout' = Timeout - 1 /\ ops' = ops
      BY <3>2, <3>3 DEF Poll, Spent
    <3>5. Timeout' + polls' = Timeout + polls
      BY <3>4, <1>s, <1>n
    <3>6. \A q : Owes(j, q)' <=> Owes(j, q)
      BY <3>5, <1>7 DEF Owes, Cost
    <3>7. Awaits(j)'
      <4>1. CASE Unseen(j)
        BY <4>1, <3>6, <1>7, <1>c DEF Unseen, Awaits
      <4>2. CASE Seen(j)
        BY <4>2, <3>6, <1>7, <1>c DEF Seen, Awaits
      <4>3. CASE Started(j)
        BY <4>3, <3>6, <1>7, <1>c DEF Started, Awaits
      <4> QED
        BY <2>3, <4>1, <4>2, <4>3
    <3>8. At(l, j)'
      BY <3>7, <2>1, <1>s, <1>7, <1>10, AtIs
    <3> QED
      BY <1>2, <1>8, <3>4, <3>8
  <2> QED
    BY <2>1, <2>2, <2>3 DEF Awaits
<1>11. CASE l = "wait2"
  <2>0. Head(ops)[2] = TRUE
    BY <1>6, <1>11
  <2>1. CASE Over(j) /\ polls = 0
    <3>1. hw.busy # Head(ops)[2]
      BY <2>0, <2>1 DEF Over, Quiet
    <3>2. ops' = Tail(ops) /\ Timeout' = Timeout
      BY <3>1 DEF Poll
    <3>3. Over(j)'
      BY <2>1, <3>2, <1>7 DEF Over
    <3>4. After(l, call) = "check2" /\ (Known(l, j) => Known("check2", j))
      BY <1>11 DEF After, Known
    <3>6. At("check2", j)'
      BY <3>3, <3>4, <1>5, <1>7, AtIs
    <3> QED
      BY <1>5, <1>8, <3>2, <3>4, <3>6
  <2>2. CASE Busy(j) /\ regs.enable = FALSE
    <3>1. hw.busy = Head(ops)[2]
      BY <2>0, <2>2 DEF Busy
    <3>2. Timeout > 0
      <4>1. PICK r \in 1 .. 7 : r = Left[hw.state]
        BY <2>2, Lefts DEF Busy
      <4>2. PICK q \in Nat : q = r + stretch /\ q >= 1
        BY <1>l
      <4>3. PICK x \in Nat : x = Cost(q) /\ x >= PPT
        BY <4>2, Needs
      <4>4. Timeout + polls >= Need(j) + x
        BY <2>2, <4>1, <4>2, <4>3 DEF Busy, Owes
      <4> QED
        BY <4>3, <4>4, <1>n, <1>s
    <3>3. Timeout' = Timeout - 1 /\ ops' = ops
      BY <3>1, <3>2 DEF Poll, Spent
    <3>4. Busy(j)'
      BY <3>3, <2>2, <1>s, <1>l, SameBusy
    <3>5. At(l, j)'
      BY <3>4, <2>2, <1>s, <1>7, <1>11, AtIs
    <3> QED
      BY <1>2, <1>8, <3>3, <3>5
  <2> QED
    BY <1>2, <1>11, <2>1, <2>2 DEF At
<1> QED
  BY <1>4, <1>9, <1>10, <1>11 DEF Waits

(* Where a driver step finds the call.                                      *)
Here(l, j) ==
  /\ LiveAt(l, j) /\ At(l, j) /\ ops = Pos(l, call, j) /\ Head(ops) = OpAt(l, call, j)
  /\ l # "result" =>
       Tail(ops) = Pos(After(l, call), call, j) /\ After(l, call) \in Labels /\ Proper(After(l, call), call, j)
  /\ l = "result" => Tail(ops) = Rest(call, j)

LEMMA LiveOp ==
  ASSUME Live, NEW name, Op(name)
  PROVE  /\ call # NoCall /\ call \in CallSet /\ Ret = "OK" /\ stretch \in Nat
         /\ \E j \in 1 .. call.len, l \in Labels :
              /\ Here(l, j)
              /\ name = "wait" => l \in Waits
              /\ name = "check" => l \in Checks
              /\ name = "put" => l \in Puts
              /\ name = "result" => l = "result"
<1>1. call # NoCall /\ ops # <<>> /\ Head(ops)[1] = name
  BY DEF Op
<1>2. call \in CallSet /\ Ret = "OK" /\ stretch \in Nat
  BY <1>1, LiveIn
<1>3. PICK j \in 1 .. call.len, l \in Labels : LiveAt(l, j)
  BY <1>1, LiveIn
<1>4. Head(ops) = OpAt(l, call, j)
  BY <1>2, <1>3, Point
<1>5. Here(l, j)
  <2>1. At(l, j) /\ ops = Pos(l, call, j)
    BY <1>3 DEF LiveAt
  <2>2. /\ l # "result" => Tail(ops) = Pos(After(l, call), call, j)
        /\ l = "result" => Tail(ops) = Rest(call, j)
        /\ l # "result" => After(l, call) \in Labels /\ Proper(After(l, call), call, j)
    BY <1>2, <1>3, Point
  <2> QED
    BY <1>3, <1>4, <2>1, <2>2 DEF Here
<1>6. /\ l \in Waits => OpAt(l, call, j)[1] = "wait"
      /\ l \in Checks => OpAt(l, call, j)[1] = "check"
      /\ l \in Puts => OpAt(l, call, j)[1] = "put"
      /\ l = "result" => OpAt(l, call, j)[1] = "result"
  BY <1>2, Kinds
<1>7. /\ name = "wait" => l \in Waits
      /\ name = "check" => l \in Checks
      /\ name = "put" => l \in Puts
      /\ name = "result" => l = "result"
  BY <1>1, <1>4, <1>6 DEF Labels
<1> QED
  BY <1>1, <1>2, <1>5, <1>7

LEMMA LiveCheck ==
  ASSUME TypeInv, TypeInv', Live, Check
  PROVE  Live'
<1>s. Same /\ polls' = polls + 1 /\ regs' = regs /\ got' = got /\ Timeout' = Timeout /\ Op("check")
  BY DEF Check, Step, Same
<1>c. call' = call /\ hw' = hw /\ stretch' = stretch
  BY <1>s DEF Same
<1>l. call \in CallSet /\ Ret = "OK" /\ stretch \in Nat
  BY <1>s, LiveOp
<1>1. PICK j \in 1 .. call.len, l \in Checks : Here(l, j)
  BY <1>s, LiveOp
<1>2. At(l, j)
  BY <1>1 DEF Here
<1>3. PICK m \in Labels : m = After(l, call) /\ Tail(ops) = Pos(m, call, j) /\ Proper(m, call, j)
  BY <1>1 DEF Here, Checks
<1>4. Before(j) \/ Over(j)
  BY <1>2 DEF At, Checks, Early
<1>5. Timeout # 0
  <2>1. Need(j) \in Nat /\ Need(j) >= 1 /\ Budget \in Nat /\ Timeout \in Nat
    BY Needs DEF TypeInv
  <2> QED
    BY <1>4, <2>1 DEF Before, Over
<1>6. ops' = Pos(m, call, j) /\ Ret' = "OK"
  BY <1>3, <1>5, <1>l DEF Check
<1>7. (Before(j) => Before(j)') /\ (Over(j) => Over(j)')
  <2>1. (Made(j)' <=> Made(j)) /\ (Made(j - 1)' <=> Made(j - 1)) /\ (Outcome(j)' <=> Outcome(j)) /\ Need(j)' = Need(j)
    BY <1>s, SameHw
  <2>2. Quiet' <=> Quiet
    BY <1>s, SameHw
  <2> QED
    BY <2>1, <2>2, <1>s DEF Before, Over, Budget, Cost
<1>8. (l \in Early => m \in Early) /\ (l = "check2" => m = "result") /\ (Known(l, j) => Known(m, j))
  BY <1>3 DEF After, Early, Checks, Known
<1>9. Known(m, j)' /\ Read(j - 1)' /\ Proper(m, call, j)'
  <2>1. Known(l, j) /\ Read(j - 1)
    BY <1>2 DEF At
  <2>2. (Known(m, j)' <=> Known(m, j)) /\ (Read(j - 1)' <=> Read(j - 1))
    BY <1>s, SameHw
  <2>3. Proper(m, call, j)'
    BY <1>3, <1>c DEF Proper
  <2> QED
    BY <1>8, <2>1, <2>2, <2>3
<1>10. At(m, j)'
  <2>1. CASE l \in Early
    <3>1. Before(j)'
      BY <1>2, <1>7, <2>1 DEF At
    <3> QED
      BY <1>8, <1>9, <2>1, <3>1, AtIs
  <2>2. CASE l = "check2"
    <3>1. Over(j)'
      BY <1>2, <1>7, <2>2 DEF At
    <3> QED
      BY <1>8, <1>9, <2>2, <3>1, AtIs
  <2> QED
    BY <2>1, <2>2 DEF Checks, Early
<1> QED
  <2>1. /\ call' \in CallSet /\ Ret' = "OK" /\ stretch' \in Nat /\ j \in 1 .. call'.len
        /\ ops' = Pos(m, call', j)
    BY <1>l, <1>c, <1>6
  <2> QED
    BY <1>10, <2>1, LiveTo

LEMMA LiveResult ==
  ASSUME TypeInv, TypeInv', Live, Result
  PROVE  Live'
<1>s. Same /\ polls' = polls + 1 /\ regs' = regs /\ Timeout' = Timeout /\ Op("result")
  BY DEF Result, Step, Same
<1>c. call' = call /\ hw' = hw /\ stretch' = stretch /\ log' = log
  BY <1>s DEF Same
<1>l. call \in CallSet /\ Ret = "OK" /\ stretch \in Nat
  BY <1>s, LiveOp
<1>1. PICK j \in 1 .. call.len : Here("result", j)
  BY <1>s, LiveOp
<1>2. At("result", j) /\ Tail(ops) = Rest(call, j)
  BY <1>1 DEF Here
<1>3. Over(j) /\ Read(j - 1) /\ Known("result", j)
  BY <1>2 DEF At
<1>4. (Mine' <=> Mine) /\ (Made(j)' <=> Made(j)) /\ (Quiet' <=> Quiet)
  BY <1>s, SameHw
<1>5. Quiet' /\ Mine' /\ Made(j)'
  BY <1>3, <1>4 DEF Over, Made
<1>6. CASE call.rw = "read" /\ hw.nack
  <2>1. ops' = <<>> /\ Ret' = "ERR"
    BY <1>6 DEF Result
  <2>2. LiveDone'
    BY <1>5, <1>c, <1>l, <2>1 DEF LiveDone
  <2> QED
    BY <1>c, <1>l, <2>2 DEF Live
<1>7. CASE ~(call.rw = "read" /\ hw.nack)
  <2>1. ops' = Rest(call, j) /\ Ret' = "OK"
    BY <1>2, <1>7, <1>l DEF Result
  <2>2. Read(j)'
    <3>1. CASE call.rw = "read"
      <4>1. hw.nack = FALSE /\ got' = Append(got, hw.miso)
        BY <1>7, <3>1 DEF Result, TypeInv, Controller
      <4>2. hw.miso = log[j].data
        BY <1>3, <3>1, <4>1 DEF Over, Quiet, Outcome
      <4>3. Len(got) = j - 1 /\ \A i \in 1 .. j - 1 : got[i] = log[i].data
        BY <1>3, <3>1 DEF Read
      <4>4. got \in Seq(DATA) /\ hw.miso \in DATA
        BY DEF TypeInv, Controller
      <4>5. Len(got') = j
        BY <4>1, <4>3, <4>4
      <4>6. \A i \in 1 .. j : got'[i] = log[i].data
        BY <4>1, <4>2, <4>3, <4>4
      <4> QED
        BY <1>c, <4>5, <4>6 DEF Read
    <3>2. CASE call.rw # "read"
      BY <1>c, <3>2 DEF Read
    <3> QED
      BY <3>1, <3>2
  <2>3. CASE j < call.len
    <3>1. PICK k \in 1 .. call.len : k = j + 1 /\ Rest(call, j) = Pos("addr", call, k)
      BY <1>l, <2>3, NextRound
    <3>2. k - 1 = j /\ ~(k < call.len) /\ call.len = 2
      BY <1>l, <2>3, <3>1 DEF CallSet
    <3>3. Timeout' >= Budget + Need(k)
      <4>1. Need(j) = Budget + 1 /\ Need(k) = 1
        BY <2>3, <3>2 DEF Need
      <4> QED
        BY <1>3, <1>s, <4>1 DEF Over
    <3>4. Before(k)'
      <4>1. Made(k - 1)'
        BY <1>5, <3>2
      <4>2. Need(k)' = Need(k) /\ Budget' = Budget
        BY <1>c DEF Need, Budget, Cost
      <4> QED
        BY <1>5, <3>3, <4>1, <4>2 DEF Before
    <3>5. Known("addr", k)' /\ Proper("addr", call, k)' /\ Read(k - 1)'
      <4>1. regs'.dev = call'.dev
        BY <1>3, <1>s, <1>c DEF Known
      <4> QED
        BY <2>2, <3>2, <4>1 DEF Known, Proper
    <3>6. At("addr", k)'
      BY <3>4, <3>5, AtIs DEF Early
    <3>7. /\ call' \in CallSet /\ Ret' = "OK" /\ stretch' \in Nat /\ k \in 1 .. call'.len
          /\ ops' = Pos("addr", call', k) /\ "addr" \in Labels
      BY <1>l, <1>c, <2>1, <3>1 DEF Labels, Puts
    <3> QED
      BY <3>6, <3>7, LiveTo
  <2>4. CASE ~(j < call.len)
    <3>1. j = call.len /\ ops' = <<>>
      BY <1>l, <2>1, <2>4, NextRound DEF CallSet
    <3>2. LiveDone'
      <4>1. Made(call.len)' /\ Read(call.len)'
        BY <1>5, <1>c, <2>2, <3>1
      <4> QED
        BY <1>5, <1>c, <1>l, <3>1, <4>1 DEF LiveDone
    <3> QED
      BY <1>c, <1>l, <3>2 DEF Live
  <2> QED
    BY <2>3, <2>4
<1> QED
  BY <1>6, <1>7

LEMMA LiveReturn ==
  ASSUME TypeInv, Live, Return
  PROVE  Live'
<1>1. call # NoCall /\ ops = <<>> /\ call' = NoCall /\ log' = <<>> /\ ops' = ops
  BY DEF Return
<1>2. regs' = regs /\ hw' = hw /\ stretch' = stretch
  BY DEF Return
<1>3. ~LiveCall
  <2> SUFFICES ASSUME LiveCall PROVE FALSE
    OBVIOUS
  <2>1. PICK j \in 1 .. call.len, l \in Labels : LiveAt(l, j)
    BY DEF LiveCall
  <2>2. call \in CallSet
    BY DEF LiveCall
  <2> QED
    BY <1>1, <2>1, <2>2, Point
<1>4. LiveDone /\ stretch \in Nat
  BY <1>1, <1>3 DEF Live, LiveNone
<1>5. Quiet'
  BY <1>2, <1>4 DEF LiveDone, Quiet
<1>6. LiveNone'
  BY <1>1, <1>5 DEF LiveNone
<1> QED
  BY <1>2, <1>4, <1>6 DEF Live

LEMMA LiveBegin ==
  ASSUME TypeInv, TypeInv', Live, Call
  PROVE  Live'
<1>1. call = NoCall /\ regs' = regs /\ hw' = hw /\ stretch' = stretch /\ polls' = polls
  BY DEF Call
<1>2. Timeout' = TIMEOUT /\ Ret' = "OK" /\ got' = <<>> /\ log' = <<>>
  BY DEF Call
<1>3. PICK c \in CallSet : call' = c /\ ops' = Ops(c)
  BY CallsType DEF Call
<1>4. stretch \in Nat /\ Quiet
  BY <1>1, NoCallIsNone DEF Live, LiveNone, LiveDone, LiveCall
<1>5. Quiet'
  BY <1>1, <1>4 DEF Quiet
<1>6. c.len \in {1, 2} /\ 1 \in 1 .. c.len
  BY DEF CallSet
<1>7. ops' = Pos("wait0", c, 1)
  BY <1>3, OpsAre DEF Pos
<1>8. Before(1)'
  <2>1. Made(1 - 1)'
    BY <1>2, <1>3, <1>6 DEF Made, Mine
  <2>2. Timeout' >= Budget' + Need(1)'
    <3>1. PICK b \in Nat : b = Budget /\ b = Budget'
      BY Needs DEF Budget, Cost
    <3>2. Need(1)' = IF 1 < c.len THEN b + 1 ELSE 1
      BY <1>3, <3>1 DEF Need
    <3>3. TIMEOUT > 2 * b /\ TIMEOUT \in Nat
      <4>1. 2 * PPT * (10 + MaxStretch) = 2 * (PPT * (10 + MaxStretch))
        <5>1. PPT \in Nat /\ MaxStretch \in Nat
          BY I2cAssumption
        <5> QED
          BY <5>1
      <4> QED
        BY <3>1, <4>1, I2cAssumption DEF Budget, Cost
    <3> QED
      BY <1>2, <3>1, <3>2, <3>3
  <2> QED
    BY <1>5, <2>1, <2>2 DEF Before
<1>9. At("wait0", 1)'
  <2>1. Known("wait0", 1)' /\ Proper("wait0", call, 1)'
    BY DEF Known, Proper
  <2>2. Read(1 - 1)'
    BY <1>2 DEF Read
  <2> QED
    BY <1>8, <2>1, <2>2, AtIs DEF Early
<1>10. /\ call' \in CallSet /\ stretch' \in Nat /\ 1 \in 1 .. call'.len
       /\ ops' = Pos("wait0", call', 1) /\ "wait0" \in Labels
  BY <1>1, <1>3, <1>4, <1>6, <1>7 DEF Labels, Waits
<1> QED
  BY <1>2, <1>9, <1>10, LiveTo

LEMMA LiveWrite ==
  ASSUME TypeInv, TypeInv', Live, Write
  PROVE  Live'
<1>s. Same /\ polls' = polls + 1 /\ got' = got /\ Timeout' = Timeout /\ Ret' = Ret /\ Op("put") /\ ops' = Tail(ops)
  BY DEF Write, Step, Same
<1>c. call' = call /\ hw' = hw /\ stretch' = stretch /\ log' = log
  BY <1>s DEF Same
<1>l. call \in CallSet /\ Ret = "OK" /\ stretch \in Nat
  BY <1>s, LiveOp
<1>f. call.rw \in {"read", "write"} /\ call.dev \in Devices /\ call.addr \in Nat /\ call.data \in DATA
  BY <1>l DEF CallSet
<1>1. PICK j \in 1 .. call.len, l \in Puts : Here(l, j)
  BY <1>s, LiveOp
<1>2. At(l, j) /\ Head(ops) = OpAt(l, call, j)
  BY <1>1 DEF Here
<1>3. PICK m \in Labels : m = After(l, call) /\ ops' = Pos(m, call, j) /\ Proper(m, call, j)
  BY <1>1, <1>s DEF Here, Puts
<1>4. Known(l, j) /\ Read(j - 1) /\ Proper(l, call, j) /\ regs \in Registers
  BY <1>2 DEF At, TypeInv
<1>5. Read(j - 1)' /\ Proper(m, call, j)'
  <2>1. Read(j - 1)'
    BY <1>s, <1>4, SameHw
  <2> QED
    BY <2>1, <1>3, <1>c DEF Proper
<1>6. (Made(j)' <=> Made(j)) /\ (Made(j - 1)' <=> Made(j - 1)) /\ (Outcome(j)' <=> Outcome(j)) /\ Need(j)' = Need(j)
  BY <1>s, SameHw
<1>w. regs' = Set(OpAt(l, call, j)[2])
  BY <1>2 DEF Write
<1>7. ASSUME At(m, j)' PROVE Live'
  <2>1. /\ call' \in CallSet /\ Ret' = "OK" /\ stretch' \in Nat /\ j \in 1 .. call'.len
        /\ ops' = Pos(m, call', j)
    BY <1>l, <1>c, <1>s, <1>3
  <2> QED
    BY <1>7, <2>1, LiveTo
(* The writes before the start flag.                                        *)
<1>8. ASSUME l \in Early, m \in Early, regs'.enable = FALSE, Known(m, j)' PROVE Live'
  <2>1. Before(j)
    BY <1>2, <1>8 DEF At
  <2>2. Before(j)'
    BY <2>1, <1>6, <1>8, <1>c, <1>s DEF Before, Quiet, Budget, Cost
  <2>3. At(m, j)'
    BY <2>2, <1>5, <1>8, AtIs
  <2> QED
    BY <2>3, <1>7
<1>e. l \in Early => regs.enable = FALSE
  BY <1>2 DEF At, Before, Quiet
<1>9. CASE l = "dev"
  <2>1. OpAt(l, call, j)[2] = [dev |-> call.dev]
    BY <1>9 DEF OpAt
  <2>2. regs' = [rw |-> regs.rw, enable |-> regs.enable, dev |-> call.dev, addr |-> regs.addr, data |-> regs.data]
    BY <2>1, <1>w, <1>f, <1>4, Sets
  <2>3. m = "addr" /\ l \in Early /\ m \in Early
    BY <1>9, <1>3 DEF After, Early
  <2>4. regs'.enable = FALSE /\ regs'.dev = call'.dev
    BY <2>2, <2>3, <1>e, <1>c
  <2>5. Known(m, j)'
    BY <2>3, <2>4 DEF Known
  <2> QED
    BY <2>3, <2>4, <2>5, <1>8
<1>10. CASE l = "addr"
  <2>0. call.addr + j - 1 \in Nat
    BY <1>f
  <2>1. OpAt(l, call, j)[2] = [addr |-> call.addr + j - 1]
    BY <1>10 DEF OpAt
  <2>2. regs' = [rw |-> regs.rw, enable |-> regs.enable, dev |-> regs.dev, addr |-> call.addr + j - 1, data |-> regs.data]
    BY <2>0, <2>1, <1>w, <1>4, Sets
  <2>3. m \in {"data", "wait1"} /\ (m = "wait1" => call.rw # "write") /\ l \in Early /\ m \in Early
    BY <1>10, <1>3 DEF After, Early
  <2>4. regs'.enable = FALSE /\ regs'.dev = call'.dev /\ regs'.addr = call'.addr + j - 1
    <3>1. regs.dev = call.dev
      BY <1>4, <1>10 DEF Known
    <3> QED
      BY <2>2, <2>3, <3>1, <1>e, <1>c
  <2>5. Known(m, j)'
    BY <2>3, <2>4, <1>c DEF Known
  <2> QED
    BY <2>3, <2>4, <2>5, <1>8
<1>11. CASE l = "data"
  <2>1. OpAt(l, call, j)[2] = [data |-> call.data]
    BY <1>11 DEF OpAt
  <2>2. regs' = [rw |-> regs.rw, enable |-> regs.enable, dev |-> regs.dev, addr |-> regs.addr, data |-> call.data]
    BY <2>1, <1>w, <1>f, <1>4, Sets
  <2>3. m = "wait1" /\ l \in Early /\ m \in Early
    BY <1>11, <1>3 DEF After, Early
  <2>4. /\ regs'.enable = FALSE /\ regs'.dev = call'.dev /\ regs'.addr = call'.addr + j - 1
        /\ regs'.data = call'.data
    <3>1. regs.dev = call.dev /\ regs.addr = call.addr + j - 1
      BY <1>4, <1>11 DEF Known
    <3> QED
      BY <2>2, <2>3, <3>1, <1>e, <1>c
  <2>5. Known(m, j)'
    BY <2>3, <2>4 DEF Known
  <2> QED
    BY <2>3, <2>4, <2>5, <1>8
<1>12. CASE l \in {"prepare", "enable", "clear"}
  <2>1. PICK b \in BOOLEAN : OpAt(l, call, j)[2] = Command(call, b) /\ (b <=> l = "enable")
    <3>1. CASE l = "prepare"
      BY <3>1 DEF OpAt
    <3>2. CASE l = "enable"
      BY <3>2 DEF OpAt
    <3>3. CASE l = "clear"
      BY <3>3 DEF OpAt
    <3> QED
      BY <1>12, <3>1, <3>2, <3>3
  <2>2. regs' = [rw |-> call.rw, enable |-> b, dev |-> regs.dev, addr |-> regs.addr, data |-> regs.data]
    BY <2>1, <1>w, <1>f, <1>4, Sets DEF Command
  <2>3. regs'.rw = call.rw /\ regs'.enable = b /\ regs'.dev = regs.dev /\ regs'.addr = regs.addr /\ regs'.data = regs.data
    BY <2>2
  <2>4. l = "prepare" => m = "enable"
    BY <1>3 DEF After
  <2>5. l = "enable" => m = "await"
    BY <1>3 DEF After
  <2>6. l = "clear" => m = "wait2"
    BY <1>3 DEF After
  <2>7. Known(m, j)'
    BY <1>12, <1>4, <2>3, <2>4, <2>5, <2>6, <1>c DEF Known
  <2>8. CASE l = "prepare"
    BY <2>1, <2>3, <2>4, <2>7, <2>8, <1>8 DEF Early
  <2>9. CASE l = "enable"
    <3>1. Before(j)
      BY <1>2, <2>9 DEF At, Early
    <3>2. Owes(j, 10 + MaxStretch)'
      <4>1. PICK b0 \in Nat : b0 = Budget
        BY Needs
      <4>2. PICK n \in Nat : n = Need(j)
        BY Needs
      <4>3. PICK t \in Nat : t = Timeout
        BY DEF TypeInv
      <4>4. PICK p \in Nat : p = polls
        BY I2cAssumption DEF TypeInv
      <4>5. t >= b0 + n
        BY <3>1, <4>1, <4>2, <4>3 DEF Before
      <4>6. t + (p + 1) >= n + b0
        BY <4>5
      <4>7. Timeout' + polls' >= n + b0
        BY <4>3, <4>4, <4>6, <1>s
      <4> QED
        BY <4>1, <4>2, <4>7, <1>6 DEF Owes, Budget, Cost
    <3>3. Unseen(j)'
      BY <3>1, <3>2, <1>6, <1>c DEF Before, Quiet, Unseen
    <3>4. At(m, j)'
      <4>1. Awaits(j)' /\ regs'.enable = TRUE
        BY <3>3, <2>1, <2>3, <2>9 DEF Awaits
      <4> QED
        BY <4>1, <2>5, <2>7, <2>9, <1>5, AtIs
    <3> QED
      BY <3>4, <1>7
  <2>10. CASE l = "clear"
    <3>1. Busy(j)
      BY <1>2, <2>10 DEF At
    <3>2. Busy(j)'
      BY <3>1, <1>s, <1>l, SameBusy
    <3>3. At(m, j)'
      BY <3>2, <2>1, <2>3, <2>6, <2>7, <2>10, <1>5, AtIs
    <3> QED
      BY <3>3, <1>7
  <2> QED
    BY <1>12, <2>8, <2>9, <2>10
<1> QED
  BY <1>9, <1>10, <1>11, <1>12 DEF Puts

LEMMA LiveDriver ==
  ASSUME TypeInv, TypeInv', Live, Driver
  PROVE  Live'
  BY LiveBegin, LivePoll, LiveCheck, LiveWrite, LiveResult, LiveReturn DEF Driver

-----------------------------------------------------------------------------
(* The driver's steps while a device holds the clock.                       *)
LEMMA DeadOp ==
  ASSUME Dead, NEW name, Op(name)
  PROVE  /\ call \in CallSet
         /\ \E j \in 1 .. call.len, l \in {"wait0", "check0", "clear", "wait2", "check2"} :
              /\ DeadAt(l, j) /\ Head(ops) = OpAt(l, call, j)
              /\ Tail(ops) = Pos(After(l, call), call, j) /\ Proper(After(l, call), call, j)
              /\ name = "wait" => l \in {"wait0", "wait2"} /\ OpAt(l, call, j)[2] = TRUE
              /\ name = "check" => l \in {"check0", "check2"}
              /\ name = "put" => l = "clear"
              /\ name # "result"
<1>1. call # NoCall /\ ops # <<>> /\ Head(ops)[1] = name
  BY DEF Op
<1>2. DeadCall
  BY <1>1 DEF Dead, DeadNone, DeadDone
<1>3. call \in CallSet
  BY <1>2 DEF DeadCall
<1>4. PICK j \in 1 .. call.len, l \in {"wait0", "check0", "clear", "wait2", "check2"} : DeadAt(l, j)
  BY <1>2 DEF DeadCall
<1>5. l \in Labels /\ l # "result" /\ Proper(l, call, j) /\ ops = Pos(l, call, j)
  BY <1>4 DEF DeadAt, Labels, Waits, Checks, Puts
<1>6. Begins(Pos(l, call, j), OpAt(l, call, j), Pos(After(l, call), call, j))
  BY <1>3, <1>5, Flow
<1>7. Head(ops) = OpAt(l, call, j) /\ Tail(ops) = Pos(After(l, call), call, j)
  BY <1>5, <1>6 DEF Begins
<1>8. Proper(After(l, call), call, j)
  BY <1>3, <1>5, NextPoint
<1>9. /\ l \in Waits => OpAt(l, call, j)[1] = "wait"
      /\ l \in {"wait0", "wait1", "wait2"} => OpAt(l, call, j)[2] = TRUE
      /\ l \in Checks => OpAt(l, call, j)[1] = "check"
      /\ l \in Puts => OpAt(l, call, j)[1] = "put"
  BY <1>3, <1>5, Kinds
<1>10. /\ name = "wait" => l \in {"wait0", "wait2"} /\ OpAt(l, call, j)[2] = TRUE
       /\ name = "check" => l \in {"check0", "check2"}
       /\ name = "put" => l = "clear"
       /\ name # "result"
  BY <1>1, <1>4, <1>7, <1>9 DEF Waits, Checks, Puts
<1> QED
  BY <1>3, <1>4, <1>7, <1>8, <1>10

LEMMA DeadDriver ==
  ASSUME TypeInv, TypeInv', Dead, Driver
  PROVE  Dead'
<1>0. hw' = hw /\ stretch' = stretch
  BY DEF Driver, Call, Poll, Check, Write, Result, Return, Step
<1> SUFFICES (DeadNone \/ DeadDone \/ DeadCall)'
  BY <1>0 DEF Dead
<1>a. ASSUME call' \in CallSet, NEW j \in 1 .. call'.len,
             NEW l \in {"wait0", "check0", "clear", "wait2", "check2"}, DeadAt(l, j)'
      PROVE  DeadCall'
  BY <1>a DEF DeadCall
<1>1. CASE Call
  <2>1. PICK c \in CallSet : call' = c /\ ops' = Ops(c)
    BY <1>1, CallsType DEF Call
  <2>2. c.len \in {1, 2} /\ 1 \in 1 .. c.len
    BY DEF CallSet
  <2>3. ops' = Pos("wait0", c, 1) /\ log' = <<>>
    BY <1>1, <2>1, OpsAre DEF Pos, Call
  <2>4. Mine'
    BY <2>1, <2>2, <2>3 DEF Mine
  <2>5. DeadAt("wait0", 1)'
    BY <2>1, <2>3, <2>4 DEF DeadAt, Proper
  <2> QED
    BY <1>a, <2>1, <2>2, <2>5
<1>2. CASE Return
  BY <1>2 DEF Return, DeadNone
<1>3. ASSUME Step PROVE call' = call /\ (Mine' <=> Mine)
  BY <1>0, <1>3, SameHw DEF Step, Same
<1>4. CASE Poll
  <2>0. Op("wait") /\ Step
    BY <1>4 DEF Poll
  <2>1. PICK j \in 1 .. call.len, l \in {"wait0", "wait2"} :
          /\ DeadAt(l, j) /\ Head(ops)[2] = TRUE
          /\ Tail(ops) = Pos(After(l, call), call, j) /\ Proper(After(l, call), call, j)
    BY <2>0, DeadOp
  <2>2. call \in CallSet /\ call' = call /\ Mine' /\ hw.busy = TRUE /\ Timeout \in Nat
    BY <2>0, <2>1, <1>3, DeadOp DEF DeadAt, Dead, TypeInv
  <2>3. PICK m \in {"check0", "check2"} : m = After(l, call)
    BY <2>1 DEF After
  <2>4. CASE Timeout > 0
    <3>1. ops' = ops
      BY <1>4, <2>1, <2>2, <2>4 DEF Poll
    <3>2. DeadAt(l, j)'
      BY <3>1, <2>1, <2>2 DEF DeadAt, Proper
    <3> QED
      BY <1>a, <2>2, <3>2
  <2>5. CASE Timeout = 0
    <3>0. ~(Timeout > 0)
      BY <2>5
    <3>a. ops' = Tail(ops) /\ Timeout' = Timeout
      BY <1>4, <3>0 DEF Poll
    <3>1. ops' = Pos(m, call, j) /\ Timeout' = 0
      BY <2>1, <2>3, <2>5, <3>a
    <3>2. DeadAt(m, j)'
      BY <3>1, <2>1, <2>2, <2>3 DEF DeadAt, Proper
    <3> QED
      BY <1>a, <2>2, <3>2
  <2> QED
    BY <2>2, <2>4, <2>5
<1>5. CASE Check
  <2>0. Op("check") /\ Step
    BY <1>5 DEF Check
  <2>1. PICK j \in 1 .. call.len, l \in {"check0", "check2"} : DeadAt(l, j)
    BY <2>0, DeadOp
  <2>2. call \in CallSet /\ call' = call /\ Mine' /\ Timeout = 0
    BY <2>0, <2>1, <1>3, DeadOp DEF DeadAt
  <2>3. ops' = <<>> /\ Ret' = "ERR"
    BY <1>5, <2>2 DEF Check
  <2> QED
    BY <2>2, <2>3 DEF DeadDone
<1>6. CASE Write
  <2>0. Op("put") /\ Step
    BY <1>6 DEF Write
  <2>1. PICK j \in 1 .. call.len :
          /\ DeadAt("clear", j)
          /\ Tail(ops) = Pos(After("clear", call), call, j) /\ Proper(After("clear", call), call, j)
    BY <2>0, DeadOp
  <2>2. call \in CallSet /\ call' = call /\ Mine'
    BY <2>0, <2>1, <1>3, DeadOp DEF DeadAt
  <2>3. ops' = Pos("wait2", call, j)
    BY <1>6, <2>1 DEF Write, After
  <2>4. DeadAt("wait2", j)'
    BY <2>2, <2>3 DEF DeadAt, Proper
  <2> QED
    BY <1>a, <2>2, <2>4
<1>7. CASE Result
  <2>1. Op("result")
    BY <1>7 DEF Result
  <2> QED
    BY <2>1, DeadOp
<1> QED
  BY <1>1, <1>2, <1>4, <1>5, <1>6, <1>7 DEF Driver

-----------------------------------------------------------------------------
(* The controller's ticks.  When nothing goes on, nothing begins.           *)
LEMMA QuietTick ==
  ASSUME TypeInv, Quiet, Tick
  PROVE  /\ Quiet' /\ log' = log /\ stretch' = stretch /\ hw'.nack = hw.nack /\ hw'.miso = hw.miso
         /\ regs' = regs /\ call' = call /\ ops' = ops /\ Timeout' = Timeout /\ Ret' = Ret /\ got' = got
         /\ polls' = 0
<1>1. /\ regs' = regs /\ call' = call /\ ops' = ops /\ Timeout' = Timeout /\ Ret' = Ret /\ got' = got
      /\ polls' = 0
  BY DEF Tick, driver
<1>2. hw.state = "idle" /\ hw.enable = FALSE /\ regs.enable = FALSE
  BY DEF Quiet
<1>3. Idle
  BY <1>2 DEF Tick, Start, Byte, Restart, Value, Stop, Stretch, Follows
<1>4. hw' = [hw EXCEPT !.busy = FALSE, !.rw = regs.rw, !.enable = regs.enable] /\ log' = log /\ stretch' = stretch
  BY <1>2, <1>3 DEF Idle
<1>5. /\ hw'.state = "idle" /\ hw'.busy = FALSE /\ hw'.enable = FALSE
      /\ hw'.nack = hw.nack /\ hw'.miso = hw.miso
  BY <1>2, <1>4 DEF TypeInv, Controller
<1> QED
  BY <1>1, <1>2, <1>4, <1>5 DEF Quiet

(* A tick takes at most PPT polls off what the rest may cost.               *)
LEMMA Cheaper ==
  ASSUME TypeInv, NEW j, NEW q \in Nat, NEW r \in Nat, q < r, Owes(j, r), Timeout' = Timeout, polls' = 0,
         call' = call
  PROVE  Owes(j, q)' /\ Timeout' + polls' >= Need(j)' + Cost(q)
<1>1. PPT \in Nat \ {0} /\ Timeout \in Nat /\ polls \in Nat /\ polls <= PPT
  BY I2cAssumption DEF TypeInv
<1>2. PICK x \in Nat : x = Cost(q)
  BY Needs
<1>3. PICK y \in Nat : y = Cost(r)
  BY Needs
<1>4. x + PPT <= y
  BY <1>2, <1>3, Costs
<1>5. PICK n \in Nat : n = Need(j)
  BY Needs
<1>6. Timeout + polls >= n + y
  BY <1>3, <1>5 DEF Owes
<1>7. PICK t \in Nat : t = Timeout
  BY <1>1
<1>8. t >= n + x
  BY <1>1, <1>4, <1>6, <1>7
<1>9. Timeout' + polls' >= n + x
  BY <1>7, <1>8
<1>10. Need(j)' = Need(j)
  BY DEF Need, Budget, Cost
<1> QED
  BY <1>2, <1>5, <1>9, <1>10 DEF Owes, Cost

(* The driver's part stays at a tick, and so does what the call has read.   *)
LEMMA SameDriver ==
  ASSUME Tick
  PROVE  /\ regs' = regs /\ call' = call /\ ops' = ops /\ Timeout' = Timeout /\ Ret' = Ret /\ got' = got
         /\ polls' = 0 /\ (polls > 0 \/ call = NoCall)
         /\ \A l, j : Known(l, j)' <=> Known(l, j)
         /\ log' = log => (Mine' <=> Mine) /\ \A n : (Made(n)' <=> Made(n)) /\ (Read(n)' <=> Read(n))
<1>1. /\ regs' = regs /\ call' = call /\ ops' = ops /\ Timeout' = Timeout /\ Ret' = Ret /\ got' = got
      /\ polls' = 0 /\ (polls > 0 \/ call = NoCall)
  BY DEF Tick, driver
<1>2. \A l, j : Known(l, j)' <=> Known(l, j)
  BY <1>1 DEF Known
<1>3. log' = log => (Mine' <=> Mine)
  BY <1>1 DEF Mine
<1>4. log' = log => \A n : (Made(n)' <=> Made(n)) /\ (Read(n)' <=> Read(n))
  BY <1>1, <1>3 DEF Made, Read
<1> QED
  BY <1>1, <1>2, <1>3, <1>4

(* A transaction goes on, ...                                               *)
LEMMA GoesOn ==
  ASSUME TypeInv, Tick, NEW j, Busy(j), stretch \in Nat, NEW s \in DOMAIN Left, NEW d \in Nat,
         hw'.state = s, stretch' = d, Left[s] + d < Left[hw.state] + stretch,
         hw'.busy = TRUE, hw'.enable = FALSE, hw'.rw = hw.rw,
         s = "data" => hw.rw = "write", s \in {"restart", "again", "value"} => hw.rw = "read",
         Made(j)', Outcome(j)'
  PROVE  Busy(j)'
<1>1. hw.rw = call.rw /\ hw.state \in DOMAIN Left /\ Owes(j, Left[hw.state] + stretch)
  BY DEF Busy
<1>2. call' = call /\ Timeout' = Timeout /\ polls' = 0
  BY SameDriver
<1>3. PICK q \in Nat : q = Left[s] + d
  <2>1. Left[s] \in 1 .. 7
    BY Lefts
  <2> QED
    BY <2>1
<1>4. PICK r \in Nat : r = Left[hw.state] + stretch
  <2>1. Left[hw.state] \in 1 .. 7
    BY <1>1, Lefts
  <2> QED
    BY <2>1
<1>5. Timeout' + polls' >= Need(j)' + Cost(q)
  BY <1>1, <1>2, <1>3, <1>4, Cheaper
<1>6. Owes(j, Left[hw.state] + stretch)'
  BY <1>3, <1>5 DEF Owes, Cost, Left
<1> QED
  BY <1>1, <1>2, <1>6 DEF Busy

(* ... ends, or hangs.                                                      *)
Gone == stretch = DEAD /\ hw.busy = TRUE /\ hw.enable = FALSE /\ hw.state \in Hangs /\ Mine

LEMMA BusyTick ==
  ASSUME TypeInv, TypeInv', call \in CallSet, NEW j \in 1 .. call.len, Busy(j), stretch \in Nat, Tick,
         hw.state = "idle" => regs.enable = FALSE
  PROVE  \/ Busy(j)' /\ stretch' \in Nat
         \/ Over(j)' /\ stretch' \in Nat /\ hw.state = "idle"
         \/ Gone'
<1>b. /\ hw.busy = TRUE /\ hw.enable = FALSE /\ hw.rw = call.rw /\ hw.state \in DOMAIN Left
      /\ Made(j) /\ Outcome(j) /\ Owes(j, Left[hw.state] + stretch)
  BY DEF Busy
<1>h. /\ hw = [state |-> hw.state, enable |-> hw.enable, rw |-> hw.rw, busy |-> hw.busy,
               nack |-> hw.nack, miso |-> hw.miso]
      /\ hw.rw \in {"read", "write"} /\ hw.nack \in BOOLEAN
  BY DEF TypeInv, Controller
<1>d. /\ regs' = regs /\ call' = call /\ Timeout' = Timeout /\ polls' = 0
      /\ log' = log => (Mine' <=> Mine) /\ (Made(j)' <=> Made(j))
  BY SameDriver
<1>m. Mine /\ Made(j)
  BY <1>b DEF Made
<1>l. /\ Left["device"] = 7 /\ Left["register"] = 6 /\ Left["restart"] = 5 /\ Left["again"] = 4
      /\ Left["value"] = 3 /\ Left["data"] = 3 /\ Left["stop"] = 2 /\ Left["idle"] = 1
      /\ DOMAIN Left = {"device", "register", "restart", "again", "value", "data", "stop", "idle"}
  BY DEF Left
(* The next state, nearer to the end.                                       *)
<1>n. ASSUME NEW s \in DOMAIN Left, NEW k \in BOOLEAN, Left[s] < Left[hw.state], stretch' = stretch, log' = log,
             hw' = [state |-> s, enable |-> hw.enable, rw |-> hw.rw, busy |-> hw.busy, nack |-> k, miso |-> hw.miso],
             s = "data" => hw.rw = "write", s \in {"restart", "again", "value"} => hw.rw = "read",
             Outcome(j)'
      PROVE  Busy(j)' /\ stretch' \in Nat
  <2>1. /\ hw'.state = s /\ hw'.busy = TRUE /\ hw'.enable = FALSE /\ hw'.rw = hw.rw
    BY <1>b, <1>n
  <2>2. Made(j)'
    BY <1>d, <1>m, <1>n
  <2>3. Left[s] \in Nat /\ Left[hw.state] \in Nat
    BY <1>b, Lefts
  <2>4. Left[s] + stretch < Left[hw.state] + stretch
    BY <1>n, <2>3
  <2> QED
    BY <1>n, <2>1, <2>2, <2>4, GoesOn
<1>1. CASE Idle
  <2>1. hw.state = "idle" /\ regs.enable = FALSE
    BY <1>1 DEF Idle
  <2>2. hw' = [hw EXCEPT !.busy = FALSE, !.rw = regs.rw, !.enable = regs.enable] /\ log' = log /\ stretch' = stretch
    BY <1>1, <1>b DEF Idle
  <2>3. /\ hw'.state = "idle" /\ hw'.enable = FALSE /\ hw'.busy = FALSE
        /\ hw'.nack = hw.nack /\ hw'.miso = hw.miso
    BY <2>1, <2>2 DEF TypeInv, Controller
  <2>4. Outcome(j)'
    BY <1>b, <1>d, <2>1, <2>2, <2>3 DEF Outcome
  <2>5. Timeout' >= Need(j)'
    <3>1. Left[hw.state] + stretch \in Nat /\ 0 < Left[hw.state] + stretch
      BY <1>l, <2>1
    <3>2. Timeout' + polls' >= Need(j)' + Cost(0)
      BY <1>b, <1>d, <3>1, Cheaper
    <3>3. Cost(0) = 0
      BY Costs
    <3>n. PICK n \in Nat : n = Need(j) /\ n = Need(j)'
      <4>1. Need(j)' = Need(j)
        BY <1>d DEF Need, Budget, Cost
      <4> QED
        BY <4>1, Needs
    <3>t. PICK t \in Nat : t = Timeout
      BY DEF TypeInv
    <3>4. t + 0 >= n + 0
      BY <3>2, <3>3, <3>n, <3>t, <1>d
    <3> QED
      BY <3>4, <3>n, <3>t, <1>d
  <2>6. Over(j)'
    BY <1>d, <1>m, <2>1, <2>2, <2>3, <2>4, <2>5 DEF Over, Quiet
  <2> QED
    BY <2>1, <2>2, <2>6
<1>2. CASE Start
  BY <1>2, <1>b, <1>l DEF Start
<1>3. CASE Byte
  <2>1. /\ hw.state \in {"device", "register", "data", "again"} /\ stretch' = stretch /\ log' = log
        /\ \/ hw' = [hw EXCEPT !.state = Follows[hw.state]]
           \/ hw' = [hw EXCEPT !.state = "idle", !.nack = TRUE]
    BY <1>3 DEF Byte, Follows
  <2>2. CASE hw' = [hw EXCEPT !.state = "idle", !.nack = TRUE]
    <3>1. hw' = [state |-> "idle", enable |-> hw.enable, rw |-> hw.rw, busy |-> hw.busy,
                 nack |-> TRUE, miso |-> hw.miso]
      BY <1>h, <2>2
    <3>2. Outcome(j)'
      BY <3>1 DEF Outcome
    <3>3. Left["idle"] < Left[hw.state] /\ "idle" \in DOMAIN Left
      BY <2>1, <1>l
    <3> QED
      BY <1>n, <2>1, <3>1, <3>2, <3>3
  <2>3. CASE hw' = [hw EXCEPT !.state = Follows[hw.state]]
    <3>1. PICK s \in {"register", "data", "restart", "stop", "value"} :
            /\ s = Follows[hw.state]
            /\ Left[s] < Left[hw.state]
            /\ s = "data" => hw.rw = "write"
            /\ s \in {"restart", "value"} => hw.rw = "read"
            /\ s = "stop" => hw.rw = "write"
      <4>1. CASE hw.state = "device"
        BY <4>1, <1>l DEF Follows
      <4>2. CASE hw.state = "register"
        BY <4>2, <1>l, <1>h DEF Follows
      <4>3. CASE hw.state = "data"
        BY <4>3, <1>l DEF Follows, Busy
      <4>4. CASE hw.state = "again"
        BY <4>4, <1>l DEF Follows, Busy
      <4> QED
        BY <2>1, <4>1, <4>2, <4>3, <4>4
    <3>2. hw' = [state |-> s, enable |-> hw.enable, rw |-> hw.rw, busy |-> hw.busy,
                 nack |-> hw.nack, miso |-> hw.miso]
      BY <1>h, <2>3, <3>1
    <3>3. Outcome(j)'
      <4>1. hw'.state = s /\ call'.rw = hw.rw
        BY <1>b, <1>d, <3>2
      <4> QED
        BY <3>1, <4>1 DEF Outcome
    <3>4. s \in DOMAIN Left
      BY <3>1, <1>l
    <3> QED
      BY <1>n, <1>h, <2>1, <3>1, <3>2, <3>3, <3>4
  <2> QED
    BY <2>1, <2>2, <2>3
<1>4. CASE Restart
  <2>1. hw.state = "restart" /\ stretch' = stretch /\ log' = log
    BY <1>4 DEF Restart
  <2>2. hw' = [state |-> "again", enable |-> hw.enable, rw |-> hw.rw, busy |-> hw.busy,
               nack |-> hw.nack, miso |-> hw.miso]
    BY <1>4, <1>h DEF Restart
  <2>3. Outcome(j)' /\ hw.rw = "read"
    BY <2>1, <2>2 DEF Outcome, Busy
  <2>4. Left["again"] < Left[hw.state] /\ "again" \in DOMAIN Left
    BY <2>1, <1>l
  <2> QED
    BY <1>n, <1>h, <2>1, <2>2, <2>3, <2>4
<1>5. CASE Value
  <2>1. PICK v \in DATA : hw' = [hw EXCEPT !.state = "stop", !.miso = v] /\ log' = [log EXCEPT ![Len(log)].data = v]
    BY <1>5 DEF Value
  <2>2. hw.state = "value" /\ stretch' = stretch /\ hw.rw = "read" /\ call.rw = "read"
    BY <1>5, <1>b DEF Value, Busy
  <2>3. /\ hw'.state = "stop" /\ hw'.enable = FALSE /\ hw'.rw = hw.rw /\ hw'.busy = TRUE /\ hw'.miso = v
    BY <2>1, <1>b DEF TypeInv, Controller
  <2>4. PICK g \in Seq(Transaction) : g = log' /\ Len(g) = j /\ g[j].data = v
        /\ \A i \in 1 .. j : g[i].rw = log[i].rw /\ g[i].dev = log[i].dev /\ g[i].addr = log[i].addr
    <3>1. Len(log) = j /\ j > 0 /\ log \in Seq(Transaction)
      BY <1>m DEF Made, TypeInv
    <3>2. log' = WithData(log, v)
      BY <2>1 DEF WithData
    <3>3. /\ WithData(log, v) \in Seq(Transaction) /\ Len(WithData(log, v)) = Len(log)
          /\ \A i \in 1 .. Len(log) :
               /\ WithData(log, v)[i].rw = log[i].rw /\ WithData(log, v)[i].dev = log[i].dev
               /\ WithData(log, v)[i].addr = log[i].addr
          /\ Len(log) > 0 => WithData(log, v)[Len(log)].data = v
      BY <3>1, Given
    <3> QED
      BY <3>1, <3>2, <3>3
  <2>5. Made(j)'
    <3>1. Len(log) = j /\ j <= call.len
      BY <1>m DEF Made
    <3>2. \A i \in 1 .. j : log[i].rw = call.rw /\ log[i].dev = call.dev /\ log[i].addr = call.addr + i - 1
      BY <1>m, <3>1 DEF Made, Mine
    <3>3. \A i \in 1 .. j : g[i].rw = call.rw /\ g[i].dev = call.dev /\ g[i].addr = call.addr + i - 1
      BY <2>4, <3>2
    <3> QED
      BY <1>d, <2>2, <2>4, <3>1, <3>3 DEF Made, Mine
  <2>6. Outcome(j)'
    BY <2>3, <2>4 DEF Outcome
  <2>7. Left["stop"] + stretch < Left[hw.state] + stretch /\ "stop" \in DOMAIN Left
    BY <1>l, <2>2
  <2>8. Busy(j)'
    BY <2>2, <2>3, <2>5, <2>6, <2>7, GoesOn
  <2> QED
    BY <2>2, <2>8
<1>6. CASE Stop
  <2>1. hw.state = "stop" /\ stretch' = stretch /\ log' = log
    BY <1>6 DEF Stop
  <2>2. hw' = [state |-> "idle", enable |-> hw.enable, rw |-> hw.rw, busy |-> hw.busy,
               nack |-> hw.nack, miso |-> hw.miso]
    BY <1>6, <1>h DEF Stop
  <2>3. Outcome(j)'
    BY <1>b, <1>d, <2>1, <2>2 DEF Outcome
  <2>4. Left["idle"] < Left[hw.state] /\ "idle" \in DOMAIN Left
    BY <2>1, <1>l
  <2> QED
    BY <1>n, <1>h, <2>1, <2>2, <2>3, <2>4
<1>7. CASE Stretch
  <2>1. hw' = hw /\ log' = log /\ hw.state \in Hangs
    BY <1>7, <1>b, <1>l DEF Stretch, Hangs
  <2>2. Mine' /\ Made(j)'
    BY <1>d, <1>m, <2>1
  <2>3. CASE stretch' = DEAD
    BY <1>b, <2>1, <2>2, <2>3 DEF Gone
  <2>4. CASE stretch > 0 /\ stretch' = stretch - 1
    <3>1. PICK d \in Nat : d = stretch' /\ d < stretch
      BY <2>4
    <3>2. Outcome(j)'
      BY <1>b, <1>d, <2>1 DEF Outcome
    <3>3. Left[hw.state] \in Nat
      BY <1>b, Lefts
    <3>4. Left[hw.state] + d < Left[hw.state] + stretch
      BY <3>1, <3>3
    <3>5. Busy(j)'
      BY <1>b, <2>1, <2>2, <3>1, <3>2, <3>4, GoesOn DEF Busy
    <3> QED
      BY <3>1, <3>5
  <2> QED
    BY <1>7, <2>3, <2>4 DEF Stretch
<1> QED
  BY <1>1, <1>2, <1>3, <1>4, <1>5, <1>6, <1>7 DEF Tick

LEMMA LiveTick ==
  ASSUME TypeInv, TypeInv', Live, Tick
  PROVE  Live' \/ Dead'
<1>s. /\ regs' = regs /\ call' = call /\ ops' = ops /\ Timeout' = Timeout /\ Ret' = Ret /\ got' = got
      /\ polls' = 0 /\ (polls > 0 \/ call = NoCall)
  BY SameDriver
<1>n. stretch \in Nat
  BY DEF Live
<1>1. CASE LiveNone
  <2>1. Quiet' /\ log' = log /\ stretch' = stretch
    BY <1>1, QuietTick DEF LiveNone
  <2>2. LiveNone'
    BY <1>1, <1>s, <2>1 DEF LiveNone
  <2> QED
    BY <1>n, <2>1, <2>2 DEF Live
<1>2. CASE LiveDone
  <2>1. Quiet' /\ log' = log /\ stretch' = stretch
    BY <1>2, QuietTick DEF LiveDone
  <2>2. (Mine' <=> Mine) /\ \A n : (Made(n)' <=> Made(n)) /\ (Read(n)' <=> Read(n))
    BY <2>1, SameDriver
  <2>3. PICK n : n = call.len
    OBVIOUS
  <2>4. Mine' /\ (Ret = "OK" => Made(n)' /\ Read(n)')
    BY <1>2, <2>2, <2>3 DEF LiveDone
  <2>5. LiveDone'
    BY <1>2, <1>s, <2>1, <2>3, <2>4 DEF LiveDone
  <2> QED
    BY <1>n, <2>1, <2>5 DEF Live
<1>3. CASE LiveCall
  <2>0. call \in CallSet /\ Ret = "OK" /\ polls > 0
    <3>1. call \in CallSet /\ Ret = "OK"
      BY <1>3 DEF LiveCall
    <3> QED
      BY <3>1, <1>s, NoCallIsNone
  <2>1. PICK j \in 1 .. call.len, l \in Labels : LiveAt(l, j)
    BY <1>3 DEF LiveCall
  <2>2. At(l, j) /\ ops = Pos(l, call, j)
    BY <2>1 DEF LiveAt
  <2>3. Proper(l, call, j) /\ Known(l, j) /\ Read(j - 1)
    BY <2>2 DEF At
  <2>4. Proper(l, call, j)' /\ Known(l, j)'
    BY <2>3, <1>s, SameDriver DEF Proper
  <2>a. ASSUME At(l, j)', stretch' \in Nat PROVE Live'
    <3>1. /\ call' \in CallSet /\ Ret' = "OK" /\ stretch' \in Nat /\ j \in 1 .. call'.len
          /\ ops' = Pos(l, call', j)
      BY <1>s, <2>0, <2>2, <2>a
    <3> QED
      BY <2>a, <3>1, LiveTo
  <2>r. Read(j - 1)'
    <3>1. CASE log' = log
      BY <2>3, <3>1, SameDriver
    <3>2. CASE log' # log
      <4>1. Len(log) >= j - 1 /\ \A i \in 1 .. j - 1 : log'[i].data = log[i].data
        <5>0. log \in Seq(Transaction) /\ j \in Nat
          BY <2>0 DEF TypeInv, CallSet
        <5>1. CASE Idle
          <6>1. Made(j - 1)
            <7>1. hw.state = "idle" /\ hw.enable = TRUE
              BY <3>2, <5>1 DEF Idle, TypeInv, Controller
            <7>2. ~Quiet /\ ~Unseen(j) /\ ~Started(j) /\ ~Busy(j)
              BY <7>1 DEF Quiet, Unseen, Started, Busy
            <7>3. Seen(j)
              BY <7>2, <2>2 DEF At, Before, Over, Awaits, Begun, Labels, Waits, Checks, Puts, Early
            <7> QED
              BY <7>3 DEF Seen
          <6>2. PICK t : log' = Append(log, t)
            BY <3>2, <5>1 DEF Idle
          <6>3. Len(log) = j - 1
            BY <6>1 DEF Made
          <6> QED
            BY <5>0, <6>2, <6>3
        <5>2. CASE Value
          <6>1. Made(j)
            <7>1. hw.state = "value"
              BY <5>2 DEF Value
            <7>2. ~Quiet /\ ~Unseen(j) /\ ~Started(j) /\ ~Seen(j)
              BY <7>1 DEF Quiet, Unseen, Started, Seen
            <7>3. Busy(j)
              BY <7>2, <2>2 DEF At, Before, Over, Awaits, Begun, Labels, Waits, Checks, Puts, Early
            <7> QED
              BY <7>3 DEF Busy
          <6>2. Len(log) = j
            BY <6>1 DEF Made
          <6>3. PICK v \in DATA : log' = WithData(log, v)
            BY <5>2 DEF Value, WithData
          <6>4. \A i \in 1 .. Len(log) : i # Len(log) => WithData(log, v)[i] = log[i]
            BY <5>0, Given
          <6> QED
            BY <5>0, <6>2, <6>3, <6>4
        <5>3. CASE ~Idle /\ ~Value
          BY <3>2, <5>3 DEF Tick, Start, Byte, Restart, Stop, Stretch
        <5> QED
          BY <5>1, <5>2, <5>3
      <4> QED
        BY <2>3, <4>1, <1>s DEF Read
    <3> QED
      BY <3>1, <3>2
  <2>5. CASE l \in Early
    <3>1. Before(j)
      BY <2>2, <2>5 DEF At
    <3>2. Quiet' /\ log' = log /\ stretch' = stretch
      BY <3>1, QuietTick DEF Before
    <3>3. Made(j - 1)'
      BY <3>1, <3>2, SameDriver DEF Before
    <3>4. Before(j)'
      BY <3>1, <3>2, <3>3, <1>s DEF Before, Need, Budget, Cost
    <3>5. At(l, j)'
      BY <3>4, <2>4, <2>5, <2>r, AtIs
    <3> QED
      BY <3>2, <3>5, <2>a, <1>n
  <2>6. CASE l = "await"
    <3>0. Awaits(j) /\ regs.enable = TRUE /\ ~Begun(j)
      BY <2>0, <2>2, <2>6 DEF At, Begun
    <3>k. regs.rw = call.rw /\ regs.dev = call.dev /\ regs.addr = call.addr + j - 1 /\ (call.rw = "write" => regs.data = call.data)
      BY <2>3, <2>6 DEF Known
    <3>m. MaxStretch \in Nat
      BY I2cAssumption
    <3>a. ASSUME Awaits(j)', stretch' \in Nat PROVE Live'
      <4>1. At(l, j)'
        BY <3>a, <3>0, <1>s, <2>4, <2>6, <2>r, AtIs
      <4> QED
        BY <3>a, <4>1, <2>a
    <3>1. CASE Unseen(j)
      <4>1. hw.state = "idle" /\ hw.enable = FALSE /\ hw.busy = FALSE
        BY <3>1 DEF Unseen
      <4>2. Idle
        BY <4>1 DEF Tick, Start, Byte, Restart, Value, Stop, Stretch, Follows
      <4>3. hw' = [hw EXCEPT !.busy = FALSE, !.rw = regs.rw, !.enable = regs.enable] /\ log' = log /\ stretch' = stretch
        BY <4>1, <4>2 DEF Idle
      <4>4. hw'.state = "idle" /\ hw'.enable = TRUE /\ hw'.busy = FALSE
        BY <3>0, <4>1, <4>3 DEF TypeInv, Controller
      <4>5. Made(j - 1)'
        BY <3>1, <4>3, SameDriver DEF Unseen
      <4>6. Owes(j, 9 + MaxStretch)'
        <5>1. 9 + MaxStretch \in Nat /\ 10 + MaxStretch \in Nat /\ 9 + MaxStretch < 10 + MaxStretch
          BY <3>m
        <5> QED
          BY <3>1, <5>1, <1>s, Cheaper DEF Unseen
      <4>7. Seen(j)'
        BY <4>4, <4>5, <4>6 DEF Seen
      <4> QED
        BY <3>a, <1>n, <4>3, <4>7 DEF Awaits
    <3>2. CASE Seen(j)
      <4>1. hw.state = "idle" /\ hw.enable = TRUE /\ Made(j - 1)
        BY <3>2 DEF Seen
      <4>2. Idle
        BY <4>1 DEF Tick, Start, Byte, Restart, Value, Stop, Stretch, Follows
      <4>3. /\ hw' = [hw EXCEPT !.state = "start", !.nack = FALSE, !.busy = FALSE, !.rw = regs.rw, !.enable = regs.enable]
            /\ log' = Append(log, [rw |-> regs.rw, dev |-> regs.dev, addr |-> regs.addr, data |-> regs.data])
            /\ stretch' = stretch
        BY <4>1, <4>2 DEF Idle
      <4>4. hw'.state = "start" /\ hw'.busy = FALSE /\ hw'.rw = call'.rw
        BY <3>k, <4>3, <1>s DEF TypeInv, Controller
      <4>5. Made(j)'
        <5>1. PICK t : t = [rw |-> regs.rw, dev |-> regs.dev, addr |-> regs.addr, data |-> regs.data]
          OBVIOUS
        <5>2. /\ t.rw = call.rw /\ t.dev = call.dev /\ t.addr = call.addr + j - 1
              /\ call.rw = "write" => t.data = call.data
          BY <5>1, <3>k
        <5>3. log \in Seq(Transaction) /\ Len(log) = j - 1 /\ j \in Nat /\ j >= 1 /\ j <= call.len
          BY <4>1, <2>0 DEF TypeInv, Made, CallSet
        <5>4. log' = Append(log, t)
          BY <4>3, <5>1
        <5>5. Len(log') = j /\ log'[j] = t /\ \A i \in 1 .. j - 1 : log'[i] = log[i]
          BY <5>3, <5>4
        <5>6. \A i \in 1 .. j - 1 :
                /\ log[i].rw = call.rw /\ log[i].dev = call.dev /\ log[i].addr = call.addr + i - 1
                /\ call.rw = "write" => log[i].data = call.data
          BY <4>1, <5>3 DEF Made, Mine
        <5>7. ASSUME NEW i \in 1 .. j
              PROVE  /\ log'[i].rw = call.rw /\ log'[i].dev = call.dev /\ log'[i].addr = call.addr + i - 1
                     /\ call.rw = "write" => log'[i].data = call.data
          <6>1. CASE i = j
            BY <5>2, <5>5, <6>1
          <6>2. CASE i # j
            <7>1. i \in 1 .. j - 1
              BY <5>3, <6>2
            <7>2. log'[i] = log[i]
              BY <5>5, <7>1
            <7> QED
              BY <5>6, <7>1, <7>2
          <6> QED
            BY <6>1, <6>2
        <5> QED
          BY <5>3, <5>5, <5>7, <1>s DEF Made, Mine
      <4>6. Owes(j, 8 + MaxStretch)'
        <5>1. 8 + MaxStretch \in Nat /\ 9 + MaxStretch \in Nat /\ 8 + MaxStretch < 9 + MaxStretch
          BY <3>m
        <5> QED
          BY <3>2, <5>1, <1>s, Cheaper DEF Seen
      <4>7. Started(j)'
        BY <4>4, <4>5, <4>6 DEF Started
      <4> QED
        BY <3>a, <1>n, <4>3, <4>7 DEF Awaits
    <3>3. CASE Started(j)
      <4>1. hw.state = "start" /\ Made(j) /\ hw.rw = call.rw
        BY <3>3 DEF Started
      <4>2. Start
        BY <4>1 DEF Tick, Idle, Byte, Restart, Value, Stop, Stretch, Follows
      <4>3. hw' = [hw EXCEPT !.state = "device", !.busy = TRUE, !.enable = FALSE] /\ log' = log /\ stretch' = MaxStretch
        BY <4>2 DEF Start
      <4>4. hw'.state = "device" /\ hw'.busy = TRUE /\ hw'.enable = FALSE /\ hw'.rw = call'.rw
        BY <4>1, <4>3, <1>s DEF TypeInv, Controller
      <4>5. Made(j)'
        BY <4>1, <4>3, SameDriver
      <4>6. Timeout' + polls' >= Need(j)' + Cost(7 + MaxStretch)
        <5>1. 7 + MaxStretch \in Nat /\ 8 + MaxStretch \in Nat /\ 7 + MaxStretch < 8 + MaxStretch
          BY <3>m
        <5> QED
          BY <3>3, <5>1, <1>s, Cheaper DEF Started
      <4>7. Owes(j, Left[hw.state] + stretch)'
        <5>1. Left[hw'.state] = 7
          BY <4>4 DEF Left
        <5>2. (Left[hw.state] + stretch)' = 7 + MaxStretch
          BY <5>1, <4>3 DEF Left
        <5> QED
          BY <4>6, <5>2 DEF Owes, Cost
      <4>8. Busy(j)'
        <5>1. Outcome(j)' /\ hw'.state \in DOMAIN Left
          BY <4>4 DEF Outcome, Left
        <5> QED
          BY <4>4, <4>5, <4>7, <5>1 DEF Busy
      <4>9. Begun(j)'
        BY <4>4, <4>8, <1>s DEF Begun
      <4> QED
        BY <3>a, <3>m, <4>3, <4>9 DEF Awaits
    <3> QED
      BY <3>0, <3>1, <3>2, <3>3 DEF Awaits
  <2>7. CASE l \in {"clear", "wait2"}
    <3>1. /\ Busy(j)
          /\ l = "clear" => hw.state = "device" /\ regs.enable = TRUE
          /\ l = "wait2" => regs.enable = FALSE
      BY <2>0, <2>2, <2>7 DEF At
    <3>2. hw.state = "idle" => regs.enable = FALSE
      BY <2>7, <3>1
    <3>3. \/ Busy(j)' /\ stretch' \in Nat
          \/ Over(j)' /\ stretch' \in Nat /\ hw.state = "idle"
          \/ Gone'
      BY <1>n, <2>0, <3>1, <3>2, BusyTick
    <3>4. CASE Busy(j)' /\ stretch' \in Nat
      <4>1. At(l, j)'
        BY <2>4, <2>7, <2>r, <3>1, <3>4, <1>s, AtIs
      <4> QED
        BY <3>4, <4>1, <2>a
    <3>5. CASE Over(j)' /\ stretch' \in Nat /\ hw.state = "idle"
      <4>1. At(l, j)'
        BY <2>4, <2>7, <2>r, <3>1, <3>5, <1>s, AtIs
      <4> QED
        BY <3>5, <4>1, <2>a
    <3>6. CASE Gone'
      <4>1. DeadAt(l, j)'
        BY <2>2, <2>4, <2>7, <3>6, <1>s DEF DeadAt, Gone
      <4>2. DeadCall'
        BY <1>s, <2>0, <2>7, <4>1 DEF DeadCall
      <4> QED
        BY <3>6, <4>2 DEF Gone, Dead
    <3> QED
      BY <3>3, <3>4, <3>5, <3>6
  <2>8. CASE l \in {"check2", "result"}
    <3>1. Over(j)
      BY <2>2, <2>8 DEF At
    <3>2. Quiet' /\ log' = log /\ stretch' = stretch /\ hw'.nack = hw.nack /\ hw'.miso = hw.miso
      BY <3>1, QuietTick DEF Over
    <3>3. Made(j)'
      BY <3>1, <3>2, SameDriver DEF Over
    <3>4. Outcome(j)'
      BY <3>1, <3>2, <1>s DEF Over, Outcome, Quiet
    <3>5. Over(j)'
      BY <3>1, <3>2, <3>3, <3>4, <1>s DEF Over, Need, Budget, Cost
    <3>6. At(l, j)'
      BY <3>5, <2>4, <2>8, <2>r, AtIs
    <3> QED
      BY <3>2, <3>6, <2>a, <1>n
  <2> QED
    BY <2>5, <2>6, <2>7, <2>8 DEF Labels, Waits, Checks, Puts, Early
<1> QED
  BY <1>1, <1>2, <1>3 DEF Live

LEMMA DeadTick ==
  ASSUME TypeInv, Dead, Tick
  PROVE  Dead'
<1>1. stretch = DEAD /\ hw.state \in Hangs /\ stretch \notin Nat
  BY DEF Dead, DEAD
<1>2. Stretch
  BY <1>1 DEF Tick, Idle, Start, Byte, Restart, Value, Stop, Hangs
<1>3. hw' = hw /\ log' = log /\ stretch' = DEAD
  BY <1>1, <1>2 DEF Stretch
<1>4. call' = call /\ ops' = ops /\ Timeout' = Timeout /\ Ret' = Ret /\ (Mine' <=> Mine)
  BY <1>3, SameDriver
<1>5. DeadNone => DeadNone'
  BY <1>3, <1>4 DEF DeadNone
<1>6. DeadDone => DeadDone'
  BY <1>4 DEF DeadDone
<1>7. DeadCall => DeadCall'
  <2> SUFFICES ASSUME DeadCall PROVE DeadCall'
    OBVIOUS
  <2>1. PICK j \in 1 .. call.len, l \in {"wait0", "check0", "clear", "wait2", "check2"} : DeadAt(l, j)
    BY DEF DeadCall
  <2>2. DeadAt(l, j)'
    BY <1>4, <2>1 DEF DeadAt, Proper
  <2> QED
    BY <1>4, <2>2 DEF DeadCall
<1> QED
  BY <1>3, <1>5, <1>6, <1>7 DEF Dead

-----------------------------------------------------------------------------
LEMMA InitInv == Init => Inv
<1> SUFFICES ASSUME Init PROVE Inv
  OBVIOUS
<1>1. TypeInv
  BY InitType
<1>2. stretch \in Nat /\ LiveNone
  BY DEF Init, LiveNone, Quiet
<1> QED
  BY <1>1, <1>2 DEF Inv, Live

LEMMA InvStep == Inv /\ [Next]_vars => Inv'
<1> SUFFICES ASSUME Inv, [Next]_vars PROVE Inv'
  OBVIOUS
<1>t. TypeInv /\ TypeInv'
  BY TypeStep DEF Inv
<1>1. CASE UNCHANGED vars
  <2>1. /\ regs' = regs /\ hw' = hw /\ stretch' = stretch /\ polls' = polls /\ call' = call /\ ops' = ops
        /\ Timeout' = Timeout /\ Ret' = Ret /\ got' = got /\ log' = log
    BY <1>1 DEF vars
  <2>2. (Mine' <=> Mine) /\ \A n : (Made(n)' <=> Made(n)) /\ (Read(n)' <=> Read(n))
    BY <2>1 DEF Mine, Made, Read
  <2>3. CASE Dead
    <3>1. DeadCall => DeadCall'
      <4> SUFFICES ASSUME DeadCall PROVE DeadCall'
        OBVIOUS
      <4>1. PICK j \in 1 .. call.len, l \in {"wait0", "check0", "clear", "wait2", "check2"} : DeadAt(l, j)
        BY DEF DeadCall
      <4>2. DeadAt(l, j)'
        BY <2>1, <2>2, <4>1 DEF DeadAt, Proper
      <4> QED
        BY <2>1, <4>2 DEF DeadCall
    <3>2. Dead'
      BY <2>1, <2>2, <2>3, <3>1 DEF Dead, DeadNone, DeadDone
    <3> QED
      BY <1>t, <3>2 DEF Inv
  <2>4. CASE Live
    <3>1. Quiet' <=> Quiet
      BY <2>1 DEF Quiet
    <3>2. LiveNone => LiveNone'
      BY <2>1, <3>1 DEF LiveNone
    <3>3. LiveDone => LiveDone'
      <4>1. PICK n : n = call.len
        OBVIOUS
      <4>2. LiveDone => Mine' /\ (Ret = "OK" => Made(n)' /\ Read(n)')
        BY <2>2, <4>1 DEF LiveDone
      <4> QED
        BY <2>1, <3>1, <4>1, <4>2 DEF LiveDone
    <3>4. LiveCall => LiveCall'
      <4> SUFFICES ASSUME LiveCall PROVE LiveCall'
        OBVIOUS
      <4>1. PICK j \in 1 .. call.len, l \in Labels : LiveAt(l, j)
        BY DEF LiveCall
      <4>2. LiveAt(l, j)'
        BY <2>1, <2>2, <3>1, <4>1
           DEF LiveAt, At, Proper, Known, Before, Awaits, Unseen, Seen, Started, Begun, Busy, Over, Outcome,
               Owes, Need, Budget, Cost
      <4> QED
        BY <2>1, <4>2 DEF LiveCall
    <3>5. Live'
      BY <2>1, <2>4, <3>2, <3>3, <3>4 DEF Live
    <3> QED
      BY <1>t, <3>5 DEF Inv
  <2> QED
    BY <2>3, <2>4 DEF Inv
<1>2. CASE Driver
  BY <1>t, <1>2, LiveDriver, DeadDriver DEF Inv
<1>3. CASE Tick
  BY <1>t, <1>3, LiveTick, DeadTick DEF Inv
<1> QED
  BY <1>1, <1>2, <1>3 DEF Next

LEMMA InvOwn == Inv => OwnTransactions
<1> SUFFICES ASSUME Inv PROVE OwnTransactions
  OBVIOUS
<1>t. log \in Seq(Transaction) /\ got \in Seq(DATA) /\ TypeInv
  BY DEF Inv, TypeInv
<1>1. \A i \in 1 .. Len(log) :
        /\ i <= call.len
        /\ log[i].rw = call.rw /\ log[i].dev = call.dev /\ log[i].addr = call.addr + i - 1
        /\ call.rw = "write" => log[i].data = call.data
  <2>1. CASE log = <<>>
    BY <2>1
  <2>2. CASE log # <<>>
    <3>1. Mine /\ call \in CallSet
      <4>1. CASE Dead
        BY <2>2, <4>1 DEF Dead, DeadNone, DeadDone, DeadCall, DeadAt
      <4>2. CASE LiveDone
        BY <4>2 DEF LiveDone
      <4>3. CASE LiveCall
        <5>1. PICK j \in 1 .. call.len, l \in Labels : LiveAt(l, j)
          BY <4>3 DEF LiveCall
        <5>2. At(l, j)
          BY <5>1 DEF LiveAt
        <5> QED
          BY <4>3, <5>2 DEF LiveCall, At, Before, Awaits, Unseen, Seen, Started, Begun, Busy, Over, Made,
                            Labels, Waits, Checks, Puts, Early
      <4> QED
        BY <2>2, <4>1, <4>2, <4>3 DEF Inv, Live, LiveNone
    <3>2. Len(log) <= call.len /\ call.len \in Nat
      BY <3>1 DEF Mine, CallSet
    <3>3. \A i \in 1 .. Len(log) : i <= call.len
      BY <1>t, <3>2
    <3> QED
      BY <3>1, <3>3 DEF Mine
  <2> QED
    BY <2>1, <2>2
<1>2. ASSUME call # NoCall, ops = <<>>, Ret = "OK"
      PROVE  /\ Len(log) = call.len /\ hw.state = "idle"
             /\ call.rw = "read" => got = [i \in 1 .. Len(log) |-> log[i].data]
  <2>1. LiveDone
    <3>1. ~DeadCall
      <4> SUFFICES ASSUME DeadCall PROVE FALSE
        OBVIOUS
      <4>1. PICK j \in 1 .. call.len, l \in {"wait0", "check0", "clear", "wait2", "check2"} : DeadAt(l, j)
        BY DEF DeadCall
      <4>2. call \in CallSet /\ l \in Labels /\ Proper(l, call, j) /\ ops = Pos(l, call, j)
        BY <4>1 DEF DeadCall, DeadAt, Labels, Waits, Checks, Puts
      <4>3. ops # <<>>
        BY <4>2, Flow DEF Begins
      <4> QED
        BY <1>2, <4>3
    <3>2. ~LiveCall
      <4> SUFFICES ASSUME LiveCall PROVE FALSE
        OBVIOUS
      <4>1. PICK j \in 1 .. call.len, l \in Labels : LiveAt(l, j)
        BY DEF LiveCall
      <4>2. call \in CallSet
        BY DEF LiveCall
      <4> QED
        BY <1>2, <4>1, <4>2, Point
    <3> QED
      BY <1>2, <3>1, <3>2 DEF Inv, Live, LiveNone, Dead, DeadNone, DeadDone
  <2>2. Made(call.len) /\ Read(call.len) /\ Quiet
    BY <1>2, <2>1 DEF LiveDone
  <2>3. Len(log) = call.len /\ hw.state = "idle"
    BY <2>2 DEF Made, Quiet
  <2>4. ASSUME call.rw = "read" PROVE got = [i \in 1 .. Len(log) |-> log[i].data]
    <3>1. PICK n \in Nat : n = Len(log)
      BY <1>t
    <3>2. Len(got) = n /\ \A i \in 1 .. n : got[i] = log[i].data
      BY <2>2, <2>3, <2>4, <3>1 DEF Read
    <3>3. got = [i \in 1 .. n |-> got[i]]
      BY <1>t, <3>2
    <3> QED
      BY <3>1, <3>2, <3>3
  <2> QED
    BY <2>3, <2>4
<1> QED
  BY <1>1, <1>2 DEF OwnTransactions

(* Whatever the devices answer, and however long they hold the clock, a     *)
(* call's transactions are its own, and one that returns RESULT_OK has made *)
(* them all and read what the devices gave.                                 *)
THEOREM CallsOwnTransactions == Spec => []OwnTransactions
<1>1. Init => Inv
  BY InitInv
<1>2. Inv /\ [Next]_vars => Inv'
  BY InvStep
<1>3. Inv => OwnTransactions
  BY InvOwn
<1> QED
  BY <1>1, <1>2, <1>3, PTL DEF Spec
=============================================================================
