------------------------------- MODULE I2cHw -------------------------------
(***************************************************************************)
(* The I2C controller and its driver: I2CWrite(), I2CRead() and            *)
(* I2CReadBlock() of main.c, which dvi_setup(), handle_input() and the     *)
(* i2c commands call, against the state machine of i2c_master.v behind the *)
(* registers of i2c_master_axil.v.                                         *)
(*                                                                         *)
(* The controller moves at the ticks of its divider, the driver polls in   *)
(* between: at least once and at most PPT times.  A slave may stretch the  *)
(* clock, as long as the budget of polls bears it or for ever.             *)
(***************************************************************************)
EXTENDS Integers, Sequences, SequencesExt

CONSTANTS
  Devices,          (* a bus and a device's address on it                   *)
  KEYBOARD,         (* the one that handle_input() asks                     *)
  ENCODERS,         (* those that dvi_setup() programs, in their order      *)
  DVI_SETUP,        (* pairs of a register and its value                    *)
  Requests,         (* what the i2c commands ask for                        *)
  DATA,             (* what a register can hold                             *)
  TIMEOUT,          (* 1000000 polls                                        *)
  PPT,
  MaxStretch        (* ticks that slaves stretch in a transaction, unless   *)
                    (* for ever                                             *)

ASSUME I2cAssumption ==
  /\ KEYBOARD \in Devices /\ ENCODERS \in Seq(Devices)
  /\ 0 \in DATA /\ DVI_SETUP \in Seq(Nat \X DATA)
  /\ Requests \subseteq
       [rw : {"read", "write"}, dev : Devices, addr : Nat, data : DATA, len : {1}]
  /\ {TIMEOUT, PPT} \subseteq Nat \ {0} /\ MaxStretch \in Nat
  (* a read takes ten ticks, a block is two reads, and they share a budget *)
  /\ TIMEOUT > 2 * PPT * (10 + MaxStretch)

VARIABLES
  regs,      (* the registers that the driver writes                        *)
  hw,        (* the controller: its state, what it latched, and its flags   *)
  stretch,   (* ticks that the slaves may still stretch; DEAD: for ever     *)
  polls,     (* driver steps since the last tick                            *)
  todo,      (* the calls that dvi_setup() and handle_input() have to make  *)
  call,      (* the call that is being made, or NoCall                      *)
  ops,       (* what is left of it                                          *)
  Timeout,
  Ret,
  got,       (* history: *pData of this call                                *)
  log        (* history: the transactions that began during this call       *)

driver == <<regs, todo, call, ops, Timeout, Ret, got>>
vars == <<regs, hw, stretch, polls, todo, call, ops, Timeout, Ret, got, log>>

DEAD == -1

NoCall ==
  [rw |-> "none", dev |-> KEYBOARD, addr |-> 0, data |-> 0, len |-> 0]
I2CWrite(d, a, v)     == [rw |-> "write", dev |-> d, addr |-> a, data |-> v, len |-> 1]
I2CRead(d, a)         == [rw |-> "read", dev |-> d, addr |-> a, data |-> 0, len |-> 1]
I2CReadBlock(d, a, n) == [rw |-> "read", dev |-> d, addr |-> a, data |-> 0, len |-> n]

-----------------------------------------------------------------------------
(* What a call does, step by step.  <<"wait", b>> polls while the busy flag *)
(* is b and the budget lasts; "check" gives up when it is spent; <<"put",   *)
(* r>> writes the registers that r has; rest is what comes after.           *)

Put(r, rest)   == << <<"put", r>> >> \o rest
Wait(b, rest)  == << <<"wait", b>> >> \o rest
Ready(rest)    == Wait(TRUE, << <<"check">> >> \o rest)
Command(c, b)  == [rw |-> c.rw, enable |-> b]

(* A mistake: the start is not waited for.                                  *)
Fire_NoStart(c, rest) ==
  Put(Command(c, FALSE), Put(Command(c, TRUE), Put(Command(c, FALSE),
    Ready(<< <<"result">> >> \o rest))))

(* The transaction is fired, its start waited for, its start flag cleared,  *)
(* and its end waited for.                                                  *)
Fire(c, rest) ==
  Put(Command(c, FALSE), Put(Command(c, TRUE), Wait(FALSE, Put(Command(c, FALSE),
    Ready(<< <<"result">> >> \o rest)))))

WriteOps(c) ==
  Ready(Put([dev |-> c.dev], Put([addr |-> c.addr], Put([data |-> c.data],
    Ready(Fire(c, <<>>))))))

ReadOps(c) ==
  Ready(Put([dev |-> c.dev], Put([addr |-> c.addr], Ready(Fire(c, <<>>)))))

BlockOps(c) ==
  LET round[i \in 1 .. c.len + 1] ==
        IF i > c.len THEN <<>>
        ELSE Put([addr |-> c.addr + i - 1], Ready(Fire(c, round[i + 1])))
  IN  Ready(Put([dev |-> c.dev], round[1]))

Ops(c) == IF c.rw = "write" THEN WriteOps(c) ELSE IF c.len = 1 THEN ReadOps(c) ELSE BlockOps(c)

-----------------------------------------------------------------------------
(* main() sets the encoders up and then asks the keyboard, or runs a        *)
(* command, again and again.                                                *)

dvi_setup(d) == [i \in 1 .. Len(DVI_SETUP) |-> I2CWrite(d, DVI_SETUP[i][1], DVI_SETUP[i][2])]

Init ==
  /\ regs = [enable |-> FALSE, rw |-> "write", dev |-> KEYBOARD, addr |-> 0, data |-> 0]
  /\ hw = [state |-> "idle", enable |-> FALSE, rw |-> "write", busy |-> FALSE, nack |-> FALSE, miso |-> 0]
  /\ stretch = 0 /\ polls = 0
  /\ todo = FlattenSeq([i \in 1 .. Len(ENCODERS) |-> dvi_setup(ENCODERS[i])])
  /\ call = NoCall /\ ops = <<>> /\ Timeout = 0 /\ Ret = "OK" /\ got = <<>> /\ log = <<>>

(* handle_input(): what the first register says is to be read.              *)
Dirty(c, v) ==
  IF c # I2CRead(KEYBOARD, 0) THEN <<>>
  ELSE (IF v % 2 = 1 THEN <<I2CRead(KEYBOARD, 8)>> ELSE <<>>)
         \o (IF (v \div 2) % 2 = 1 THEN <<I2CReadBlock(KEYBOARD, 6, 2)>> ELSE <<>>)

(* A command that lacks one of its values, or has one too large, makes no   *)
(* call.                                                                    *)
I2CWriteCmd == {c \in Requests : c.rw = "write"}
I2CReadCmd  == {c \in Requests : c.rw = "read" /\ c.len = 1}

Calls ==
  IF todo # <<>> THEN {Head(todo)}
                 ELSE {I2CRead(KEYBOARD, 0)} \cup I2CWriteCmd \cup I2CReadCmd

Call ==
  /\ call = NoCall
  /\ \E c \in Calls : call' = c /\ ops' = Ops(c)
  /\ todo' = IF todo # <<>> THEN Tail(todo) ELSE todo
  /\ Timeout' = TIMEOUT /\ Ret' = "OK" /\ got' = <<>> /\ log' = <<>>
  /\ UNCHANGED <<regs, hw, stretch, polls>>

Op(name) == call # NoCall /\ ops # <<>> /\ Head(ops)[1] = name /\ polls < PPT

Step == polls' = polls + 1 /\ UNCHANGED <<hw, stretch, log, call>>

(* A mistake: the polls of a wait are not counted.                          *)
Spent_Not == Timeout

Spent == Timeout - 1

Poll ==
  /\ Op("wait") /\ Step
  /\ IF Timeout > 0 /\ hw.busy = Head(ops)[2]
     THEN Timeout' = Spent /\ UNCHANGED ops
     ELSE ops' = Tail(ops) /\ UNCHANGED Timeout
  /\ UNCHANGED <<regs, todo, Ret, got>>

Check ==
  /\ Op("check") /\ Step
  /\ IF Timeout = 0 THEN ops' = <<>> /\ Ret' = "ERR" ELSE ops' = Tail(ops) /\ UNCHANGED Ret
  /\ UNCHANGED <<regs, todo, Timeout, got>>

Set(r) == [f \in DOMAIN regs |-> IF f \in DOMAIN r THEN r[f] ELSE regs[f]]

Write ==
  /\ Op("put") /\ Step
  /\ regs' = Set(Head(ops)[2])
  /\ ops' = Tail(ops)
  /\ UNCHANGED <<todo, Timeout, Ret, got>>

(* A read that was not acknowledged fails; nobody asks for a write.         *)
Result ==
  /\ Op("result") /\ Step
  /\ IF call.rw = "read" /\ hw.nack THEN ops' = <<>> /\ Ret' = "ERR" ELSE ops' = Tail(ops) /\ UNCHANGED Ret
  /\ got' = IF call.rw = "read" /\ ~ hw.nack THEN Append(got, hw.miso) ELSE got
  /\ UNCHANGED <<regs, todo, Timeout>>

Return ==
  /\ call # NoCall /\ ops = <<>>
  /\ todo' = todo \o (IF Ret = "OK" /\ got # <<>> THEN Dirty(call, got[1]) ELSE <<>>)
  /\ call' = NoCall /\ got' = <<>> /\ log' = <<>> /\ Timeout' = 0 /\ Ret' = "OK"
  /\ UNCHANGED <<regs, hw, stretch, polls, ops>>

-----------------------------------------------------------------------------
(* The controller, a tick at a time; a byte and its acknowledgement are one *)
(* tick, and more when a slave stretches.                                   *)

Idle ==
  /\ hw.state = "idle"
  /\ hw' = IF hw.enable
           THEN [hw EXCEPT !.state = "start", !.nack = FALSE, !.busy = FALSE, !.rw = regs.rw, !.enable = regs.enable]
           ELSE [hw EXCEPT !.busy = FALSE, !.rw = regs.rw, !.enable = regs.enable]
  /\ log' = IF hw.enable
            THEN Append(log, [rw |-> regs.rw, dev |-> regs.dev, addr |-> regs.addr, data |-> regs.data])
            ELSE log
  /\ UNCHANGED stretch

Start ==
  /\ hw.state = "start"
  /\ hw' = [hw EXCEPT !.state = "device", !.busy = TRUE, !.enable = FALSE]
  /\ stretch' = MaxStretch
  /\ UNCHANGED log

(* A byte is acknowledged, and what follows it begins, or it is not.        *)
Follows ==
  [device   |-> "register",
   register |-> IF hw.rw = "write" THEN "data" ELSE "restart",
   data     |-> "stop",
   again    |-> "value"]

Byte ==
  /\ hw.state \in DOMAIN Follows /\ stretch # DEAD
  /\ \/ hw' = [hw EXCEPT !.state = Follows[hw.state]]
     \/ hw' = [hw EXCEPT !.state = "idle", !.nack = TRUE]
  /\ UNCHANGED <<stretch, log>>

Restart ==
  /\ hw.state = "restart"
  /\ hw' = [hw EXCEPT !.state = "again"]
  /\ UNCHANGED <<stretch, log>>

Value ==
  /\ hw.state = "value" /\ stretch # DEAD
  /\ \E v \in DATA :
       /\ hw' = [hw EXCEPT !.state = "stop", !.miso = v]
       /\ log' = [log EXCEPT ![Len(log)].data = v]
  /\ UNCHANGED stretch

Stop ==
  /\ hw.state = "stop" /\ stretch # DEAD
  /\ hw' = [hw EXCEPT !.state = "idle"]
  /\ UNCHANGED <<stretch, log>>

Stretch ==
  /\ hw.state \notin {"idle", "start", "restart"}
  /\ \/ stretch' = DEAD
     \/ stretch # DEAD /\ stretch > 0 /\ stretch' = stretch - 1
  /\ UNCHANGED <<hw, log>>

Tick ==
  /\ polls > 0 \/ call = NoCall
  /\ polls' = 0
  /\ \/ Idle \/ Start \/ Byte \/ Restart \/ Value \/ Stop
     \/ Stretch
  /\ UNCHANGED driver

Driver == Call \/ Poll \/ Check \/ Write \/ Result \/ Return

Next == Driver \/ Tick

(* The processor runs and the clock ticks.                                  *)
Spec == Init /\ [][Next]_vars /\ WF_vars(Driver) /\ WF_vars(Tick)
-----------------------------------------------------------------------------
(* A call's transactions are its own: the controller begins none that the   *)
(* call did not ask for, with its registers and once each, whatever an      *)
(* earlier call left behind (a start flag, a transaction on a bus that      *)
(* hangs); a call that returns RESULT_OK has made all of them, they are     *)
(* over, and what it read is what the devices gave, in its order.           *)
OwnTransactions ==
  /\ \A i \in 1 .. Len(log) :
       /\ i <= call.len
       /\ log[i].rw = call.rw /\ log[i].dev = call.dev /\ log[i].addr = call.addr + i - 1
       /\ call.rw = "write" => log[i].data = call.data
  /\ (call # NoCall /\ ops = <<>> /\ Ret = "OK") =>
       /\ Len(log) = call.len /\ hw.state = "idle"
       /\ call.rw = "read" => got = [i \in 1 .. Len(log) |-> log[i].data]

(* A device that holds the clock for ever costs a call its budget and not   *)
(* more: the terminal goes on.                                              *)
CallsReturn == (call # NoCall) ~> (call = NoCall)
=============================================================================
