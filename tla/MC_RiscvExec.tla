---------------------------- MODULE MC_RiscvExec ----------------------------
(* RiscvExec with bytes of one bit, so words of four, sixteen addresses, and *)
(* at most two regions.                                                     *)
EXTENDS RiscvExec

Sect(addr, data)  == [alloc |-> TRUE, progbits |-> TRUE, addr |-> addr, data |-> data]
Bss(addr, n)      == [alloc |-> TRUE, progbits |-> FALSE, addr |-> addr, data |-> [k \in 1 .. n |-> 0]]
Debug             == [alloc |-> FALSE, progbits |-> TRUE, addr |-> 0, data |-> <<1>>]

Word_(p, f7, rs2, rs1, rd, imm) ==
  [op |-> p.op, f3 |-> p.f3, f7 |-> p.f7 + f7, rs2 |-> rs2, rs1 |-> rs1, rd |-> rd, imm |-> imm]
I(name, f7, rs2, rs1, rd, imm) == Word_(INST[name], f7, rs2, rs1, rd, imm)

Gprs(as, bs) == {[r \in Regs |-> IF r = 1 THEN a ELSE IF r = 2 THEN b ELSE 0] : a \in as, b \in bs}

Scenario(image, gprs, opcodes, n) ==
  [image |-> image, entry |-> 0, gprs |-> gprs, opcodes |-> opcodes, max_cycles |-> n,
   stop_pc |-> W - 1, break |-> {}]

Code8 == <<Sect(0, <<1, 0, 1, 1, 0, 1, 1, 1>>)>>

(* Every pair of operands; the distances of shifts are up to 33.            *)
Operands ==
  Scenario(Code8, Gprs(Word, Word),
    {I(n, 0, 2, 1, 1, 0) : n \in DOMAIN OpReg(0, 0) \cup DOMAIN OpMul(0, 0) \cup DOMAIN OpDiv(0, 0)}
    \cup {I(n, 0, 0, 1, 2, 9) : n \in {"ANDI", "ORI", "XORI", "ADDI", "SLTI", "SLTIU", "LUI", "AUIPC"}}
    \cup {I(n, f, 1, 1, 2, 0) : n \in {"SLLI", "SRLI", "SRAI"}, f \in {0, 1}}, 1)

(* Every word of the fields' values of interest.                            *)
AllWords ==
  Scenario(Code8, Gprs({1}, {2}),
    [op : {INST[n].op : n \in Names} \cup {0}, f3 : 0 .. 7, f7 : {0, 1, 8, 9, 24, 32},
     rs2 : {0, 1, 2, 5}, rs1 : {0}, rd : {0, 1}, imm : {0}], 1)

(* Loads and stores all over memory: in a region of six bytes, in one that  *)
(* begins at an odd word, where two overlap, and next to a missing one.     *)
Accesses ==
  {I(n, 0, 2, 1, 5, i) : n \in Loads \cup Stores, i \in {0, 1, 2, 3}}

Memory(image) == Scenario(image, Gprs({0, 4}, {9}), Accesses, 2)

(* Files that cannot be loaded: at the top, and with too many sections.     *)
Unloadable(image) == Scenario(image, Gprs({0}, {0}), {}, 1)

(* Jumps and branches, forth and back, with a stop PC or a breakpoint.      *)
Flow(stop, break) ==
  [Scenario(Code8, Gprs({3, 4}, {4, 12}),
     {I(n, 0, 2, 1, 5, i) : n \in {"JAL", "JALR"} \cup DOMAIN Taken(0, 0), i \in {0, 4, 12}}
     \cup {I("ADDI", 0, 0, 1, 1, 1), I("EBREAK", 0, 1, 0, 0, 0)}, 3)
   EXCEPT !.stop_pc = stop, !.break = break]

MCScenarios ==
  [operands |-> Operands,
   words    |-> AllWords,
   odd      |-> Memory(<<Sect(0, <<1, 0, 1, 1, 0, 1>>), Debug, Bss(6, 4)>>),
   overlap  |-> Memory(<<Sect(0, <<1, 0, 0, 1>>), Sect(2, <<1, 1, 0, 1, 1, 0>>)>>),
   top      |-> Unloadable(<<Sect(12, <<1, 1, 1, 1>>)>>),
   last     |-> Unloadable(<<Sect(15, <<1>>)>>),
   many     |-> Unloadable(<<Bss(0, 1), Bss(1, 1), Bss(2, 1)>>),
   flow     |-> Flow(W - 1, {}),
   stop     |-> Flow(4, {}),
   break    |-> Flow(W - 1, {4})]
=============================================================================
