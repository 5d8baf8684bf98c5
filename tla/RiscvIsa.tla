------------------------------ MODULE RiscvIsa ------------------------------
(***************************************************************************)
(* The instructions of the simulator, RV32IM, as tables: the bit patterns  *)
(* of riscv_isa.h, the order in which riscv.cpp tries them, the order in   *)
(* which the trace's disassembler does, and what each instruction computes.*)
(*                                                                         *)
(* An instruction word is a record of its fields; imm stands for the       *)
(* immediate that its format spreads over them.  A machine word is a       *)
(* number below W, with XLEN bits.                                         *)
(***************************************************************************)
EXTENDS Integers, Sequences, TLC, Bitwise

CONSTANT XLEN    (* 32 *)

Two(n) == 2 ^ n

S(w) == IF w >= Two(XLEN - 1) THEN w - Two(XLEN) ELSE w     (* (signed)w    *)
U(n) == n % Two(XLEN)                                       (* (uint32_t)n  *)
Bool(b) == IF b THEN 1 ELSE 0

-----------------------------------------------------------------------------
(* The masks, by the fields that they compare; f6 is f7 but its last bit,   *)
(* which a shift's immediate has.                                           *)
MASK ==
  [m7f       |-> {"op"},
   m707f     |-> {"op", "f3"},
   mfc00707f |-> {"op", "f3", "f6"},
   mfe00707f |-> {"op", "f3", "f7"},
   mfe007fff |-> {"op", "f3", "f7", "rd"},
   mffffffff |-> {"op", "f3", "f7", "rs2", "rs1", "rd"},
   mffff8fff |-> {"op", "f7", "rs2", "rs1", "rd"}]

Pattern(mask, op, f3, f7, rs2) ==
  [mask |-> mask, op |-> op, f3 |-> f3, f6 |-> f7 \div 2, f7 |-> f7,
   rs2 |-> rs2, rs1 |-> 0, rd |-> 0]

Upper(op)        == Pattern("m7f", op, 0, 0, 0)
TypeI(op, f3)    == Pattern("m707f", op, f3, 0, 0)
Shift(f3, f7)    == Pattern("mfc00707f", 19, f3, f7, 0)
TypeR(f3, f7)    == Pattern("mfe00707f", 51, f3, f7, 0)
System(f7, rs2)  == Pattern("mffffffff", 115, 0, f7, rs2)

INST_Alu ==
  [ANDI |-> TypeI(19, 7), ADDI  |-> TypeI(19, 0), SLTI |-> TypeI(19, 2), SLTIU |-> TypeI(19, 3),
   ORI  |-> TypeI(19, 6), XORI  |-> TypeI(19, 4),
   SLLI |-> Shift(1, 0),  SRLI  |-> Shift(5, 0),  SRAI |-> Shift(5, 32),
   LUI  |-> Upper(55),    AUIPC |-> Upper(23),
   ADD  |-> TypeR(0, 0),  SUB   |-> TypeR(0, 32), SLT  |-> TypeR(2, 0), SLTU |-> TypeR(3, 0),
   XOR  |-> TypeR(4, 0),  OR    |-> TypeR(6, 0),  AND  |-> TypeR(7, 0),
   SLL  |-> TypeR(1, 0),  SRL   |-> TypeR(5, 0),  SRA  |-> TypeR(5, 32)]

INST_Flow ==
  [JAL |-> Upper(111),    JALR |-> TypeI(103, 0),
   BEQ |-> TypeI(99, 0),  BNE  |-> TypeI(99, 1), BLT  |-> TypeI(99, 4), BGE |-> TypeI(99, 5),
   BLTU |-> TypeI(99, 6), BGEU |-> TypeI(99, 7),
   LB  |-> TypeI(3, 0),   LH   |-> TypeI(3, 1),  LW   |-> TypeI(3, 2),
   LBU |-> TypeI(3, 4),   LHU  |-> TypeI(3, 5),  LWU  |-> TypeI(3, 6),
   SB  |-> TypeI(35, 0),  SH   |-> TypeI(35, 1), SW   |-> TypeI(35, 2)]

INST_System ==
  [ECALL  |-> System(0, 0),    EBREAK |-> System(0, 1),
   SFENCE |-> Pattern("mfe007fff", 115, 0, 9, 0),
   FENCE  |-> TypeI(15, 0),    IFENCE |-> TypeI(15, 1),
   MRET   |-> System(24, 2),   SRET   |-> System(8, 2),
   CSRRW  |-> TypeI(115, 1),   CSRRS  |-> TypeI(115, 2),  CSRRC  |-> TypeI(115, 3),
   CSRRWI |-> TypeI(115, 5),   CSRRSI |-> TypeI(115, 6),  CSRRCI |-> TypeI(115, 7)]

INST_Mul ==
  [MUL |-> TypeR(0, 1), MULH |-> TypeR(1, 1), MULHSU |-> TypeR(2, 1), MULHU |-> TypeR(3, 1),
   DIV |-> TypeR(4, 1), DIVU |-> TypeR(5, 1), REM    |-> TypeR(6, 1), REMU  |-> TypeR(7, 1),
   WFI |-> Pattern("mffff8fff", 115, 0, 8, 5)]

INST  == INST_Alu @@ INST_Flow @@ INST_System @@ INST_Mul
Names == DOMAIN INST

Field(i, f)   == IF f = "f6" THEN i.f7 \div 2 ELSE i[f]
Fits(i, p)    == \A f \in MASK[p.mask] : Field(i, f) = p[f]
Matches(i, n) == Fits(i, INST[n])

-----------------------------------------------------------------------------
(* The first of a chain of tests that holds.                                *)
First(chain, i) ==
  LET hits == {k \in DOMAIN chain : Matches(i, chain[k])}
  IN  IF hits = {} THEN "invalid" ELSE chain[CHOOSE k \in hits : \A j \in hits : k <= j]

(* Fences are one test, and one instruction.                                *)
Fences == {"SFENCE", "FENCE", "IFENCE"}
Named(n) == IF n \in Fences THEN "FENCE" ELSE n

(* execute() *)
ExecAlu  == <<"ANDI", "ORI", "XORI", "ADDI", "SLTI", "SLTIU", "SLLI", "SRLI", "SRAI", "LUI", "AUIPC",
              "ADD", "SUB", "SLT", "SLTU", "XOR", "OR", "AND", "SLL", "SRL", "SRA">>
ExecFlow == <<"JAL", "JALR", "BEQ", "BNE", "BLT", "BGE", "BLTU", "BGEU">>
ExecMem  == <<"LB", "LH", "LW", "LBU", "LHU", "LWU", "SB", "SH", "SW">>
ExecMul  == <<"MUL", "MULH", "MULHSU", "MULHU", "DIV", "DIVU", "REM", "REMU">>
ExecSys  == <<"ECALL", "EBREAK", "MRET", "SRET", "SFENCE", "FENCE", "IFENCE",
              "CSRRW", "CSRRS", "CSRRC", "CSRRWI", "CSRRSI", "CSRRCI", "WFI">>

Decode(i) == Named(First(ExecAlu \o ExecFlow \o ExecMem \o ExecMul \o ExecSys, i))

(* riscv_inst_decode() *)
DumpAlu  == <<"ANDI", "ORI", "XORI", "ADDI", "SLTI", "SLTIU", "SLLI", "SRLI", "SRAI", "LUI", "AUIPC",
              "ADD", "SUB", "SLT", "SLTU", "XOR", "OR", "AND", "SLL", "SRL", "SRA">>
DumpFlow == <<"JAL", "JALR", "BEQ", "BNE", "BLT", "BGE", "BLTU", "BGEU",
              "LB", "LH", "LW", "LBU", "LHU", "LWU", "SB", "SH", "SW">>

(* A mistake: wfi is tried with the other system instructions that do not   *)
(* take operands, before the CSR instructions.                              *)
DumpSys_Wfi ==
  <<"MUL", "MULH", "MULHSU", "MULHU", "DIV", "DIVU", "REM", "REMU", "ECALL", "EBREAK", "MRET", "SRET",
    "WFI", "SFENCE", "FENCE", "IFENCE", "CSRRW", "CSRRS", "CSRRC", "CSRRWI", "CSRRSI", "CSRRCI">>

DumpSys ==
  <<"MUL", "MULH", "MULHSU", "MULHU", "DIV", "DIVU", "REM", "REMU", "ECALL", "EBREAK", "MRET", "SRET",
    "SFENCE", "FENCE", "IFENCE", "CSRRW", "CSRRS", "CSRRC", "CSRRWI", "CSRRSI", "CSRRCI", "WFI">>

riscv_inst_decode(i) == Named(First(DumpAlu \o DumpFlow \o DumpSys, i))

-----------------------------------------------------------------------------
(* What the instructions put into rd: sets, because C does not say what a   *)
(* shift by the width or more is: the builds' processors shift by the lower *)
(* bits of the distance, or everything out.                                 *)

Distances(n) == IF n < XLEN THEN {n} ELSE {n % XLEN, XLEN}

ShiftL(a, n) == {U(a * Two(k)) : k \in Distances(n)}
ShiftR(a, n) == {a \div Two(k) : k \in Distances(n)}
ShiftA(a, n) == {U(S(a) \div Two(k)) : k \in Distances(n)}

(* sh is the immediate of a shift: six bits of it are taken.                *)
OpImm(a, imm, sh, pc) ==
  [ANDI |-> {a & imm}, ORI |-> {a | imm}, XORI |-> {a ^^ imm}, ADDI |-> {U(a + imm)},
   SLTI |-> {Bool(S(a) < S(imm))}, SLTIU |-> {Bool(a < imm)},
   SLLI |-> ShiftL(a, sh), SRLI |-> ShiftR(a, sh), SRAI |-> ShiftA(a, sh),
   LUI |-> {imm}, AUIPC |-> {U(imm + pc)}]

OpReg(a, b) ==
  [ADD |-> {U(a + b)}, SUB |-> {U(a - b)}, SLT |-> {Bool(S(a) < S(b))}, SLTU |-> {Bool(a < b)},
   XOR |-> {a ^^ b}, OR |-> {a | b}, AND |-> {a & b},
   SLL |-> ShiftL(a, b), SRL |-> ShiftR(a, b), SRA |-> ShiftA(a, b)]

Taken(a, b) ==
  [BEQ |-> a = b, BNE |-> a # b, BLT |-> S(a) < S(b), BGE |-> S(a) >= S(b),
   BLTU |-> a < b, BGEU |-> a >= b]

(* A product of two words, in a double word, and the upper half of it.      *)
High(p) == U((p % Two(2 * XLEN)) \div Two(XLEN))

OpMul(a, b) ==
  [MUL |-> {U(S(a) * S(b))}, MULH |-> {High(S(a) * S(b))}, MULHSU |-> {High(S(a) * b)},
   MULHU |-> {High(a * b)}]

(* C divides towards 0; the case that overflows is taken out.               *)
Abs(n)     == IF n < 0 THEN -n ELSE n
Quot(x, y) == IF (x < 0) = (y < 0) THEN Abs(x) \div Abs(y) ELSE -(Abs(x) \div Abs(y))
Overflows(a, b) == a = Two(XLEN - 1) /\ S(b) = -1

(* A mistake: by zero, the remainder is 0.                                  *)
OpDiv_Zero(a, b) ==
  [DIV |-> {IF b # 0 THEN U(Quot(S(a), S(b))) ELSE U(-1)},
   REM |-> {IF b # 0 THEN U(S(a) - S(b) * Quot(S(a), S(b))) ELSE 0},
   DIVU |-> {IF b # 0 THEN a \div b ELSE U(-1)},
   REMU |-> {IF b # 0 THEN a % b ELSE a}]

OpDiv(a, b) ==
  [DIV  |-> {IF Overflows(a, b) THEN a ELSE IF b # 0 THEN U(Quot(S(a), S(b))) ELSE U(-1)},
   REM  |-> {IF Overflows(a, b) THEN 0 ELSE IF b # 0 THEN U(S(a) - S(b) * Quot(S(a), S(b))) ELSE a},
   DIVU |-> {IF b # 0 THEN a \div b ELSE U(-1)},
   REMU |-> {IF b # 0 THEN a % b ELSE a}]
=============================================================================
