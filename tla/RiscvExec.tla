----------------------------- MODULE RiscvExec -----------------------------
(***************************************************************************)
(* A run of the instruction set simulator: riscv_main() has the sections   *)
(* of an ELF file created and written into memory, resets the CPU to its   *)
(* entry point and steps it until it stops; execute() computes in the      *)
(* general registers and in memory.                                        *)
(*                                                                         *)
(* The CPU is in machine mode, so that addresses are physical, and no      *)
(* interrupt is taken: those, and what the system instructions do, are     *)
(* RiscvPriv's.  A fetched word is any of those the scenario names: what   *)
(* program memory holds is not looked at, but it has to be there.          *)
(***************************************************************************)
EXTENDS RiscvIsa, RiscvMem

CONSTANTS
  Regs,        (* the registers that instructions name                      *)
  Scenarios    (* what is run: a record by name                             *)
               (* image: the ELF file's sections, each                      *)
               (*   [alloc, progbits, addr, data]                           *)
               (* gprs: what earlier code may have left in the registers    *)
               (* opcodes: the instruction words of the program             *)
               (* entry: its entry point                                    *)
               (* stop_pc, max_cycles: riscv_main's -r and -c               *)
               (* break: breakpoints                                        *)

ASSUME ExecAssumption ==
  /\ XLEN = 4 * BYTE
  /\ 0 \in Regs
  /\ \A s \in DOMAIN Scenarios : Scenarios[s].max_cycles \in Nat \ {0}

VARIABLES
  run,         (* the scenario's name                                       *)
  todo,        (* the file's sections that are still to be loaded, the      *)
               (* first of them from its byte done on                       *)
  done,
  m_gpr, m_pc,
  m_pc_x,      (* of the instruction executed last                          *)
  current_pc, cycles,   (* riscv_main's                                     *)
  status,      (* "load", "run", and how it ended: "end", "error" (no       *)
               (* loading), "exit" (error()), "abort" (an assertion)        *)
  last         (* history: the operands and the name of the last            *)
               (* instruction, its word, and the last access to memory      *)

It     == Scenarios[run]
cpu    == <<m_gpr, m_pc, m_pc_x>>
loader == <<run, todo, done>>
vars   == <<m_mem, loader, cpu, current_pc, cycles, status, last>>

-----------------------------------------------------------------------------
(* elf_load() *)

Init ==
  /\ run \in DOMAIN Scenarios
  /\ todo = Scenarios[run].image /\ done = -1
  /\ m_mem = <<>>
  /\ m_gpr = [r \in Regs |-> 0] /\ m_pc = 0 /\ m_pc_x = 0
  /\ current_pc = 0 /\ cycles = 0
  /\ status = "load"
  /\ last = [a |-> 0, b |-> 0, name |-> "invalid", word |-> [op |-> 0], access |-> [op |-> "none"]]

Loading  == status = "load" /\ todo # <<>>
Section  == Head(todo)
HasBytes == Section.alloc /\ Section.data # <<>>
NextSection == todo' = Tail(todo) /\ done' = -1 /\ UNCHANGED run
Idle == UNCHANGED <<cpu, current_pc, cycles>>

Request(op, a, n, signed, v) == [op |-> op, a |-> a, n |-> n, signed |-> signed, v |-> v]

ElfSkip ==
  Loading /\ ~HasBytes /\ NextSection /\ UNCHANGED <<m_mem, status, last>> /\ Idle

ElfCreate ==
  /\ Loading /\ HasBytes /\ done = -1
  /\ \/ /\ create_memory(Section.addr, Len(Section.data))
        /\ IF Section.progbits THEN done' = 0 /\ UNCHANGED <<run, todo>> ELSE NextSection
        /\ UNCHANGED status
     \/ ~CanAttach /\ status' = "error" /\ UNCHANGED <<m_mem, loader>>
  /\ UNCHANGED last /\ Idle

(* mem_load(): write() ends the simulator where there is no region; cosim   *)
(* has no memory on the last address of all.                                *)
ElfByte ==
  LET a == U(Section.addr + done)
  IN  /\ Loading /\ HasBytes /\ done >= 0
      /\ \/ /\ a = W - 1
            /\ status' = "error" /\ UNCHANGED <<m_mem, loader, last>>
         \/ /\ a # W - 1 /\ ~valid_addr(a)
            /\ status' = "exit" /\ UNCHANGED <<m_mem, loader, last>>
         \/ /\ a # W - 1 /\ valid_addr(a)
            /\ StoreAt(a, Section.data[done + 1], 1)
            /\ last' = [last EXCEPT !.access = Request("store", a, 1, FALSE, Section.data[done + 1])]
            /\ IF done + 1 < Len(Section.data) THEN done' = done + 1 /\ UNCHANGED <<run, todo>>
                                               ELSE NextSection
            /\ UNCHANGED status
      /\ Idle

(* The file is loaded: reset() to its entry point.  The registers are 0     *)
(* then; the scenario begins with what the program has put there since.     *)
Reset ==
  /\ status = "load" /\ todo = <<>>
  /\ status' = "run"
  /\ m_pc' = It.entry /\ m_pc_x' = It.entry
  /\ m_gpr' \in It.gprs
  /\ UNCHANGED <<m_mem, loader, current_pc, cycles, last>>

-----------------------------------------------------------------------------
(* riscv_main(): the loop goes on until the PC that was current before the  *)
(* last step is stop_pc, or the breakpoint of the instruction is hit.       *)
Steps == status = "run" /\ current_pc # It.stop_pc /\ cycles < It.max_cycles

Stop ==
  /\ status = "run" /\ ~Steps
  /\ status' = "end"
  /\ UNCHANGED <<m_mem, loader, cpu, current_pc, cycles, last>>

Fails(how) == status' = how /\ UNCHANGED <<m_mem, loader, cpu, current_pc, cycles, last>>

(* The fetch: a word read where there is no memory is 0, which is no        *)
(* instruction.                                                             *)
Fetched    == Steps /\ Answer(m_pc, 4) = "ok"
FetchFails == Steps /\ Answer(m_pc, 4) # "ok" /\ Fails(Answer(m_pc, 4))

(* The instructions: i is the word, and n the name that it is decoded to.   *)

Rs1(i) == m_gpr[i.rs1]
Rs2(i) == m_gpr[i.rs2]

(* The end of execute() and of step(): an instruction named n has put v     *)
(* into rd, unless that is register 0, and goes on at npc.                  *)
Writeback(i, v) == m_gpr' = IF i.rd # 0 THEN [m_gpr EXCEPT ![i.rd] = v] ELSE m_gpr

Goes(i, n, npc, access) ==
  /\ m_pc' = U(npc) /\ m_pc_x' = m_pc
  /\ current_pc' = m_pc_x /\ cycles' = cycles + 1
  /\ last' = [a |-> Rs1(i), b |-> Rs2(i), name |-> n, word |-> i, access |-> access]
  /\ status' = IF m_pc \in It.break \/ n = "EBREAK" THEN "end" ELSE status
  /\ UNCHANGED loader

Computes(i, n, results) ==
  /\ n \in DOMAIN results
  /\ \E v \in results[n] : Writeback(i, v)
  /\ Goes(i, n, m_pc + 4, last.access)
  /\ UNCHANGED m_mem

Immediate(i, n) == Computes(i, n, OpImm(Rs1(i), i.imm, i.rs2 + 32 * (i.f7 % 2), m_pc))
Register(i, n)  == Computes(i, n, OpReg(Rs1(i), Rs2(i)))
Multiply(i, n)  == Computes(i, n, OpMul(Rs1(i), Rs2(i)))
Divide(i, n)    == Computes(i, n, OpDiv(Rs1(i), Rs2(i)))

Jump(i, n) ==
  /\ n \in {"JAL", "JALR"}
  /\ Writeback(i, U(m_pc + 4))
  /\ Goes(i, n, IF n = "JAL" THEN m_pc + i.imm ELSE 2 * (U(Rs1(i) + i.imm) \div 2), last.access)
  /\ UNCHANGED m_mem

Branch(i, n) ==
  /\ n \in DOMAIN Taken(0, 0)
  /\ Goes(i, n, IF Taken(Rs1(i), Rs2(i))[n] THEN m_pc + i.imm ELSE m_pc + 4, last.access)
  /\ UNCHANGED <<m_mem, m_gpr>>

(* load() and store() *)
Width  == [LB |-> 1, LBU |-> 1, SB |-> 1, LH |-> 2, LHU |-> 2, SH |-> 2, LW |-> 4, LWU |-> 4, SW |-> 4]
Loads  == {"LB", "LH", "LW", "LBU", "LHU", "LWU"}
Stores == {"SB", "SH", "SW"}

Address(i) == U(Rs1(i) + i.imm)

AccessFails(i, n) ==
  /\ n \in DOMAIN Width
  /\ Answer(Address(i), Width[n]) # "ok"
  /\ Fails(Answer(Address(i), Width[n]))

Load(i, n) ==
  /\ n \in Loads
  /\ Answer(Address(i), Width[n]) = "ok"
  /\ LET v == LoadAt(Address(i), Width[n], n \in {"LB", "LH"})
     IN  /\ Writeback(i, v)
         /\ Goes(i, n, m_pc + 4, Request("load", Address(i), Width[n], n \in {"LB", "LH"}, v))
  /\ UNCHANGED m_mem

Store(i, n) ==
  /\ n \in Stores
  /\ Answer(Address(i), Width[n]) = "ok"
  /\ StoreAt(Address(i), Rs2(i), Width[n])
  /\ Goes(i, n, m_pc + 4, Request("store", Address(i), Width[n], FALSE, Rs2(i)))
  /\ UNCHANGED m_gpr

(* A fence computes nothing, and writes the 0 it has not computed.          *)
Fence(i, n) ==
  /\ n \in {"FENCE", "WFI"}
  /\ Writeback(i, 0)
  /\ Goes(i, n, m_pc + 4, last.access)
  /\ UNCHANGED m_mem

(* The system instructions: a CSR's old value goes to rd; the others go     *)
(* where the trap's vector or the saved PC says.                            *)
Csr(i, n) ==
  /\ n \in {"CSRRW", "CSRRS", "CSRRC", "CSRRWI", "CSRRSI", "CSRRCI"}
  /\ \E v \in {0, W - 1} : Writeback(i, v)
  /\ Goes(i, n, m_pc + 4, last.access)
  /\ UNCHANGED m_mem

Environment(i, n) ==
  /\ n \in {"ECALL", "EBREAK", "MRET", "SRET"}
  /\ \E to \in {0, It.entry} : Goes(i, n, to, last.access)
  /\ UNCHANGED <<m_mem, m_gpr>>

Invalid(i, n) == n = "invalid" /\ Fails("exit")

Execute ==
  /\ Fetched
  /\ \E i \in It.opcodes : \E n \in {Decode(i)} :
       \/ Immediate(i, n) \/ Register(i, n) \/ Multiply(i, n) \/ Divide(i, n)
       \/ Jump(i, n) \/ Branch(i, n) \/ AccessFails(i, n) \/ Load(i, n) \/ Store(i, n)
       \/ Fence(i, n) \/ Csr(i, n) \/ Environment(i, n) \/ Invalid(i, n)

Next == ElfSkip \/ ElfCreate \/ ElfByte \/ Reset \/ Stop \/ FetchFails \/ Execute

Spec == Init /\ [][Next]_vars

-----------------------------------------------------------------------------
(* The machine's memory is FlatMem: bytes that keep what was last stored    *)
(* there, whatever regions, word arrays, masks and shifts are behind them,  *)
(* with a load that returns them and a store that changes no other; for     *)
(* the program as for the loader that writes the file's sections.           *)
Byte(a) == LET r == m_mem[RegionOf(a)] IN Lane(r.words[Offset(a) \div 4], Offset(a) % 4, 1)

Flat == INSTANCE FlatMem
  WITH MAX_REGIONS <- MAX_MEM_REGIONS,
       owner <- [a \in Word |-> IF valid_addr(a) THEN RegionOf(a) ELSE 0],
       bytes <- [a \in Word |-> IF valid_addr(a) THEN Byte(a) ELSE 0],
       access <- last.access

FlatMemory == Flat!Spec

(* The instructions keep the laws that programs of arithmetic rely on, for  *)
(* every pair of operands, the most negative number and 0 among them:       *)
(* dividing and multiplying back, and the remainder's bounds; the halves of *)
(* a product; a comparison is what the difference and its overflow say; and *)
(* shifting back and forth loses only the bits that were shifted out.       *)
The(x) == CHOOSE v \in x : TRUE

DivisionLaw(a, b) ==
  LET d == OpDiv(a, b)
      q == The(d.DIV)  r == The(d.REM)  qu == The(d.DIVU)  ru == The(d.REMU)
  IN  /\ U(q * b + r) = a /\ U(qu * b + ru) = a
      /\ b # 0 => ru < b /\ Abs(S(r)) < Abs(S(b)) /\ (S(r) = 0 \/ (S(r) < 0) = (S(a) < 0))

ProductLaw(a, b) ==
  LET m == OpMul(a, b)
  IN  /\ The(m.MULHU) * W + The(m.MUL) = a * b
      /\ S(The(m.MULH)) * W + The(m.MUL) = S(a) * S(b)
      /\ S(The(m.MULHSU)) * W + The(m.MUL) = S(a) * b

CompareLaw(a, b) ==
  LET r    == OpReg(a, b)
      diff == The(r.SUB)
      over == (S(a) < 0) # (S(b) < 0) /\ (S(diff) < 0) # (S(a) < 0)
  IN  /\ The(r.SLT) = Bool((S(diff) < 0) # over)
      /\ The(r.SLTU) = Bool(diff # a /\ U(b + diff) = a /\ a - b # diff)
      /\ Taken(a, b).BLT = ~Taken(a, b).BGE /\ Taken(a, b).BLTU = (The(r.SLTU) = 1)

ShiftLaw(a, n) ==
  n < XLEN =>
    /\ The(ShiftR(The(ShiftL(a, n)), n)) = a % Two(XLEN - n)
    /\ S(The(ShiftA(a, n))) * Two(n) <= S(a) /\ S(a) < (S(The(ShiftA(a, n))) + 1) * Two(n)

Arithmetic ==
  LET a == last.a
      b == last.b
  IN  DivisionLaw(a, b) /\ ProductLaw(a, b) /\ CompareLaw(a, b) /\ ShiftLaw(a, b)

(* The trace names the instruction that was executed, although the two long *)
(* chains of tests are kept apart; and what it was does not depend on their *)
(* order, but that a word which also is wfi is a CSR instruction.           *)
Meanings(i) == {Named(n) : n \in {m \in Names : Matches(i, m)}}

DecodesOneWay ==
  last.name # "invalid" =>
    /\ riscv_inst_decode(last.word) = last.name
    /\ Meanings(last.word) \subseteq {last.name, "WFI"}
=============================================================================
