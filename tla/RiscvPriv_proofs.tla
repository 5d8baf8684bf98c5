-------------------------- MODULE RiscvPriv_proofs --------------------------
(***************************************************************************)
(* What the privileged machine guarantees for every program, every page    *)
(* table and every width of the timer: traps to two levels share one       *)
(* status register and never spoil each other's saved state, a return      *)
(* undoes its trap, no enabled interrupt is left waiting, and an access is *)
(* one that the page tables grant.                                         *)
(*                                                                         *)
(* The proofs follow the shape of step(): a lemma for exception(), one for *)
(* the end of execute(), one for the timer, and then one step for each     *)
(* kind of instruction.                                                    *)
(***************************************************************************)
EXTENDS RiscvPriv, TLAPS

TrapType == [to : {"none", "M", "S"}, priv : 0 .. 3, ie : BOOLEAN, pc : VA]

USE DEF PRIV_USER, PRIV_SUPER, PRIV_MACHINE, SR_SIE, SR_MIE, SR_SPIE, SR_MPIE, SR_SPP, SR_MPP,
        MCAUSE_INTERRUPT, Ends

-----------------------------------------------------------------------------
(* Addresses: zero is one, and the PC wraps to one.                         *)
LEMMA AddressFacts == 0 \in VA /\ \A a \in VA : (a + 1) % (N * N * N) \in VA
<1> DEFINE W == N * N * N
<1>1. N \in Nat /\ N > 0
  BY PrivAssumption
<1>2. N * N \in Nat /\ N * N > 0
  BY <1>1
<1>3. W \in Nat /\ W > 0
  BY <1>1, <1>2
<1>4. VA = 0 .. W - 1
  BY DEF VA
<1> HIDE DEF W
<1>5. \A a \in 0 .. W - 1 : (a + 1) % W \in 0 .. W - 1
  BY <1>3
<1>6. 0 \in 0 .. W - 1
  BY <1>3
<1> QED
  BY <1>4, <1>5, <1>6 DEF W

(* What is put into the previous machine level is read back.                *)
LEMMA MppReadsBack ==
  ASSUME NEW s \in SUBSET Bits, NEW p \in 0 .. 3
  PROVE  /\ SR_PUT_MPP(s, p) \in SUBSET Bits
         /\ SR_GET_MPP(SR_PUT_MPP(s, p)) = p
         /\ \A b : b \notin {SR_MPP, SR_MPP + 1} => (b \in SR_PUT_MPP(s, p) <=> b \in s)
<1>1. p = 0 \/ p = 1 \/ p = 2 \/ p = 3
  OBVIOUS
<1>2. SR_PUT_MPP(s, p) \in SUBSET Bits
  BY DEF SR_PUT_MPP, Put, Bits
<1>3. /\ SR_MPP \in SR_PUT_MPP(s, p) <=> p \in {1, 3}
      /\ SR_MPP + 1 \in SR_PUT_MPP(s, p) <=> p \in {2, 3}
  BY DEF SR_PUT_MPP, Put
<1>4. SR_GET_MPP(SR_PUT_MPP(s, p)) = p
  BY <1>1, <1>3 DEF SR_GET_MPP
<1>5. \A b : b \notin {SR_MPP, SR_MPP + 1} => (b \in SR_PUT_MPP(s, p) <=> b \in s)
  BY DEF SR_PUT_MPP, Put
<1> QED
  BY <1>2, <1>4, <1>5

(* Setting or clearing a bit leaves the others.                             *)
LEMMA PutFacts ==
  ASSUME NEW s \in SUBSET Bits, NEW bit \in Bits, NEW on \in BOOLEAN
  PROVE  /\ Put(s, bit, on) \in SUBSET Bits
         /\ bit \in Put(s, bit, on) <=> on
         /\ \A b : b # bit => (b \in Put(s, bit, on) <=> b \in s)
BY DEF Put

-----------------------------------------------------------------------------
(* Writing a register within its width.                                     *)
LEMMA FieldTypes ==
  ASSUME NEW c \in CpuType
  PROVE  /\ \A p \in 0 .. 3 : [c EXCEPT !.priv = p] \in CpuType
         /\ \A s \in SUBSET Bits : [c EXCEPT !.msr = s] \in CpuType
         /\ \A a \in VA : [c EXCEPT !.pc = a] \in CpuType
         /\ \A a \in VA : [c EXCEPT !.mepc = a] \in CpuType
         /\ \A a \in VA : [c EXCEPT !.sepc = a] \in CpuType
         /\ \A a \in VA : [c EXCEPT !.stval = a] \in CpuType
         /\ \A i \in Bits : [c EXCEPT !.mcause = i] \in CpuType
         /\ \A i \in Bits : [c EXCEPT !.scause = i] \in CpuType
<1>1. \A p \in 0 .. 3 : [c EXCEPT !.priv = p] \in CpuType
  BY DEF CpuType
<1>2. \A s \in SUBSET Bits : [c EXCEPT !.msr = s] \in CpuType
  BY DEF CpuType
<1>3. \A a \in VA : [c EXCEPT !.pc = a] \in CpuType
  BY DEF CpuType
<1>4. \A a \in VA : [c EXCEPT !.mepc = a] \in CpuType
  BY DEF CpuType
<1>5. \A a \in VA : [c EXCEPT !.sepc = a] \in CpuType
  BY DEF CpuType
<1>6. \A a \in VA : [c EXCEPT !.stval = a] \in CpuType
  BY DEF CpuType
<1>7. \A i \in Bits : [c EXCEPT !.mcause = i] \in CpuType
  BY DEF CpuType
<1>8. \A i \in Bits : [c EXCEPT !.scause = i] \in CpuType
  BY DEF CpuType
<1> QED
  BY <1>1, <1>2, <1>3, <1>4, <1>5, <1>6, <1>7, <1>8

(* exception() keeps every register within its width.                       *)
LEMMA ExceptionType ==
  ASSUME NEW c \in CpuType, NEW cause \in Bits, NEW pc \in VA, NEW badaddr \in VA
  PROVE  /\ exception(c, cause, pc, badaddr) \in CpuType
         /\ Trapped(c, cause, pc) \in TrapType
<1>1. ToSuper(c, cause, pc, badaddr) \in CpuType
  <2> DEFINE s  == Put(Put(c.msr, SR_SPIE, SR_SIE \in c.msr) \ {SR_SIE}, SR_SPP, c.priv = PRIV_SUPER)
             c1 == [c  EXCEPT !.msr = s]
             c2 == [c1 EXCEPT !.priv = 1]
             c3 == [c2 EXCEPT !.sepc = pc]
             c4 == [c3 EXCEPT !.scause = cause]
             c5 == [c4 EXCEPT !.stval = badaddr]
  <2>1. s \in SUBSET Bits /\ c.sevec \in VA /\ 1 \in 0 .. 3
    BY DEF Put, CpuType, Bits
  <2>2. ToSuper(c, cause, pc, badaddr) = [c5 EXCEPT !.pc = c.sevec]
    BY DEF ToSuper
  <2>3. c1 \in CpuType
    BY <2>1, FieldTypes
  <2> HIDE DEF c1
  <2>4. c2 \in CpuType
    BY <2>1, <2>3, FieldTypes
  <2> HIDE DEF c2
  <2>5. c3 \in CpuType
    BY <2>4, FieldTypes
  <2> HIDE DEF c3
  <2>6. c4 \in CpuType
    BY <2>5, FieldTypes
  <2> HIDE DEF c4
  <2>7. c5 \in CpuType
    BY <2>6, FieldTypes
  <2> HIDE DEF c5
  <2> QED
    BY <2>1, <2>2, <2>7, FieldTypes
<1>2. ToMachine(c, cause, pc) \in CpuType
  <2> DEFINE s  == SR_PUT_MPP(Put(c.msr, SR_MPIE, SR_MIE \in c.msr) \ {SR_MIE}, c.priv)
             c1 == [c  EXCEPT !.msr = s]
             c2 == [c1 EXCEPT !.priv = 3]
             c3 == [c2 EXCEPT !.mepc = pc]
             c4 == [c3 EXCEPT !.mcause = cause]
  <2>1. s \in SUBSET Bits /\ c.mevec \in VA /\ 3 \in 0 .. 3
    BY DEF SR_PUT_MPP, Put, CpuType, Bits
  <2>2. ToMachine(c, cause, pc) = [c4 EXCEPT !.pc = c.mevec]
    BY DEF ToMachine
  <2>3. c1 \in CpuType
    BY <2>1, FieldTypes
  <2> HIDE DEF c1
  <2>4. c2 \in CpuType
    BY <2>1, <2>3, FieldTypes
  <2> HIDE DEF c2
  <2>5. c3 \in CpuType
    BY <2>4, FieldTypes
  <2> HIDE DEF c3
  <2>6. c4 \in CpuType
    BY <2>5, FieldTypes
  <2> HIDE DEF c4
  <2> QED
    BY <2>1, <2>2, <2>6, FieldTypes
<1>3. Trapped(c, cause, pc) \in TrapType
  BY DEF Trapped, TrapType, CpuType
<1> QED
  BY <1>1, <1>2, <1>3 DEF exception

(* Of the interrupts that may be taken there is a first one, and it is one  *)
(* of the six.                                                              *)
LEMMA LowestExists ==
  ASSUME NEW S \in SUBSET IRQ_MASK, S # {}
  PROVE  Lowest(S) \in S
<1>1. \E i \in S : \A j \in S : i <= j
  <2> USE DEF IRQ_MASK
  <2>1. CASE 1 \in S
    BY <2>1
  <2>2. CASE 1 \notin S /\ 3 \in S
    BY <2>2
  <2>3. CASE 1 \notin S /\ 3 \notin S /\ 5 \in S
    BY <2>3
  <2>4. CASE 1 \notin S /\ 3 \notin S /\ 5 \notin S /\ 7 \in S
    BY <2>4
  <2>5. CASE 1 \notin S /\ 3 \notin S /\ 5 \notin S /\ 7 \notin S /\ 9 \in S
    BY <2>5
  <2>6. CASE 1 \notin S /\ 3 \notin S /\ 5 \notin S /\ 7 \notin S /\ 9 \notin S /\ 11 \in S
    BY <2>6
  <2> QED
    BY <2>1, <2>2, <2>3, <2>4, <2>5, <2>6
<1> QED
  BY <1>1 DEF Lowest

(* The cause of an interrupt fits into its register.                        *)
LEMMA IrqCauseType ==
  ASSUME NEW c \in CpuType, Interrupted(c)
  PROVE  IrqCause(c) \in Bits
<1>1. Interrupts(c) \in SUBSET IRQ_MASK /\ Interrupts(c) # {}
  BY DEF Interrupted, Interrupts, M_Interrupts, S_Interrupts, CpuType
<1>2. Lowest(Interrupts(c)) \in IRQ_MASK
  BY <1>1, LowestExists
<1> QED
  BY <1>2 DEF IrqCause, IRQ_MASK, Bits

(* The end of execute(), whether it takes an interrupt or not.              *)
LEMMA RetiredType ==
  ASSUME NEW c \in CpuType, NEW npc \in VA
  PROVE  Retired(c, npc) \in CpuType /\ RetireTrap(c, npc) \in TrapType
<1>1. CASE Interrupted(c)
  BY <1>1, IrqCauseType, ExceptionType, AddressFacts DEF Retired, RetireTrap
<1>2. CASE ~Interrupted(c)
  <2>1. [c EXCEPT !.pc = npc] \in CpuType
    BY DEF CpuType
  <2>2. NoTrap \in TrapType
    BY AddressFacts DEF NoTrap, TrapType
  <2> QED
    BY <1>2, <2>1, <2>2 DEF Retired, RetireTrap
<1> QED
  BY <1>1, <1>2

(* The timer keeps its width and raises one of the six interrupts.          *)
LEMMA TickType ==
  ASSUME NEW c \in CpuType
  PROVE  Tick(c) \in CpuType /\ Tick(c).mip \ c.mip \subseteq IRQ_MASK
<1>1. (c.mtime + 1) % TIME \in 0 .. TIME - 1
  BY PrivAssumption DEF CpuType
<1>2. c.mip \cup {TimerIrq(c)} \in SUBSET IRQ_MASK
  BY DEF TimerIrq, IRQ_S_TIMER, IRQ_M_TIMER, IRQ_MASK, CpuType
<1> DEFINE now == (c.mtime + 1) % TIME
           mip == IF now = c.mtimecmp THEN c.mip \cup {TimerIrq(c)} ELSE c.mip
<1>3. mip \in SUBSET IRQ_MASK
  BY <1>2 DEF CpuType
<1>4. Tick(c) = [c EXCEPT !.mtime = now, !.mip = mip]
  BY DEF Tick
<1> HIDE DEF now, mip
<1>5. Tick(c) \in CpuType
  BY <1>1, <1>3, <1>4 DEF CpuType, now
<1> QED
  BY <1>5 DEF CpuType

-----------------------------------------------------------------------------
(* Type correctness.                                                        *)

(* A step that leaves the CPU in c keeps all types.                         *)
LEMMA CommitType ==
  ASSUME TypeOK, NEW c \in CpuType, NEW t \in TrapType, NEW ret, NEW lost, NEW access,
         Commit(c, t, ret, lost, access)
  PROVE  /\ cpu' \in CpuType /\ cycles' \in Nat
         /\ frame' \in [{"M", "S"} -> TrapType]
         /\ last'.late \subseteq IRQ_MASK
<1>1. NoTrap \in TrapType
  BY AddressFacts DEF NoTrap, TrapType
<1>2. \A m \in {"M", "S"} : frame[m] \in TrapType
  BY DEF TypeOK, TrapType
<1>3. frame' \in [{"M", "S"} -> TrapType]
  BY <1>1, <1>2 DEF Commit
<1> QED
  BY <1>3, TickType DEF Commit, TypeOK

(* So do an instruction that retires, and one that traps.                   *)
LEMMA RetireKeepsType ==
  ASSUME TypeOK, NEW c \in CpuType, NEW npc \in VA, NEW ret, NEW lost, NEW access,
         Retire(c, npc, ret, lost, access), UNCHANGED <<mem, status>>
  PROVE  TypeOK'
BY RetiredType, CommitType DEF Retire, TypeOK, TrapType

LEMMA TrapKeepsType ==
  ASSUME TypeOK, NEW cause \in Bits, NEW badaddr \in VA, NEW access,
         Trap(cause, badaddr, access), mem' = mem,
         status' \in {"run", "break", "exit", "abort", "undefined"}
  PROVE  TypeOK'
<1>1. cpu \in CpuType /\ cpu.pc \in VA
  BY DEF TypeOK, CpuType
<1> QED
  BY <1>1, ExceptionType, CommitType DEF Trap, TypeOK, TrapType

LEMMA HaltKeepsType ==
  ASSUME TypeOK, NEW how \in {"break", "exit", "abort", "undefined"}, Halt(how)
  PROVE  TypeOK'
BY DEF Halt, TypeOK

(* The next instruction has an address.                                     *)
LEMMA NextPcType ==
  ASSUME TypeOK
  PROVE  cpu \in CpuType /\ Next_pc \in VA
BY AddressFacts DEF TypeOK, CpuType, Next_pc

(* What the instructions make of the CPU.                                   *)
LEMMA MretCpuType ==
  ASSUME TypeOK
  PROVE  MretCpu \in CpuType
<1> DEFINE s == Put(cpu.msr, SR_MIE, SR_MPIE \in cpu.msr) \cup {SR_MPIE}
           r == SR_PUT_MPP(s, 0)
<1>1. cpu \in CpuType
  BY DEF TypeOK
<1>2. s \in SUBSET Bits
  BY <1>1 DEF Put, CpuType, Bits
<1>3. r \in SUBSET Bits
  BY <1>2 DEF SR_PUT_MPP, Put, Bits
<1>4. SR_GET_MPP(cpu.msr) \in 0 .. 3
  BY DEF SR_GET_MPP
<1> HIDE DEF s
<1>5. MretCpu = [cpu EXCEPT !.msr = r, !.priv = SR_GET_MPP(cpu.msr)]
  BY DEF MretCpu, s
<1> HIDE DEF r
<1> QED
  BY <1>1, <1>3, <1>4, <1>5 DEF CpuType

LEMMA SretCpuType ==
  ASSUME TypeOK
  PROVE  SretCpu \in CpuType
<1> DEFINE s == (Put(cpu.msr, SR_SIE, SR_SPIE \in cpu.msr) \cup {SR_SPIE}) \ {SR_SPP}
           p == IF SR_SPP \in cpu.msr THEN 1 ELSE 0
<1>1. cpu \in CpuType
  BY DEF TypeOK
<1>2. s \in SUBSET Bits /\ p \in 0 .. 3
  BY <1>1 DEF Put, CpuType, Bits
<1>3. SretCpu = [cpu EXCEPT !.msr = s, !.priv = p]
  BY DEF SretCpu
<1> HIDE DEF s, p
<1> QED
  BY <1>1, <1>2, <1>3 DEF CpuType

(* A CSR instruction leaves no bit that its name does not have, or the      *)
(* register had before.                                                     *)
LEMMA BitCsrType ==
  ASSUME TypeOK, NEW op \in BitOps
  PROVE  BitCsr(op) \in CpuType
<1>1. cpu \in CpuType
  BY DEF TypeOK
<1>2. op \in [csr : BitCsrs, how : {"w", "s", "c"}, bits : SUBSET Bits]
  BY PrivAssumption
<1>3. \A old \in SUBSET Bits : CSR_STD(old, op) \in SUBSET Bits
  BY <1>2 DEF CSR_STD
<1>4. CASE op.csr \in {"mstatus", "sstatus"}
  <2>1. CSR_STD(cpu.msr, op) \in SUBSET Bits
    BY <1>1, <1>3 DEF CpuType
  <2>2. BitCsr(op) = [cpu EXCEPT !.msr = CSR_STD(cpu.msr, op)]
    BY <1>4 DEF BitCsr
  <2> QED
    BY <1>1, <2>1, <2>2 DEF CpuType
<1>5. CASE op.csr \in {"mip", "sip", "mie", "sie"}
  <2>1. CSR_MASK(op.csr) \subseteq IRQ_MASK
    BY <1>5 DEF CSR_MASK, IRQ_MASK, IRQ_S_MASK
  <2>2. \A old \in SUBSET IRQ_MASK : CSR_STD(old, op) \in SUBSET IRQ_MASK
    BY <1>2, <2>1 DEF CSR_STD
  <2>3. CASE op.csr \in {"mip", "sip"}
    <3>1. CSR_STD(cpu.mip, op) \in SUBSET IRQ_MASK
      BY <1>1, <2>2 DEF CpuType
    <3>2. BitCsr(op) = [cpu EXCEPT !.mip = CSR_STD(cpu.mip, op)]
      BY <2>3 DEF BitCsr
    <3> QED
      BY <1>1, <3>1, <3>2 DEF CpuType
  <2>4. CASE op.csr \in {"mie", "sie"}
    <3>1. CSR_STD(cpu.mie, op) \in SUBSET IRQ_MASK
      BY <1>1, <2>2 DEF CpuType
    <3>2. BitCsr(op) = [cpu EXCEPT !.mie = CSR_STD(cpu.mie, op)]
      BY <2>4 DEF BitCsr
    <3> QED
      BY <1>1, <3>1, <3>2 DEF CpuType
  <2> QED
    BY <1>5, <2>3, <2>4
<1>6. CASE op.csr = "mideleg"
  <2>1. CSR_STD(cpu.mideleg, op) \in SUBSET Bits
    BY <1>1, <1>3 DEF CpuType
  <2>2. BitCsr(op) = [cpu EXCEPT !.mideleg = CSR_STD(cpu.mideleg, op)]
    BY <1>6 DEF BitCsr
  <2> QED
    BY <1>1, <2>1, <2>2 DEF CpuType
<1>7. CASE op.csr = "medeleg"
  <2>1. CSR_STD(cpu.medeleg, op) \in SUBSET Bits
    BY <1>1, <1>3 DEF CpuType
  <2>2. BitCsr(op) = [cpu EXCEPT !.medeleg = CSR_STD(cpu.medeleg, op)]
    BY <1>7 DEF BitCsr
  <2> QED
    BY <1>1, <2>1, <2>2 DEF CpuType
<1> QED
  BY <1>2, <1>4, <1>5, <1>6, <1>7 DEF BitCsrs

(* Every step keeps every register within its width.                        *)
LEMMA NextKeepsType == TypeOK /\ [Next]_vars => TypeOK'
<1> SUFFICES ASSUME TypeOK, [Next]_vars PROVE TypeOK'
  OBVIOUS
<1> DEFINE Kept == UNCHANGED <<mem, status>>
<1>a. cpu \in CpuType /\ cpu.pc \in VA /\ Next_pc \in VA /\ status \in {"run", "break", "exit", "abort", "undefined"}
  BY NextPcType DEF TypeOK, CpuType
<1>b. /\ 0 \in VA /\ Code \subseteq VA /\ Data \subseteq VA
      /\ {MCAUSE_PAGE_FAULT_INST, MCAUSE_PAGE_FAULT_LOAD, MCAUSE_PAGE_FAULT_STORE,
          MCAUSE_BREAKPOINT} \subseteq Bits
  BY AddressFacts, PrivAssumption
     DEF MCAUSE_PAGE_FAULT_INST, MCAUSE_PAGE_FAULT_LOAD, MCAUSE_PAGE_FAULT_STORE,
         MCAUSE_BREAKPOINT, Bits
<1>c. ASSUME NEW c \in CpuType, NEW lost, NEW access, Plain(c, lost, access), Kept
      PROVE  TypeOK'
  BY <1>a, <1>c, RetireKeepsType DEF Plain
<1>1. CASE FetchFails
  BY <1>1, <1>a, <1>b, TrapKeepsType, HaltKeepsType DEF FetchFails
<1>2. CASE Compute
  BY <1>2, <1>a, <1>c DEF Compute
<1>3. CASE Illegal
  BY <1>3, HaltKeepsType DEF Illegal
<1>4. CASE Jump
  BY <1>4, <1>a, <1>b, RetireKeepsType DEF Jump
<1>5. CASE Load
  <2>1. PICK va \in Data :
          Access("R", MCAUSE_PAGE_FAULT_LOAD, va, mem[Translate("R", va).pa])
    BY <1>5 DEF Load
  <2> DEFINE pa == Translate("R", va).pa
  <2>2. CASE /\ Translate("R", va).end = "ok" /\ pa \in Phys
             /\ Plain(cpu, {}, Seen \cup Accessed("R", va))
             /\ mem' = [a \in Phys |-> IF a = pa THEN mem[pa] ELSE mem[a]]
             /\ UNCHANGED status
    <3>1. mem' = mem
      BY <2>2 DEF TypeOK
    <3> QED
      BY <2>2, <3>1, <1>a, <1>c
  <2> QED
    BY <2>1, <2>2, <1>a, <1>b, TrapKeepsType, HaltKeepsType DEF Access
<1>6. CASE Store
  <2>1. PICK va \in Data, p \in Ptes : Access("W", MCAUSE_PAGE_FAULT_STORE, va, p)
    BY <1>6 DEF Store
  <2> DEFINE pa == Translate("W", va).pa
  <2>2. CASE /\ Plain(cpu, {}, Seen \cup Accessed("W", va))
             /\ mem' = [a \in Phys |-> IF a = pa THEN p ELSE mem[a]]
             /\ UNCHANGED status
    <3>1. mem' \in [Phys -> Pte]
      BY <2>2, PrivAssumption DEF TypeOK
    <3>2. /\ cpu' \in CpuType /\ cycles' \in Nat
          /\ frame' \in [{"M", "S"} -> TrapType]
          /\ last'.late \subseteq IRQ_MASK
      BY <2>2, <1>a, RetiredType, CommitType DEF Plain, Retire
    <3> QED
      BY <2>2, <3>1, <3>2 DEF TypeOK, TrapType
  <2> QED
    BY <2>1, <2>2, <1>a, <1>b, TrapKeepsType, HaltKeepsType DEF Access
<1>7. CASE Ecall
  <2>1. MCAUSE_ECALL_U + cpu.priv \in Bits
    BY <1>a DEF CpuType, MCAUSE_ECALL_U, Bits
  <2> QED
    BY <1>7, <2>1, <1>a, <1>b, TrapKeepsType DEF Ecall
<1>8. CASE Ebreak
  BY <1>8, <1>b, TrapKeepsType DEF Ebreak
<1>9. CASE Mret
  <2>1. cpu.mepc \in VA
    BY <1>a DEF CpuType
  <2> QED
    BY <1>9, <2>1, MretCpuType, RetireKeepsType, HaltKeepsType DEF Mret
<1>10. CASE Sret
  <2>1. cpu.sepc \in VA
    BY <1>a DEF CpuType
  <2> QED
    BY <1>10, <2>1, SretCpuType, RetireKeepsType, HaltKeepsType DEF Sret
<1>11. CASE CsrBits
  BY <1>11, <1>c, BitCsrType DEF CsrBits
<1>12. CASE CsrEpc
  <2>1. \A va \in Code : /\ [cpu EXCEPT !.mepc = va] \in CpuType
                         /\ [cpu EXCEPT !.sepc = va] \in CpuType
    BY <1>a, <1>b, FieldTypes
  <2> QED
    BY <1>12, <2>1, <1>c DEF CsrEpc
<1>13. CASE CsrSatp
  <2>1. \A r \in Roots \cup {Bare} : [cpu EXCEPT !.satp = r] \in CpuType
    BY <1>a DEF CpuType
  <2> QED
    BY <1>13, <2>1, <1>c DEF CsrSatp
<1>14. CASE CsrTime
  <2>1. ASSUME NEW d \in Deadlines
        PROVE  [cpu EXCEPT !.mtimecmp = d, !.mip = @ \ {TimerIrq(cpu)}] \in CpuType
    <3>1. d \in 0 .. TIME - 1
      BY PrivAssumption
    <3>2. cpu.mip \ {TimerIrq(cpu)} \in SUBSET IRQ_MASK
      BY <1>a DEF CpuType
    <3> QED
      BY <1>a, <3>1, <3>2 DEF CpuType
  <2> QED
    BY <1>14, <2>1, <1>c DEF CsrTime
<1>15. CASE SimPrintf
  <2>1. \A va : mmu_walk(va).end \in {"page", "exit", "abort", "undefined"}
    BY DEF mmu_walk, Page, PageEnd, NoPage, Lost
  <2> QED
    BY <1>15, <2>1, <1>a, <1>c, HaltKeepsType DEF SimPrintf
<1>16. CASE SetInterrupt
  <2>1. cpu' \in CpuType
    <3>1. cpu.mip \cup {IRQ_M_EXT} \in SUBSET IRQ_MASK
      BY <1>a DEF CpuType, IRQ_M_EXT, IRQ_MASK
    <3> QED
      BY <1>16, <1>a, <3>1 DEF SetInterrupt, CpuType
  <2>2. last'.late \subseteq IRQ_MASK
    BY <1>16 DEF SetInterrupt, TypeOK, IRQ_M_EXT, IRQ_MASK
  <2> QED
    BY <1>16, <2>1, <2>2 DEF SetInterrupt, TypeOK
<1>17. CASE UNCHANGED vars
  BY <1>17 DEF vars, TypeOK
<1> QED
  BY <1>1, <1>2, <1>3, <1>4, <1>5, <1>6, <1>7, <1>8, <1>9, <1>10, <1>11, <1>12, <1>13, <1>14,
     <1>15, <1>16, <1>17 DEF Next

LEMMA InitTypes == Init => TypeOK
<1> SUFFICES ASSUME Init PROVE TypeOK
  OBVIOUS
<1>1. cpu \in CpuType /\ mem \in [Phys -> Pte]
  BY PrivAssumption DEF Init
<1>2. NoTrap \in TrapType
  BY AddressFacts DEF NoTrap, TrapType
<1>3. frame \in [{"M", "S"} -> TrapType] /\ last.late = {}
  BY <1>2 DEF Init, Quiet
<1> QED
  BY <1>1, <1>3 DEF Init, TypeOK, TrapType

(* Whatever the program does, every register of the machine keeps its       *)
(* width, for any sizes of tables and of the timer (TypeOK).                *)
THEOREM TypeCorrect == Spec => []TypeOK
<1>1. Init => TypeOK
  BY InitTypes
<1>2. TypeOK /\ [Next]_vars => TypeOK'
  BY NextKeepsType
<1> QED
  BY <1>1, <1>2, PTL DEF Spec

-----------------------------------------------------------------------------
(* The saved state of a trap.                                               *)

(* exception() saves what it interrupts at the level it goes to, and does   *)
(* not touch what is saved at the other.                                    *)
LEMMA ExceptionSaves ==
  ASSUME NEW c \in CpuType, NEW cause \in Bits, NEW pc \in VA, NEW badaddr \in VA
  PROVE  LET e == exception(c, cause, pc, badaddr)
             t == Trapped(c, cause, pc)
         IN  /\ t.to \in {"M", "S"} /\ Saved(e, t.to, t)
             /\ \A m \in {"M", "S"} : \A f : m # t.to /\ Saved(c, m, f) => Saved(e, m, f)
<1> DEFINE e == exception(c, cause, pc, badaddr)
           t == Trapped(c, cause, pc)
<1>1. CASE Delegated(c, cause)
  <2> DEFINE s == Put(Put(c.msr, SR_SPIE, SR_SIE \in c.msr) \ {SR_SIE}, SR_SPP, c.priv = PRIV_SUPER)
  <2>1. e = ToSuper(c, cause, pc, badaddr)
    BY <1>1 DEF exception
  <2>2. e.msr = s /\ e.sepc = pc /\ e.mepc = c.mepc
    BY <2>1 DEF ToSuper, CpuType
  <2>3. t = [to |-> "S", priv |-> c.priv, ie |-> SR_SIE \in c.msr, pc |-> pc]
    BY <1>1 DEF Trapped
  <2>4. c.priv \in {0, 1}
    BY <1>1 DEF Delegated, CpuType
  <2>5. /\ SR_SPP \in s <=> c.priv = PRIV_SUPER
        /\ SR_SPIE \in s <=> SR_SIE \in c.msr
        /\ SR_MPP \in s <=> SR_MPP \in c.msr
        /\ SR_MPP + 1 \in s <=> SR_MPP + 1 \in c.msr
        /\ SR_MPIE \in s <=> SR_MPIE \in c.msr
    BY DEF Put
  <2> HIDE DEF e, t, s
  <2>6. Saved(e, "S", t)
    BY <2>2, <2>3, <2>4, <2>5 DEF Saved
  <2>7. \A f : Saved(c, "M", f) => Saved(e, "M", f)
    BY <2>2, <2>5 DEF Saved, SR_GET_MPP
  <2>8. t.to = "S"
    BY <2>3
  <2> QED
    BY <2>6, <2>7, <2>8 DEF e, t
<1>2. CASE ~Delegated(c, cause)
  <2> DEFINE r == Put(c.msr, SR_MPIE, SR_MIE \in c.msr) \ {SR_MIE}
             s == SR_PUT_MPP(r, c.priv)
  <2>1. e = ToMachine(c, cause, pc)
    BY <1>2 DEF exception
  <2>2. e.msr = s /\ e.mepc = pc /\ e.sepc = c.sepc
    BY <2>1 DEF ToMachine, CpuType
  <2>3. t = [to |-> "M", priv |-> c.priv, ie |-> SR_MIE \in c.msr, pc |-> pc]
    BY <1>2 DEF Trapped
  <2>4. r \in SUBSET Bits /\ c.priv \in 0 .. 3
    BY DEF Put, CpuType, Bits
  <2>5. /\ SR_MPIE \in r <=> SR_MIE \in c.msr
        /\ SR_SPIE \in r <=> SR_SPIE \in c.msr
        /\ SR_SPP \in r <=> SR_SPP \in c.msr
    BY DEF Put
  <2> HIDE DEF e, t, r
  <2>6. /\ SR_GET_MPP(s) = c.priv
        /\ SR_MPIE \in s <=> SR_MIE \in c.msr
        /\ SR_SPIE \in s <=> SR_SPIE \in c.msr
        /\ SR_SPP \in s <=> SR_SPP \in c.msr
    BY <2>4, <2>5, MppReadsBack
  <2> HIDE DEF s
  <2>7. Saved(e, "M", t)
    BY <2>2, <2>3, <2>6 DEF Saved
  <2>8. \A f : Saved(c, "S", f) => Saved(e, "S", f)
    BY <2>2, <2>6 DEF Saved
  <2>9. t.to = "M"
    BY <2>3
  <2> QED
    BY <2>7, <2>8, <2>9 DEF e, t
<1> QED
  BY <1>1, <1>2

(* The registers of Saved are all that counts.                              *)
LEMMA SameSaved ==
  ASSUME NEW c, NEW d, d.msr = c.msr, d.mepc = c.mepc, d.sepc = c.sepc
  PROVE  \A m \in {"M", "S"} : \A f : Saved(c, m, f) => Saved(d, m, f)
BY DEF Saved

(* So it is at the end of execute(), with or without an interrupt.          *)
LEMMA RetiredSaves ==
  ASSUME NEW c \in CpuType, NEW npc \in VA
  PROVE  LET t == RetireTrap(c, npc)
         IN  /\ t.to \in {"none", "M", "S"}
             /\ \A m \in {"M", "S"} :
                  IF t.to = m THEN Saved(Retired(c, npc), m, t)
                  ELSE \A f : Saved(c, m, f) => Saved(Retired(c, npc), m, f)
<1>1. CASE Interrupted(c)
  BY <1>1, IrqCauseType, ExceptionSaves, AddressFacts DEF Retired, RetireTrap
<1>2. CASE ~Interrupted(c)
  <2> DEFINE d == [c EXCEPT !.pc = npc]
  <2>1. d.msr = c.msr /\ d.mepc = c.mepc /\ d.sepc = c.sepc
    BY DEF CpuType
  <2>2. Retired(c, npc) = d /\ RetireTrap(c, npc).to = "none"
    BY <1>2 DEF Retired, RetireTrap, NoTrap
  <2> HIDE DEF d
  <2> QED
    BY <2>1, <2>2, SameSaved
<1> QED
  BY <1>1, <1>2

(* A step keeps TrapFrame when the CPU it leaves, before the timer, has     *)
(* saved its own trap and what it does not count as lost.                   *)
LEMMA CommitKeepsFrame ==
  ASSUME TypeOK, TrapFrame, NEW c \in CpuType, NEW t, NEW ret, NEW lost, NEW access,
         Commit(c, t, ret, lost, access), t.to \in {"none", "M", "S"},
         \A m \in {"M", "S"} :
           IF t.to = m THEN Saved(c, m, t)
           ELSE m \notin lost => \A f : Saved(cpu, m, f) => Saved(c, m, f)
  PROVE  TrapFrame'
<1>1. cpu'.msr = c.msr /\ cpu'.mepc = c.mepc /\ cpu'.sepc = c.sepc
  BY DEF Commit, Tick, CpuType
<1>2. \A m \in {"M", "S"} :
        frame'[m] = IF t.to = m THEN t ELSE IF m \in lost THEN NoTrap ELSE frame[m]
  BY DEF Commit
<1>3. ASSUME NEW m \in {"M", "S"}, frame'[m].to = m
      PROVE  Saved(cpu', m, frame'[m])
  <2>1. CASE t.to = m
    BY <2>1, <1>1, <1>2, SameSaved
  <2>2. CASE t.to # m /\ m \notin lost
    <3>1. frame'[m] = frame[m] /\ Saved(cpu, m, frame[m])
      BY <2>2, <1>2, <1>3 DEF TrapFrame
    <3>2. Saved(c, m, frame[m])
      BY <2>2, <3>1
    <3> QED
      BY <3>1, <3>2, <1>1, SameSaved
  <2>3. CASE t.to # m /\ m \in lost
    BY <2>3, <1>2, <1>3 DEF NoTrap
  <2> QED
    BY <2>1, <2>2, <2>3
<1> QED
  BY <1>3 DEF TrapFrame

LEMMA RetireKeepsFrame ==
  ASSUME TypeOK, TrapFrame, NEW c \in CpuType, NEW npc \in VA, NEW ret, NEW lost, NEW access,
         Retire(c, npc, ret, lost, access),
         \A m \in {"M", "S"} : m \notin lost => \A f : Saved(cpu, m, f) => Saved(c, m, f)
  PROVE  TrapFrame'
<1> DEFINE d == Retired(c, npc)
           t == RetireTrap(c, npc)
<1>1. d \in CpuType /\ t.to \in {"none", "M", "S"} /\ Commit(d, t, ret, lost, access)
  BY RetiredType, RetiredSaves DEF Retire
<1>2. \A m \in {"M", "S"} :
        IF t.to = m THEN Saved(d, m, t)
        ELSE m \notin lost => \A f : Saved(cpu, m, f) => Saved(d, m, f)
  BY RetiredSaves
<1> HIDE DEF d, t
<1> QED
  BY <1>1, <1>2, CommitKeepsFrame

LEMMA TrapKeepsFrame ==
  ASSUME TypeOK, TrapFrame, NEW cause \in Bits, NEW badaddr \in VA, NEW access,
         Trap(cause, badaddr, access)
  PROVE  TrapFrame'
<1> DEFINE d == exception(cpu, cause, cpu.pc, badaddr)
           t == Trapped(cpu, cause, cpu.pc)
<1>1. cpu \in CpuType /\ cpu.pc \in VA
  BY DEF TypeOK, CpuType
<1>2. d \in CpuType /\ Commit(d, t, "none", {}, access)
  BY <1>1, ExceptionType DEF Trap
<1>3. /\ t.to \in {"none", "M", "S"} /\ Saved(d, t.to, t)
      /\ \A m \in {"M", "S"} : \A f : m # t.to /\ Saved(cpu, m, f) => Saved(d, m, f)
  BY <1>1, ExceptionSaves
<1> HIDE DEF d, t
<1> QED
  BY <1>2, <1>3, CommitKeepsFrame

LEMMA HaltKeepsFrame ==
  ASSUME TrapFrame, NEW how, Halt(how)
  PROVE  TrapFrame'
BY DEF Halt, TrapFrame, Saved

(* A return restores its own level's part of the status, and leaves the     *)
(* other's.                                                                 *)
LEMMA ReturnsSpare ==
  ASSUME TypeOK
  PROVE  /\ \A f : Saved(cpu, "S", f) => Saved(MretCpu, "S", f)
         /\ \A f : Saved(cpu, "M", f) => Saved(SretCpu, "M", f)
<1>1. cpu \in CpuType
  BY DEF TypeOK
<1>2. \A f : Saved(cpu, "S", f) => Saved(MretCpu, "S", f)
  <2> DEFINE s == Put(cpu.msr, SR_MIE, SR_MPIE \in cpu.msr) \cup {SR_MPIE}
  <2>1. MretCpu.msr = SR_PUT_MPP(s, 0) /\ MretCpu.sepc = cpu.sepc
    BY <1>1 DEF MretCpu, CpuType
  <2>2. s \in SUBSET Bits /\ (SR_SPP \in s <=> SR_SPP \in cpu.msr)
        /\ (SR_SPIE \in s <=> SR_SPIE \in cpu.msr)
    BY <1>1 DEF Put, CpuType, Bits
  <2> HIDE DEF s
  <2>3. /\ SR_SPP \in MretCpu.msr <=> SR_SPP \in cpu.msr
        /\ SR_SPIE \in MretCpu.msr <=> SR_SPIE \in cpu.msr
    BY <2>1, <2>2, MppReadsBack
  <2> QED
    BY <2>1, <2>3 DEF Saved
<1>3. \A f : Saved(cpu, "M", f) => Saved(SretCpu, "M", f)
  <2>1. /\ SretCpu.msr = (Put(cpu.msr, SR_SIE, SR_SPIE \in cpu.msr) \cup {SR_SPIE}) \ {SR_SPP}
        /\ SretCpu.mepc = cpu.mepc
    BY <1>1 DEF SretCpu, CpuType
  <2>2. /\ SR_MPP \in SretCpu.msr <=> SR_MPP \in cpu.msr
        /\ SR_MPP + 1 \in SretCpu.msr <=> SR_MPP + 1 \in cpu.msr
        /\ SR_MPIE \in SretCpu.msr <=> SR_MPIE \in cpu.msr
    BY <2>1 DEF Put
  <2> QED
    BY <2>1, <2>2 DEF Saved, SR_GET_MPP
<1> QED
  BY <1>2, <1>3

(* A CSR instruction leaves the saved status of the levels it does not      *)
(* overwrite: sstatus shows the supervisor's bits only, and a set or clear  *)
(* changes no bit that is not shown.                                        *)
LEMMA BitCsrSpares ==
  ASSUME TypeOK, NEW op \in BitOps
  PROVE  \A m \in {"M", "S"} :
           m \notin Overwrites(op) => \A f : Saved(cpu, m, f) => Saved(BitCsr(op), m, f)
<1>1. cpu \in CpuType /\ op.csr \in BitCsrs /\ op.how \in {"w", "s", "c"}
  BY PrivAssumption DEF TypeOK
<1>2. BitCsr(op).mepc = cpu.mepc /\ BitCsr(op).sepc = cpu.sepc
  BY <1>1 DEF BitCsr, BitCsrs, CpuType
<1>3. CASE op.csr \notin {"mstatus", "sstatus"}
  <2>1. BitCsr(op).msr = cpu.msr
    BY <1>1, <1>3 DEF BitCsr, BitCsrs, CpuType
  <2> QED
    BY <1>2, <2>1, SameSaved
<1>4. CASE op.csr = "mstatus" \/ (op.csr = "sstatus" /\ op.how = "w")
  BY <1>4 DEF Overwrites
<1>5. CASE op.csr = "sstatus" /\ op.how # "w"
  <2>1. BitCsr(op).msr = CSR_STD(cpu.msr, op)
    BY <1>1, <1>5 DEF BitCsr, CpuType
  <2>2. CSR_MASK(op.csr) = SR_SMODE_MASK
    BY <1>5 DEF CSR_MASK
  <2>3. SR_SMODE_MASK = {0, 1, 4, 5, 8, 18}
    BY DEF SR_SMODE_MASK, SR_UIE, SR_UPIE, SR_SUM
  <2>4. \A b : b \notin {0, 1, 4, 5, 8, 18} => (b \in CSR_STD(cpu.msr, op) <=> b \in cpu.msr)
    BY <1>1, <1>5, <2>2, <2>3 DEF CSR_STD
  <2>5. /\ SR_MPP \in BitCsr(op).msr <=> SR_MPP \in cpu.msr
        /\ SR_MPP + 1 \in BitCsr(op).msr <=> SR_MPP + 1 \in cpu.msr
        /\ SR_MPIE \in BitCsr(op).msr <=> SR_MPIE \in cpu.msr
    BY <2>1, <2>4
  <2>6. \A f : Saved(cpu, "M", f) => Saved(BitCsr(op), "M", f)
    BY <1>2, <2>5 DEF Saved, SR_GET_MPP
  <2> QED
    BY <2>6, <1>5 DEF Overwrites
<1> QED
  BY <1>3, <1>4, <1>5

LEMMA NextKeepsFrame == TypeOK /\ TrapFrame /\ [Next]_vars => TrapFrame'
<1> SUFFICES ASSUME TypeOK, TrapFrame, [Next]_vars PROVE TrapFrame'
  OBVIOUS
<1>a. cpu \in CpuType /\ Next_pc \in VA
  BY NextPcType
<1>b. /\ 0 \in VA /\ Code \subseteq VA /\ Data \subseteq VA /\ cpu.pc \in VA
      /\ {MCAUSE_PAGE_FAULT_INST, MCAUSE_PAGE_FAULT_LOAD, MCAUSE_PAGE_FAULT_STORE,
          MCAUSE_BREAKPOINT, MCAUSE_ECALL_U + cpu.priv} \subseteq Bits
  BY <1>a, AddressFacts, PrivAssumption
     DEF MCAUSE_PAGE_FAULT_INST, MCAUSE_PAGE_FAULT_LOAD, MCAUSE_PAGE_FAULT_STORE,
         MCAUSE_BREAKPOINT, MCAUSE_ECALL_U, Bits, CpuType
<1>c. ASSUME NEW lost, NEW access, Plain(cpu, lost, access)
      PROVE  TrapFrame'
  BY <1>a, <1>c, RetireKeepsFrame DEF Plain
<1>1. CASE FetchFails
  BY <1>1, <1>b, TrapKeepsFrame, HaltKeepsFrame DEF FetchFails
<1>2. CASE Compute
  BY <1>2, <1>c DEF Compute
<1>3. CASE Illegal
  BY <1>3, HaltKeepsFrame DEF Illegal
<1>4. CASE Jump
  BY <1>4, <1>a, <1>b, RetireKeepsFrame DEF Jump
<1>5. CASE Load
  BY <1>5, <1>b, <1>c, TrapKeepsFrame, HaltKeepsFrame DEF Load, Access
<1>6. CASE Store
  BY <1>6, <1>b, <1>c, TrapKeepsFrame, HaltKeepsFrame DEF Store, Access
<1>7. CASE Ecall
  BY <1>7, <1>b, TrapKeepsFrame DEF Ecall
<1>8. CASE Ebreak
  BY <1>8, <1>b, TrapKeepsFrame DEF Ebreak
<1>9. CASE Mret
  <2>1. cpu.mepc \in VA
    BY <1>a DEF CpuType
  <2> QED
    BY <1>9, <2>1, MretCpuType, ReturnsSpare, RetireKeepsFrame, HaltKeepsFrame DEF Mret
<1>10. CASE Sret
  <2>1. cpu.sepc \in VA
    BY <1>a DEF CpuType
  <2> QED
    BY <1>10, <2>1, SretCpuType, ReturnsSpare, RetireKeepsFrame, HaltKeepsFrame DEF Sret
<1>11. CASE CsrBits
  BY <1>11, <1>a, BitCsrType, BitCsrSpares, RetireKeepsFrame DEF CsrBits, Plain
<1>12. CASE CsrEpc
  <2>1. PICK va \in Code : \/ Plain([cpu EXCEPT !.mepc = va], {"M"}, Seen)
                           \/ Plain([cpu EXCEPT !.sepc = va], {"S"}, Seen)
    BY <1>12 DEF CsrEpc
  <2>2. CASE Plain([cpu EXCEPT !.mepc = va], {"M"}, Seen)
    <3> DEFINE d == [cpu EXCEPT !.mepc = va]
    <3>1. d \in CpuType
      BY <1>a, <1>b, FieldTypes
    <3>2. d.msr = cpu.msr /\ d.sepc = cpu.sepc
      BY <1>a DEF CpuType
    <3>3. Retire(d, Next_pc, "none", {"M"}, Seen)
      BY <2>2 DEF Plain
    <3> HIDE DEF d
    <3>4. \A f : Saved(cpu, "S", f) => Saved(d, "S", f)
      BY <3>2 DEF Saved
    <3> QED
      BY <1>a, <3>1, <3>3, <3>4, RetireKeepsFrame
  <2>3. CASE Plain([cpu EXCEPT !.sepc = va], {"S"}, Seen)
    <3> DEFINE d == [cpu EXCEPT !.sepc = va]
    <3>1. d \in CpuType
      BY <1>a, <1>b, FieldTypes
    <3>2. d.msr = cpu.msr /\ d.mepc = cpu.mepc
      BY <1>a DEF CpuType
    <3>3. Retire(d, Next_pc, "none", {"S"}, Seen)
      BY <2>3 DEF Plain
    <3> HIDE DEF d
    <3>4. \A f : Saved(cpu, "M", f) => Saved(d, "M", f)
      BY <3>2 DEF Saved
    <3> QED
      BY <1>a, <3>1, <3>3, <3>4, RetireKeepsFrame
  <2> QED
    BY <2>1, <2>2, <2>3
<1>13. CASE CsrSatp
  <2>1. PICK r \in Roots \cup {Bare} : Plain([cpu EXCEPT !.satp = r], {}, Seen)
    BY <1>13 DEF CsrSatp
  <2> DEFINE d == [cpu EXCEPT !.satp = r]
  <2>2. d \in CpuType /\ d.msr = cpu.msr /\ d.mepc = cpu.mepc /\ d.sepc = cpu.sepc
    BY <1>a DEF CpuType
  <2>3. Retire(d, Next_pc, "none", {}, Seen)
    BY <2>1 DEF Plain
  <2> HIDE DEF d
  <2> QED
    BY <1>a, <2>2, <2>3, SameSaved, RetireKeepsFrame
<1>14. CASE CsrTime
  <2>1. PICK x \in Deadlines :
          Plain([cpu EXCEPT !.mtimecmp = x, !.mip = @ \ {TimerIrq(cpu)}], {}, Seen)
    BY <1>14 DEF CsrTime
  <2> DEFINE d == [cpu EXCEPT !.mtimecmp = x, !.mip = @ \ {TimerIrq(cpu)}]
  <2>2. x \in 0 .. TIME - 1 /\ cpu.mip \ {TimerIrq(cpu)} \in SUBSET IRQ_MASK
    BY <1>a, PrivAssumption DEF CpuType
  <2>3. d \in CpuType /\ d.msr = cpu.msr /\ d.mepc = cpu.mepc /\ d.sepc = cpu.sepc
    BY <1>a, <2>2 DEF CpuType
  <2>4. Retire(d, Next_pc, "none", {}, Seen)
    BY <2>1 DEF Plain
  <2> HIDE DEF d
  <2> QED
    BY <1>a, <2>3, <2>4, SameSaved, RetireKeepsFrame
<1>15. CASE SimPrintf
  BY <1>15, <1>c, HaltKeepsFrame DEF SimPrintf
<1>16. CASE SetInterrupt
  <2>1. /\ cpu'.msr = cpu.msr /\ cpu'.mepc = cpu.mepc /\ cpu'.sepc = cpu.sepc
        /\ frame' = frame
    BY <1>16, <1>a DEF SetInterrupt, CpuType
  <2> QED
    BY <2>1, SameSaved DEF TrapFrame
<1>17. CASE UNCHANGED vars
  BY <1>17 DEF vars, TrapFrame, Saved
<1> QED
  BY <1>1, <1>2, <1>3, <1>4, <1>5, <1>6, <1>7, <1>8, <1>9, <1>10, <1>11, <1>12, <1>13, <1>14,
     <1>15, <1>16, <1>17 DEF Next

(* A handler finds what its trap interrupted, whatever traps and returns of *)
(* the other level come in between (TrapFrame).                             *)
THEOREM HandlersKeepTheirFrame == Spec => []TrapFrame
<1>1. Init => TrapFrame
  BY DEF Init, TrapFrame, NoTrap
<1>2. TypeOK /\ TrapFrame /\ [Next]_vars => TrapFrame'
  BY NextKeepsFrame
<1> QED
  BY <1>1, <1>2, TypeCorrect, PTL DEF Spec

-----------------------------------------------------------------------------
(* Returns.                                                                 *)

Returned(m, f, t) ==
  IF t.to = "none" THEN cpu'.pc = f.pc /\ cpu'.priv = f.priv /\ (Enable(m) \in cpu'.msr) = f.ie
  ELSE t.pc = f.pc /\ t.priv = f.priv /\ (t.to = m => t.ie = f.ie)

(* An instruction that leaves the CPU as a trap of level m found it, and    *)
(* then retires, has returned from that trap.                               *)
LEMMA RetireReturns ==
  ASSUME NEW c \in CpuType, NEW m \in {"M", "S"}, NEW f, NEW npc \in VA, NEW lost, NEW access,
         Retire(c, npc, m, lost, access),
         npc = f.pc, c.priv = f.priv, (Enable(m) \in c.msr) = f.ie
  PROVE  Returned(m, f, last'.trap)
<1>1. last'.trap = RetireTrap(c, npc) /\ cpu' = Tick(Retired(c, npc))
  BY DEF Retire, Commit
<1>2. CASE Interrupted(c)
  <2> DEFINE t == Trapped(c, IrqCause(c), npc)
  <2>1. last'.trap = t
    BY <1>1, <1>2 DEF RetireTrap
  <2>2. t.to \in {"M", "S"} /\ t.pc = npc /\ t.priv = c.priv
    BY DEF Trapped
  <2>3. t.to = m => t.ie = (Enable(m) \in c.msr)
    BY DEF Trapped, Enable
  <2> HIDE DEF t
  <2> QED
    BY <2>1, <2>2, <2>3 DEF Returned
<1>3. CASE ~Interrupted(c)
  <2>1. last'.trap.to = "none"
    BY <1>1, <1>3 DEF RetireTrap, NoTrap
  <2>2. cpu'.pc = npc /\ cpu'.priv = c.priv /\ cpu'.msr = c.msr
    BY <1>1, <1>3 DEF Retired, Tick, CpuType
  <2> QED
    BY <2>1, <2>2 DEF Returned
<1> QED
  BY <1>2, <1>3

(* Only mret and sret return.                                               *)
LEMMA OnlyReturnsReturn ==
  ASSUME Next, cycles' # cycles, last'.ret \in {"M", "S"}
  PROVE  \/ last'.ret = "M" /\ Retire(MretCpu, cpu.mepc, "M", {"M"}, Seen)
         \/ last'.ret = "S" /\ Retire(SretCpu, cpu.sepc, "S", {"S"}, Seen)
<1>1. \A how : ~Halt(how)
  BY DEF Halt
<1>2. \A c, npc, lost, access : ~Retire(c, npc, "none", lost, access)
  BY DEF Retire, Commit
<1>3. \A cause, badaddr, access : ~Trap(cause, badaddr, access)
  BY DEF Trap, Commit
<1>4. ~FetchFails /\ ~Compute /\ ~Illegal /\ ~Jump /\ ~Ecall /\ ~Ebreak
  BY <1>1, <1>2, <1>3 DEF FetchFails, Compute, Illegal, Jump, Ecall, Ebreak, Plain
<1>5. ~Load /\ ~Store
  BY <1>1, <1>2, <1>3 DEF Load, Store, Access, Plain
<1>6. ~CsrBits /\ ~CsrEpc /\ ~CsrSatp /\ ~CsrTime /\ ~SimPrintf /\ ~SetInterrupt
  BY <1>1, <1>2 DEF CsrBits, CsrEpc, CsrSatp, CsrTime, SimPrintf, SetInterrupt, Plain
<1>7. Mret => last'.ret = "M" /\ Retire(MretCpu, cpu.mepc, "M", {"M"}, Seen)
  BY <1>1 DEF Mret, Retire, Commit
<1>8. Sret => last'.ret = "S" /\ Retire(SretCpu, cpu.sepc, "S", {"S"}, Seen)
  BY <1>1 DEF Sret, Retire, Commit
<1> QED
  BY <1>4, <1>5, <1>6, <1>7, <1>8 DEF Next

LEMMA StepReturns ==
  ASSUME TypeOK, TrapFrame, Next, NEW m \in {"M", "S"},
         cycles' # cycles, last'.ret = m, frame[m].to = m
  PROVE  Returned(m, frame[m], last'.trap)
<1>1. cpu \in CpuType /\ Saved(cpu, m, frame[m])
  BY DEF TypeOK, TrapFrame
<1>2. CASE m = "M"
  <2> DEFINE s == Put(cpu.msr, SR_MIE, SR_MPIE \in cpu.msr) \cup {SR_MPIE}
  <2>1. Retire(MretCpu, cpu.mepc, "M", {"M"}, Seen)
    BY <1>2, OnlyReturnsReturn
  <2>2. MretCpu.msr = SR_PUT_MPP(s, 0) /\ MretCpu.priv = SR_GET_MPP(cpu.msr)
    BY <1>1 DEF MretCpu, CpuType
  <2>3. s \in SUBSET Bits /\ (SR_MIE \in s <=> SR_MPIE \in cpu.msr)
    BY <1>1 DEF Put, CpuType, Bits
  <2> HIDE DEF s
  <2>4. SR_MIE \in MretCpu.msr <=> SR_MPIE \in cpu.msr
    BY <2>2, <2>3, MppReadsBack
  <2>5. /\ cpu.mepc = frame[m].pc /\ MretCpu.priv = frame[m].priv
        /\ (Enable("M") \in MretCpu.msr) = frame[m].ie
    BY <1>1, <1>2, <2>2, <2>4 DEF Saved, Enable
  <2>6. cpu.mepc \in VA /\ MretCpu \in CpuType
    BY <1>1, MretCpuType DEF CpuType
  <2> QED
    BY <1>2, <2>1, <2>5, <2>6, RetireReturns
<1>3. CASE m = "S"
  <2>1. Retire(SretCpu, cpu.sepc, "S", {"S"}, Seen)
    BY <1>3, OnlyReturnsReturn
  <2>2. /\ SretCpu.msr = (Put(cpu.msr, SR_SIE, SR_SPIE \in cpu.msr) \cup {SR_SPIE}) \ {SR_SPP}
        /\ SretCpu.priv = IF SR_SPP \in cpu.msr THEN 1 ELSE 0
    BY <1>1 DEF SretCpu, CpuType
  <2>3. SR_SIE \in SretCpu.msr <=> SR_SPIE \in cpu.msr
    BY <2>2 DEF Put
  <2>4. /\ cpu.sepc = frame[m].pc /\ SretCpu.priv = frame[m].priv
        /\ (Enable("S") \in SretCpu.msr) = frame[m].ie
    BY <1>1, <1>3, <2>2, <2>3 DEF Saved, Enable
  <2>5. cpu.sepc \in VA /\ SretCpu \in CpuType
    BY <1>1, SretCpuType DEF CpuType
  <2> QED
    BY <1>3, <2>1, <2>4, <2>5, RetireReturns
<1> QED
  BY <1>2, <1>3

(* mret and sret go back to where their trap came from, at the level and    *)
(* with the interrupts it found, unless an interrupt is taken right there,  *)
(* which then saves just that (TrapReturns).                                *)
THEOREM ReturnUndoesTrap == Spec => TrapReturns
<1> DEFINE A == \A m \in {"M", "S"} :
                  (cycles' # cycles /\ last'.ret = m /\ frame[m].to = m) =>
                    Returned(m, frame[m], last'.trap)
<1>1. TypeOK /\ TrapFrame /\ [Next]_vars => [A]_vars
  BY StepReturns DEF vars
<1>2. [A]_vars => [\A m \in {"M", "S"} :
       (cycles' # cycles /\ last'.ret = m /\ frame[m].to = m) =>
         LET f == frame[m]
             t == last'.trap
         IN  IF t.to = "none"
             THEN cpu'.pc = f.pc /\ cpu'.priv = f.priv /\ (Enable(m) \in cpu'.msr) = f.ie
             ELSE t.pc = f.pc /\ t.priv = f.priv /\ (t.to = m => t.ie = f.ie)]_vars
  BY DEF Returned
<1> HIDE DEF A
<1> QED
  BY <1>1, <1>2, TypeCorrect, HandlersKeepTheirFrame, PTL DEF Spec, TrapReturns

-----------------------------------------------------------------------------
(* Interrupts.                                                              *)

(* What Takeable holds of a CPU that need not be the present one.           *)
OwnerIn(c, i) == IF i \in c.mideleg THEN PRIV_SUPER ELSE PRIV_MACHINE
TakeableIn(c) ==
  {i \in c.mip \cap c.mie :
     \/ c.priv < OwnerIn(c, i)
     \/ c.priv = OwnerIn(c, i) /\ Enable(IF OwnerIn(c, i) = PRIV_MACHINE THEN "M" ELSE "S") \in c.msr}

(* What execute() finds no interrupt in has none to be taken.               *)
LEMMA NoneFound ==
  ASSUME NEW c \in CpuType, ~Interrupted(c)
  PROVE  TakeableIn(c) = {}
<1>1. M_Interrupts(c) = {} /\ S_Interrupts(c) = {}
  BY DEF Interrupted, Interrupts
<1>2. c.priv \in 0 .. 3
  BY DEF CpuType
<1>3. ASSUME NEW i \in TakeableIn(c) PROVE FALSE
  <2>1. CASE i \in c.mideleg
    <3>1. i \in S_Interrupts(c)
      BY <1>2, <1>3, <2>1 DEF TakeableIn, OwnerIn, Enable, S_Interrupts
    <3> QED
      BY <1>1, <3>1
  <2>2. CASE i \notin c.mideleg
    <3>1. i \in M_Interrupts(c)
      BY <1>2, <1>3, <2>2 DEF TakeableIn, OwnerIn, Enable, M_Interrupts
    <3> QED
      BY <1>1, <3>1
  <2> QED
    BY <2>1, <2>2
<1> QED
  BY <1>3

(* Interrupts that are raised since are all that can be waiting.            *)
LEMMA OnlyRaised ==
  ASSUME NEW c, NEW d, d.mie = c.mie, d.mideleg = c.mideleg, d.priv = c.priv, d.msr = c.msr
  PROVE  TakeableIn(d) \subseteq TakeableIn(c) \cup (d.mip \ c.mip)
BY DEF TakeableIn, OwnerIn

LEMMA RetirePrompt ==
  ASSUME NEW c \in CpuType, NEW npc, NEW ret, NEW lost, NEW access,
         Retire(c, npc, ret, lost, access)
  PROVE  last'.trap.to = "none" => TakeableIn(cpu') \subseteq last'.late
<1> DEFINE d == Retired(c, npc)
<1>1. /\ last'.trap = RetireTrap(c, npc) /\ cpu' = Tick(d)
      /\ last'.late = Tick(d).mip \ d.mip
  BY DEF Retire, Commit
<1>2. CASE Interrupted(c)
  BY <1>1, <1>2 DEF RetireTrap, Trapped
<1>3. CASE ~Interrupted(c)
  <2>1. d = [c EXCEPT !.pc = npc]
    BY <1>3 DEF Retired
  <2>2. /\ d.mip = c.mip /\ cpu'.mie = c.mie /\ cpu'.mideleg = c.mideleg
        /\ cpu'.priv = c.priv /\ cpu'.msr = c.msr
    BY <1>1, <2>1 DEF Tick, CpuType
  <2> HIDE DEF d
  <2>3. TakeableIn(cpu') \subseteq TakeableIn(c) \cup (cpu'.mip \ c.mip)
    BY <2>2, OnlyRaised
  <2> QED
    BY <1>1, <1>3, <2>2, <2>3, NoneFound
<1> QED
  BY <1>2, <1>3

LEMMA TrapPrompt ==
  ASSUME NEW cause, NEW badaddr, NEW access, Trap(cause, badaddr, access)
  PROVE  last'.trap.to # "none"
BY DEF Trap, Commit, Trapped

LEMMA NextPrompt == TypeOK /\ IrqPrompt /\ [Next]_vars => IrqPrompt'
<1> SUFFICES ASSUME TypeOK, IrqPrompt, [Next]_vars, last'.trap.to = "none"
             PROVE  TakeableIn(cpu') \subseteq last'.late
  BY DEF IrqPrompt, Takeable, TakeableIn, Owner, OwnerIn
<1>a. cpu \in CpuType
  BY DEF TypeOK
<1>b. ASSUME UNCHANGED <<cpu, last>>
      PROVE  TakeableIn(cpu') \subseteq last'.late
  BY <1>b DEF IrqPrompt, Takeable, TakeableIn, Owner, OwnerIn
<1>c. ASSUME NEW how, Halt(how)
      PROVE  TakeableIn(cpu') \subseteq last'.late
  BY <1>b, <1>c DEF Halt
<1>d. ASSUME NEW lost, NEW access, Plain(cpu, lost, access)
      PROVE  TakeableIn(cpu') \subseteq last'.late
  BY <1>a, <1>d, RetirePrompt DEF Plain
<1>1. CASE FetchFails
  BY <1>1, <1>c, TrapPrompt DEF FetchFails
<1>2. CASE Compute
  BY <1>2, <1>d DEF Compute
<1>3. CASE Illegal
  BY <1>3, <1>c DEF Illegal
<1>4. CASE Jump
  BY <1>4, <1>a, RetirePrompt DEF Jump
<1>5. CASE Load
  BY <1>5, <1>c, <1>d, TrapPrompt DEF Load, Access
<1>6. CASE Store
  BY <1>6, <1>c, <1>d, TrapPrompt DEF Store, Access
<1>7. CASE Ecall
  BY <1>7, TrapPrompt DEF Ecall
<1>8. CASE Ebreak
  BY <1>8, TrapPrompt DEF Ebreak
<1>9. CASE Mret
  BY <1>9, <1>c, MretCpuType, RetirePrompt DEF Mret
<1>10. CASE Sret
  BY <1>10, <1>c, SretCpuType, RetirePrompt DEF Sret
<1>11. CASE CsrBits
  BY <1>11, BitCsrType, RetirePrompt DEF CsrBits, Plain
<1>12. CASE CsrEpc
  <2>1. \A va \in Code : /\ [cpu EXCEPT !.mepc = va] \in CpuType
                         /\ [cpu EXCEPT !.sepc = va] \in CpuType
    BY <1>a, PrivAssumption, FieldTypes
  <2> QED
    BY <1>12, <2>1, RetirePrompt DEF CsrEpc, Plain
<1>13. CASE CsrSatp
  <2>1. \A r \in Roots \cup {Bare} : [cpu EXCEPT !.satp = r] \in CpuType
    BY <1>a DEF CpuType
  <2> QED
    BY <1>13, <2>1, RetirePrompt DEF CsrSatp, Plain
<1>14. CASE CsrTime
  <2>1. ASSUME NEW d \in Deadlines
        PROVE  [cpu EXCEPT !.mtimecmp = d, !.mip = @ \ {TimerIrq(cpu)}] \in CpuType
    <3>1. d \in 0 .. TIME - 1 /\ cpu.mip \ {TimerIrq(cpu)} \in SUBSET IRQ_MASK
      BY <1>a, PrivAssumption DEF CpuType
    <3> QED
      BY <1>a, <3>1 DEF CpuType
  <2> QED
    BY <1>14, <2>1, RetirePrompt DEF CsrTime, Plain
<1>15. CASE SimPrintf
  BY <1>15, <1>c, <1>d DEF SimPrintf
<1>16. CASE SetInterrupt
  <2>1. /\ cpu'.mie = cpu.mie /\ cpu'.mideleg = cpu.mideleg
        /\ cpu'.priv = cpu.priv /\ cpu'.msr = cpu.msr
        /\ cpu'.mip = cpu.mip \cup {IRQ_M_EXT}
    BY <1>16, <1>a DEF SetInterrupt, CpuType
  <2>2. TakeableIn(cpu') \subseteq TakeableIn(cpu) \cup ({IRQ_M_EXT} \ cpu.mip)
    BY <2>1, OnlyRaised
  <2>3. last'.trap = last.trap /\ last.late \cup ({IRQ_M_EXT} \ cpu.mip) \subseteq last'.late
    BY <1>16 DEF SetInterrupt
  <2>4. TakeableIn(cpu) \subseteq last.late
    BY <2>3 DEF IrqPrompt, Takeable, TakeableIn, Owner, OwnerIn
  <2> QED
    BY <2>2, <2>3, <2>4
<1>17. CASE UNCHANGED vars
  BY <1>17, <1>b DEF vars
<1> QED
  BY <1>1, <1>2, <1>3, <1>4, <1>5, <1>6, <1>7, <1>8, <1>9, <1>10, <1>11, <1>12, <1>13, <1>14,
     <1>15, <1>16, <1>17 DEF Next

(* No instruction leaves an enabled interrupt waiting, whichever level it   *)
(* belongs to and whatever enabled it (IrqPrompt).                          *)
THEOREM InterruptsArePrompt == Spec => []IrqPrompt
<1>1. Init => IrqPrompt
  BY DEF Init, IrqPrompt, Quiet, NoTrap
<1>2. TypeOK /\ IrqPrompt /\ [Next]_vars => IrqPrompt'
  BY NextPrompt
<1> QED
  BY <1>1, <1>2, TypeCorrect, PTL DEF Spec

-----------------------------------------------------------------------------
(* The page tables: addresses in pages of pages.                            *)

(* A quotient and a rest are what they should be.                           *)
LEMMA DivMod ==
  ASSUME NEW n \in Nat \ {0}, NEW q \in Int, NEW r \in 0 .. n - 1
  PROVE  (n * q + r) \div n = q /\ (n * q + r) % n = r
  OBVIOUS

LEMMA DivModOf ==
  ASSUME NEW n \in Nat \ {0}, NEW a \in Nat
  PROVE  a \div n \in Nat /\ a % n \in 0 .. n - 1 /\ a = n * (a \div n) + (a % n)
  OBVIOUS

(* An address is an entry of the root, one of a table, and an offset.       *)
Parts(va, h, i, o) ==
  /\ h \in Nat /\ i \in 0 .. N - 1 /\ o \in 0 .. N - 1
  /\ Vpn(va) = N * h + i /\ va = N * (N * h + i) + o
  /\ Vpn(va) \div N = h /\ Vpn(va) % N = i /\ va % N = o
  /\ va \div (N * N) = h /\ va % (N * N) = N * i + o

LEMMA Split ==
  ASSUME NEW h \in Nat, NEW i \in 0 .. N - 1, NEW o \in 0 .. N - 1
  PROVE  /\ N * (N * h + i) + o = (N * N) * h + (N * i + o)
         /\ N * i + o \in 0 .. (N * N) - 1 /\ N * N \in Nat \ {0}
         /\ (N * (N * h + i) + o) \div (N * N) = h
         /\ (N * (N * h + i) + o) % (N * N) = N * i + o
<1>1. N \in Nat \ {0}
  BY PrivAssumption
<1>2. N * N \in Nat \ {0}
  BY <1>1
<1>3. N * (N * h + i) + o = (N * N) * h + (N * i + o)
  BY <1>1
<1>4. N * i + o \in 0 .. (N * N) - 1
  <2>1. PICK d \in Nat : N = i + 1 + d
    <3>1. N - i - 1 \in Nat /\ N = i + 1 + (N - i - 1)
      BY <1>1
    <3> QED BY <3>1
  <2>2. N * N = N * i + N + N * d /\ N * d \in Nat /\ N * i \in Nat
    BY <1>1, <2>1
  <2> QED BY <1>1, <2>2
<1>5. PICK M \in Nat \ {0} : M = N * N
  BY <1>2
<1>6. PICK e \in 0 .. M - 1 : e = N * i + o
  BY <1>4, <1>5
<1>7. (M * h + e) \div M = h /\ (M * h + e) % M = e
  BY DivMod
<1> QED
  BY <1>2, <1>3, <1>4, <1>5, <1>6, <1>7

LEMMA PartsExist ==
  ASSUME NEW va \in VA
  PROVE  \E h \in 0 .. N - 1, i \in 0 .. N - 1, o \in 0 .. N - 1 : Parts(va, h, i, o)
<1>1. N \in Nat \ {0}
  BY PrivAssumption
<1>2. va \in Nat /\ va < N * N * N
  <2>1. N * N * N \in Int
    BY <1>1
  <2> QED BY <2>1 DEF VA
<1>3. PICK v \in Nat, o \in 0 .. N - 1 : v = va \div N /\ o = va % N
  BY <1>1, <1>2, DivModOf
<1>4. PICK h \in Nat, i \in 0 .. N - 1 : h = v \div N /\ i = v % N
  BY <1>1, DivModOf
<1>5. va = N * v + o /\ v = N * h + i
  BY <1>1, <1>2, <1>3, <1>4, DivModOf
<1>6. Parts(va, h, i, o)
  BY <1>3, <1>4, <1>5, Split DEF Parts, Vpn
<1>7. h \in 0 .. N - 1
  <2>1. ASSUME N <= h PROVE FALSE
    <3>1. PICK d \in Nat : h = N + d
      <4>1. h - N \in Nat /\ h = N + (h - N)
        BY <1>1, <2>1
      <4> QED BY <4>1
    <3>2. va = N * N * N + N * N * d + N * i + o
      BY <1>1, <1>5, <3>1
    <3>3. N * N * d \in Nat /\ N * i \in Nat /\ N * N * N \in Nat
      BY <1>1
    <3> QED BY <1>2, <3>2, <3>3
  <2> QED BY <1>1, <2>1
<1> QED
  BY <1>6, <1>7

(* A page and an offset.                                                    *)
LEMMA PageOffset ==
  ASSUME NEW p \in Nat, NEW o \in 0 .. N - 1
  PROVE  ((p * N) + o) \div N = p /\ ((p * N) + o) % N = o
<1>1. N \in Nat \ {0}
  BY PrivAssumption
<1>2. p * N = N * p
  BY <1>1
<1> QED
  BY <1>1, <1>2, DivMod

(* A larger page that is aligned takes the lower part of its page number    *)
(* from the address.                                                        *)
LEMMA LargerPage ==
  ASSUME NEW p \in Nat, p % N = 0, NEW i \in 0 .. N - 1, NEW o \in 0 .. N - 1
  PROVE  LET pa == (Larger(p, i) * N) + o
         IN  pa \div (N * N) = p \div N /\ pa % (N * N) = N * i + o
<1>1. N \in Nat \ {0} /\ Or(0, i) = i
  BY PrivAssumption
<1>2. PICK q \in Nat : q = p \div N /\ p = N * q
  <2>1. p \div N \in Nat /\ p = N * (p \div N) + (p % N)
    BY <1>1, DivModOf
  <2> QED BY <1>1, <2>1
<1>3. Larger(p, i) = N * q + i
  BY <1>1, <1>2 DEF Larger
<1>4. (Larger(p, i) * N) + o = N * (N * q + i) + o
  BY <1>1, <1>3
<1> QED
  BY <1>2, <1>4, Split

-----------------------------------------------------------------------------
(* The simulator takes a larger page that is not aligned, and its address   *)
(* is then not the one that the tables mean: what the root table may hold,  *)
(* and what may be stored, has such pages aligned.                          *)
AlignedPte(p) == IsLeaf(p) => p.ppn % N = 0

AlignedRoots(m) ==
  \A r \in Roots : \A i \in 0 .. N - 1 : (r * N) + i \in Phys => AlignedPte(m[(r * N) + i])

Aligned == (\A p \in Ptes : AlignedPte(p)) /\ (\A m \in Tables : AlignedRoots(m))

MapInv == TypeOK /\ AlignedRoots(mem)

(* What is stored is one of Ptes, and a load stores nothing.                *)
LEMMA NextKeepsAligned == Aligned /\ MapInv /\ [Next]_vars => MapInv'
<1> SUFFICES ASSUME Aligned, MapInv, [Next]_vars PROVE MapInv'
  OBVIOUS
<1>1. TypeOK'
  BY NextKeepsType DEF MapInv
<1>2. AlignedRoots(mem)'
  <2>1. CASE mem' = mem
    BY <2>1 DEF MapInv, AlignedRoots
  <2>2. ASSUME NEW need, NEW cause, NEW va, NEW w, Access(need, cause, va, w),
               w \in Ptes \/ w = mem[Translate(need, va).pa]
        PROVE  AlignedRoots(mem)'
    <3>1. CASE mem' = mem
      BY <3>1 DEF MapInv, AlignedRoots
    <3>2. PICK t : t = Translate(need, va).pa
      OBVIOUS
    <3>3. CASE mem' = [a \in Phys |-> IF a = t THEN w ELSE mem[a]]
      <4>1. \A a \in Phys : mem'[a] \in Ptes \/ mem'[a] = mem[a]
        BY <2>2, <3>2, <3>3
      <4>2. \A a \in Phys : AlignedPte(mem[a]) => AlignedPte(mem'[a])
        BY <4>1 DEF Aligned
      <4> QED
        BY <4>2 DEF MapInv, AlignedRoots
    <3>4. mem' = mem \/ mem' = [a \in Phys |-> IF a = t THEN w ELSE mem[a]]
      BY <2>2, <3>2 DEF Access, Halt
    <3> QED
      BY <3>1, <3>3, <3>4
  <2>3. CASE Load
    BY <2>2, <2>3 DEF Load
  <2>4. CASE Store
    BY <2>2, <2>4 DEF Store
  <2>5. CASE ~Load /\ ~Store
    <3>1. mem' = mem
      BY <2>5 DEF Next, vars, FetchFails, Compute, Illegal, Jump, Ecall, Ebreak, Mret, Sret, CsrBits,
         CsrEpc, CsrSatp, CsrTime, SimPrintf, SetInterrupt, Halt
    <3> QED
      BY <2>1, <3>1
  <2> QED
    BY <2>3, <2>4, <2>5
<1> QED
  BY <1>1, <1>2 DEF MapInv

LEMMA InitAligned == Aligned /\ Init => MapInv
<1> SUFFICES ASSUME Aligned, Init PROVE MapInv
  OBVIOUS
<1>1. mem \in Tables
  BY DEF Init
<1> QED
  BY <1>1, InitTypes DEF MapInv, Aligned

(* What a page's flags let through is what they grant.                      *)
LEMMA LetsThrough ==
  ASSUME NEW need \in {"R", "W", "X"}, NEW f, "V" \in f, cpu.priv \in {PRIV_USER, PRIV_SUPER},
         ~Fatal(need, f), ~Denied(need, f)
  PROVE  Grants(need, f)
  BY DEF Fatal, Denied, Reserved, Grants

(* The address of a table below the end is not cut off.                     *)
LEMMA BaseBelow ==
  ASSUME NEW p \in Nat, ~Beyond(p)
  PROVE  Base(p) = p
<1>1. N \in Nat \ {0}
  BY PrivAssumption
<1>2. PICK M \in Nat \ {0} : M = N * N
  <2>1. N * N \in Nat \ {0}
    BY <1>1
  <2> QED BY <2>1
<1>3. p < M
  BY <1>2 DEF Beyond
<1>4. p % M = p
  BY <1>3
<1> QED
  BY <1>2, <1>4 DEF Base

LEMMA PpnType == Ppn \subseteq Nat /\ \A p \in Pte : p.ppn \in Nat
<1>1. 4 * N * N \in Nat
  BY PrivAssumption
<1>2. Ppn \subseteq Nat
  BY <1>1 DEF Ppn
<1> QED
  BY <1>2 DEF Pte

(* The walk finds what the tables map.                                      *)
LEMMA TranslateMaps ==
  ASSUME MapInv, NEW need \in {"R", "W", "X"}, NEW va \in VA, cpu.priv <= PRIV_SUPER,
         Translate(need, va).end = "ok"
  PROVE  Mapped(need, va, Translate(need, va).pa)
<1>n. N \in Nat \ {0}
  BY PrivAssumption
<1>p. cpu.priv \in {PRIV_USER, PRIV_SUPER}
  BY DEF MapInv, TypeOK, CpuType
<1>1. PICK h \in 0 .. N - 1, i \in 0 .. N - 1, o \in 0 .. N - 1 : Parts(va, h, i, o)
  BY PartsExist
<1>2. PICK w : w = mmu_walk(va)
  OBVIOUS
<1>3. w.end = "page" /\ ~Fatal(need, w.flags) /\ ~Denied(need, w.flags)
  <2>1. w.end \in {"page", "exit", "abort", "undefined"}
    BY <1>2 DEF mmu_walk, NoPage, Page, PageEnd, Lost
  <2>2. PICK end : end = Translate(need, va).end
    OBVIOUS
  <2>3. end = IF w.end # "page" THEN w.end
              ELSE IF Fatal(need, w.flags) THEN "exit"
              ELSE IF Denied(need, w.flags) THEN "fault" ELSE "ok"
    BY <1>2, <1>p, <2>2 DEF Translate
  <2>4. end = "ok"
    BY <2>2
  <2> QED
    BY <2>1, <2>3, <2>4
<1>4. Translate(need, va).pa = (w.ppn * N) + o
  BY <1>1, <1>2, <1>p DEF Translate, Parts
<1>5. CASE cpu.satp = Bare
  <2>1. w.ppn = N * h + i
    BY <1>1, <1>2, <1>5 DEF mmu_walk, Parts
  <2>2. (w.ppn * N) + o = va
    <3>1. va = N * (N * h + i) + o /\ N * h + i \in Nat
      BY <1>1, <1>n DEF Parts
    <3>2. (N * h + i) * N = N * (N * h + i)
      BY <1>n, <3>1
    <3> QED BY <2>1, <3>1, <3>2
  <2> QED
    BY <1>4, <1>5, <2>2 DEF Mapped
<1>7. CASE cpu.satp # Bare /\ Beyond(cpu.satp)
  BY <1>7 DEF Mapped
<1>6. CASE cpu.satp # Bare /\ ~Beyond(cpu.satp)
  <2>1. PICK r \in Roots : r = cpu.satp
    BY <1>6 DEF MapInv, TypeOK, CpuType
  <2>b. Base(cpu.satp) = r
    <3>1. r \in Nat /\ ~Beyond(r)
      BY <1>6, <2>1, PrivAssumption, PpnType
    <3> QED
      BY <2>1, <3>1, BaseBelow
  <2>2. PICK t : t = (r * N) + h
    OBVIOUS
  <2>3. PICK top : top = Entry(cpu.satp, h)
    OBVIOUS
  <2>4. PICK l : l = (Base(top.ppn) * N) + i
    OBVIOUS
  <2>5. PICK leaf : leaf = Entry(top.ppn, i)
    OBVIOUS
  <2>6. /\ top = IF t \in Phys THEN mem[t] ELSE Nothing
        /\ leaf = IF l \in Phys THEN mem[l] ELSE Nothing
    BY <2>b, <2>2, <2>3, <2>4, <2>5 DEF Entry, mmu_read_word
  <2>7. /\ ~Absent(top)
        /\ \/ IsLeaf(top) /\ w.flags = top.flags /\ w.ppn = Larger(top.ppn, i)
           \/ ~IsLeaf(top) /\ ~Absent(leaf) /\ IsLeaf(leaf) /\ w.flags = leaf.flags /\ w.ppn = leaf.ppn
    <3>1. w = IF Absent(top) THEN NoPage
              ELSE IF IsLeaf(top) THEN Page(top.flags, Larger(top.ppn, i))
              ELSE IF Absent(leaf) THEN NoPage
              ELSE IF IsLeaf(leaf) THEN Page(leaf.flags, leaf.ppn)
              ELSE IF Absent(Entry(leaf.ppn, o)) THEN NoPage ELSE Lost
      BY <1>1, <1>2, <1>6, <2>3, <2>5 DEF mmu_walk, Parts
    <3>2. need \notin NoPage.flags /\ NoPage.flags = {} /\ Lost.end # "page"
      BY DEF NoPage, Lost
    <3>3. w # NoPage /\ w # Lost
      BY <1>3, <3>2 DEF Denied
    <3> QED
      BY <3>1, <3>3 DEF Page
  <2>8. t \in Phys /\ top = mem[t] /\ "V" \in mem[t].flags /\ mem[t] \in Pte
    <3>1. Absent(Nothing)
      BY DEF Absent, Nothing
    <3>2. t \in Phys
      BY <2>6, <2>7, <3>1
    <3> QED
      BY <2>6, <2>7, <3>2 DEF Absent, MapInv, TypeOK
  <2>9. top.ppn \in Nat
    BY <2>8, PpnType
  <2>10. t = (cpu.satp * N) + (va \div (N * N)) /\ va % (N * N) = N * i + o /\ (va \div N) % N = i /\ va % N = o
    BY <1>1, <2>1, <2>2 DEF Parts, Vpn
  <2>11. CASE IsLeaf(top)
    <3>1. w.flags = top.flags /\ w.ppn = Larger(top.ppn, i)
      BY <2>7, <2>11
    <3>2. top.ppn % N = 0
      BY <2>1, <2>2, <2>8, <2>11 DEF MapInv, AlignedRoots, AlignedPte
    <3>3. Grants(need, mem[t].flags)
      BY <1>3, <1>p, <2>8, <3>1, LetsThrough
    <3>4. PICK pa : pa = (Larger(top.ppn, i) * N) + o
      OBVIOUS
    <3>5. pa \div (N * N) = mem[t].ppn \div N /\ pa % (N * N) = va % (N * N)
      BY <2>8, <2>9, <2>10, <3>2, <3>4, LargerPage
    <3>6. Translate(need, va).pa = pa
      BY <1>4, <3>1, <3>4
    <3> QED
      BY <1>6, <2>8, <2>10, <3>3, <3>5, <3>6 DEF Mapped
  <2>13. CASE ~IsLeaf(top) /\ Beyond(top.ppn)
    <3>1. mem[t].flags \cap {"R", "W", "X"} = {} /\ Beyond(mem[t].ppn)
      BY <2>8, <2>13 DEF IsLeaf
    <3> QED
      BY <1>6, <2>8, <2>10, <3>1 DEF Mapped
  <2>12. CASE ~IsLeaf(top) /\ ~Beyond(top.ppn)
    <3>1. ~Absent(leaf) /\ w.flags = leaf.flags /\ w.ppn = leaf.ppn
      BY <2>7, <2>12
    <3>2. l \in Phys /\ leaf = mem[l] /\ "V" \in mem[l].flags /\ mem[l] \in Pte
      <4>1. Absent(Nothing)
        BY DEF Absent, Nothing
      <4>2. l \in Phys
        BY <2>6, <3>1, <4>1
      <4> QED
        BY <2>6, <3>1, <4>2 DEF Absent, MapInv, TypeOK
    <3>3. leaf.ppn \in Nat
      BY <3>2, PpnType
    <3>4. Grants(need, mem[l].flags)
      BY <1>3, <1>p, <3>1, <3>2, LetsThrough
    <3>5. PICK pa : pa = (leaf.ppn * N) + o
      OBVIOUS
    <3>6. pa \div N = mem[l].ppn /\ pa % N = va % N
      BY <2>10, <3>2, <3>3, <3>5, PageOffset
    <3>7. Translate(need, va).pa = pa
      BY <1>4, <3>1, <3>5
    <3>8. mem[t].flags \cap {"R", "W", "X"} = {}
      BY <2>8, <2>12 DEF IsLeaf
    <3>9. l = (mem[t].ppn * N) + ((va \div N) % N)
      BY <2>4, <2>8, <2>9, <2>10, <2>12, BaseBelow
    <3> QED
      BY <1>6, <2>8, <2>10, <3>2, <3>4, <3>6, <3>7, <3>8, <3>9 DEF Mapped
  <2> QED
    BY <2>11, <2>12, <2>13
<1> QED
  BY <1>5, <1>6, <1>7

(* The accesses of a step.                                                  *)
LEMMA FetchedMaps ==
  ASSUME MapInv, Fetched
  PROVE  \A a \in Seen : Mapped(a.need, a.va, a.pa)
<1> SUFFICES ASSUME NEW a \in Seen PROVE Mapped(a.need, a.va, a.pa)
  OBVIOUS
<1>1. ~ (cpu.priv > PRIV_SUPER) /\ a = [need |-> "X", va |-> cpu.pc, pa |-> Translate("X", cpu.pc).pa]
  BY DEF Seen, Accessed
<1>2. cpu.pc \in VA /\ cpu.priv <= PRIV_SUPER
  BY <1>1 DEF MapInv, TypeOK, CpuType
<1> QED
  BY <1>1, <1>2, TranslateMaps DEF Fetched

LEMMA AccessMaps ==
  ASSUME MapInv, NEW need \in {"R", "W"}, NEW cause, NEW va \in VA, NEW w, Access(need, cause, va, w),
         cycles' # cycles
  PROVE  \A a \in last'.access : Mapped(a.need, a.va, a.pa)
<1>1. Fetched
  BY DEF Access
<1>2. \/ last'.access = Seen
      \/ Translate(need, va).end = "ok" /\ last'.access = Seen \cup Accessed(need, va)
  BY DEF Access, Trap, Plain, Retire, Commit, Halt
<1>3. ASSUME Translate(need, va).end = "ok", NEW a \in Accessed(need, va) PROVE Mapped(a.need, a.va, a.pa)
  <2>1. ~ (cpu.priv > PRIV_SUPER) /\ a = [need |-> need, va |-> va, pa |-> Translate(need, va).pa]
    BY <1>3 DEF Accessed
  <2>2. cpu.priv <= PRIV_SUPER
    BY <2>1 DEF MapInv, TypeOK, CpuType
  <2> QED
    BY <1>3, <2>1, <2>2, TranslateMaps
<1> QED
  BY <1>1, <1>2, <1>3, FetchedMaps

(* Below machine level nothing is fetched, loaded or stored but where the   *)
(* page tables of that moment map its address with that permission, for all *)
(* tables, programs and traps, as long as larger pages are aligned; walks   *)
(* through a table that lies behind the 32-bit addresses are left open.     *)
THEOREM AccessesAreMapped == Aligned => (Spec => AccessIsMapped)
<1> SUFFICES ASSUME Aligned PROVE Spec => AccessIsMapped
  OBVIOUS
<1>1. Init => MapInv
  BY InitAligned
<1>2. MapInv /\ [Next]_vars => MapInv'
  BY NextKeepsAligned
<1>3. MapInv /\ [Next]_vars => [cycles' # cycles => \A a \in last'.access : Mapped(a.need, a.va, a.pa)]_vars
  <2> SUFFICES ASSUME MapInv, Next, cycles' # cycles
               PROVE  \A a \in last'.access : Mapped(a.need, a.va, a.pa)
    OBVIOUS
  <2>1. CASE Load
    <3>1. PICK va \in Data : Access("R", MCAUSE_PAGE_FAULT_LOAD, va, mem[Translate("R", va).pa])
      BY <2>1 DEF Load
    <3>2. va \in VA
      BY PrivAssumption
    <3> QED
      BY <3>1, <3>2, AccessMaps
  <2>2. CASE Store
    <3>1. PICK va \in Data, p \in Ptes : Access("W", MCAUSE_PAGE_FAULT_STORE, va, p)
      BY <2>2 DEF Store
    <3>2. va \in VA
      BY PrivAssumption
    <3> QED
      BY <3>1, <3>2, AccessMaps
  <2>3. CASE ~Load /\ ~Store
    <3>1. \A how : ~Halt(how)
      BY DEF Halt
    <3>2. \A c, npc, ret, lost : Retire(c, npc, ret, lost, Seen) => last'.access = Seen
      BY DEF Retire, Commit
    <3>3. \A cause, badaddr, access : Trap(cause, badaddr, access) => last'.access = access
      BY DEF Trap, Commit
    <3>4. FetchFails => last'.access = {}
      BY <3>1, <3>3 DEF FetchFails
    <3>5. (Compute \/ Illegal \/ Jump \/ Ecall \/ Ebreak) => Fetched /\ last'.access = Seen
      BY <3>1, <3>2, <3>3 DEF Compute, Illegal, Jump, Ecall, Ebreak, Plain
    <3>6. (Mret \/ Sret) => Fetched /\ last'.access = Seen
      BY <3>1, <3>2 DEF Mret, Sret
    <3>7. (CsrBits \/ CsrEpc \/ CsrSatp \/ CsrTime \/ SimPrintf) => Fetched /\ last'.access = Seen
      BY <3>1, <3>2 DEF CsrBits, CsrEpc, CsrSatp, CsrTime, SimPrintf, Plain
    <3>8. ~SetInterrupt
      BY DEF SetInterrupt
    <3>9. last'.access = {} \/ (Fetched /\ last'.access = Seen)
      BY <2>3, <3>4, <3>5, <3>6, <3>7, <3>8 DEF Next
    <3> QED
      BY <3>9, FetchedMaps
  <2> QED
    BY <2>1, <2>2, <2>3
<1> QED
  BY <1>1, <1>2, <1>3, PTL DEF Spec, AccessIsMapped
=============================================================================
