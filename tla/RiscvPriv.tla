----------------------------- MODULE RiscvPriv -----------------------------
(***************************************************************************)
(* The privileged machine of the RISC-V instruction set simulator          *)
(* (isa_sim/riscv.cpp): privilege levels, the CSRs, traps and returns,     *)
(* delegation, interrupts, the timer and the Sv32 page table walk.         *)
(*                                                                         *)
(* A step of the simulator, step(), executes one instruction and ticks the *)
(* timer; execute() translates the PC, executes, and looks for interrupts. *)
(* What the general registers compute is left out (RiscvExec has that):    *)
(* the program is any sequence of the instructions that the constants      *)
(* name.  A CSR of bits is the set of its bit numbers.  Memory is counted  *)
(* in words, and a word is what the walk reads in it, a PTE; a page has as *)
(* many words as a table has entries (MMU_PGSHIFT = MMU_PTIDXBITS + 2).    *)
(***************************************************************************)
EXTENDS Integers, FiniteSets

CONSTANTS
  N,             (* entries of a page table (2^MMU_PTIDXBITS, 1024)         *)
  Or(_, _),      (* bitwise or, of numbers below N                          *)
  TIME,          (* mtime is truncated to this (2^32)                       *)
  Phys,          (* the words that some memory region holds                 *)
  Tables,        (* what memory may hold at boot                            *)
  Boots,         (* what boot code may have left in the CPU's registers     *)
  BitOps,        (* CSR instructions on bits: [csr, how, bits]              *)
  Roots,         (* what may be written to satp                             *)
  Bare,          (* satp with SATP_MODE clear                               *)
  Code,          (* jump targets and what may be written to xEPC            *)
  Data,          (* addresses that are loaded, stored and printed from      *)
  Ptes,          (* words that are stored                                   *)
  Deadlines,     (* what may be written to the time CSR                     *)
  MaxCycles      (* riscv_main's -c: a bound on the run                     *)

Bits  == 0 .. 31
VA    == 0 .. N * N * N - 1
Flags == {"V", "R", "W", "X", "U"}
Ppn   == 0 .. (4 * N * N) - 1   (* 22 bits, SATP_PPN_MASK and PAGE_PFN_SHIFT *)
Pte   == [flags : SUBSET Flags, ppn : Ppn]

-----------------------------------------------------------------------------
(* riscv_isa.h *)

PRIV_USER    == 0
PRIV_SUPER   == 1
PRIV_MACHINE == 3

SR_UIE  == 0
SR_SIE  == 1
SR_MIE  == 3
SR_UPIE == 4
SR_SPIE == 5
SR_MPIE == 7
SR_SPP  == 8
SR_MPP  == 11       (* and 12 *)
SR_SUM  == 18
SR_SMODE_MASK == {SR_UIE, SR_SIE, SR_UPIE, SR_SPIE, SR_SPP, SR_SUM}

IRQ_S_TIMER == 5
IRQ_M_TIMER == 7
IRQ_M_EXT   == 11
IRQ_MASK    == {1, 3, 5, 7, 9, 11}
IRQ_S_MASK  == {1, 5, 9}

MCAUSE_BREAKPOINT       == 3
MCAUSE_ECALL_U          == 8
MCAUSE_PAGE_FAULT_INST  == 12
MCAUSE_PAGE_FAULT_LOAD  == 13
MCAUSE_PAGE_FAULT_STORE == 15
MCAUSE_INTERRUPT        == 16   (* bit 31; a cause has four bits *)

(* The CSRs of bits: the register behind each, and its mask.                *)
BitCsrs == {"mstatus", "sstatus", "mip", "sip", "mie", "sie", "mideleg", "medeleg"}

(* A mistake: the interrupt registers have no mask.                         *)
CSR_MASK_None(csr) == IF csr = "sstatus" THEN SR_SMODE_MASK ELSE Bits

CSR_MASK(csr) ==
  CASE csr = "sstatus"          -> SR_SMODE_MASK
    [] csr \in {"mip", "mie"}   -> IRQ_MASK
    [] csr \in {"sip", "sie"}   -> IRQ_S_MASK
    [] OTHER                    -> Bits

-----------------------------------------------------------------------------
CpuType ==
  [pc : VA, priv : 0 .. 3, msr : SUBSET Bits, mip : SUBSET IRQ_MASK, mie : SUBSET IRQ_MASK,
   mideleg : SUBSET Bits, medeleg : SUBSET Bits, mevec : VA, sevec : VA, mepc : VA, sepc : VA,
   mcause : Bits, scause : Bits, stval : VA, satp : Roots \cup {Bare},
   mtime : 0 .. TIME - 1, mtimecmp : 0 .. TIME - 1]

ASSUME PrivAssumption ==
  /\ N \in Nat \ {0} /\ TIME \in Nat \ {0}
  /\ \A a, b \in 0 .. N - 1 : Or(a, b) \in 0 .. N - 1
  /\ \A a \in 0 .. N - 1 : Or(0, a) = a
  /\ Phys \subseteq VA                    (* a 32-bit address, as a virtual one *)
  /\ Tables \subseteq [Phys -> Pte]
  /\ Boots \subseteq CpuType
  /\ BitOps \subseteq [csr : BitCsrs, how : {"w", "s", "c"}, bits : SUBSET Bits]
  /\ Roots \subseteq Ppn /\ Bare \notin Nat
  /\ Code \subseteq VA /\ Data \subseteq VA
  /\ Ptes \subseteq Pte
  /\ Deadlines \subseteq 1 .. TIME - 1
  /\ MaxCycles \in Nat

VARIABLES
  cpu,     (* m_pc, m_csr_mpriv and the CSRs                                *)
  mem,     (* the regions' words                                            *)
  status,  (* "run"; "break": the main loop stops; "exit": error() or the   *)
           (* program called exit(); "abort": an assertion failed;          *)
           (* "undefined": C does not say what happens next                 *)
  cycles,  (* of riscv_main's loop                                          *)
  (* Histories, of what the properties are about:                           *)
  frame,   (* for M and S, the trap that its handler is in, while the       *)
           (* registers that saved it have not been written or restored     *)
  last     (* of the last step: the trap it took, the handler it returned   *)
           (* from, what it accessed below machine level, and what          *)
           (* interrupts were raised since it looked for them               *)

vars == <<cpu, mem, status, cycles, frame, last>>

NoTrap == [to |-> "none", priv |-> 0, ie |-> FALSE, pc |-> 0]
Quiet  == [trap |-> NoTrap, ret |-> "none", access |-> {}, late |-> {}]

-----------------------------------------------------------------------------
(* exception(): the level that handles it, what is saved there, and where   *)
(* the CPU goes.                                                            *)

Delegated(c, cause) ==
  /\ c.priv <= PRIV_SUPER
  /\ IF cause >= MCAUSE_INTERRUPT THEN cause - MCAUSE_INTERRUPT \in c.mideleg
                                  ELSE cause \in c.medeleg

Put(s, bit, on) == IF on THEN s \cup {bit} ELSE s \ {bit}

(* A field of two bits.                                                     *)
SR_GET_MPP(s) ==
  (IF SR_MPP \in s THEN 1 ELSE 0) + (IF SR_MPP + 1 \in s THEN 2 ELSE 0)

SR_PUT_MPP(s, p) == Put(Put(s, SR_MPP, p \in {1, 3}), SR_MPP + 1, p \in {2, 3})

(* A mistake: the enable that is saved is the machine's.                    *)
ToSuper_Enable(c, cause, pc, badaddr) ==
  [c EXCEPT
    !.msr    = Put(Put(@, SR_SPIE, SR_MIE \in @) \ {SR_SIE}, SR_SPP, c.priv = PRIV_SUPER),
    !.priv   = PRIV_SUPER,
    !.sepc   = pc, !.scause = cause, !.stval = badaddr, !.pc = c.sevec]

ToSuper(c, cause, pc, badaddr) ==
  [c EXCEPT
    !.msr    = Put(Put(@, SR_SPIE, SR_SIE \in @) \ {SR_SIE}, SR_SPP, c.priv = PRIV_SUPER),
    !.priv   = PRIV_SUPER,
    !.sepc   = pc, !.scause = cause, !.stval = badaddr, !.pc = c.sevec]

ToMachine(c, cause, pc) ==
  [c EXCEPT
    !.msr    = SR_PUT_MPP(Put(@, SR_MPIE, SR_MIE \in @) \ {SR_MIE}, c.priv),
    !.priv   = PRIV_MACHINE,
    !.mepc   = pc, !.mcause = cause, !.pc = c.mevec]

exception(c, cause, pc, badaddr) ==
  IF Delegated(c, cause) THEN ToSuper(c, cause, pc, badaddr) ELSE ToMachine(c, cause, pc)

(* What the trap's handler has to find and to return to.                    *)
Trapped(c, cause, pc) ==
  LET s == Delegated(c, cause)
  IN  [to   |-> IF s THEN "S" ELSE "M",
       priv |-> c.priv,
       ie   |-> (IF s THEN SR_SIE ELSE SR_MIE) \in c.msr,
       pc   |-> pc]

-----------------------------------------------------------------------------
(* The interrupts that may be taken: the machine's go first.                *)

M_Interrupts(c) ==
  IF c.priv < PRIV_MACHINE \/ (c.priv = PRIV_MACHINE /\ SR_MIE \in c.msr)
  THEN (c.mip \cap c.mie) \ c.mideleg ELSE {}

S_Interrupts(c) ==
  IF c.priv < PRIV_SUPER \/ (c.priv = PRIV_SUPER /\ SR_SIE \in c.msr)
  THEN c.mip \cap c.mie \cap c.mideleg ELSE {}

(* A mistake: an interrupt is only delegated from below the supervisor.     *)
Interrupts_SuperMasked(c) ==
  IF M_Interrupts(c) # {} THEN M_Interrupts(c)
  ELSE IF c.priv = PRIV_USER THEN S_Interrupts(c) ELSE {}

Interrupts(c) == IF M_Interrupts(c) # {} THEN M_Interrupts(c) ELSE S_Interrupts(c)

Lowest(S) == CHOOSE i \in S : \A j \in S : i <= j

(* The end of execute(): an instruction that did not trap goes on at npc,   *)
(* or the first of the interrupts is taken there.                           *)
Interrupted(c) == Interrupts(c) # {}
IrqCause(c)    == MCAUSE_INTERRUPT + Lowest(Interrupts(c))

Retired(c, npc) ==
  IF Interrupted(c) THEN exception(c, IrqCause(c), npc, 0) ELSE [c EXCEPT !.pc = npc]

RetireTrap(c, npc) == IF Interrupted(c) THEN Trapped(c, IrqCause(c), npc) ELSE NoTrap

-----------------------------------------------------------------------------
(* The rest of step(): the timer.  Its interrupt is the supervisor's when   *)
(* that is delegated.                                                       *)

TimerIrq(c) == IF IRQ_S_TIMER \in c.mideleg THEN IRQ_S_TIMER ELSE IRQ_M_TIMER

Tick(c) ==
  LET now == (c.mtime + 1) % TIME
  IN  [c EXCEPT !.mtime = now,
                !.mip   = IF now = c.mtimecmp THEN @ \cup {TimerIrq(c)} ELSE @]

-----------------------------------------------------------------------------
(* mmu_walk(): the PTE of an address, and whether its page exists; no PTE   *)
(* is one without flags.  A table entry that is no leaf on the last level   *)
(* is followed nevertheless (an unsigned i >= 0 always holds): to the word  *)
(* that the page offset selects, and if that is present, to a shift by a    *)
(* negative number.                                                         *)

Vpn(va) == va \div N
Nothing == [flags |-> {}, ppn |-> 0]

mmu_read_word(a) == IF a \in Phys THEN mem[a] ELSE Nothing

(* The address of a table is a uint32_t: of its page number's 22 bits the   *)
(* upper two are shifted out.                                               *)
Base(ppn)       == ppn % (N * N)
Entry(ppn, idx) == mmu_read_word((Base(ppn) * N) + idx)

Absent(p) == "V" \notin p.flags
IsLeaf(p) == p.flags \cap {"R", "W", "X"} # {}

(* The page itself has 64 bits, which are asserted to fit into 32.          *)
PageEnd(p) == IF p >= N * N THEN "abort" ELSE IF p * N \in Phys THEN "page" ELSE "exit"

NoPage     == [end |-> "page", flags |-> {}, ppn |-> 0]
Page(f, p) == [end |-> PageEnd(p), flags |-> f, ppn |-> p]
Lost       == [end |-> "undefined", flags |-> {}, ppn |-> 0]

(* A larger page: the address fills in the lower part of the page number.   *)
Larger(ppn, idx) == (ppn - (ppn % N)) + Or(ppn % N, idx)

mmu_walk(va) ==
  LET top   == Entry(cpu.satp, Vpn(va) \div N)
      leaf  == Entry(top.ppn, Vpn(va) % N)
      third == Entry(leaf.ppn, va % N)
  IN  CASE cpu.satp = Bare -> [end |-> "page", flags |-> Flags \ {"U"}, ppn |-> Vpn(va)]
        [] cpu.satp # Bare /\ Absent(top) -> NoPage
        [] cpu.satp # Bare /\ ~Absent(top) /\ IsLeaf(top) ->
             Page(top.flags, Larger(top.ppn, Vpn(va) % N))
        [] OTHER ->
             IF Absent(leaf) THEN NoPage
             ELSE IF IsLeaf(leaf) THEN Page(leaf.flags, leaf.ppn)
             ELSE IF Absent(third) THEN NoPage ELSE Lost

(* mmu_i_translate() (need = "X") and mmu_d_translate() ("R" or "W").       *)
Reserved(f) == "W" \in f /\ "R" \notin f

Fatal(need, f) ==
  /\ cpu.priv = PRIV_SUPER /\ "U" \in f /\ ~Reserved(f)
  /\ need = "X" \/ SR_SUM \notin cpu.msr

(* A mistake: the supervisor's rule for user pages is the user's.           *)
Denied_Any(need, f) == Reserved(f) \/ need \notin f

Denied(need, f) ==
  Reserved(f) \/ need \notin f \/ (cpu.priv = PRIV_USER /\ "U" \notin f)

Translate(need, va) ==
  LET w == mmu_walk(va)
  IN  CASE cpu.priv > PRIV_SUPER  -> [end |-> "ok", pa |-> va]
        [] cpu.priv <= PRIV_SUPER ->
             [end |-> IF w.end # "page" THEN w.end
                      ELSE IF Fatal(need, w.flags) THEN "exit"
                      ELSE IF Denied(need, w.flags) THEN "fault" ELSE "ok",
              pa  |-> (w.ppn * N) + (va % N)]

-----------------------------------------------------------------------------
Init ==
  /\ cpu \in Boots
  /\ mem \in Tables
  /\ status = "run" /\ cycles = 0
  /\ frame = [m \in {"M", "S"} |-> NoTrap]
  /\ last  = [Quiet EXCEPT !.trap = [NoTrap EXCEPT !.to = "reset"]]

(* The program reaches an instruction that memory holds.                    *)
Running == status = "run" /\ cycles < MaxCycles
Fetched == Running /\ Translate("X", cpu.pc).end = "ok" /\ Translate("X", cpu.pc).pa \in Phys

Accessed(need, va) ==
  IF cpu.priv > PRIV_SUPER THEN {}
  ELSE {[need |-> need, va |-> va, pa |-> Translate(need, va).pa]}

Ends == {"exit", "abort", "undefined"}

Halt(how) == status' = how /\ UNCHANGED <<cpu, mem, cycles, frame, last>>

(* A step that leaves the CPU in c, before the timer; t is the trap it took *)
(* and lost the handlers that returned or wrote their saved registers.      *)
Commit(c, t, ret, lost, access) ==
  /\ cpu' = Tick(c)
  /\ cycles' = cycles + 1
  /\ frame' = [m \in {"M", "S"} |-> IF t.to = m THEN t
                                    ELSE IF m \in lost THEN NoTrap ELSE frame[m]]
  /\ last' = [trap |-> t, ret |-> ret, access |-> access, late |-> Tick(c).mip \ c.mip]

(* An instruction that changes the CPU to c and does not trap.              *)
Retire(c, npc, ret, lost, access) ==
  Commit(Retired(c, npc), RetireTrap(c, npc), ret, lost, access)

Trap(cause, badaddr, access) ==
  Commit(exception(cpu, cause, cpu.pc, badaddr), Trapped(cpu, cause, cpu.pc), "none", {}, access)

Next_pc == (cpu.pc + 1) % (N * N * N)
Plain(c, lost, access) == Retire(c, Next_pc, "none", lost, access)
Seen == Accessed("X", cpu.pc)

-----------------------------------------------------------------------------
(* execute(): the fetch may fault, end the simulator, or find no            *)
(* instruction, which ends it as well.                                      *)
FetchFails ==
  LET t == Translate("X", cpu.pc)
  IN  /\ Running
      /\ \/ /\ t.end = "fault"
            /\ Trap(MCAUSE_PAGE_FAULT_INST, cpu.pc, {})
            /\ UNCHANGED <<mem, status>>
         \/ t.end \in Ends /\ Halt(t.end)
         \/ t.end = "ok" /\ t.pa \notin Phys /\ Halt("exit")

(* Whatever computes in the registers, fences, wfi, and CSRs that the       *)
(* machine has but does not act on.  A bad instruction or CSR number ends   *)
(* the simulator, as the program's exit command to the simulation CSR does. *)
Compute == Fetched /\ Plain(cpu, {}, Seen) /\ UNCHANGED <<mem, status>>
Illegal == Fetched /\ Halt("exit")

Jump == \E to \in Code : Fetched /\ Retire(cpu, to, "none", {}, Seen) /\ UNCHANGED <<mem, status>>

(* load() and store(): a page fault returns at once.                        *)
Access(need, cause, va, m) ==
  LET t == Translate(need, va)
  IN  /\ Fetched
      /\ \/ t.end = "fault" /\ Trap(cause, va, Seen) /\ UNCHANGED <<mem, status>>
         \/ t.end \in Ends /\ Halt(t.end)
         \/ t.end = "ok" /\ t.pa \notin Phys /\ Halt("exit")
         \/ /\ t.end = "ok" /\ t.pa \in Phys
            /\ Plain(cpu, {}, Seen \cup Accessed(need, va))
            /\ mem' = [a \in Phys |-> IF a = t.pa THEN m ELSE mem[a]]
            /\ UNCHANGED status

Load  == \E va \in Data : Access("R", MCAUSE_PAGE_FAULT_LOAD, va, mem[Translate("R", va).pa])
Store == \E va \in Data, p \in Ptes : Access("W", MCAUSE_PAGE_FAULT_STORE, va, p)

Ecall  == Fetched /\ Trap(MCAUSE_ECALL_U + cpu.priv, 0, Seen) /\ UNCHANGED <<mem, status>>

(* The simulator stops after it, at the handler.                            *)
Ebreak == Fetched /\ Trap(MCAUSE_BREAKPOINT, 0, Seen) /\ status' = "break" /\ UNCHANGED mem

(* A mistake: the enable bit is not restored.                               *)
MretCpu_NoPop ==
  [cpu EXCEPT !.msr  = SR_PUT_MPP(@ \cup {SR_MPIE}, PRIV_USER), !.priv = SR_GET_MPP(cpu.msr)]

MretCpu ==
  [cpu EXCEPT !.msr  = SR_PUT_MPP(Put(@, SR_MIE, SR_MPIE \in @) \cup {SR_MPIE}, PRIV_USER),
              !.priv = SR_GET_MPP(cpu.msr)]

SretCpu ==
  [cpu EXCEPT !.msr  = (Put(@, SR_SIE, SR_SPIE \in @) \cup {SR_SPIE}) \ {SR_SPP},
              !.priv = IF SR_SPP \in cpu.msr THEN PRIV_SUPER ELSE PRIV_USER]

(* Each asserts its own level: sret does so in machine mode as well.        *)
Mret ==
  /\ Fetched
  /\ \/ /\ cpu.priv = PRIV_MACHINE
        /\ Retire(MretCpu, cpu.mepc, "M", {"M"}, Seen) /\ UNCHANGED <<mem, status>>
     \/ cpu.priv # PRIV_MACHINE /\ Halt("abort")

Sret ==
  /\ Fetched
  /\ \/ /\ cpu.priv = PRIV_SUPER
        /\ Retire(SretCpu, cpu.sepc, "S", {"S"}, Seen) /\ UNCHANGED <<mem, status>>
     \/ cpu.priv # PRIV_SUPER /\ Halt("abort")

-----------------------------------------------------------------------------
(* access_csr(): any level may write any CSR.  A write ("w") puts the       *)
(* masked data in the register; of a register with a narrower name it       *)
(* clears the bits that the name does not show.                             *)

CSR_STD(old, op) ==
  LET data == op.bits \cap CSR_MASK(op.csr)
  IN  CASE op.how = "w" -> data
        [] op.how = "s" -> old \cup data
        [] op.how = "c" -> old \ data

BitCsr(op) ==
  CASE op.csr \in {"mstatus", "sstatus"} -> [cpu EXCEPT !.msr = CSR_STD(@, op)]
    [] op.csr \in {"mip", "sip"}         -> [cpu EXCEPT !.mip = CSR_STD(@, op)]
    [] op.csr \in {"mie", "sie"}         -> [cpu EXCEPT !.mie = CSR_STD(@, op)]
    [] op.csr = "mideleg"                -> [cpu EXCEPT !.mideleg = CSR_STD(@, op)]
    [] op.csr = "medeleg"                -> [cpu EXCEPT !.medeleg = CSR_STD(@, op)]

(* The saved status that an instruction overwrites.                         *)
Overwrites(op) ==
  CASE op.csr = "mstatus"                    -> {"M", "S"}
    [] op.csr = "sstatus" /\ op.how = "w"    -> {"M", "S"}
    [] op.csr = "sstatus" /\ op.how # "w"    -> {"S"}
    [] OTHER                                 -> {}

CsrBits ==
  \E op \in BitOps : Fetched /\ Plain(BitCsr(op), Overwrites(op), Seen) /\ UNCHANGED <<mem, status>>

CsrEpc ==
  \E va \in Code :
    /\ Fetched
    /\ \/ Plain([cpu EXCEPT !.mepc = va], {"M"}, Seen)
       \/ Plain([cpu EXCEPT !.sepc = va], {"S"}, Seen)
    /\ UNCHANGED <<mem, status>>

CsrSatp ==
  \E r \in Roots \cup {Bare} :
    Fetched /\ Plain([cpu EXCEPT !.satp = r], {}, Seen) /\ UNCHANGED <<mem, status>>

(* The time CSR is the threshold when written, and takes the timer's        *)
(* interrupt back.                                                          *)
CsrTime ==
  \E d \in Deadlines :
    /\ Fetched
    /\ Plain([cpu EXCEPT !.mtimecmp = d, !.mip = @ \ {TimerIrq(cpu)}], {}, Seen)
    /\ UNCHANGED <<mem, status>>

(* The simulation CSR's printf(): the program's format string is looked up  *)
(* in the page tables at any level.                                         *)
SimPrintf ==
  \E va \in Data :
    /\ Fetched
    /\ \/ mmu_walk(va).end = "page" /\ Plain(cpu, {}, Seen) /\ UNCHANGED <<mem, status>>
       \/ mmu_walk(va).end # "page" /\ Halt(mmu_walk(va).end)

(* set_interrupt(), called between steps by whoever drives the simulator.   *)
SetInterrupt ==
  /\ Running
  /\ cpu' = [cpu EXCEPT !.mip = @ \cup {IRQ_M_EXT}]
  /\ last' = [last EXCEPT !.late = @ \cup ({IRQ_M_EXT} \ cpu.mip)]
  /\ UNCHANGED <<mem, status, cycles, frame>>

Next ==
  \/ FetchFails \/ Compute \/ Illegal \/ Jump \/ Load \/ Store \/ Ecall \/ Ebreak \/ Mret \/ Sret
  \/ CsrBits \/ CsrEpc \/ CsrSatp \/ CsrTime \/ SimPrintf \/ SetInterrupt

Spec == Init /\ [][Next]_vars
-----------------------------------------------------------------------------
(* Every register keeps within its width, whatever the program writes.      *)
TypeOK ==
  /\ cpu \in CpuType
  /\ mem \in [Phys -> Pte]
  /\ status \in {"run", "break", "exit", "abort", "undefined"}
  /\ cycles \in Nat
  /\ frame \in [{"M", "S"} -> [to : {"none", "M", "S"}, priv : 0 .. 3, ie : BOOLEAN, pc : VA]]
  /\ last.late \subseteq IRQ_MASK

(* A handler finds in the status register and in its xEPC what its trap     *)
(* interrupted, for as long as nobody writes them: a trap to the other      *)
(* level in between, and the return from it, leave them alone (exception(), *)
(* mret and sret share one status register).                                *)
Saved(c, m, f) ==
  CASE m = "M" -> /\ c.mepc = f.pc /\ SR_GET_MPP(c.msr) = f.priv
                  /\ (SR_MPIE \in c.msr) = f.ie
    [] m = "S" -> /\ c.sepc = f.pc /\ f.priv = (IF SR_SPP \in c.msr THEN PRIV_SUPER ELSE PRIV_USER)
                  /\ (SR_SPIE \in c.msr) = f.ie

TrapFrame == \A m \in {"M", "S"} : frame[m].to = m => Saved(cpu, m, frame[m])

(* A return goes back to where its trap came from, to the level it came     *)
(* from and with interrupts enabled as they were; or an interrupt is taken  *)
(* right there, and that is what its own handler will return to.            *)
Enable(m) == IF m = "M" THEN SR_MIE ELSE SR_SIE

TrapReturns ==
  [][\A m \in {"M", "S"} :
       (cycles' # cycles /\ last'.ret = m /\ frame[m].to = m) =>
         LET f == frame[m]
             t == last'.trap
         IN  IF t.to = "none"
             THEN cpu'.pc = f.pc /\ cpu'.priv = f.priv /\ (Enable(m) \in cpu'.msr) = f.ie
             ELSE t.pc = f.pc /\ t.priv = f.priv /\ (t.to = m => t.ie = f.ie)]_vars

(* No instruction leaves an interrupt waiting that is enabled at the level  *)
(* it belongs to, be it enabled by this very instruction (a CSR write or a  *)
(* return): it is taken at once, unless the instruction trapped.  Only one  *)
(* that was raised since, by the timer or from outside, waits for the next. *)
Owner(i) == IF i \in cpu.mideleg THEN PRIV_SUPER ELSE PRIV_MACHINE

Takeable ==
  {i \in cpu.mip \cap cpu.mie :
     \/ cpu.priv < Owner(i)
     \/ cpu.priv = Owner(i) /\ Enable(IF Owner(i) = PRIV_MACHINE THEN "M" ELSE "S") \in cpu.msr}

IrqPrompt == last.trap.to = "none" => Takeable \subseteq last.late

(* Below machine level an instruction is only fetched, and a word loaded or *)
(* stored, where the page tables, as they are at that moment, map its       *)
(* address, and with that permission.  The code reads a table behind the    *)
(* 32-bit addresses where its address is cut off to (README, section 5):    *)
(* what it makes of a walk through such a table is left open here.          *)
Grants(need, f) ==
  /\ {"V", need} \subseteq f
  /\ "W" \in f => "R" \in f
  /\ IF cpu.priv = PRIV_USER THEN "U" \in f ELSE "U" \in f => (need # "X" /\ SR_SUM \in cpu.msr)

Beyond(ppn) == ppn >= N * N

Mapped(need, va, pa) ==
  \/ cpu.satp = Bare /\ pa = va
  \/ cpu.satp # Bare /\ Beyond(cpu.satp)
  \/ cpu.satp # Bare /\ \E t \in Phys :
       /\ t = (cpu.satp * N) + (va \div (N * N))
       /\ "V" \in mem[t].flags
       /\ \/ /\ Grants(need, mem[t].flags)
             /\ pa \div (N * N) = mem[t].ppn \div N /\ pa % (N * N) = va % (N * N)
          \/ /\ mem[t].flags \cap {"R", "W", "X"} = {}
             /\ Beyond(mem[t].ppn) \/ \E l \in Phys :
                  /\ l = (mem[t].ppn * N) + ((va \div N) % N)
                  /\ Grants(need, mem[l].flags)
                  /\ pa \div N = mem[l].ppn /\ pa % N = va % N

AccessIsMapped ==
  [][cycles' # cycles => \A a \in last'.access : Mapped(a.need, a.va, a.pa)]_vars
=============================================================================
