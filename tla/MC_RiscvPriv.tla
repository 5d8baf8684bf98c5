---------------------------- MODULE MC_RiscvPriv ----------------------------
(* RiscvPriv with tables of two entries, so pages of two words and eight    *)
(* virtual addresses, and seven words of memory: the last page is half      *)
(* there.  Page 0 is the root table and page 1 the table below it.          *)
EXTENDS RiscvPriv

MCOr(a, b) == IF a > b THEN a ELSE b

P(flags, ppn) == [flags |-> {"V"} \cup flags, ppn |-> ppn]

Words(w0, w1, w2, w3, w4) ==
  [a \in Phys |-> CASE a = 0 -> w0 [] a = 1 -> w1 [] a = 2 -> w2 [] a = 3 -> w3 [] a = 4 -> w4
                    [] OTHER -> Nothing]

(* User code at 0 and supervisor data at 2, a large supervisor page at 4;   *)
(* supervisor code at 0, user data at 2 and nothing at 4; an entry on the   *)
(* last level that is no leaf at 0, a reserved one at 2, and at 4 a page    *)
(* beyond the addresses; a root entry whose table is cut off to page 1,     *)
(* with user code at 0 and at 2.                                            *)
MCTables ==
  {Words(P({}, 1), P({"R", "W", "X"}, 2), P({"R", "X", "U"}, 2), P({"R", "W"}, 1), Nothing),
   Words(P({}, 1), Nothing, P({"R", "W", "X"}, 2), P({"R", "W", "U"}, 3), Nothing),
   Words(P({}, 1), P({"R", "X"}, 8), P({}, 2), P({"W", "X"}, 2), P({"R", "X"}, 2)),
   Words(P({}, 5), P({"R", "W", "X"}, 2), P({"R", "X", "U"}, 2), P({"R", "X", "U"}, 1), Nothing)}

(* Boot code has set up the handlers, and is about to leave for the program *)
(* at 0 or has left for it.                                                 *)
Boot(priv, deleg, ex, bits, root) ==
  [pc |-> IF priv = PRIV_MACHINE THEN 5 ELSE 0, priv |-> priv, msr |-> {SR_MPIE, SR_SPIE} \cup bits,
   mip |-> {}, mie |-> {5, 7, 11}, mideleg |-> deleg, medeleg |-> ex,
   mevec |-> 6, sevec |-> 4, mepc |-> 0, sepc |-> 1, mcause |-> 0, scause |-> 0, stval |-> 0,
   satp |-> root, mtime |-> 0, mtimecmp |-> 2]

MCBoots ==
  {Boot(PRIV_USER, {5}, {8, 12, 13, 15}, {}, 0),
   Boot(PRIV_MACHINE, {5}, {8, 12, 13, 15}, {SR_MPP, SR_SUM}, 0),
   Boot(PRIV_SUPER, {}, {}, {SR_SIE}, 0),
   Boot(PRIV_SUPER, {5, 11}, {8}, {}, Bare)}

Op(csr, how, bits) == [csr |-> csr, how |-> how, bits |-> bits]

MCBitOps ==
  {Op("sstatus", "s", {SR_SIE}), Op("sstatus", "w", {SR_SPP, SR_SUM}),
   Op("mstatus", "s", {SR_MIE, SR_MPP}), Op("mstatus", "c", {SR_MPP}),
   Op("sip", "c", {5}), Op("sie", "w", {5, 6}), Op("mideleg", "c", {5})}

MCPtes == {P({"R", "W", "X", "U"}, 2)}
=============================================================================
