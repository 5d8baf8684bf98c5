------------------------------ MODULE RiscvMem ------------------------------
(***************************************************************************)
(* The physical memory of the instruction set simulator: the regions that  *)
(* attach_memory() collects, in the order in which they were created, and  *)
(* SimpleMemory behind each, an array of words whose bytes are picked with *)
(* masks and shifts.  A byte has BYTE bits and a word, and an address, has *)
(* four times as many.                                                     *)
(***************************************************************************)
EXTENDS Integers, Sequences, FiniteSets

CONSTANTS
  BYTE,             (* bits of a byte (8)                                   *)
  MAX_MEM_REGIONS   (* regions there can be (16)                            *)

ASSUME MemAssumption == BYTE \in Nat \ {0} /\ MAX_MEM_REGIONS \in Nat

B    == 2 ^ BYTE
W    == B ^ 4
Word == 0 .. W - 1

VARIABLE m_mem   (* the regions: [base, size, words]                        *)

-----------------------------------------------------------------------------
(* SimpleMemory: the n bytes of word w from the k-th on, and their change.  *)
Lane(w, k, n)     == (w \div B ^ k) % (B ^ n)
Patch(w, k, n, d) == w + ((d % (B ^ n)) - Lane(w, k, n)) * (B ^ k)
SignBits(v, n)    == IF v >= (B ^ n) \div 2 THEN v + W - B ^ n ELSE v

(* An offset is asserted to be a multiple of the width.                     *)
Aligned(off, width) == off % width = 0

(* A mistake: the upper half word is the lower one.                         *)
SimpleLoad_Half(r, off, width, signed) ==
  LET v == Lane(r.words[off \div 4], IF width = 2 THEN 0 ELSE off % 4, width)
  IN  IF signed THEN SignBits(v, width) ELSE v

SimpleLoad(r, off, width, signed) ==
  LET v == Lane(r.words[off \div 4], off % 4, width)
  IN  IF signed THEN SignBits(v, width) ELSE v

SimpleStore(r, off, data, width) ==
  [r EXCEPT !.words[off \div 4] = Patch(@, off % 4, width, data)]

(* new and reset(): the array is a number of words, of which size bytes are *)
(* set to 0 and the rest is what the allocator left there.                  *)
NewRegions(base, size) ==
  {[base |-> base, size |-> size,
    words |-> [i \in 0 .. ((size + 3) \div 4) - 1 |->
                 IF i = size \div 4 THEN junk * B ^ (size % 4) ELSE 0]] :
     junk \in 0 .. (IF size % 4 = 0 THEN 0 ELSE (B ^ (4 - (size % 4))) - 1)}

-----------------------------------------------------------------------------
(* The region of an address: the first that has it.  The end of a region    *)
(* is computed in a word, so that one that reaches the top has nothing.     *)
Has(r, a) == r.base <= a /\ a < (r.base + r.size) % W

Holders(a)    == {j \in DOMAIN m_mem : Has(m_mem[j], a)}
valid_addr(a) == Holders(a) # {}
RegionOf(a)   == CHOOSE j \in Holders(a) : \A k \in Holders(a) : j <= k
Offset(a)     == a - m_mem[RegionOf(a)].base

(* What an access of the given width does with an address.                  *)
Answer(a, width) ==
  CASE ~valid_addr(a)                               -> "exit"
    [] valid_addr(a) /\ ~Aligned(Offset(a), width)  -> "abort"
    [] OTHER                                        -> "ok"

LoadAt(a, width, signed) == SimpleLoad(m_mem[RegionOf(a)], Offset(a), width, signed)

StoreAt(a, data, width) ==
  m_mem' = [m_mem EXCEPT ![RegionOf(a)] = SimpleStore(@, Offset(a), data, width)]

(* attach_memory() fails when there is no more room for a region.           *)
CanAttach == Len(m_mem) < MAX_MEM_REGIONS

create_memory(base, size) ==
  CanAttach /\ \E r \in NewRegions(base, size) : m_mem' = Append(m_mem, r)
=============================================================================
