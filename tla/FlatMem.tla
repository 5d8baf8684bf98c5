------------------------------ MODULE FlatMem ------------------------------
(***************************************************************************)
(* What the memory of the simulated machine promises to its program: an    *)
(* array of bytes, some of which exist.  Every byte belongs to one region; *)
(* an access of one, two or four bytes is little endian, and happens to    *)
(* the bytes of the region that its address belongs to.  What it meets     *)
(* behind the region's last byte is not promised, but nobody else's bytes  *)
(* are changed by it.                                                      *)
(***************************************************************************)
EXTENDS Integers

CONSTANTS
  BYTE,        (* bits of a byte                                            *)
  MAX_REGIONS  (* regions there can be                                      *)

B    == 2 ^ BYTE
W    == B ^ 4          (* words, and addresses                              *)
Addr == 0 .. W - 1

VARIABLES
  owner,  (* the region of every address, 0 where there is none             *)
  bytes,  (* the bytes                                                      *)
  access  (* the last access: what, where, how wide, and what was loaded,   *)
          (* sign extended if so asked, or stored                           *)

fvars == <<owner, bytes, access>>

Accesses == [op : {"load", "store"}, a : Addr, n : {1, 2, 4}, signed : BOOLEAN, v : Addr]

Init ==
  /\ owner = [a \in Addr |-> 0]
  /\ bytes = [a \in Addr |-> 0]
  /\ access = [op |-> "none"]

(* A new region has the addresses that are free, if it ends below the top.  *)
(* (A bound variable of a singleton names a value, so that it is found once.)*)
Create ==
  /\ UNCHANGED access
  /\ \E o \in {owner}, o1 \in {owner'}, b \in {bytes}, b1 \in {bytes'} :
       /\ o1 # o
       /\ \E r \in 1 .. MAX_REGIONS, base, size \in Addr :
            LET new == {a \in Addr : o[a] = 0 /\ base <= a /\ a < base + size /\ base + size < W}
            IN  /\ \A a \in Addr : o[a] # r
                /\ o1 = [a \in Addr |-> IF a \in new THEN r ELSE o[a]]
                /\ b1 = [a \in Addr |-> IF a \in new THEN 0 ELSE b[a]]

(* The bytes that an access of n bytes at a is promised to transfer, when o *)
(* says whose they are.                                                     *)
Span(o, a, n) == {x \in Addr : a <= x /\ x < a + n /\ o[x] = o[a]}
Digit(v, k)   == (v \div B ^ k) % B

Store ==
  /\ access' \in Accesses /\ access'.op = "store"
  /\ \E q \in {access'}, o \in {owner}, b \in {bytes} :
       /\ o[q.a] # 0
       /\ bytes' = [x \in Addr |-> IF x \in Span(o, q.a, q.n) THEN Digit(q.v, x - q.a) ELSE b[x]]
       /\ owner' = o

Load ==
  /\ access' \in Accesses /\ access'.op = "load"
  /\ \E q \in {access'}, o \in {owner}, b \in {bytes} :
       /\ o[q.a] # 0
       /\ \E v \in 0 .. (B ^ q.n) - 1 :
            /\ q.v = IF q.signed /\ v >= (B ^ q.n) \div 2 THEN v + W - B ^ q.n ELSE v
            /\ \A x \in Span(o, q.a, q.n) : Digit(v, x - q.a) = b[x]
       /\ owner' = o /\ bytes' = b

Next == Create \/ Store \/ Load

Spec == Init /\ [][Next]_fvars
=============================================================================
