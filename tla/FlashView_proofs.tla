--------------------------- MODULE FlashView_proofs ---------------------------
(***************************************************************************)
(* What dump and map show is what the flash holds, for a flash of any size *)
(* and content, and any split of a dump into chunks and lines.             *)
(***************************************************************************)
EXTENDS FlashView, TLAPS, SequenceTheorems, WellFoundedInduction

-----------------------------------------------------------------------------
(* Numbers.                                                                 *)

(* a is q whole units of n and a rest.                                     *)
LEMMA Divide ==
  ASSUME NEW n \in Nat \ {0}, NEW a \in Int
  PROVE  /\ a \div n \in Int /\ a = n * (a \div n) + (a % n) /\ a % n \in 0 .. n - 1
         /\ a \in Nat => a \div n \in Nat
  OBVIOUS

(* Neighbouring multiples of n are n apart.                                *)
LEMMA Times ==
  ASSUME NEW n \in Nat \ {0}, NEW p \in Int, NEW q \in Int
  PROVE  /\ n * p \in Int /\ n * (p + 1) = n * p + n /\ n * (p - 1) = n * p - n
         /\ p < q => n * p + n <= n * q
  <1>1. n * p \in Int /\ n * (p + 1) = n * p + n /\ n * (p - 1) = n * p - n
     OBVIOUS
  <1>2. ASSUME p < q PROVE n * p + n <= n * q
     <2>1. n * (p + 1) <= n * q
        BY <1>2
     <2> QED BY <1>1, <2>1
  <1> QED BY <1>1, <1>2

(* A multiple leaves no rest.                                              *)
LEMMA Whole ==
  ASSUME NEW n \in Nat \ {0}, NEW q \in Int
  PROVE (n * q) % n = 0
  OBVIOUS

(* A number that leaves no rest is a multiple.                             *)
LEMMA Multiple ==
  ASSUME NEW n \in Nat \ {0}, NEW d \in Int, d % n = 0
  PROVE  \E q \in Int : d = n * q
<1>1. d \div n \in Int /\ d = n * (d \div n) + (d % n)
  BY Divide
<1>2. d = n * (d \div n)
  BY <1>1
<1> QED
  BY <1>1, <1>2

(* Of two multiples the larger is larger by n at least.                    *)
LEMMA Apart ==
  ASSUME NEW n \in Nat \ {0}, NEW d \in Int, NEW e \in Int, d % n = 0, e % n = 0, d < e
  PROVE  d + n <= e
<1>1. PICK p \in Int : d = n * p
  BY Multiple
<1>2. PICK q \in Int : e = n * q
  BY Multiple
<1>3. p < q
  <2>1. ASSUME q <= p PROVE FALSE
    <3>1. CASE q = p
      BY <3>1, <1>1, <1>2
    <3>2. CASE q < p
      BY <3>2, <1>1, <1>2, Times
    <3> QED BY <2>1, <3>1, <3>2
  <2> QED BY <2>1
<1> QED
  BY <1>1, <1>2, <1>3, Times

(* A set of numbers that is not empty has a smallest one.                   *)
LEMMA Smallest ==
  ASSUME NEW T \in SUBSET Nat, T # {}
  PROVE  \E i \in T : \A j \in T : i <= j
<1> DEFINE R == {ss \in Nat \X Nat : ss[1] < ss[2]}
<1>1. R = OpToRel(<, Nat)
  BY DEF OpToRel
<1>2. IsWellFoundedOn(R, Nat)
  BY <1>1, NatLessThanWellFounded
<1>3. PICK i \in T : \A j \in T : <<j, i>> \notin R
  BY <1>2, WFMin, Zenon
<1>4. ASSUME NEW j \in T PROVE i <= j
  <2>1. ~(j < i)
    BY <1>3
  <2> QED
    BY <2>1
<1> QED
  BY <1>4

(* What holds of 0, and of every number after one it holds of, holds of all *)
(* up to m.                                                                 *)
LEMMA Upward ==
  ASSUME NEW m \in Nat, NEW T, 0 \in T, \A n \in 1 .. m : n - 1 \in T => n \in T
  PROVE  0 .. m \subseteq T
<1> SUFFICES ASSUME {n \in 0 .. m : n \notin T} # {} PROVE FALSE
  OBVIOUS
<1> DEFINE Out == {n \in 0 .. m : n \notin T}
<1>1. Out \in SUBSET Nat
  OBVIOUS
<1>2. PICK i \in Out : \A j \in Out : i <= j
  BY <1>1, Smallest
<1>3. i # 0 /\ i \in 1 .. m
  OBVIOUS
<1>4. i - 1 \in 0 .. m /\ i - 1 \notin Out
  BY <1>2, <1>3
<1> QED
  BY <1>3, <1>4

(* Multiples of n do not matter to what is left.                            *)
LEMMA SameRest ==
  ASSUME NEW n \in Nat \ {0}, NEW q \in Int, NEW a \in Int
  PROVE  (n * q + a) % n = a % n
<1>1. PICK p \in Int, r \in 0 .. n - 1 : a = n * p + r /\ r = a % n
  BY Divide
<1>2. n * q + a = n * (q + p) + r
  BY <1>1
<1>3. (n * (q + p) + r) % n = r
  OBVIOUS
<1> QED
  BY <1>1, <1>2, <1>3

(* What is left of a sum; m is n, or a multiple of it.                      *)
LEMMA RestOfSum ==
  ASSUME NEW n \in Nat \ {0}, NEW m \in Nat \ {0}, m % n = 0, NEW a \in Int, NEW b \in Int
  PROVE  /\ ((a % m) + b) % n = (a + b) % n
         /\ ((a % n) + b) % n = (a + b) % n
<1>1. PICK q \in Int : m = n * q
  BY Multiple
<1>d. /\ a \div m \in Int /\ a = m * (a \div m) + (a % m) /\ a % m \in Int
      /\ a \div n \in Int /\ a = n * (a \div n) + (a % n) /\ a % n \in Int
  BY Divide
<1>2. PICK p \in Int : p = a \div m
  BY <1>d
<1>r. PICK r \in Int : r = a % m
  BY <1>d
<1>a. a = m * p + r
  BY <1>d, <1>2, <1>r
<1>3. a + b = n * (q * p) + (r + b) /\ q * p \in Int /\ r + b \in Int
  BY <1>1, <1>a
<1>4. (n * (q * p) + (r + b)) % n = (r + b) % n
  BY <1>3, SameRest
<1>5. PICK k \in Int : k = a \div n
  BY <1>d
<1>e. PICK e \in Int : e = a % n
  BY <1>d
<1>b. a = n * k + e
  BY <1>d, <1>5, <1>e
<1>6. a + b = n * k + (e + b) /\ e + b \in Int
  BY <1>b
<1>7. (n * k + (e + b)) % n = (e + b) % n
  BY <1>6, SameRest
<1> QED
  BY <1>3, <1>4, <1>6, <1>7, <1>r, <1>e

-----------------------------------------------------------------------------
(* Sequences of sequences put together, by f step by step.                  *)
Flattens(f, q, S) ==
  /\ f \in [1 .. Len(q) -> Seq(S)] /\ FlattenSeq(q) = f[Len(q)]
  /\ \A i \in 1 .. Len(q) : f[i] = IF i = 1 THEN q[i] ELSE f[i - 1] \o q[i]

LEMMA FlattenExists ==
  ASSUME NEW S, NEW q \in Seq(Seq(S)), q # <<>>
  PROVE  \E f : Flattens(f, q, S)
<1> DEFINE n == Len(q)
           Law(f, k) == \A i \in 1 .. k : f[i] = IF i = 1 THEN q[i] ELSE f[i - 1] \o q[i]
           T == {k \in 0 .. n : \E f \in [1 .. k -> Seq(S)] : Law(f, k)}
<1>0. n \in Nat /\ n >= 1 /\ \A i \in 1 .. n : q[i] \in Seq(S)
  OBVIOUS
<1> HIDE DEF n
<1>1. 0 \in T
  <2> DEFINE f == [i \in 1 .. 0 |-> q[1]]
  <2>1. f \in [1 .. 0 -> Seq(S)] /\ Law(f, 0)
    BY <1>0
  <2> HIDE DEF f, Law
  <2>2. \E g \in [1 .. 0 -> Seq(S)] : Law(g, 0)
    BY <2>1
  <2>3. 0 \in 0 .. n
    BY <1>0
  <2> QED
    BY <2>2, <2>3, Zenon
<1>2. ASSUME NEW k \in 1 .. n, k - 1 \in T PROVE k \in T
  <2>1. PICK f \in [1 .. k - 1 -> Seq(S)] : Law(f, k - 1)
    BY <1>2
  <2>2. k # 1 => f[k - 1] \in Seq(S)
    BY <1>2
  <2>q. q[k] \in Seq(S)
    BY <1>0, <1>2
  <2>a. \A p \in Seq(S), r \in Seq(S) : p \o r \in Seq(S)
    OBVIOUS
  <2>b. k # 1 => f[k - 1] \o q[k] \in Seq(S)
    BY <2>2, <2>q, <2>a, Zenon
  <2>3. PICK new \in Seq(S) : new = IF k = 1 THEN q[k] ELSE f[k - 1] \o q[k]
    BY <2>b, <2>q
  <2> DEFINE g == [i \in 1 .. k |-> IF i = k THEN new ELSE f[i]]
  <2>4. g \in [1 .. k -> Seq(S)]
    BY <1>2
  <2>5. ASSUME NEW i \in 1 .. k PROVE g[i] = IF i = 1 THEN q[i] ELSE g[i - 1] \o q[i]
    <3>1. CASE i = k
      <4>0. k \in 1 .. k /\ (k # 1 => k - 1 \in 1 .. k) /\ k - 1 # k
        BY <1>2
      <4>1. g[i] = new /\ (k # 1 => g[i - 1] = f[k - 1])
        BY <3>1, <4>0
      <4> HIDE DEF g
      <4> QED
        BY <2>3, <3>1, <4>1
    <3>2. CASE i # k
      <4>1. i \in 1 .. k - 1 /\ g[i] = f[i] /\ (i # 1 => g[i - 1] = f[i - 1])
        BY <3>2, <1>2
      <4> HIDE DEF g
      <4> QED
        BY <2>1, <4>1
    <3> QED
      BY <3>1, <3>2
  <2>6. Law(g, k)
    BY <2>5
  <2> HIDE DEF g, Law
  <2> QED
    BY <1>0, <1>2, <2>4, <2>6
<1>3. n \in T
  <2> HIDE DEF T
  <2>1. 0 .. n \subseteq T
    BY <1>0, <1>1, <1>2, Upward
  <2> QED
    BY <1>0, <2>1
<1> DEFINE Rule(f) == f = [i \in 1 .. n |-> IF i = 1 THEN q[i] ELSE f[i - 1] \o q[i]]
           flat == CHOOSE f : Rule(f)
<1>4. PICK f \in [1 .. n -> Seq(S)] : Law(f, n)
  BY <1>3
<1>5. Rule(f)
  <2>1. f = [i \in 1 .. n |-> f[i]]
    OBVIOUS
  <2> QED
    BY <1>4, <2>1
<1>6. Rule(flat)
  <2> HIDE DEF Rule
  <2> QED
    BY <1>5
<1> DEFINE U == {k \in 0 .. n : k # 0 => flat[k] = f[k]}
<1>7. FlattenSeq(q) = flat[n]
  BY <1>0 DEF FlattenSeq, n
<1> HIDE DEF flat
<1>8. ASSUME NEW k \in 1 .. n, k - 1 \in U PROVE k \in U
  <2>1. flat[k] = IF k = 1 THEN q[k] ELSE flat[k - 1] \o q[k]
    BY <1>6
  <2>2. f[k] = IF k = 1 THEN q[k] ELSE f[k - 1] \o q[k]
    BY <1>4
  <2>3. k # 1 => flat[k - 1] = f[k - 1]
    BY <1>8
  <2>4. flat[k] = f[k]
    BY <2>1, <2>2, <2>3, Zenon
  <2> QED
    BY <2>4
<1>9. flat[n] = f[n]
  <2>1. 0 \in U
    BY <1>0
  <2> HIDE DEF U
  <2>2. 0 .. n \subseteq U
    BY <1>0, <1>8, <2>1, Upward
  <2> QED
    BY <1>0, <2>2 DEF U
<1>10. Flattens(f, q, S)
  BY <1>4, <1>7, <1>9 DEF Flattens, n
<1> QED
  BY <1>10

(* The next one is put behind the others.                                   *)
LEMMA FlattenAppend ==
  ASSUME NEW S, NEW q \in Seq(Seq(S)), NEW x \in Seq(S)
  PROVE  FlattenSeq(q) \in Seq(S) /\ FlattenSeq(Append(q, x)) = FlattenSeq(q) \o x
<1>0. PICK T : T = Seq(S)
  OBVIOUS
<1>1. Append(q, x) \in Seq(T) /\ Append(q, x) # <<>> /\ Len(q) \in Nat
  BY <1>0
<1>2. PICK g : Flattens(g, Append(q, x), S)
  BY <1>0, <1>1, FlattenExists
<1>3. CASE q = <<>>
  <2>1. FlattenSeq(q) = <<>>
    BY <1>3 DEF FlattenSeq
  <2>2. Len(Append(q, x)) = 1 /\ Append(q, x)[1] = x
    BY <1>3
  <2>3. FlattenSeq(Append(q, x)) = x
    BY <1>2, <2>2 DEF Flattens
  <2>4. <<>> \o x = x /\ <<>> \in Seq(S)
    OBVIOUS
  <2> QED
    BY <2>1, <2>3, <2>4
<1>4. CASE q # <<>>
  <2>1. PICK f : Flattens(f, q, S)
    BY <1>4, FlattenExists
  <2>n. PICK n \in Nat : n = Len(q) /\ n >= 1
    BY <1>4
  <2>q. PICK r : r = Append(q, x)
    OBVIOUS
  <2>2. Len(r) = n + 1 /\ r[n + 1] = x /\ \A i \in 1 .. n : r[i] = q[i]
    BY <1>1, <2>n, <2>q
  <2>3. \A i \in 1 .. n + 1 : g[i] = IF i = 1 THEN r[i] ELSE g[i - 1] \o r[i]
    BY <1>2, <2>2, <2>q DEF Flattens
  <2>4. \A i \in 1 .. n : f[i] = IF i = 1 THEN q[i] ELSE f[i - 1] \o q[i]
    BY <2>1, <2>n DEF Flattens
  <2> DEFINE U == {k \in 0 .. n : k # 0 => g[k] = f[k]}
  <2>5. ASSUME NEW k \in 1 .. n, k - 1 \in U PROVE k \in U
    <3>1. g[k] = IF k = 1 THEN r[k] ELSE g[k - 1] \o r[k]
      BY <2>3
    <3>2. f[k] = IF k = 1 THEN q[k] ELSE f[k - 1] \o q[k]
      BY <2>4
    <3>3. (k # 1 => g[k - 1] = f[k - 1]) /\ r[k] = q[k]
      BY <2>2, <2>5
    <3> QED
      BY <3>1, <3>2, <3>3
  <2>6. g[n] = f[n]
    <3>1. 0 \in U
      OBVIOUS
    <3>2. 0 .. n \subseteq U
      <4> HIDE DEF U
      <4> QED
        BY <2>5, <3>1, Upward
    <3>3. n \in U
      BY <2>n, <3>2
    <3> QED
      BY <2>n, <3>3
  <2>7. g[n + 1] = g[n] \o r[n + 1]
    <3>1. n + 1 \in 1 .. n + 1 /\ n + 1 # 1 /\ n + 1 - 1 = n
      BY <2>n
    <3>2. PICK m \in 1 .. n + 1 : m = n + 1
      BY <3>1
    <3>3. g[m] = IF m = 1 THEN r[m] ELSE g[m - 1] \o r[m]
      BY <2>3
    <3>4. m # 1 /\ m - 1 = n
      BY <3>1, <3>2
    <3> QED
      BY <3>2, <3>3, <3>4, Zenon
  <2>8. FlattenSeq(q) = f[n] /\ FlattenSeq(r) = g[n + 1]
    BY <1>2, <2>1, <2>2, <2>n, <2>q DEF Flattens
  <2>9. f[n] \in Seq(S)
    BY <2>1, <2>n, SMTT(30) DEF Flattens
  <2> QED
    BY <2>2, <2>6, <2>7, <2>8, <2>9, <2>q
<1> QED
  BY <1>3, <1>4

-----------------------------------------------------------------------------
(* The text of a dump's lines.                                              *)
LineSet == [adr : Nat, bytes : Seq(Bytes)]

Text(o) == FlattenSeq([i \in 1 .. Len(o) |-> o[i].bytes])

LEMMA TextAppend ==
  ASSUME NEW o \in Seq(LineSet), NEW l \in LineSet
  PROVE  Text(o) \in Seq(Bytes) /\ Text(Append(o, l)) = Text(o) \o l.bytes
<1> DEFINE q == [i \in 1 .. Len(o) |-> o[i].bytes]
           r == [i \in 1 .. Len(Append(o, l)) |-> Append(o, l)[i].bytes]
<1>0. PICK T : T = Seq(Bytes)
  OBVIOUS
<1>1. PICK n \in Nat : n = Len(o)
  OBVIOUS
<1>2. l.bytes \in T /\ \A i \in 1 .. n : o[i].bytes \in T
  <2>1. \A z \in LineSet : z.bytes \in Seq(Bytes)
    BY DEF LineSet
  <2>2. \A i \in 1 .. n : o[i] \in LineSet
    BY <1>1
  <2> QED
    BY <1>0, <2>1, <2>2
<1>3. q \in Seq(T) /\ Len(q) = n
  BY <1>1, <1>2
<1>4. r = Append(q, l.bytes)
  <2>1. Len(Append(o, l)) = n + 1 /\ Append(o, l)[n + 1] = l /\ \A i \in 1 .. n : Append(o, l)[i] = o[i]
    BY <1>1
  <2>2. r = [i \in 1 .. n + 1 |-> IF i = n + 1 THEN l.bytes ELSE o[i].bytes]
    BY <2>1
  <2>3. Append(q, l.bytes) \in Seq(T) /\ Len(Append(q, l.bytes)) = n + 1
    BY <1>2, <1>3
  <2>4. Append(q, l.bytes) = [i \in 1 .. n + 1 |-> Append(q, l.bytes)[i]]
    BY <2>3
  <2>5. \A i \in 1 .. n + 1 : Append(q, l.bytes)[i] = IF i = n + 1 THEN l.bytes ELSE o[i].bytes
    BY <1>1, <1>3
  <2> HIDE DEF q, r
  <2> QED
    BY <2>2, <2>4, <2>5
<1> HIDE DEF q, r
<1>5. FlattenSeq(q) \in Seq(Bytes) /\ FlattenSeq(Append(q, l.bytes)) = FlattenSeq(q) \o l.bytes
  BY <1>0, <1>2, <1>3, FlattenAppend
<1>6. Text(o) = FlattenSeq(q) /\ Text(Append(o, l)) = FlattenSeq(r)
  BY DEF Text, q, r
<1> QED
  BY <1>4, <1>5, <1>6

(* A byte behind the others, on the last line or on a new one.              *)
Longer(o, b)   == Append(Front(o), [adr |-> Last(o).adr, bytes |-> Append(Last(o).bytes, b)])
Begun(o, a, b) == Append(o, [adr |-> a, bytes |-> <<b>>])

GoesOn(o, b, t) ==
  /\ t \in Seq(LineSet) /\ Len(t) = Len(o)
  /\ \A i \in 1 .. Len(o) - 1 : t[i] = o[i]
  /\ t[Len(o)].adr = o[Len(o)].adr /\ Len(t[Len(o)].bytes) = Len(o[Len(o)].bytes) + 1
  /\ Text(t) = Append(Text(o), b)

Begins(o, a, b, t) ==
  /\ t \in Seq(LineSet) /\ Len(t) = Len(o) + 1
  /\ \A i \in 1 .. Len(o) : t[i] = o[i]
  /\ t[Len(o) + 1].adr = a /\ Len(t[Len(o) + 1].bytes) = 1
  /\ Text(t) = Append(Text(o), b)

LEMMA SameLine ==
  ASSUME NEW o \in Seq(LineSet), o # <<>>, NEW b \in Bytes
  PROVE  GoesOn(o, b, Longer(o, b))
<1>t. PICK t : t = Longer(o, b)
  OBVIOUS
<1>1. PICK n \in Nat \ {0} : n = Len(o)
  OBVIOUS
<1>a. PICK f : f = Front(o)
  OBVIOUS
<1>2. f \in Seq(LineSet) /\ Len(f) = n - 1 /\ \A i \in 1 .. n - 1 : f[i] = o[i]
  BY <1>1, <1>a DEF Front
<1>b. PICK z : z = Last(o)
  OBVIOUS
<1>3. z \in LineSet /\ z = o[n]
  BY <1>1, <1>b DEF Last
<1>4. z.bytes \in Seq(Bytes) /\ z.adr \in Nat /\ z = [adr |-> z.adr, bytes |-> z.bytes]
  BY <1>3 DEF LineSet
<1>c. PICK w : w = Append(z.bytes, b)
  OBVIOUS
<1>5. w \in Seq(Bytes) /\ Len(w) = Len(z.bytes) + 1
  BY <1>4, <1>c
<1>d. PICK l : l = [adr |-> z.adr, bytes |-> w]
  OBVIOUS
<1>6. l \in LineSet /\ l.adr = z.adr /\ l.bytes = w
  BY <1>4, <1>5, <1>d DEF LineSet
<1>f. t = Append(f, l)
  BY <1>a, <1>b, <1>c, <1>d, <1>t DEF Longer
<1>7. t \in Seq(LineSet)
  BY <1>2, <1>6, <1>f
<1>8. Len(t) = n /\ t[n] = l /\ \A i \in 1 .. n - 1 : t[i] = o[i]
  BY <1>1, <1>2, <1>6, <1>f
<1>9. Text(t) = Append(Text(o), b)
  <2>1. o = Append(f, z)
    <3>0. PICK y : y = Append(f, z)
      OBVIOUS
    <3>1. Len(y) = n /\ y[n] = z /\ \A i \in 1 .. n - 1 : y[i] = o[i]
      BY <1>1, <1>2, <1>3, <3>0
    <3>2. y \in Seq(LineSet)
      BY <1>2, <1>3, <3>0
    <3>3. \A i \in 1 .. n : y[i] = o[i]
      BY <1>3, <3>1
    <3>4. o = [i \in 1 .. n |-> o[i]]
      BY <1>1
    <3>5. y = [i \in 1 .. n |-> y[i]]
      BY <3>1, <3>2
    <3> QED
      BY <3>0, <3>3, <3>4, <3>5
  <2>2. Text(f) \in Seq(Bytes) /\ Text(Append(f, z)) = Text(f) \o z.bytes /\ Text(Append(f, l)) = Text(f) \o l.bytes
    BY <1>2, <1>3, <1>6, TextAppend
  <2>3. \A p \in Seq(Bytes), s \in Seq(Bytes) : p \o Append(s, b) = Append(p \o s, b)
    OBVIOUS
  <2>4. Text(f) \o Append(z.bytes, b) = Append(Text(f) \o z.bytes, b)
    BY <2>2, <2>3, <1>4
  <2> QED
    BY <2>1, <2>2, <2>4, <1>c, <1>6, <1>f
<1> QED
  BY <1>1, <1>3, <1>5, <1>6, <1>7, <1>8, <1>9, <1>t DEF GoesOn

LEMMA NewLine ==
  ASSUME NEW o \in Seq(LineSet), NEW b \in Bytes, NEW a \in Nat
  PROVE  Begins(o, a, b, Begun(o, a, b))
<1>t. PICK t : t = Begun(o, a, b)
  OBVIOUS
<1>a. PICK l : l = [adr |-> a, bytes |-> <<b>>]
  OBVIOUS
<1>1. l \in LineSet /\ l.adr = a /\ l.bytes = <<b>>
  BY <1>a DEF LineSet
<1>b. t = Append(o, l)
  BY <1>a, <1>t DEF Begun
<1>2. t \in Seq(LineSet)
  BY <1>1, <1>b
<1>3. Len(t) = Len(o) + 1 /\ t[Len(o) + 1] = l /\ \A i \in 1 .. Len(o) : t[i] = o[i]
  BY <1>1, <1>b
<1>4. Text(o) \in Seq(Bytes) /\ Text(t) = Text(o) \o <<b>>
  BY <1>1, <1>b, TextAppend
<1>5. \A p \in Seq(Bytes) : p \o <<b>> = Append(p, b)
  OBVIOUS
<1>6. Text(t) = Append(Text(o), b)
  BY <1>4, <1>5
<1>7. t[Len(o) + 1].adr = a /\ t[Len(o) + 1].bytes = <<b>> /\ Len(<<b>>) = 1
  BY <1>1, <1>3
<1> QED
  BY <1>2, <1>3, <1>6, <1>7, <1>t DEF Begins

-----------------------------------------------------------------------------
(* The constants.                                                           *)
LEMMA Sizes ==
  /\ FlashSize \in Nat \ {0} /\ EraseSize \in Nat \ {0} /\ PageSize \in Nat \ {0} /\ FlashSize % EraseSize = 0
  /\ Word \in Nat \ {0} /\ TEMP \in Nat \ {0} /\ LINE \in Nat \ {0} /\ MaxLines \in Nat \ {0}
  /\ Word % FlashSize = 0 /\ MaxLines * LINE + TEMP <= Word
  BY ChipAssumption, ViewAssumption

(* The byte n of a dump.                                                    *)
Place(n) == (from + n) % FlashSize
Held(n)  == flash[Place(n)]

(* The lines o show the first n bytes of a dump, the last of them has c     *)
(* bytes if it is not full.                                                 *)
Rows(o, c, n) ==
  /\ o \in Seq(LineSet) /\ c \in 0 .. LINE - 1 /\ n \in Nat
  /\ c = 0 => n = LINE * Len(o)
  /\ c # 0 => o # <<>> /\ n = LINE * (Len(o) - 1) + c
  /\ \A i \in 1 .. Len(o) :
       /\ o[i].adr = (from + LINE * (i - 1)) % Word
       /\ Len(o[i].bytes) = IF c # 0 /\ i = Len(o) THEN c ELSE LINE
  /\ Text(o) \in Seq(Bytes) /\ Len(Text(o)) = n
  /\ \A k \in 1 .. n : Text(o)[k] = Held(k - 1)

LEMMA NextColumn ==
  ASSUME NEW c \in 0 .. LINE - 1
  PROVE  (c + 1) % LINE = IF c + 1 = LINE THEN 0 ELSE c + 1
<1>1. LINE \in Nat \ {0}
  BY Sizes
<1>2. CASE c + 1 = LINE
  BY <1>1, <1>2
<1>3. CASE c + 1 # LINE
  BY <1>1, <1>3
<1> QED
  BY <1>2, <1>3

LEMMA TextNext ==
  ASSUME NEW x \in Seq(Bytes), NEW b \in Bytes, NEW n \in Nat, Len(x) = n, \A k \in 1 .. n : x[k] = Held(k - 1),
         b = Held(n)
  PROVE  /\ Append(x, b) \in Seq(Bytes) /\ Len(Append(x, b)) = n + 1
         /\ \A k \in 1 .. n + 1 : Append(x, b)[k] = Held(k - 1)
<1>1. PICK y : y = Append(x, b)
  OBVIOUS
<1>2. y \in Seq(Bytes) /\ Len(y) = n + 1 /\ y[n + 1] = b /\ \A k \in 1 .. n : y[k] = x[k]
  BY <1>1
<1>3. ASSUME NEW k \in 1 .. n + 1 PROVE y[k] = Held(k - 1)
  <2>1. CASE k = n + 1
    <3>1. k - 1 = n
      BY <2>1
    <3> QED
      BY <1>2, <2>1, <3>1
  <2>2. CASE k # n + 1
    <3>1. k \in 1 .. n
      BY <2>2
    <3> QED
      BY <1>2, <3>1
  <2> QED
    BY <2>1, <2>2
<1> QED
  BY <1>1, <1>2, <1>3

(* One byte more.                                                           *)
LEMMA RowsNext ==
  ASSUME from \in Nat, NEW s, NEW n, Rows(s.out, s.col, n), NEW a \in Nat, a % Word = (from + n) % Word,
         NEW b \in Bytes, b = Held(n)
  PROVE  Rows(ShowByte(s, a, b).out, ShowByte(s, a, b).col, n + 1)
<1>1. PICK o \in Seq(LineSet) : o = s.out
  BY DEF Rows
<1>2. PICK c \in 0 .. LINE - 1 : c = s.col
  BY DEF Rows
<1>3. Rows(o, c, n)
  BY <1>1, <1>2
<1>k. LINE \in Nat \ {0} /\ Word \in Nat \ {0} /\ n \in Nat
  BY <1>3, Sizes DEF Rows
<1>x. PICK x \in Seq(Bytes) : x = Text(o) /\ Len(x) = n /\ \A k \in 1 .. n : x[k] = Held(k - 1)
  BY <1>3 DEF Rows
<1>y. /\ Append(x, b) \in Seq(Bytes) /\ Len(Append(x, b)) = n + 1
      /\ \A k \in 1 .. n + 1 : Append(x, b)[k] = Held(k - 1)
  BY <1>k, <1>x, TextNext
<1>d. PICK d \in 0 .. LINE - 1 : d = (c + 1) % LINE /\ d = IF c + 1 = LINE THEN 0 ELSE c + 1
  <2>1. (c + 1) % LINE = IF c + 1 = LINE THEN 0 ELSE c + 1
    BY NextColumn
  <2> QED
    BY <1>k, <2>1
<1>m. PICK m \in Nat : m = Len(o)
  BY <1>1
<1>r. \A i \in 1 .. m :
        /\ o[i].adr = (from + LINE * (i - 1)) % Word
        /\ Len(o[i].bytes) = IF c # 0 /\ i = m THEN c ELSE LINE
  BY <1>3, <1>m DEF Rows
<1>4. CASE c = 0
  <2>0. n = LINE * m
    BY <1>3, <1>4, <1>m DEF Rows
  <2>1. PICK e \in Nat : e = a % Word
    BY <1>k
  <2>2. PICK t : t = Begun(o, e, b)
    OBVIOUS
  <2>3. /\ t \in Seq(LineSet) /\ Len(t) = m + 1
        /\ \A i \in 1 .. m : t[i] = o[i]
        /\ t[m + 1].adr = e /\ Len(t[m + 1].bytes) = 1
        /\ Text(t) = Append(x, b)
    <3>1. Begins(o, e, b, t)
      BY <2>2, NewLine
    <3> QED
      BY <1>m, <1>x, <3>1 DEF Begins
  <2>4. ShowByte(s, a, b).out = t /\ ShowByte(s, a, b).col = d
    BY <1>1, <1>2, <1>4, <1>d, <2>1, <2>2 DEF ShowByte, Begun
  <2>5. LINE * (m + 1) = LINE * m + LINE /\ m + 1 - 1 = m
    BY <1>k
  <2>6. (d = 0 => n + 1 = LINE * (m + 1)) /\ (d # 0 => n + 1 = LINE * (m + 1 - 1) + d /\ d = 1)
    BY <1>4, <1>d, <1>k, <2>0, <2>5
  <2>7. ASSUME NEW i \in 1 .. m + 1
        PROVE  /\ t[i].adr = (from + LINE * (i - 1)) % Word
               /\ Len(t[i].bytes) = IF d # 0 /\ i = m + 1 THEN d ELSE LINE
    <3>1. CASE i = m + 1
      <4>1. i - 1 = m
        BY <3>1
      <4>2. d = 0 => LINE = 1
        BY <1>4, <1>d, <1>k
      <4> QED
        BY <2>0, <2>1, <2>3, <2>6, <3>1, <4>1, <4>2
    <3>2. CASE i # m + 1
      <4>1. i \in 1 .. m
        BY <3>2
      <4> QED
        BY <1>4, <1>r, <2>3, <3>2, <4>1
    <3> QED
      BY <3>1, <3>2
  <2>8. Rows(t, d, n + 1)
    <3>1. n + 1 \in Nat /\ t # <<>> /\ d \in 0 .. LINE - 1
      BY <1>k, <1>m, <1>d, <2>3
    <3>2. /\ d = 0 => n + 1 = LINE * Len(t)
          /\ d # 0 => t # <<>> /\ n + 1 = LINE * (Len(t) - 1) + d
      BY <2>3, <2>6, <3>1
    <3>3. \A i \in 1 .. Len(t) : /\ t[i].adr = (from + LINE * (i - 1)) % Word
                                /\ Len(t[i].bytes) = IF d # 0 /\ i = Len(t) THEN d ELSE LINE
      BY <2>3, <2>7
    <3>4. Text(t) \in Seq(Bytes) /\ Len(Text(t)) = n + 1 /\ \A k \in 1 .. n + 1 : Text(t)[k] = Held(k - 1)
      BY <1>y, <2>3
    <3> QED
      BY <2>3, <3>1, <3>2, <3>3, <3>4 DEF Rows
  <2> QED
    BY <2>4, <2>8
<1>5. CASE c # 0
  <2>0. n = LINE * (m - 1) + c /\ o # <<>> /\ m >= 1
    BY <1>3, <1>5, <1>m DEF Rows
  <2>1. PICK t : t = Longer(o, b)
    OBVIOUS
  <2>3. /\ t \in Seq(LineSet) /\ Len(t) = m
        /\ \A i \in 1 .. m - 1 : t[i] = o[i]
        /\ t[m].adr = o[m].adr /\ Len(t[m].bytes) = Len(o[m].bytes) + 1
        /\ Text(t) = Append(x, b)
    <3>1. GoesOn(o, b, t)
      BY <2>0, <2>1, SameLine
    <3> QED
      BY <1>m, <1>x, <3>1 DEF GoesOn
  <2>4. ShowByte(s, a, b).out = t /\ ShowByte(s, a, b).col = d
    BY <1>1, <1>2, <1>5, <1>d, <2>1 DEF ShowByte, Longer
  <2>5. LINE * m = LINE * (m - 1) + LINE
    BY <1>k
  <2>6. (d = 0 => n + 1 = LINE * m /\ c + 1 = LINE) /\ (d # 0 => n + 1 = LINE * (m - 1) + d /\ d = c + 1)
    BY <1>d, <1>k, <2>0, <2>5
  <2>7. ASSUME NEW i \in 1 .. m
        PROVE  /\ t[i].adr = (from + LINE * (i - 1)) % Word
               /\ Len(t[i].bytes) = IF d # 0 /\ i = m THEN d ELSE LINE
    <3>1. CASE i = m
      <4>1. o[m].adr = (from + LINE * (m - 1)) % Word /\ Len(o[m].bytes) = c
        BY <1>5, <1>r, <2>0
      <4> QED
        BY <2>3, <2>6, <3>1, <4>1
    <3>2. CASE i # m
      <4>1. i \in 1 .. m - 1
        BY <3>2
      <4> QED
        BY <1>r, <2>3, <3>2, <4>1
    <3> QED
      BY <3>1, <3>2
  <2>8. Rows(t, d, n + 1)
    <3>1. n + 1 \in Nat /\ t # <<>>
      BY <1>k, <2>0, <2>3
    <3> QED
      BY <1>y, <2>3, <2>6, <2>7, <3>1 DEF Rows
  <2> QED
    BY <2>4, <2>8
<1> QED
  BY <1>4, <1>5

-----------------------------------------------------------------------------
(* A chunk, byte by byte.                                                   *)
Start == [col |-> BytesOnLine, out |-> out]

Took(f, data, base, n) ==
  /\ f = [i \in 0 .. n |-> f[i]] /\ f[0] = Start
  /\ \A i \in 1 .. n : f[i] = ShowByte(f[i - 1], base + i - 1, data[i - 1])

Taken(f, data, base, n) ==
  f = [i \in 0 .. n |-> IF i = 0 THEN Start ELSE ShowByte(f[i - 1], base + i - 1, data[i - 1])]

LEMMA TookExists ==
  ASSUME NEW data, NEW base \in Nat, NEW n \in Nat
  PROVE  \E f : Took(f, data, base, n)
<1> DEFINE T == {k \in 0 .. n : \E f : Took(f, data, base, k)}
<1>1. 0 \in T
  <2> DEFINE f == [i \in 0 .. 0 |-> Start]
  <2>1. Took(f, data, base, 0)
    BY DEF Took
  <2> HIDE DEF f
  <2> QED
    BY <2>1
<1>2. ASSUME NEW k \in 1 .. n, k - 1 \in T PROVE k \in T
  <2>1. PICK f : Took(f, data, base, k - 1)
    BY <1>2
  <2>2. PICK new : new = ShowByte(f[k - 1], base + k - 1, data[k - 1])
    OBVIOUS
  <2> DEFINE g == [i \in 0 .. k |-> IF i = k THEN new ELSE f[i]]
  <2>3. k \in Nat \ {0} /\ g[k] = new /\ \A i \in 0 .. k - 1 : g[i] = f[i]
    BY <1>2
  <2>4. g = [i \in 0 .. k |-> g[i]]
    OBVIOUS
  <2> HIDE DEF g
  <2>5. f[0] = Start /\ \A i \in 1 .. k - 1 : f[i] = ShowByte(f[i - 1], base + i - 1, data[i - 1])
    BY <2>1 DEF Took
  <2>6. g[0] = Start
    BY <2>3, <2>5
  <2>7. ASSUME NEW i \in 1 .. k PROVE g[i] = ShowByte(g[i - 1], base + i - 1, data[i - 1])
    <3>1. CASE i = k
      <4>1. g[k - 1] = f[k - 1]
        BY <2>3
      <4> QED
        BY <2>2, <2>3, <3>1, <4>1
    <3>2. CASE i # k
      <4>1. i \in 1 .. k - 1 /\ i \in 0 .. k - 1 /\ i - 1 \in 0 .. k - 1
        BY <2>3, <3>2
      <4>2. g[i] = f[i] /\ g[i - 1] = f[i - 1]
        BY <2>3, <4>1
      <4> QED
        BY <2>5, <4>1, <4>2
    <3> QED
      BY <3>1, <3>2
  <2>8. Took(g, data, base, k)
    BY <2>4, <2>6, <2>7 DEF Took
  <2>9. k \in 0 .. n
    BY <1>2
  <2> QED
    BY <2>8, <2>9
<1> HIDE DEF T
<1>3. n \in T
  <2>1. 0 .. n \subseteq T
    BY <1>1, <1>2, Upward
  <2> QED
    BY <2>1
<1> QED
  BY <1>3 DEF T

LEMMA NetDumpHexTook ==
  ASSUME NEW data, NEW base \in Nat, NEW n \in Nat
  PROVE  \E f : Took(f, data, base, n) /\ NetDumpHex(data, n, base) = f[n]
<1>1. PICK g : Took(g, data, base, n)
  BY TookExists
<1>2. Taken(g, data, base, n)
  <2>a. g[0] = Start /\ \A i \in 1 .. n : g[i] = ShowByte(g[i - 1], base + i - 1, data[i - 1])
    BY <1>1 DEF Took
  <2>1. g = [i \in 0 .. n |-> g[i]]
    BY <1>1 DEF Took
  <2>2. ASSUME NEW i \in 0 .. n
        PROVE  g[i] = IF i = 0 THEN Start ELSE ShowByte(g[i - 1], base + i - 1, data[i - 1])
    <3>1. CASE i = 0
      BY <2>a, <3>1
    <3>2. CASE i # 0
      <4>1. i \in 1 .. n
        BY <3>2
      <4> QED
        BY <2>a, <3>2, <4>1
    <3> QED
      BY <3>1, <3>2
  <2>3. [i \in 0 .. n |-> g[i]]
          = [i \in 0 .. n |-> IF i = 0 THEN Start ELSE ShowByte(g[i - 1], base + i - 1, data[i - 1])]
    BY <2>2
  <2> QED
    BY <2>1, <2>3 DEF Taken
<1> DEFINE f == CHOOSE h : Taken(h, data, base, n)
<1>3. Taken(f, data, base, n)
  BY <1>2
<1>4. NetDumpHex(data, n, base) = f[n]
  BY DEF NetDumpHex, Taken, Start
<1> HIDE DEF f
<1>5. Took(f, data, base, n)
  <2>1. f = [i \in 0 .. n |-> IF i = 0 THEN Start ELSE ShowByte(f[i - 1], base + i - 1, data[i - 1])]
    BY <1>3 DEF Taken
  <2> DEFINE r == [i \in 0 .. n |-> IF i = 0 THEN Start ELSE ShowByte(f[i - 1], base + i - 1, data[i - 1])]
  <2>r. \A i \in 0 .. n : r[i] = IF i = 0 THEN Start ELSE ShowByte(f[i - 1], base + i - 1, data[i - 1])
    OBVIOUS
  <2>e. f = r
    BY <2>1
  <2> HIDE DEF r
  <2>2. \A i \in 0 .. n : f[i] = IF i = 0 THEN Start ELSE ShowByte(f[i - 1], base + i - 1, data[i - 1])
    BY <2>r, <2>e, Zenon
  <2>3. f = [i \in 0 .. n |-> f[i]]
    BY <2>1
  <2>4. f[0] = Start
    BY <2>2
  <2>5. \A i \in 1 .. n : f[i] = ShowByte(f[i - 1], base + i - 1, data[i - 1])
    BY <2>2
  <2> QED
    BY <2>3, <2>4, <2>5 DEF Took
<1> QED
  BY <1>4, <1>5

(* Addresses wrap with the word, places with the flash.                     *)
LEMMA WordSum ==
  ASSUME NEW a \in Int, NEW b \in Int
  PROVE  /\ ((a % Word) + b) % Word = (a + b) % Word
         /\ ((a % Word) + b) % FlashSize = (a + b) % FlashSize
<1>1. Word \in Nat \ {0} /\ FlashSize \in Nat \ {0} /\ Word % FlashSize = 0
  BY Sizes
<1>2. Word % Word = 0
  BY <1>1
<1> QED
  BY <1>1, <1>2, RestOfSum

(* A chunk that is read where the dump has got to continues its lines.      *)
LEMMA RowsMore ==
  ASSUME from \in Nat, NEW N \in Nat, Rows(out, BytesOnLine, N),
         NEW n \in Nat, NEW base \in Nat, base % Word = (from + N) % Word,
         NEW data, \A i \in 0 .. n - 1 : data[i] \in Bytes /\ data[i] = Held(N + i)
  PROVE  Rows(NetDumpHex(data, n, base).out, NetDumpHex(data, n, base).col, N + n)
<1>1. PICK f : Took(f, data, base, n) /\ NetDumpHex(data, n, base) = f[n]
  BY NetDumpHexTook
<1> DEFINE T == {k \in 0 .. n : Rows(f[k].out, f[k].col, N + k)}
<1>2. 0 \in T
  <2>1. f[0].out = out /\ f[0].col = BytesOnLine
    BY <1>1 DEF Took, Start
  <2>2. N + 0 = N /\ 0 \in 0 .. n
    OBVIOUS
  <2> QED
    BY <2>1, <2>2
<1>3. ASSUME NEW k \in 1 .. n, k - 1 \in T PROVE k \in T
  <2>1. PICK j \in Nat : j = k - 1
    OBVIOUS
  <2>2. j \in 0 .. n - 1 /\ k = j + 1 /\ k \in 0 .. n /\ base + k - 1 = base + j /\ N + k = (N + j) + 1
    BY <1>3, <2>1
  <2>3. f[k] = ShowByte(f[j], base + j, data[j])
    BY <1>1, <2>1, <2>2 DEF Took
  <2>4. Rows(f[j].out, f[j].col, N + j)
    BY <1>3, <2>1
  <2>5. (base + j) % Word = (from + (N + j)) % Word
    <3>1. \A a \in Int, b \in Int : ((a % Word) + b) % Word = (a + b) % Word
      BY WordSum
    <3>2. from + N \in Int /\ from + N + j = from + (N + j) /\ base \in Int /\ j \in Int
      OBVIOUS
    <3>3. ((base % Word) + j) % Word = (base + j) % Word
      BY <3>1, <3>2, Zenon
    <3>4. (((from + N) % Word) + j) % Word = (from + N + j) % Word
      BY <3>1, <3>2, Zenon
    <3>5. base % Word = (from + N) % Word
      OBVIOUS
    <3> QED
      BY <3>2, <3>3, <3>4, <3>5, Zenon
  <2>6. data[j] \in Bytes /\ data[j] = Held(N + j) /\ base + j \in Nat
    BY <2>2
  <2>7. Rows(f[k].out, f[k].col, (N + j) + 1)
    BY <2>3, <2>4, <2>5, <2>6, RowsNext
  <2> QED
    BY <2>2, <2>7
<1> HIDE DEF T
<1>4. n \in T
  <2>1. 0 .. n \subseteq T
    BY <1>2, <1>3, Upward
  <2> QED
    BY <2>1
<1> QED
  BY <1>1, <1>4 DEF T

-----------------------------------------------------------------------------
(* The regions of a map.                                                    *)
RegionSet == [first : Nat, last : Int, empty : BOOLEAN]

(* The sectors that are empty, as a function.                               *)
Empties == [a \in Nat |-> CheckEmpty(a)]

(* A map has got to the sector at A: the regions o are shown, the next one  *)
(* began at L and is empty if b.                                            *)
Regions(E, o, A, L, b) ==
  /\ o \in Seq(RegionSet) /\ b \in BOOLEAN
  /\ A \in 0 .. FlashSize /\ L \in 0 .. A /\ A % EraseSize = 0 /\ L % EraseSize = 0
  /\ o = <<>> => L = 0
  /\ o # <<>> => L = o[Len(o)].last + 1 /\ o[Len(o)].empty = ~ b
  /\ \A a \in L .. A : (a % EraseSize = 0 /\ a < FlashSize) => E[a] = b
  /\ \A i \in 1 .. Len(o) :
       /\ o[i].first = IF i = 1 THEN 0 ELSE o[i - 1].last + 1
       /\ \A a \in o[i].first .. o[i].last : a % EraseSize = 0 => E[a] = o[i].empty
       /\ i > 1 => o[i].empty # o[i - 1].empty
  /\ A >= FlashSize => L = FlashSize

(* Behind a sector the next one begins.                                     *)
LEMMA NextSector ==
  ASSUME NEW A \in 0 .. FlashSize, A % EraseSize = 0, A < FlashSize
  PROVE  /\ A + EraseSize \in 1 .. FlashSize /\ (A + EraseSize) % EraseSize = 0
         /\ \A a \in Nat : (a % EraseSize = 0 /\ a < A + EraseSize) => a <= A
<1>1. EraseSize \in Nat \ {0} /\ FlashSize \in Nat \ {0} /\ FlashSize % EraseSize = 0
  BY Sizes
<1>n. A \in Int /\ FlashSize \in Int
  BY <1>1
<1>2. A + EraseSize <= FlashSize
  BY <1>1, <1>n, Apart, Zenon
<1>3. (A + EraseSize) % EraseSize = 0
  <2>a. 1 \in Int
    OBVIOUS
  <2>1. (EraseSize * 1 + A) % EraseSize = A % EraseSize
    BY <1>1, <1>n, <2>a, SameRest, Zenon
  <2> QED
    BY <1>1, <2>1
<1>4. ASSUME NEW a \in Nat, a % EraseSize = 0, a < A + EraseSize PROVE a <= A
  <2>1. ASSUME A < a PROVE FALSE
    <3>1. A + EraseSize <= a
      <4>1. a \in Int
        OBVIOUS
      <4> QED
        BY <1>1, <1>n, <1>4, <2>1, <4>1, Apart, Zenon
    <3> QED
      BY <1>1, <1>4, <3>1
  <2> QED
    BY <2>1
<1> QED
  BY <1>1, <1>2, <1>3, <1>4

(* The region goes on.                                                      *)
LEMMA RegionGoesOn ==
  ASSUME NEW E, NEW o, NEW A, NEW L, NEW b, Regions(E, o, A, L, b), A < FlashSize,
         NEW n, n = A + EraseSize, n # FlashSize, E[n] = b
  PROVE  Regions(E, o, n, L, b)
<1>1. EraseSize \in Nat \ {0} /\ FlashSize \in Nat \ {0}
  BY Sizes
<1>2. A \in 0 .. FlashSize /\ A % EraseSize = 0
  BY DEF Regions
<1>3. /\ n \in 1 .. FlashSize /\ n % EraseSize = 0
      /\ \A a \in Nat : (a % EraseSize = 0 /\ a < n) => a <= A
  BY <1>2, NextSector
<1>4. n < FlashSize /\ A <= n
  BY <1>1, <1>2, <1>3
<1>5. L \in 0 .. A /\ \A a \in L .. A : (a % EraseSize = 0 /\ a < FlashSize) => E[a] = b
  BY DEF Regions
<1>6. ASSUME NEW a \in L .. n, a % EraseSize = 0, a < FlashSize PROVE E[a] = b
  <2>1. CASE a = n
    BY <2>1
  <2>2. CASE a # n
    <3>1. a \in Nat /\ a < n
      BY <1>3, <1>5, <2>2
    <3>2. a <= A
      BY <1>3, <1>6, <3>1
    <3>3. a \in L .. A
      BY <1>2, <1>5, <3>1, <3>2
    <3> QED
      BY <1>5, <1>6, <3>3
  <2> QED
    BY <2>1, <2>2
<1>7. n \in 0 .. FlashSize /\ L \in 0 .. n /\ ~ (n >= FlashSize)
  BY <1>1, <1>2, <1>3, <1>4, <1>5
<1> QED
  BY <1>3, <1>6, <1>7 DEF Regions

(* The region ends, and another begins, or nothing when the flash ends.     *)
LEMMA RegionEnds ==
  ASSUME NEW E, NEW o, NEW A, NEW L, NEW b, Regions(E, o, A, L, b), A < FlashSize,
         NEW n, n = A + EraseSize, NEW e \in BOOLEAN, e # b, n # FlashSize => E[n] = e,
         NEW r, r = [first |-> L, last |-> n - 1, empty |-> ~ e]
  PROVE  Regions(E, Append(o, r), n, n, e)
<1>1. EraseSize \in Nat \ {0} /\ FlashSize \in Nat \ {0}
  BY Sizes
<1>2. A \in 0 .. FlashSize /\ A % EraseSize = 0 /\ b \in BOOLEAN /\ L \in 0 .. A
  BY DEF Regions
<1>3. /\ n \in 1 .. FlashSize /\ n % EraseSize = 0
      /\ \A a \in Nat : (a % EraseSize = 0 /\ a < n) => a <= A
  BY <1>2, NextSector
<1>4. \A a \in L .. A : (a % EraseSize = 0 /\ a < FlashSize) => E[a] = b
  BY DEF Regions
<1>5. r.first = L /\ r.last = n - 1 /\ r.empty = b /\ r \in RegionSet
  <2>1. (~ e) = b
    BY <1>2
  <2>2. L \in Nat /\ n - 1 \in Int
    BY <1>1, <1>2, <1>3
  <2> QED
    BY <1>2, <2>1, <2>2 DEF RegionSet
<1>6. \A a \in r.first .. r.last : a % EraseSize = 0 => E[a] = r.empty
  <2>1. ASSUME NEW a \in L .. n - 1, a % EraseSize = 0 PROVE E[a] = b
    <3>1. a \in Nat /\ a < n
      BY <1>2, <1>3
    <3>a. a <= A
      BY <1>3, <2>1, <3>1
    <3>2. a \in L .. A /\ a < FlashSize
      BY <1>1, <1>2, <3>1, <3>a
    <3> QED
      BY <1>4, <2>1, <3>2
  <2> QED
    BY <1>5, <2>1
<1>o. o \in Seq(RegionSet)
  BY DEF Regions
<1>m. PICK m \in Nat : m = Len(o)
  BY <1>o
<1>t. PICK t : t = Append(o, r)
  OBVIOUS
<1>7. t \in Seq(RegionSet) /\ Len(t) = m + 1 /\ t[m + 1] = r /\ (\A i \in 1 .. m : t[i] = o[i]) /\ t # <<>>
  BY <1>5, <1>o, <1>m, <1>t
<1>8. \A i \in 1 .. m :
        /\ o[i].first = IF i = 1 THEN 0 ELSE o[i - 1].last + 1
        /\ \A a \in o[i].first .. o[i].last : a % EraseSize = 0 => E[a] = o[i].empty
        /\ i > 1 => o[i].empty # o[i - 1].empty
  BY <1>m DEF Regions
<1>9. (m = 0 => L = 0) /\ (m # 0 => L = o[m].last + 1 /\ o[m].empty = ~ b)
  BY <1>o, <1>m DEF Regions
<1>10. ASSUME NEW i \in 1 .. m + 1
       PROVE  /\ t[i].first = IF i = 1 THEN 0 ELSE t[i - 1].last + 1
              /\ \A a \in t[i].first .. t[i].last : a % EraseSize = 0 => E[a] = t[i].empty
              /\ i > 1 => t[i].empty # t[i - 1].empty
  <2>1. CASE i = m + 1
    <3>1. t[i] = r /\ (m # 0 => t[i - 1] = o[m]) /\ (m # 0 <=> i # 1) /\ (i > 1 => m # 0)
      BY <1>7, <2>1
    <3>2. r.first = IF i = 1 THEN 0 ELSE t[i - 1].last + 1
      BY <1>5, <1>9, <3>1
    <3>3. i > 1 => r.empty # t[i - 1].empty
      BY <1>2, <1>5, <1>9, <3>1, Zenon
    <3> QED
      BY <1>6, <3>1, <3>2, <3>3
  <2>2. CASE i # m + 1
    <3>1. i \in 1 .. m /\ (i # 1 => i - 1 \in 1 .. m) /\ (i > 1 => i # 1)
      BY <2>2
    <3>2. t[i] = o[i] /\ (i # 1 => t[i - 1] = o[i - 1])
      BY <1>7, <3>1
    <3> QED
      BY <1>8, <3>1, <3>2
  <2> QED
    BY <2>1, <2>2
<1>11. \A a \in n .. n : (a % EraseSize = 0 /\ a < FlashSize) => E[a] = e
  <2>1. ASSUME NEW a \in n .. n, a < FlashSize PROVE E[a] = e
    <3>1. a = n /\ n # FlashSize
      BY <1>1, <1>3, <2>1
    <3> QED
      BY <3>1
  <2> QED
    BY <2>1
<1>12. t[m + 1].last + 1 = n /\ t[m + 1].empty = ~ e
  <2>1. b = ~ e
    BY <1>2
  <2> QED
    BY <1>3, <1>5, <1>7, <2>1
<1>13. n \in 0 .. FlashSize /\ n \in 0 .. n /\ (n >= FlashSize => n = FlashSize)
  BY <1>1, <1>3
<1> QED
  BY <1>3, <1>7, <1>10, <1>11, <1>12, <1>13, <1>t DEF Regions

-----------------------------------------------------------------------------
(* What holds after any number of steps.                                    *)
TypeInv == flash \in [Addresses -> Bytes] /\ cmd \in {"none", "dump", "map"}

(* n of l bytes have been read, in chunks that divide l.                    *)
Chunked(n, l) ==
  /\ n <= l
  /\ l <= TEMP => n \in {0, l}
  /\ l > TEMP => n % TEMP = 0 /\ l % TEMP = 0

(* The chunks of a length that they divide do not go beyond it.             *)
LEMMA NextChunk ==
  ASSUME NEW n \in Nat, NEW l \in Nat, Chunked(n, l), n < l
  PROVE  Chunked(n + Smaller(l, TEMP), l)
<1>0. TEMP \in Nat \ {0}
  BY Sizes
<1>1. CASE l <= TEMP
  <2>1. n = 0 /\ Smaller(l, TEMP) = l
    BY <1>0, <1>1 DEF Chunked, Smaller
  <2> QED
    BY <1>0, <1>1, <2>1 DEF Chunked
<1>2. CASE l > TEMP
  <2>1. Smaller(l, TEMP) = TEMP /\ n % TEMP = 0 /\ l % TEMP = 0
    BY <1>0, <1>2 DEF Chunked, Smaller
  <2>2. n + TEMP <= l
    BY <1>0, <2>1, Apart
  <2>3. PICK q \in Int : n = TEMP * q
    BY <1>0, <2>1, Multiple
  <2>4. TEMP * q + TEMP = TEMP * (q + 1) /\ q + 1 \in Int
    BY <1>0, Times
  <2>5. (TEMP * (q + 1)) % TEMP = 0
    BY <1>0, <2>4, Whole
  <2>6. (n + TEMP) % TEMP = 0
    BY <2>3, <2>4, <2>5
  <2> QED
    BY <1>0, <1>2, <2>1, <2>2, <2>6 DEF Chunked
<1> QED
  BY <1>0, <1>1, <1>2

DumpInv ==
  /\ cmd = "dump" =>
       /\ from \in 0 .. Word - 1 /\ Length \in Nat /\ BytesRead < Length + TEMP
       /\ Rows(out, BytesOnLine, BytesRead) /\ Adr = (from + BytesRead) % Word
       /\ WholeTemp => Chunked(BytesRead, Length)
  /\ cmd # "dump" => BytesOnLine = 0

MapInv == cmd = "map" => Regions(Empties, out, Adr, LastAdr, bWasEmpty)

Inv == TypeInv /\ DumpInv /\ MapInv

LEMMA InitInv == Init => Inv
<1> SUFFICES ASSUME Init PROVE Inv
  OBVIOUS
<1>1. cmd = "none" /\ BytesOnLine = 0 /\ flash \in [Addresses -> Bytes]
  BY ViewAssumption DEF Init
<1> QED
  BY <1>1 DEF Inv, TypeInv, DumpInv, MapInv

(* The lines of a dump that has not begun.                                  *)
LEMMA RowsEmpty ==
  ASSUME out' = <<>>, BytesOnLine' = 0, BytesRead' = 0
  PROVE  Rows(out, BytesOnLine, BytesRead)'
<1>1. Text(<<>>) = <<>>
  <2>1. [i \in 1 .. Len(<<>>) |-> <<>>[i].bytes] = <<>>
    OBVIOUS
  <2>2. FlattenSeq(<<>>) = <<>>
    BY DEF FlattenSeq
  <2> QED
    BY <2>1, <2>2 DEF Text
<1>2. Text(out)' = <<>>
  BY <1>1 DEF Text
<1>3. 0 \in 0 .. LINE - 1 /\ LINE * 0 = 0 /\ LINE * Len(<<>>) = 0
  BY Sizes
<1>4. <<>> \in Seq(LineSet) /\ <<>> \in Seq(Bytes) /\ Len(<<>>) = 0 /\ 0 \in Nat /\ 1 .. 0 = {}
  OBVIOUS
<1> QED
  BY <1>2, <1>3, <1>4 DEF Rows

(* The flash does not change, nor does the address of a dump.               *)
LEMMA RowsKept ==
  ASSUME NEW o, NEW c, NEW n, Rows(o, c, n), flash' = flash, from' = from,
         out' = o, BytesOnLine' = c, BytesRead' = n
  PROVE  Rows(out, BytesOnLine, BytesRead)'
  BY DEF Rows, Held, Place, Text

(* What is followed of a dump does not wrap.                                *)
LEMMA NoWrap ==
  ASSUME NEW o, NEW c, NEW n, Rows(o, c, n), Len(o) < MaxLines
  PROVE  n \in Nat /\ n + TEMP < Word
<1>1. LINE \in Nat \ {0} /\ MaxLines \in Nat \ {0} /\ TEMP \in Nat /\ Word \in Nat /\ MaxLines * LINE + TEMP <= Word
  BY Sizes
<1>2. PICK m \in Nat : m = Len(o)
  BY DEF Rows
<1>3. LINE * m + LINE <= LINE * MaxLines /\ LINE * (m - 1) = LINE * m - LINE /\ LINE * m \in Int
  <2>1. m \in Int /\ MaxLines \in Int /\ m < MaxLines
    BY <1>1, <1>2
  <2> QED
    BY <1>1, <2>1, Times
<1>4. LINE * MaxLines = MaxLines * LINE /\ LINE * MaxLines \in Int
  BY <1>1
<1>5. n \in Nat /\ c \in 0 .. LINE - 1 /\ (c = 0 => n = LINE * m) /\ (c # 0 => n = LINE * (m - 1) + c)
  BY <1>2 DEF Rows
<1>6. n <= LINE * m
  BY <1>1, <1>3, <1>5
<1> QED
  BY <1>1, <1>3, <1>4, <1>5, <1>6

LEMMA EmptiesKept == flash' = flash => Empties' = Empties
  BY DEF Empties, CheckEmpty, spi_read

LEMMA EmptiesOf ==
  /\ Empties \in [Nat -> BOOLEAN]
  /\ \A a \in Nat : Empties[a] = CheckEmpty(a)
<1>1. \A a \in Nat : CheckEmpty(a) \in BOOLEAN
  BY DEF CheckEmpty
<1> QED
  BY <1>1, Zenon DEF Empties

LEMMA DumpCmdInv == Inv /\ DumpCmd => Inv'
<1> SUFFICES ASSUME Inv, DumpCmd PROVE Inv'
  OBVIOUS
<1>1. PICK r \in AdrAndLen : Adr' = r.adr /\ from' = r.adr /\ Length' = r.len
  BY DEF DumpCmd
<1>2. cmd = "none" /\ cmd' = "dump" /\ BytesRead' = 0 /\ out' = <<>> /\ flash' = flash /\ BytesOnLine' = BytesOnLine
  BY DEF DumpCmd
<1>3. BytesOnLine' = 0
  BY <1>2 DEF Inv, DumpInv
<1>4. r.adr \in 0 .. Word - 1 /\ r.len \in Nat
  <2>1. PICK a \in {k \in Numbers : k <= FlashSize}, n \in Numbers :
          r = [adr |-> a, len |-> IF (a + n) % Word > FlashSize THEN FlashSize - a ELSE n]
    BY DEF AdrAndLen
  <2>2. a \in 0 .. Word - 1 /\ n \in 0 .. Word - 1 /\ a <= FlashSize /\ FlashSize \in Nat /\ Word \in Nat
    BY ViewAssumption, Sizes
  <2>3. FlashSize - a \in Nat /\ n \in Nat
    BY <2>2
  <2> QED
    BY <2>1, <2>2, <2>3
<1>5. Rows(out, BytesOnLine, BytesRead)'
  BY <1>2, <1>3, RowsEmpty
<1>6. Adr' = (from' + BytesRead') % Word /\ BytesRead' < Length' + TEMP
  <2>1. PICK a \in 0 .. Word - 1 : a = r.adr
    BY <1>4
  <2>2. PICK l \in Nat : l = r.len
    BY <1>4
  <2>3. Word \in Nat \ {0} /\ TEMP \in Nat \ {0}
    BY Sizes
  <2>4. (a + 0) % Word = a /\ 0 < l + TEMP
    BY <2>3
  <2> QED
    BY <1>1, <1>2, <2>1, <2>2, <2>4
<1>7. WholeTemp' => Chunked(BytesRead', Length')
  <2>1. PICK l \in Nat : l = r.len
    BY <1>4
  <2>2. TEMP \in Nat \ {0} /\ 0 % TEMP = 0
    BY Sizes
  <2>3. l <= TEMP \/ l % TEMP = 0 => Chunked(0, l)
    BY <2>2 DEF Chunked
  <2> QED
    BY <1>1, <1>2, <2>1, <2>3 DEF WholeTemp
<1> QED
  BY <1>1, <1>2, <1>4, <1>5, <1>6, <1>7 DEF Inv, TypeInv, DumpInv, MapInv, Chunked

LEMMA DumpChunkInv == Inv /\ DumpChunk => Inv'
<1> SUFFICES ASSUME Inv, DumpChunk PROVE Inv'
  OBVIOUS
<1>1. cmd = "dump" /\ cmd' = "dump" /\ flash' = flash /\ from' = from /\ Length' = Length /\ BytesRead < Length
      /\ Len(out) < MaxLines
  BY DEF DumpChunk
<1>2. from \in 0 .. Word - 1 /\ Length \in Nat /\ Rows(out, BytesOnLine, BytesRead) /\ Adr = (from + BytesRead) % Word
  BY <1>1 DEF Inv, DumpInv
<1>k. Word \in Nat \ {0} /\ TEMP \in Nat \ {0} /\ FlashSize \in Nat \ {0}
  BY Sizes
<1>N. PICK N \in Nat : N = BytesRead /\ N + TEMP < Word
  BY <1>1, <1>2, NoWrap
<1>n. PICK n \in 1 .. TEMP : n = Bytes2Read
  BY <1>1, <1>2, <1>k, <1>N DEF Bytes2Read, Smaller
<1>f. PICK f \in 0 .. Word - 1 : f = from
  BY <1>2
<1>a. PICK a \in Nat : a = Adr
  BY <1>2, <1>k, <1>N
<1>d. PICK data : data = spi_read(flash, Adr, Bytes2Read)
  OBVIOUS
<1>3. a = (f + N) % Word /\ f + N \in Int /\ n \in Int /\ n \in Nat
  BY <1>2, <1>N, <1>f, <1>a
<1>4. a % Word = (f + N) % Word
  <2>1. ((f + N) % Word) % Word = (f + N) % Word
    BY <1>k, <1>3
  <2> QED
    BY <1>3, <2>1
<1>5. ASSUME NEW i \in 0 .. n - 1 PROVE data[i] \in Bytes /\ data[i] = Held(N + i)
  <2>1. data[i] = flash[(a + i) % FlashSize]
    BY <1>a, <1>d, <1>n DEF spi_read
  <2>2. i \in Int /\ f + N + i = f + (N + i) /\ f + N + i \in Int
    BY <1>3
  <2>3. (a + i) % FlashSize = (f + N + i) % FlashSize
    BY <1>3, <2>2, WordSum, Zenon
  <2>4. (f + N + i) % FlashSize \in Addresses
    BY <1>k, <2>2 DEF Addresses
  <2>5. flash \in [Addresses -> Bytes]
    BY DEF Inv, TypeInv
  <2> QED
    BY <1>f, <2>1, <2>2, <2>3, <2>4, <2>5 DEF Held, Place
<1>s. PICK s : s = NetDumpHex(data, n, a)
  OBVIOUS
<1>6. Rows(s.out, s.col, N + n)
  <2>1. from \in Nat /\ a % Word = (from + N) % Word /\ Rows(out, BytesOnLine, N)
    BY <1>2, <1>4, <1>f, <1>N
  <2> QED
    BY <1>3, <1>5, <1>s, <2>1, RowsMore
<1>7. out' = s.out /\ BytesOnLine' = s.col
  BY <1>n, <1>a, <1>d, <1>s DEF DumpChunk
<1>8. BytesRead' = N + n
  <2>1. (N + n) % Word = N + n
    BY <1>k, <1>N
  <2> QED
    BY <1>N, <1>n, <2>1 DEF DumpChunk
<1>9. Adr' = (f + (N + n)) % Word
  <2>1. (a + n) % Word = (f + N + n) % Word
    BY <1>3, WordSum, Zenon
  <2>2. f + N + n = f + (N + n)
    OBVIOUS
  <2> QED
    BY <1>n, <1>a, <2>1, <2>2 DEF DumpChunk
<1>10. Rows(out, BytesOnLine, BytesRead)'
  BY <1>1, <1>6, <1>7, <1>8, RowsKept
<1>11. N + n < Length + TEMP
  BY <1>1, <1>2, <1>k, <1>N
<1>12. WholeTemp' => Chunked(BytesRead', Length')
  <2>1. WholeTemp' = WholeTemp
    BY <1>1 DEF WholeTemp
  <2>2. WholeTemp => Chunked(N, Length)
    BY <1>1, <1>N DEF Inv, DumpInv
  <2>3. N < Length /\ Length \in Nat /\ n = Smaller(Length, TEMP)
    BY <1>1, <1>2, <1>N, <1>n DEF Bytes2Read
  <2>4. WholeTemp => Chunked(N + n, Length)
    BY <2>2, <2>3, NextChunk
  <2> QED
    BY <1>1, <1>8, <2>1, <2>4
<1> QED
  BY <1>1, <1>2, <1>8, <1>9, <1>10, <1>11, <1>12, <1>f DEF Inv, TypeInv, DumpInv, MapInv

LEMMA DoneInv == Inv /\ (DumpDone \/ MapDone) => Inv'
<1> SUFFICES ASSUME Inv, DumpDone \/ MapDone PROVE Inv'
  OBVIOUS
<1>1. cmd' = "none" /\ flash' = flash
  BY DEF DumpDone, MapDone, Forget
<1>2. BytesOnLine' = 0
  <2>1. CASE DumpDone
    BY <2>1 DEF DumpDone
  <2>2. CASE MapDone
    BY <2>2 DEF MapDone, dump, Inv, DumpInv
  <2> QED
    BY <2>1, <2>2
<1> QED
  BY <1>1, <1>2 DEF Inv, TypeInv, DumpInv, MapInv

LEMMA MapCmdInv == Inv /\ MapCmd => Inv'
<1> SUFFICES ASSUME Inv, MapCmd PROVE Inv'
  OBVIOUS
<1>1. cmd = "none" /\ cmd' = "map" /\ Adr' = 0 /\ LastAdr' = 0 /\ out' = <<>> /\ flash' = flash
      /\ bWasEmpty' = CheckEmpty(0) /\ BytesOnLine' = BytesOnLine
  BY DEF MapCmd, dump
<1>2. BytesOnLine' = 0
  BY <1>1 DEF Inv, DumpInv
<1>3. PICK E : E = Empties
  OBVIOUS
<1>4. PICK b \in BOOLEAN : b = bWasEmpty' /\ E[0] = b
  BY <1>1, <1>3, EmptiesOf
<1>5. Empties' = E
  BY <1>1, <1>3, EmptiesKept
<1>6. Regions(E, <<>>, 0, 0, b)
  <2>1. EraseSize \in Nat \ {0} /\ FlashSize \in Nat \ {0} /\ 0 % EraseSize = 0
    BY Sizes
  <2>2. \A a \in 0 .. 0 : E[a] = b
    <3>1. \A a \in 0 .. 0 : a = 0
      OBVIOUS
    <3> QED
      BY <1>4, <3>1
  <2>3. <<>> \in Seq(RegionSet) /\ Len(<<>>) = 0 /\ 1 .. 0 = {} /\ 0 \in 0 .. 0
    OBVIOUS
  <2>4. 0 \in 0 .. FlashSize /\ ~ (0 >= FlashSize)
    BY <2>1
  <2> QED
    BY <2>1, <2>2, <2>3, <2>4 DEF Regions
<1>7. MapInv'
  BY <1>1, <1>4, <1>5, <1>6 DEF MapInv
<1> QED
  BY <1>1, <1>2, <1>7 DEF Inv, TypeInv, DumpInv

LEMMA MapSectorInv == Inv /\ MapSector => Inv'
<1> SUFFICES ASSUME Inv, MapSector PROVE Inv'
  OBVIOUS
<1>1. cmd = "map" /\ cmd' = "map" /\ Adr < FlashSize /\ flash' = flash /\ BytesOnLine' = BytesOnLine
  BY DEF MapSector, dump
<1>2. Regions(Empties, out, Adr, LastAdr, bWasEmpty)
  BY <1>1 DEF Inv, MapInv
<1>3. PICK E : E = Empties
  OBVIOUS
<1>4. PICK A \in Nat : A = Adr
  BY <1>2 DEF Regions
<1>5. PICK L : L = LastAdr
  OBVIOUS
<1>6. PICK b \in BOOLEAN : b = bWasEmpty
  BY <1>2 DEF Regions
<1>7. PICK o : o = out
  OBVIOUS
<1>8. Regions(E, o, A, L, b) /\ A < FlashSize
  BY <1>1, <1>2, <1>3, <1>4, <1>5, <1>6, <1>7
<1>9. PICK n \in Nat : n = A + EraseSize
  BY Sizes
<1>10. E[n] \in BOOLEAN /\ E[n] = CheckEmpty(n)
  BY <1>3, EmptiesOf
<1>11. PICK e \in BOOLEAN : e = NowEmpty(n) /\ e = IF n = FlashSize /\ E[n] = b THEN ~ b ELSE E[n]
  BY <1>6, <1>10, Zenon DEF NowEmpty
<1>12. Empties' = E
  BY <1>1, <1>3, EmptiesKept
<1>13. /\ Adr' = n
       /\ IF e = b THEN LastAdr' = L /\ bWasEmpty' = b /\ out' = o
          ELSE /\ bWasEmpty' = e /\ LastAdr' = n
               /\ out' = Append(o, [first |-> L, last |-> n - 1, empty |-> ~ e])
  BY <1>4, <1>5, <1>6, <1>7, <1>9, <1>11 DEF MapSector, map
<1>14. CASE e = b
  <2>1. n # FlashSize /\ E[n] = b
    BY <1>11, <1>14
  <2>2. Regions(E, o, n, L, b)
    BY <1>8, <1>9, <2>1, RegionGoesOn
  <2>3. MapInv'
    BY <1>12, <1>13, <1>14, <2>2 DEF MapInv
  <2> QED
    BY <1>1, <2>3 DEF Inv, TypeInv, DumpInv
<1>15. CASE e # b
  <2>1. n # FlashSize => E[n] = e
    BY <1>11
  <2>2. PICK r : r = [first |-> L, last |-> n - 1, empty |-> ~ e]
    OBVIOUS
  <2>3. Regions(E, Append(o, r), n, n, e)
    BY <1>8, <1>9, <1>15, <2>1, <2>2, RegionEnds
  <2>4. MapInv'
    BY <1>12, <1>13, <1>15, <2>2, <2>3 DEF MapInv
  <2> QED
    BY <1>1, <2>4 DEF Inv, TypeInv, DumpInv
<1> QED
  BY <1>14, <1>15

LEMMA IdleInv == Inv /\ (Connection \/ UNCHANGED vars) => Inv'
<1> SUFFICES ASSUME Inv, Connection \/ UNCHANGED vars PROVE Inv'
  OBVIOUS
<1>1. flash' = flash /\ cmd' = cmd /\ Adr' = Adr /\ Length' = Length /\ BytesRead' = BytesRead
      /\ BytesOnLine' = BytesOnLine /\ LastAdr' = LastAdr /\ bWasEmpty' = bWasEmpty /\ from' = from /\ out' = out
  BY DEF Connection, vars, dump, map
<1>2. DumpInv'
  <2>1. cmd = "dump" => Rows(out, BytesOnLine, BytesRead)'
    BY <1>1, RowsKept DEF Inv, DumpInv
  <2>2. WholeTemp' = WholeTemp /\ (Chunked(BytesRead, Length))' = Chunked(BytesRead, Length)
    BY <1>1 DEF WholeTemp, Chunked
  <2> QED
    BY <1>1, <2>1, <2>2 DEF Inv, DumpInv
<1>3. MapInv'
  <2>1. Empties' = Empties
    BY <1>1, EmptiesKept
  <2> QED
    BY <1>1, <2>1 DEF Inv, MapInv
<1> QED
  BY <1>1, <1>2, <1>3 DEF Inv, TypeInv

LEMMA StepInv == Inv /\ [Next]_vars => Inv'
  BY DumpCmdInv, DumpChunkInv, DoneInv, MapCmdInv, MapSectorInv, IdleInv DEF Next

-----------------------------------------------------------------------------
LEMMA InvDump == Inv => DumpIsFlash
<1> SUFFICES ASSUME Inv PROVE DumpIsFlash
  OBVIOUS
<1>1. CASE cmd = "dump" /\ Within
  <2>1. from \in Nat /\ Length \in Nat /\ Rows(out, BytesOnLine, BytesRead)
    BY <1>1 DEF Inv, DumpInv
  <2>2. PICK x \in Seq(Bytes) : x = Shown /\ x = Text(out)
    BY <2>1 DEF Rows, Shown, Text
  <2>3. PICK N \in Nat : N = BytesRead
    BY <2>1 DEF Rows
  <2>4. Len(x) = N /\ \A k \in 1 .. N : x[k] = Held(k - 1)
    BY <2>1, <2>2, <2>3 DEF Rows
  <2>w. /\ FlashSize \in Nat \ {0} /\ Word \in Nat \ {0} /\ FlashSize <= Word
        /\ LINE \in Nat \ {0} /\ from + Length <= FlashSize
    BY <1>1, Sizes, ViewAssumption DEF Within
  <2>f. PICK f \in Nat : f = from
    BY <2>1
  <2>l. PICK l \in Nat : l = Length
    BY <2>1
  <2>i. \A j \in Nat : j < l => (f + j) % FlashSize = f + j /\ (f + j) % Word = f + j
    BY <2>w, <2>f, <2>l
  <2>5. ASSUME NEW i \in 1 .. Len(out), (i - 1) * LINE < l
        PROVE  /\ out[i].adr = f + (i - 1) * LINE
               /\ Len(out[i].bytes) = LINE \/ i = Len(out)
    <3>1. PICK m \in Nat : m = Len(out)
      BY <2>1 DEF Rows
    <3>2. PICK j \in Nat : j = LINE * (i - 1) /\ j = (i - 1) * LINE
      <4>1. LINE \in Nat /\ i - 1 \in Nat
        BY <2>w, <3>1
      <4> QED
        BY <4>1
    <3>3. out[i].adr = (f + j) % Word
      BY <2>1, <2>f, <3>2 DEF Rows
    <3>4. Len(out[i].bytes) = LINE \/ i = Len(out)
      BY <2>1 DEF Rows
    <3>5. (f + j) % Word = f + j
      BY <2>i, <2>5, <3>2
    <3> QED
      BY <3>2, <3>3, <3>4, <3>5
  <2>6. ASSUME NEW k \in 1 .. Smaller(Len(x), l) PROVE x[k] = flash[f + k - 1]
    <3>1. k \in 1 .. N /\ k - 1 \in Nat /\ k - 1 < l
      BY <2>4, <2>l DEF Smaller
    <3>2. x[k] = Held(k - 1)
      BY <2>4, <3>1
    <3>3. (f + (k - 1)) % FlashSize = f + (k - 1)
      BY <2>i, <3>1
    <3>4. f + (k - 1) = f + k - 1
      BY <3>1
    <3> QED
      BY <2>f, <3>2, <3>3, <3>4 DEF Held, Place
  <2>7. N >= l => Len(x) >= l
    BY <2>4
  <2>8. WholeTemp => Len(x) <= l
    BY <1>1, <2>3, <2>4, <2>l DEF Inv, DumpInv, Chunked
  <2> QED
    BY <1>1, <2>2, <2>3, <2>f, <2>l, <2>5, <2>6, <2>7, <2>8 DEF DumpIsFlash
<1>3. CASE cmd = "dump" /\ ~ Within
  BY <1>3 DEF DumpIsFlash
<1>2. CASE cmd # "dump"
  BY <1>2 DEF DumpIsFlash, Inv, DumpInv
<1> QED
  BY <1>1, <1>2, <1>3

LEMMA InvMap == Inv => MapIsFlash
<1> SUFFICES ASSUME Inv, cmd = "map" PROVE MapIsFlash
  BY DEF MapIsFlash
<1>1. Regions(Empties, out, Adr, LastAdr, bWasEmpty)
  BY DEF Inv, MapInv
<1>2. ASSUME NEW i \in 1 .. Len(out)
      PROVE  /\ out[i].first = IF i = 1 THEN 0 ELSE out[i - 1].last + 1
             /\ \A a \in out[i].first .. out[i].last : a % EraseSize = 0 => CheckEmpty(a) = out[i].empty
             /\ i > 1 => out[i].empty # out[i - 1].empty
  <2>1. /\ out[i].first = IF i = 1 THEN 0 ELSE out[i - 1].last + 1
        /\ \A a \in out[i].first .. out[i].last : a % EraseSize = 0 => Empties[a] = out[i].empty
        /\ i > 1 => out[i].empty # out[i - 1].empty
    BY <1>1 DEF Regions
  <2>2. out[i].first \in Nat /\ out[i].last \in Int
    <3>1. out[i] \in RegionSet
      BY <1>1 DEF Regions
    <3> QED
      BY <3>1 DEF RegionSet
  <2>3. ASSUME NEW a \in out[i].first .. out[i].last, a % EraseSize = 0 PROVE CheckEmpty(a) = out[i].empty
    <3>1. a \in Nat
      BY <2>2
    <3>2. Empties[a] = CheckEmpty(a)
      BY <3>1, EmptiesOf
    <3> QED
      BY <2>1, <2>3, <3>2, Zenon
  <2> QED
    BY <2>1, <2>3
<1>3. ASSUME Adr >= FlashSize PROVE out # <<>> /\ Last(out).last = FlashSize - 1
  <2>1. LastAdr = FlashSize /\ FlashSize \in Nat \ {0}
    BY <1>1, <1>3, Sizes DEF Regions
  <2>2. out # <<>> /\ LastAdr = out[Len(out)].last + 1
    BY <1>1, <2>1 DEF Regions
  <2>3. out[Len(out)].last \in Int
    <3>1. Len(out) \in 1 .. Len(out) /\ \A i \in 1 .. Len(out) : out[i] \in RegionSet
      BY <1>1, <2>2 DEF Regions
    <3> QED
      BY <3>1 DEF RegionSet
  <2> QED
    BY <2>1, <2>2, <2>3 DEF Last
<1> QED
  BY <1>2, <1>3 DEF MapIsFlash

(* A dump that stays within the flash shows the bytes of the range asked    *)
(* for, each once and at its address, however the range falls into chunks   *)
(* of gTemp and lines, and whatever was shown before (and nothing more, if  *)
(* the chunks divide it); what map shows are the flash's regions, all of    *)
(* them and to its last byte.                                               *)
THEOREM CommandsShowFlash == Spec => []ShowsFlash
<1>1. Init => Inv
  BY InitInv
<1>2. Inv /\ [Next]_vars => Inv'
  BY StepInv
<1>3. Inv => ShowsFlash
  BY InvDump, InvMap DEF ShowsFlash
<1> QED
  BY <1>1, <1>2, <1>3, PTL DEF Spec
=============================================================================
