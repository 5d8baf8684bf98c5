------------------------- MODULE ConfigStore_proofs -------------------------
(***************************************************************************)
(* What the settings promise, for windows, pages and sectors of any size,  *)
(* any addresses, and any sequence of commands and power failures.         *)
(***************************************************************************)
EXTENDS ConfigStore, TLAPS, WellFoundedInduction

-----------------------------------------------------------------------------
(* Numbers, and what is defined step by step. *)

(* A number that leaves no rest is a multiple.                              *)
LEMMA Multiple ==
  ASSUME NEW n \in Nat \ {0}, NEW d \in Int, d % n = 0
  PROVE  \E q \in Int : d = n * q
<1>1. d \div n \in Int /\ d = n * (d \div n) + (d % n)
  OBVIOUS
<1>2. d = n * (d \div n)
  BY <1>1
<1> QED
  BY <1>1, <1>2

(* A page further on is the same place in a page.                           *)
LEMMA SameRest ==
  ASSUME NEW n \in Nat \ {0}, NEW d \in Nat
  PROVE  (d + n) % n = d % n
<1>1. d \div n \in Int /\ d = n * (d \div n) + (d % n) /\ d % n \in 0 .. n - 1
  OBVIOUS
<1>2. PICK q \in Int, rest \in 0 .. n - 1 : d = n * q + rest /\ rest = d % n
  BY <1>1
<1>3. d + n = n * (q + 1) + rest
  BY <1>2
<1>4. (n * (q + 1) + rest) % n = rest
  OBVIOUS
<1> QED
  BY <1>2, <1>3, <1>4

(* The window is of whole pages, and at least one lies behind it.           *)
LEMMA Sizes ==
  /\ W \in Nat /\ S \in Nat /\ P \in Nat \ {0} /\ P >= 5 /\ W >= 6 /\ W + P <= S
  /\ Window \subseteq Words
<1>1. W \in Nat /\ S \in Nat /\ P \in Nat \ {0} /\ P >= 5 /\ W >= 2 * P /\ S >= W + 2
      /\ W % P = 0 /\ S % P = 0
  BY WindowAssumption
<1>0. W \in Int /\ S \in Int
  BY <1>1
<1>2. PICK w \in Int : W = P * w
  BY <1>0, <1>1, Multiple, Zenon
<1>3. PICK s \in Int : S = P * s
  BY <1>0, <1>1, Multiple, Zenon
<1>4. w < s
  <2>1. ASSUME s <= w PROVE P * s <= P * w
    BY <2>1, <1>1
  <2> QED
    BY <2>1, <1>1, <1>2, <1>3
<1>5. P * (w + 1) <= P * s
  BY <1>1, <1>4
<1>6. P * (w + 1) = P * w + P
  BY <1>1
<1> QED
  BY <1>1, <1>2, <1>3, <1>5, <1>6 DEF Window, Words

(* A set of numbers that is not empty has a smallest one.                   *)
LEMMA Smallest ==
  ASSUME NEW T \in SUBSET Nat, T # {}
  PROVE  \E i \in T : \A j \in T : i <= j
<1> DEFINE R == {ss \in Nat \X Nat : ss[1] < ss[2]}
<1>1. R = OpToRel(<, Nat)
  BY DEF OpToRel
<1>2. IsWellFoundedOn(R, Nat)
  BY <1>1, NatLessThanWellFounded
<1>3. PICK i \in T : \A j \in T : <<j, i>> \notin R
  BY <1>2, WFMin, Zenon
<1>4. ASSUME NEW j \in T PROVE i <= j
  <2>1. ~(j < i)
    BY <1>3
  <2> QED
    BY <2>1
<1> QED
  BY <1>4

(* What holds of 0, and of every number after one it holds of, holds of all *)
(* up to m.                                                                 *)
LEMMA Upward ==
  ASSUME NEW m \in Nat, NEW T, 0 \in T, \A n \in 1 .. m : n - 1 \in T => n \in T
  PROVE  0 .. m \subseteq T
<1> SUFFICES ASSUME {n \in 0 .. m : n \notin T} # {} PROVE FALSE
  OBVIOUS
<1> DEFINE Out == {n \in 0 .. m : n \notin T}
<1>1. Out \in SUBSET Nat
  OBVIOUS
<1>2. PICK i \in Out : \A j \in Out : i <= j
  BY <1>1, Smallest
<1>3. i # 0 /\ i \in 1 .. m
  OBVIOUS
<1>4. i - 1 \in 0 .. m /\ i - 1 \notin Out
  BY <1>2, <1>3
<1> QED
  BY <1>3, <1>4

(* r begins with a and goes on by h, m times.                               *)
Iterates(r, a, h, m) == r[0] = a /\ \A n \in 1 .. m : r[n] = h[r[n - 1]]

(* What is defined by its first value and a step exists.                    *)
LEMMA Iterate ==
  ASSUME NEW A, NEW a \in A, NEW h \in [A -> A], NEW m \in Nat
  PROVE  \E r \in [0 .. m -> A] : Iterates(r, a, h, m)
<1> DEFINE Law(r, k) == r[0] = a /\ \A n \in 1 .. k : r[n] = h[r[n - 1]]
           T == {k \in 0 .. m : \E r \in [0 .. k -> A] : Law(r, k)}
<1>1. 0 \in T
  <2> DEFINE r == [n \in 0 .. 0 |-> a]
  <2>1. r \in [0 .. 0 -> A] /\ Law(r, 0)
    OBVIOUS
  <2> HIDE DEF r, Law
  <2> QED
    BY <2>1
<1>2. ASSUME NEW k \in 1 .. m, k - 1 \in T PROVE k \in T
  <2>1. PICK r \in [0 .. k - 1 -> A] : Law(r, k - 1)
    BY <1>2
  <2> DEFINE q == [n \in 0 .. k |-> IF n = k THEN h[r[k - 1]] ELSE r[n]]
  <2>2. q \in [0 .. k -> A]
    OBVIOUS
  <2>3. q[0] = a
    BY <2>1
  <2>4. ASSUME NEW n \in 1 .. k PROVE q[n] = h[q[n - 1]]
    <3>1. q[n - 1] = r[n - 1]
      OBVIOUS
    <3>2. n # k => n \in 1 .. k - 1
      OBVIOUS
    <3> QED
      BY <2>1, <3>1, <3>2
  <2>5. Law(q, k)
    BY <2>3, <2>4
  <2> HIDE DEF q, Law
  <2>6. \E g \in [0 .. k -> A] : Law(g, k)
    BY <2>2, <2>5
  <2> QED
    BY <2>6
<1>3. 0 .. m \subseteq T
  BY <1>1, <1>2, Upward
<1>4. \E r \in [0 .. m -> A] : Law(r, m)
  BY <1>3
<1>5. \A r : Law(r, m) => Iterates(r, a, h, m)
  BY DEF Iterates
<1> HIDE DEF Law
<1> QED
  BY <1>4, <1>5

-----------------------------------------------------------------------------
(* The parser. *)

(* The sector holds words, no one of which is a length that leads back.     *)
Sane(f) == f \in [Words -> Nat \cup {ERASED}]

Begin   == [at |-> 0, last |-> None]
Go(f, s) == IF Ended(f, s) THEN s ELSE Entry(f, s)

(* The parser's way through a sector.                                       *)
Way(f, r) ==
  /\ r \in [0 .. W -> Places] /\ r[0] = Begin /\ r[W] = Scan(f)
  /\ \A n \in 1 .. W : r[n] = Go(f, r[n - 1])

(* An entry is read within the window, and the next one lies behind it.     *)
LEMMA EntryType ==
  ASSUME NEW f, Sane(f), NEW s \in Places, ~Ended(f, s)
  PROVE  /\ s.at \in Window /\ Entry(f, s) \in Places
         /\ Entry(f, s).at = NoRoom \/ Entry(f, s).at >= s.at + 2
<1>1. s.at \in Window /\ s.last \in [len : Int, value : Int]
  BY DEF Ended, Places
<1>2. W \in Nat /\ S \in Nat /\ W + 3 <= S /\ ERASED \in Int
  BY Sizes, WordAssumption
<1>3. s.at \in Words /\ s.at + 1 \in Words /\ s.at \in Nat
  BY <1>1, <1>2 DEF Window, Words
<1>4. f[s.at] \in Int /\ f[s.at + 1] \in Int /\ Skip(f[s.at + 1]) \in Nat
  BY <1>2, <1>3 DEF Sane, Skip
<1>5. At(f, s.at + 2) \in Int
  <2>1. s.at + 2 \in Words
    BY <1>1, <1>2 DEF Window, Words
  <2> QED
    BY <2>1, <1>2 DEF At, Sane
<1> DEFINE next == s.at + 2 + Skip(f[s.at + 1])
           new  == IF f[s.at] = TAG_TFTP_SRV
                   THEN [len |-> f[s.at + 1], value |-> At(f, s.at + 2)] ELSE s.last
<1>6. next \in Nat /\ next >= s.at + 2
  BY <1>3, <1>4
<1>7. new \in [len : Int, value : Int]
  BY <1>1, <1>4, <1>5
<1>8. CASE s.at + 1 \in Window /\ next \in Window
  <2>1. Entry(f, s) = [at |-> next, last |-> new]
    BY <1>8 DEF Entry
  <2> HIDE DEF next, new
  <2> QED
    BY <2>1, <1>1, <1>6, <1>7, <1>8 DEF Places
<1>9. CASE ~(s.at + 1 \in Window /\ next \in Window)
  <2>1. Entry(f, s) = [s EXCEPT !.at = NoRoom]
    BY <1>9 DEF Entry
  <2> QED
    BY <2>1, <1>1 DEF Places
<1> QED
  BY <1>1, <1>8, <1>9

(* The parser has a way through every sector.                               *)
LEMMA WayExists ==
  ASSUME NEW f, Sane(f)
  PROVE  \E r : Way(f, r)
<1> DEFINE step == [s \in Places |-> IF Ended(f, s) THEN s ELSE Entry(f, s)]
           Law(g) == g = [n \in 0 .. W |-> IF n = 0 THEN [at |-> 0, last |-> None] ELSE step[g[n - 1]]]
<1>1. W \in Nat /\ W >= 6
  BY Sizes
<1>2. Begin \in Places
  BY <1>1 DEF Begin, Places, None, Window
<1>3. step \in [Places -> Places]
  BY EntryType
<1>4. \E r \in [0 .. W -> Places] : Law(r)
  <2>1. PICK r \in [0 .. W -> Places] : Iterates(r, Begin, step, W)
    <3>1. W \in Nat
      BY <1>1
    <3> HIDE DEF step
    <3> QED
      BY <3>1, <1>2, <1>3, Iterate
  <2>2. Law(r)
    <3> HIDE DEF step
    <3> QED
      BY <1>1, <2>1 DEF Begin, Iterates
  <2> HIDE DEF Law
  <2> QED
    BY <2>2
<1> DEFINE after == CHOOSE g : Law(g)
<1>5. Law(after)
  <2> HIDE DEF Law
  <2> QED
    BY <1>4
<1>6. Scan(f) = after[W]
  BY DEF Scan
<1> HIDE DEF after
<1>7. after[0] = Begin
  BY <1>1, <1>5 DEF Begin
<1>8. ASSUME NEW n \in 1 .. W PROVE after[n] = step[after[n - 1]]
  BY <1>1, <1>5
<1> DEFINE T == {n \in 0 .. W : after[n] \in Places}
<1>9. 0 .. W \subseteq T
  <2>1. 0 \in T
    BY <1>1, <1>2, <1>7
  <2>2. ASSUME NEW n \in 1 .. W, n - 1 \in T PROVE n \in T
    <3> HIDE DEF step
    <3> QED
      BY <1>1, <1>3, <1>8, <2>2
  <2> QED
    BY <1>1, <2>1, <2>2, Upward
<1>10. after \in [0 .. W -> Places]
  BY <1>5, <1>9
<1>11. ASSUME NEW n \in 1 .. W PROVE after[n] = Go(f, after[n - 1])
  <2>1. n - 1 \in 0 .. W
    BY <1>1
  <2> QED
    BY <1>8, <1>10, <2>1 DEF Go
<1> QED
  BY <1>1, <1>6, <1>7, <1>10, <1>11 DEF Way

(* The places on a way.                                                     *)
LEMMA OnTheWay ==
  ASSUME NEW f, NEW r, Way(f, r), NEW n \in 0 .. W
  PROVE  /\ r[n] \in Places /\ r[n].at \in Window \cup {NoRoom}
         /\ n # 0 => n - 1 \in 0 .. W /\ r[n] = Go(f, r[n - 1])
<1>1. r[n] \in Places
  BY DEF Way
<1>2. n # 0 => n - 1 \in 0 .. W /\ n \in 1 .. W
  BY Sizes
<1> QED
  BY <1>1, <1>2 DEF Way, Places

(* Where the parser has come to an end it stays.                            *)
LEMMA Stays ==
  ASSUME NEW f, NEW r, Way(f, r), NEW m \in 0 .. W, Ended(f, r[m])
  PROVE  Scan(f) = r[m]
<1>0. W \in Nat
  BY Sizes
<1> DEFINE T == {n \in 0 .. W : n >= m => r[n] = r[m]}
<1>1. 0 \in T
  BY <1>0
<1>2. ASSUME NEW n \in 1 .. W, n - 1 \in T PROVE n \in T
  <2>1. n > m => r[n] = Go(f, r[n - 1]) /\ r[n - 1] = r[m]
    BY <1>0, <1>2, OnTheWay
  <2>2. Go(f, r[m]) = r[m]
    BY DEF Go
  <2> QED
    BY <1>0, <2>1, <2>2
<1>3. 0 .. W \subseteq T
  BY <1>0, <1>1, <1>2, Upward
<1>4. W \in T
  BY <1>0, <1>3
<1> QED
  BY <1>0, <1>4 DEF Way

(* The parser comes to an end in every sector, since it goes forward by two *)
(* words at least.                                                          *)
LEMMA EveryWayEnds ==
  ASSUME NEW f, Sane(f)
  PROVE  Ended(f, Scan(f)) /\ ~ Loops(f) /\ Scan(f) \in Places
<1>0. W \in Nat /\ W >= 6
  BY Sizes
<1>1. PICK r : Way(f, r)
  BY WayExists
<1> DEFINE T == {n \in 0 .. W : Ended(f, r[n]) \/ r[n].at >= 2 * n}
<1>2. 0 \in T
  BY <1>0, <1>1 DEF Way, Begin
<1>3. ASSUME NEW n \in 1 .. W, n - 1 \in T PROVE n \in T
  <2>1. /\ n \in 0 .. W /\ r[n - 1] \in Places /\ r[n] = Go(f, r[n - 1])
        /\ r[n].at \in Window \cup {NoRoom}
    BY <1>0, <1>1, OnTheWay
  <2>2. CASE Ended(f, r[n - 1])
    BY <2>1, <2>2 DEF Go
  <2>3. CASE ~Ended(f, r[n - 1])
    <3>1. r[n] = Entry(f, r[n - 1])
      BY <2>1, <2>3 DEF Go
    <3>2. r[n].at = NoRoom \/ r[n].at >= r[n - 1].at + 2
      BY <2>1, <2>3, <3>1, EntryType
    <3>3. CASE r[n].at = NoRoom
      BY <2>1, <3>3 DEF Ended
    <3>4. CASE r[n].at # NoRoom
      <4>1. r[n - 1].at >= 2 * (n - 1)
        BY <1>3, <2>3
      <4>2. r[n - 1].at \in Int /\ r[n].at \in Int
        BY <2>1, <2>3, EntryType, <1>0 DEF Window, NoRoom
      <4> QED
        BY <2>1, <3>2, <3>4, <4>1, <4>2
    <3> QED
      BY <3>3, <3>4
  <2> QED
    BY <2>2, <2>3
<1>4. 0 .. W \subseteq T
  <2> HIDE DEF T
  <2> QED
    BY <1>0, <1>2, <1>3, Upward
<1>5. W \in T
  BY <1>0, <1>4
<1>6. r[W].at \in Window \cup {NoRoom} /\ r[W] \in Places
  BY <1>0, <1>1, OnTheWay
<1>7. Ended(f, r[W])
  BY <1>0, <1>5, <1>6 DEF Window, NoRoom
<1> QED
  BY <1>1, <1>6, <1>7 DEF Way, Loops

-----------------------------------------------------------------------------
(* What is written at the end of the log does not change the way there. *)

(* The last entry at the end of the log may have its value there.           *)
SameLast(s, t, word) ==
  \/ t.last = s.last
  \/ /\ s.last.len \in {0, ERASED} /\ s.last.value = ERASED
     /\ t.last = [len |-> s.last.len, value |-> word]

(* g is f as far as e, the first word that f has free.                      *)
Grows(f, g, e) ==
  /\ Sane(f) /\ Sane(g)
  /\ e \in Window /\ f[e] = ERASED
  /\ \A i \in 0 .. e - 1 : g[i] = f[i]

LEMMA SameEntry ==
  ASSUME NEW f, NEW g, NEW e, Grows(f, g, e),
         NEW s \in Places, s.at \in 0 .. e - 1, ~Ended(f, s)
  PROVE  /\ ~Ended(g, s)
         /\ \/ Entry(f, s).at = NoRoom
            \/ Entry(f, s).at > e
            \/ Entry(f, s).at < e /\ Entry(g, s) = Entry(f, s)
            \/ /\ Entry(f, s).at = e /\ Entry(g, s).at = e
               /\ SameLast(Entry(f, s), Entry(g, s), g[e])
<1>1. W \in Nat /\ S \in Nat /\ W + 3 <= S /\ ERASED \in Int /\ e \in Nat /\ e < W
  BY Sizes, WordAssumption DEF Grows, Window
<1>2. PICK a \in 0 .. e - 1 : a = s.at
  OBVIOUS
<1>3. ~Ended(g, s)
  BY <1>2 DEF Ended, Grows, NoRoom
<1>4. PICK skip \in Nat : skip = Skip(f[a + 1])
  <2>1. a + 1 \in Words
    BY <1>1 DEF Words
  <2> QED
    BY <1>1, <2>1 DEF Skip, Grows, Sane
<1>5. PICK next \in Nat : next = a + 2 + skip
  BY <1>1
<1>6. CASE ~(a + 1 \in Window /\ next \in Window)
  <2>1. Entry(f, s) = [s EXCEPT !.at = NoRoom]
    BY <1>2, <1>4, <1>5, <1>6 DEF Entry
  <2> QED
    BY <1>3, <2>1 DEF Places
<1>7. CASE a + 1 \in Window /\ next \in Window
  <2>1. Entry(f, s).at = next
    BY <1>2, <1>4, <1>5, <1>7 DEF Entry
  <2>2. CASE next > e
    BY <1>3, <2>1, <2>2
  <2>3. CASE next <= e
    <3>1. a + 1 \in 0 .. e - 1
      BY <1>1, <1>5, <2>3
    <3>2. g[a] = f[a] /\ g[a + 1] = f[a + 1]
      BY <3>1 DEF Grows
    <3>3. Entry(g, s).at = next
      BY <1>2, <1>4, <1>5, <1>7, <3>2 DEF Entry
    <3>4. a + 2 \in Window
      BY <1>1, <1>5, <2>3 DEF Window
    <3>5. /\ Entry(f, s) = [at   |-> next,
                            last |-> IF f[a] = TAG_TFTP_SRV
                                     THEN [len |-> f[a + 1], value |-> f[a + 2]] ELSE s.last]
          /\ Entry(g, s) = [at   |-> next,
                            last |-> IF f[a] = TAG_TFTP_SRV
                                     THEN [len |-> f[a + 1], value |-> g[a + 2]] ELSE s.last]
      BY <1>2, <1>4, <1>5, <1>7, <3>2, <3>4 DEF Entry, At
    <3>6. CASE a + 2 < e
      <4>1. g[a + 2] = f[a + 2]
        BY <3>6, <1>1 DEF Grows
      <4> QED
        BY <1>3, <2>1, <2>3, <3>5, <4>1, <1>1 DEF SameLast
    <3>7. CASE a + 2 = e
      <4>1. next = e /\ skip = 0
        BY <1>1, <1>5, <2>3, <3>7
      <4>2. f[a + 1] \in {0, ERASED}
        BY <1>4, <4>1 DEF Skip
      <4>3. f[a + 2] = ERASED
        BY <3>7 DEF Grows
      <4> QED
        BY <1>3, <2>1, <3>5, <3>7, <4>1, <4>2, <4>3 DEF SameLast
    <3> QED
      BY <1>1, <1>5, <2>3, <3>6, <3>7
  <2> QED
    BY <1>1, <2>2, <2>3
<1> QED
  BY <1>6, <1>7

(* The parser of g comes to where that of f ends, with the same last entry  *)
(* or one whose value is there, and ends after the entry there.             *)
LEMMA SameWay ==
  ASSUME NEW f, NEW g, NEW e, Grows(f, g, e), Scan(f).at = e
  PROVE  \E t \in Places :
           /\ t.at = e /\ SameLast(Scan(f), t, g[e])
           /\ Ended(g, Go(g, t)) => Scan(g) = Go(g, t)
<1>0. W \in Nat /\ W >= 6 /\ e \in Nat /\ e < W
  BY Sizes DEF Grows, Window
<1>1. PICK r : Way(f, r)
  BY WayExists DEF Grows
<1>2. PICK q : Way(g, q)
  BY WayExists DEF Grows
<1> DEFINE Together(n) == /\ q[n] = r[n] /\ ~Ended(f, r[n])
                          /\ r[n].at \in 0 .. e - 1 /\ r[n].at >= 2 * n
           There(n)    == \E m \in 0 .. e : /\ r[n].at = e /\ q[m].at = e
                                            /\ SameLast(r[n], q[m], g[e])
           Lost(n)     == \/ r[n].at = NoRoom \/ r[n].at > e
                          \/ r[n].at < e /\ Ended(f, r[n])
           T           == {n \in 0 .. W : Together(n) \/ There(n) \/ Lost(n)}
<1>3. 0 \in T
  <2>1. r[0] = Begin /\ q[0] = Begin /\ Begin.at = 0
    BY <1>1, <1>2 DEF Way, Begin
  <2>2. CASE e = 0
    <3>1. There(0)
      BY <1>0, <2>1, <2>2 DEF SameLast
    <3> QED
      BY <1>0, <3>1
  <2>3. CASE e > 0
    <3>1. Together(0) \/ Lost(0)
      BY <1>0, <2>1, <2>3
    <3> QED
      BY <1>0, <3>1
  <2> QED
    BY <1>0, <2>2, <2>3
<1>4. ASSUME NEW n \in 1 .. W, n - 1 \in T PROVE n \in T
  <2>1. /\ n \in 0 .. W /\ n - 1 \in 0 .. W
        /\ r[n - 1] \in Places /\ r[n] = Go(f, r[n - 1])
        /\ q[n] = Go(g, q[n - 1])
    BY <1>0, <1>1, <1>2, OnTheWay
  <2>2. CASE Together(n - 1)
    <3>1. /\ ~Ended(g, r[n - 1])
          /\ \/ Entry(f, r[n - 1]).at = NoRoom
             \/ Entry(f, r[n - 1]).at > e
             \/ Entry(f, r[n - 1]).at < e /\ Entry(g, r[n - 1]) = Entry(f, r[n - 1])
             \/ /\ Entry(f, r[n - 1]).at = e /\ Entry(g, r[n - 1]).at = e
                /\ SameLast(Entry(f, r[n - 1]), Entry(g, r[n - 1]), g[e])
      BY <2>1, <2>2, SameEntry
    <3>2. r[n] = Entry(f, r[n - 1]) /\ q[n] = Entry(g, r[n - 1])
      BY <2>1, <2>2, <3>1 DEF Go
    <3>3. /\ r[n] \in Places
          /\ r[n].at = NoRoom \/ r[n].at >= r[n - 1].at + 2
      BY <2>1, <2>2, <3>2, EntryType DEF Grows
    <3>4. r[n].at = NoRoom \/ (r[n].at \in Nat /\ r[n].at >= 2 * n)
      <4>1. r[n - 1].at >= 2 * (n - 1) /\ r[n - 1].at \in Int
        BY <2>2
      <4>2. r[n].at \in Int
        BY <3>3, <1>0 DEF Places, Window, NoRoom
      <4> QED
        BY <3>3, <4>1, <4>2
    <3>5. CASE r[n].at = NoRoom \/ r[n].at > e
      BY <2>1, <3>5
    <3>6. CASE r[n].at < e /\ r[n].at # NoRoom
      <4>1. Together(n) \/ Lost(n)
        BY <1>0, <3>1, <3>2, <3>4, <3>6
      <4> QED
        BY <2>1, <4>1
    <3>7. CASE r[n].at = e
      <4>1. n \in 0 .. e
        BY <1>0, <3>4, <3>7 DEF NoRoom
      <4>2. q[n].at = e /\ SameLast(r[n], q[n], g[e])
        BY <1>0, <3>1, <3>2, <3>7 DEF NoRoom
      <4>3. There(n)
        BY <4>1, <4>2, <3>7
      <4> QED
        BY <2>1, <4>3
    <3> QED
      BY <1>0, <3>4, <3>5, <3>6, <3>7
  <2>3. CASE There(n - 1)
    <3>1. Ended(f, r[n - 1])
      BY <2>3 DEF Ended, Grows
    <3>2. r[n] = r[n - 1]
      BY <2>1, <3>1 DEF Go
    <3> QED
      BY <2>1, <2>3, <3>2
  <2>4. CASE Lost(n - 1)
    <3>1. CASE Ended(f, r[n - 1])
      BY <2>1, <2>4, <3>1 DEF Go
    <3>2. CASE ~Ended(f, r[n - 1])
      <4>1. r[n - 1].at > e /\ r[n - 1].at \in Int
        BY <2>1, <2>4, <3>2, <1>0 DEF Ended, Places, Window, NoRoom
      <4>2. r[n] = Entry(f, r[n - 1])
        BY <2>1, <3>2 DEF Go
      <4>3. r[n].at = NoRoom \/ (r[n].at >= r[n - 1].at + 2 /\ r[n].at \in Int)
        BY <2>1, <3>2, <4>2, EntryType, <1>0 DEF Grows, Places, Window
      <4> QED
        BY <1>0, <2>1, <4>1, <4>3
    <3> QED
      BY <3>1, <3>2
  <2> QED
    BY <1>4, <2>2, <2>3, <2>4
<1>5. W \in T
  <2>1. 0 .. W \subseteq T
    <3> HIDE DEF T
    <3> QED
      BY <1>0, <1>3, <1>4, Upward
  <2> QED
    BY <1>0, <2>1
<1>6. r[W] = Scan(f) /\ r[W].at = e
  BY <1>1 DEF Way
<1>7. There(W)
  BY <1>0, <1>5, <1>6 DEF NoRoom
<1>8. PICK m \in 0 .. e : q[m].at = e /\ SameLast(Scan(f), q[m], g[e])
  BY <1>6, <1>7
<1>9. q[m] \in Places /\ m + 1 \in 0 .. W /\ q[m + 1] = Go(g, q[m])
  <2>1. m \in 0 .. W /\ m + 1 \in 0 .. W /\ m + 1 # 0 /\ (m + 1) - 1 = m
    BY <1>0
  <2> QED
    BY <1>2, <2>1, OnTheWay
<1>10. Ended(g, Go(g, q[m])) => Scan(g) = Go(g, q[m])
  BY <1>2, <1>9, Stays
<1> QED
  BY <1>8, <1>9, <1>10

-----------------------------------------------------------------------------
(* The log. *)

(* An interrupted write of a length, the 4 of a 32-bit value, leaves the    *)
(* bit of 4 set, so as a rule it is a word at least.  Taken are those that  *)
(* lead on; not those that lead back, which ConfigLoop shows, or, less than *)
(* a word below 2^32, nowhere.  The images that are flashed over the sector *)
(* have no word that leads back either.                                     *)
Tame == TornLens \subseteq Nat \ {0} /\ Fills \subseteq Nat \cup {ERASED}

(* What an address that is saved can be: ShellAccept() and "tftp" take one  *)
(* of IPs, and a reboot whatever the last entry has.                        *)
Values == IPs \cup {0, ERASED, TAG_TFTP_SRV} \cup TornTags \cup TornIPs

Known(last) == last = None \/ last.value \in Values

(* Everything from the place of the next entry on is erased.                *)
Appendable(f) ==
  /\ Scan(f).at \in Window
  /\ \A i \in Words : i >= Scan(f).at => f[i] = ERASED
  /\ Scan(f).last = None \/ Scan(f).last.len # 0

(* The window is full, and nothing is written until the sector is erased.   *)
Closed(f) == Scan(f).at = NoRoom /\ ~CheckEmpty(f)

(* An image without an entry and without an erased word, whatever has been  *)
(* ANDed with it.                                                           *)
Solid(f) == \A i \in Words : f[i] \notin {ERASED, TAG_TFTP_SRV}

Log(f) ==
  /\ Sane(f)
  /\ Solid(f) \/ (Known(Scan(f).last) /\ (Appendable(f) \/ Closed(f)))

(* f with an entry at e.                                                    *)
Put(f, e, tag, len, value) ==
  [i \in Words |-> IF i = e THEN tag ELSE IF i = e + 1 THEN len
                   ELSE IF i = e + 2 THEN value ELSE f[i]]

(* An entry, or what of it has been programmed.                             *)
MayBePut(tag, len, value) ==
  /\ tag \in {TAG_TFTP_SRV} \cup TornTags
  /\ len \in {1, ERASED} \cup TornLens
  /\ value \in Values
  /\ len = ERASED => value = ERASED
  /\ tag # TAG_TFTP_SRV => len = ERASED

LEMMA WordFacts ==
  /\ ERASED \in Int /\ TAG_TFTP_SRV \in Nat /\ ERASED # 0 /\ ERASED # 1
  /\ ERASED # TAG_TFTP_SRV
  /\ ERASED \notin TornTags /\ ERASED \notin IPs /\ TAG_TFTP_SRV \notin TornTags
  /\ IPs \subseteq Nat /\ TornTags \subseteq Nat /\ TornIPs \subseteq Nat
  /\ Values \subseteq Nat \cup {ERASED}
BY WordAssumption DEF Values

(* An empty sector has pages that are all alike: one with an entry has not, *)
(* since a page further on it is erased.                                    *)
LEMMA NotEmpty ==
  ASSUME NEW f, NEW e \in Window, f[e] # f[e + P]
  PROVE  ~CheckEmpty(f)
<1>1. /\ W \in Nat /\ S \in Nat /\ P \in Nat \ {0} /\ W + P <= S
      /\ e \in Nat /\ e < W
  BY Sizes DEF Window
<1>2. e \in Words /\ e + P \in Words
  BY <1>1 DEF Words
<1>3. (e + P) % P = e % P
  BY <1>1, SameRest
<1>4. CheckEmpty(f) => f[e] = f[P + (e % P)] /\ f[e + P] = f[P + ((e + P) % P)]
  BY <1>2 DEF CheckEmpty
<1> QED
  BY <1>3, <1>4

(* The parser of a log that got an entry finds it, if it is complete up to  *)
(* its length and leads to a place in the window; or what it found before,  *)
(* except that an entry that was interrupted behind its tag has the next    *)
(* tag for its value.                                                       *)
LEMMA EntryIsFound ==
  ASSUME Tame, NEW f, Sane(f), Known(Scan(f).last), Appendable(f),
         NEW tag, NEW len, NEW value, MayBePut(tag, len, value)
  PROVE  LET e == Scan(f).at
             g == Put(f, e, tag, len, value)
         IN  /\ Log(g)
             /\ IF e + 1 \in Window /\ e + 2 + Skip(len) \in Window /\ tag = TAG_TFTP_SRV
                THEN Scan(g).last = [len |-> len, value |-> value]
                ELSE \/ Scan(g).last = Scan(f).last
                     \/ /\ Scan(f).last # None /\ Scan(f).last.len = ERASED
                        /\ Scan(g).last = [len |-> ERASED, value |-> tag]
             /\ e + 1 \in Window /\ e + 2 + Skip(len) \in Window =>
                  Scan(g).at = e + 2 + Skip(len)
<1> DEFINE e == Scan(f).at
           g == Put(f, e, tag, len, value)
<1>0. /\ W \in Nat /\ S \in Nat /\ W + 3 <= S /\ Window \subseteq Words
      /\ e \in Nat /\ e < W /\ e \in Window /\ e # NoRoom
  BY Sizes DEF Appendable, Window, NoRoom
<1>1. e \in Words /\ e + 1 \in Words /\ e + 2 \in Words
  BY <1>0 DEF Words
<1>2. /\ tag \in Nat /\ tag # ERASED
      /\ len \in Nat \cup {ERASED} /\ len # 0 /\ value \in Nat \cup {ERASED}
  <2>1. tag \in Nat /\ tag # ERASED
    BY WordFacts DEF MayBePut
  <2>2. len \in Nat \cup {ERASED} /\ len # 0
    BY WordFacts DEF MayBePut, Tame
  <2>3. value \in Nat \cup {ERASED}
    BY WordFacts DEF MayBePut
  <2> QED
    BY <2>1, <2>2, <2>3
<1>3. /\ g[e] = tag /\ g[e + 1] = len /\ g[e + 2] = value
      /\ \A i \in 0 .. e - 1 : g[i] = f[i]
      /\ \A i \in Words : i > e + 2 => g[i] = ERASED
  <2>1. \A i \in Words : i >= e => f[i] = ERASED
    BY DEF Appendable
  <2> HIDE DEF e
  <2> QED
    BY <1>0, <1>1, <2>1 DEF Put, Words
<1>4. Sane(g)
  BY <1>2 DEF Sane, Put
<1>5. Grows(f, g, e)
  BY <1>0, <1>1, <1>3, <1>4 DEF Grows, Appendable
<1> HIDE DEF e, g
<1>6. PICK t \in Places :
        /\ t.at = e /\ SameLast(Scan(f), t, tag)
        /\ Ended(g, Go(g, t)) => Scan(g) = Go(g, t)
  BY <1>3, <1>5, SameWay DEF e
<1>7. Go(g, t) = Entry(g, t)
  BY <1>0, <1>2, <1>3, <1>6 DEF Go, Ended
<1>8. PICK skip \in Nat : skip = Skip(len)
  BY <1>2 DEF Skip
<1>9. PICK next \in Nat : next = e + 2 + skip
  BY <1>0
<1> DEFINE fits == e + 1 \in Window /\ next \in Window
<1>10. fits => Entry(g, t) = [at   |-> next,
                              last |-> IF tag = TAG_TFTP_SRV
                                       THEN [len |-> len, value |-> value] ELSE t.last]
  <2>1. fits => e + 2 \in Window
    BY <1>0, <1>9 DEF Window
  <2> QED
    BY <1>3, <1>6, <1>8, <1>9, <2>1 DEF Entry, At
<1>11. ~fits => Entry(g, t).at = NoRoom /\ Entry(g, t).last = t.last
  BY <1>3, <1>6, <1>8, <1>9 DEF Entry, Places
<1>12. fits => \A i \in Words : i >= next => g[i] = ERASED
  <2>1. CASE len = ERASED
    <3>1. value = ERASED /\ skip = 0
      BY <2>1, <1>8 DEF MayBePut, Skip
    <3> QED
      BY <1>0, <1>3, <1>9, <3>1 DEF Words
  <2>2. CASE len # ERASED
    <3>1. skip >= 1
      BY <2>2, <1>2, <1>8 DEF Skip
    <3> QED
      BY <1>0, <1>3, <1>9, <3>1 DEF Words
  <2> QED
    BY <2>1, <2>2
<1>13. Ended(g, Entry(g, t))
  <2>1. CASE fits
    <3>1. next \in Words
      BY <1>0, <2>1
    <3> QED
      BY <1>10, <1>12, <2>1, <3>1 DEF Ended
  <2>2. CASE ~fits
    BY <1>11, <2>2 DEF Ended
  <2> QED
    BY <2>1, <2>2
<1>14. Scan(g) = Entry(g, t)
  BY <1>6, <1>7, <1>13
<1>15. \/ t.last = Scan(f).last
       \/ /\ Scan(f).last # None /\ Scan(f).last.len = ERASED
          /\ t.last = [len |-> ERASED, value |-> tag]
  <2>1. Scan(f).last.len = 0 /\ Scan(f).last.value = ERASED => FALSE
    BY WordFacts DEF Appendable, None
  <2>2. Scan(f).last.len = ERASED => Scan(f).last # None
    BY WordFacts DEF None
  <2> QED
    BY <1>6, <2>1, <2>2 DEF SameLast
<1>16. IF fits /\ tag = TAG_TFTP_SRV
       THEN Scan(g).last = [len |-> len, value |-> value]
       ELSE \/ Scan(g).last = Scan(f).last
            \/ /\ Scan(f).last # None /\ Scan(f).last.len = ERASED
               /\ Scan(g).last = [len |-> ERASED, value |-> tag]
  BY <1>10, <1>11, <1>14, <1>15
<1>17. Known(Scan(g).last)
  <2>1. tag \in Values /\ value \in Values
    BY DEF MayBePut, Values
  <2> QED
    BY <1>16, <2>1 DEF Known
<1>18. Appendable(g) \/ Closed(g)
  <2>1. CASE fits
    <3>1. Scan(g).at = next /\ next \in Window
      BY <1>10, <1>14, <2>1
    <3>2. Scan(g).last = None \/ Scan(g).last.len # 0
      BY <1>2, <1>16, WordFacts DEF Appendable
    <3> QED
      BY <1>12, <2>1, <3>1, <3>2 DEF Appendable
  <2>2. CASE ~fits
    <3>1. Scan(g).at = NoRoom
      BY <1>11, <1>14, <2>2
    <3>2. ~CheckEmpty(g)
      <4>1. e + P \in Words /\ e + P > e + 2
        BY <1>0, Sizes DEF Words
      <4>2. g[e + P] = ERASED /\ g[e] # ERASED
        BY <1>2, <1>3, <4>1
      <4> QED
        BY <1>0, <4>2, NotEmpty
    <3> QED
      BY <3>1, <3>2 DEF Closed
  <2> QED
    BY <2>1, <2>2
<1>19. Log(g)
  BY <1>4, <1>17, <1>18 DEF Log
<1>20. fits => Scan(g).at = next
  BY <1>10, <1>14
<1> QED
  BY <1>8, <1>9, <1>16, <1>19, <1>20 DEF e, g

-----------------------------------------------------------------------------
(* What writing does to the log. *)

(* In a solid sector there is no entry and no end, and what is written      *)
(* there leaves it solid.                                                   *)
LEMMA SolidIsLog ==
  ASSUME NEW f, Sane(f), Solid(f)
  PROVE  Log(f) /\ Scan(f).at = NoRoom /\ Scan(f).last = None
<1>0. W \in Nat /\ W >= 6
  BY Sizes
<1>2. PICK r : Way(f, r)
  BY WayExists
<1> DEFINE T == {n \in 0 .. W : r[n].last = None}
<1>3. 0 \in T
  BY <1>0, <1>2 DEF Way, Begin
<1>4. ASSUME NEW n \in 1 .. W, n - 1 \in T PROVE n \in T
  <2>1. r[n] = Go(f, r[n - 1]) /\ r[n - 1] \in Places /\ n \in 0 .. W
    BY <1>0, <1>2, OnTheWay
  <2>2. CASE Ended(f, r[n - 1])
    BY <1>4, <2>1, <2>2 DEF Go
  <2>3. CASE ~Ended(f, r[n - 1])
    <3>1. r[n - 1].at \in Words
      BY <2>1, <2>3, EntryType, Sizes
    <3>2. f[r[n - 1].at] # TAG_TFTP_SRV
      BY <3>1 DEF Solid
    <3>3. Entry(f, r[n - 1]).last = r[n - 1].last
      BY <2>1, <3>2 DEF Entry, Places
    <3> QED
      BY <1>4, <2>1, <2>3, <3>3 DEF Go
  <2> QED
    BY <2>2, <2>3
<1>5. Scan(f).last = None
  <2>1. 0 .. W \subseteq T
    <3> HIDE DEF T
    <3> QED
      BY <1>0, <1>3, <1>4, Upward
  <2> QED
    BY <1>0, <1>2, <2>1 DEF Way
<1>6. Scan(f).at = NoRoom
  <2>1. Ended(f, Scan(f)) /\ Scan(f).at \in Window \cup {NoRoom}
    BY EveryWayEnds DEF Places
  <2> QED
    BY <2>1, Sizes DEF Ended, Solid
<1> QED
  BY <1>5, <1>6 DEF Log

LEMMA ProgramTyped ==
  ASSUME NEW old \in Nat \cup {ERASED}, NEW new \in Nat \cup {ERASED}
  PROVE  /\ Program(old, new) \in Nat \cup {ERASED}
         /\ old \notin {ERASED, TAG_TFTP_SRV}
              => Program(old, new) \notin {ERASED, TAG_TFTP_SRV}
         /\ Program(ERASED, new) = new /\ Program(old, ERASED) = old
BY WordFacts, WordAssumption DEF Program

LEMMA WrittenTyped ==
  ASSUME NEW f, Sane(f), NEW ip \in Values, NEW behind \in Behind
  PROVE  /\ Sane(Written(f, ip, behind))
         /\ Solid(f) => Solid(Written(f, ip, behind))
<1> DEFINE at == ParseDataBlock(f)
<1>1. \A i \in Words : NewWord(at, ip, behind, i) \in Nat \cup {ERASED}
  <2>0. PICK a : a = at
    OBVIOUS
  <2>1. at \in Window \cup {NoRoom, 0}
    BY EveryWayEnds DEF ParseDataBlock, Places
  <2>2. a \in Int /\ W \in Nat
    BY <2>0, <2>1, Sizes DEF Window, NoRoom
  <2>3. ASSUME NEW i \in Words PROVE NewWord(a, ip, behind, i) \in Nat \cup {ERASED}
    <3>1. i \in Int
      BY DEF Words
    <3>2. CASE i - a \in 0 .. 2
      <4>1. NewEntry(ip)[i - a] \in Nat \cup {ERASED}
        BY <3>2, WordFacts DEF NewEntry
      <4> QED
        BY <3>2, <4>1 DEF NewWord
    <3>3. CASE ~(i - a \in 0 .. 2) /\ Crosses(a) /\ i \in a + 3 .. W + 2
      <4>1. i \in {W + 1, W + 2}
        BY <2>2, <3>1, <3>3 DEF Crosses
      <4>2. behind[i] \in Nat \cup {ERASED}
        BY <4>1, WordAssumption DEF Behind
      <4> QED
        BY <3>3, <4>2 DEF NewWord
    <3>4. CASE ~(i - a \in 0 .. 2) /\ ~(Crosses(a) /\ i \in a + 3 .. W + 2)
      BY <3>4 DEF NewWord
    <3> QED
      BY <3>2, <3>3, <3>4
  <2> QED
    BY <2>0, <2>3
<1> HIDE DEF at
<1>2. \A i \in Words : Written(f, ip, behind)[i] = Program(f[i], NewWord(at, ip, behind, i))
  BY DEF Written, at
<1>3. Sane(Written(f, ip, behind))
  BY <1>1, <1>2, ProgramTyped DEF Sane, Written
<1>4. Solid(f) => Solid(Written(f, ip, behind))
  BY <1>1, <1>2, ProgramTyped DEF Sane, Solid
<1> QED
  BY <1>3, <1>4

LEMMA TornTyped ==
  ASSUME Tame, NEW f, Sane(f), Solid(f), NEW ip \in Values, NEW n \in 0 .. 2,
         NEW word \in Tears(n)
  PROVE  Sane(Torn(f, ip, n, word)) /\ Solid(Torn(f, ip, n, word))
<1>1. word \in Nat \cup {ERASED}
  BY WordFacts DEF Tears, Tame
<1>2. ASSUME NEW i \in Words
      PROVE  /\ Torn(f, ip, n, word)[i] \in Nat \cup {ERASED}
             /\ Torn(f, ip, n, word)[i] \notin {ERASED, TAG_TFTP_SRV}
  <2>1. PICK at : at = ParseDataBlock(f)
    OBVIOUS
  <2>2. i - at \in 0 .. n - 1 => NewEntry(ip)[i - at] \in Nat \cup {ERASED}
    <3>1. i - at \in 0 .. n - 1 => i - at \in 0 .. 2
      OBVIOUS
    <3> QED
      BY <3>1, WordFacts DEF NewEntry
  <2>3. Torn(f, ip, n, word)[i] = CASE i - at \in 0 .. n - 1 -> Program(f[i], NewEntry(ip)[i - at])
                                     [] i - at = n            -> Program(f[i], word)
                                     [] OTHER                 -> f[i]
    BY <2>1 DEF Torn
  <2>4. f[i] \in Nat \cup {ERASED} /\ f[i] \notin {ERASED, TAG_TFTP_SRV}
    BY DEF Sane, Solid
  <2>5. \E new \in Nat \cup {ERASED} : Torn(f, ip, n, word)[i] = Program(f[i], new)
    <3>1. CASE i - at \in 0 .. n - 1
      BY <2>2, <2>3, <3>1
    <3>2. CASE i - at \notin 0 .. n - 1 /\ i - at = n
      BY <1>1, <2>3, <3>2
    <3>3. CASE i - at \notin 0 .. n - 1 /\ i - at # n
      BY <2>3, <2>4, <3>3, ProgramTyped
    <3> QED
      BY <3>1, <3>2, <3>3
  <2> QED
    BY <2>4, <2>5, ProgramTyped
<1> QED
  BY <1>2 DEF Sane, Solid, Torn

(* What is written to a sector that is mistaken for an empty one is written *)
(* once: its first page is not like the others any more.                    *)
LEMMA SolidOnce ==
  ASSUME NEW f, Sane(f), Solid(f), Writes(f), NEW ip \in Values, NEW behind \in Behind,
         Written(f, ip, behind) # f
  PROVE  ~Writes(Written(f, ip, behind))
<1> DEFINE g == Written(f, ip, behind)
<1>0. W \in Nat /\ S \in Nat /\ P \in Nat /\ P >= 5 /\ W >= 6 /\ W + P <= S
  BY Sizes
<1>1. Scan(f).at = NoRoom /\ CheckEmpty(f) /\ ParseDataBlock(f) = 0
  BY SolidIsLog DEF Writes, ParseDataBlock
<1>2. \A i \in Words : i > 2 => g[i] = f[i]
  <2>1. ASSUME NEW i \in Words, i > 2 PROVE NewWord(0, ip, behind, i) = ERASED
    BY <1>0, <2>1 DEF NewWord, Crosses, Words
  <2>2. \A i \in Words : Program(f[i], ERASED) = f[i]
    BY ProgramTyped DEF Sane
  <2> QED
    BY <1>1, <2>1, <2>2 DEF Written
<1>3. PICK i \in Words : g[i] # f[i]
  BY DEF Written, Sane
<1>4. i \in Window /\ i <= 2 /\ i \in Words /\ i + P \in Words /\ i + P > 2
  BY <1>0, <1>2, <1>3 DEF Window, Words
<1>5. f[i] = f[i + P]
  BY <1>1, <1>4, NotEmpty
<1>6. g[i] # g[i + P]
  BY <1>2, <1>3, <1>4, <1>5
<1>7. ~CheckEmpty(g)
  <2> HIDE DEF g
  <2> QED
    BY <1>4, <1>6, NotEmpty
<1>8. Scan(g).at = NoRoom
  BY WrittenTyped, SolidIsLog
<1> QED
  BY <1>7, <1>8 DEF Writes, ParseDataBlock

(* An erased sector is an empty log.                                        *)
LEMMA ErasedIsLog ==
  ASSUME NEW f, f = [i \in Words |-> ERASED]
  PROVE  Log(f) /\ Scan(f).last = None
<1>0. W \in Nat /\ W >= 6 /\ Window \subseteq Words /\ 0 \in Window
  BY Sizes DEF Window
<1>1. Sane(f)
  BY DEF Sane
<1>2. PICK r : Way(f, r)
  BY <1>1, WayExists
<1>3. r[0] = Begin /\ Ended(f, r[0])
  BY <1>0, <1>2 DEF Way, Begin, Ended
<1>4. Scan(f) = Begin
  BY <1>0, <1>2, <1>3, Stays
<1> QED
  BY <1>0, <1>1, <1>4 DEF Log, Known, Appendable, Begin

(* Entries are only written where the log can be appended to, or to a       *)
(* sector that is mistaken for an empty one.                                *)
LEMMA WritesAtEnd ==
  ASSUME NEW f, Log(f), Writes(f)
  PROVE  IF Solid(f) THEN Mistaken(f)
         ELSE /\ Sane(f) /\ Known(Scan(f).last) /\ Appendable(f)
              /\ ParseDataBlock(f) = Scan(f).at
<1>1. CASE Solid(f)
  <2>1. Scan(f).at = NoRoom
    BY <1>1, SolidIsLog DEF Log
  <2> QED
    BY <1>1, <2>1 DEF Writes, ParseDataBlock, Mistaken
<1>2. CASE ~Solid(f)
  <2>1. ~Closed(f)
    BY DEF Closed, Writes, ParseDataBlock
  <2> QED
    BY <1>2, <2>1, Sizes DEF Log, Appendable, ParseDataBlock, Window, NoRoom
<1> QED
  BY <1>1, <1>2

LEMMA WrittenWords ==
  ASSUME NEW f, Sane(f), Appendable(f), ParseDataBlock(f) = Scan(f).at,
         NEW ip \in Values, NEW behind \in Behind, NEW e, e = Scan(f).at
  PROVE  /\ e \in Nat /\ e < W
         /\ Written(f, ip, behind)
              = [i \in Words |-> IF i < e THEN f[i] ELSE NewWord(e, ip, behind, i)]
<1>1. e \in Nat /\ e < W /\ W \in Nat
  BY Sizes DEF Appendable, Window
<1>2. ASSUME NEW i \in Words
      PROVE  Program(f[i], NewWord(e, ip, behind, i))
               = IF i < e THEN f[i] ELSE NewWord(e, ip, behind, i)
  <2>1. i \in Int /\ f[i] \in Nat \cup {ERASED}
    BY DEF Words, Sane
  <2>2. CASE i < e
    <3>1. NewWord(e, ip, behind, i) = ERASED
      BY <1>1, <2>1, <2>2 DEF NewWord
    <3> QED
      BY <2>1, <2>2, <3>1, ProgramTyped
  <2>3. CASE ~(i < e)
    <3>1. f[i] = ERASED
      BY <1>1, <2>1, <2>3 DEF Appendable
    <3> QED
      BY <2>3, <3>1 DEF Program
  <2> QED
    BY <2>2, <2>3
<1>3. Written(f, ip, behind) = [i \in Words |-> Program(f[i], NewWord(e, ip, behind, i))]
  BY DEF Written
<1> QED
  BY <1>1, <1>2, <1>3

LEMMA WrittenIsPut ==
  ASSUME NEW f, Sane(f), Appendable(f), ParseDataBlock(f) = Scan(f).at,
         NEW ip \in Values, NEW behind \in Behind, ~Crosses(Scan(f).at)
  PROVE  Written(f, ip, behind) = Put(f, Scan(f).at, TAG_TFTP_SRV, 1, ip)
<1>1. PICK e : e = Scan(f).at
  OBVIOUS
<1>2. /\ e \in Nat /\ e < W /\ W \in Nat
      /\ Written(f, ip, behind)
           = [i \in Words |-> IF i < e THEN f[i] ELSE NewWord(e, ip, behind, i)]
  BY <1>1, WrittenWords, Sizes
<1>3. ASSUME NEW i \in Words
      PROVE  (IF i < e THEN f[i] ELSE NewWord(e, ip, behind, i))
               = Put(f, e, TAG_TFTP_SRV, 1, ip)[i]
  <2>1. i \in Int
    BY DEF Words
  <2>2. CASE i < e
    BY <1>2, <2>1, <2>2 DEF Put
  <2>3. CASE i - e \in 0 .. 2
    <3>1. NewWord(e, ip, behind, i) = NewEntry(ip)[i - e]
      BY <2>3 DEF NewWord
    <3>2. NewEntry(ip)[i - e] = IF i = e THEN TAG_TFTP_SRV ELSE IF i = e + 1 THEN 1 ELSE ip
      BY <1>2, <2>1, <2>3 DEF NewEntry
    <3>3. i = e \/ i = e + 1 \/ i = e + 2
      BY <1>2, <2>1, <2>3
    <3> QED
      BY <1>2, <3>1, <3>2, <3>3 DEF Put
  <2>4. CASE ~(i < e) /\ ~(i - e \in 0 .. 2)
    <3>1. f[i] = ERASED
      BY <1>1, <1>2, <2>1, <2>4 DEF Appendable
    <3>2. NewWord(e, ip, behind, i) = ERASED
      BY <1>1, <2>4 DEF NewWord
    <3> QED
      BY <1>2, <2>1, <2>4, <3>1, <3>2 DEF Put
  <2> QED
    BY <2>2, <2>3, <2>4
<1> QED
  BY <1>1, <1>2, <1>3 DEF Put

(* The entry in the last words of the window closes the block.              *)
LEMMA CrossingCloses ==
  ASSUME NEW f, Sane(f), Known(Scan(f).last), Appendable(f),
         ParseDataBlock(f) = Scan(f).at, Crosses(Scan(f).at),
         NEW ip \in Values, NEW behind \in Behind
  PROVE  LET g == Written(f, ip, behind)
         IN  /\ Log(g)
             /\ \A i \in Words : f[i] # ERASED => g[i] = f[i]
             /\ Scan(f).at + 3 \notin Window
             /\ \/ Scan(g).last = Scan(f).last
                \/ /\ Scan(f).last # None
                   /\ Scan(g).last = [len |-> ERASED, value |-> TAG_TFTP_SRV]
<1> DEFINE g == Written(f, ip, behind)
<1>1. PICK e : e = Scan(f).at
  OBVIOUS
<1>2. /\ e \in Nat /\ e < W /\ W \in Nat /\ S \in Nat /\ P \in Nat /\ P >= 5 /\ W + P <= S
      /\ g = [i \in Words |-> IF i < e THEN f[i] ELSE NewWord(e, ip, behind, i)]
  BY <1>1, WrittenWords, Sizes
<1>3. e + 2 >= W /\ e \in Window /\ e \in Words /\ e + 1 \in Words /\ e + P \in Words /\ e # NoRoom
  BY <1>1, <1>2 DEF Crosses, Window, Words, NoRoom
<1>4. /\ g[e] = TAG_TFTP_SRV /\ g[e + 1] = 1 /\ g[e + P] = ERASED
      /\ \A i \in 0 .. e - 1 : g[i] = f[i]
  <2>1. NewWord(e, ip, behind, e) = TAG_TFTP_SRV /\ NewWord(e, ip, behind, e + 1) = 1
    BY <1>2 DEF NewWord, NewEntry
  <2>2. NewWord(e, ip, behind, e + P) = ERASED
    BY <1>2, <1>3 DEF NewWord
  <2>3. \A i \in 0 .. e - 1 : i \in Words
    BY <1>2 DEF Words
  <2> QED
    BY <1>2, <1>3, <2>1, <2>2, <2>3
<1>5. Sane(g)
  BY WrittenTyped
<1>6. f[e] = ERASED
  BY <1>1, <1>2, <1>3 DEF Appendable
<1>7. \A i \in Words : f[i] # ERASED => g[i] = f[i]
  <2>1. \A i \in Words : i >= e => f[i] = ERASED
    BY <1>1 DEF Appendable
  <2> QED
    BY <1>2, <2>1 DEF Words
<1> HIDE DEF g
<1>8. Grows(f, g, e)
  BY <1>3, <1>4, <1>5, <1>6 DEF Grows
<1>9. PICK t \in Places :
        /\ t.at = e /\ SameLast(Scan(f), t, g[e])
        /\ Ended(g, Go(g, t)) => Scan(g) = Go(g, t)
  BY <1>1, <1>8, SameWay
<1>10. Go(g, t) = Entry(g, t)
  BY <1>3, <1>4, <1>9, WordFacts DEF Go, Ended
<1>11. Entry(g, t).at = NoRoom /\ Entry(g, t).last = t.last
  <2>1. Skip(1) = 1
    BY WordFacts DEF Skip
  <2>2. e + 2 + 1 \notin Window
    BY <1>2, <1>3 DEF Window
  <2> QED
    BY <1>4, <1>9, <2>1, <2>2 DEF Entry, Places
<1>12. Scan(g).at = NoRoom /\ Scan(g).last = t.last
  BY <1>9, <1>10, <1>11 DEF Ended
<1>13. \/ t.last = Scan(f).last
       \/ /\ Scan(f).last # None
          /\ t.last = [len |-> ERASED, value |-> TAG_TFTP_SRV]
  <2>1. Scan(f).last.len = 0 /\ Scan(f).last.value = ERASED => FALSE
    BY WordFacts DEF Appendable, None
  <2>2. Scan(f).last.len = ERASED => Scan(f).last # None
    BY WordFacts DEF None
  <2> QED
    BY <1>4, <1>9, <2>1, <2>2 DEF SameLast
<1>14. Known(Scan(g).last)
  BY <1>12, <1>13 DEF Known, Values
<1>15. ~CheckEmpty(g)
  BY <1>3, <1>4, NotEmpty, WordFacts
<1>16. Log(g)
  BY <1>5, <1>12, <1>14, <1>15 DEF Log, Closed
<1>17. Scan(f).at + 3 \notin Window
  BY <1>1, <1>2, <1>3 DEF Window
<1> QED
  BY <1>7, <1>12, <1>13, <1>16, <1>17 DEF g

LEMMA TornIsPut ==
  ASSUME NEW f, Sane(f), Appendable(f), ParseDataBlock(f) = Scan(f).at,
         NEW ip, NEW n \in 0 .. 2, NEW word \in Tears(n)
  PROVE  \/ Torn(f, ip, n, word) = f
         \/ \E tag, len, value :
              /\ MayBePut(tag, len, value) /\ value \in {ERASED} \cup TornIPs
              /\ Torn(f, ip, n, word) = Put(f, Scan(f).at, tag, len, value)
<1>1. PICK e \in Nat : e = Scan(f).at
  BY Sizes DEF Appendable, Window
<1>2. ASSUME NEW i \in Words
      PROVE  /\ i \in Int
             /\ Torn(f, ip, n, word)[i] = IF i - e \in 0 .. n - 1 THEN NewEntry(ip)[i - e]
                                         ELSE IF i = e + n THEN word ELSE f[i]
             /\ i >= e => f[i] = ERASED
  <2>1. i \in Int
    BY DEF Words
  <2>2. i >= e => f[i] = ERASED
    BY <1>1 DEF Appendable
  <2>3. CASE i - e \in 0 .. n - 1
    BY <1>1, <2>1, <2>2, <2>3 DEF Torn, Program
  <2>4. CASE i = e + n
    <3>1. f[i] = ERASED /\ i - e = n /\ i - e \notin 0 .. n - 1
      BY <1>1, <2>1, <2>2, <2>4
    <3> QED
      BY <1>1, <3>1, <2>4 DEF Torn, Program
  <2>5. CASE ~(i - e \in 0 .. n - 1) /\ i # e + n
    BY <1>1, <2>1, <2>2, <2>5 DEF Torn
  <2> QED
    BY <2>1, <2>2, <2>3, <2>4, <2>5
<1>3. NewEntry(ip)[0] = TAG_TFTP_SRV /\ NewEntry(ip)[1] = 1
  BY DEF NewEntry
<1> DEFINE h == Torn(f, ip, n, word)
<1>4. /\ f = [i \in Words |-> f[i]] /\ h = [i \in Words |-> h[i]]
  BY DEF Sane, Torn
<1>5. CASE n = 0
  <2>1. word \in {ERASED} \cup TornTags
    BY <1>5 DEF Tears
  <2>2. CASE word = ERASED
    <3>1. ASSUME NEW i \in Words PROVE h[i] = f[i]
      BY <1>2, <1>5, <2>2
    <3> HIDE DEF h
    <3> QED
      BY <1>4, <3>1 DEF h
  <2>3. CASE word \in TornTags
    <3>1. MayBePut(word, ERASED, ERASED)
      BY <2>3 DEF MayBePut, Values
    <3>2. ASSUME NEW i \in Words PROVE h[i] = Put(f, e, word, ERASED, ERASED)[i]
      BY <1>2, <1>5 DEF Put
    <3>3. h = Put(f, e, word, ERASED, ERASED)
      <4> HIDE DEF h
      <4> QED
        BY <1>4, <3>2 DEF Put
    <3> QED
      BY <1>1, <3>1, <3>3
  <2> QED
    BY <2>1, <2>2, <2>3
<1>6. CASE n = 1
  <2>1. word \in {ERASED} \cup TornLens
    BY <1>6 DEF Tears
  <2>2. MayBePut(TAG_TFTP_SRV, word, ERASED)
    BY <2>1 DEF MayBePut, Values
  <2>3. ASSUME NEW i \in Words PROVE h[i] = Put(f, e, TAG_TFTP_SRV, word, ERASED)[i]
    <3>1. CASE i = e
      BY <1>2, <1>3, <1>6, <3>1 DEF Put
    <3>2. CASE i # e
      BY <1>2, <1>6, <3>2 DEF Put
    <3> QED
      BY <3>1, <3>2
  <2>4. h = Put(f, e, TAG_TFTP_SRV, word, ERASED)
    <3> HIDE DEF h
    <3> QED
      BY <1>4, <2>3 DEF Put
  <2> QED
    BY <1>1, <2>2, <2>4
<1>7. CASE n = 2
  <2>1. word \in {ERASED} \cup TornIPs
    BY <1>7 DEF Tears
  <2>2. MayBePut(TAG_TFTP_SRV, 1, word)
    BY <2>1, WordFacts DEF MayBePut, Values
  <2>3. ASSUME NEW i \in Words PROVE h[i] = Put(f, e, TAG_TFTP_SRV, 1, word)[i]
    <3>1. CASE i = e
      BY <1>2, <1>3, <1>7, <3>1 DEF Put
    <3>2. CASE i = e + 1
      BY <1>2, <1>3, <1>7, <3>2 DEF Put
    <3>3. CASE i # e /\ i # e + 1
      BY <1>2, <1>7, <3>3 DEF Put
    <3> QED
      BY <3>1, <3>2, <3>3
  <2>4. h = Put(f, e, TAG_TFTP_SRV, 1, word)
    <3> HIDE DEF h
    <3> QED
      BY <1>4, <2>3 DEF Put
  <2> QED
    BY <1>1, <2>1, <2>2, <2>4
<1> QED
  BY <1>5, <1>6, <1>7

(* The words before the end of the log stay.                                *)
LEMMA PutKeeps ==
  ASSUME NEW f, Sane(f), Appendable(f), NEW tag, NEW len, NEW value,
         NEW i \in Words, f[i] # ERASED
  PROVE  Put(f, Scan(f).at, tag, len, value)[i] = f[i]
<1>1. Scan(f).at \in Nat /\ i \in Nat
  BY Sizes DEF Appendable, Window, Words
<1>2. i < Scan(f).at
  BY <1>1 DEF Appendable
<1> QED
  BY <1>1, <1>2 DEF Put

(* A write that is completed saves the address, if it fits the window.      *)
LEMMA WriteSaves ==
  ASSUME Tame, NEW f, Log(f), Writes(f), NEW ip \in Values, NEW behind \in Behind
  PROVE  LET g == Written(f, ip, behind)
         IN  /\ Log(g)
             /\ ~Mistaken(f) => \A i \in Words : f[i] # ERASED => g[i] = f[i]
             /\ ~Mistaken(f) /\ ParseDataBlock(f) + 3 \in Window =>
                  Scan(g).last = [len |-> 1, value |-> ip]
             /\ \/ Scan(g).last = [len |-> 1, value |-> ip]
                \/ Scan(g).last = Scan(f).last
                \/ /\ Scan(f).last # None
                   /\ Scan(g).last = [len |-> ERASED, value |-> TAG_TFTP_SRV]
<1>1. CASE Solid(f)
  <2>1. Mistaken(f) /\ Scan(f).last = None
    BY <1>1, WritesAtEnd, SolidIsLog DEF Log
  <2>2. Sane(Written(f, ip, behind)) /\ Solid(Written(f, ip, behind))
    BY <1>1, WrittenTyped DEF Log
  <2>3. Log(Written(f, ip, behind)) /\ Scan(Written(f, ip, behind)).last = None
    BY <2>2, SolidIsLog
  <2> QED
    BY <2>1, <2>3
<1>2. CASE ~Solid(f) /\ ~Crosses(Scan(f).at)
  <2> DEFINE e == Scan(f).at
             g == Put(f, e, TAG_TFTP_SRV, 1, ip)
  <2>1. Sane(f) /\ Known(Scan(f).last) /\ Appendable(f) /\ ParseDataBlock(f) = e
    BY <1>2, WritesAtEnd
  <2>2. Written(f, ip, behind) = g
    BY <1>2, <2>1, WrittenIsPut
  <2>3. MayBePut(TAG_TFTP_SRV, 1, ip)
    BY WordFacts DEF MayBePut
  <2>4. e + 2 + Skip(1) = e + 3 /\ (e + 3 \in Window => e + 1 \in Window)
    BY <2>1, Sizes, WordFacts DEF Skip, Appendable, Window
  <2>5. /\ Log(g)
        /\ IF e + 1 \in Window /\ e + 2 + Skip(1) \in Window /\ TAG_TFTP_SRV = TAG_TFTP_SRV
           THEN Scan(g).last = [len |-> 1, value |-> ip]
           ELSE \/ Scan(g).last = Scan(f).last
                \/ /\ Scan(f).last # None /\ Scan(f).last.len = ERASED
                   /\ Scan(g).last = [len |-> ERASED, value |-> TAG_TFTP_SRV]
    <3> HIDE DEF e, g
    <3>1. e = Scan(f).at /\ g = Put(f, e, TAG_TFTP_SRV, 1, ip)
      BY DEF e, g
    <3> QED
      BY <2>1, <2>3, <3>1, EntryIsFound
  <2>6. \A i \in Words : f[i] # ERASED => g[i] = f[i]
    BY <2>1, PutKeeps
  <2> HIDE DEF e, g
  <2> QED
    BY <2>1, <2>2, <2>4, <2>5, <2>6
<1>3. CASE ~Solid(f) /\ Crosses(Scan(f).at)
  <2>1. Sane(f) /\ Known(Scan(f).last) /\ Appendable(f) /\ ParseDataBlock(f) = Scan(f).at
    BY <1>3, WritesAtEnd
  <2> QED
    BY <1>3, <2>1, CrossingCloses
<1> QED
  BY <1>1, <1>2, <1>3

(* One that is interrupted saves it, or a part of it, or nothing.           *)
LEMMA TornSaves ==
  ASSUME Tame, NEW f, Log(f), Writes(f), NEW ip \in Values, NEW n \in 0 .. 2,
         NEW word \in Tears(n)
  PROVE  LET g == Torn(f, ip, n, word)
         IN  /\ Log(g)
             /\ ~Mistaken(f) => \A i \in Words : f[i] # ERASED => g[i] = f[i]
             /\ \/ Scan(g).last = Scan(f).last
                \/ Scan(g).last # None /\ Scan(g).last.value \in {ERASED} \cup TornIPs
                \/ /\ Scan(f).last # None /\ Scan(f).last.len = ERASED
                   /\ Scan(g).last.value \in Values
<1>1. CASE Solid(f)
  <2>1. Mistaken(f) /\ Scan(f).last = None
    BY <1>1, WritesAtEnd, SolidIsLog DEF Log
  <2>2. Sane(Torn(f, ip, n, word)) /\ Solid(Torn(f, ip, n, word))
    BY <1>1, TornTyped DEF Log
  <2>3. Log(Torn(f, ip, n, word)) /\ Scan(Torn(f, ip, n, word)).last = None
    BY <2>2, SolidIsLog
  <2> QED
    BY <2>1, <2>3
<1>2. CASE Torn(f, ip, n, word) = f
  BY <1>2
<1>3. CASE ~Solid(f) /\ Torn(f, ip, n, word) # f
  <2>1. /\ Sane(f) /\ Known(Scan(f).last) /\ Appendable(f)
        /\ ParseDataBlock(f) = Scan(f).at
    BY <1>3, WritesAtEnd
  <2>2. PICK tag, len, value :
          /\ MayBePut(tag, len, value) /\ value \in {ERASED} \cup TornIPs
          /\ Torn(f, ip, n, word) = Put(f, Scan(f).at, tag, len, value)
    BY <1>3, <2>1, TornIsPut
  <2> DEFINE g == Put(f, Scan(f).at, tag, len, value)
  <2>3. /\ Log(g)
        /\ \/ Scan(g).last = [len |-> len, value |-> value]
           \/ Scan(g).last = Scan(f).last
           \/ /\ Scan(f).last # None /\ Scan(f).last.len = ERASED
              /\ Scan(g).last = [len |-> ERASED, value |-> tag]
    BY <2>1, <2>2, EntryIsFound
  <2>4. \A i \in Words : f[i] # ERASED => g[i] = f[i]
    BY <2>1, PutKeeps
  <2>5. [len |-> len, value |-> value] # None
    BY <2>2, WordFacts DEF MayBePut, None, Tame
  <2>6. tag \in Values
    BY <2>2 DEF MayBePut, Values
  <2>7. Torn(f, ip, n, word) = g
    BY <2>2
  <2> HIDE DEF g
  <2> QED
    BY <2>2, <2>3, <2>4, <2>5, <2>6, <2>7
<1> QED
  BY <1>1, <1>2, <1>3

-----------------------------------------------------------------------------
(* The inductive invariant. *)

LogInv == Log(flash) /\ ServerIP \in Values /\ hung = FALSE

(* Applying a log makes an address.                                         *)
LEMMA AppliedKnown ==
  ASSUME NEW f, Log(f), NEW ip \in Values
  PROVE  Applied(f, ip) \in Values /\ ~Loops(f)
<1>1. Known(Scan(f).last)
  BY SolidIsLog DEF Log, Known
<1>2. ~Loops(f)
  BY EveryWayEnds DEF Log
<1> QED
  BY <1>1, <1>2 DEF Known, Applied

LEMMA InitLog == Init => LogInv
<1> SUFFICES ASSUME Init PROVE LogInv
  OBVIOUS
<1>1. Log(flash)
  BY ErasedIsLog DEF Init
<1> QED
  BY <1>1 DEF Init, LogInv, Values

(* The steps, as they change the log and the address.                       *)
LEMMA AddSteps ==
  ASSUME Tame, LogInv, NEW ip \in Values, AddBoardInfo(ip)
  PROVE  \/ UNCHANGED vars
         \/ /\ Writes(flash) /\ \E behind \in Behind : flash' = Written(flash, ip, behind)
            /\ Log(flash') /\ ServerIP' = Applied(flash', ServerIP) /\ hung' = FALSE
<1>1. CASE Writes(flash)
  <2>1. PICK behind \in Behind : flash' = Written(flash, ip, behind)
    BY <1>1 DEF AddBoardInfo
  <2>2. Log(flash')
    BY <1>1, <2>1, WriteSaves DEF LogInv
  <2>3. Loops(flash') = FALSE
    BY <2>2, AppliedKnown DEF Values
  <2> QED
    BY <1>1, <2>1, <2>2, <2>3 DEF AddBoardInfo
<1>2. CASE ~Writes(flash)
  BY <1>2 DEF AddBoardInfo
<1> QED
  BY <1>1, <1>2

LEMMA PowerSteps ==
  ASSUME Tame, LogInv, NEW ip \in Values, PowerFails(ip)
  PROVE  /\ Writes(flash) /\ Log(flash') /\ ServerIP' = Applied(flash', 0) /\ hung' = FALSE
         /\ \E n \in 0 .. 2 : \E word \in Tears(n) : flash' = Torn(flash, ip, n, word)
<1>1. Writes(flash) /\ \E n \in 0 .. 2 : \E word \in Tears(n) : flash' = Torn(flash, ip, n, word)
  BY DEF PowerFails
<1>2. Log(flash')
  BY <1>1, TornSaves DEF LogInv
<1>3. Loops(flash') = FALSE
  BY <1>2, AppliedKnown DEF Values
<1> QED
  BY <1>1, <1>2, <1>3 DEF PowerFails, Boots

LEMMA FillSteps ==
  ASSUME Tame, NEW f, NEW word \in Fills \cup {ERASED}, f = [i \in Words |-> word]
  PROVE  Log(f) /\ Scan(f).last = None
<1>1. CASE word = ERASED
  BY <1>1, ErasedIsLog
<1>2. CASE word \in Fills /\ word # ERASED
  <2>1. Sane(f) /\ Solid(f)
    BY <1>2, WordAssumption DEF Sane, Solid, Tame
  <2> QED
    BY <2>1, SolidIsLog
<1> QED
  BY <1>1, <1>2

LEMMA NextKeepsLog == Tame /\ LogInv /\ [Next]_vars => LogInv'
<1> SUFFICES ASSUME Tame, LogInv, [Next]_vars PROVE LogInv'
  OBVIOUS
<1>0. IPs \subseteq Values /\ 0 \in Values /\ ServerIP \in Values
  BY DEF Values, LogInv
<1>1. ASSUME NEW ip \in Values, AddBoardInfo(ip) PROVE LogInv'
  <2>1. CASE UNCHANGED vars
    BY <2>1 DEF LogInv, vars
  <2>2. CASE Log(flash') /\ ServerIP' = Applied(flash', ServerIP) /\ hung' = FALSE
    BY <1>0, <2>2, AppliedKnown DEF LogInv
  <2> QED
    BY <1>1, <2>1, <2>2, AddSteps
<1>2. ASSUME NEW ip \in IPs, TftpCmd(ip) PROVE LogInv'
  BY <1>0, <1>1, <1>2 DEF TftpCmd
<1>3. ASSUME NEW ip \in IPs, ShellAccept(ip) PROVE LogInv'
  BY <1>0, <1>3 DEF ShellAccept, LogInv
<1>4. CASE CommitCmd
  <2>1. CASE CheckDataTag(flash, ServerIP)
    BY <1>0, <1>1, <1>4, <2>1 DEF CommitCmd
  <2>2. CASE ~CheckDataTag(flash, ServerIP)
    BY <1>4, <2>2 DEF CommitCmd, LogInv, vars
  <2> QED
    BY <2>1, <2>2
<1>5. CASE EraseCmd
  BY <1>5, ErasedIsLog DEF EraseCmd, LogInv
<1>6. ASSUME NEW word \in Fills, FlashCmd(word) PROVE LogInv'
  BY <1>6, FillSteps DEF FlashCmd, LogInv
<1>7. CASE Reboot
  BY <1>0, <1>7, AppliedKnown DEF Reboot, Boots, LogInv
<1>8. ASSUME NEW ip \in IPs \cup {ServerIP}, PowerFails(ip) PROVE LogInv'
  <2>1. ip \in Values
    BY <1>0
  <2>2. Log(flash') /\ ServerIP' = Applied(flash', 0) /\ hung' = FALSE
    BY <1>8, <2>1, PowerSteps
  <2> QED
    BY <1>0, <2>2, AppliedKnown DEF LogInv
<1>9. CASE UNCHANGED vars
  BY <1>9 DEF LogInv, vars
<1> QED
  BY <1>2, <1>3, <1>4, <1>5, <1>6, <1>7, <1>8, <1>9 DEF Next

LEMMA LogAlways == Tame => (Spec => []LogInv)
<1> SUFFICES ASSUME Tame PROVE Spec => []LogInv
  OBVIOUS
<1>1. LogInv /\ [Next]_vars => LogInv'
  BY NextKeepsLog
<1> QED
  BY InitLog, <1>1, PTL DEF Spec

-----------------------------------------------------------------------------
(* CompletedIsSaved for every instance that is Tame: the entry that "tftp"  *)
(* wrote in the window is the last one, and the address in use.             *)
THEOREM CompletedSaves == Tame => (Spec => CompletedIsSaved)
<1> SUFFICES ASSUME Tame PROVE Spec => CompletedIsSaved
  OBVIOUS
<1> DEFINE Step == \A ip \in IPs :
                     /\ TftpCmd(ip) /\ flash' # flash
                     /\ ~Mistaken(flash) /\ ParseDataBlock(flash) + 3 \in Window
                     => ~hung' /\ ServerIP' = ip /\ Applied(flash', 0) = ip
<1>1. ASSUME LogInv PROVE Step
  <2> SUFFICES ASSUME NEW ip \in IPs, TftpCmd(ip), flash' # flash,
                      ~Mistaken(flash), ParseDataBlock(flash) + 3 \in Window
               PROVE  ~hung' /\ ServerIP' = ip /\ Applied(flash', 0) = ip
    OBVIOUS
  <2>1. ip \in Values
    BY DEF Values
  <2>2. /\ Writes(flash) /\ \E behind \in Behind : flash' = Written(flash, ip, behind)
        /\ ServerIP' = Applied(flash', ServerIP) /\ hung' = FALSE
    BY <1>1, <2>1, AddSteps DEF TftpCmd, vars
  <2>3. Scan(flash').last = [len |-> 1, value |-> ip]
    BY <1>1, <2>1, <2>2, WriteSaves DEF LogInv
  <2> QED
    BY <2>2, <2>3 DEF Applied, None
<1>2. CompletedIsSaved <=> [][Step]_vars
  BY DEF CompletedIsSaved
<1> HIDE DEF Step
<1> QED
  BY <1>1, <1>2, LogAlways, PTL DEF Spec

(* TornIsLocal for every such instance: where the power fails during a      *)
(* write, the entries before it are found as they were.                     *)
THEOREM TornStaysLocal == Tame => (Spec => TornIsLocal)
<1> SUFFICES ASSUME Tame PROVE Spec => TornIsLocal
  OBVIOUS
<1> DEFINE Step == \A ip \in IPs : PowerFails(ip) /\ ~hung' /\ Scan(flash).last.len # ERASED =>
                     Applied(flash', 0) \in {Applied(flash, 0), ip, ERASED} \cup TornIPs
<1>1. ASSUME LogInv PROVE Step
  <2> SUFFICES ASSUME NEW ip \in IPs, PowerFails(ip), Scan(flash).last.len # ERASED
               PROVE  Applied(flash', 0) \in {Applied(flash, 0), ip, ERASED} \cup TornIPs
    OBVIOUS
  <2>1. ip \in Values
    BY DEF Values
  <2>2. Writes(flash) /\ \E n \in 0 .. 2 : \E word \in Tears(n) : flash' = Torn(flash, ip, n, word)
    BY <1>1, <2>1, PowerSteps
  <2>3. \/ Scan(flash').last = Scan(flash).last
        \/ Scan(flash').last # None /\ Scan(flash').last.value \in {ERASED} \cup TornIPs
    <3>1. Log(flash)
      BY <1>1 DEF LogInv
    <3>2. PICK n \in 0 .. 2 : \E word \in Tears(n) : flash' = Torn(flash, ip, n, word)
      BY <2>2
    <3>0. PICK word \in Tears(n) : flash' = Torn(flash, ip, n, word)
      BY <3>2
    <3>3. LET g == Torn(flash, ip, n, word)
          IN  \/ Scan(g).last = Scan(flash).last
              \/ Scan(g).last # None /\ Scan(g).last.value \in {ERASED} \cup TornIPs
              \/ Scan(flash).last.len = ERASED
      BY <2>1, <2>2, <3>1, TornSaves
    <3> QED
      BY <3>0, <3>3
  <2> QED
    BY <2>3 DEF Applied
<1>2. TornIsLocal <=> [][Step]_vars
  BY DEF TornIsLocal
<1> HIDE DEF Step
<1> QED
  BY <1>1, <1>2, LogAlways, PTL DEF Spec

(* ProgrammedStays for every such instance: writing, complete or not, only  *)
(* programs words that are erased, unless the sector is mistaken for an     *)
(* empty one.                                                               *)
THEOREM OnlyErasedIsWritten == Tame => (Spec => ProgrammedStays)
<1> SUFFICES ASSUME Tame PROVE Spec => ProgrammedStays
  OBVIOUS
<1> DEFINE Kept == \A i \in Words : flash[i] # ERASED => flash'[i] = flash[i]
           Step == /\ ~EraseCmd /\ ~(\E word \in Fills : FlashCmd(word))
                   /\ ~Mistaken(flash)
                   => Kept
<1>1. ASSUME LogInv, [Next]_vars PROVE Step
  <2> SUFFICES ASSUME ~EraseCmd, ~(\E word \in Fills : FlashCmd(word)), ~Mistaken(flash)
               PROVE  Kept
    OBVIOUS
  <2>0. IPs \subseteq Values /\ ServerIP \in Values
    BY <1>1 DEF Values, LogInv
  <2>1. ASSUME NEW ip \in Values, AddBoardInfo(ip) PROVE Kept
    <3>1. UNCHANGED vars \/ (Writes(flash) /\ \E behind \in Behind : flash' = Written(flash, ip, behind))
      BY <1>1, <2>1, AddSteps
    <3>2. CASE UNCHANGED vars
      BY <3>2 DEF vars
    <3>3. CASE Writes(flash) /\ \E behind \in Behind : flash' = Written(flash, ip, behind)
      <4>1. Log(flash)
        BY <1>1 DEF LogInv
      <4>2. PICK behind \in Behind : flash' = Written(flash, ip, behind)
        BY <3>3
      <4>3. \A i \in Words : flash[i] # ERASED => Written(flash, ip, behind)[i] = flash[i]
        BY <3>3, <4>1, WriteSaves
      <4> QED
        BY <4>2, <4>3
    <3> QED
      BY <3>1, <3>2, <3>3
  <2>2. ASSUME NEW ip \in IPs, TftpCmd(ip) PROVE Kept
    BY <2>0, <2>1, <2>2 DEF TftpCmd
  <2>3. ASSUME NEW ip \in IPs, ShellAccept(ip) PROVE Kept
    BY <2>3 DEF ShellAccept
  <2>4. CASE CommitCmd
    BY <2>0, <2>1, <2>4 DEF CommitCmd, vars
  <2>5. CASE Reboot
    BY <2>5 DEF Reboot
  <2>6. ASSUME NEW ip \in IPs \cup {ServerIP}, PowerFails(ip) PROVE Kept
    <3>1. ip \in Values
      BY <2>0
    <3>2. Writes(flash) /\ \E n \in 0 .. 2 : \E word \in Tears(n) : flash' = Torn(flash, ip, n, word)
      BY <1>1, <2>6, <3>1, PowerSteps
    <3> QED
      BY <1>1, <3>1, <3>2, TornSaves DEF LogInv
  <2>7. CASE UNCHANGED vars
    BY <2>7 DEF vars
  <2> HIDE DEF Kept
  <2> QED
    BY <1>1, <2>2, <2>3, <2>4, <2>5, <2>6, <2>7 DEF Next
<1>2. ProgrammedStays <=> [][Step]_vars
  BY DEF ProgrammedStays
<1> HIDE DEF Step
<1> QED
  BY <1>1, <1>2, LogAlways, PTL DEF Spec

(* CommitOnce for every such instance: what "commit" wrote in the window is *)
(* the address in use, and another one finds that it is; or the sector was  *)
(* mistaken for an empty one, and is not any more.                          *)
THEOREM CommitsOnce == Tame => (Spec => CommitOnce)
<1> SUFFICES ASSUME Tame PROVE Spec => CommitOnce
  OBVIOUS
<1> DEFINE Step == CommitCmd /\ flash' # flash /\ ParseDataBlock(flash) + 3 \in Window
                     => ~(CheckDataTag(flash', ServerIP') /\ Writes(flash'))
<1>1. ASSUME LogInv PROVE Step
  <2> SUFFICES ASSUME CommitCmd, flash' # flash, ParseDataBlock(flash) + 3 \in Window
               PROVE  ~(CheckDataTag(flash', ServerIP') /\ Writes(flash'))
    OBVIOUS
  <2>1. ServerIP \in Values /\ AddBoardInfo(ServerIP)
    BY <1>1 DEF CommitCmd, LogInv, vars
  <2>2. PICK behind \in Behind :
          /\ Writes(flash) /\ flash' = Written(flash, ServerIP, behind)
          /\ ServerIP' = Applied(flash', ServerIP)
    BY <1>1, <2>1, AddSteps DEF vars
  <2>3. CASE Solid(flash)
    BY <1>1, <2>1, <2>2, <2>3, SolidOnce DEF LogInv, Log
  <2>4. CASE ~Solid(flash)
    <3>1. ~Mistaken(flash)
      <4>1. Appendable(flash)
        BY <1>1, <2>2, <2>4, WritesAtEnd DEF LogInv
      <4> QED
        BY <4>1, Sizes DEF Mistaken, Appendable, Window, NoRoom
    <3>2. Scan(flash').last = [len |-> 1, value |-> ServerIP]
      BY <1>1, <2>1, <2>2, <3>1, WriteSaves DEF LogInv
    <3> QED
      BY <2>2, <3>2 DEF Applied, None, CheckDataTag
  <2> QED
    BY <2>3, <2>4
<1>2. CommitOnce <=> [][Step]_vars
  BY DEF CommitOnce
<1> HIDE DEF Step
<1> QED
  BY <1>1, <1>2, LogAlways, PTL DEF Spec

(* No boot goes round for ever as long as no length leads back, of an entry *)
(* that was torn, as ConfigLoop shows it, or of an image in the sector.     *)
THEOREM BootsEnd == Tame => (Spec => []InvalidLengthIgnored)
<1> SUFFICES ASSUME Tame PROVE Spec => []InvalidLengthIgnored
  OBVIOUS
<1>1. LogInv => InvalidLengthIgnored
  BY DEF LogInv, InvalidLengthIgnored
<1> QED
  BY <1>1, LogAlways, PTL

(* ImplementsSetting for every such instance: step by step the log is one   *)
(* setting that is saved, lost, or kept.                                    *)
THEOREM StoreIsSetting == Tame => (Spec => ImplementsSetting)
<1> SUFFICES ASSUME Tame PROVE Spec => ImplementsSetting
  OBVIOUS
<1> DEFINE Now  == Applied(flash, 0)
           Then == Applied(flash', 0)
<1>1. ASSUME Init PROVE Saved!Init
  <2>1. Scan(flash).last = None
    BY <1>1, ErasedIsLog DEF Init
  <2> QED
    BY <1>1, <2>1 DEF Init, Applied, Saved!Init
<1>2. ASSUME LogInv, [Next]_vars PROVE [Saved!Next]_(Saved!vars)
  <2>0. /\ IPs \subseteq Values /\ ServerIP \in Values
        /\ Values = IPs \cup {0} \cup (TornTags \cup TornIPs \cup {ERASED, TAG_TFTP_SRV})
    BY <1>2 DEF Values, LogInv
  <2>1. ASSUME Then \in Values, ServerIP' = Then PROVE Saved!Next
    BY <2>0, <2>1 DEF Saved!Next, Saved!Crash
  <2>2. ASSUME flash' = flash, ServerIP' = ServerIP PROVE UNCHANGED Saved!vars
    BY <2>2 DEF Saved!vars
  <2>3. ASSUME NEW ip \in Values, AddBoardInfo(ip) PROVE [Saved!Next]_(Saved!vars)
    <3>1. CASE UNCHANGED vars
      BY <2>2, <3>1 DEF vars
    <3>2. CASE /\ Writes(flash) /\ \E behind \in Behind : flash' = Written(flash, ip, behind)
               /\ Log(flash') /\ ServerIP' = Applied(flash', ServerIP)
      <4>1. \/ Scan(flash').last = [len |-> 1, value |-> ip]
            \/ Scan(flash').last = Scan(flash).last
            \/ /\ Scan(flash).last # None
               /\ Scan(flash').last = [len |-> ERASED, value |-> TAG_TFTP_SRV]
        BY <1>2, <2>3, <3>2, WriteSaves DEF LogInv
      <4>2. CASE Scan(flash').last # None
        <5>1. ServerIP' = Then /\ Then \in Values
          BY <2>0, <3>2, <4>2, AppliedKnown DEF Applied, Values
        <5> QED
          BY <2>1, <5>1
      <4>3. CASE Scan(flash').last = None
        <5>1. Scan(flash).last = None
          BY <4>1, <4>3, WordFacts DEF None
        <5>2. ServerIP' = ServerIP /\ Then = Now
          BY <3>2, <4>3, <5>1 DEF Applied
        <5> QED
          BY <5>2 DEF Saved!vars
      <4> QED
        BY <4>2, <4>3
    <3> QED
      BY <1>2, <2>3, <3>1, <3>2, AddSteps
  <2>4. ASSUME NEW ip \in IPs, TftpCmd(ip) PROVE [Saved!Next]_(Saved!vars)
    BY <2>0, <2>3, <2>4 DEF TftpCmd
  <2>5. ASSUME NEW ip \in IPs, ShellAccept(ip) PROVE Saved!Next
    BY <2>5 DEF ShellAccept, Saved!Next, Saved!Learn
  <2>6. CASE CommitCmd
    <3>1. CASE CheckDataTag(flash, ServerIP)
      BY <2>0, <2>3, <2>6, <3>1 DEF CommitCmd
    <3>2. CASE ~CheckDataTag(flash, ServerIP)
      BY <2>2, <2>6, <3>2 DEF CommitCmd, vars
    <3> QED
      BY <3>1, <3>2
  <2>7. CASE EraseCmd
    <3>1. Then = 0
      BY <2>7, ErasedIsLog DEF EraseCmd, Applied
    <3> QED
      BY <2>7, <3>1 DEF EraseCmd, Saved!Next, Saved!Clear
  <2>8. ASSUME NEW word \in Fills, FlashCmd(word) PROVE Saved!Next
    <3>1. Then = 0
      BY <2>8, FillSteps DEF FlashCmd, Applied
    <3> QED
      BY <2>8, <3>1 DEF FlashCmd, Saved!Next, Saved!Clear
  <2>9. CASE Reboot
    <3>1. Loops(flash) = FALSE
      BY <1>2, AppliedKnown DEF LogInv
    <3> QED
      BY <2>9, <3>1 DEF Reboot, Boots, Saved!Next, Saved!Reboot
  <2>10. ASSUME NEW ip \in IPs \cup {ServerIP}, PowerFails(ip) PROVE Saved!Next
    <3>1. Log(flash') /\ ServerIP' = Then
      BY <1>2, <2>0, <2>10, PowerSteps
    <3>2. Then \in Values
      BY <3>1, AppliedKnown DEF Values
    <3> QED
      BY <2>1, <3>1, <3>2
  <2>11. CASE UNCHANGED vars
    BY <2>2, <2>11 DEF vars
  <2> QED
    BY <1>2, <2>4, <2>5, <2>6, <2>7, <2>8, <2>9, <2>10, <2>11 DEF Next
<1> QED
  BY <1>1, <1>2, LogAlways, PTL DEF Spec, ImplementsSetting, Saved!Spec
=============================================================================
