--------------------------- MODULE MainLoop_proofs ---------------------------
(***************************************************************************)
(* Theorems about what main()'s loop polls: its clock, for every width of  *)
(* the counter, every clock rate and every timer period that               *)
(* ClockAssumption admits, and the stream of the terminal's hosts, for     *)
(* every stream and every size of the FIFO, the frames and the buffer.     *)
(***************************************************************************)
EXTENDS SysTime, TermNet, TLAPS, SequenceTheorems, FiniteSetTheorems, WellFoundedInduction

-----------------------------------------------------------------------------
(* The clock.                                                               *)

(* The largest timer value is below MsMod with room for a period, and      *)
(* timer_now() never exceeds it.                                           *)
LEMMA HorizonFits ==
  /\ Horizon \in Nat
  /\ 2 * (Horizon + TimerPeriod) < MsMod
  /\ \A c \in 0 .. CycleMod - 1 : c \div CPU_KHZ \in 0 .. Horizon
<1> USE ClockAssumption DEF ClockAssumption
<1>1. \A c, d \in Nat : c <= d => c \div CPU_KHZ \in Nat /\ c \div CPU_KHZ <= d \div CPU_KHZ
  OBVIOUS
<1>2. CycleMod - 1 \in Nat /\ CycleMod \in Nat /\ CycleMod - 1 <= CycleMod
  OBVIOUS
<1>3. Horizon \in Nat /\ Horizon <= CycleMod \div CPU_KHZ /\ CycleMod \div CPU_KHZ \in Nat
  BY <1>1, <1>2 DEF Horizon
<1>4. 2 * (Horizon + TimerPeriod) < MsMod
  BY <1>3
<1>5. ASSUME NEW c \in 0 .. CycleMod - 1
      PROVE  c \div CPU_KHZ \in 0 .. Horizon
  BY <1>1, <1>2, <1>3 DEF Horizon
<1> QED BY <1>3, <1>4, <1>5

(* Taken modulo m, a number below m stays what it is and any other lands   *)
(* below m.                                                                *)
LEMMA ModFacts ==
  ASSUME NEW m \in Nat \ {0}
  PROVE  /\ \A i \in Int : i % m \in 0 .. m - 1
         /\ \A i \in 0 .. m - 1 : i % m = i
         /\ \A i \in -m .. -1 : i % m = i + m
         /\ \A i \in m .. 2 * m - 1 : i % m = i - m
  OBVIOUS

-----------------------------------------------------------------------------
(* The sum of differences in sys_now() telescopes: the "local up time" it  *)
(* keeps is timer_now() itself, so it never outgrows the cycle counter and *)
(* goes back with it.                                                      *)
UptimeIsTimer ==
  /\ UptimeMillsecs = LastTimerNow
  /\ UptimeMillsecs <= Horizon

(* Why TimerKeepsFiring does not hold: once the cyclic timer is due beyond *)
(* the largest value of timer_now() it is never fired again.               *)
DeadTimerStaysDead == [][due > Horizon => due' = due]_vars

(* What TypeOK needs to be inductive: lwIP's time is timer_now(), the      *)
(* cyclic timer is never due more than a period after the horizon, and a   *)
(* sleep knows its length and how far the counter has moved since it began. *)
Inv ==
  /\ TypeOK
  /\ UptimeIsTimer
  /\ LastLoop <= Horizon
  /\ due <= Horizon + TimerPeriod
  /\ sleep.asleep => /\ sleep.passed < CycleMod
                     /\ cycle = (sleep.start + sleep.passed) % CycleMod
                     /\ sleep.timeout = Timeout(sleep.us)

(* The cycles that timer_sleep_us() waits for fit the counter, and where   *)
(* they do not wrap they are the microseconds in whole MHz.                *)
LEMMA TimeoutType ==
  ASSUME NEW us \in Int
  PROVE  /\ Timeout(us) \in 0 .. CycleMod - 1
         /\ us * (CPU_KHZ \div Thousand) \in 0 .. CycleMod - 1
              => Timeout(us) = us * (CPU_KHZ \div Thousand)
<1> USE ClockAssumption DEF ClockAssumption
<1>1. CPU_KHZ \div Thousand \in Int /\ CycleMod \in Nat \ {0}
  OBVIOUS
<1>2. us * (CPU_KHZ \div Thousand) \in Int
  BY <1>1
<1> QED BY <1>1, <1>2, ModFacts DEF Timeout

(* The kilohertz that are left when the rest is cut off.                   *)
LEMMA WholeMegahertz ==
  CPU_KHZ - (CPU_KHZ % Thousand) = Thousand * (CPU_KHZ \div Thousand)
BY ClockAssumption DEF ClockAssumption

(* Whatever the counter says, sys_now() returns timer_now().               *)
LEMMA SysNowReturnsTimer ==
  ASSUME Inv, SysNow
  PROVE  UptimeMillsecs' = TimerNow /\ LastTimerNow' = TimerNow /\ TimerNow \in 0 .. Horizon
<1> USE ClockAssumption DEF ClockAssumption
<1>1. TimerNow \in 0 .. Horizon
  BY HorizonFits DEF TimerNow, Inv, TypeOK
<1>2. UptimeMillsecs' = TimerNow % MsMod
  <2>1. UptimeMillsecs + (TimerNow - LastTimerNow) = TimerNow
    BY <1>1, HorizonFits DEF Inv, TypeOK, UptimeIsTimer
  <2> QED BY <2>1 DEF SysNow
<1>3. TimerNow \in 0 .. MsMod - 1 /\ MsMod \in Nat \ {0}
  BY <1>1, HorizonFits
<1>4. TimerNow % MsMod = TimerNow
  BY <1>3, ModFacts
<1> QED BY <1>1, <1>2, <1>4 DEF SysNow

(* For times below the horizon and a timer due at most a period after it   *)
(* lwIP's wrapping comparison is the plain one.                            *)
LEMMA TimeLessIsLess ==
  ASSUME NEW s \in 0 .. Horizon + TimerPeriod, NEW t \in 0 .. Horizon + TimerPeriod
  PROVE  TimeLess(s, t) <=> s < t
<1> USE ClockAssumption DEF ClockAssumption
<1> DEFINE d == s - t
<1>1. MsMod \in Nat \ {0} /\ 2 * (Horizon + TimerPeriod) < MsMod /\ Horizon \in Nat
  BY HorizonFits
<1>2. MsMod \div 2 \in Nat /\ Horizon + TimerPeriod <= MsMod \div 2
      /\ MsMod - (Horizon + TimerPeriod) > MsMod \div 2
  BY <1>1
<1>3. CASE s < t
  <2>1. d \in -MsMod .. -1 /\ d >= -(Horizon + TimerPeriod)
    BY <1>1, <1>3
  <2>2. d % MsMod = d + MsMod
    BY <2>1, <1>1, ModFacts
  <2> QED BY <2>1, <2>2, <1>1, <1>2, <1>3 DEF TimeLess
<1>4. CASE s >= t
  <2>1. d \in 0 .. MsMod - 1 /\ d <= Horizon + TimerPeriod
    BY <1>1, <1>4
  <2>2. d % MsMod = d
    BY <2>1, <1>1, ModFacts
  <2> QED BY <2>1, <2>2, <1>1, <1>2, <1>4 DEF TimeLess
<1> QED BY <1>1, <1>3, <1>4

(* What a check of the timeouts does: a timer that is not due keeps its    *)
(* time, one that is due gets a later time, at most a period after now.    *)
LEMMA CheckTimeoutsEffect ==
  ASSUME Inv, CheckTimeouts
  PROVE  /\ due' \in 0 .. Horizon + TimerPeriod
         /\ due > TimerNow => due' = due
         /\ due <= TimerNow => due' > TimerNow
<1> USE ClockAssumption DEF ClockAssumption
<1> DEFINE now  == UptimeMillsecs'
           later == (due + TimerPeriod) % MsMod
<1>1. now = TimerNow /\ now \in 0 .. Horizon
  BY SysNowReturnsTimer DEF CheckTimeouts
<1>2. due \in 0 .. Horizon + TimerPeriod /\ now \in 0 .. Horizon + TimerPeriod
      /\ Horizon \in Nat /\ MsMod \in Nat \ {0} /\ 2 * (Horizon + TimerPeriod) < MsMod
  BY <1>1, HorizonFits DEF Inv, TypeOK
<1>3. TimeLess(now, due) <=> now < due
  BY <1>2, TimeLessIsLess
<1>4. CASE now < due
  BY <1>1, <1>2, <1>3, <1>4 DEF CheckTimeouts
<1>5. CASE due <= now
  <2>1. due + TimerPeriod \in 0 .. MsMod - 1 /\ now + TimerPeriod \in 0 .. MsMod - 1
    BY <1>1, <1>2, <1>5
  <2>2. later = due + TimerPeriod /\ (now + TimerPeriod) % MsMod = now + TimerPeriod
    BY <2>1, <1>2, ModFacts
  <2>3. later \in 0 .. Horizon + TimerPeriod
    BY <1>1, <1>2, <1>5, <2>2
  <2>4. TimeLess(now, later) <=> now < later
    BY <1>2, <2>3, TimeLessIsLess
  <2>5. due' = IF now < later THEN later ELSE now + TimerPeriod
    BY <1>2, <1>3, <1>5, <2>2, <2>4 DEF CheckTimeouts
  <2> QED BY <1>1, <1>2, <1>5, <2>3, <2>5
<1> QED BY <1>1, <1>2, <1>4, <1>5

-----------------------------------------------------------------------------
LEMMA InitInv == Init => Inv
<1> USE ClockAssumption DEF ClockAssumption
<1>1. 0 % CycleMod = 0 /\ Horizon \in Nat /\ TimerPeriod < MsMod /\ 0 <= Horizon + TimerPeriod
  BY HorizonFits, ModFacts
<1> QED BY <1>1 DEF Init, Inv, TypeOK, UptimeIsTimer, Awake

LEMMA NextInv == Inv /\ [Next]_vars => Inv'
<1> SUFFICES ASSUME Inv, [Next]_vars PROVE Inv'
  OBVIOUS
<1> USE ClockAssumption DEF ClockAssumption
<1>0. /\ TimerNow \in 0 .. Horizon /\ Horizon \in Nat
      /\ 2 * (Horizon + TimerPeriod) < MsMod /\ MsMod \in Nat
  BY HorizonFits DEF TimerNow, Inv, TypeOK
<1>1. ASSUME NEW n \in Steps, Tick(n) PROVE Inv'
  <2>1. n \in 1 .. CycleMod - 1 /\ cycle' = (cycle + n) % CycleMod
    BY <1>1 DEF Tick
  <2>2. cycle' \in 0 .. CycleMod - 1
    <3>1. cycle + n \in Int /\ CycleMod \in Nat \ {0}
      BY <2>1 DEF Inv, TypeOK
    <3> QED BY <2>1, <3>1, ModFacts
  <2>3. CASE ~sleep.asleep
    BY <1>1, <2>2, <2>3 DEF Tick, clock, Inv, TypeOK, UptimeIsTimer
  <2>4. CASE sleep.asleep
    <3>1. /\ sleep' = [sleep EXCEPT !.passed = @ + n]
          /\ sleep.passed + n < CycleMod
          /\ UNCHANGED <<clock, LastLoop>>
      BY <1>1, <2>4 DEF Tick
    <3>2. /\ sleep.start \in 0 .. CycleMod - 1 /\ sleep.passed \in 0 .. CycleMod - 1
          /\ cycle = (sleep.start + sleep.passed) % CycleMod
      BY <2>4 DEF Inv, TypeOK
    <3>3. cycle' = (sleep.start + (sleep.passed + n)) % CycleMod
      <4> DEFINE s == sleep.start
                 t == sleep.passed
      <4>1. CASE s + t < CycleMod
        <5>1. s + t \in 0 .. CycleMod - 1 /\ CycleMod \in Nat \ {0}
          BY <3>2, <4>1
        <5>2. cycle = s + t
          BY <3>2, <5>1, ModFacts
        <5>3. cycle + n = s + (t + n)
          BY <2>1, <3>2, <5>2
        <5> QED BY <2>1, <5>3
      <4>2. CASE s + t >= CycleMod
        <5>1. s + t \in CycleMod .. 2 * CycleMod - 1 /\ CycleMod \in Nat \ {0}
          BY <3>2, <4>2
        <5>2. cycle = (s + t) - CycleMod
          BY <3>2, <5>1, ModFacts
        <5>3. s + (t + n) \in CycleMod .. 2 * CycleMod - 1
          BY <2>1, <3>1, <3>2, <5>1
        <5>4. (s + (t + n)) % CycleMod = (s + (t + n)) - CycleMod
          BY <5>1, <5>3, ModFacts
        <5>5. cycle + n \in 0 .. CycleMod - 1 /\ cycle + n = (s + (t + n)) - CycleMod
          BY <2>1, <3>1, <3>2, <5>1, <5>2, <5>3
        <5>6. (cycle + n) % CycleMod = cycle + n
          BY <5>5, <5>1, ModFacts
        <5> QED BY <2>1, <5>4, <5>5, <5>6
      <4> QED BY <3>2, <4>1, <4>2
    <3> QED BY <2>1, <2>2, <2>4, <3>1, <3>3 DEF clock, Inv, TypeOK, UptimeIsTimer
  <2> QED BY <2>3, <2>4
<1>2. CASE CheckTimeouts
  <2>1. UptimeMillsecs' = TimerNow /\ LastTimerNow' = TimerNow
    BY <1>2, SysNowReturnsTimer DEF CheckTimeouts
  <2>2. due' \in 0 .. Horizon + TimerPeriod
    BY <1>2, CheckTimeoutsEffect
  <2> QED BY <1>0, <1>2, <2>1, <2>2 DEF CheckTimeouts, Inv, TypeOK, UptimeIsTimer
<1>3. CASE PollInput
  BY <1>0, <1>3 DEF PollInput, clock, Inv, TypeOK, UptimeIsTimer
<1>4. ASSUME NEW us \in Sleeps, SleepBegin(us) PROVE Inv'
  <2>1. cycle \in 0 .. CycleMod - 1 /\ CycleMod \in Nat \ {0} /\ cycle + 0 = cycle /\ us \in Int
    BY DEF Inv, TypeOK
  <2>2. (cycle + 0) % CycleMod = cycle
    BY <2>1, ModFacts
  <2>3. sleep' = [asleep |-> TRUE, start |-> cycle, timeout |-> Timeout(us),
                  us |-> us, passed |-> 0]
    BY <1>4 DEF SleepBegin
  <2>4. Timeout(us) \in 0 .. CycleMod - 1
    BY <2>1, TimeoutType
  <2> QED BY <1>4, <2>1, <2>2, <2>3, <2>4 DEF SleepBegin, clock, Inv, TypeOK, UptimeIsTimer
<1>5. CASE SleepEnd
  BY <1>5 DEF SleepEnd, Awake, clock, Inv, TypeOK, UptimeIsTimer
<1>6. CASE UNCHANGED vars
  BY <1>6 DEF vars, Inv, TypeOK, UptimeIsTimer
<1> QED BY <1>1, <1>2, <1>3, <1>4, <1>5, <1>6 DEF Next

LEMMA InvHolds == Spec => []Inv
BY InitInv, NextInv, PTL DEF Spec

(* Every variable of the clock has its type in every behaviour. *)
THEOREM TypeCorrect == Spec => []TypeOK
<1>1. Inv => TypeOK
  BY DEF Inv
<1> QED BY <1>1, InvHolds, PTL

(* A cyclic lwIP timer that is due past the horizon never fires again.     *)
THEOREM DeadForever == Spec => DeadTimerStaysDead
<1>1. Inv /\ [Next]_vars => [due > Horizon => due' = due]_vars
  <2> SUFFICES ASSUME Inv, Next, due > Horizon PROVE due' = due
    OBVIOUS
  <2>1. CASE CheckTimeouts
    <3>1. TimerNow \in 0 .. Horizon /\ Horizon \in Nat /\ due \in Nat
      BY HorizonFits, ClockAssumption DEF ClockAssumption, TimerNow, Inv, TypeOK
    <3> QED BY <2>1, <3>1, CheckTimeoutsEffect
  <2>2. CASE ~CheckTimeouts
    BY <2>2 DEF Next, Tick, PollInput, SleepBegin, SleepEnd, clock
  <2> QED BY <2>1, <2>2
<1> QED BY <1>1, InvHolds, PTL DEF Spec, DeadTimerStaysDead

(* timer_sleep_us() waits, wrap or no wrap, until the cycles went by that  *)
(* its microseconds are in whole MHz, for every clock rate.                *)
THEOREM SleepIsLongEnough == Spec => SleepsWholeMegahertz
<1> DEFINE Mhz == CPU_KHZ \div Thousand
           Waited == sleep.asleep /\ ~sleep'.asleep /\ sleep.us * Mhz \in 0 .. CycleMod - 1
                       => Thousand * sleep.passed >= sleep.us * (CPU_KHZ - (CPU_KHZ % Thousand))
<1>1. Inv /\ [Next]_vars => [Waited]_vars
  <2> SUFFICES ASSUME Inv, Next, sleep.asleep, ~sleep'.asleep, sleep.us * Mhz \in 0 .. CycleMod - 1
               PROVE  Thousand * sleep.passed >= sleep.us * (CPU_KHZ - (CPU_KHZ % Thousand))
    OBVIOUS
  <2> USE ClockAssumption DEF ClockAssumption
  <2>1. SleepEnd
    BY DEF Next, Tick, CheckTimeouts, PollInput, SleepBegin, Inv, TypeOK
  <2>2. /\ sleep.start \in 0 .. CycleMod - 1 /\ sleep.passed \in 0 .. CycleMod - 1
        /\ cycle = (sleep.start + sleep.passed) % CycleMod
    BY DEF Inv, TypeOK
  <2>3. (cycle - sleep.start) % CycleMod = sleep.passed
    <3> DEFINE s == sleep.start
               t == sleep.passed
    <3>1. CASE s + t < CycleMod
      <4>1. s + t \in 0 .. CycleMod - 1 /\ t \in 0 .. CycleMod - 1 /\ CycleMod \in Nat \ {0}
        BY <2>2, <3>1
      <4>2. cycle = s + t
        BY <2>2, <4>1, ModFacts
      <4>3. cycle - s = t
        BY <2>2, <4>1, <4>2
      <4> QED BY <4>1, <4>3, ModFacts
    <3>2. CASE s + t >= CycleMod
      <4>1. s + t \in CycleMod .. 2 * CycleMod - 1 /\ CycleMod \in Nat \ {0}
        BY <2>2, <3>2
      <4>2. cycle = (s + t) - CycleMod
        BY <2>2, <4>1, ModFacts
      <4>3. cycle - s \in -CycleMod .. -1 /\ (cycle - s) + CycleMod = t
        BY <2>2, <4>1, <4>2
      <4> QED BY <4>1, <4>3, ModFacts
    <3> QED BY <2>2, <3>1, <3>2
  <2>4. sleep.passed >= sleep.us * Mhz
    BY <2>1, <2>3, TimeoutType DEF SleepEnd, Inv, TypeOK
  <2>5. /\ Thousand \in Nat /\ sleep.passed \in Int /\ sleep.us \in Int /\ Mhz \in Int
        /\ sleep.us * Mhz \in Int
    BY <2>2 DEF Inv, TypeOK
  <2>6. Thousand * sleep.passed >= Thousand * (sleep.us * Mhz)
    <3> HIDE DEF Mhz
    <3> QED BY <2>4, <2>5
  <2>7. Thousand * (sleep.us * Mhz) = sleep.us * (Thousand * Mhz)
    <3> HIDE DEF Mhz
    <3> QED BY <2>5
  <2> QED BY <2>6, <2>7, WholeMegahertz
<1> QED BY <1>1, InvHolds, PTL DEF Spec, SleepsWholeMegahertz

(* Between two wraps of the counter lwIP's time does not go back, and the  *)
(* check that finds its timer due fires it, and makes it due later.        *)
THEOREM TimersAreTimely == Spec => TimelyBeforeWrap
<1>1. Inv /\ [Next]_vars
        => [LastTimerNow' # LastTimerNow /\ TimerNow >= LastTimerNow =>
              /\ UptimeMillsecs' >= UptimeMillsecs
              /\ due <= TimerNow => due' > TimerNow]_vars
  <2> SUFFICES ASSUME Inv, Next, LastTimerNow' # LastTimerNow, TimerNow >= LastTimerNow
               PROVE  UptimeMillsecs' >= UptimeMillsecs /\ (due <= TimerNow => due' > TimerNow)
    OBVIOUS
  <2>1. CheckTimeouts
    BY DEF Next, Tick, PollInput, SleepBegin, SleepEnd, clock
  <2>2. UptimeMillsecs' = TimerNow
    BY <2>1, SysNowReturnsTimer DEF CheckTimeouts
  <2>3. UptimeMillsecs = LastTimerNow
    BY DEF Inv, UptimeIsTimer
  <2> QED BY <2>1, <2>2, <2>3, CheckTimeoutsEffect
<1> QED BY <1>1, InvHolds, PTL DEF Spec, TimelyBeforeWrap

-----------------------------------------------------------------------------
(* The stream.                                                              *)

Bytes == 0 .. IAC
Chars == Conns \X Bytes

(* A set of numbers that is not empty has a smallest one.                   *)
LEMMA Smallest ==
  ASSUME NEW T \in SUBSET Nat, T # {}
  PROVE  \E i \in T : \A j \in T : i <= j
<1> DEFINE R == {ss \in Nat \X Nat : ss[1] < ss[2]}
<1>1. R = OpToRel(<, Nat)
  BY DEF OpToRel
<1>2. IsWellFoundedOn(R, Nat)
  BY <1>1, NatLessThanWellFounded
<1>3. PICK i \in T : \A j \in T : <<j, i>> \notin R
  BY <1>2, WFMin, Zenon
<1>4. ASSUME NEW j \in T PROVE i <= j
  <2>1. ~(j < i)
    BY <1>3
  <2> QED
    BY <2>1
<1> QED
  BY <1>4

(* What holds of 0, and of every number after one it holds of, holds of all *)
(* up to m.                                                                 *)
LEMMA Upward ==
  ASSUME NEW m \in Nat, NEW T, 0 \in T, \A n \in 1 .. m : n - 1 \in T => n \in T
  PROVE  0 .. m \subseteq T
<1> SUFFICES ASSUME {n \in 0 .. m : n \notin T} # {} PROVE FALSE
  OBVIOUS
<1> DEFINE Out == {n \in 0 .. m : n \notin T}
<1>1. Out \in SUBSET Nat
  OBVIOUS
<1>2. PICK i \in Out : \A j \in Out : i <= j
  BY <1>1, Smallest
<1>3. i # 0 /\ i \in 1 .. m
  OBVIOUS
<1>4. i - 1 \in 0 .. m /\ i - 1 \notin Out
  BY <1>2, <1>3
<1> QED
  BY <1>3, <1>4

-----------------------------------------------------------------------------
(* Recursion.                                                               *)

(* r begins with a and goes on by the steps h, n of them.                   *)
Recurs(r, a, h, n) == r[0] = a /\ \A i \in 1 .. n : r[i] = h[i][r[i - 1]]

(* What is defined by its first value and its steps exists.                 *)
LEMMA Recursion ==
  ASSUME NEW A, NEW a \in A, NEW n \in Nat, NEW h \in [1 .. n -> [A -> A]]
  PROVE  \E r \in [0 .. n -> A] : Recurs(r, a, h, n)
<1> DEFINE Law(r, k) == r[0] = a /\ \A i \in 1 .. k : r[i] = h[i][r[i - 1]]
           T == {k \in 0 .. n : \E r \in [0 .. k -> A] : Law(r, k)}
<1>1. 0 \in T
  <2> DEFINE r == [i \in 0 .. 0 |-> a]
  <2>1. r \in [0 .. 0 -> A] /\ Law(r, 0)
    OBVIOUS
  <2> HIDE DEF r, Law
  <2> QED
    BY <2>1
<1>2. ASSUME NEW k \in 1 .. n, k - 1 \in T PROVE k \in T
  <2>1. PICK r \in [0 .. k - 1 -> A] : Law(r, k - 1)
    BY <1>2
  <2>a. h[k] \in [A -> A] /\ r[k - 1] \in A
    BY <1>2
  <2>b. PICK new \in A : new = h[k][r[k - 1]]
    BY <2>a
  <2> DEFINE q == [i \in 0 .. k |-> IF i = k THEN new ELSE r[i]]
  <2>2. q \in [0 .. k -> A]
    OBVIOUS
  <2>3. q[0] = a
    BY <2>1
  <2>4. ASSUME NEW i \in 1 .. k PROVE q[i] = h[i][q[i - 1]]
    <3>1. q[i - 1] = r[i - 1]
      OBVIOUS
    <3>2. CASE i = k
      BY <2>b, <3>1, <3>2
    <3>3. CASE i # k
      <4>1. i \in 1 .. k - 1 /\ q[i] = r[i]
        BY <3>3
      <4> HIDE DEF q
      <4> QED
        BY <2>1, <3>1, <4>1
    <3> QED
      BY <3>2, <3>3
  <2>5. Law(q, k)
    BY <2>3, <2>4
  <2> HIDE DEF q, Law
  <2>6. \E g \in [0 .. k -> A] : Law(g, k)
    BY <2>2, <2>5
  <2> QED
    BY <2>6
<1>3. 0 .. n \subseteq T
  <2> HIDE DEF T
  <2> QED
    BY <1>1, <1>2, Upward
<1>4. \E r \in [0 .. n -> A] : Law(r, n)
  BY <1>3
<1>5. \A r : Law(r, n) => Recurs(r, a, h, n)
  BY DEF Recurs
<1> HIDE DEF Law
<1> QED
  BY <1>4, <1>5

(* f and g go on alike, n steps.                                            *)
Alike(f, g, n) == \A i \in 1 .. n : f[i - 1] = g[i - 1] => f[i] = g[i]

(* Two that begin alike and go on alike are the same.                       *)
LEMMA SameRecursion ==
  ASSUME NEW n \in Nat, NEW f, NEW g, f[0] = g[0], Alike(f, g, n)
  PROVE  \A i \in 0 .. n : f[i] = g[i]
<1> DEFINE T == {i \in 0 .. n : f[i] = g[i]}
<1>1. 0 \in T
  OBVIOUS
<1>2. ASSUME NEW i \in 1 .. n, i - 1 \in T PROVE i \in T
  BY <1>2 DEF Alike
<1>3. 0 .. n \subseteq T
  <2> HIDE DEF T
  <2> QED
    BY <1>1, <1>2, Upward
<1> QED
  BY <1>3

-----------------------------------------------------------------------------
(* What is a connection's own.                                              *)

(* f is the way to Part(c, s).                                              *)
Parts(f, c, s) ==
  /\ f \in [0 .. Len(s) -> Seq(Chars)] /\ f[0] = <<>> /\ Part(c, s) = f[Len(s)]
  /\ \A i \in 1 .. Len(s) : f[i] = IF s[i][1] = c THEN Append(f[i - 1], s[i]) ELSE f[i - 1]

(* There is one.                                                            *)
LEMMA PartExists ==
  ASSUME NEW c, NEW s \in Seq(Chars)
  PROVE  \E f : Parts(f, c, s)
<1>n. PICK n \in Nat : n = Len(s)
  OBVIOUS
<1>s. \A i \in 1 .. n : s[i] \in Chars
  BY <1>n
<1> DEFINE A == Seq(Chars)
           h == [i \in 1 .. n |-> [x \in A |-> IF s[i][1] = c THEN Append(x, s[i]) ELSE x]]
           Law(g) == g = [i \in 0 .. n |-> IF i = 0 THEN <<>>
                                           ELSE IF s[i][1] = c THEN Append(g[i - 1], s[i])
                                           ELSE g[i - 1]]
           part == CHOOSE g : Law(g)
<1>1. h \in [1 .. n -> [A -> A]]
  <2>1. ASSUME NEW i \in 1 .. n, NEW x \in A
        PROVE  (IF s[i][1] = c THEN Append(x, s[i]) ELSE x) \in A
    BY <1>s
  <2> QED
    BY <2>1
<1>2. PICK r \in [0 .. n -> A] : Recurs(r, <<>>, h, n)
  <2>1. <<>> \in A
    OBVIOUS
  <2> HIDE DEF A, h
  <2> QED
    BY <1>1, <2>1, Recursion
<1>3. \A i \in 1 .. n : r[i] = IF s[i][1] = c THEN Append(r[i - 1], s[i]) ELSE r[i - 1]
  <2> TAKE i \in 1 .. n
  <2>1. i - 1 \in 0 .. n
    OBVIOUS
  <2>2. r[i] = h[i][r[i - 1]] /\ r[i - 1] \in A
    <3> HIDE DEF A, h
    <3> QED
      BY <1>2, <2>1 DEF Recurs
  <2>3. h[i][r[i - 1]] = IF s[i][1] = c THEN Append(r[i - 1], s[i]) ELSE r[i - 1]
    <3> HIDE DEF A
    <3> QED
      BY <2>2
  <2> QED
    BY <2>2, <2>3
<1>4. Law(r)
  <2>1. r[0] = <<>>
    BY <1>2 DEF Recurs
  <2>2. r = [i \in 0 .. n |-> r[i]]
    BY <1>2
  <2>3. \A i \in 0 .. n : i # 0 => i \in 1 .. n
    OBVIOUS
  <2> HIDE DEF A, h
  <2> QED
    BY <1>3, <2>1, <2>2, <2>3
<1>5. Law(part)
  <2> HIDE DEF Law
  <2> QED
    BY <1>4
<1>6. Part(c, s) = part[n]
  BY <1>n DEF Part
<1> HIDE DEF part
<1>7. \A i \in 0 .. n : part[i] = r[i]
  <2>1. part[0] = r[0]
    BY <1>2, <1>5 DEF Recurs
  <2>2. ASSUME NEW i \in 1 .. n, part[i - 1] = r[i - 1] PROVE part[i] = r[i]
    <3>0. i \in 0 .. n /\ i # 0
      OBVIOUS
    <3>1. part[i] = IF s[i][1] = c THEN Append(part[i - 1], s[i]) ELSE part[i - 1]
      <4> HIDE DEF h, A
      <4> QED
        BY <1>5, <3>0
    <3> HIDE DEF Law, h, A
    <3> QED
      BY <1>3, <2>2, <3>1, Zenon
  <2> HIDE DEF Law, h, A
  <2> QED
    <3>1. Alike(part, r, n)
      BY <2>2 DEF Alike
    <3> QED
      BY <2>1, <3>1, SameRecursion
<1>8. Parts(r, c, s)
  BY <1>n, <1>2, <1>3, <1>6, <1>7 DEF Parts, Recurs
<1> QED
  BY <1>8

(* A character is a connection's own or not.                                *)
LEMMA PartAppend ==
  ASSUME NEW c, NEW s \in Seq(Chars), NEW e \in Chars
  PROVE  Part(c, Append(s, e)) = IF e[1] = c THEN Append(Part(c, s), e) ELSE Part(c, s)
<1>t. PICK t \in Seq(Chars) : t = Append(s, e)
  <2>1. Append(s, e) \in Seq(Chars)
    BY AppendProperties
  <2> QED
    BY <2>1
<1>n. PICK n \in Nat : n = Len(s)
  OBVIOUS
<1>1. Len(t) = n + 1 /\ t[n + 1] = e /\ \A i \in 1 .. n : t[i] = s[i]
  BY <1>t, <1>n
<1>2. PICK f : Parts(f, c, s)
  BY PartExists
<1>3. PICK g : Parts(g, c, t)
  BY PartExists
<1>4. \A i \in 0 .. n : g[i] = f[i]
  <2>1. g[0] = f[0]
    BY <1>2, <1>3 DEF Parts
  <2>2. ASSUME NEW i \in 1 .. n, g[i - 1] = f[i - 1] PROVE g[i] = f[i]
    <3>0. i \in 1 .. n + 1
      OBVIOUS
    <3>1. f[i] = IF s[i][1] = c THEN Append(f[i - 1], s[i]) ELSE f[i - 1]
      BY <1>2, <1>n DEF Parts
    <3>2. g[i] = IF t[i][1] = c THEN Append(g[i - 1], t[i]) ELSE g[i - 1]
      BY <1>3, <1>1, <3>0 DEF Parts
    <3>3. t[i] = s[i]
      BY <1>1
    <3> QED
      BY <2>2, <3>1, <3>2, <3>3, Zenon
  <2> QED
    <3>1. Alike(g, f, n)
      BY <2>2 DEF Alike
    <3> QED
      BY <2>1, <3>1, SameRecursion
<1>5. g[n + 1] = IF e[1] = c THEN Append(g[n], e) ELSE g[n]
  <2>1. n + 1 \in 1 .. Len(t) /\ (n + 1) - 1 = n
    BY <1>1
  <2>2. g[n + 1] = IF t[n + 1][1] = c THEN Append(g[(n + 1) - 1], t[n + 1]) ELSE g[(n + 1) - 1]
    BY <1>3, <2>1 DEF Parts
  <2> QED
    BY <1>1, <2>1, <2>2
<1>6. g[n] = f[n]
  BY <1>4
<1>7. Part(c, s) = f[n] /\ Part(c, t) = g[n + 1]
  BY <1>1, <1>2, <1>3, <1>n DEF Parts
<1> QED
  BY <1>t, <1>5, <1>6, <1>7

(* It is made of characters.                                                *)
LEMMA PartType ==
  ASSUME NEW c, NEW s \in Seq(Chars)
  PROVE  Part(c, s) \in Seq(Chars)
<1>1. PICK f : Parts(f, c, s)
  BY PartExists
<1>2. Len(s) \in 0 .. Len(s)
  OBVIOUS
<1> QED
  BY <1>1, <1>2 DEF Parts

-----------------------------------------------------------------------------
(* The stream buffer.                                                       *)

Contents == [stream : Seq(Chars), shown : Seq(Chars)]

(* What was shown, and will be when the buffer b is emptied.                *)
Whatever(b) == b.shown \o b.stream

(* What is put behind the second of two is put behind both.                *)
LEMMA ConcatAppend ==
  ASSUME NEW S, NEW p \in Seq(S), NEW q \in Seq(S), NEW e \in S
  PROVE  q \o Append(p, e) = Append(q \o p, e)
<1>1. Append(p, e) = p \o <<e>> /\ Append(q \o p, e) = (q \o p) \o <<e>>
  BY AppendIsConcat, ConcatProperties
<1>2. <<e>> \in Seq(S)
  OBVIOUS
<1>3. (q \o p) \o <<e>> = q \o (p \o <<e>>)
  BY <1>2, ConcatAssociative
<1> QED
  BY <1>1, <1>3

(* However full the buffer is, a byte comes behind all the others.          *)
LEMMA BufferAppends ==
  ASSUME NEW b \in Contents, NEW e \in Chars
  PROVE  vt100_buffer(b, e) \in Contents /\ Whatever(vt100_buffer(b, e)) = Append(Whatever(b), e)
<1> PICK p \in Seq(Chars), q \in Seq(Chars) : p = b.stream /\ q = b.shown
  BY DEF Contents
<1>1. <<e>> \in Seq(Chars) /\ q \o p \in Seq(Chars) /\ Append(p, e) \in Seq(Chars)
  OBVIOUS
<1>2. CASE Len(b.stream) = BUFSIZE
  <2>1. vt100_buffer(b, e) = [stream |-> <<e>>, shown |-> q \o p]
    BY <1>2 DEF vt100_buffer, Flushed
  <2>2. (q \o p) \o <<e>> = Append(q \o p, e)
    BY <1>1, AppendIsConcat
  <2> QED
    BY <1>1, <2>1, <2>2 DEF Contents, Whatever
<1>3. CASE Len(b.stream) # BUFSIZE
  <2>1. vt100_buffer(b, e) = [stream |-> Append(p, e), shown |-> q]
    BY <1>3 DEF vt100_buffer, Contents
  <2>2. q \o Append(p, e) = Append(q \o p, e)
    BY ConcatAppend
  <2> QED
    BY <1>1, <2>1, <2>2 DEF Contents, Whatever
<1> QED
  BY <1>2, <1>3

(* f is the way to Buffered(b, bytes).                                      *)
Puts(f, b, bytes) ==
  /\ f \in [0 .. Len(bytes) -> Contents] /\ f[0] = b /\ Buffered(b, bytes) = f[Len(bytes)]
  /\ \A i \in 1 .. Len(bytes) : f[i] = vt100_buffer(f[i - 1], bytes[i])

(* There is one.                                                            *)
LEMMA PutExists ==
  ASSUME NEW b \in Contents, NEW bytes \in Seq(Chars)
  PROVE  \E f : Puts(f, b, bytes)
<1>n. PICK n \in Nat : n = Len(bytes)
  OBVIOUS
<1>s. \A i \in 1 .. n : bytes[i] \in Chars
  BY <1>n
<1> DEFINE h == [i \in 1 .. n |-> [x \in Contents |-> vt100_buffer(x, bytes[i])]]
           Law(g) == g = [i \in 0 .. n |-> IF i = 0 THEN b ELSE vt100_buffer(g[i - 1], bytes[i])]
           put == CHOOSE g : Law(g)
<1>1. h \in [1 .. n -> [Contents -> Contents]]
  <2>1. ASSUME NEW i \in 1 .. n, NEW x \in Contents
        PROVE  vt100_buffer(x, bytes[i]) \in Contents
    BY <1>s, BufferAppends
  <2> QED
    BY <2>1
<1>2. PICK r \in [0 .. n -> Contents] : Recurs(r, b, h, n)
  <2> HIDE DEF h
  <2> QED
    BY <1>1, Recursion
<1>3. \A i \in 1 .. n : r[i] = vt100_buffer(r[i - 1], bytes[i])
  <2> TAKE i \in 1 .. n
  <2>1. i - 1 \in 0 .. n
    OBVIOUS
  <2>2. r[i] = h[i][r[i - 1]] /\ r[i - 1] \in Contents
    <3> HIDE DEF h
    <3> QED
      BY <1>2, <2>1 DEF Recurs
  <2> QED
    BY <2>2
<1>4. Law(r)
  <2>1. r[0] = b
    BY <1>2 DEF Recurs
  <2>2. r = [i \in 0 .. n |-> r[i]]
    BY <1>2
  <2>3. \A i \in 0 .. n : i # 0 => i \in 1 .. n
    OBVIOUS
  <2> HIDE DEF h
  <2> QED
    BY <1>3, <2>1, <2>2, <2>3
<1>5. Law(put)
  <2> HIDE DEF Law
  <2> QED
    BY <1>4
<1>6. Buffered(b, bytes) = put[n]
  BY <1>n DEF Buffered
<1> HIDE DEF put
<1>7. \A i \in 0 .. n : put[i] = r[i]
  <2>1. put[0] = r[0]
    BY <1>2, <1>5 DEF Recurs
  <2>2. ASSUME NEW i \in 1 .. n, put[i - 1] = r[i - 1] PROVE put[i] = r[i]
    <3>0. i \in 0 .. n /\ i # 0
      OBVIOUS
    <3>1. put[i] = vt100_buffer(put[i - 1], bytes[i])
      <4> HIDE DEF h
      <4> QED
        BY <1>5, <3>0
    <3> HIDE DEF Law, h
    <3> QED
      BY <1>3, <2>2, <3>1, Zenon
  <2> HIDE DEF Law, h
  <2> QED
    <3>1. Alike(put, r, n)
      BY <2>2 DEF Alike
    <3> QED
      BY <2>1, <3>1, SameRecursion
<1>8. Puts(r, b, bytes)
  BY <1>n, <1>2, <1>3, <1>6, <1>7 DEF Puts, Recurs
<1> QED
  BY <1>8

(* A connection's bytes come behind what is its own, and nothing comes      *)
(* behind what is another's.                                                *)
LEMMA BufferedPart ==
  ASSUME NEW b \in Contents, NEW c, NEW d, NEW bytes \in Seq(Chars),
         \A i \in 1 .. Len(bytes) : bytes[i][1] = d
  PROVE  /\ Buffered(b, bytes) \in Contents
         /\ Part(c, Whatever(Buffered(b, bytes))) =
              IF c = d THEN Part(c, Whatever(b)) \o bytes ELSE Part(c, Whatever(b))
<1>n. PICK n \in Nat : n = Len(bytes)
  OBVIOUS
<1>1. PICK f : Puts(f, b, bytes)
  BY PutExists
<1>2. /\ f \in [0 .. n -> Contents] /\ f[0] = b /\ Buffered(b, bytes) = f[n]
      /\ \A i \in 1 .. n : f[i] = vt100_buffer(f[i - 1], bytes[i])
  BY <1>1, <1>n DEF Puts
<1>3. ASSUME NEW x \in Contents PROVE Whatever(x) \in Seq(Chars)
  BY DEF Contents, Whatever
<1>p. PICK p \in Seq(Chars) : p = Part(c, Whatever(b))
  BY <1>3, PartType
<1> DEFINE Own(i) == IF c = d THEN p \o SubSeq(bytes, 1, i) ELSE p
           T == {i \in 0 .. n : Part(c, Whatever(f[i])) = Own(i)}
<1>4. 0 \in T
  <2>1. SubSeq(bytes, 1, 0) = <<>> /\ p \o <<>> = p
    BY SubSeqEmpty
  <2> QED
    BY <1>2, <1>p, <2>1
<1>5. ASSUME NEW i \in 1 .. n, i - 1 \in T PROVE i \in T
  <2>1. i - 1 \in 0 .. n /\ f[i - 1] \in Contents /\ bytes[i] \in Chars /\ bytes[i][1] = d
    BY <1>2, <1>n
  <2>2. Whatever(f[i]) = Append(Whatever(f[i - 1]), bytes[i])
    BY <1>2, <2>1, BufferAppends
  <2>3. Whatever(f[i - 1]) \in Seq(Chars)
    BY <1>3, <2>1
  <2>4. Part(c, Whatever(f[i])) = IF bytes[i][1] = c THEN Append(Part(c, Whatever(f[i - 1])), bytes[i])
                                  ELSE Part(c, Whatever(f[i - 1]))
    <3>1. PICK x \in Seq(Chars), e \in Chars : x = Whatever(f[i - 1]) /\ e = bytes[i]
      BY <2>1, <2>3
    <3>2. Part(c, Append(x, e)) = IF e[1] = c THEN Append(Part(c, x), e) ELSE Part(c, x)
      BY PartAppend
    <3> QED
      BY <2>2, <3>1, <3>2
  <2>5. Part(c, Whatever(f[i - 1])) = Own(i - 1)
    BY <1>5
  <2>6. CASE c = d
    <3>1. SubSeq(bytes, 1, i) = Append(SubSeq(bytes, 1, i - 1), bytes[i])
      BY <1>n, SubSeqRecursiveSecond
    <3>2. SubSeq(bytes, 1, i - 1) \in Seq(Chars)
      BY <1>n
    <3>3. p \o Append(SubSeq(bytes, 1, i - 1), bytes[i]) = Append(p \o SubSeq(bytes, 1, i - 1), bytes[i])
      BY <2>1, <3>2, ConcatAppend
    <3>4. Part(c, Whatever(f[i])) = Append(p \o SubSeq(bytes, 1, i - 1), bytes[i])
      BY <2>1, <2>4, <2>5, <2>6
    <3>5. Part(c, Whatever(f[i])) = p \o SubSeq(bytes, 1, i)
      BY <3>1, <3>3, <3>4
    <3> QED
      BY <2>6, <3>5
  <2>7. CASE c # d
    <3>1. Part(c, Whatever(f[i])) = p
      BY <2>1, <2>4, <2>5, <2>7
    <3> QED
      BY <2>7, <3>1
  <2> QED
    BY <2>6, <2>7
<1>6. n \in T
  <2> HIDE DEF T
  <2>1. 0 .. n \subseteq T
    BY <1>4, <1>5, Upward
  <2> QED
    BY <2>1
<1>7. SubSeq(bytes, 1, n) = bytes
  BY <1>n, SubSeqFull
<1>8. f[n] \in Contents
  BY <1>2
<1> QED
  BY <1>2, <1>6, <1>7, <1>8, <1>p
-----------------------------------------------------------------------------
(* The text of a host.                                                      *)

(* Taking the telnet commands out leaves bytes.                             *)
LEMMA ShownType ==
  ASSUME NEW bytes \in Seq(Bytes)
  PROVE  Shown(bytes) \in Seq(Bytes)
<1>n. PICK n \in Nat : n = Len(bytes)
  OBVIOUS
<1>s. \A i \in 1 .. n : bytes[i] \in Bytes
  BY <1>n
<1>e. <<>> \in Seq(Bytes)
  OBVIOUS
<1> DEFINE A == Seq(Bytes)
           Then(g, i) == IF i > n THEN <<>>
                         ELSE IF bytes[i] = IAC THEN g[i + 3] ELSE <<bytes[i]>> \o g[i + 1]
           Law(g) == g = [i \in 1 .. n + 3 |-> Then(g, i)]
           kept == CHOOSE g : Law(g)
           (* From some place on, there are such sequences.                *)
           Good(g, m) == g \in [m .. n + 3 -> A] /\ \A i \in m .. n + 3 : g[i] = Then(g, i)
           T == {j \in 0 .. n : \E g : Good(g, n + 1 - j)}
<1>1. 0 \in T
  <2> DEFINE g == [i \in n + 1 .. n + 3 |-> <<>>]
  <2>1. g \in [n + 1 .. n + 3 -> A]
    BY <1>e
  <2>2. \A i \in n + 1 .. n + 3 : g[i] = <<>> /\ i > n
    OBVIOUS
  <2> HIDE DEF g, A
  <2>3. Good(g, n + 1)
    BY <2>1, <2>2
  <2> HIDE DEF Good
  <2>4. \E x : Good(x, n + 1 - 0)
    BY <2>3
  <2> QED
    BY <2>4
<1>2. ASSUME NEW j \in 1 .. n, j - 1 \in T PROVE j \in T
  <2>m. PICK m \in 1 .. n : m = n + 1 - j
    OBVIOUS
  <2>1. PICK f : Good(f, m + 1)
    <3>1. n + 1 - (j - 1) = m + 1
      BY <2>m
    <3> HIDE DEF Good
    <3> QED
      BY <1>2, <3>1
  <2>2. m + 1 \in m + 1 .. n + 3 /\ m + 3 \in m + 1 .. n + 3 /\ ~(m > n)
    OBVIOUS
  <2>3. f[m + 1] \in A /\ f[m + 3] \in A
    <3> HIDE DEF A
    <3> QED
      BY <2>1, <2>2
  <2>4. Then(f, m) \in A
    <3>1. <<bytes[m]>> \in Seq(Bytes)
      BY <1>s
    <3>2. <<bytes[m]>> \o f[m + 1] \in A
      BY <2>3, <3>1
    <3> QED
      BY <2>2, <2>3, <3>2
  <2>5. PICK new \in A : new = Then(f, m)
    BY <2>4
  <2> DEFINE g == [i \in m .. n + 3 |-> IF i = m THEN new ELSE f[i]]
  <2>6. g \in [m .. n + 3 -> A]
    <3>1. \A i \in m .. n + 3 : i # m => i \in m + 1 .. n + 3
      OBVIOUS
    <3> HIDE DEF A
    <3> QED
      BY <2>1, <3>1
  <2>7. \A i \in m + 1 .. n + 3 : g[i] = f[i]
    OBVIOUS
  <2>8. g[m] = new
    OBVIOUS
  <2> HIDE DEF g, A
  <2>9. ASSUME NEW i \in m .. n + 3 PROVE g[i] = Then(g, i)
    <3>1. i <= n => i + 1 \in m + 1 .. n + 3 /\ i + 3 \in m + 1 .. n + 3
      OBVIOUS
    <3>2. Then(g, i) = Then(f, i)
      BY <2>7, <3>1
    <3>3. i # m => i \in m + 1 .. n + 3
      OBVIOUS
    <3>4. i # m => f[i] = Then(f, i)
      <4> HIDE DEF Then
      <4> QED
        BY <2>1, <3>3
    <3> HIDE DEF Then, Good
    <3> QED
      BY <2>5, <2>7, <2>8, <3>2, <3>3, <3>4
  <2>10. Good(g, m)
    BY <2>6, <2>9
  <2> HIDE DEF Good
  <2>11. \E x : Good(x, n + 1 - j)
    BY <2>10, <2>m
  <2> QED
    BY <2>11
<1>3. n \in T
  <2> HIDE DEF T
  <2>1. 0 .. n \subseteq T
    BY <1>1, <1>2, Upward
  <2> QED
    BY <2>1
<1>4. PICK f : Good(f, 1)
  <2>1. n + 1 - n = 1
    OBVIOUS
  <2> HIDE DEF Good
  <2> QED
    BY <1>3, <2>1
<1>5. Law(f)
  <2>1. f = [i \in 1 .. n + 3 |-> f[i]]
    BY <1>4
  <2> HIDE DEF Then, A
  <2> QED
    BY <1>4, <2>1
<1>6. Law(kept)
  <2> HIDE DEF Law
  <2> QED
    BY <1>5
<1>7. Shown(bytes) = kept[1]
  BY <1>n DEF Shown
<1> HIDE DEF kept
<1>8. \A i \in 1 .. n + 3 : kept[i] = Then(kept, i)
  <2> HIDE DEF Then
  <2> QED
    BY <1>6
(* All of kept is made of bytes.                                            *)
<1> DEFINE U == {j \in 0 .. n : \A i \in n + 1 - j .. n + 3 : kept[i] \in A}
<1>9. 0 \in U
  <2>1. ASSUME NEW i \in n + 1 .. n + 3 PROVE kept[i] = <<>>
    <3>1. i \in 1 .. n + 3 /\ i > n
      OBVIOUS
    <3> QED
      BY <1>8, <3>1
  <2>2. <<>> \in A /\ n + 1 - 0 = n + 1 /\ 0 \in 0 .. n
    BY <1>e
  <2> HIDE DEF A
  <2> QED
    BY <2>1, <2>2
<1>10. ASSUME NEW j \in 1 .. n, j - 1 \in U PROVE j \in U
  <2>m. PICK m \in 1 .. n : m = n + 1 - j
    OBVIOUS
  <2>1. \A i \in m + 1 .. n + 3 : kept[i] \in A
    <3>1. n + 1 - (j - 1) = m + 1
      BY <2>m
    <3> HIDE DEF A
    <3> QED
      BY <1>10, <3>1
  <2>2. m + 1 \in m + 1 .. n + 3 /\ m + 3 \in m + 1 .. n + 3 /\ ~(m > n) /\ m \in 1 .. n + 3
    OBVIOUS
  <2>3. <<bytes[m]>> \in Seq(Bytes) /\ kept[m + 1] \in A /\ kept[m + 3] \in A
    BY <1>s, <2>1, <2>2
  <2>4. <<bytes[m]>> \o kept[m + 1] \in A
    BY <2>3
  <2>5. kept[m] \in A
    <3>1. kept[m] = Then(kept, m)
      <4> HIDE DEF Then
      <4> QED
        BY <1>8, <2>2
    <3> HIDE DEF A
    <3> QED
      BY <2>2, <2>3, <2>4, <3>1
  <2>6. \A i \in m .. n + 3 : i # m => i \in m + 1 .. n + 3
    OBVIOUS
  <2> HIDE DEF A
  <2> QED
    BY <2>1, <2>5, <2>6, <2>m
<1>11. n \in U
  <2> HIDE DEF U
  <2>1. 0 .. n \subseteq U
    BY <1>9, <1>10, Upward
  <2> QED
    BY <2>1
<1>12. kept[1] \in A
  <2>1. 1 \in n + 1 - n .. n + 3
    OBVIOUS
  <2> HIDE DEF A
  <2> QED
    BY <1>11, <2>1
<1> QED
  BY <1>7, <1>12
(* A connection's text is made of its characters.                           *)
LEMMA TextType ==
  ASSUME NEW c \in Conns, NEW k \in 1 .. Len(Segments)
  PROVE  /\ Text(c, k) \in Seq(Chars) /\ Text(c, k) = Of(c, Shown(Segments[k]))
         /\ \A i \in 1 .. Len(Text(c, k)) : Text(c, k)[i][1] = c
<1>1. Segments \in Seq(Seq(Bytes))
  BY TermAssumption DEF TermAssumption, Bytes
<1>2. Segments[k] \in Seq(Bytes)
  BY <1>1
<1>3. PICK t \in Seq(Bytes) : t = Shown(Segments[k])
  BY <1>2, ShownType
<1>4. Text(c, k) = Of(c, t)
  BY <1>3, TextAssumption DEF TextAssumption, Text
<1>5. Of(c, t) = [i \in 1 .. Len(t) |-> <<c, t[i]>>]
  BY DEF Of
<1>6. \A i \in 1 .. Len(t) : <<c, t[i]>> \in Chars
  BY DEF Chars
<1>7. Of(c, t) \in Seq(Chars) /\ Len(Of(c, t)) = Len(t)
  <2>1. Len(t) \in Nat
    OBVIOUS
  <2>2. Of(c, t) \in [1 .. Len(t) -> Chars]
    BY <1>5, <1>6
  <2>3. Of(c, t) \in Seq(Chars)
    BY <2>1, <2>2, IsASeq
  <2>4. Len(Of(c, t)) = Len(t)
    BY <2>1, <2>2, <2>3, LenProperties
  <2> QED
    BY <2>3, <2>4
<1>8. \A i \in 1 .. Len(t) : Of(c, t)[i][1] = c
  BY <1>5
<1> QED
  BY <1>3, <1>4, <1>7, <1>8

Segs == 0 .. Len(Segments)

(* f is the way to Told(c, gone, n).                                        *)
Tells(f, c, gone, n) ==
  /\ f \in [0 .. n -> Seq(Chars)] /\ f[0] = <<>> /\ Told(c, gone, n) = f[n]
  /\ \A k \in 1 .. n : f[k] = IF k \in gone THEN f[k - 1] ELSE f[k - 1] \o Text(c, k)

(* There is one.                                                            *)
LEMMA ToldExists ==
  ASSUME NEW c \in Conns, NEW gone, NEW n \in Segs
  PROVE  \E f : Tells(f, c, gone, n)
<1>n. n \in Nat /\ \A k \in 1 .. n : k \in 1 .. Len(Segments)
  <2>1. Segments \in Seq(Seq(0 .. IAC))
    BY TermAssumption DEF TermAssumption
  <2>2. Len(Segments) \in Nat
    BY <2>1
  <2> QED
    BY <2>2 DEF Segs
<1>s. \A k \in 1 .. n : Text(c, k) \in Seq(Chars)
  BY <1>n, TextType
<1> DEFINE A == Seq(Chars)
           h == [k \in 1 .. n |-> [x \in A |-> IF k \in gone THEN x ELSE x \o Text(c, k)]]
           Law(g) == g = [k \in 0 .. n |-> IF k = 0 THEN <<>>
                                           ELSE IF k \in gone THEN g[k - 1]
                                           ELSE g[k - 1] \o Text(c, k)]
           told == CHOOSE g : Law(g)
<1>1. h \in [1 .. n -> [A -> A]]
  <2>1. ASSUME NEW k \in 1 .. n, NEW x \in A
        PROVE  (IF k \in gone THEN x ELSE x \o Text(c, k)) \in A
    <3>1. Text(c, k) \in Seq(Chars)
      BY <1>s
    <3>2. x \o Text(c, k) \in A
      BY <3>1, ConcatProperties
    <3> QED
      BY <3>2
  <2> QED
    BY <2>1
<1>2. PICK r \in [0 .. n -> A] : Recurs(r, <<>>, h, n)
  <2>1. <<>> \in A
    OBVIOUS
  <2> HIDE DEF A, h
  <2> QED
    BY <1>n, <1>1, <2>1, Recursion
<1>3. \A k \in 1 .. n : r[k] = IF k \in gone THEN r[k - 1] ELSE r[k - 1] \o Text(c, k)
  <2> TAKE k \in 1 .. n
  <2>1. k - 1 \in 0 .. n
    BY <1>n
  <2>2. r[k] = h[k][r[k - 1]] /\ r[k - 1] \in A
    <3> HIDE DEF A, h
    <3> QED
      BY <1>2, <2>1 DEF Recurs
  <2>3. h[k][r[k - 1]] = IF k \in gone THEN r[k - 1] ELSE r[k - 1] \o Text(c, k)
    <3> HIDE DEF A
    <3> QED
      BY <2>2
  <2> QED
    BY <2>2, <2>3
<1>4. Law(r)
  <2>1. r[0] = <<>>
    BY <1>2 DEF Recurs
  <2>2. r = [k \in 0 .. n |-> r[k]]
    BY <1>2
  <2>3. \A k \in 0 .. n : k # 0 => k \in 1 .. n
    BY <1>n
  <2> HIDE DEF A, h
  <2> QED
    BY <1>3, <2>1, <2>2, <2>3
<1>5. Law(told)
  <2> HIDE DEF Law
  <2> QED
    BY <1>4
<1>6. Told(c, gone, n) = told[n]
  BY DEF Told
<1> HIDE DEF told
<1>7. \A k \in 0 .. n : told[k] = r[k]
  <2>1. told[0] = r[0]
    BY <1>2, <1>5, <1>n DEF Recurs
  <2>2. ASSUME NEW k \in 1 .. n, told[k - 1] = r[k - 1] PROVE told[k] = r[k]
    <3>0. k \in 0 .. n /\ k # 0
      BY <1>n
    <3>1. told[k] = IF k \in gone THEN told[k - 1] ELSE told[k - 1] \o Text(c, k)
      <4> HIDE DEF h, A
      <4> QED
        BY <1>5, <3>0
    <3> HIDE DEF Law, h, A
    <3> QED
      BY <1>3, <2>2, <3>1, Zenon
  <2> HIDE DEF Law, h, A
  <2> QED
    <3>1. Alike(told, r, n)
      BY <2>2 DEF Alike
    <3> QED
      BY <1>n, <2>1, <3>1, SameRecursion
<1>8. Tells(r, c, gone, n)
  BY <1>n, <1>2, <1>3, <1>6, <1>7 DEF Tells, Recurs
<1> QED
  BY <1>8

(* Nothing is told by no segment, and a segment tells its text unless it is *)
(* gone.                                                                    *)
LEMMA ToldStep ==
  ASSUME NEW c \in Conns, NEW gone, NEW n \in Segs
  PROVE  /\ Told(c, gone, n) \in Seq(Chars)
         /\ n = 0 => Told(c, gone, n) = <<>>
         /\ n # 0 => Told(c, gone, n) = IF n \in gone THEN Told(c, gone, n - 1)
                                        ELSE Told(c, gone, n - 1) \o Text(c, n)
<1>n. n \in Nat
  BY DEF Segs
<1>1. PICK f : Tells(f, c, gone, n)
  BY ToldExists
<1>2. ASSUME n # 0
      PROVE  Told(c, gone, n) = IF n \in gone THEN Told(c, gone, n - 1)
                                ELSE Told(c, gone, n - 1) \o Text(c, n)
  <2>m. PICK m \in Segs : m = n - 1
    BY <1>2 DEF Segs
  <2>1. PICK g : Tells(g, c, gone, m)
    BY ToldExists
  <2>2. \A k \in 0 .. m : g[k] = f[k]
    <3>1. g[0] = f[0]
      BY <1>1, <2>1 DEF Tells
    <3>2. ASSUME NEW k \in 1 .. m, g[k - 1] = f[k - 1] PROVE g[k] = f[k]
      <4>0. k \in 1 .. n
        BY <1>n, <2>m
      <4>1. f[k] = IF k \in gone THEN f[k - 1] ELSE f[k - 1] \o Text(c, k)
        BY <1>1, <4>0 DEF Tells
      <4>2. g[k] = IF k \in gone THEN g[k - 1] ELSE g[k - 1] \o Text(c, k)
        BY <2>1 DEF Tells
      <4> QED
        BY <3>2, <4>1, <4>2, Zenon
    <3> QED
      <4>1. Alike(g, f, m)
        BY <3>2 DEF Alike
      <4>2. m \in Nat
        BY DEF Segs
      <4> QED
        BY <3>1, <4>1, <4>2, SameRecursion
  <2>3. f[n] = IF n \in gone THEN f[m] ELSE f[m] \o Text(c, n)
    <3>1. n \in 1 .. n
      BY <1>n, <1>2
    <3> QED
      BY <1>1, <2>m, <3>1 DEF Tells
  <2>4. g[m] = f[m]
    <3>1. m \in 0 .. m
      BY DEF Segs
    <3> QED
      BY <2>2, <3>1
  <2>5. Told(c, gone, m) = f[m] /\ Told(c, gone, n) = f[n]
    BY <1>1, <2>1, <2>4 DEF Tells
  <2> QED
    BY <2>3, <2>5, <2>m
<1>3. Told(c, gone, n) \in Seq(Chars) /\ (n = 0 => Told(c, gone, n) = <<>>)
  <2>1. n \in 0 .. n
    BY <1>n
  <2> QED
    BY <1>1, <2>1 DEF Tells
<1> QED
  BY <1>2, <1>3

(* What is told by n segments depends on which of them are gone.            *)
LEMMA ToldAgrees ==
  ASSUME NEW c \in Conns, NEW gone, NEW more, NEW n \in Segs,
         \A k \in 1 .. n : k \in gone <=> k \in more
  PROVE  Told(c, gone, n) = Told(c, more, n)
<1>n. n \in Nat /\ \A k \in 0 .. n : k \in Segs
  BY DEF Segs
<1> DEFINE T == {k \in 0 .. n : Told(c, gone, k) = Told(c, more, k)}
<1>1. 0 \in T
  <2>1. 0 \in Segs /\ 0 \in 0 .. n
    BY <1>n
  <2>2. Told(c, gone, 0) = <<>> /\ Told(c, more, 0) = <<>>
    BY <2>1, ToldStep
  <2> QED
    BY <2>1, <2>2
<1>2. ASSUME NEW k \in 1 .. n, k - 1 \in T PROVE k \in T
  <2>1. k \in Segs /\ k # 0 /\ k \in 0 .. n
    BY <1>n
  <2>2. Told(c, gone, k) = IF k \in gone THEN Told(c, gone, k - 1)
                           ELSE Told(c, gone, k - 1) \o Text(c, k)
    BY <2>1, ToldStep
  <2>3. Told(c, more, k) = IF k \in more THEN Told(c, more, k - 1)
                           ELSE Told(c, more, k - 1) \o Text(c, k)
    BY <2>1, ToldStep
  <2>4. Told(c, gone, k - 1) = Told(c, more, k - 1)
    BY <1>2
  <2>5. k \in gone <=> k \in more
    OBVIOUS
  <2>6. Told(c, gone, k) = Told(c, more, k)
    <3>1. CASE k \in gone
      BY <2>2, <2>3, <2>4, <2>5, <3>1, Zenon
    <3>2. CASE k \notin gone
      BY <2>2, <2>3, <2>4, <2>5, <3>2, Zenon
    <3> QED
      BY <3>1, <3>2
  <2> QED
    BY <2>1, <2>6
<1>3. 0 .. n \subseteq T
  <2> HIDE DEF T
  <2> QED
    BY <1>n, <1>1, <1>2, Upward
<1>4. n \in 0 .. n
  BY <1>n
<1> QED
  BY <1>3, <1>4

(* Segments that are gone tell nothing.                                     *)
LEMMA ToldSkips ==
  ASSUME NEW c \in Conns, NEW gone, NEW n \in Segs, NEW m \in Segs, m <= n,
         \A k \in m + 1 .. n : k \in gone
  PROVE  Told(c, gone, n) = Told(c, gone, m)
<1>n. n \in Nat /\ m \in Nat /\ \A k \in 0 .. n : k \in Segs
  BY DEF Segs
<1>d. PICK d \in Nat : d = n - m
  BY <1>n
<1> DEFINE T == {j \in 0 .. d : Told(c, gone, m + j) = Told(c, gone, m)}
<1>1. 0 \in T
  <2>1. m + 0 = m
    BY <1>n
  <2> QED
    BY <2>1
<1>2. ASSUME NEW j \in 1 .. d, j - 1 \in T PROVE j \in T
  <2>1. m + j \in Segs /\ m + j # 0 /\ m + j \in m + 1 .. n /\ m + (j - 1) = (m + j) - 1
    BY <1>n, <1>d
  <2>2. Told(c, gone, m + j) = Told(c, gone, (m + j) - 1)
    BY <2>1, ToldStep
  <2>3. Told(c, gone, m + (j - 1)) = Told(c, gone, m)
    BY <1>2
  <2>4. Told(c, gone, m + j) = Told(c, gone, m)
    BY <2>1, <2>2, <2>3
  <2> QED
    BY <2>4
<1>3. d \in T
  <2> HIDE DEF T
  <2>1. 0 .. d \subseteq T
    BY <1>1, <1>2, Upward
  <2> QED
    BY <2>1
<1>4. m + d = n
  BY <1>n, <1>d
<1> QED
  BY <1>3, <1>4
-----------------------------------------------------------------------------
(* The segments that waited.                                                *)

(* The segment that a FIN is lies behind the others.                        *)
LEMMA FinType == FIN \in Nat /\ FIN >= 1 /\ FIN - 1 = Len(Segments)
<1>1. Segments \in Seq(Seq(0 .. IAC))
  BY TermAssumption DEF TermAssumption
<1>2. Len(Segments) \in Nat
  BY <1>1
<1> QED
  BY <1>2 DEF FIN

(* They are those behind k up to one of them, as many as there are.         *)
LEMMA ReadyIsRun ==
  ASSUME NEW c, NEW k \in 1 .. FIN
  PROVE  \E m \in k .. FIN : Ready(c, k) = k + 1 .. m /\ Cardinality(Ready(c, k)) = m - k
<1>f. FIN \in Nat
  BY FinType
<1> DEFINE Missing == {j \in k + 1 .. FIN : j \notin ooseq[c]}
<1>1. \E m \in k .. FIN : Ready(c, k) = k + 1 .. m
  <2>1. CASE Missing = {}
    <3>1. Ready(c, k) = k + 1 .. FIN
      BY <1>f, <2>1 DEF Ready
    <3>2. FIN \in k .. FIN
      BY <1>f
    <3> QED
      BY <3>1, <3>2
  <2>2. CASE Missing # {}
    <3>1. Missing \in SUBSET Nat
      BY <1>f
    <3>2. PICK j \in Missing : \A i \in Missing : j <= i
      <4> HIDE DEF Missing
      <4> QED
        BY <2>2, <3>1, Smallest
    <3>m. PICK m \in k .. FIN : m = j - 1
      BY <1>f
    <3>3. j \in k + 1 .. FIN /\ j \notin ooseq[c]
      OBVIOUS
    <3>4. ASSUME NEW i \in k + 1 .. m PROVE i \in ooseq[c]
      <4>1. ~(j <= i) /\ i \in k + 1 .. FIN
        BY <1>f, <3>m, <3>3
      <4> QED
        BY <3>2, <4>1
    <3>5. ASSUME NEW i \in k + 1 .. FIN, i \in Ready(c, k) PROVE i \in k + 1 .. m
      <4>1. k + 1 .. i \subseteq ooseq[c]
        BY <3>5 DEF Ready
      <4>2. ~(j <= i)
        BY <1>f, <3>3, <4>1
      <4> QED
        BY <1>f, <3>m, <3>3, <4>2
    <3>6. ASSUME NEW i \in k + 1 .. m PROVE i \in Ready(c, k)
      <4>1. i \in k + 1 .. FIN
        BY <1>f
      <4>2. k + 1 .. i \subseteq k + 1 .. m
        OBVIOUS
      <4> QED
        BY <3>4, <4>1, <4>2 DEF Ready
    <3>7. Ready(c, k) \subseteq k + 1 .. FIN
      BY DEF Ready
    <3>8. Ready(c, k) = k + 1 .. m
      BY <3>5, <3>6, <3>7
    <3> QED
      BY <3>8
  <2> QED
    BY <2>1, <2>2
<1>2. PICK m \in k .. FIN : Ready(c, k) = k + 1 .. m
  BY <1>1
<1>3. Cardinality(k + 1 .. m) = m - k
  <2>1. k + 1 \in Int /\ m \in Int /\ k \in Int
    BY <1>f
  <2>2. Cardinality(k + 1 .. m) = IF k + 1 > m THEN 0 ELSE m - (k + 1) + 1
    BY <2>1, FS_Interval
  <2> QED
    BY <2>1, <2>2
<1> QED
  BY <1>2, <1>3

-----------------------------------------------------------------------------
(* The invariant.                                                           *)

Sent  == [from : Conns \cup {NULL}, seg : 0 .. FIN, len : Nat, size : Nat]
(* Frames that a host or another sent, and the words of them.               *)
Wires == {f \in Sent : f.from # NULL => f.seg \in 1 .. FIN} \X Nat

WordsTyped == fifo \in Seq(Wires) /\ got \in Seq(Wires) /\ opened \subseteq Conns

TextTyped ==
  /\ next \in [Conns -> 1 .. FIN + 1]
  /\ lost \in [Conns -> SUBSET (1 .. FIN)]
  /\ stream \in Seq(Chars) /\ shown \in Seq(Chars)

(* A segment that is lost was delivered.                                    *)
LostBefore == \A c \in Conns : \A k \in lost[c] : k < next[c]

StreamInv == WordsTyped /\ TextTyped /\ LostBefore /\ StreamInOrder

(* It holds in the beginning.                                               *)
LEMMA InitStream == StreamInit => StreamInv
<1> SUFFICES ASSUME StreamInit PROVE StreamInv
  OBVIOUS
<1>f. FIN \in Nat /\ FIN >= 1 /\ FIN - 1 = Len(Segments)
  BY FinType
<1>1. fifo = <<>> /\ got = <<>> /\ opened = {} /\ stream = <<>> /\ shown = <<>>
  BY DEF StreamInit
<1>2. next = [c \in Conns |-> 1] /\ lost = [c \in Conns |-> {}]
  BY DEF StreamInit
<1>3. WordsTyped /\ TextTyped /\ LostBefore
  BY <1>f, <1>1, <1>2 DEF WordsTyped, TextTyped, LostBefore
<1>4. StreamInOrder
  <2> SUFFICES ASSUME NEW c \in Conns
               PROVE  Part(c, shown \o stream)
                        = Told(c, lost[c], (IF next[c] < FIN THEN next[c] ELSE FIN) - 1)
    BY DEF StreamInOrder
  <2>1. (IF next[c] < FIN THEN next[c] ELSE FIN) - 1 = 0 /\ 0 \in Segs
    BY <1>f, <1>2 DEF Segs
  <2>2. Told(c, lost[c], 0) = <<>>
    BY <2>1, ToldStep
  <2>3. shown \o stream = <<>> /\ <<>> \in Seq(Chars)
    BY <1>1
  <2>4. PICK f : Parts(f, c, <<>>)
    BY <2>3, PartExists
  <2>5. Part(c, <<>>) = <<>>
    BY <2>4 DEF Parts
  <2> QED
    BY <2>1, <2>2, <2>3, <2>5
<1> QED
  BY <1>3, <1>4 DEF StreamInv
(* What keeps the text, and what was delivered of it, keeps the order.      *)
LEMMA TextKept ==
  ASSUME TextTyped, LostBefore, StreamInOrder, UNCHANGED <<next, lost, stream, shown>>
  PROVE  TextTyped' /\ LostBefore' /\ StreamInOrder'
<1>1. next' = next /\ lost' = lost /\ stream' = stream /\ shown' = shown
  OBVIOUS
<1>2. TextTyped'
  BY <1>1 DEF TextTyped
<1>3. LostBefore'
  BY <1>1 DEF LostBefore
<1>4. StreamInOrder'
  BY <1>1, Zenon DEF StreamInOrder
<1> QED
  BY <1>2, <1>3, <1>4

(* Whoever it is for, a segment in its turn goes on where its connection's  *)
(* text ended; what it was waited for by is lost.                           *)
LEMMA DeliveredInOrder ==
  ASSUME TextTyped, LostBefore, StreamInOrder, NEW c \in Conns, NEW k \in 1 .. FIN, InTurn(c, k)
  PROVE  TextTyped' /\ LostBefore' /\ StreamInOrder'
<1>f. FIN \in Nat /\ FIN >= 1 /\ FIN - 1 = Len(Segments)
  BY FinType
<1>k. k = next[c]
  BY DEF InTurn
<1>m. PICK m \in k .. FIN : Ready(c, k) = k + 1 .. m /\ Cardinality(Ready(c, k)) = m - k
  BY ReadyIsRun
<1>1. next' = [next EXCEPT ![c] = m + 1]
  <2>1. next' = [next EXCEPT ![c] = k + 1 + Cardinality(Ready(c, k))]
    BY DEF InTurn
  <2>2. k + 1 + Cardinality(Ready(c, k)) = m + 1
    BY <1>f, <1>m
  <2> QED
    BY <2>1, <2>2
<1>2. lost' = [lost EXCEPT ![c] = lost[c] \cup ((k + 1 .. m) \ {FIN})]
  BY <1>m DEF InTurn
<1>t. /\ next \in [Conns -> 1 .. FIN + 1] /\ lost \in [Conns -> SUBSET (1 .. FIN)]
      /\ stream \in Seq(Chars) /\ shown \in Seq(Chars)
  BY DEF TextTyped
<1>3. next'[c] = m + 1 /\ lost'[c] = lost[c] \cup ((k + 1 .. m) \ {FIN})
  BY <1>1, <1>2, <1>t
<1>4. \A d \in Conns : d # c => next'[d] = next[d] /\ lost'[d] = lost[d]
  BY <1>1, <1>2, <1>t
<1>5. next' \in [Conns -> 1 .. FIN + 1] /\ lost' \in [Conns -> SUBSET (1 .. FIN)]
  <2>1. m + 1 \in 1 .. FIN + 1 /\ lost[c] \cup ((k + 1 .. m) \ {FIN}) \in SUBSET (1 .. FIN)
    BY <1>f, <1>t
  <2>2. next' \in [Conns -> 1 .. FIN + 1]
    BY <1>1, <1>t, <2>1
  <2>3. lost' \in [Conns -> SUBSET (1 .. FIN)]
    BY <1>2, <1>t, <2>1
  <2> QED
    BY <2>2, <2>3
<1>6. LostBefore'
  <2> SUFFICES ASSUME NEW d \in Conns, NEW j \in lost'[d] PROVE j < next'[d]
    BY DEF LostBefore
  <2>1. CASE d = c
    <3>1. j \in lost[c] \/ j \in k + 1 .. m
      BY <1>3, <2>1
    <3>2. j \in lost[c] => j < k /\ j \in Int
      BY <1>f, <1>k, <1>t DEF LostBefore
    <3> QED
      BY <1>3, <1>f, <2>1, <3>1, <3>2
  <2>2. CASE d # c
    BY <1>4, <2>2 DEF LostBefore
  <2> QED
    BY <2>1, <2>2
(* The buffers, and what is each connection's own of them.                  *)
<1>7. /\ stream' \in Seq(Chars) /\ shown' \in Seq(Chars)
      /\ \A d \in Conns : Part(d, shown' \o stream') =
           IF d = c /\ k # FIN THEN Part(d, shown \o stream) \o Text(c, k)
           ELSE Part(d, shown \o stream)
  <2>1. CASE k = FIN
    <3>1. stream' = stream /\ shown' = shown
      BY <2>1 DEF InTurn
    <3> QED
      BY <1>t, <2>1, <3>1
  <2>2. CASE k # FIN
    <3>1. k \in 1 .. Len(Segments)
      BY <1>f, <2>2
    <3>2. PICK t \in Seq(Chars) : /\ t = Text(c, k) /\ t = Of(c, Shown(Segments[k]))
                                  /\ \A i \in 1 .. Len(t) : t[i][1] = c
      BY <3>1, TextType
    <3>3. PICK b \in Contents : b = Buffers /\ Whatever(b) = shown \o stream
      <4>1. Buffers \in Contents /\ Whatever(Buffers) = shown \o stream
        BY <1>t DEF Buffers, Contents, Whatever
      <4> QED
        BY <4>1
    <3>4. Becomes(Buffered(b, t))
      BY <2>2, <3>2, <3>3 DEF InTurn, TermRecv
    <3>5. Buffered(b, t) \in Contents
      BY <3>2, BufferedPart
    <3>6. PICK x \in Contents : x = Buffered(b, t)
      BY <3>5
    <3>7. stream' = x.stream /\ shown' = x.shown
      BY <3>4, <3>6 DEF Becomes
    <3>8. Whatever(x) = shown' \o stream' /\ stream' \in Seq(Chars) /\ shown' \in Seq(Chars)
      BY <3>7 DEF Whatever, Contents
    <3>9. ASSUME NEW d \in Conns
          PROVE  Part(d, shown' \o stream') = IF d = c THEN Part(d, shown \o stream) \o Text(c, k)
                                              ELSE Part(d, shown \o stream)
      <4>1. Part(d, Whatever(Buffered(b, t))) =
              IF d = c THEN Part(d, Whatever(b)) \o t ELSE Part(d, Whatever(b))
        BY <3>2, BufferedPart
      <4> QED
        BY <3>2, <3>3, <3>6, <3>8, <4>1
    <3> QED
      BY <2>2, <3>8, <3>9
  <2> QED
    BY <2>1, <2>2
<1>8. TextTyped'
  BY <1>5, <1>7 DEF TextTyped
<1> DEFINE Upto(n) == (IF n < FIN THEN n ELSE FIN) - 1
<1>9. \A d \in Conns : Part(d, shown \o stream) = Told(d, lost[d], Upto(next[d]))
  BY DEF StreamInOrder
<1>10. ASSUME NEW d \in Conns PROVE Part(d, shown' \o stream') = Told(d, lost'[d], Upto(next'[d]))
  <2>1. CASE d # c
    <3>1. Part(d, shown' \o stream') = Part(d, shown \o stream)
      BY <1>7, <2>1
    <3> HIDE DEF Upto
    <3> QED
      BY <1>4, <1>9, <2>1, <3>1
  <2>2. CASE d = c /\ k = FIN
    <3>1. Part(d, shown' \o stream') = Part(d, shown \o stream)
      BY <1>7, <2>2
    <3>2. m = FIN /\ k + 1 .. m = {}
      BY <1>f, <2>2
    <3>3. lost'[d] = lost[d]
      BY <1>3, <2>2, <3>2
    <3>4. Upto(next'[d]) = Upto(next[d])
      BY <1>3, <1>f, <1>k, <2>2, <3>2
    <3> HIDE DEF Upto
    <3> QED
      BY <1>9, <3>1, <3>3, <3>4
  <2>3. CASE d = c /\ k # FIN
    <3>k. k \in Segs /\ k # 0 /\ k - 1 \in Segs /\ k < FIN /\ Upto(next[c]) = k - 1
      BY <1>f, <1>k, <2>3 DEF Segs
    <3>n. PICK n \in Segs : n = Upto(next'[c]) /\ k <= n /\ n <= m
      <4>1. Upto(m + 1) \in Segs /\ k <= Upto(m + 1) /\ Upto(m + 1) <= m
        BY <1>f, <3>k DEF Segs
      <4> HIDE DEF Upto
      <4> QED
        BY <1>3, <4>1
    <3> HIDE DEF Upto
    <3>1. Part(c, shown' \o stream') = Told(c, lost[c], k - 1) \o Text(c, k)
      BY <1>7, <1>9, <2>3, <3>k
    <3>2. k \notin lost[c]
      BY <1>f, <1>k, <1>t DEF LostBefore
    <3>3. Told(c, lost[c], k) = Told(c, lost[c], k - 1) \o Text(c, k)
      <4>1. PICK gone : gone = lost[c]
        OBVIOUS
      <4>2. Told(c, gone, k) = IF k \in gone THEN Told(c, gone, k - 1)
                               ELSE Told(c, gone, k - 1) \o Text(c, k)
        BY <3>k, ToldStep
      <4> QED
        BY <3>2, <4>1, <4>2
    <3>4. Told(c, lost'[c], k) = Told(c, lost[c], k)
      <4>1. \A j \in 1 .. k : j \in lost[c] <=> j \in lost'[c]
        BY <1>3, <1>f
      <4> QED
        BY <3>k, <4>1, ToldAgrees
    <3>5. Told(c, lost'[c], n) = Told(c, lost'[c], k)
      <4>1. \A j \in k + 1 .. n : j \in k + 1 .. m /\ j # FIN
        BY <1>f, <3>n DEF Segs
      <4>2. \A j \in k + 1 .. n : j \in lost'[c]
        BY <1>3, <4>1
      <4> QED
        BY <3>k, <3>n, <4>2, ToldSkips
    <3> QED
      BY <2>3, <3>n, <3>1, <3>3, <3>4, <3>5
  <2> QED
    BY <2>1, <2>2, <2>3
<1>11. StreamInOrder'
  BY <1>10, Zenon DEF StreamInOrder
<1> QED
  BY <1>6, <1>8, <1>11
(* What is out of turn is not delivered.                                    *)
LEMMA InputInOrder ==
  ASSUME TextTyped, LostBefore, StreamInOrder, NEW c \in Conns, NEW k \in 1 .. FIN, Input(c, k)
  PROVE  TextTyped' /\ LostBefore' /\ StreamInOrder' /\ opened' = opened
<1>1. CASE InTurn(c, k)
  <2>1. TextTyped' /\ LostBefore' /\ StreamInOrder'
    BY <1>1, DeliveredInOrder
  <2>2. opened' = opened
    BY <1>1 DEF InTurn
  <2> QED
    BY <2>1, <2>2
<1>2. CASE OutOfTurn(c, k)
  <2>1. UNCHANGED <<next, lost, stream, shown>> /\ opened' = opened
    BY <1>2 DEF OutOfTurn, conn
  <2>2. TextTyped' /\ LostBefore' /\ StreamInOrder'
    BY <2>1, TextKept
  <2> QED
    BY <2>1, <2>2
<1> QED
  BY <1>1, <1>2 DEF Input

(* The words of what arrives are of such frames.                            *)
LEMMA ArriveTyped ==
  ASSUME WordsTyped, TextTyped, Arrive
  PROVE  WordsTyped'
<1>1. PICK f \in Frames : fifo' = fifo \o Words(f)
  BY DEF Arrive
<1>2. got' = got /\ opened' = opened
  BY DEF Arrive, term, conn
<1>3. f \in Sent /\ (f.from # NULL => f.seg \in 1 .. FIN)
  <2>f. FIN \in Nat /\ SIZE \in Nat /\ Others \subseteq [len : Nat, size : Nat]
    BY FinType, TermAssumption DEF TermAssumption
  <2>1. CASE f \in [from : opened, seg : 1 .. FIN, len : {SIZE}, size : {SIZE}]
    BY <2>f, <2>1 DEF WordsTyped, Sent
  <2>2. CASE f \in {[from |-> NULL, seg |-> 0, len |-> o.len, size |-> o.size] : o \in Others}
    <3>1. PICK o \in Others : f = [from |-> NULL, seg |-> 0, len |-> o.len, size |-> o.size]
      BY <2>2
    <3>2. o.len \in Nat /\ o.size \in Nat
      BY <2>f
    <3> QED
      BY <2>f, <3>1, <3>2 DEF Sent
  <2> QED
    BY <2>1, <2>2 DEF Frames
<1>4. Words(f) \in Seq(Wires)
  <2>1. f.size + 2 \in Nat
    BY <1>3 DEF Sent
  <2>2. \A i \in 1 .. f.size + 2 : <<f, i>> \in Wires
    BY <1>3, <2>1 DEF Wires
  <2>3. Words(f) \in [1 .. f.size + 2 -> Wires]
    BY <2>2 DEF Words
  <2> QED
    BY <2>1, <2>3, IsASeq
<1>5. fifo' \in Seq(Wires)
  BY <1>1, <1>4, ConcatProperties DEF WordsTyped
<1> QED
  BY <1>2, <1>5 DEF WordsTyped

(* Reading takes words away.                                                *)
LEMMA ReadTyped ==
  ASSUME NEW q \in Seq(Wires)
  PROVE  AfterRead(q) \in Seq(Wires)
  BY DEF AfterRead

(* Every step keeps the invariant.                                          *)
LEMMA NextStream ==
  ASSUME StreamInv, [StreamNext]_streamVars
  PROVE  StreamInv'
<1>i. WordsTyped /\ TextTyped /\ LostBefore /\ StreamInOrder
  BY DEF StreamInv
<1>w. fifo \in Seq(Wires) /\ got \in Seq(Wires) /\ opened \subseteq Conns
  BY <1>i DEF WordsTyped
<1>e. <<>> \in Seq(Wires)
  OBVIOUS
(* Steps that do not concern the text.                                      *)
<1>k. ASSUME UNCHANGED <<next, lost, stream, shown>>, WordsTyped' PROVE StreamInv'
  BY <1>i, <1>k, TextKept DEF StreamInv
<1>1. CASE Arrive
  <2>1. UNCHANGED <<next, lost, stream, shown>>
    BY <1>1 DEF Arrive, term
  <2> QED
    BY <1>1, <1>i, <1>k, <2>1, ArriveTyped
<1>2. CASE TermAccept
  <2>1. UNCHANGED <<next, lost, stream, shown>> /\ fifo' = fifo /\ got' = got
    BY <1>2 DEF TermAccept, net
  <2>2. opened' \subseteq Conns
    BY <1>2, <1>w DEF TermAccept
  <2> QED
    BY <1>k, <1>w, <2>1, <2>2 DEF WordsTyped
<1>3. CASE vt100_flush
  <2>1. fifo' = fifo /\ got' = got /\ opened' = opened /\ next' = next /\ lost' = lost
    BY <1>3 DEF vt100_flush, conn
  <2>2. stream' = <<>> /\ shown' = shown \o stream
    BY <1>3 DEF vt100_flush, Becomes, Flushed, Buffers
  <2>3. stream \in Seq(Chars) /\ shown \in Seq(Chars)
    BY <1>i DEF TextTyped
  <2>4. shown' \o stream' = shown \o stream /\ shown' \in Seq(Chars) /\ stream' \in Seq(Chars)
    BY <2>2, <2>3
  <2>5. WordsTyped'
    BY <1>w, <2>1 DEF WordsTyped
  <2>6. TextTyped'
    BY <1>i, <2>1, <2>4 DEF TextTyped
  <2>7. LostBefore'
    BY <1>i, <2>1 DEF LostBefore
  <2>8. StreamInOrder'
    BY <1>i, <2>1, <2>4, Zenon DEF StreamInOrder
  <2> QED
    BY <2>5, <2>6, <2>7, <2>8 DEF StreamInv
<1>4. CASE PollNothing
  <2>1. UNCHANGED <<next, lost, stream, shown>> /\ fifo' = fifo /\ got' = got /\ opened' = opened
    BY <1>4 DEF PollNothing, term, conn
  <2> QED
    BY <1>k, <1>w, <2>1 DEF WordsTyped
<1>5. CASE PollLength
  <2>1. UNCHANGED <<next, lost, stream, shown>> /\ opened' = opened
    BY <1>5 DEF PollLength, term, conn
  <2>2. fifo' \in Seq(Wires)
    BY <1>5, <1>w, ReadTyped DEF PollLength
  <2>3. got' = <<>> \/ got' = got
    BY <1>5 DEF PollLength, Alloc
  <2> QED
    BY <1>e, <1>k, <1>w, <2>1, <2>2, <2>3 DEF WordsTyped
<1>6. CASE ClearRead
  <2>1. UNCHANGED <<next, lost, stream, shown>> /\ got' = got /\ opened' = opened
    BY <1>6 DEF ClearRead, term, conn
  <2>2. fifo' \in Seq(Wires)
    BY <1>6, <1>w DEF ClearRead
  <2> QED
    BY <1>k, <1>w, <2>1, <2>2 DEF WordsTyped
<1>7. CASE ClearDone
  <2>1. UNCHANGED <<next, lost, stream, shown>> /\ fifo' = fifo /\ opened' = opened /\ got' = <<>>
    BY <1>7 DEF ClearDone, Alloc, term, conn
  <2> QED
    BY <1>e, <1>k, <1>w, <2>1 DEF WordsTyped
<1>8. CASE ReadByte
  <2>1. UNCHANGED <<next, lost, stream, shown>> /\ opened' = opened
    BY <1>8 DEF ReadByte, term, conn
  <2>2. fifo' \in Seq(Wires)
    BY <1>8, <1>w, ReadTyped DEF ReadByte
  <2>3. NoWord \in Wires
    BY FinType DEF NoWord, Wires, Sent
  <2>4. PICK w \in Wires : w = IF fifo = <<>> THEN NoWord ELSE Head(fifo)
    BY <1>w, <2>3
  <2>5. got' = IF keep THEN Append(got, w) ELSE got
    BY <1>8, <2>4 DEF ReadByte
  <2>6. got' \in Seq(Wires)
    BY <1>w, <2>5, AppendProperties
  <2> QED
    BY <1>k, <1>w, <2>1, <2>2, <2>6 DEF WordsTyped
<1>9. CASE ReadDone
  <2>1. fifo' = fifo /\ got' = <<>>
    BY <1>9 DEF ReadDone
  <2>2. CASE keep /\ Whole
    <3>1. got # <<>> /\ got[1][1].from # NULL
      BY <2>2 DEF Whole
    <3>2. got[1] \in Wires
      BY <1>w, <3>1
    <3>3. PICK c \in Conns, k \in 1 .. FIN : c = got[1][1].from /\ k = got[1][1].seg
      BY <3>1, <3>2 DEF Wires, Sent
    <3>4. Input(c, k)
      BY <1>9, <2>2, <3>3 DEF ReadDone
    <3>5. TextTyped' /\ LostBefore' /\ StreamInOrder' /\ opened' = opened
      BY <1>i, <3>4, InputInOrder
    <3> QED
      BY <1>e, <1>w, <2>1, <3>5 DEF WordsTyped, StreamInv
  <2>3. CASE ~(keep /\ Whole)
    <3>1. UNCHANGED <<next, lost, stream, shown>> /\ opened' = opened
      BY <1>9, <2>3 DEF ReadDone, term, conn
    <3> QED
      BY <1>e, <1>k, <1>w, <2>1, <3>1 DEF WordsTyped
  <2> QED
    BY <2>2, <2>3
<1>10. CASE UNCHANGED streamVars
  <2>1. UNCHANGED <<next, lost, stream, shown>> /\ fifo' = fifo /\ got' = got /\ opened' = opened
    BY <1>10 DEF streamVars, net, term, conn
  <2> QED
    BY <1>k, <1>w, <2>1 DEF WordsTyped
<1> QED
  BY <1>1, <1>2, <1>3, <1>4, <1>5, <1>6, <1>7, <1>8, <1>9, <1>10 DEF StreamNext

(* What the terminal shows, and will show when the buffer is emptied next,  *)
(* is of every connection the text that lwIP delivered of it in first       *)
(* pbufs, in order and every character once: whatever is dropped, comes     *)
(* twice or comes early on the way, and whatever lengths are read in the    *)
(* middle of a frame, as long as lwIP's checksums find out a frame that was *)
(* misread and no segment ends inside a telnet command (TextAssumption).    *)
(* The text behind a first pbuf is lost, and not claimed.                   *)
THEOREM TextInOrder == StreamSpec => []StreamInOrder
<1>1. StreamInv /\ [StreamNext]_streamVars => StreamInv'
  BY NextStream
<1>2. StreamInv => StreamInOrder
  BY DEF StreamInv
<1> QED
  BY InitStream, <1>1, <1>2, PTL DEF StreamSpec
=============================================================================
