------------------------------ MODULE SysTime ------------------------------
(***************************************************************************)
(* The firmware's notion of time.  The only clock is the CPU's 32-bit      *)
(* cycle counter; timer_now() divides it by CPU_KHZ, sys_now() is what     *)
(* lwIP's timers read, timer_sleep() and timer_sleep_us() busy-wait on it  *)
(* and main() gates its keyboard poll with it.                             *)
(*                                                                         *)
(* Time is the counter alone: a behaviour runs through as many wraps of    *)
(* the counter as it likes.                                                *)
(***************************************************************************)
EXTENDS Integers

CONSTANTS
  CPU_KHZ,      (* cycles in a millisecond                                 *)
  CycleMod,     (* the cycle counter counts modulo this, 2^32 in the CPU   *)
  MsMod,        (* uint32_t and t_time count modulo this                   *)
  InputPeriod,  (* main() polls the keyboard when more ms than this passed *)
  TimerPeriod,  (* the period in ms of a cyclic lwIP timer (tcp_tmr: 250)  *)
  Thousand,     (* 1000: the kHz in a MHz                                 *)
  Sleeps,       (* the arguments of timer_sleep_us, in microseconds        *)
  Steps         (* the cycles that may pass between two looks at the clock *)

ASSUME ClockAssumption ==
  /\ CPU_KHZ \in Nat \ {0}
  /\ Thousand \in Nat \ {0}
  /\ CycleMod \in Nat /\ CycleMod > CPU_KHZ
  /\ TimerPeriod \in Nat \ {0}
  /\ MsMod \in Nat /\ MsMod > 2 * ((CycleMod \div CPU_KHZ) + TimerPeriod)
  /\ InputPeriod \in Nat
  /\ Steps \subseteq 1 .. CycleMod - 1
  /\ Sleeps \subseteq Int

VARIABLES
  cycle,          (* the cycle CSR                                         *)
  LastTimerNow,   (* static in sys_now()                                   *)
  UptimeMillsecs, (* static in sys_now(), and what it returned last        *)
  due,            (* when the cyclic lwIP timer is to fire next            *)
  LastLoop,       (* main(): the timer_now() of the last keyboard poll     *)
  sleep           (* the timer_sleep_us() in progress, or Awake            *)

clock == <<LastTimerNow, UptimeMillsecs, due>>
vars  == <<cycle, LastTimerNow, UptimeMillsecs, due, LastLoop, sleep>>

(* No sleep in progress.  A sleep remembers its start and its length in    *)
(* cycles, and, for the properties only, what it was asked for and the     *)
(* cycles that really went by.                                             *)
Awake == [asleep |-> FALSE, start |-> 0, timeout |-> 0, us |-> 0, passed |-> 0]

(* timeUs * (CPU_KHZ / 1000): whole MHz, in an unsigned long.              *)
Timeout(us) == (us * (CPU_KHZ \div Thousand)) % CycleMod

(* timer_now() *)
TimerNow == cycle \div CPU_KHZ

(* The largest value timer_now() ever has: 151 s at 28.32 MHz.             *)
Horizon == (CycleMod - 1) \div CPU_KHZ

(* lwIP compares times through the sign of their unsigned difference.      *)
TimeLess(s, t) == (s - t) % MsMod > MsMod \div 2

Init ==
  /\ cycle = 0
  /\ LastTimerNow = 0
  /\ UptimeMillsecs = 0
  /\ due = TimerPeriod
  /\ LastLoop = 0
  /\ sleep = Awake

-----------------------------------------------------------------------------
(* A mistake: a counter taken for one that does not wrap.                  *)
Tick_NoWrap(n) ==
  /\ sleep.asleep => sleep.passed + n < CycleMod
  /\ cycle' = IF cycle < 2 * CycleMod THEN cycle + n ELSE cycle
  /\ sleep' = IF sleep.asleep THEN [sleep EXCEPT !.passed = @ + n] ELSE sleep
  /\ UNCHANGED <<clock, LastLoop>>

(* Cycles go by.  A sleeping program looks at the counter again before     *)
(* more than one wrap of it can pass.                                      *)
Tick(n) ==
  /\ sleep.asleep => sleep.passed + n < CycleMod
  /\ cycle' = (cycle + n) % CycleMod
  /\ sleep' = IF sleep.asleep THEN [sleep EXCEPT !.passed = @ + n] ELSE sleep
  /\ UNCHANGED <<clock, LastLoop>>

(* sys_now() *)
SysNow ==
  /\ UptimeMillsecs' = (UptimeMillsecs + (TimerNow - LastTimerNow)) % MsMod
  /\ LastTimerNow' = TimerNow

(* A mistake: the next time is not checked to lie ahead.                   *)
CheckTimeouts_NoCatchUp ==
  /\ ~sleep.asleep
  /\ SysNow
  /\ due' = IF TimeLess(UptimeMillsecs', due) THEN due ELSE (due + TimerPeriod) % MsMod
  /\ UNCHANGED <<cycle, LastLoop, sleep>>

(* sys_check_timeouts() at the end of pano_netif_poll(): ask sys_now() and *)
(* fire the timer as long as it is due.  A cyclic timer is due again a     *)
(* period after it was due, or, when that has gone by, a period from now.  *)
CheckTimeouts ==
  /\ ~sleep.asleep
  /\ SysNow
  /\ LET now  == UptimeMillsecs'
         next == (due + TimerPeriod) % MsMod
     IN  due' = IF TimeLess(now, due) THEN due
                ELSE IF TimeLess(now, next) THEN next
                ELSE (now + TimerPeriod) % MsMod
  /\ UNCHANGED <<cycle, LastLoop, sleep>>

(* A mistake: the time compared with a deadline, not the difference.       *)
PollInput_Deadline ==
  /\ ~sleep.asleep
  /\ TimerNow > (LastLoop + InputPeriod) % MsMod
  /\ LastLoop' = TimerNow
  /\ UNCHANGED <<cycle, clock, sleep>>

(* main(): the keyboard is read when more than InputPeriod ms have passed. *)
PollInput ==
  /\ ~sleep.asleep
  /\ (TimerNow - LastLoop) % MsMod > InputPeriod
  /\ LastLoop' = TimerNow
  /\ UNCHANGED <<cycle, clock, sleep>>

(* timer_sleep_us(): the loop is entered ...                               *)
SleepBegin(us) ==
  /\ ~sleep.asleep
  /\ sleep' = [asleep |-> TRUE, start |-> cycle, timeout |-> Timeout(us),
               us |-> us, passed |-> 0]
  /\ UNCHANGED <<cycle, clock, LastLoop>>

(* A mistake: the cycle counter compared with a deadline.                  *)
SleepEnd_Deadline ==
  /\ sleep.asleep
  /\ cycle >= (sleep.start + sleep.timeout) % CycleMod
  /\ sleep' = Awake
  /\ UNCHANGED <<cycle, clock, LastLoop>>

(* ... and left when the unsigned difference reaches the timeout.          *)
SleepEnd ==
  /\ sleep.asleep
  /\ (cycle - sleep.start) % CycleMod >= sleep.timeout
  /\ sleep' = Awake
  /\ UNCHANGED <<cycle, clock, LastLoop>>

Next ==
  \/ \E n \in Steps : Tick(n)
  \/ CheckTimeouts
  \/ PollInput
  \/ \E us \in Sleeps : SleepBegin(us)
  \/ SleepEnd

Spec == Init /\ [][Next]_vars

(* The counter runs and main(), one endless loop without a sleep in it,    *)
(* comes round to its clock checks many times in a millisecond.            *)
Fairness ==
  /\ WF_vars(\E n \in Steps : Tick(n))
  /\ WF_vars(SleepEnd)
  /\ \A ms \in 0 .. Horizon :
       /\ SF_vars(TimerNow = ms /\ CheckTimeouts)
       /\ SF_vars(TimerNow = ms /\ PollInput)

FairSpec == Spec /\ Fairness

-----------------------------------------------------------------------------
(* Every variable has its C type. *)
TypeOK ==
  /\ cycle \in 0 .. CycleMod - 1
  /\ LastTimerNow \in 0 .. MsMod - 1
  /\ UptimeMillsecs \in 0 .. MsMod - 1
  /\ due \in 0 .. MsMod - 1
  /\ LastLoop \in 0 .. MsMod - 1
  /\ sleep \in [asleep : BOOLEAN, start : 0 .. CycleMod - 1,
                timeout : 0 .. CycleMod - 1, us : Int, passed : Nat]

(* Between two wraps of the counter sys_now() does not go back, and a due  *)
(* timer fires at the next check.                                          *)
TimelyBeforeWrap ==
  [][LastTimerNow' # LastTimerNow /\ TimerNow >= LastTimerNow =>
       /\ UptimeMillsecs' >= UptimeMillsecs
       /\ due <= TimerNow => due' > TimerNow]_vars

(* timer_sleep_us() waits for as many microseconds as it was asked for, of *)
(* a clock of CPU_KHZ rounded down to whole MHz, also when the counter     *)
(* wraps while it waits: at 28320 kHz it may return 1.1 % early and never  *)
(* earlier.  A time whose cycles do not fit an unsigned long (152 s) is    *)
(* not waited for, and that is left out here.                              *)
SleepsWholeMegahertz ==
  [][sleep.asleep /\ ~sleep'.asleep
       /\ sleep.us * (CPU_KHZ \div Thousand) \in 0 .. CycleMod - 1
     => Thousand * sleep.passed >= sleep.us * (CPU_KHZ - (CPU_KHZ % Thousand))]_vars

(* Once nobody sleeps any more, main() goes on reading the keyboard for    *)
(* ever, wraps or not: the difference of two t_time is taken modulo 2^32,  *)
(* so the poll after a wrap comes early and never not at all.              *)
KeyboardPolled == <>[](~sleep.asleep) => []<><<PollInput>>_vars

(* What the cyclic timers of lwIP are for, and what pano_netif_poll() calls *)
(* sys_check_timeouts() for: once nobody sleeps any more, the timer is     *)
(* fired again and again.  sys_now() says that it keeps "a local up time"  *)
(* because timer_now() wraps, but adds the wrap itself as a difference, so *)
(* its time goes back and a timer can be due at a time that never comes.   *)
TimerKeepsFiring == <>[](~sleep.asleep) => []<><<due' # due>>_vars
=============================================================================
