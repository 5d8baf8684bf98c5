---------------------------- MODULE MC_SysTime ----------------------------
(* SysTime with three cycles to a millisecond and a counter that wraps     *)
(* after eleven cycles: timer_now() runs from 0 to 3, against a cyclic    *)
(* timer of 1 ms and a keyboard poll above 1 ms.  As in the CPU the wrap   *)
(* falls into the middle of a millisecond and CPU_KHZ is not a multiple of *)
(* its thousand, so that the three microseconds of a sleep become three    *)
(* cycles instead of four and a half; thirteen do not fit the counter.     *)
EXTENDS SysTime

MCSleeps == {0, 3, 13}
MCSteps  == {1, 2}
=============================================================================
