------------------------------ MODULE Setting ------------------------------
(***************************************************************************)
(* What the configuration sector is for: one setting, the address of the   *)
(* TFTP server, that can be saved and is found again after a reboot.       *)
(***************************************************************************)
EXTENDS Naturals

CONSTANTS
  IPs,           (* the addresses; 0 is "not set"                          *)
  Wrecks         (* what a save that was interrupted may leave behind      *)

VARIABLES
  server,        (* the address in use                                     *)
  saved          (* the address a reboot would find                        *)

vars == <<server, saved>>

Init == server = 0 /\ saved = 0

(* An address is taken into use, and not saved, while there is none.       *)
Learn == server = 0 /\ server' \in IPs /\ UNCHANGED saved

(* The address in use, or one that is given, is saved and in use.          *)
Save == saved' \in IPs \cup {0} /\ server' = saved'

(* A reboot forgets what has not been saved, and so does a save that finds *)
(* no room.                                                                *)
Reboot == server' = saved /\ UNCHANGED saved

(* The power fails during a save: what a reboot finds then is in use.      *)
Crash == saved' \in IPs \cup {0} \cup Wrecks /\ server' = saved'

(* The sector is erased.                                                   *)
Clear == saved' = 0 /\ UNCHANGED server

Next == Learn \/ Save \/ Reboot \/ Crash \/ Clear

Spec == Init /\ [][Next]_vars
=============================================================================
