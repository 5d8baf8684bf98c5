---------------------------- MODULE MC_TftpLoader ----------------------------
(***************************************************************************)
(* Three sectors of four pages of two bytes, blocks of two pages: the      *)
(* proportions of the chip's pages to TFTP's blocks, in small sectors.     *)
(***************************************************************************)
EXTENDS TftpLoader

(* The starts of two sectors, within a page, half a block before the end   *)
(* of a sector, its last byte, and behind the flash.                       *)
Addrs == {0, 5, 6, 7, 8, 99}

Lens == {4, 5}

OneToN == {[i \in 1 .. n |-> i] : n \in {3, 4, 10}}

OldBytes == [a \in Addresses |-> 100 + a]
=============================================================================
