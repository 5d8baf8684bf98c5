---------------------------- MODULE MC_FlashView ----------------------------
(* FlashView with a flash of four sectors of two pages, each byte of which  *)
(* is erased or not.                                                        *)
EXTENDS FlashView

MCContents == [Addresses -> {Erased, 1}]
=============================================================================
