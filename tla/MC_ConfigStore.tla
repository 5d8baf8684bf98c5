-------------------------- MODULE MC_ConfigStore --------------------------
(* ConfigStore with a window of ten words, which is three entries and one  *)
(* word, as the 1024 bytes of gTemp are 85 entries and one word; a page is *)
(* five words, and the sector has a page behind the window.                *)
EXTENDS ConfigStore

MCIPs == {2001, 2002}
MCErased == -1
MCMemory == {-1, 77}

(* A torn length leads on by one word too many, out of the window, or back *)
(* to the entry before: -5 words are 0xffffffec bytes.                     *)
MCTornLens == {2, 99}
MCBackLens == {-5}
=============================================================================
