------------------------------ MODULE MC_Shell ------------------------------
(* Shell with a command line of two characters and its end, and a print    *)
(* buffer, and room in lwIP, of two bytes.                                  *)
EXTENDS Shell

(* A character, a line in one segment, the same line in two, a telnet       *)
(* command in front of a backspace, and a backspace with a byte behind it.  *)
MCPbufs == {<<"d", "CR", "LF">>, <<"i", "CR">>, <<"x", "CR">>, <<"d">>, <<"CR">>,
            <<"IAC", "255", "255", "BS">>, <<"BS", "i">>, <<"BS">>}

(* Where peers type ahead and overlap two are enough: exit and a backspace. *)
MCRude  == {<<"x", "CR">>, <<"BS">>}
=============================================================================
