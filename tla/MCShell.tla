-------------------------------- MODULE MCShell --------------------------------
(* Shell on a screen of a few cells. *)
EXTENDS Shell

MCPrompt == <<">">>
MCOutChars == {"x", "\n", "bs", "\t"}
MCMessage == <<"m", "\n">>
MCSpots == {<<0, 0>>, <<HEIGHT - 1, 1>>}
================================================================================
