-------------------------------- MODULE MCUILoop -------------------------------
(* A small keyboard, two buttons, and the language of SampleLanguage.      *)
EXTENDS UILoop, SampleLanguage

MCKeyMap == (0 :> "ESCAPE") @@ (1 :> "ENTER")
MCBoardKeys == {"1", "A"} \cup ControlKeys
===============================================================================
