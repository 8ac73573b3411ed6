------------------------------ MODULE MCLauncher ------------------------------
EXTENDS Launcher

MCLower == [c \in Letters |-> IF c = "A" THEN "a" ELSE c]

(* Names with a common prefix, with capitals, an empty one, and two that   *)
(* differ in case only.                                                    *)
MCRegistry ==
  << NoApp, <<"b", "a">>, <<"A", "b">>, <<"a", "b">>, <<>>, <<"a", "a", "b">> >>
===============================================================================
