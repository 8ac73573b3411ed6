---------------------------- MODULE MCPluginManager ----------------------------
EXTENDS PluginManager

D(name, phase, deps, exports, gives) ==
  [name |-> name, phase |-> phase, deps |-> deps, exports |-> exports, gives |-> gives]

All(a, b, c) == ("a" :> a) @@ ("b" :> b) @@ ("c" :> c)

(* Every choice of dependencies among two plugins of the first phase and   *)
(* one of the second, good and bad: chains, cycles, a dependency on        *)
(* oneself, on a later phase, on a plugin that is not registered, and more *)
(* of them than are kept.                                                  *)
MCLists == {<<>>, <<"A">>, <<"B">>, <<"C">>, <<"A", "B">>, <<"C", "A">>, <<"B", "C">>,
            <<"B", "B", "A">>}

MCGraphs ==
  { All(D("A", 0, x, TRUE, <<"f">>), D("B", 0, y, TRUE, <<>>), D("C", 1, z, FALSE, <<"f", "g">>)) :
      x, y \in MCLists, z \in {<<>>, <<"A">>, <<"B">>, <<"A", "B">>, <<"B", "A", "C">>} }

(* Three phases; two plugins of one name, of which only the first to be    *)
(* registered can be depended on.                                          *)
MCManifests ==
  MCGraphs \cup
  { All(D("A", 2, <<"B">>, TRUE, <<>>), D("B", 1, <<"C">>, TRUE, <<"f">>), D("C", 0, <<>>, TRUE, <<"g">>)),
    All(D("A", 1, <<"B">>, TRUE, <<>>), D("B", 1, <<>>, TRUE, <<"f">>), D("B", 0, <<>>, FALSE, <<"g">>)) }
===============================================================================
