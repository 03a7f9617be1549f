---------------------------- MODULE MCLifetimes ----------------------------
(***************************************************************************)
(* A small instance: two signals, one sliced, that an EXPR, a CUSTOM and a *)
(* DIM mapping read, an EXPR of a text, both caches and bindings, and a    *)
(* function name that is registered twice.                                 *)
(***************************************************************************)
EXTENDS LifetimeProperties

MCNames == {"sliced", "plain", "sum", "fit", "dim", "odd", "label"}
MCRequests == {"sum", "fit", "dim", "odd"}
MCCustoms == {"fit"}
MCKeys == {"k1", "k2"}

Source(key, slice, types, lends) ==
    [kind |-> "DATA_SOURCE", deps |-> << >>, key |-> key, slice |-> slice, types |-> types,
     lends |-> lends]
Computed(kind, deps, types) ==
    [kind |-> kind, deps |-> deps, key |-> "none", slice |-> FALSE, types |-> types,
     lends |-> FALSE]

MCMapping ==
    [n \in MCNames |->
        CASE n = "sliced" -> Source("k1", TRUE, {"single"}, TRUE)
          [] n = "plain"  -> Source("k2", FALSE, {"double"}, TRUE)
          [] n = "sum"    -> Computed("EXPR", <<"plain", "sliced">>, {"double"})
          [] n = "fit"    -> Computed("CUSTOM", <<"sum", "label">>, {"text"})
          [] n = "dim"    -> Computed("OTHER", <<"sliced">>, {"word"})
          [] n = "odd"    -> Computed("EXPR", <<"label">>, {"double"})
          [] n = "label"  -> Computed("OTHER", << >>, {"text"})]

MCFunctionOf == [c \in MCCustoms |-> "fit"]
MCName == [f \in {"python_fit", "fit", "aux"} |-> IF f = "aux" THEN "aux" ELSE "fit"]
MCLibraries == {<<"python_fit">>, <<"aux", "fit">>}

Depths == 1..3
MCSlots ==
    {<<"source", k, 0>> : k \in MCKeys} \cup {<<"mapping", n, 0>> : n \in MCNames}
    \cup {<<"result", 0, 0>>, <<"temp", 0, 0>>}
    \cup {<<"array", d, 0>> : d \in Depths} \cup {<<"param", d, i>> : d \in Depths, i \in 1..2}

MCShared == {"k1", "sum"}
MCFunctions == 3
=============================================================================
