------------------------------ MODULE MCHandler ------------------------------
(***************************************************************************)
(* Small instances of MappingHandler for TLC: one experiment "exp" with    *)
(* groups "mag" and "aux", partitioned by the attribute "shot".  "run" is  *)
(* an attribute a request may or may not give.                             *)
(***************************************************************************)
EXTENDS HandlerProperties

MCExps    == {"exp"}
MCSources == {"JSON"}
MCFactories == {"factory"}
MCVars    == {"shot", "run", "indices"}
MCValues  == {"v1", "v2"}
MCPartitionVars == {"shot"}

MCCells(groups) == MCExps \X groups \X [MCPartitionVars -> MCValues]

Blank == [type |-> "VALUE", source |-> None, args |-> None, slice |-> None,
          scale |-> FALSE, var |-> None, blank |-> {}, deps |-> << >>]
Value(v)       == [Blank EXCEPT !.var = v]
Renderless(v, x) == [Value(v) EXCEPT !.blank = {x}]
Ref(kind, q)   == [Blank EXCEPT !.type = kind, !.deps = q]
Expr(q, v)     == [Blank EXCEPT !.type = "EXPR", !.deps = q, !.var = v]
Fetched(a, slice, scale) ==
    [Blank EXCEPT !.type = "DATA_SOURCE", !.source = "JSON", !.args = a,
                  !.slice = slice, !.scale = scale]

NoGlobals == [v \in MCVars |-> None]
Ask(group, names, shot, run, index) ==
    [exp |-> "exp", group |-> group, lookup |-> names,
     vals |-> [v \in MCVars |-> CASE v = "shot" -> shot [] v = "run" -> run [] OTHER -> index]]
Conf(cache) == [cache |-> cache,
                steps |-> <<[source |-> None, factory |-> "factory"],
                            [source |-> "JSON", factory |-> "factory"]>>]

\* A configuration that declares no data source: it is registered later.
NoSource(cache) == [cache |-> cache, steps |-> << >>]
CachedConfigs   == {Conf(TRUE)}
LateConfigs     == {Conf(FALSE), NoSource(FALSE)}
BothConfigs     == {Conf(TRUE), Conf(FALSE)}

\* Arguments without a template are their own rendering; "run" is one the arguments
\* with a template give themselves.
MCTexts == {"signal", "plain", None} \cup MCValues
MCArgText(args) == [a \in args |-> [x \in MCValues \cup {None} |->
                       IF a = "template" THEN x ELSE a]]
MCSpelled == [x \in MCTexts |-> IF x \in MCValues THEN {"run"} ELSE {}]

(***************************************************************************)
(* Sharing: three mappings fetch the same arguments, "cell" is sliced by   *)
(* the request's index, "sum" refers to two of them and "size" to "sum".   *)
(***************************************************************************)
ShareNames == {"absent", "raw", "scaled", "cell", "sum", "size"}
ShareArgs  == {"signal"}
ShareArgVar == [a \in ShareArgs |-> None]
ShareArgText == MCArgText(ShareArgs)
ShareDefs ==
    [n \in ShareNames |->
        CASE n = "raw"    -> Fetched("signal", None, FALSE)
          [] n = "scaled" -> Fetched("signal", None, TRUE)
          [] n = "cell"   -> Fetched("signal", "indices", FALSE)
          [] n = "sum"    -> Expr(<<"raw", "cell">>, "shot")
          [] n = "size"   -> Ref("DIM", <<"sum">>)
          [] OTHER        -> None]
ShareMapping == [c \in MCCells({"mag"}) |-> ShareDefs]
ShareOrder == [c \in MCCells({"mag"}) |-> <<"cell", "raw", "scaled", "size", "sum">>]
ShareGlobals == [c \in MCCells({"mag"}) |-> NoGlobals]
ShareGroups  == [e \in MCExps |-> <<"mag">>]
ShareRequests ==
    {Ask("mag", <<"cell">>, "v1", None, "v1"), Ask("mag", <<"cell">>, "v1", None, "v2"),
     Ask("mag", <<"absent", "sum">>, "v1", "v1", "v1"),
     Ask("mag", <<"scaled">>, "v1", "v2", "v1")}
SiblingRequests ==
    {Ask("mag", <<"raw">>, "v1", None, "v1"), Ask("mag", <<"scaled">>, "v1", None, "v1")}

(***************************************************************************)
(* Trees: every map type, a mapping that refers to nothing, two that refer *)
(* to each other, a text that may render to nothing, a partition whose     *)
(* second group has no directory.                                          *)
(***************************************************************************)
TreeNames == {"alias", "cell", "const", "curve", "fit", "fn", "half", "loop", "lost",
              "pool", "size", "sum"}
TreeArgs  == {"plain", "template"}
TreeArgVar == [a \in TreeArgs |-> IF a = "plain" THEN None ELSE "run"]
TreeArgText == MCArgText(TreeArgs)
MagDefs ==
    [n \in TreeNames |->
        CASE n = "alias" -> Ref("FORWARD", << >>)
          [] n = "cell"  -> Fetched("plain", "indices", TRUE)
          [] n = "const" -> Renderless("run", "v2")
          [] n = "curve" -> Fetched("template", None, FALSE)
          [] n = "fit"   -> Ref("INTERP", <<"curve", "cell", "curve">>)
          [] n = "fn"    -> Ref("CUSTOM", <<"half">>)
          [] n = "half"  -> Expr(<<"sum">>, None)
          [] n = "loop"  -> Expr(<<"const", "pool">>, None)
          [] n = "lost"  -> Ref("DIM", <<"alias">>)
          [] n = "pool"  -> Ref("DIM", <<"loop">>)
          [] n = "size"  -> Ref("DIM", <<"fn">>)
          [] n = "sum"   -> Expr(<<"curve", "const">>, "indices")]
AuxDefs == [n \in TreeNames |-> IF n = "const" THEN Value("indices") ELSE None]
TreeMapping ==
    [c \in MCCells({"mag", "aux"}) |->
        CASE c[2] = "mag" -> MagDefs
          [] c[2] = "aux" /\ c[3]["shot"] = "v1" -> AuxDefs
          [] OTHER -> None]
TreeOrder ==
    [c \in DOMAIN TreeMapping |->
        IF c[2] = "mag"
        THEN <<"alias", "cell", "const", "curve", "fit", "fn", "half", "loop", "lost",
               "pool", "size", "sum">>
        ELSE <<"const">>]
TreeGlobals == [c \in MCCells({"mag", "aux"}) |-> NoGlobals]
TreeGroups  == [e \in MCExps |-> <<"mag", "aux">>]
MagOnly     == [e \in MCExps |-> <<"mag">>]
TreeRequests ==
    {Ask("mag", <<"sum">>, "v1", "v1", "v1"), Ask("mag", <<"fit">>, "v1", "v2", "v2"),
     Ask("mag", <<"size">>, "v1", "v1", "v2"), Ask("mag", <<"size">>, "v1", "v2", "v1"),
     Ask("mag", <<"loop">>, "v1", "v1", "v1"), Ask("mag", <<"sum">>, "v1", "v1", None),
     Ask("mag", <<"lost">>, "v1", None, "v1"), Ask("mag", <<"const">>, "v2", None, "v1"),
     Ask("aux", <<"const">>, "v1", None, "v2"), Ask("aux", <<"const">>, None, None, "v2")}
=============================================================================
