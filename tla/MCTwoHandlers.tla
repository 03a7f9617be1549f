---------------------------- MODULE MCTwoHandlers ----------------------------
(***************************************************************************)
(* Two handlers with the same configuration and the same mappings, each    *)
(* with a data source of its own under the same name.                      *)
(***************************************************************************)
EXTENDS TwoHandlers, MCHandler

TwoNames == {"raw"}
TwoOrder == [c \in MCCells({"mag"}) |-> <<"raw">>]
TwoMapping == [c \in MCCells({"mag"}) |-> [n \in TwoNames |-> Fetched("signal", None, FALSE)]]
TwoRequests == {Ask("mag", <<"raw">>, "v1", None, "v1")}
=============================================================================
