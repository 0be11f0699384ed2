----------------------------- MODULE MCDelivery -----------------------------
(***************************************************************************)
(* A package of a data source, a saved import and a route with a pattern;  *)
(* an operator may add a route whose fixed path the pattern fits too.      *)
(***************************************************************************)
EXTENDS Delivery, TLC

CONSTANTS feed, nightly, fixed, byId

MCPackage == <<<<"source", feed>>, <<"import", nightly>>, <<"route", byId>>>>

MCPathOf == (fixed :> <<"all">>) @@ (byId :> <<Param>>)

MCPaths == {<<"all">>}
=============================================================================
