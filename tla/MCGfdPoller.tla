---------------------------- MODULE MCGfdPoller ----------------------------
(***************************************************************************)
(* The four fetches of a client with a token, with the timeouts of the     *)
(* source in seconds.                                                      *)
(***************************************************************************)
EXTENDS GfdPoller

FourFetches == <<"EmilyGear", "LatestApple", "TierName", "Districts">>
=============================================================================
