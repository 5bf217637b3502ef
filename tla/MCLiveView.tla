------------------------------- MODULE MCLiveView -------------------------------
(* One page on one run: a small ledger is enough, as every race is between   *)
(* two reads or two connections.                                             *)
EXTENDS LiveView
===============================================================================
