---------------------------- MODULE MCGateLedger ----------------------------
(* GateLedger for TLC: processes and tickers are interchangeable.          *)
EXTENDS GateLedger, TLC

Symmetry == Permutations(Proc) \union Permutations(Ticker)
=============================================================================
