---------------------------- MODULE MCMarketData ----------------------------
(***************************************************************************)
(* Both data paths in one small instance, one at a time: they share no     *)
(* state.                                                                  *)
(*                                                                         *)
(* Crypto: one candle interval of two ticks, fundings every three, two     *)
(* snapshots within three ticks, so that a cache entry of two ticks is hit *)
(* and expires, and requests are retried once.                             *)
(*                                                                         *)
(* Stock: two threads make two tool calls between them, before or after    *)
(* midnight; one method of each kind; all vendors that have it, or only    *)
(* yfinance, so that chains have two vendors, one or none.  Yahoo has no   *)
(* row, one missing, or all.                                               *)
(***************************************************************************)
EXTENDS MarketData

OneInterval == <<"1h">>
TwoAndThree == [s \in {"1h", "funding_history"} |-> IF s = "1h" THEN 2 ELSE 3]
NoneOrGapOrAll == {{}, {1, 3}, {1, 2, 3}}
OneAtATime == {{"crypto"}, {"stock"}}
DefaultOrYahoo == {<<"default">>, <<"yfinance">>}

=============================================================================
