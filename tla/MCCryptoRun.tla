---------------------------- MODULE MCCryptoRun ----------------------------
(***************************************************************************)
(* A small instance of CryptoRun: two markets, two dates and two profiles, *)
(* runs that name a profile and runs that do not.                          *)
(***************************************************************************)
EXTENDS CryptoRun

SomeRequests ==
    {[ticker |-> "BTC", date |-> "d1", strategy |-> NoStrategy, paper |-> TRUE],
     [ticker |-> "BTC", date |-> "d2", strategy |-> NoStrategy, paper |-> FALSE],
     [ticker |-> "ETH", date |-> "d1", strategy |-> "derivatives", paper |-> TRUE]}
=============================================================================
