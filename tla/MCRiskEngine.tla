---------------------------- MODULE MCRiskEngine ----------------------------
(***************************************************************************)
(* A small instance of RiskEngine: one entry band around 100, stops on     *)
(* both sides near and far, targets of every quality, snapshots of every   *)
(* quality.  Each threshold is met exactly: the size and leverage limits,  *)
(* the loss budget (the largest size with the stop at 90; 88 exceeds it),  *)
(* the reward ratio (stop 90 with 115, 88 with 118), confidence, spread,   *)
(* ages, and the volatility at which the regimes change.                   *)
(***************************************************************************)
EXTENDS RiskEngine

SomeProposals ==
    {[action |-> "NO_TRADE", entryMin |-> 99, entryMax |-> 101, stop |-> 97, targets |-> {},
      size |-> 0, leverage |-> 100, confidence |-> c] : c \in {40, 90}}
    \cup
    [action: {"LONG", "SHORT"}, entryMin: {99}, entryMax: {101}, stop: {88, 90, 97, 100, 103},
     targets: {{}, {115}, {118}, {101, 130}, {70, 105}},
     size: {0, 1, 50000, 100000, 200000}, leverage: {50, 300, 500},
     confidence: {49, 50, 60, 70}]

SomeSnapshots ==
    {[stale |-> FALSE, dataAge |-> 0, spread |-> None, volatility |-> v] :
         v \in {None, 50, 150, 300}}
    \cup {[stale |-> FALSE, dataAge |-> 2, spread |-> 10, volatility |-> 100],
          [stale |-> TRUE, dataAge |-> 0, spread |-> 10, volatility |-> 100],
          [stale |-> FALSE, dataAge |-> 1, spread |-> 30, volatility |-> 100],
          [stale |-> FALSE, dataAge |-> 0, spread |-> 31, volatility |-> 100]}
=============================================================================
