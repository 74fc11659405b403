-------------------------- MODULE PaperPerformance --------------------------
(***************************************************************************)
(* What `crypto portfolio` and `crypto leaderboard` say of a strategy:     *)
(* compute_performance in tradingagents/paper/performance.py, over the     *)
(* tables that PaperExecution writes.                                      *)
(*                                                                         *)
(* Ratios are given by their numerators where the denominator is fixed,    *)
(* and in whole percents where it is not.  Win rate, profit factor, Sharpe *)
(* ratio and average leverage are left out; a figure that cannot be        *)
(* calculated is None, as in the code.                                     *)
(***************************************************************************)
EXTENDS PaperExecution

HasFills == fills # <<>>
LastRow == equities[Len(equities)]

Total(f(_)) == SumFunction([n \in DOMAIN fills |-> f(fills[n])])

FeesPaid == IF HasFills THEN Total(LAMBDA f : f.fee) ELSE None
RealizedPnl == IF HasFills THEN RealizedTotal(fills) ELSE None

\* Every row of the positions table as it was last marked.
UnrealizedPnl ==
    CASE \E i \in Instruments : positions[i] # None -> TotalUnrealized(positions)
      [] HasFills /\ \A i \in Instruments : positions[i] = None -> 0
      [] OTHER -> None

\* Mutant: profit on closed positions instead of the equity curve.
GainRealized == RealizedPnl

\* total_return, times the starting balance: by the equity curve if there is one.
Gain ==
    CASE equities # <<>> -> LastRow.equity - StartingBalance
      [] equities = <<>> /\ HasFills -> RealizedPnl + UnrealizedPnl - FeesPaid
      [] OTHER -> None

\* In whole percents of the peak.
Fall(peak, equity) == IF peak > 0 THEN ((peak - equity) * 100) \div peak ELSE 0

LargerOf(a, b) == IF b > a THEN b ELSE a

Passed(seen, equity) ==
    LET peak == LargerOf(seen.peak, equity)
    IN  [peak |-> peak, worst |-> LargerOf(seen.worst, Fall(peak, equity))]

\* maximum_drawdown: the peak runs along the curve and the worst fall is kept.
Drawdown ==
    LET seen[n \in 0..Len(equities)] ==
            IF n = 0 THEN [peak |-> equities[1].equity, worst |-> 0]
            ELSE Passed(seen[n - 1], equities[n].equity)
    IN  IF Len(equities) < 2 THEN None ELSE seen[Len(equities)].worst

-----------------------------------------------------------------------------
(* Correctness.                                                            *)

\* The ranking figure is the money made: realized profit and profit on paper less
\* fees, and less the margin that open positions tie up, which the equity of a
\* snapshot leaves out (portfolio.py:149).  The fallback without a curve would not.
GainAddsUp ==
    Gain # None =>
        Gain + MarginHeld = RealizedPnl + LastRow.upnl - FeesPaid

\* Snapshot i is the highest there was until j.
IsPeak(i, j) == i <= j /\ \A k \in 1..j : equities[k].equity <= equities[i].equity

\* A drawdown is a fall from the highest equity until then, and no such is worse.
DrawdownIsWorst ==
    Drawdown # None =>
        LET Falls == {Fall(equities[ij[1]].equity, equities[ij[2]].equity) :
                        ij \in {kl \in (DOMAIN equities) \X (DOMAIN equities) :
                                  IsPeak(kl[1], kl[2])}}
        IN  Drawdown \in Falls /\ \A fall \in Falls : fall <= Drawdown

\* The report of a strategy adds up with the fills it was made from, over every
\* sequence of adds, partial closes, flips and reopened rows (compute_performance,
\* record_equity_snapshot).
ReportAddsUp == GainAddsUp /\ DrawdownIsWorst
=============================================================================
