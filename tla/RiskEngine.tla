----------------------------- MODULE RiskEngine -----------------------------
(***************************************************************************)
(* The deterministic risk engine, the last word on a crypto proposal:      *)
(* tradingagents/risk/engine.py over tradingagents/risk/sizing.py.         *)
(*                                                                         *)
(* A review takes a proposal and the snapshot it was made on and, some     *)
(* time after the snapshot was taken, evaluates the rules.  Prices are     *)
(* integers; the entry price, the middle of a band, is kept doubled.       *)
(* Percentages are counted in the 0.0001 % steps the engine rounds to,     *)
(* leverage and confidence in hundredths, volatility in hundredths of a    *)
(* percent.  A size that the code holds as a Decimal is a fraction here,   *)
(* so nothing is rounded before the engine rounds.                         *)
(***************************************************************************)
EXTENDS Integers

CONSTANTS
    Proposals,      \* proposals under review
    Snapshots,      \* market snapshots they are made on
    RiskPerTrade,   \* paper_risk_per_trade_pct
    MaxLeverage,    \* paper_max_leverage
    MaxPosition,    \* paper_max_position_pct
    MinRewardRisk,  \* paper_min_reward_risk, in hundredths
    MaxSpread,      \* paper_max_spread_bps
    MaxDataAge,     \* crypto_max_data_age_seconds
    MaxWait,        \* bound: how long after the snapshot a review may come
    None            \* no snapshot, no spread, no volatility, no decision

Actions == {"LONG", "SHORT", "NO_TRADE"}

\* CryptoTradeProposal.  The engine does not rely on the validators of the class:
\* a LONG without targets or with its stop on the wrong side is a proposal too.  One
\* that has no entry band or no stop is not: crypto/schemas.py:254 refuses it.
Proposal ==
    [action: Actions, entryMin: Int, entryMax: Int, stop: Int, targets: SUBSET Int,
     size: Nat, leverage: Nat, confidence: 0..100]

\* What the engine reads of a CryptoMarketSnapshot.
Snapshot ==
    [stale: BOOLEAN, dataAge: Nat, spread: Nat \cup {None}, volatility: Nat \cup {None}]

ASSUME RiskAssumption ==
    /\ Proposals \subseteq Proposal
    /\ Snapshots \subseteq Snapshot
    /\ RiskPerTrade \in Nat
    /\ MaxLeverage \in Nat /\ MaxLeverage >= 100
    /\ MaxPosition \in Nat
    /\ MinRewardRisk \in Nat
    /\ MaxSpread \in Nat
    /\ MaxDataAge \in Nat
    /\ MaxWait \in Nat
    /\ None \notin Int
    /\ None \notin Snapshot

VARIABLES
    proposal,  \* the proposal under review
    snapshot,  \* the snapshot in hand, or None when the fetch failed
    waited,    \* seconds between the snapshot and now
    decision   \* the RiskDecision, or None

vars == <<proposal, snapshot, waited, decision>>

-----------------------------------------------------------------------------
(* Prices.                                                                 *)

Distance(a, b) == IF a >= b THEN a - b ELSE b - a

\* Twice the middle of the entry band.
Entry2(p) == p.entryMin + p.entryMax

\* Twice the distance from entry to the stop, and to a target.
StopDistance2(p) == Distance(Entry2(p), 2 * p.stop)
Reward2(p, target) == Distance(Entry2(p), 2 * target)

\* The target closest to entry is what the trade is judged by.
Nearest(p, target) ==
    target \in p.targets /\ \A t \in p.targets : Reward2(p, target) <= Reward2(p, t)

-----------------------------------------------------------------------------
(* The rules that reject.                                                  *)

MissingLevels(p) == p.targets = {}

\* Data that was old when the snapshot was built, or a snapshot that is old now.
StaleSnapshot(s, age) ==
    s # None /\ (s.stale \/ s.dataAge > MaxDataAge \/ age > MaxDataAge)

StopOnWrongSide(p) ==
    \/ p.action = "LONG" /\ 2 * p.stop >= Entry2(p)
    \/ p.action = "SHORT" /\ 2 * p.stop <= Entry2(p)

\* Mutant: the farthest target is good enough.
PoorRewardForBest(p) ==
    /\ p.targets # {}
    /\ \A t \in p.targets : Reward2(p, t) * 100 < MinRewardRisk * StopDistance2(p)

\* No ratio when the stop is at entry; otherwise nearest reward over risk.
PoorReward(p) ==
    /\ p.targets # {}
    /\ \/ StopDistance2(p) = 0
       \/ \E t \in p.targets :
            /\ Nearest(p, t)
            /\ Reward2(p, t) * 100 < MinRewardRisk * StopDistance2(p)

WideSpread(s) == s # None /\ s.spread # None /\ s.spread > MaxSpread

LowConfidence(p) == p.confidence < 50

Rejections(p, s, age) ==
    {reason \in {"missing levels", "stale snapshot", "stop on the wrong side",
                 "poor reward", "wide spread", "low confidence"} :
        CASE reason = "missing levels" -> MissingLevels(p)
          [] reason = "stale snapshot" -> StaleSnapshot(s, age)
          [] reason = "stop on the wrong side" -> StopOnWrongSide(p)
          [] reason = "poor reward" -> PoorReward(p)
          [] reason = "wide spread" -> WideSpread(s)
          [] reason = "low confidence" -> LowConfidence(p)}

-----------------------------------------------------------------------------
(* Sizing.  A size is a fraction [num, den] of steps.                      *)

LowerOf(a, b) == IF a <= b THEN a ELSE b

\* Mutant: requests below one are not raised.
LeverageCapped(p) == LowerOf(p.leverage, MaxLeverage)

ApprovedLeverage(p) ==
    LowerOf(IF p.leverage < 100 THEN 100 ELSE p.leverage, MaxLeverage)

\* Mutant: the requested size is not capped.
Asked(p) == p.size

AskedSize(p) == LowerOf(p.size, MaxPosition)

\* Mutant: the loss at the stop is not looked at.
Unsized(p) == [num |-> AskedSize(p), den |-> 1]

\* No more than loses RiskPerTrade of the equity at the stop; the equity itself
\* cancels out.  A price that is not positive has no stop distance to size by.
StopSized(p) ==
    IF Entry2(p) <= 0 \/ AskedSize(p) * StopDistance2(p) <= RiskPerTrade * Entry2(p)
    THEN [num |-> AskedSize(p), den |-> 1]
    ELSE [num |-> RiskPerTrade * Entry2(p), den |-> StopDistance2(p)]

\* classify_market_regime: the volatility regime the snapshot carries.
VolatilityRegime(v) ==
    IF v = None THEN "normal"
    ELSE IF v < 50 THEN "low"
    ELSE IF v < 150 THEN "normal"
    ELSE IF v < 300 THEN "high" ELSE "extreme"

\* Mutant: the reductions for high and extreme volatility are swapped.
SwappedScalar(s) ==
    IF s = None THEN 20
    ELSE CASE VolatilityRegime(s.volatility) = "extreme" -> 14
           [] VolatilityRegime(s.volatility) = "high" -> 8
           [] OTHER -> 20

\* In twentieths.  The reductions the code makes on the volatility itself are for
\* snapshots whose regime does not follow from it; none is built.
VolatilityScalar(s) ==
    IF s = None THEN 20
    ELSE CASE VolatilityRegime(s.volatility) = "extreme" -> 8
           [] VolatilityRegime(s.volatility) = "high" -> 14
           [] OTHER -> 20

\* In quarters.
ConfidenceScalar(p) ==
    IF p.confidence < 60 THEN 2 ELSE IF p.confidence < 70 THEN 3 ELSE 4

\* Scaled down and rounded half up to a step.
ApprovedSize(p, s) ==
    LET size == StopSized(p)
        num  == size.num * VolatilityScalar(s) * ConfidenceScalar(p)
        den  == size.den * 80
    IN  (2 * num + den) \div (2 * den)

-----------------------------------------------------------------------------
(* The decision.                                                           *)

Refused(reasons) ==
    [approved |-> FALSE, action |-> "NO_TRADE", size |-> 0, leverage |-> 100,
     reasons |-> reasons]

EvaluateRisk(p, s, age) ==
    LET reasons == Rejections(p, s, age)
    IN  IF p.action = "NO_TRADE"
        THEN [approved |-> TRUE, action |-> "NO_TRADE", size |-> 0, leverage |-> 100,
              reasons |-> {}]
        ELSE IF reasons # {} THEN Refused(reasons)
        ELSE IF StopSized(p).num = 0 THEN Refused({"size reduced to zero"})
        ELSE [approved |-> TRUE, action |-> p.action, size |-> ApprovedSize(p, s),
              leverage |-> ApprovedLeverage(p), reasons |-> {}]

Init ==
    /\ proposal \in Proposals
    /\ snapshot \in Snapshots \cup {None}
    /\ waited = 0
    /\ decision = None

\* The debate goes on while the snapshot gets older.
Wait ==
    /\ decision = None
    /\ waited < MaxWait
    /\ waited' = waited + 1
    /\ UNCHANGED <<proposal, snapshot, decision>>

Evaluate ==
    /\ decision = None
    /\ decision' = EvaluateRisk(proposal, snapshot, waited)
    /\ UNCHANGED <<proposal, snapshot, waited>>

Next == Wait \/ Evaluate

Spec == Init /\ [][Next]_vars

-----------------------------------------------------------------------------
(* Properties.                                                             *)

\* A review holds a proposal, its snapshot and a decision of the right shape.
TypeOK ==
    /\ proposal \in Proposals
    /\ snapshot \in Snapshots \cup {None}
    /\ waited \in 0..MaxWait
    /\ decision # None =>
         /\ decision.approved \in BOOLEAN
         /\ decision.action \in Actions
         /\ decision.size \in Nat
         /\ decision.leverage \in 100..MaxLeverage

Trade == decision # None /\ decision.approved /\ decision.action # "NO_TRADE"

\* What the rules ask of a trade, said of the trade and not of the engine: fresh
\* data, a stop on the losing side, every target worth the risk, a tight spread
\* and some confidence.
Sound(p, s, age) ==
    /\ s # None => ~s.stale /\ s.dataAge <= MaxDataAge /\ age <= MaxDataAge
    /\ s # None /\ s.spread # None => s.spread <= MaxSpread
    /\ p.action = "LONG" => 2 * p.stop < Entry2(p)
    /\ p.action = "SHORT" => 2 * p.stop > Entry2(p)
    /\ p.targets # {}
    /\ \A t \in p.targets : Reward2(p, t) * 100 >= MinRewardRisk * StopDistance2(p)
    /\ p.confidence >= 50

\* The engine approves exactly the sound trades that have a size: judging by the
\* nearest target is judging by all of them, and no rule is applied to a NO_TRADE
\* (evaluate_risk).
ApprovesExactlySoundTrades ==
    decision # None =>
        /\ decision.approved <=>
             \/ proposal.action = "NO_TRADE"
             \/ /\ Sound(proposal, snapshot, waited)
                /\ AskedSize(proposal) > 0
                /\ RiskPerTrade > 0 \/ Entry2(proposal) <= 0
        /\ decision.action = IF decision.approved THEN proposal.action ELSE "NO_TRADE"
        /\ decision.approved <=> decision.reasons = {}

\* "Ensure estimated loss at the stop does not exceed configured portfolio risk":
\* size times stop distance is at most RiskPerTrade of the entry, but for the half
\* step that rounding may add, whatever the leverage.
LossWithinBudget ==
    Trade /\ Entry2(proposal) > 0 =>
        2 * decision.size * StopDistance2(proposal)
          <= 2 * RiskPerTrade * Entry2(proposal) + StopDistance2(proposal)

\* The engine only takes away: neither size nor leverage exceeds what was asked
\* for or the configured limits.
OnlyReduces ==
    Trade =>
        /\ decision.size <= proposal.size /\ decision.size <= MaxPosition
        /\ decision.leverage <= MaxLeverage
        /\ proposal.leverage >= 100 => decision.leverage <= proposal.leverage

\* p with its stop k ticks farther from entry.
Wider(p, k) ==
    [p EXCEPT !.stop = IF p.action = "LONG" THEN p.stop - k ELSE p.stop + k]

\* A trade that is riskier in one respect -- a wider stop, less confidence, a more
\* volatile market -- is never approved for a larger size.
RiskierNeverLarger ==
    Trade =>
        /\ Entry2(proposal) > 0 =>
             \A k \in 0..3 :
                 EvaluateRisk(Wider(proposal, k), snapshot, waited).size <= decision.size
        /\ \A c \in {p.confidence : p \in Proposals} :
             c <= proposal.confidence =>
                 EvaluateRisk([proposal EXCEPT !.confidence = c], snapshot, waited).size
                   <= decision.size
        /\ \A s \in Snapshots :
             /\ snapshot # None /\ snapshot.volatility # None
             /\ s.volatility # None /\ s.volatility >= snapshot.volatility
             => EvaluateRisk(proposal, s, waited).size <= decision.size
=============================================================================
