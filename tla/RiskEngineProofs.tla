-------------------------- MODULE RiskEngineProofs --------------------------
(***************************************************************************)
(* Theorems about RiskEngine, for every proposal, snapshot and limit.      *)
(***************************************************************************)
EXTENDS RiskEngine, WellFoundedInduction, TLAPS

\* What is reviewed does not change, and the decision is the engine's.
ReviewInv ==
    /\ proposal \in Proposals
    /\ snapshot \in Snapshots \cup {None}
    /\ waited \in 0..MaxWait
    /\ decision # None => decision = EvaluateRisk(proposal, snapshot, waited)

LEMMA ReviewInvariant == Spec => []ReviewInv
  <1>1. Init => ReviewInv
    BY RiskAssumption DEF Init, ReviewInv
  <1>2. ReviewInv /\ [Next]_vars => ReviewInv'
    <2> SUFFICES ASSUME ReviewInv, [Next]_vars PROVE ReviewInv'
      OBVIOUS
    <2>1. CASE Wait
      BY <2>1, RiskAssumption DEF Wait, ReviewInv
    <2>2. CASE Evaluate
      BY <2>2 DEF Evaluate, ReviewInv
    <2>3. CASE UNCHANGED vars
      BY <2>3 DEF vars, ReviewInv
    <2>4. QED
      BY <2>1, <2>2, <2>3 DEF Next
  <1>3. QED
    BY <1>1, <1>2, PTL DEF Spec

(***************************************************************************)
(* Arithmetic.                                                             *)
(***************************************************************************)

\* Rounding num/den half up: never more than half a step too much.
LEMMA HalfUp ==
    ASSUME NEW num \in Nat, NEW den \in Nat, den > 0
    PROVE  LET h == (2 * num + den) \div (2 * den)
           IN  h \in Nat /\ 2 * den * h <= 2 * num + den
  OBVIOUS

\* A fraction that is at most a whole number is not rounded above it.
LEMMA HalfUpBelow ==
    ASSUME NEW num \in Nat, NEW den \in Nat, den > 0, NEW top \in Nat, num <= top * den
    PROVE  (2 * num + den) \div (2 * den) <= top
  <1> DEFINE h == (2 * num + den) \div (2 * den)
  <1>1. h \in Nat /\ 2 * den * h <= 2 * num + den
    BY HalfUp
  <1> HIDE DEF h
  <1>2. 2 * den * h <= 2 * (top * den) + den
    BY <1>1
  <1>3. ASSUME h >= top + 1 PROVE FALSE
    <2>1. den * h >= den * (top + 1)
      BY <1>1, <1>3
    <2>2. den * (top + 1) = top * den + den
      OBVIOUS
    <2>3. QED
      BY <1>1, <1>2, <2>1, <2>2
  <1>4. QED
    BY <1>1, <1>3 DEF h

LEMMA DistanceIsNat == \A a, b \in Int : Distance(a, b) \in Nat
  BY DEF Distance

\* Prices of a proposal and their distances are numbers.
LEMMA PricesAreNumbers ==
    ASSUME NEW p \in Proposal
    PROVE  /\ Entry2(p) \in Int
           /\ StopDistance2(p) \in Nat
           /\ \A t \in p.targets : t \in Int /\ Reward2(p, t) \in Nat
           /\ p.size \in Nat /\ p.leverage \in Nat /\ p.confidence \in 0..100
           /\ p.action \in Actions
  <1>1. /\ p.entryMin \in Int /\ p.entryMax \in Int /\ p.stop \in Int
        /\ p.targets \in SUBSET Int
        /\ p.size \in Nat /\ p.leverage \in Nat /\ p.confidence \in 0..100
        /\ p.action \in Actions
    BY DEF Proposal
  <1>2. Entry2(p) \in Int
    BY <1>1 DEF Entry2
  <1>3. StopDistance2(p) \in Nat
    <2>1. 2 * p.stop \in Int
      BY <1>1
    <2>2. QED
      BY <1>2, <2>1, DistanceIsNat, Zenon DEF StopDistance2
  <1>4. ASSUME NEW t \in p.targets PROVE t \in Int /\ Reward2(p, t) \in Nat
    <2>1. t \in Int
      BY <1>1
    <2>2. 2 * t \in Int
      BY <2>1
    <2>3. QED
      BY <1>2, <2>1, <2>2, DistanceIsNat, Zenon DEF Reward2
  <1>5. QED
    BY <1>1, <1>2, <1>3, <1>4

\* The size before the scalars is a fraction, at most what was asked for and, at a
\* positive price, at most what loses RiskPerTrade at the stop.
LEMMA StopSizedBounds ==
    ASSUME NEW p \in Proposal
    PROVE  LET size == StopSized(p)
           IN  /\ AskedSize(p) \in Nat
               /\ size.num \in Nat /\ size.den \in Nat /\ size.den > 0
               /\ size.num <= AskedSize(p) * size.den
               /\ Entry2(p) > 0 =>
                    size.num * StopDistance2(p) <= RiskPerTrade * Entry2(p) * size.den
  <1> DEFINE e == Entry2(p)
             d == StopDistance2(p)
             a == AskedSize(p)
  <1>1. e \in Int /\ d \in Nat /\ a \in Nat /\ RiskPerTrade \in Nat
    BY PricesAreNumbers, RiskAssumption DEF AskedSize, LowerOf
  <1>2. CASE e <= 0 \/ a * d <= RiskPerTrade * e
    <2>1. StopSized(p) = [num |-> a, den |-> 1]
      BY <1>2 DEF StopSized
    <2> HIDE DEF e, d, a
    <2>2. a <= a * 1 /\ (e > 0 => a * d <= RiskPerTrade * e * 1)
      BY <1>1, <1>2
    <2>3. QED
      BY <1>1, <2>1, <2>2 DEF e, d, a
  <1>3. CASE ~(e <= 0 \/ a * d <= RiskPerTrade * e)
    <2>1. StopSized(p) = [num |-> RiskPerTrade * e, den |-> d]
      BY <1>3 DEF StopSized
    <2> HIDE DEF e, d, a
    <2>2. RiskPerTrade * e \in Nat /\ RiskPerTrade * e < a * d
      BY <1>1, <1>3
    <2>3. d # 0
      BY <1>1, <2>2
    <2>4. RiskPerTrade * e <= a * d /\ (RiskPerTrade * e) * d <= RiskPerTrade * e * d
      BY <1>1, <2>2
    <2>5. QED
      BY <1>1, <2>1, <2>2, <2>3, <2>4 DEF e, d, a
  <1>4. QED
    BY <1>2, <1>3

\* The scalars only take away, and never everything.
LEMMA ScalarBounds ==
    ASSUME NEW p \in Proposal, NEW s \in Snapshot \cup {None}
    PROVE  /\ VolatilityScalar(s) \in 8..20
           /\ ConfidenceScalar(p) \in 2..4
           /\ VolatilityScalar(s) * ConfidenceScalar(p) \in 16..80
  <1>1. VolatilityScalar(s) \in {8, 14, 20}
    BY DEF VolatilityScalar
  <1>2. ConfidenceScalar(p) \in {2, 3, 4}
    BY DEF ConfidenceScalar
  <1>3. QED
    BY <1>1, <1>2

\* The approved size is bounded like the size before scalars and rounding.
LEMMA ApprovedSizeBounds ==
    ASSUME NEW p \in Proposal, NEW s \in Snapshot \cup {None}
    PROVE  /\ ApprovedSize(p, s) \in Nat
           /\ ApprovedSize(p, s) <= AskedSize(p)
           /\ Entry2(p) > 0 =>
                2 * ApprovedSize(p, s) * StopDistance2(p)
                  <= 2 * RiskPerTrade * Entry2(p) + StopDistance2(p)
  <1> DEFINE n == StopSized(p).num
             m == StopSized(p).den
             k == VolatilityScalar(s) * ConfidenceScalar(p)
             a == AskedSize(p)
             e == Entry2(p)
             d == StopDistance2(p)
             h == ApprovedSize(p, s)
  <1>1. /\ n \in Nat /\ m \in Nat /\ m > 0 /\ k \in 16..80 /\ a \in Nat
        /\ e \in Int /\ d \in Nat /\ RiskPerTrade \in Nat
        /\ n <= a * m
        /\ e > 0 => n * d <= RiskPerTrade * e * m
    BY StopSizedBounds, ScalarBounds, PricesAreNumbers, RiskAssumption
  <1>2. h = (2 * (n * k) + m * 80) \div (2 * (m * 80))
    <2>1. StopSized(p).num * VolatilityScalar(s) * ConfidenceScalar(p) = n * k
      BY <1>1, ScalarBounds
    <2>2. QED
      BY <2>1 DEF ApprovedSize
  <1> HIDE DEF n, m, k, a, e, d, h
  <1>3. n * k \in Nat /\ m * 80 \in Nat /\ m * 80 > 0 /\ n * k <= n * 80
    BY <1>1
  <1>4. h \in Nat /\ 2 * (m * 80) * h <= 2 * (n * k) + m * 80
    BY <1>2, <1>3, HalfUp
  <1>5. h <= a
    <2>1. n * 80 <= a * (m * 80)
      BY <1>1
    <2>2. n * k <= a * (m * 80)
      BY <1>1, <1>3, <2>1
    <2>3. QED
      BY <1>1, <1>2, <1>3, <2>2, HalfUpBelow
  <1>6. 2 * m * h <= 2 * n + m
    BY <1>1, <1>3, <1>4
  <1>7. ASSUME e > 0 PROVE 2 * h * d <= 2 * RiskPerTrade * e + d
    <2>1. (2 * m * h) * d <= (2 * n + m) * d
      BY <1>1, <1>4, <1>6
    <2>2. (2 * n + m) * d = 2 * (n * d) + m * d
      BY <1>1
    <2>3. 2 * (n * d) + m * d <= 2 * (RiskPerTrade * e * m) + m * d
      BY <1>1, <1>7
    <2>4. (2 * m * h) * d = m * (2 * h * d)
      BY <1>1, <1>4
    <2>5. 2 * (RiskPerTrade * e * m) + m * d = m * (2 * RiskPerTrade * e + d)
      BY <1>1
    <2>6. 2 * h * d \in Int /\ 2 * RiskPerTrade * e + d \in Int
      BY <1>1, <1>4
    <2>7. m * (2 * h * d) <= m * (2 * RiskPerTrade * e + d)
      BY <1>1, <1>4, <2>1, <2>2, <2>3, <2>4, <2>5
    <2>8. \A x, y \in Int : m * x <= m * y => x <= y
      BY <1>1
    <2>9. QED
      BY <2>6, <2>7, <2>8
  <1>8. QED
    BY <1>4, <1>5, <1>7 DEF a, e, d, h

(***************************************************************************)
(* The rules.                                                              *)
(***************************************************************************)

\* Among the targets of a proposal one is nearest to entry.
LEMMA SomeTargetIsNearest ==
    ASSUME NEW p \in Proposal, p.targets # {}
    PROVE  \E t \in p.targets : Nearest(p, t)
  <1> DEFINE Rewards == {Reward2(p, t) : t \in p.targets}
             Less == {pair \in Nat \X Nat : pair[1] < pair[2]}
  <1>1. Rewards \subseteq Nat /\ Rewards # {}
    BY PricesAreNumbers
  <1>2. IsWellFoundedOn(Less, Nat)
    BY NatLessThanWellFounded DEF OpToRel
  <1>3. PICK r \in Rewards : \A q \in Rewards : <<q, r>> \notin Less
    BY <1>1, <1>2, WFMin
  <1>4. ASSUME NEW q \in Rewards PROVE r <= q
    <2> HIDE DEF Rewards
    <2>1. q \in Nat /\ r \in Nat /\ <<q, r>> \notin Less
      BY <1>1, <1>3
    <2>2. ~(q < r)
      BY <2>1
    <2>3. QED
      BY <2>1, <2>2
  <1>5. PICK t \in p.targets : r = Reward2(p, t)
    BY <1>3
  <1>6. QED
    BY <1>4, <1>5 DEF Nearest

\* Judging by the nearest target is judging by all of them.
LEMMA NearestSpeaksForAll ==
    ASSUME NEW p \in Proposal, p.targets # {}, StopDistance2(p) # 0
    PROVE  PoorReward(p) <=>
             ~ \A t \in p.targets :
                 Reward2(p, t) * 100 >= MinRewardRisk * StopDistance2(p)
  <1> DEFINE low == MinRewardRisk * StopDistance2(p)
  <1>1. low \in Nat /\ \A t \in p.targets : Reward2(p, t) \in Nat
    BY PricesAreNumbers, RiskAssumption
  <1>2. PICK n \in p.targets : Nearest(p, n)
    BY SomeTargetIsNearest
  <1>3. \A t \in p.targets : Reward2(p, n) <= Reward2(p, t)
    BY <1>2 DEF Nearest
  <1>4. ASSUME PoorReward(p)
        PROVE  \E t \in p.targets : ~(Reward2(p, t) * 100 >= low)
    <2>1. PICK t \in p.targets : Reward2(p, t) * 100 < low
      BY <1>4 DEF PoorReward
    <2>2. Reward2(p, t) \in Nat
      BY <1>1
    <2> HIDE DEF low
    <2>3. QED
      BY <1>1, <2>1, <2>2
  <1>5. ASSUME NEW t \in p.targets, ~(Reward2(p, t) * 100 >= low)
        PROVE  PoorReward(p)
    <2>1. Reward2(p, n) \in Nat /\ Reward2(p, t) \in Nat
          /\ Reward2(p, n) <= Reward2(p, t)
      BY <1>1, <1>3
    <2>2. Reward2(p, n) * 100 < low
      <3> HIDE DEF low
      <3> QED
        BY <1>1, <1>5, <2>1
    <2>3. QED
      BY <1>2, <2>2 DEF PoorReward
  <1>6. QED
    BY <1>4, <1>5

\* No rule rejects exactly the sound proposals, whatever they propose to trade.
LEMMA UnrejectedIsSound ==
    ASSUME NEW p \in Proposal, NEW s \in Snapshot \cup {None}, NEW age \in Nat,
           p.action # "NO_TRADE"
    PROVE  Rejections(p, s, age) = {} <=> Sound(p, s, age)
  <1>1. Rejections(p, s, age) = {} <=>
          /\ ~MissingLevels(p) /\ ~StaleSnapshot(s, age) /\ ~StopOnWrongSide(p)
          /\ ~PoorReward(p) /\ ~WideSpread(s) /\ ~LowConfidence(p)
    BY DEF Rejections
  <1>2. /\ Entry2(p) \in Int /\ 2 * p.stop \in Int
        /\ p.confidence \in 0..100 /\ p.action \in {"LONG", "SHORT"}
    BY PricesAreNumbers DEF Proposal, Actions
  <1>3. ~LowConfidence(p) <=> p.confidence >= 50
    BY <1>2 DEF LowConfidence
  <1>4. ~StopOnWrongSide(p) <=>
          /\ p.action = "LONG" => 2 * p.stop < Entry2(p)
          /\ p.action = "SHORT" => 2 * p.stop > Entry2(p)
    BY <1>2 DEF StopOnWrongSide
  <1>5. ~StaleSnapshot(s, age) <=>
          (s # None => ~s.stale /\ s.dataAge <= MaxDataAge /\ age <= MaxDataAge)
    BY RiskAssumption DEF StaleSnapshot, Snapshot
  <1>6. ~WideSpread(s) <=> (s # None /\ s.spread # None => s.spread <= MaxSpread)
    BY RiskAssumption DEF WideSpread, Snapshot
  <1>7. ~StopOnWrongSide(p) => StopDistance2(p) # 0
    BY <1>2, <1>4 DEF StopDistance2, Distance
  <1>8. ~MissingLevels(p) /\ ~StopOnWrongSide(p) =>
          (~PoorReward(p) <=>
             \A t \in p.targets :
               Reward2(p, t) * 100 >= MinRewardRisk * StopDistance2(p))
    BY <1>7, NearestSpeaksForAll DEF MissingLevels
  <1>9. QED
    BY <1>1, <1>3, <1>4, <1>5, <1>6, <1>8 DEF Sound, MissingLevels

(***************************************************************************)
(* The theorems.                                                           *)
(***************************************************************************)

\* What a decision on a proposal can be.
LEMMA Outcomes ==
    ASSUME NEW p, NEW s, NEW age
    PROVE  LET d == EvaluateRisk(p, s, age)
           IN  \/ /\ p.action = "NO_TRADE"
                  /\ d = [approved |-> TRUE, action |-> "NO_TRADE", size |-> 0,
                          leverage |-> 100, reasons |-> {}]
               \/ /\ p.action # "NO_TRADE"
                  /\ Rejections(p, s, age) # {} /\ d = Refused(Rejections(p, s, age))
               \/ /\ p.action # "NO_TRADE"
                  /\ Rejections(p, s, age) = {} /\ StopSized(p).num = 0
                  /\ d = Refused({"size reduced to zero"})
               \/ /\ p.action # "NO_TRADE"
                  /\ Rejections(p, s, age) = {} /\ StopSized(p).num # 0
                  /\ d = [approved |-> TRUE, action |-> p.action,
                          size |-> ApprovedSize(p, s), leverage |-> ApprovedLeverage(p),
                          reasons |-> {}]
  BY DEF EvaluateRisk

\* Approved leverage is at least one and at most the limit.
LEMMA LeverageInRange ==
    ASSUME NEW p \in Proposal
    PROVE  /\ ApprovedLeverage(p) \in 100..MaxLeverage
           /\ p.leverage >= 100 => ApprovedLeverage(p) <= p.leverage
  BY PricesAreNumbers, RiskAssumption DEF ApprovedLeverage, LowerOf

\* The requested size is bounded by the request and the limit.
LEMMA AskedInRange ==
    ASSUME NEW p \in Proposal
    PROVE  AskedSize(p) <= p.size /\ AskedSize(p) <= MaxPosition
  BY PricesAreNumbers, RiskAssumption DEF AskedSize, LowerOf

\* An approved trade has the size and leverage of its proposal and snapshot.
LEMMA TradeOutcome ==
    ASSUME NEW p, NEW s, NEW age,
           LET d == EvaluateRisk(p, s, age)
           IN  d.approved /\ d.action # "NO_TRADE"
    PROVE  /\ EvaluateRisk(p, s, age).size = ApprovedSize(p, s)
           /\ EvaluateRisk(p, s, age).leverage = ApprovedLeverage(p)
  <1> DEFINE d == EvaluateRisk(p, s, age)
  <1>1. \/ d.action = "NO_TRADE" \/ ~d.approved
        \/ d = [approved |-> TRUE, action |-> p.action,
                size |-> ApprovedSize(p, s), leverage |-> ApprovedLeverage(p),
                reasons |-> {}]
    <2>1. \A r : Refused(r).action = "NO_TRADE"
      BY DEF Refused
    <2>2. CASE p.action = "NO_TRADE"
      <3>1. d = [approved |-> TRUE, action |-> "NO_TRADE", size |-> 0,
                 leverage |-> 100, reasons |-> {}]
        BY <2>2 DEF EvaluateRisk
      <3> HIDE DEF d
      <3>2. QED
        BY <3>1
    <2>3. CASE p.action # "NO_TRADE" /\ \E r : d = Refused(r)
      BY <2>1, <2>3
    <2>4. QED
      BY <2>2, <2>3, Outcomes
  <1> HIDE DEF d
  <1>2. QED
    BY <1>1 DEF d

\* In every review a decision has the right shape (RiskDecision, evaluate_risk).
THEOREM TypeCorrect == Spec => []TypeOK
  <1>1. ASSUME ReviewInv PROVE TypeOK
    <2>1. proposal \in Proposal /\ snapshot \in Snapshot \cup {None}
      BY <1>1, RiskAssumption DEF ReviewInv
    <2>2. ApprovedSize(proposal, snapshot) \in Nat
      BY <2>1, ApprovedSizeBounds
    <2>3. ApprovedLeverage(proposal) \in 100..MaxLeverage /\ 100 \in 100..MaxLeverage
      BY <2>1, LeverageInRange, RiskAssumption
    <2>4. proposal.action \in Actions
      BY <2>1, PricesAreNumbers
    <2>5. ASSUME decision # None
          PROVE  /\ decision.approved \in BOOLEAN /\ decision.action \in Actions
                 /\ decision.size \in Nat /\ decision.leverage \in 100..MaxLeverage
      <3>1. decision = EvaluateRisk(proposal, snapshot, waited)
        BY <1>1, <2>5 DEF ReviewInv
      <3>2. \/ decision = [approved |-> TRUE, action |-> "NO_TRADE", size |-> 0,
                           leverage |-> 100, reasons |-> {}]
            \/ \E r : decision = Refused(r)
            \/ decision = [approved |-> TRUE, action |-> proposal.action,
                          size |-> ApprovedSize(proposal, snapshot),
                          leverage |-> ApprovedLeverage(proposal), reasons |-> {}]
        BY <3>1, Outcomes
      <3>3. QED
        <4>1. CASE decision = [approved |-> TRUE, action |-> "NO_TRADE", size |-> 0,
                               leverage |-> 100, reasons |-> {}]
          BY <4>1, <2>3 DEF Actions
        <4>2. ASSUME NEW r, decision = Refused(r)
              PROVE  /\ decision.approved \in BOOLEAN /\ decision.action \in Actions
                     /\ decision.size \in Nat
                     /\ decision.leverage \in 100..MaxLeverage
          BY <4>2, <2>3 DEF Refused, Actions
        <4>3. CASE decision = [approved |-> TRUE, action |-> proposal.action,
                               size |-> ApprovedSize(proposal, snapshot),
                               leverage |-> ApprovedLeverage(proposal), reasons |-> {}]
          BY <4>3, <2>2, <2>3, <2>4
        <4>4. QED
          BY <3>2, <4>1, <4>2, <4>3
    <2>6. QED
      BY <1>1, <2>5 DEF ReviewInv, TypeOK
  <1>2. QED
    BY <1>1, ReviewInvariant, PTL

\* Whatever is proposed, the loss at the stop of an approved trade stays within the
\* risk budget, but for half a rounding step (evaluate_risk, step 6).
THEOREM LossBounded == Spec => []LossWithinBudget
  <1>1. ASSUME ReviewInv PROVE LossWithinBudget
    <2> SUFFICES ASSUME Trade, Entry2(proposal) > 0
                 PROVE  2 * decision.size * StopDistance2(proposal)
                          <= 2 * RiskPerTrade * Entry2(proposal)
                               + StopDistance2(proposal)
      BY DEF LossWithinBudget
    <2>1. proposal \in Proposal /\ snapshot \in Snapshot \cup {None}
      BY <1>1, RiskAssumption DEF ReviewInv
    <2>2. decision.size = ApprovedSize(proposal, snapshot)
      BY <1>1, TradeOutcome DEF Trade, ReviewInv
    <2>3. QED
      BY <2>1, <2>2, ApprovedSizeBounds
  <1>2. QED
    BY <1>1, ReviewInvariant, PTL

\* Size and leverage are only ever reduced (evaluate_risk, steps 4, 5, 8 and 9).
THEOREM NothingAdded == Spec => []OnlyReduces
  <1>1. ASSUME ReviewInv PROVE OnlyReduces
    <2> SUFFICES ASSUME Trade
                 PROVE  /\ decision.size <= proposal.size
                        /\ decision.size <= MaxPosition
                        /\ decision.leverage <= MaxLeverage
                        /\ proposal.leverage >= 100 =>
                             decision.leverage <= proposal.leverage
      BY DEF OnlyReduces
    <2>1. proposal \in Proposal /\ snapshot \in Snapshot \cup {None}
      BY <1>1, RiskAssumption DEF ReviewInv
    <2>2. /\ decision.size = ApprovedSize(proposal, snapshot)
          /\ decision.leverage = ApprovedLeverage(proposal)
      BY <1>1, TradeOutcome DEF Trade, ReviewInv
    <2>3. /\ decision.size \in Nat /\ AskedSize(proposal) \in Nat
          /\ decision.size <= AskedSize(proposal)
      BY <2>1, <2>2, ApprovedSizeBounds, StopSizedBounds
    <2>4. AskedSize(proposal) <= proposal.size /\ AskedSize(proposal) <= MaxPosition
      BY <2>1, AskedInRange
    <2>5. proposal.size \in Nat /\ MaxPosition \in Nat
      BY <2>1, PricesAreNumbers, RiskAssumption
    <2>6. decision.size <= proposal.size /\ decision.size <= MaxPosition
      BY <2>3, <2>4, <2>5
    <2>7. QED
      BY <2>1, <2>2, <2>6, LeverageInRange, RiskAssumption
  <1>2. QED
    BY <1>1, ReviewInvariant, PTL

\* A sound trade has a size unless nothing was asked for or nothing may be lost.
LEMMA SizedUnlessNothing ==
    ASSUME NEW p \in Proposal, StopDistance2(p) # 0
    PROVE  StopSized(p).num # 0 <=>
             AskedSize(p) > 0 /\ (RiskPerTrade > 0 \/ Entry2(p) <= 0)
  <1> DEFINE e == Entry2(p)
             d == StopDistance2(p)
             a == AskedSize(p)
  <1>1. e \in Int /\ d \in Nat /\ d > 0 /\ a \in Nat /\ RiskPerTrade \in Nat
    BY PricesAreNumbers, StopSizedBounds, RiskAssumption
  <1>2. CASE e <= 0 \/ a * d <= RiskPerTrade * e
    <2>1. StopSized(p).num = a
      BY <1>2 DEF StopSized
    <2> HIDE DEF e, d, a
    <2>2. ASSUME a > 0, e > 0, RiskPerTrade = 0 PROVE FALSE
      <3>1. a * d > 0
        BY <1>1, <2>2
      <3>2. RiskPerTrade * e = 0
        BY <1>1, <2>2
      <3>3. QED
        BY <1>1, <1>2, <2>2, <3>1, <3>2
    <2>3. a # 0 <=> a > 0 /\ (RiskPerTrade > 0 \/ e <= 0)
      BY <1>1, <2>2
    <2>4. QED
      BY <2>1, <2>3 DEF e, a
  <1>3. CASE ~(e <= 0 \/ a * d <= RiskPerTrade * e)
    <2>1. StopSized(p).num = RiskPerTrade * e
      BY <1>3 DEF StopSized
    <2> HIDE DEF e, d, a
    <2>2. RiskPerTrade * e # 0 <=> RiskPerTrade > 0
      BY <1>1, <1>3
    <2>3. a > 0
      <3>1. RiskPerTrade * e \in Nat
        BY <1>1, <1>3
      <3>2. a # 0
        BY <1>1, <1>3, <3>1
      <3>3. QED
        BY <1>1, <3>2
    <2>4. ~(e <= 0)
      BY <1>3
    <2>5. QED
      BY <2>1, <2>2, <2>3, <2>4 DEF e, a
  <1>4. QED
    BY <1>2, <1>3

\* The stop of a sound trade is not at its entry.
LEMMA SoundHasRisk ==
    ASSUME NEW p \in Proposal, NEW s, NEW age, p.action # "NO_TRADE", Sound(p, s, age)
    PROVE  StopDistance2(p) # 0
  <1>1. Entry2(p) \in Int /\ 2 * p.stop \in Int
    BY PricesAreNumbers DEF Proposal
  <1>2. p.action \in {"LONG", "SHORT"}
    BY PricesAreNumbers DEF Actions
  <1>3. QED
    BY <1>1, <1>2 DEF Sound, StopDistance2, Distance

\* The engine approves exactly what the rules ask for: all the sound trades that
\* have a size, and nothing else (evaluate_risk).
THEOREM ApprovalIsExact == Spec => []ApprovesExactlySoundTrades
  <1>1. ASSUME ReviewInv PROVE ApprovesExactlySoundTrades
    <2> DEFINE p == proposal
               wanted == /\ Sound(p, snapshot, waited)
                         /\ AskedSize(p) > 0
                         /\ RiskPerTrade > 0 \/ Entry2(p) <= 0
    <2> SUFFICES ASSUME decision # None
                 PROVE  /\ decision.approved <=> p.action = "NO_TRADE" \/ wanted
                        /\ decision.action =
                             IF decision.approved THEN p.action ELSE "NO_TRADE"
                        /\ decision.approved <=> decision.reasons = {}
      BY DEF ApprovesExactlySoundTrades
    <2>1. p \in Proposal /\ snapshot \in Snapshot \cup {None} /\ waited \in Nat
      BY <1>1, RiskAssumption DEF ReviewInv
    <2>2. decision = EvaluateRisk(p, snapshot, waited)
      BY <1>1 DEF ReviewInv
    <2>3. CASE p.action = "NO_TRADE"
      <3>1. decision = [approved |-> TRUE, action |-> "NO_TRADE", size |-> 0,
                        leverage |-> 100, reasons |-> {}]
        BY <2>2, <2>3 DEF EvaluateRisk
      <3>2. QED
        BY <2>3, <3>1
    <2>4. CASE p.action # "NO_TRADE"
      <3>1. Rejections(p, snapshot, waited) = {} <=> Sound(p, snapshot, waited)
        BY <2>1, <2>4, UnrejectedIsSound
      <3>2. Sound(p, snapshot, waited) =>
              (StopSized(p).num # 0 <=>
                 AskedSize(p) > 0 /\ (RiskPerTrade > 0 \/ Entry2(p) <= 0))
        BY <2>1, <2>4, SoundHasRisk, SizedUnlessNothing
      <3>3. wanted <=>
              Rejections(p, snapshot, waited) = {} /\ StopSized(p).num # 0
        BY <3>1, <3>2
      <3>4. CASE wanted
        <4>1. decision = [approved |-> TRUE, action |-> p.action,
                          size |-> ApprovedSize(p, snapshot),
                          leverage |-> ApprovedLeverage(p), reasons |-> {}]
          BY <2>2, <2>4, <3>3, <3>4 DEF EvaluateRisk
        <4>2. QED
          BY <2>4, <3>4, <4>1
      <3>5. CASE ~wanted
        <4>1. \E reasons : reasons # {} /\ decision = Refused(reasons)
          BY <2>2, <2>4, <3>3, <3>5, Outcomes
        <4>2. decision.approved = FALSE /\ decision.action = "NO_TRADE"
              /\ decision.reasons # {}
          BY <4>1 DEF Refused
        <4>3. QED
          BY <2>4, <3>5, <4>2
      <3>6. QED
        BY <3>4, <3>5
    <2>5. QED
      BY <2>3, <2>4
  <1>2. QED
    BY <1>1, ReviewInvariant, PTL

(***************************************************************************)
(* Riskier trades.                                                         *)
(***************************************************************************)

\* Rounding half up keeps the order of fractions.
LEMMA HalfUpMonotone ==
    ASSUME NEW n1 \in Nat, NEW m1 \in Nat, m1 > 0, NEW n2 \in Nat, NEW m2 \in Nat, m2 > 0,
           n1 * m2 <= n2 * m1
    PROVE  (2 * n1 + m1) \div (2 * m1) <= (2 * n2 + m2) \div (2 * m2)
  <1> DEFINE h1 == (2 * n1 + m1) \div (2 * m1)
             h2 == (2 * n2 + m2) \div (2 * m2)
  <1>1. h1 \in Nat /\ 2 * m1 * h1 <= 2 * n1 + m1
    BY HalfUp
  <1>2. h2 \in Nat /\ 2 * n2 + m2 < 2 * m2 * (h2 + 1)
    OBVIOUS
  <1> HIDE DEF h1, h2
  <1>3. ASSUME h1 >= h2 + 1 PROVE FALSE
    <2> DEFINE x == m1 * m2
               y == x * (h2 + 1)
    <2>1. m1 * (h2 + 1) <= m1 * h1
      BY <1>1, <1>2, <1>3
    <2>2. 2 * (m1 * (h2 + 1)) <= 2 * n1 + m1
      BY <1>1, <1>2, <2>1
    <2>3. (2 * (m1 * (h2 + 1))) * m2 <= (2 * n1 + m1) * m2
      BY <1>2, <2>2
    <2>4. (2 * (m1 * (h2 + 1))) * m2 = 2 * y
      BY <1>2
    <2>5. (2 * n1 + m1) * m2 = 2 * (n1 * m2) + x
      OBVIOUS
    <2>6. m1 * (2 * n2 + m2) < m1 * (2 * m2 * (h2 + 1))
      BY <1>2
    <2>7. m1 * (2 * n2 + m2) = 2 * (n2 * m1) + x
      OBVIOUS
    <2>8. m1 * (2 * m2 * (h2 + 1)) = 2 * y
      BY <1>2
    <2>9. x \in Int /\ y \in Int /\ n1 * m2 \in Int /\ n2 * m1 \in Int
      BY <1>2
    <2> HIDE DEF x, y
    <2>10. QED
      BY <2>3, <2>4, <2>5, <2>6, <2>7, <2>8, <2>9
  <1>4. QED
    BY <1>1, <1>2, <1>3 DEF h1, h2

\* A smaller fraction before the scalars, and smaller scalars, make a size no larger.
LEMMA ApprovedSizeOrder ==
    ASSUME NEW p \in Proposal, NEW s \in Snapshot \cup {None},
           NEW q \in Proposal, NEW t \in Snapshot \cup {None},
           StopSized(p).num * StopSized(q).den <= StopSized(q).num * StopSized(p).den,
           VolatilityScalar(s) * ConfidenceScalar(p)
             <= VolatilityScalar(t) * ConfidenceScalar(q)
    PROVE  ApprovedSize(p, s) <= ApprovedSize(q, t)
  <1> DEFINE n1 == StopSized(p).num
             m1 == StopSized(p).den
             k1 == VolatilityScalar(s) * ConfidenceScalar(p)
             n2 == StopSized(q).num
             m2 == StopSized(q).den
             k2 == VolatilityScalar(t) * ConfidenceScalar(q)
  <1>1. /\ n1 \in Nat /\ m1 \in Nat /\ m1 > 0 /\ k1 \in 16..80
        /\ n2 \in Nat /\ m2 \in Nat /\ m2 > 0 /\ k2 \in 16..80
        /\ n1 * m2 <= n2 * m1 /\ k1 <= k2
    BY StopSizedBounds, ScalarBounds
  <1>2. ApprovedSize(p, s) = (2 * (n1 * k1) + m1 * 80) \div (2 * (m1 * 80))
    <2>1. StopSized(p).num * VolatilityScalar(s) * ConfidenceScalar(p) = n1 * k1
      BY <1>1, ScalarBounds
    <2>2. QED
      BY <2>1 DEF ApprovedSize
  <1>3. ApprovedSize(q, t) = (2 * (n2 * k2) + m2 * 80) \div (2 * (m2 * 80))
    <2>1. StopSized(q).num * VolatilityScalar(t) * ConfidenceScalar(q) = n2 * k2
      BY <1>1, ScalarBounds
    <2>2. QED
      BY <2>1 DEF ApprovedSize
  <1> HIDE DEF n1, m1, k1, n2, m2, k2
  <1>4. (n1 * k1) * (m2 * 80) <= (n2 * k2) * (m1 * 80)
    <2> DEFINE x == n1 * m2
               y == n2 * m1
    <2>1. x \in Nat /\ y \in Nat /\ x <= y
      BY <1>1
    <2>2. (n1 * k1) * (m2 * 80) = 80 * (x * k1)
      BY <1>1
    <2>3. (n2 * k2) * (m1 * 80) = 80 * (y * k2)
      BY <1>1
    <2> HIDE DEF x, y
    <2>4. x * k1 <= y * k1
      BY <1>1, <2>1
    <2>5. y * k1 <= y * k2
      BY <1>1, <2>1
    <2>6. x * k1 \in Int /\ y * k1 \in Int /\ y * k2 \in Int
      BY <1>1, <2>1
    <2>7. QED
      BY <2>2, <2>3, <2>4, <2>5, <2>6
  <1>5. /\ n1 * k1 \in Nat /\ n2 * k2 \in Nat
        /\ m1 * 80 \in Nat /\ m1 * 80 > 0 /\ m2 * 80 \in Nat /\ m2 * 80 > 0
    BY <1>1
  <1>6. QED
    BY <1>2, <1>3, <1>4, <1>5, HalfUpMonotone

\* Farther from entry, the stop leaves a smaller fraction.
LEMMA WiderStopSizesLess ==
    ASSUME NEW p \in Proposal, NEW q \in Proposal, AskedSize(p) = AskedSize(q),
           Entry2(p) = Entry2(q), Entry2(p) > 0, StopDistance2(q) <= StopDistance2(p)
    PROVE  StopSized(p).num * StopSized(q).den <= StopSized(q).num * StopSized(p).den
  <1> DEFINE a == AskedSize(q)
             e == Entry2(q)
             d == StopDistance2(q)
             w == StopDistance2(p)
             r == RiskPerTrade * e
  <1>1. /\ a \in Nat /\ e \in Int /\ e > 0 /\ d \in Nat /\ w \in Nat /\ d <= w
        /\ RiskPerTrade \in Nat
    BY StopSizedBounds, PricesAreNumbers, RiskAssumption
  <1>2. r \in Nat
    BY <1>1
  <1>3. CASE a * d <= r
    <2>1. StopSized(q) = [num |-> a, den |-> 1]
      BY <1>3 DEF StopSized
    <2>2. /\ StopSized(p).num \in Nat /\ StopSized(p).den \in Nat
          /\ StopSized(p).num <= a * StopSized(p).den
      BY StopSizedBounds
    <2>3. StopSized(q).num = a /\ StopSized(q).den = 1
      BY <2>1
    <2>4. StopSized(p).num * 1 = StopSized(p).num
      BY <2>2
    <2>5. QED
      BY <2>2, <2>3, <2>4
  <1>4. CASE ~(a * d <= r)
    <2>1. ~(e <= 0 \/ a * d <= r)
      BY <1>1, <1>4
    <2>2. ~(e <= 0 \/ a * w <= r)
      <3> HIDE DEF a, e, d, w, r
      <3>1. a * d <= a * w
        BY <1>1
      <3>2. a * d \in Int /\ a * w \in Int
        BY <1>1
      <3>3. QED
        BY <1>1, <1>2, <1>4, <3>1, <3>2
    <2>3. StopSized(q) = [num |-> r, den |-> d]
      BY <2>1 DEF StopSized
    <2>4. StopSized(p) = [num |-> r, den |-> w]
      BY <2>2 DEF StopSized
    <2>5. r * d <= r * w
      <3> HIDE DEF d, w, r
      <3> QED
        BY <1>1, <1>2
    <2>6. StopSized(p).num = r /\ StopSized(p).den = w
          /\ StopSized(q).num = r /\ StopSized(q).den = d
      BY <2>3, <2>4
    <2>7. QED
      BY <2>5, <2>6
  <1>5. QED
    BY <1>3, <1>4

\* The stop of a trade that no rule rejects moves away from entry by what it is moved.
LEMMA WiderIsFarther ==
    ASSUME NEW p \in Proposal, NEW k \in Nat, p.action # "NO_TRADE", ~StopOnWrongSide(p)
    PROVE  /\ Wider(p, k) \in Proposal
           /\ Wider(p, k).action = p.action
           /\ AskedSize(Wider(p, k)) = AskedSize(p)
           /\ ConfidenceScalar(Wider(p, k)) = ConfidenceScalar(p)
           /\ Entry2(Wider(p, k)) = Entry2(p)
           /\ StopDistance2(p) <= StopDistance2(Wider(p, k))
  <1> DEFINE w == Wider(p, k)
             stop == IF p.action = "LONG" THEN p.stop - k ELSE p.stop + k
  <1>1. w = [p EXCEPT !.stop = stop]
    BY DEF Wider
  <1>2. /\ p.entryMin \in Int /\ p.entryMax \in Int /\ p.stop \in Int /\ stop \in Int
        /\ p.action \in {"LONG", "SHORT"}
    BY DEF Proposal, Actions
  <1>3. w \in Proposal
    BY <1>1, <1>2 DEF Proposal
  <1>4. /\ w.action = p.action /\ w.size = p.size /\ w.confidence = p.confidence
        /\ w.entryMin = p.entryMin /\ w.entryMax = p.entryMax /\ w.stop = stop
    BY <1>1 DEF Proposal
  <1> HIDE DEF w
  <1>5. AskedSize(w) = AskedSize(p) /\ ConfidenceScalar(w) = ConfidenceScalar(p)
        /\ Entry2(w) = Entry2(p)
    BY <1>4 DEF AskedSize, ConfidenceScalar, Entry2
  <1>6. Distance(Entry2(p), 2 * p.stop) <= Distance(Entry2(p), 2 * stop)
    <2>1. Entry2(p) \in Int
      BY <1>2 DEF Entry2
    <2>2. /\ p.action = "LONG" => 2 * p.stop < Entry2(p)
          /\ p.action = "SHORT" => 2 * p.stop > Entry2(p)
      BY <1>2, <2>1 DEF StopOnWrongSide
    <2>3. QED
      BY <1>2, <2>1, <2>2 DEF Distance
  <1>7. StopDistance2(w) = Distance(Entry2(p), 2 * stop)
    BY <1>4, <1>5 DEF StopDistance2
  <1>8. StopDistance2(p) <= StopDistance2(w)
    BY <1>6, <1>7 DEF StopDistance2
  <1>9. QED
    BY <1>3, <1>4, <1>5, <1>8 DEF w

\* Less confidence only takes away.
LEMMA LessConfidence ==
    ASSUME NEW p \in Proposal, NEW c \in 0..100, c <= p.confidence
    PROVE  LET q == [p EXCEPT !.confidence = c]
           IN  /\ q \in Proposal
               /\ q.action = p.action
               /\ StopSized(q) = StopSized(p)
               /\ ConfidenceScalar(q) <= ConfidenceScalar(p)
  <1> DEFINE q == [p EXCEPT !.confidence = c]
  <1>1. q \in Proposal
    BY DEF Proposal
  <1>2. /\ q.action = p.action /\ q.size = p.size /\ q.stop = p.stop
        /\ q.entryMin = p.entryMin /\ q.entryMax = p.entryMax /\ q.confidence = c
    BY DEF Proposal
  <1>3. p.confidence \in 0..100
    BY PricesAreNumbers
  <1> HIDE DEF q
  <1>4. AskedSize(q) = AskedSize(p) /\ Entry2(q) = Entry2(p)
        /\ StopDistance2(q) = StopDistance2(p)
    BY <1>2 DEF AskedSize, Entry2, StopDistance2
  <1>5. StopSized(q) = StopSized(p)
    BY <1>4 DEF StopSized
  <1>6. ConfidenceScalar(q) <= ConfidenceScalar(p)
    BY <1>2, <1>3 DEF ConfidenceScalar
  <1>7. QED
    BY <1>1, <1>2, <1>5, <1>6 DEF q

\* A more volatile market only takes away.
LEMMA MoreVolatile ==
    ASSUME NEW s \in Snapshot, NEW t \in Snapshot,
           s.volatility # None, t.volatility # None, t.volatility <= s.volatility
    PROVE  VolatilityScalar(s) <= VolatilityScalar(t)
  <1>1. s.volatility \in Nat /\ t.volatility \in Nat
    BY DEF Snapshot
  <1>2. s # None /\ t # None
    BY RiskAssumption
  <1> DEFINE Scalar(v) == IF v < 150 THEN 20 ELSE IF v < 300 THEN 14 ELSE 8
  <1>3. VolatilityScalar(s) = Scalar(s.volatility)
    BY <1>1, <1>2 DEF VolatilityScalar, VolatilityRegime
  <1>4. VolatilityScalar(t) = Scalar(t.volatility)
    BY <1>1, <1>2 DEF VolatilityScalar, VolatilityRegime
  <1>5. Scalar(s.volatility) <= Scalar(t.volatility)
    BY <1>1
  <1>6. QED
    BY <1>3, <1>4, <1>5

\* Whatever is decided on a proposal, the size is nothing or the approved size.
LEMMA SizeOutcome ==
    ASSUME NEW p, NEW s, NEW age
    PROVE  \/ EvaluateRisk(p, s, age).size = 0
           \/ EvaluateRisk(p, s, age).size = ApprovedSize(p, s)
  <1> DEFINE d == EvaluateRisk(p, s, age)
  <1>1. \A r : Refused(r).size = 0
    BY DEF Refused
  <1>2. \/ d = [approved |-> TRUE, action |-> "NO_TRADE", size |-> 0, leverage |-> 100,
                reasons |-> {}]
        \/ \E r : d = Refused(r)
        \/ d = [approved |-> TRUE, action |-> p.action, size |-> ApprovedSize(p, s),
                leverage |-> ApprovedLeverage(p), reasons |-> {}]
    BY Outcomes
  <1> HIDE DEF d
  <1>3. QED
    BY <1>1, <1>2 DEF d

\* An approved trade was rejected by no rule.
LEMMA TradeIsUnrejected ==
    ASSUME NEW p, NEW s, NEW age,
           LET d == EvaluateRisk(p, s, age)
           IN  d.approved /\ d.action # "NO_TRADE"
    PROVE  p.action # "NO_TRADE" /\ ~StopOnWrongSide(p)
  <1>1. \A r : Refused(r).approved = FALSE
    BY DEF Refused
  <1>2. p.action # "NO_TRADE"
    BY DEF EvaluateRisk
  <1>3. Rejections(p, s, age) = {}
    BY <1>1, <1>2 DEF EvaluateRisk
  <1>4. QED
    BY <1>2, <1>3 DEF Rejections

\* RiskierNeverLarger with nothing bounded: a stop any number of ticks farther away, any
\* lower confidence, any snapshot of a more volatile market.
RiskierInAnyRespect ==
    Trade =>
        /\ Entry2(proposal) > 0 =>
             \A k \in Nat :
                 EvaluateRisk(Wider(proposal, k), snapshot, waited).size <= decision.size
        /\ \A c \in 0..100 :
             c <= proposal.confidence =>
                 EvaluateRisk([proposal EXCEPT !.confidence = c], snapshot, waited).size
                   <= decision.size
        /\ \A s \in Snapshot :
             /\ snapshot # None /\ snapshot.volatility # None
             /\ s.volatility # None /\ s.volatility >= snapshot.volatility
             => EvaluateRisk(proposal, s, waited).size <= decision.size

\* A trade that is riskier in one respect is never given a larger size, whatever the
\* respect and the difference: every step of the sizing, the final rounding included,
\* keeps the order (evaluate_risk, steps 6 to 9).
THEOREM RiskierIsNotLarger == Spec => []RiskierInAnyRespect
  <1>1. ASSUME ReviewInv PROVE RiskierInAnyRespect
    <2> SUFFICES ASSUME Trade PROVE RiskierInAnyRespect
      BY DEF RiskierInAnyRespect
    <2>1. /\ proposal \in Proposal
          /\ snapshot \in Snapshot \cup {None}
      BY <1>1, RiskAssumption DEF ReviewInv
    <2>2. decision.size = ApprovedSize(proposal, snapshot)
      BY <1>1, TradeOutcome DEF Trade, ReviewInv
    <2>3. proposal.action # "NO_TRADE" /\ ~StopOnWrongSide(proposal)
      BY <1>1, TradeIsUnrejected DEF Trade, ReviewInv
    <2>4. decision.size \in Nat
      BY <2>1, <2>2, ApprovedSizeBounds
    <2>5. ASSUME NEW q \in Proposal, NEW s \in Snapshot \cup {None},
                 ApprovedSize(q, s) <= ApprovedSize(proposal, snapshot)
          PROVE  EvaluateRisk(q, s, waited).size <= decision.size
      BY <2>2, <2>4, <2>5, SizeOutcome
    <2>6. /\ StopSized(proposal).num \in Nat /\ StopSized(proposal).den \in Nat
          /\ VolatilityScalar(snapshot) \in 8..20 /\ ConfidenceScalar(proposal) \in 2..4
      BY <2>1, StopSizedBounds, ScalarBounds
    <2>7. ASSUME NEW k \in Nat, Entry2(proposal) > 0
          PROVE  EvaluateRisk(Wider(proposal, k), snapshot, waited).size <= decision.size
      <3> DEFINE q == Wider(proposal, k)
      <3>1. /\ q \in Proposal /\ AskedSize(q) = AskedSize(proposal)
            /\ ConfidenceScalar(q) = ConfidenceScalar(proposal)
            /\ Entry2(q) = Entry2(proposal)
            /\ StopDistance2(proposal) <= StopDistance2(q)
        BY <2>1, <2>3, WiderIsFarther
      <3> HIDE DEF q
      <3>2. StopSized(q).num * StopSized(proposal).den
              <= StopSized(proposal).num * StopSized(q).den
        BY <2>1, <2>7, <3>1, WiderStopSizesLess
      <3>3. VolatilityScalar(snapshot) * ConfidenceScalar(q)
              <= VolatilityScalar(snapshot) * ConfidenceScalar(proposal)
        BY <2>6, <3>1
      <3>4. ApprovedSize(q, snapshot) <= ApprovedSize(proposal, snapshot)
        BY <2>1, <3>1, <3>2, <3>3, ApprovedSizeOrder
      <3>5. QED
        BY <2>1, <2>5, <3>1, <3>4 DEF q
    <2>8. ASSUME NEW c \in 0..100, c <= proposal.confidence
          PROVE  EvaluateRisk([proposal EXCEPT !.confidence = c], snapshot, waited).size
                   <= decision.size
      <3> DEFINE q == [proposal EXCEPT !.confidence = c]
      <3>2. /\ q \in Proposal /\ StopSized(q) = StopSized(proposal)
            /\ ConfidenceScalar(q) <= ConfidenceScalar(proposal)
        BY <2>1, <2>8, LessConfidence
      <3> HIDE DEF q
      <3>3. ConfidenceScalar(q) \in 2..4
        BY <2>1, <3>2, ScalarBounds
      <3>4. VolatilityScalar(snapshot) * ConfidenceScalar(q)
              <= VolatilityScalar(snapshot) * ConfidenceScalar(proposal)
        BY <2>6, <3>2, <3>3
      <3>5. StopSized(q).num * StopSized(proposal).den
              <= StopSized(proposal).num * StopSized(q).den
        BY <2>6, <3>2
      <3>6. ApprovedSize(q, snapshot) <= ApprovedSize(proposal, snapshot)
        BY <2>1, <3>2, <3>4, <3>5, ApprovedSizeOrder
      <3>7. QED
        BY <2>1, <2>5, <3>2, <3>6 DEF q
    <2>9. ASSUME NEW s \in Snapshot, snapshot # None, snapshot.volatility # None,
                 s.volatility # None, s.volatility >= snapshot.volatility
          PROVE  EvaluateRisk(proposal, s, waited).size <= decision.size
      <3>1. s \in Snapshot /\ snapshot \in Snapshot
        BY <2>1, <2>9
      <3>2. s.volatility \in Nat /\ snapshot.volatility \in Nat
        BY <2>9, <3>1 DEF Snapshot
      <3>3. VolatilityScalar(s) <= VolatilityScalar(snapshot)
        BY <2>9, <3>1, <3>2, MoreVolatile
      <3>4. VolatilityScalar(s) \in 8..20
        BY <2>1, <3>1, ScalarBounds
      <3>5. VolatilityScalar(s) * ConfidenceScalar(proposal)
              <= VolatilityScalar(snapshot) * ConfidenceScalar(proposal)
        BY <2>6, <3>3, <3>4
      <3>6. StopSized(proposal).num * StopSized(proposal).den
              <= StopSized(proposal).num * StopSized(proposal).den
        BY <2>6
      <3>7. ApprovedSize(proposal, s) <= ApprovedSize(proposal, snapshot)
        BY <2>1, <3>1, <3>5, <3>6, ApprovedSizeOrder
      <3>8. QED
        BY <2>1, <2>5, <3>1, <3>7
    <2>10. QED
      BY <2>7, <2>8, <2>9 DEF RiskierInAnyRespect
  <1>2. QED
    BY <1>1, ReviewInvariant, PTL

\* The comparison the runs make, with the stops, confidences and snapshots at hand, is a
\* case of it.
THEOREM RiskierAtHand == Spec => []RiskierNeverLarger
  <1>1. RiskierInAnyRespect => RiskierNeverLarger
    <2>1. \A c \in {p.confidence : p \in Proposals} : c \in 0..100
      BY RiskAssumption, PricesAreNumbers
    <2>2. Snapshots \subseteq Snapshot /\ 0..3 \subseteq Nat
      BY RiskAssumption
    <2>3. QED
      BY <2>1, <2>2 DEF RiskierInAnyRespect, RiskierNeverLarger
  <1>2. QED
    BY <1>1, RiskierIsNotLarger, PTL
=============================================================================
