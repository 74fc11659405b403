-------------------------- MODULE AgentGraphProofs --------------------------
(***************************************************************************)
(* Proofs about AgentGraph and RunDisplay, for all graphs, rounds and      *)
(* step limits.                                                            *)
(*                                                                         *)
(* Each property has an invariant that says, for every node, what holds    *)
(* when that node is the next to run: how the counters of the debates      *)
(* stand, whose messages are in the list, how many steps were taken.       *)
(***************************************************************************)
EXTENDS RunDisplay, SequenceTheorems, TLAPS

(* A setup has its fields. *)
LEMMA SetupFacts ==
    ASSUME setup \in Setups
    PROVE  /\ Len(setup.analysts) \in Nat \ {0}
           /\ \A i \in 1..Len(setup.analysts) : setup.analysts[i] \in AnalystKeys
           /\ setup.crypto \in BOOLEAN
           /\ setup.debateRounds \in Nat /\ setup.riskRounds \in Nat
           /\ setup.stepLimit \in Nat
  <1>1. setup \in Setup
    BY SetupAssumption
  <1>2. setup.analysts \in Seq(AnalystKeys) /\ setup.analysts # <<>>
    BY <1>1 DEF Setup
  <1>3. QED
    BY <1>1, <1>2, EmptySeq, ElementOfSeq DEF Setup

-----------------------------------------------------------------------------
(* Types.                                                                  *)

LEMMA InitTypeOK == Init => TypeOK
  <1>. SUFFICES ASSUME Init PROVE TypeOK
    OBVIOUS
  <1>1. setup \in Setups
    BY DEF Init
  <1>2. debate \in Debate /\ risk \in Risk
    BY DEF Init, Debate, Risk
  <1>3. {} \in Authors
    BY DEF Authors
  <1>4. QED
    BY <1>1, <1>2, <1>3, SetupFacts DEF Init, TypeOK, AnalystNodes, Researchers, RiskAnalysts,
       LaterNodes, Ends

LEMMA StepTypeOK == ASSUME TypeOK, [Next]_vars PROVE TypeOK'
  <1>. USE DEF AnalystNodes, Researchers, RiskAnalysts, LaterNodes, Ends
  <1>0. /\ setup \in Setups
        /\ Len(setup.analysts) \in Nat \ {0}
        /\ \A i \in 1..Len(setup.analysts) : setup.analysts[i] \in AnalystKeys
        /\ setup.crypto \in BOOLEAN
        /\ setup.debateRounds \in Nat /\ setup.riskRounds \in Nat
    BY SetupFacts DEF TypeOK
  <1>1. Analyst \in AnalystKeys
    BY <1>0 DEF TypeOK, Analyst
  <1>a. /\ {} \in Authors
        /\ \A from \in Authors, name \in AnalystKeys \cup {"Trader"} : from \cup {name} \in Authors
    BY DEF Authors
  <1>2. CASE BuildSnapshot
    BY <1>2 DEF Run, Counted, TypeOK, BuildSnapshot
  <1>3. CASE AnalystCallsTools
    BY <1>3, <1>1, <1>a DEF Run, Counted, TypeOK, AnalystCallsTools, AfterAnalyst
  <1>4. CASE AnalystReports
    BY <1>4, <1>1, <1>a DEF Run, Counted, TypeOK, AnalystReports, AfterAnalyst
  <1>5. CASE CallTools
    BY <1>5 DEF Run, Counted, TypeOK, CallTools
  <1>6. CASE ClearMessages
    <2>1. node' \in {"Analyst", "BullResearcher"} /\ setup' = setup /\ steps' \in Nat
      BY <1>6 DEF Run, Counted, ClearMessages, TypeOK
    <2>2. turn' \in 1..Len(setup.analysts)
      BY <1>6, <1>0 DEF ClearMessages, TypeOK
    <2>3. QED
      BY <1>6, <2>1, <2>2, <1>a DEF TypeOK, ClearMessages, Cleared
  <1>7. CASE Argue
    <2>1. BullArgues(debate) \in Debate /\ BearArgues(debate) \in Debate
      BY DEF TypeOK, BullArgues, BearArgues, Debate
    <2>2. \A d : NextInDebate(d) \in Researchers \cup {"ResearchManager"}
      BY DEF NextInDebate
    <2>3. debate' \in Debate /\ setup' = setup /\ steps' \in Nat
          /\ node' \in Researchers \cup {"ResearchManager"}
          /\ UNCHANGED <<turn, messages, reports, plans, risk, toolRounds>>
      <3>1. CASE Run("BullResearcher", NextInDebate(BullArgues(debate)))
                 /\ debate' = BullArgues(debate)
                 /\ UNCHANGED <<turn, messages, reports, plans, risk, toolRounds>>
        BY <3>1, <2>1, <2>2 DEF Run, Counted, TypeOK
      <3>2. CASE Run("BearResearcher", NextInDebate(BearArgues(debate)))
                 /\ debate' = BearArgues(debate)
                 /\ UNCHANGED <<turn, messages, reports, plans, risk, toolRounds>>
        BY <3>2, <2>1, <2>2 DEF Run, Counted, TypeOK
      <3>3. QED
        BY <1>7, <3>1, <3>2 DEF Argue
    <2>4. QED
      BY <2>3 DEF TypeOK
  <1>8. CASE JudgeResearch
    <2>1. debate' \in Debate
      BY <1>8 DEF JudgeResearch, TypeOK, Debate, Judged
    <2>2. QED
      BY <1>8, <2>1 DEF Run, Counted, TypeOK, JudgeResearch, WithPlan
  <1>9. CASE Trade
    <2>1. messages' \in [from: Authors, last: {"prompt", "tool_calls", "results", "answer"}]
      BY <1>9, <1>a DEF Trade, TypeOK
    <2>2. plans' \subseteq {"investment", "trader", "final"}
      BY <1>9 DEF Trade, TypeOK, WithPlan
    <2>3. QED
      BY <1>9, <2>1, <2>2 DEF Run, Counted, TypeOK, Trade
  <1>10. ASSUME NEW name \in RiskAnalysts, DebateRisk(name) PROVE TypeOK'
    <2>1. Speaks(risk, name) \in Risk
      BY DEF TypeOK, Speaks, Risk
    <2>2. \A r : NextInRisk(r) \in RiskAnalysts \cup {"PortfolioManager"}
      BY DEF NextInRisk
    <2>3. QED
      BY <1>10, <2>1, <2>2 DEF Run, Counted, TypeOK, DebateRisk
  <1>11. CASE Decide
    <2>1. risk' \in Risk
      BY <1>11 DEF Decide, TypeOK, Risk, Decided
    <2>2. QED
      BY <1>11, <2>1 DEF Run, Counted, TypeOK, Decide, WithPlan
  <1>12. CASE Gate
    BY <1>12 DEF Run, Counted, TypeOK, Gate
  <1>13. CASE Fail
    BY <1>13 DEF TypeOK, Fail
  <1>14. CASE OutOfSteps
    BY <1>14 DEF TypeOK, OutOfSteps
  <1>15. CASE UNCHANGED vars
    BY <1>15 DEF TypeOK, vars
  <1>16. QED
    BY <1>2, <1>3, <1>4, <1>5, <1>6, <1>7, <1>8, <1>9, <1>10, <1>11, <1>12, <1>13, <1>14,
       <1>15 DEF Next, Step

(* The channels of every run have their types, and the routers name nodes of the graph. *)
THEOREM TypeCorrect == Spec => []TypeOK
  <1>1. Init => TypeOK
    BY InitTypeOK
  <1>2. TypeOK /\ [Next]_vars => TypeOK'
    BY StepTypeOK
  <1>3. QED
    BY <1>1, <1>2, PTL DEF Spec
-----------------------------------------------------------------------------
(* The research debate.                                                    *)

BeforeDebate == {"SnapshotBuilder"} \cup AnalystNodes

(* What the counters say, by the node that is next. *)
DebateInv ==
    /\ debate.count = debate.bull + debate.bear
    /\ debate.history = debate.bull + debate.bear
    /\ debate.bear <= debate.bull /\ debate.bull <= debate.bear + 1
    /\ node \in BeforeDebate => debate.bull = 0 /\ debate.bear = 0
    /\ node = "BullResearcher" =>
         debate.bull = debate.bear /\ (debate.bull = 0 \/ debate.bull < setup.debateRounds)
    /\ node = "BearResearcher" =>
         debate.bull = debate.bear + 1 /\ debate.bear < setup.debateRounds
    /\ node \in AfterDebate =>
         /\ debate.bull = GreaterOf(1, setup.debateRounds)
         /\ debate.bear = setup.debateRounds

LEMMA DebateTypes ==
    ASSUME TypeOK
    PROVE  /\ debate.bull \in Nat /\ debate.bear \in Nat /\ debate.count \in Nat
           /\ debate.history \in Nat
           /\ setup.debateRounds \in Nat
  BY SetupFacts DEF TypeOK, Debate

LEMMA InitDebateInv == Init => DebateInv
  BY DEF Init, DebateInv, BeforeDebate, AfterDebate, AnalystNodes, RiskAnalysts

(* Steps that leave the debate alone stay before it or stay after it. *)
LEMMA OtherStepsKeepDebate ==
    ASSUME DebateInv, UNCHANGED <<setup, debate>>,
           \/ node \in BeforeDebate /\ node' \in BeforeDebate \cup {"BullResearcher"}
           \/ node \in AfterDebate /\ node' \in AfterDebate
           \/ node' = node
           \/ node' \in {"failed", "out_of_steps"}
    PROVE  DebateInv'
  BY DEF DebateInv, BeforeDebate, AfterDebate, AnalystNodes, RiskAnalysts

LEMMA StepDebateInv == ASSUME TypeOK, DebateInv, [Next]_vars PROVE DebateInv'
  <1>. USE DEF BeforeDebate, AfterDebate, AnalystNodes, RiskAnalysts
  <1>1. CASE BuildSnapshot \/ AnalystCallsTools \/ AnalystReports \/ CallTools \/ ClearMessages
    BY <1>1, OtherStepsKeepDebate DEF BuildSnapshot, AnalystCallsTools, AnalystReports, CallTools,
       ClearMessages, Run, AfterAnalyst
  <1>2. CASE Run("BullResearcher", NextInDebate(BullArgues(debate)))
             /\ debate' = BullArgues(debate)
    <2>1. /\ setup' = setup /\ debate.bull = debate.bear
          /\ debate.bull = 0 \/ debate.bull < setup.debateRounds
          /\ node' = NextInDebate(BullArgues(debate))
      BY <1>2 DEF DebateInv, Run
    <2>2. /\ debate'.bull = debate.bull + 1 /\ debate'.bear = debate.bear
          /\ debate'.history = debate.history + 1 /\ debate'.count = debate.count + 1
          /\ debate'.current = "Bull"
      BY <1>2 DEF BullArgues
    <2>3. CASE debate'.count >= 2 * setup.debateRounds
      <3>1. node' = "ResearchManager" /\ setup.debateRounds = 0 /\ debate.bull = 0
        BY <1>2, <2>1, <2>2, <2>3, DebateTypes DEF NextInDebate, DebateInv
      <3>2. QED
        BY <2>1, <2>2, <3>1, DebateTypes DEF DebateInv, GreaterOf
    <2>4. CASE ~(debate'.count >= 2 * setup.debateRounds)
      <3>1. node' = "BearResearcher" /\ debate.bear < setup.debateRounds
        BY <1>2, <2>1, <2>2, <2>4, DebateTypes DEF NextInDebate, DebateInv
      <3>2. QED
        BY <2>1, <2>2, <3>1, DebateTypes DEF DebateInv
    <2>5. QED
      BY <2>3, <2>4
  <1>3. CASE Run("BearResearcher", NextInDebate(BearArgues(debate)))
             /\ debate' = BearArgues(debate)
    <2>1. /\ setup' = setup /\ debate.bull = debate.bear + 1
          /\ debate.bear < setup.debateRounds
          /\ node' = NextInDebate(BearArgues(debate))
      BY <1>3 DEF DebateInv, Run
    <2>2. /\ debate'.bull = debate.bull /\ debate'.bear = debate.bear + 1
          /\ debate'.history = debate.history + 1 /\ debate'.count = debate.count + 1
          /\ debate'.current = "Bear"
      BY <1>3 DEF BearArgues
    <2>3. CASE debate'.count >= 2 * setup.debateRounds
      <3>1. node' = "ResearchManager" /\ debate.bull = setup.debateRounds
        BY <1>3, <2>1, <2>2, <2>3, DebateTypes DEF NextInDebate, DebateInv
      <3>2. QED
        BY <2>1, <2>2, <3>1, DebateTypes DEF DebateInv, GreaterOf
    <2>4. CASE ~(debate'.count >= 2 * setup.debateRounds)
      <3>1. node' = "BullResearcher" /\ debate.bull < setup.debateRounds
        BY <1>3, <2>1, <2>2, <2>4, DebateTypes DEF NextInDebate, DebateInv
      <3>2. QED
        BY <2>1, <2>2, <3>1, DebateTypes DEF DebateInv
    <2>5. QED
      BY <2>3, <2>4
  <1>4. CASE JudgeResearch
    <2>1. /\ setup' = setup /\ node = "ResearchManager" /\ node' = "Trader"
          /\ debate'.bull = debate.bull /\ debate'.bear = debate.bear
          /\ debate'.history = debate.history /\ debate'.count = debate.count
      BY <1>4 DEF JudgeResearch, Run, Judged
    <2>2. QED
      BY <2>1 DEF DebateInv
  <1>5. CASE Trade \/ Decide \/ Gate \/ \E name \in RiskAnalysts : DebateRisk(name)
    BY <1>5, OtherStepsKeepDebate DEF Trade, Decide, Gate, DebateRisk, Run, NextInRisk
  <1>6. CASE Fail \/ OutOfSteps \/ UNCHANGED vars
    BY <1>6, OtherStepsKeepDebate DEF Fail, OutOfSteps, vars
  <1>7. QED
    BY <1>1, <1>2, <1>3, <1>4, <1>5, <1>6 DEF Next, Step, Argue

(* Whatever the number of rounds, the research manager judges a balanced debate. *)
THEOREM DebateIsBalanced == Spec => []BalancedDebate
  <1>1. Init => TypeOK /\ DebateInv
    BY InitTypeOK, InitDebateInv
  <1>2. TypeOK /\ DebateInv /\ [Next]_vars => (TypeOK /\ DebateInv)'
    BY StepTypeOK, StepDebateInv
  <1>3. DebateInv => BalancedDebate
    BY DEF DebateInv, BalancedDebate
  <1>4. QED
    BY <1>1, <1>2, <1>3, PTL DEF Spec
-----------------------------------------------------------------------------
(* The risk debate.                                                        *)

BeforeRisk == BeforeDebate \cup Researchers \cup {"ResearchManager", "Trader"}

(* What the counters say, by the node that is next. *)
RiskInv ==
    LET a == Spoken("AggressiveAnalyst")
        c == Spoken("ConservativeAnalyst")
        n == Spoken("NeutralAnalyst")
        K == setup.riskRounds
    IN  /\ risk.count = a + c + n /\ risk.history = a + c + n
        /\ n <= c /\ c <= a /\ a <= n + 1
        /\ node \in BeforeRisk => a = 0
        /\ node = "AggressiveAnalyst" => a = n /\ (a = 0 \/ a < K)
        /\ node = "ConservativeAnalyst" => a = n + 1 /\ c = n /\ n < K
        /\ node = "NeutralAnalyst" => a = n + 1 /\ c = n + 1 /\ n < K
        /\ node \in AfterRisk => a = GreaterOf(1, K) /\ c = K /\ n = K

LEMMA RiskTypes ==
    ASSUME TypeOK
    PROVE  /\ risk.count \in Nat /\ risk.history \in Nat /\ setup.riskRounds \in Nat
           /\ Spoken("AggressiveAnalyst") \in Nat /\ Spoken("ConservativeAnalyst") \in Nat
           /\ Spoken("NeutralAnalyst") \in Nat
  <1>1. risk.spoken \in [RiskAnalysts -> Nat]
    BY DEF TypeOK, Risk
  <1>2. QED
    BY <1>1, SetupFacts DEF TypeOK, Risk, Spoken, RiskAnalysts

(* Who speaks is counted, and nobody else. *)
LEMMA SpeaksCounts ==
    ASSUME TypeOK, NEW name \in RiskAnalysts, risk' = Speaks(risk, name)
    PROVE  /\ risk'.count = risk.count + 1 /\ risk'.history = risk.history + 1
           /\ risk'.latest = name
           /\ risk'.spoken[name] = risk.spoken[name] + 1
           /\ \A other \in RiskAnalysts \ {name} : risk'.spoken[other] = risk.spoken[other]
  <1>1. risk.spoken \in [RiskAnalysts -> Nat]
    BY DEF TypeOK, Risk
  <1>2. risk'.spoken = [risk.spoken EXCEPT ![name] = @ + 1]
    BY DEF Speaks
  <1>3. QED
    BY <1>1, <1>2 DEF Speaks

LEMMA InitRiskInv == Init => RiskInv
  <1>. SUFFICES ASSUME Init PROVE RiskInv
    OBVIOUS
  <1>1. \A name \in RiskAnalysts : risk.spoken[name] = 0
    BY DEF Init
  <1>2. QED
    BY <1>1 DEF Init, RiskInv, Spoken, BeforeRisk, BeforeDebate, AfterRisk, AnalystNodes,
       RiskAnalysts, Researchers

(* Steps that leave the risk debate alone stay before it or stay after it. *)
LEMMA OtherStepsKeepRisk ==
    ASSUME TypeOK, RiskInv, setup' = setup, risk'.spoken = risk.spoken,
           risk'.count = risk.count, risk'.history = risk.history,
           \/ node \in BeforeRisk /\ node' \in BeforeRisk \cup {"AggressiveAnalyst"}
           \/ node \in AfterRisk /\ node' \in AfterRisk
           \/ node' = node
           \/ node' \in {"failed", "out_of_steps"}
    PROVE  RiskInv'
  BY RiskTypes DEF RiskInv, Spoken, BeforeRisk, BeforeDebate, AfterRisk, AnalystNodes,
     Researchers, RiskAnalysts

LEMMA StepRiskInv == ASSUME TypeOK, RiskInv, [Next]_vars PROVE RiskInv'
  <1>. DEFINE A == "AggressiveAnalyst"
             C == "ConservativeAnalyst"
             N == "NeutralAnalyst"
             K == setup.riskRounds
  <1>. USE DEF BeforeRisk, BeforeDebate, AfterRisk, AnalystNodes, Researchers
  <1>1. CASE BuildSnapshot \/ AnalystCallsTools \/ AnalystReports \/ CallTools \/ ClearMessages
             \/ Argue \/ JudgeResearch \/ Trade
    BY <1>1, OtherStepsKeepRisk DEF BuildSnapshot, AnalystCallsTools, AnalystReports, CallTools,
       ClearMessages, Argue, JudgeResearch, Trade, Run, AfterAnalyst, NextInDebate
  <1>2. CASE DebateRisk(A)
    <2>1. /\ setup' = setup /\ node = A /\ node' = NextInRisk(risk') /\ risk' = Speaks(risk, A)
          /\ A \in RiskAnalysts
      BY <1>2 DEF DebateRisk, Run, RiskAnalysts
    <2>2. /\ risk'.count = risk.count + 1 /\ risk'.history = risk.history + 1
          /\ risk'.latest = A /\ Spoken(A)' = Spoken(A) + 1
          /\ Spoken(C)' = Spoken(C) /\ Spoken(N)' = Spoken(N)
      BY <2>1, SpeaksCounts DEF RiskAnalysts, Spoken
    <2>3. /\ Spoken(A) = Spoken(N) /\ Spoken(C) = Spoken(N)
          /\ Spoken(A) = 0 \/ Spoken(A) < K
          /\ risk.count = Spoken(A) + Spoken(C) + Spoken(N) /\ risk.history = risk.count
      BY <2>1, RiskTypes DEF RiskInv
    <2>4. CASE risk'.count >= 3 * K
      <3>1. node' = "PortfolioManager" /\ K = 0 /\ Spoken(A) = 0
        BY <2>1, <2>2, <2>3, <2>4, RiskTypes DEF NextInRisk
      <3>2. QED
        BY <2>1, <2>2, <2>3, <3>1, RiskTypes DEF RiskInv, GreaterOf
    <2>5. CASE ~(risk'.count >= 3 * K)
      <3>1. node' = C /\ Spoken(N) < K
        BY <2>1, <2>2, <2>3, <2>5, RiskTypes DEF NextInRisk
      <3>2. QED
        BY <2>1, <2>2, <2>3, <3>1, RiskTypes DEF RiskInv
    <2>6. QED
      BY <2>4, <2>5
  <1>3. CASE DebateRisk(C)
    <2>1. /\ setup' = setup /\ node = C /\ node' = NextInRisk(risk') /\ risk' = Speaks(risk, C)
          /\ C \in RiskAnalysts
      BY <1>3 DEF DebateRisk, Run, RiskAnalysts
    <2>2. /\ risk'.count = risk.count + 1 /\ risk'.history = risk.history + 1
          /\ risk'.latest = C /\ Spoken(C)' = Spoken(C) + 1
          /\ Spoken(A)' = Spoken(A) /\ Spoken(N)' = Spoken(N)
      BY <2>1, SpeaksCounts DEF RiskAnalysts, Spoken
    <2>3. /\ Spoken(A) = Spoken(N) + 1 /\ Spoken(C) = Spoken(N) /\ Spoken(N) < K
          /\ risk.count = Spoken(A) + Spoken(C) + Spoken(N) /\ risk.history = risk.count
      BY <2>1, RiskTypes DEF RiskInv
    <2>4. node' = N
      BY <2>1, <2>2, <2>3, RiskTypes DEF NextInRisk
    <2>5. QED
      BY <2>1, <2>2, <2>3, <2>4, RiskTypes DEF RiskInv
  <1>4. CASE DebateRisk(N)
    <2>1. /\ setup' = setup /\ node = N /\ node' = NextInRisk(risk') /\ risk' = Speaks(risk, N)
          /\ N \in RiskAnalysts
      BY <1>4 DEF DebateRisk, Run, RiskAnalysts
    <2>2. /\ risk'.count = risk.count + 1 /\ risk'.history = risk.history + 1
          /\ risk'.latest = N /\ Spoken(N)' = Spoken(N) + 1
          /\ Spoken(A)' = Spoken(A) /\ Spoken(C)' = Spoken(C)
      BY <2>1, SpeaksCounts DEF RiskAnalysts, Spoken
    <2>3. /\ Spoken(A) = Spoken(N) + 1 /\ Spoken(C) = Spoken(N) + 1 /\ Spoken(N) < K
          /\ risk.count = Spoken(A) + Spoken(C) + Spoken(N) /\ risk.history = risk.count
      BY <2>1, RiskTypes DEF RiskInv
    <2>4. CASE risk'.count >= 3 * K
      <3>1. node' = "PortfolioManager" /\ Spoken(N) + 1 = K
        BY <2>1, <2>2, <2>3, <2>4, RiskTypes DEF NextInRisk
      <3>2. QED
        BY <2>1, <2>2, <2>3, <3>1, RiskTypes DEF RiskInv, GreaterOf
    <2>5. CASE ~(risk'.count >= 3 * K)
      <3>1. node' = A /\ Spoken(N) + 1 < K
        BY <2>1, <2>2, <2>3, <2>5, RiskTypes DEF NextInRisk
      <3>2. QED
        BY <2>1, <2>2, <2>3, <3>1, RiskTypes DEF RiskInv
    <2>6. QED
      BY <2>4, <2>5
  <1>5. CASE Decide
    <2>1. /\ risk'.spoken = risk.spoken /\ risk'.count = risk.count
          /\ risk'.history = risk.history /\ setup' = setup
      BY <1>5 DEF Decide, Decided, Run
    <2>2. node = "PortfolioManager" /\ node' \in {"RiskGate", "END"}
      BY <1>5 DEF Decide, Run
    <2>3. QED
      BY <2>1, <2>2, OtherStepsKeepRisk
  <1>6. CASE Gate \/ Fail \/ OutOfSteps \/ UNCHANGED vars
    BY <1>6, OtherStepsKeepRisk DEF Gate, Run, Fail, OutOfSteps, vars
  <1>7. QED
    BY <1>1, <1>2, <1>3, <1>4, <1>5, <1>6 DEF Next, Step, RiskAnalysts

(* Whatever the number of rounds, the portfolio manager decides after a balanced debate. *)
THEOREM RiskIsBalanced == Spec => []BalancedRisk
  <1>1. Init => TypeOK /\ RiskInv
    BY InitTypeOK, InitRiskInv
  <1>2. TypeOK /\ RiskInv /\ [Next]_vars => (TypeOK /\ RiskInv)'
    BY StepTypeOK, StepRiskInv
  <1>3. RiskInv => BalancedRisk
    BY DEF RiskInv, BalancedRisk
  <1>4. QED
    BY <1>1, <1>2, <1>3, PTL DEF Spec

-----------------------------------------------------------------------------
(* Messages.                                                               *)

(* Whose messages are in the list when an analyst or its tools are next. *)
MessageInv ==
    /\ node = "SnapshotBuilder" => messages = Cleared
    /\ node = "Analyst" => messages.from \subseteq {Analyst} /\ messages.last # "tool_calls"
    /\ node = "tools" => messages.from \subseteq {Analyst}

LEMMA StepMessageInv == ASSUME TypeOK, MessageInv, [Next]_vars PROVE MessageInv'
  <1>1. CASE BuildSnapshot
    BY <1>1 DEF BuildSnapshot, Run, MessageInv, Cleared
  <1>2. CASE AnalystCallsTools
    BY <1>2 DEF AnalystCallsTools, Run, MessageInv, AfterAnalyst, Analyst
  <1>3. CASE AnalystReports
    BY <1>3 DEF AnalystReports, Run, MessageInv, AfterAnalyst
  <1>4. CASE CallTools
    <2>1. messages'.from = messages.from /\ messages'.last = "results" /\ Analyst' = Analyst
          /\ node = "tools" /\ node' = "Analyst"
      BY <1>4 DEF CallTools, Run, TypeOK, Analyst
    <2>2. QED
      BY <2>1 DEF MessageInv
  <1>5. CASE ClearMessages
    BY <1>5 DEF ClearMessages, Cleared, Run, MessageInv
  <1>6. CASE Argue \/ JudgeResearch \/ Trade \/ Decide \/ Gate
             \/ \E name \in RiskAnalysts : DebateRisk(name)
    BY <1>6 DEF Argue, JudgeResearch, Trade, Decide, Gate, DebateRisk, Run, MessageInv,
       NextInDebate, NextInRisk
  <1>7. CASE Fail \/ OutOfSteps
    BY <1>7 DEF Fail, OutOfSteps, MessageInv
  <1>8. CASE UNCHANGED vars
    BY <1>8 DEF vars, MessageInv, Analyst
  <1>9. QED
    BY <1>1, <1>2, <1>3, <1>4, <1>5, <1>6, <1>7, <1>8 DEF Next, Step

(* Analysts never see each other's messages, nor a tool call without its result. *)
THEOREM AnalystsSeeTheirOwn == Spec => []OwnMessagesOnly
  <1>1. Init => TypeOK /\ MessageInv
    BY InitTypeOK DEF Init, MessageInv, Cleared
  <1>2. TypeOK /\ MessageInv /\ [Next]_vars => (TypeOK /\ MessageInv)'
    BY StepTypeOK, StepMessageInv
  <1>3. MessageInv => OwnMessagesOnly
    BY DEF MessageInv, OwnMessagesOnly
  <1>4. QED
    BY <1>1, <1>2, <1>3, PTL DEF Spec

-----------------------------------------------------------------------------
(* Steps.                                                                  *)

Arguments == debate.count + risk.count
Opening == IF setup.crypto THEN 1 ELSE 0
AnalystSteps == Opening + 2 * Len(setup.analysts)

(* The steps that are neither tool rounds nor arguments: the node to run tells their number. *)
Spent == steps - Arguments - 2 * toolRounds

StepInv ==
    /\ toolRounds <= steps
    /\ node \in {"SnapshotBuilder", "RiskGate"} => setup.crypto
    /\ node = "SnapshotBuilder" => turn = 1 /\ Spent = 0
    /\ node = "Analyst" => Spent = Opening + 2 * (turn - 1)
    /\ node \in {"tools", "MsgClear"} => Spent = Opening + 2 * (turn - 1) + 1
    /\ node \in Researchers \cup {"ResearchManager"} => Spent = AnalystSteps
    /\ node = "Trader" => Spent = AnalystSteps + 1
    /\ node \in RiskAnalysts \cup {"PortfolioManager"} => Spent = AnalystSteps + 2
    /\ node = "RiskGate" => Spent = AnalystSteps + 3
    /\ node = "END" => Spent = AnalystSteps + 3 + Opening
    /\ node = "out_of_steps" => FixedSteps + 2 * toolRounds > setup.stepLimit

LEMMA StepTypes ==
    ASSUME TypeOK
    PROVE  /\ steps \in Nat /\ toolRounds \in Nat /\ setup.stepLimit \in Nat
           /\ debate.count \in Nat /\ risk.count \in Nat
           /\ turn \in Nat /\ 1 <= turn /\ turn <= Len(setup.analysts)
           /\ Len(setup.analysts) \in Nat
           /\ AnalystSteps = Opening + 2 * Len(setup.analysts)
           /\ Opening \in {0, 1}
           /\ setup.crypto => Opening = 1
           /\ ~setup.crypto => Opening = 0
  <1>1. /\ setup \in Setups /\ turn \in 1..Len(setup.analysts) /\ steps \in Nat
        /\ toolRounds \in Nat /\ debate.count \in Nat /\ risk.count \in Nat
    BY DEF TypeOK, Debate, Risk
  <1>2. Len(setup.analysts) \in Nat /\ setup.stepLimit \in Nat
    BY <1>1, SetupFacts
  <1>3. QED
    BY <1>1, <1>2 DEF Opening, AnalystSteps

(* A node that runs takes one step. *)
LEMMA RunTakesOne ==
    ASSUME TypeOK, NEW name, NEW next, Run(name, next)
    PROVE  /\ node = name /\ node' = next /\ setup' = setup /\ steps < setup.stepLimit
           /\ steps' = steps + 1 /\ Opening' = Opening /\ AnalystSteps' = AnalystSteps
  <1>1. node = name /\ node' = next /\ setup' = setup /\ ~(steps >= setup.stepLimit)
        /\ steps' = Counted(steps)
    BY DEF Run, LimitReached
  <1>2. steps < setup.stepLimit /\ steps' = steps + 1
    BY <1>1, StepTypes DEF Counted
  <1>3. QED
    BY <1>1, <1>2 DEF Opening, AnalystSteps

(* Spent is an integer. *)
LEMMA SpentFacts ==
    ASSUME TypeOK
    PROVE  /\ Spent \in Int /\ Arguments \in Nat /\ Arguments = debate.count + risk.count
           /\ steps = Spent + (Arguments + 2 * toolRounds)
  <1>1. Arguments \in Nat /\ Arguments = debate.count + risk.count
    BY StepTypes DEF Arguments
  <1>2. Spent \in Int /\ steps = Spent + (Arguments + 2 * toolRounds)
    BY <1>1, StepTypes DEF Spent
  <1>3. QED
    BY <1>1, <1>2

(* How a step changes it. *)
LEMMA OneMore ==
    ASSUME TypeOK, steps' = steps + 1
    PROVE  /\ Arguments' = Arguments /\ toolRounds' = toolRounds => Spent' = Spent + 1
           /\ Arguments' = Arguments + 1 /\ toolRounds' = toolRounds => Spent' = Spent
           /\ Arguments' = Arguments /\ toolRounds' = toolRounds + 1 => Spent' = Spent - 1
  <1>1. Arguments \in Nat /\ steps \in Nat /\ toolRounds \in Nat
    BY StepTypes, SpentFacts
  <1>2. Spent' = steps' - Arguments' - 2 * toolRounds'
    BY DEF Spent
  <1>3. Spent = steps - Arguments - 2 * toolRounds
    BY DEF Spent
  <1>4. QED
    BY <1>1, <1>2, <1>3
LEMMA InitStepInv == Init => StepInv
  <1>. SUFFICES ASSUME Init PROVE StepInv
    OBVIOUS
  <1>1. steps = 0 /\ toolRounds = 0 /\ debate.count = 0 /\ risk.count = 0 /\ turn = 1
    BY DEF Init
  <1>2. node = IF setup.crypto THEN "SnapshotBuilder" ELSE "Analyst"
    BY DEF Init
  <1>3. Spent = 0
    BY <1>1 DEF Spent, Arguments
  <1>4. QED
    BY <1>1, <1>2, <1>3, InitTypeOK, StepTypes DEF StepInv, Researchers, RiskAnalysts

(* The fixed steps, by the parts of a run. *)
LEMMA FixedStepsAre ==
    ASSUME TypeOK
    PROVE  /\ GreaterOf(1, 2 * setup.debateRounds) \in Nat
           /\ GreaterOf(1, 3 * setup.riskRounds) \in Nat
           /\ FixedSteps = (AnalystSteps + Opening + 3)
                           + (GreaterOf(1, 2 * setup.debateRounds)
                              + GreaterOf(1, 3 * setup.riskRounds))
           /\ FixedSteps \in Nat
  <1>. DEFINE D == GreaterOf(1, 2 * setup.debateRounds)
              R == GreaterOf(1, 3 * setup.riskRounds)
              L == 2 * Len(setup.analysts)
  <1>1. D \in Nat /\ R \in Nat /\ L \in Nat
    <2>1. setup.debateRounds \in Nat /\ setup.riskRounds \in Nat /\ Len(setup.analysts) \in Nat
      BY DebateTypes, RiskTypes, StepTypes
    <2>2. QED
      BY <2>1 DEF GreaterOf
  <1>2. FixedSteps = (IF setup.crypto THEN 2 ELSE 0) + L + 3 + D + R
    BY DEF FixedSteps
  <1>3. AnalystSteps = Opening + L /\ Opening = (IF setup.crypto THEN 1 ELSE 0)
    BY DEF AnalystSteps, Opening
  <1>. HIDE DEF D, R, L
  <1>4. FixedSteps = (AnalystSteps + Opening + 3) + (D + R) /\ FixedSteps \in Nat
    <2>1. CASE setup.crypto
      <3>1. FixedSteps = 2 + L + 3 + D + R /\ AnalystSteps = 1 + L /\ Opening = 1
        BY <1>2, <1>3, <2>1
      <3>2. QED
        BY <1>1, <3>1
    <2>2. CASE ~setup.crypto
      <3>1. FixedSteps = 0 + L + 3 + D + R /\ AnalystSteps = 0 + L /\ Opening = 0
        BY <1>2, <1>3, <2>2
      <3>2. QED
        BY <1>1, <3>1
    <2>3. QED
      BY <2>1, <2>2
  <1>5. QED
    BY <1>1, <1>4 DEF D, R

(* As long as a node is left to run, the steps of the setup are not used up. *)
LEMMA StepsToCome ==
    ASSUME TypeOK, DebateInv, RiskInv, StepInv, node \notin Ends
    PROVE  steps < FixedSteps + 2 * toolRounds
  <1>1. debate.count <= GreaterOf(1, 2 * setup.debateRounds)
    <2>1. \/ debate.bull = 0 /\ debate.bear = 0
          \/ debate.bull = debate.bear /\ debate.bull < setup.debateRounds
          \/ debate.bull = debate.bear + 1 /\ debate.bear < setup.debateRounds
          \/ debate.bull = GreaterOf(1, setup.debateRounds) /\ debate.bear = setup.debateRounds
      BY DebateTypes DEF DebateInv, BeforeDebate, AfterDebate, RiskAnalysts, AnalystNodes,
         Researchers, LaterNodes, Ends, TypeOK
    <2>2. debate.count = debate.bull + debate.bear
      BY DEF DebateInv
    <2>3. QED
      BY <2>1, <2>2, DebateTypes DEF GreaterOf
  <1>2. risk.count <= GreaterOf(1, 3 * setup.riskRounds)
    <2>. DEFINE a == Spoken("AggressiveAnalyst")
                c == Spoken("ConservativeAnalyst")
                n == Spoken("NeutralAnalyst")
    <2>1. /\ n <= c /\ c <= a /\ risk.count = a + c + n
          /\ \/ a = 0
             \/ a = n /\ a < setup.riskRounds
             \/ a = n + 1 /\ n < setup.riskRounds
             \/ a = GreaterOf(1, setup.riskRounds) /\ c = setup.riskRounds /\ n = c
      BY RiskTypes DEF RiskInv, BeforeRisk, BeforeDebate, AfterRisk, RiskAnalysts, AnalystNodes,
         Researchers, LaterNodes, Ends, TypeOK
    <2>2. a \in Nat /\ c \in Nat /\ n \in Nat
      BY RiskTypes
    <2>. HIDE DEF a, c, n
    <2>3. QED
      BY <2>1, <2>2, RiskTypes DEF GreaterOf
  <1>3. Spent <= AnalystSteps + 2 \/ (setup.crypto /\ Spent <= AnalystSteps + 3)
    BY StepTypes DEF StepInv, TypeOK, RiskAnalysts, AnalystNodes, Researchers, LaterNodes, Ends
  <1>. DEFINE D == GreaterOf(1, 2 * setup.debateRounds)
              R == GreaterOf(1, 3 * setup.riskRounds)
  <1>4. D \in Nat /\ R \in Nat /\ FixedSteps = (AnalystSteps + Opening + 3) + (D + R)
    BY FixedStepsAre
  <1>5. debate.count <= D /\ risk.count <= R
    BY <1>1, <1>2
  <1>. HIDE DEF D, R
  <1>6. Arguments \in Nat /\ Arguments <= D + R
    BY <1>4, <1>5, StepTypes, SpentFacts
  <1>7. AnalystSteps \in Nat /\ Opening \in Nat /\ (setup.crypto => Opening = 1)
    BY StepTypes
  <1>8. Spent \in Int
    BY SpentFacts
  <1>9. Spent < AnalystSteps + Opening + 3
    BY <1>3, <1>7, <1>8
  <1>10. Spent + Arguments < FixedSteps /\ Spent + Arguments \in Int /\ FixedSteps \in Int
    BY <1>4, <1>6, <1>7, <1>8, <1>9
  <1>11. toolRounds \in Nat /\ steps = Spent + (Arguments + 2 * toolRounds)
    BY StepTypes, SpentFacts
  <1>12. steps = (Spent + Arguments) + 2 * toolRounds
    BY <1>6, <1>8, <1>11
  <1>13. QED
    BY <1>10, <1>11, <1>12

(* A run that is out of steps had a node left that it had no step for. *)
LEMMA StepStepInv ==
    ASSUME TypeOK, DebateInv, RiskInv, StepInv, [Next]_vars
    PROVE  StepInv'
  <1>. USE DEF Researchers, RiskAnalysts
  <1>0. /\ toolRounds <= steps /\ toolRounds \in Nat /\ steps \in Nat
        /\ Arguments = debate.count + risk.count
        /\ Arguments' = debate'.count + risk'.count
        /\ debate.count \in Nat /\ risk.count \in Nat
    BY StepTypes DEF StepInv, Arguments
  <1>1. CASE BuildSnapshot
    <2>1. /\ node = "SnapshotBuilder" /\ node' = "Analyst" /\ steps' = steps + 1
          /\ Opening' = Opening /\ turn' = turn /\ toolRounds' = toolRounds
          /\ debate' = debate /\ risk' = risk
      BY <1>1, RunTakesOne DEF BuildSnapshot
    <2>2. Arguments' = Arguments
      BY <1>0, <2>1
    <2>3. Spent' = Spent + 1 /\ toolRounds' <= steps' /\ Spent \in Int
      BY <1>0, <2>1, <2>2, OneMore, SpentFacts
    <2>4. QED
      BY <2>1, <2>3, StepTypes DEF StepInv
  <1>2. CASE AnalystCallsTools \/ AnalystReports
    <2>1. /\ node = "Analyst" /\ node' \in {"tools", "MsgClear"} /\ steps' = steps + 1
          /\ Opening' = Opening /\ turn' = turn /\ toolRounds' = toolRounds
          /\ debate' = debate /\ risk' = risk
      BY <1>2, RunTakesOne DEF AnalystCallsTools, AnalystReports, AfterAnalyst
    <2>2. Arguments' = Arguments
      BY <1>0, <2>1
    <2>3. Spent' = Spent + 1 /\ toolRounds' <= steps' /\ Spent \in Int
      BY <1>0, <2>1, <2>2, OneMore, SpentFacts
    <2>4. QED
      BY <2>1, <2>3, StepTypes DEF StepInv
  <1>3. CASE CallTools
    <2>1. /\ node = "tools" /\ node' = "Analyst" /\ steps' = steps + 1
          /\ Opening' = Opening /\ turn' = turn /\ steps < setup.stepLimit
          /\ toolRounds' = Counted(toolRounds) /\ debate' = debate /\ risk' = risk
      BY <1>3, RunTakesOne DEF CallTools
    <2>2. toolRounds' = toolRounds + 1
      BY <1>0, <2>1, StepTypes DEF Counted
    <2>3. Arguments' = Arguments
      BY <1>0, <2>1
    <2>4. Spent' = Spent - 1 /\ toolRounds' <= steps' /\ Spent \in Int
      BY <1>0, <2>1, <2>2, <2>3, OneMore, SpentFacts
    <2>5. QED
      BY <2>1, <2>4, StepTypes DEF StepInv
  <1>4. CASE ClearMessages
    <2>1. /\ node = "MsgClear" /\ steps' = steps + 1 /\ toolRounds' = toolRounds
          /\ Opening' = Opening /\ AnalystSteps' = AnalystSteps
          /\ debate' = debate /\ risk' = risk
          /\ \/ node' = "Analyst" /\ turn' = turn + 1
             \/ node' = "BullResearcher" /\ turn = Len(setup.analysts)
      BY <1>4, RunTakesOne, StepTypes DEF ClearMessages
    <2>2. Arguments' = Arguments
      BY <1>0, <2>1
    <2>3. Spent' = Spent + 1 /\ toolRounds' <= steps' /\ Spent \in Int
      BY <1>0, <2>1, <2>2, OneMore, SpentFacts
    <2>4. CASE node' = "Analyst"
      <3>1. Spent = Opening + 2 * (turn - 1) + 1 /\ turn' = turn + 1
        BY <2>1, <2>4 DEF StepInv
      <3>2. Spent' = Opening' + 2 * (turn' - 1)
        BY <2>1, <2>3, <3>1, StepTypes
      <3>3. QED
        BY <2>3, <2>4, <3>2 DEF StepInv
    <2>5. CASE node' = "BullResearcher"
      <3>1. Spent = Opening + 2 * (turn - 1) + 1 /\ turn = Len(setup.analysts)
        BY <2>1, <2>5 DEF StepInv
      <3>2. Spent' = AnalystSteps'
        BY <2>1, <2>3, <3>1, StepTypes
      <3>3. QED
        BY <2>3, <2>5, <3>2 DEF StepInv
    <2>6. QED
      BY <2>1, <2>4, <2>5
  <1>5. CASE Argue
    <2>1. /\ node \in Researchers /\ node' \in Researchers \cup {"ResearchManager"}
          /\ steps' = steps + 1 /\ toolRounds' = toolRounds /\ AnalystSteps' = AnalystSteps
          /\ debate'.count = debate.count + 1 /\ risk' = risk
      BY <1>5, RunTakesOne DEF Argue, NextInDebate, BullArgues, BearArgues
    <2>2. Arguments' = Arguments + 1
      BY <1>0, <2>1
    <2>3. Spent' = Spent /\ toolRounds' <= steps'
      BY <1>0, <2>1, <2>2, OneMore
    <2>4. QED
      BY <2>1, <2>3 DEF StepInv
  <1>6. CASE JudgeResearch \/ Trade
    <2>1. /\ \/ node = "ResearchManager" /\ node' = "Trader"
             \/ node = "Trader" /\ node' = "AggressiveAnalyst"
          /\ steps' = steps + 1 /\ toolRounds' = toolRounds /\ AnalystSteps' = AnalystSteps
          /\ debate'.count = debate.count /\ risk' = risk
      BY <1>6, RunTakesOne DEF JudgeResearch, Trade, Judged
    <2>2. Arguments' = Arguments
      BY <1>0, <2>1
    <2>3. Spent' = Spent + 1 /\ toolRounds' <= steps' /\ Spent \in Int
      BY <1>0, <2>1, <2>2, OneMore, SpentFacts
    <2>4. AnalystSteps \in Nat
      BY StepTypes
    <2>5. QED
      BY <2>1, <2>3, <2>4 DEF StepInv
  <1>7. CASE \E name \in RiskAnalysts : DebateRisk(name)
    <2>1. PICK name \in RiskAnalysts : DebateRisk(name)
      BY <1>7
    <2>2. /\ node \in RiskAnalysts /\ node' \in RiskAnalysts \cup {"PortfolioManager"}
          /\ steps' = steps + 1 /\ toolRounds' = toolRounds /\ AnalystSteps' = AnalystSteps
          /\ risk'.count = risk.count + 1 /\ debate' = debate
      BY <2>1, RunTakesOne DEF DebateRisk, NextInRisk, Speaks
    <2>3. Arguments' = Arguments + 1
      BY <1>0, <2>2
    <2>4. Spent' = Spent /\ toolRounds' <= steps'
      BY <1>0, <2>2, <2>3, OneMore
    <2>5. QED
      BY <2>2, <2>4 DEF StepInv
  <1>8. CASE Decide \/ Gate
    <2>1. /\ \/ node = "PortfolioManager" /\ setup.crypto /\ node' = "RiskGate"
             \/ node = "PortfolioManager" /\ ~setup.crypto /\ node' = "END"
             \/ node = "RiskGate" /\ node' = "END"
          /\ steps' = steps + 1 /\ toolRounds' = toolRounds /\ AnalystSteps' = AnalystSteps
          /\ Opening' = Opening /\ setup' = setup
          /\ risk'.count = risk.count /\ debate' = debate
      BY <1>8, RunTakesOne DEF Decide, Gate, Decided
    <2>2. Arguments' = Arguments
      BY <1>0, <2>1
    <2>3. Spent' = Spent + 1 /\ toolRounds' <= steps' /\ Spent \in Int
      BY <1>0, <2>1, <2>2, OneMore, SpentFacts
    <2>4. /\ AnalystSteps \in Nat
          /\ setup.crypto => Opening = 1
          /\ ~setup.crypto => Opening = 0
      BY StepTypes
    <2>5. \/ node' = "END" /\ setup.crypto /\ Spent' = AnalystSteps' + 4
          \/ node' = "END" /\ ~setup.crypto /\ Spent' = AnalystSteps' + 3
          \/ node' = "RiskGate" /\ setup'.crypto /\ Spent' = AnalystSteps' + 3
      BY <2>1, <2>3, <2>4 DEF StepInv
    <2>6. QED
      BY <2>1, <2>3, <2>4, <2>5 DEF StepInv
  <1>9. CASE Fail
    BY <1>0, <1>9 DEF Fail, StepInv
  <1>10. CASE OutOfSteps
    <2>1. /\ node \notin Ends /\ steps >= setup.stepLimit /\ node' = "out_of_steps"
          /\ steps' = steps /\ toolRounds' = toolRounds /\ setup' = setup
      BY <1>10 DEF OutOfSteps, LimitReached
    <2>2. FixedSteps \in Int
      BY FixedStepsAre
    <2>3. FixedSteps + 2 * toolRounds > setup.stepLimit
      BY <2>1, <2>2, StepsToCome, StepTypes
    <2>4. FixedSteps' = FixedSteps
      BY <2>1 DEF FixedSteps
    <2>5. QED
      BY <2>1, <2>3, <2>4 DEF StepInv
  <1>11. CASE UNCHANGED vars
    BY <1>11 DEF vars, AnalystSteps, Opening, FixedSteps, StepInv, Spent, Arguments
  <1>12. QED
    BY <1>1, <1>2, <1>3, <1>4, <1>5, <1>6, <1>7, <1>8, <1>9, <1>10, <1>11 DEF Next, Step

(* When a run is done or out of steps, it took exactly what its setup and its tool rounds
   account for: nothing else can use the limit up. *)
THEOREM StepsAreAccountedFor == Spec => []StepBudget
  <1>. DEFINE Inv == TypeOK /\ DebateInv /\ RiskInv /\ StepInv
  <1>1. Init => Inv
    BY InitTypeOK, InitDebateInv, InitRiskInv, InitStepInv
  <1>2. Inv /\ [Next]_vars => Inv'
    BY StepTypeOK, StepDebateInv, StepRiskInv, StepStepInv
  <1>3. Inv => StepBudget
    <2>1. SUFFICES ASSUME Inv, node = "END" PROVE steps = FixedSteps + 2 * toolRounds
      BY DEF StepInv, StepBudget
    <2>2. /\ debate.count = GreaterOf(1, 2 * setup.debateRounds)
          /\ risk.count = GreaterOf(1, 3 * setup.riskRounds)
      BY <2>1, DebateTypes, RiskTypes DEF DebateInv, RiskInv, AfterDebate, AfterRisk, GreaterOf
    <2>3. Spent = AnalystSteps + 3 + Opening
      BY <2>1 DEF StepInv
    <2>4. FixedSteps = (AnalystSteps + Opening + 3) + (debate.count + risk.count)
      BY <2>1, <2>2, FixedStepsAre
    <2>5. /\ steps = Spent + (Arguments + 2 * toolRounds) /\ Arguments = debate.count + risk.count
          /\ Spent \in Int /\ Arguments \in Nat /\ toolRounds \in Nat
      BY <2>1, SpentFacts, StepTypes
    <2>6. FixedSteps = Spent + Arguments
      <3>1. AnalystSteps \in Nat /\ Opening \in Nat
        BY <2>1, StepTypes
      <3>2. QED
        BY <2>3, <2>4, <2>5, <3>1
    <2>7. QED
      BY <2>5, <2>6
  <1>4. QED
    BY <1>1, <1>2, <1>3, PTL DEF Spec

-----------------------------------------------------------------------------
(* The display.                                                            *)

(* What the loop works on. *)
Shape(d) ==
    /\ d = [status |-> d.status, sections |-> d.sections]
    /\ d.status = [a \in Agents |-> d.status[a]]
    /\ d.sections = [s \in Selected \cup Plans |-> d.sections[s]]

(* Analysts, sections and fixed agents have different names. *)
LEMMA NamesDiffer ==
    ASSUME setup \in Setups
    PROVE  /\ Selected \subseteq AnalystKeys /\ "none" \notin AnalystKeys
           /\ Selected \cap FixedAgents = {} /\ Selected \cap Plans = {}
           /\ Selected \cap Team = {} /\ Selected \cap RiskAnalysts = {}
           /\ "Trader" \notin Selected /\ "PortfolioManager" \notin Selected
  <1>1. Selected \subseteq AnalystKeys
    BY SetupFacts DEF Selected
  <1>2. QED
    BY <1>1 DEF AnalystKeys, FixedAgents, Team, Researchers, RiskAnalysts, Plans

(* Changing the status of some agents. *)
LEMMA SetStatusFacts ==
    ASSUME NEW d, Shape(d), NEW agents, NEW value
    PROVE  /\ Shape(SetStatus(d, agents, value))
           /\ SetStatus(d, agents, value).sections = d.sections
           /\ \A a \in Agents : SetStatus(d, agents, value).status[a] =
                                  IF a \in agents THEN value ELSE d.status[a]
  <1>. DEFINE st == [a \in Agents |-> IF a \in agents THEN value ELSE d.status[a]]
  <1>1. SetStatus(d, agents, value) = [status |-> st, sections |-> d.sections]
    BY DEF SetStatus, Shape
  <1>2. QED
    BY <1>1 DEF Shape

(* Writing one of the plans' sections. *)
LEMMA WrittenFacts ==
    ASSUME setup \in Setups, NEW d, Shape(d), NEW section \in Plans, NEW value
    PROVE  LET e == [d EXCEPT !.sections[section] = value]
           IN  /\ Shape(e) /\ e.status = d.status
               /\ \A a \in Selected : e.sections[a] = d.sections[a]
  <1>. DEFINE se == [s \in Selected \cup Plans |-> IF s = section THEN value ELSE d.sections[s]]
  <1>1. [d EXCEPT !.sections[section] = value] = [status |-> d.status, sections |-> se]
    BY DEF Shape
  <1>2. section \notin Selected
    BY NamesDiffer
  <1>3. QED
    BY <1>1, <1>2 DEF Shape

LEMMA WrittenOverFacts ==
    ASSUME setup \in Setups, NEW d, Shape(d), NEW section \in Plans, NEW order, NEW written
    PROVE  LET e == WrittenOver(d, section, order, written)
           IN  /\ Shape(e) /\ e.status = d.status
               /\ \A a \in Selected : e.sections[a] = d.sections[a]
  BY WrittenFacts DEF WrittenOver

(* The analysts' part of the loop: who has a report is done, the first without one is at
   work, and of the others only a waiting bull is touched. *)
LEMMA AnalystPart ==
    ASSUME setup \in Setups, NEW d, Shape(d), NEW c, c.reports \subseteq Selected
    PROVE  LET done == Done(d, c)
               e == AnalystTeam(d, c)
           IN  /\ Shape(e)
               /\ \A a \in Selected :
                    e.status[a] = IF a \in done THEN "completed"
                                  ELSE IF a \in FirstWithout(done) THEN "in_progress"
                                  ELSE "pending"
               /\ \A a \in Selected :
                    e.sections[a] = IF a \in c.reports THEN a ELSE d.sections[a]
               /\ \A a \in FixedAgents :
                    e.status[a] = d.status[a] \/ e.status[a] = "in_progress"
               /\ \A a \in FixedAgents \ {"BullResearcher"} : e.status[a] = d.status[a]
               /\ d.status["BullResearcher"] = "completed" =>
                    e.status["BullResearcher"] = "completed"
  <1>. DEFINE done == Done(d, c)
              active == FirstWithout(done)
              st == [a \in Agents |->
                       CASE a \in done -> "completed"
                         [] a \in active -> "in_progress"
                         [] a \in Selected \ (done \cup active) -> "pending"
                         [] OTHER -> d.status[a]]
              se == [s \in Selected \cup Plans |-> IF s \in c.reports THEN s ELSE d.sections[s]]
              marked == [status |-> st, sections |-> se]
  <1>1. done \cap active = {}
    BY DEF FirstWithout
  <1>2. /\ \A a \in Selected : st[a] = IF a \in done THEN "completed"
                                        ELSE IF a \in active THEN "in_progress" ELSE "pending"
        /\ \A a \in FixedAgents : st[a] = d.status[a]
    <2>1. Selected \cap FixedAgents = {}
      BY NamesDiffer
    <2>2. done \subseteq Selected /\ active \subseteq Selected
      BY DEF Done, FirstWithout, Selected
    <2>. HIDE DEF done, active
    <2>3. QED
      BY <1>1, <2>1, <2>2 DEF Agents
  <1>3. Shape(marked)
    BY DEF Shape
  <1>4. \/ AnalystTeam(d, c) = marked
        \/ /\ AnalystTeam(d, c) = SetStatus(marked, {"BullResearcher"}, "in_progress")
           /\ d.status["BullResearcher"] = "pending"
    <2>1. DOMAIN d.status = Agents /\ DOMAIN d.sections = Selected \cup Plans
      <3>1. \A f, S : f = [x \in S |-> f[x]] => DOMAIN f = S
        OBVIOUS
      <3>2. QED
        BY <3>1, Zenon DEF Shape
    <2>. HIDE DEF done, active
    <2>2. marked = [status |-> [a \in DOMAIN d.status |->
                       CASE a \in done -> "completed"
                         [] a \in active -> "in_progress"
                         [] a \in Selected \ (done \cup active) -> "pending"
                         [] OTHER -> d.status[a]],
                   sections |-> [s \in DOMAIN d.sections |->
                       IF s \in c.reports THEN s ELSE d.sections[s]]]
      BY <2>1, Zenon
    <2>. HIDE DEF marked
    <2>3. QED
      BY <2>2, Zenon DEF AnalystTeam, AnalystsMarked, done, active
  <1>5. "BullResearcher" \in FixedAgents \ Selected /\ Selected \subseteq Agents
        /\ FixedAgents \subseteq Agents
    BY NamesDiffer DEF FixedAgents, Team, Researchers, Agents
  <1>6. \A a \in Selected : se[a] = IF a \in c.reports THEN a ELSE d.sections[a]
    OBVIOUS
  <1>. HIDE DEF done, active, st, se
  <1>7. /\ marked.status = st /\ marked.sections = se
    OBVIOUS
  <1>. HIDE DEF marked
  <1>8. CASE AnalystTeam(d, c) = marked
    BY <1>2, <1>3, <1>5, <1>6, <1>7, <1>8 DEF done, active
  <1>9. CASE /\ AnalystTeam(d, c) = SetStatus(marked, {"BullResearcher"}, "in_progress")
             /\ d.status["BullResearcher"] = "pending"
    <2>1. /\ Shape(AnalystTeam(d, c)) /\ AnalystTeam(d, c).sections = se
          /\ \A a \in Agents : AnalystTeam(d, c).status[a] =
                                 IF a = "BullResearcher" THEN "in_progress" ELSE st[a]
      BY <1>3, <1>7, <1>9, SetStatusFacts
    <2>2. \A a \in Selected : a # "BullResearcher"
      BY <1>5
    <2>3. QED
      BY <1>2, <1>5, <1>6, <1>9, <2>1, <2>2 DEF done, active
  <1>10. QED
    BY <1>4, <1>8, <1>9

(* The researchers' part: a judgement completes the team and starts the trader. *)
ResearchShown(d, c, e) ==
    /\ Shape(e)
    /\ \A a \in Selected :
         e.status[a] = d.status[a] /\ e.sections[a] = d.sections[a]
    /\ c.debate.judged =>
         /\ \A a \in Team : e.status[a] = "completed"
         /\ e.status["Trader"] = "in_progress"
    /\ ~c.debate.judged =>
         /\ \A a \in Team : e.status[a] \in {d.status[a], "in_progress"}
         /\ e.status["Trader"] = d.status["Trader"]
    /\ \A a \in RiskAnalysts \cup {"PortfolioManager"} : e.status[a] = d.status[a]

LEMMA ResearchPart ==
    ASSUME setup \in Setups, NEW d, Shape(d), NEW c
    PROVE  ResearchShown(d, c, ResearchTeam(d, c))
  <1>. DEFINE written == {a \in Team : CASE a = "BullResearcher" -> c.debate.bull > 0
                                         [] a = "BearResearcher" -> c.debate.bear > 0
                                         [] OTHER -> c.debate.judged}
              argued == WrittenOver(d, "investment",
                          <<"BullResearcher", "BearResearcher", "ResearchManager">>, written)
              done == SetStatus(argued, Team, "completed")
  <1>1. ResearchTeam(d, c) =
          IF c.debate.judged THEN SetStatus(done, {"Trader"}, "in_progress")
          ELSE IF written # {} THEN SetStatus(argued, Team, "in_progress") ELSE argued
    BY DEF ResearchTeam
  <1>. HIDE DEF written
  <1>2. /\ Shape(argued) /\ argued.status = d.status
        /\ \A a \in Selected : argued.sections[a] = d.sections[a]
    BY WrittenOverFacts DEF Plans
  <1>. HIDE DEF argued
  <1>3. /\ Shape(done) /\ done.sections = argued.sections
        /\ \A a \in Agents : done.status[a] = IF a \in Team THEN "completed" ELSE argued.status[a]
    BY <1>2, SetStatusFacts
  <1>. HIDE DEF done
  <1>4. /\ Selected \subseteq Agents /\ Team \subseteq Agents /\ RiskAnalysts \subseteq Agents
        /\ "Trader" \in Agents \ Team /\ "PortfolioManager" \in Agents \ Team
        /\ Selected \cap Team = {} /\ "Trader" \notin Selected
        /\ RiskAnalysts \cap Team = {} /\ "Trader" \notin RiskAnalysts
    BY NamesDiffer DEF Agents, FixedAgents, Team, Researchers, RiskAnalysts
  <1>5. CASE c.debate.judged
    <2>1. ResearchTeam(d, c) = SetStatus(done, {"Trader"}, "in_progress")
      BY <1>1, <1>5
    <2>2. /\ Shape(ResearchTeam(d, c)) /\ ResearchTeam(d, c).sections = done.sections
          /\ \A a \in Agents : ResearchTeam(d, c).status[a] =
                                 IF a = "Trader" THEN "in_progress" ELSE done.status[a]
      BY <1>3, <2>1, SetStatusFacts
    <2>3. QED
      BY <1>2, <1>3, <1>4, <1>5, <2>2 DEF ResearchShown
  <1>6. CASE ~c.debate.judged /\ written # {}
    <2>1. ResearchTeam(d, c) = SetStatus(argued, Team, "in_progress")
      BY <1>1, <1>6
    <2>2. /\ Shape(ResearchTeam(d, c)) /\ ResearchTeam(d, c).sections = argued.sections
          /\ \A a \in Agents : ResearchTeam(d, c).status[a] =
                                 IF a \in Team THEN "in_progress" ELSE argued.status[a]
      BY <1>2, <2>1, SetStatusFacts
    <2>3. QED
      BY <1>2, <1>4, <1>6, <2>2 DEF ResearchShown
  <1>7. CASE ~c.debate.judged /\ written = {}
    BY <1>1, <1>2, <1>4, <1>7 DEF ResearchShown
  <1>8. QED
    BY <1>5, <1>6, <1>7

(* The trader's part. *)
TraderShown(d, c, e) ==
    /\ Shape(e)
    /\ \A a \in Selected :
         e.status[a] = d.status[a] /\ e.sections[a] = d.sections[a]
    /\ \A a \in Team \cup {"PortfolioManager"} : e.status[a] = d.status[a]
    /\ "trader" \in c.plans => e.status["Trader"] = "completed"
    /\ "trader" \notin c.plans => e.status["Trader"] = d.status["Trader"]
    /\ \A a \in RiskAnalysts : e.status[a] \in {d.status[a], "in_progress"}

LEMMA TraderPart ==
    ASSUME setup \in Setups, NEW d, Shape(d), NEW c
    PROVE  TraderShown(d, c, TradingTeam(d, c))
  <1>. DEFINE written == [d EXCEPT !.sections["trader"] = "Trader"]
              done == SetStatus(written, {"Trader"}, "completed")
  <1>1. TradingTeam(d, c) =
          IF "trader" \notin c.plans THEN d
          ELSE IF d.status["Trader"] = "completed" THEN written
          ELSE SetStatus(done, {"AggressiveAnalyst"}, "in_progress")
    BY DEF TradingTeam
  <1>2. /\ Shape(written) /\ written.status = d.status
        /\ \A a \in Selected : written.sections[a] = d.sections[a]
    BY WrittenFacts DEF Plans
  <1>. HIDE DEF written
  <1>3. /\ Shape(done) /\ done.sections = written.sections
        /\ \A a \in Agents : done.status[a] = IF a = "Trader" THEN "completed"
                                              ELSE written.status[a]
    BY <1>2, SetStatusFacts
  <1>. HIDE DEF done
  <1>4. /\ Selected \subseteq Agents /\ Team \subseteq Agents /\ RiskAnalysts \subseteq Agents
        /\ "Trader" \in Agents \ (Team \cup RiskAnalysts)
        /\ "PortfolioManager" \in Agents
        /\ "Trader" \notin Selected /\ "AggressiveAnalyst" \notin Selected
        /\ "AggressiveAnalyst" \notin Team
    BY NamesDiffer DEF Agents, FixedAgents, Team, Researchers, RiskAnalysts
  <1>5. CASE "trader" \notin c.plans
    BY <1>1, <1>5 DEF TraderShown
  <1>6. CASE "trader" \in c.plans /\ d.status["Trader"] = "completed"
    BY <1>1, <1>2, <1>6 DEF TraderShown
  <1>7. CASE "trader" \in c.plans /\ d.status["Trader"] # "completed"
    <2>1. TradingTeam(d, c) = SetStatus(done, {"AggressiveAnalyst"}, "in_progress")
      BY <1>1, <1>7
    <2>2. /\ Shape(TradingTeam(d, c)) /\ TradingTeam(d, c).sections = done.sections
          /\ \A a \in Agents : TradingTeam(d, c).status[a] =
               IF a = "AggressiveAnalyst" THEN "in_progress" ELSE done.status[a]
      BY <1>3, <2>1, SetStatusFacts
    <2>3. QED
      BY <1>2, <1>3, <1>4, <1>7, <2>2 DEF TraderShown
  <1>8. QED
    BY <1>5, <1>6, <1>7

(* The risk analysts' part. *)
LEMMA RiskPart ==
    ASSUME setup \in Setups, NEW d, Shape(d), NEW c
    PROVE  LET e == RiskAnalystsShown(d, c)
           IN  /\ Shape(e)
               /\ \A a \in Selected :
                    e.status[a] = d.status[a] /\ e.sections[a] = d.sections[a]
               /\ \A a \in Team \cup {"Trader", "PortfolioManager"} : e.status[a] = d.status[a]
               /\ \A a \in RiskAnalysts : e.status[a] \in {d.status[a], "in_progress"}
  <1>. DEFINE spoken == {name \in RiskAnalysts : c.risk.spoken[name] > 0}
              shown == WrittenOver(d, "final", RiskOrder, spoken)
              active == {name \in spoken : d.status[name] # "completed"}
  <1>1. RiskAnalystsShown(d, c) = SetStatus(shown, active, "in_progress")
    BY DEF RiskAnalystsShown
  <1>2. active \subseteq RiskAnalysts
    OBVIOUS
  <1>. HIDE DEF spoken, active
  <1>3. /\ Shape(shown) /\ shown.status = d.status
        /\ \A a \in Selected : shown.sections[a] = d.sections[a]
    BY WrittenOverFacts DEF Plans
  <1>. HIDE DEF shown
  <1>4. /\ Shape(RiskAnalystsShown(d, c)) /\ RiskAnalystsShown(d, c).sections = shown.sections
        /\ \A a \in Agents : RiskAnalystsShown(d, c).status[a] =
                               IF a \in active THEN "in_progress" ELSE shown.status[a]
    BY <1>1, <1>3, SetStatusFacts
  <1>5. /\ Selected \subseteq Agents /\ Team \subseteq Agents /\ RiskAnalysts \subseteq Agents
        /\ "Trader" \in Agents /\ "PortfolioManager" \in Agents
        /\ Selected \cap RiskAnalysts = {} /\ Team \cap RiskAnalysts = {}
        /\ "Trader" \notin RiskAnalysts /\ "PortfolioManager" \notin RiskAnalysts
    BY NamesDiffer DEF Agents, FixedAgents, Team, Researchers, RiskAnalysts
  <1>6. QED
    BY <1>2, <1>3, <1>4, <1>5

(* The decision's part. *)
DeciderShown(d, c, e) ==
    /\ Shape(e)
    /\ \A a \in Selected :
         e.status[a] = d.status[a] /\ e.sections[a] = d.sections[a]
    /\ \A a \in Team \cup {"Trader"} : e.status[a] = d.status[a]
    /\ ~c.risk.judged =>
         \A a \in RiskAnalysts \cup {"PortfolioManager"} : e.status[a] = d.status[a]

LEMMA DecisionPart ==
    ASSUME setup \in Setups, NEW d, Shape(d), NEW c
    PROVE  DeciderShown(d, c, DecisionShown(d, c))
  <1>. DEFINE written == [d EXCEPT !.sections["final"] = "PortfolioManager"]
              deciders == RiskAnalysts \cup {"PortfolioManager"}
  <1>1. DecisionShown(d, c) =
          IF ~c.risk.judged \/ d.status["PortfolioManager"] = "completed" THEN d
          ELSE SetStatus(written, deciders, "completed")
    BY DEF DecisionShown
  <1>2. /\ Shape(written) /\ written.status = d.status
        /\ \A a \in Selected : written.sections[a] = d.sections[a]
    BY WrittenFacts DEF Plans
  <1>. HIDE DEF written
  <1>3. /\ Selected \subseteq Agents /\ Team \subseteq Agents /\ "Trader" \in Agents
        /\ Selected \cap deciders = {} /\ Team \cap deciders = {} /\ "Trader" \notin deciders
    BY NamesDiffer DEF Agents, FixedAgents, Team, Researchers, RiskAnalysts
  <1>. HIDE DEF deciders
  <1>4. CASE ~c.risk.judged \/ d.status["PortfolioManager"] = "completed"
    BY <1>1, <1>4 DEF DeciderShown
  <1>5. CASE c.risk.judged /\ d.status["PortfolioManager"] # "completed"
    <2>1. DecisionShown(d, c) = SetStatus(written, deciders, "completed")
      BY <1>1, <1>5
    <2>2. /\ Shape(DecisionShown(d, c)) /\ DecisionShown(d, c).sections = written.sections
          /\ \A a \in Agents : DecisionShown(d, c).status[a] =
                                 IF a \in deciders THEN "completed" ELSE written.status[a]
      BY <1>2, <2>1, SetStatusFacts
    <2>3. QED
      BY <1>2, <1>3, <1>5, <2>2 DEF DeciderShown
  <1>6. QED
    BY <1>4, <1>5

(* Reports are written by the analysts in their turns, and what is written stays. *)
ReportInv ==
    /\ reports \subseteq Selected
    /\ node \in {"SnapshotBuilder", "Analyst", "tools"} =>
         \A i \in turn..Len(setup.analysts) : setup.analysts[i] \notin reports
    /\ node = "MsgClear" =>
         \A i \in (turn + 1)..Len(setup.analysts) : setup.analysts[i] \notin reports

(* What is judged and written says how far the run has come. *)
StageInv ==
    /\ node \in {"SnapshotBuilder", "RiskGate"} => setup.crypto
    /\ debate.judged => node \notin {"SnapshotBuilder"} \cup AnalystNodes \cup Team
    /\ "trader" \in plans =>
         node \notin {"SnapshotBuilder"} \cup AnalystNodes \cup Team \cup {"Trader"}
    /\ risk.judged => node \in {"RiskGate"} \cup Ends

LEMMA StepReportInv ==
    ASSUME TypeOK, ReportInv, [Next]_vars
    PROVE  ReportInv' /\ reports \subseteq reports'
  <1>1. /\ turn \in 1..Len(setup.analysts) /\ Len(setup.analysts) \in Nat /\ Analyst \in Selected
        /\ \A i, j \in 1..Len(setup.analysts) : setup.analysts[i] = setup.analysts[j] => i = j
    BY SetupFacts, SetupAssumption DEF TypeOK, Analyst, Selected
  <1>2. CASE BuildSnapshot
    BY <1>2 DEF BuildSnapshot, Run, ReportInv, Selected
  <1>3. CASE AnalystCallsTools
    <2>1. Analyst \notin reports
      BY <1>1, <1>3 DEF AnalystCallsTools, Run, ReportInv, Analyst
    <2>2. reports' = reports /\ node' = "tools" /\ node = "Analyst" /\ UNCHANGED <<setup, turn>>
      BY <1>3, <2>1 DEF AnalystCallsTools, Run, AfterAnalyst
    <2>3. QED
      BY <2>2 DEF ReportInv, Selected
  <1>4. CASE AnalystReports
    <2>1. Analyst \notin reports
      BY <1>1, <1>4 DEF AnalystReports, Run, ReportInv, Analyst
    <2>2. /\ reports' \in {reports \cup {Analyst}, reports} /\ node' = "MsgClear"
          /\ node = "Analyst" /\ UNCHANGED <<setup, turn>>
      BY <1>4, <2>1 DEF AnalystReports, Run, AfterAnalyst
    <2>3. \A i \in (turn + 1)..Len(setup.analysts) :
            setup.analysts[i] \notin reports /\ setup.analysts[i] # Analyst
      BY <1>1, <2>2 DEF ReportInv, Analyst
    <2>4. QED
      BY <1>1, <2>2, <2>3 DEF ReportInv, Selected
  <1>5. CASE CallTools
    BY <1>5 DEF CallTools, Run, ReportInv, Selected
  <1>6. CASE ClearMessages
    BY <1>1, <1>6 DEF ClearMessages, Run, ReportInv, Selected
  <1>7. CASE Argue \/ JudgeResearch \/ Trade \/ Decide \/ Gate
             \/ \E name \in RiskAnalysts : DebateRisk(name)
    BY <1>7 DEF Argue, JudgeResearch, Trade, Decide, Gate, DebateRisk, Run, ReportInv,
       NextInDebate, NextInRisk, Selected
  <1>8. CASE Fail \/ OutOfSteps
    BY <1>8 DEF Fail, OutOfSteps, ReportInv, Selected
  <1>9. CASE UNCHANGED vars
    BY <1>9 DEF vars, ReportInv, Selected
  <1>10. QED
    BY <1>2, <1>3, <1>4, <1>5, <1>6, <1>7, <1>8, <1>9 DEF Next, Step

LEMMA StepStageInv ==
    ASSUME TypeOK, StageInv, [Next]_vars
    PROVE  /\ StageInv'
           /\ debate.judged => debate'.judged
           /\ "trader" \in plans => "trader" \in plans'
  <1>. USE DEF AnalystNodes, Team, Researchers, RiskAnalysts, Ends
  <1>1. CASE BuildSnapshot \/ AnalystCallsTools \/ AnalystReports \/ CallTools \/ ClearMessages
    BY <1>1 DEF BuildSnapshot, AnalystCallsTools, AnalystReports, CallTools, ClearMessages, Run,
       AfterAnalyst, StageInv
  <1>2. CASE Argue
    BY <1>2 DEF Argue, Run, BullArgues, BearArgues, NextInDebate, StageInv
  <1>3. CASE JudgeResearch
    BY <1>3 DEF JudgeResearch, Run, Judged, WithPlan, StageInv
  <1>4. CASE Trade
    BY <1>4 DEF Trade, Run, WithPlan, StageInv
  <1>5. CASE \E name \in RiskAnalysts : DebateRisk(name)
    BY <1>5 DEF DebateRisk, Run, Speaks, NextInRisk, StageInv
  <1>6. CASE Decide \/ Gate
    BY <1>6 DEF Decide, Gate, Run, Decided, WithPlan, StageInv
  <1>7. CASE Fail \/ OutOfSteps
    BY <1>7 DEF Fail, OutOfSteps, StageInv
  <1>8. CASE UNCHANGED vars
    BY <1>8 DEF vars, StageInv
  <1>9. QED
    BY <1>1, <1>2, <1>3, <1>4, <1>5, <1>6, <1>7, <1>8 DEF Next, Step

(* A node runs only in a run that has not ended, and decides on no plan but the last. *)
LEMMA StepFacts ==
    ASSUME TypeOK, StageInv, Step
    PROVE  /\ node \notin Ends /\ setup' = setup
           /\ risk'.judged /\ ~setup.crypto => node' = "END"
  <1>. USE DEF Researchers, RiskAnalysts, Ends
  <1>1. CASE BuildSnapshot \/ AnalystCallsTools \/ AnalystReports \/ CallTools \/ ClearMessages
             \/ Argue \/ JudgeResearch \/ Trade
    BY <1>1 DEF BuildSnapshot, AnalystCallsTools, AnalystReports, CallTools, ClearMessages, Argue,
       JudgeResearch, Trade, Run, StageInv
  <1>2. CASE \E name \in RiskAnalysts : DebateRisk(name)
    BY <1>2 DEF DebateRisk, Run, Speaks
  <1>3. CASE Decide \/ Gate
    BY <1>3 DEF Decide, Gate, Run
  <1>4. QED
    BY <1>1, <1>2, <1>3 DEF Step

(* The parts of the loop one after the other. *)
LoopShown(d, c, e) ==
    /\ Shape(e)
    /\ \A a \in Selected :
         /\ e.status[a] = IF a \in Done(d, c) THEN "completed"
                          ELSE IF a \in FirstWithout(Done(d, c)) THEN "in_progress"
                          ELSE "pending"
         /\ e.sections[a] = IF a \in c.reports THEN a ELSE d.sections[a]
    /\ \A a \in Team :
         /\ c.debate.judged => e.status[a] = "completed"
         /\ ~c.debate.judged => e.status[a] \in {d.status[a], "in_progress"}
    /\ "trader" \in c.plans => e.status["Trader"] = "completed"
    /\ "trader" \notin c.plans => e.status["Trader"] \in {d.status["Trader"], "in_progress"}
    /\ ~c.risk.judged =>
         \A a \in RiskAnalysts \cup {"PortfolioManager"} :
           e.status[a] \in {d.status[a], "in_progress"}

LEMMA LoopParts ==
    ASSUME setup \in Setups, NEW d, Shape(d), NEW c, c.reports \subseteq Selected,
           NEW analysts, analysts = AnalystTeam(d, c),
           NEW research, research = ResearchTeam(analysts, c),
           NEW trading, trading = TradingTeam(research, c),
           NEW risks, risks = RiskAnalystsShown(trading, c),
           NEW e, e = DecisionShown(risks, c)
    PROVE  LoopShown(d, c, e)
  <1>1. /\ Shape(analysts)
        /\ \A a \in Selected :
             /\ analysts.status[a] = IF a \in Done(d, c) THEN "completed"
                                     ELSE IF a \in FirstWithout(Done(d, c)) THEN "in_progress"
                                     ELSE "pending"
             /\ analysts.sections[a] = IF a \in c.reports THEN a ELSE d.sections[a]
        /\ \A a \in FixedAgents :
             analysts.status[a] = d.status[a] \/ analysts.status[a] = "in_progress"
        /\ \A a \in FixedAgents \ {"BullResearcher"} : analysts.status[a] = d.status[a]
    BY AnalystPart
  <1>2. ResearchShown(analysts, c, research)
    BY <1>1, ResearchPart, Zenon
  <1>3. TraderShown(research, c, trading)
    BY <1>2, TraderPart, Zenon DEF ResearchShown
  <1>4. /\ Shape(risks)
        /\ \A a \in Selected : risks.status[a] = trading.status[a]
                               /\ risks.sections[a] = trading.sections[a]
        /\ \A a \in Team \cup {"Trader", "PortfolioManager"} :
             risks.status[a] = trading.status[a]
        /\ \A a \in RiskAnalysts : risks.status[a] \in {trading.status[a], "in_progress"}
    <2>1. Shape(trading)
      BY <1>3, Zenon DEF TraderShown
    <2>2. QED
      BY <2>1, RiskPart
  <1>5. DeciderShown(risks, c, e)
    BY <1>4, DecisionPart, Zenon
  <1>6. /\ Team \subseteq FixedAgents /\ "Trader" \in FixedAgents \ {"BullResearcher"}
        /\ RiskAnalysts \subseteq FixedAgents \ {"BullResearcher"}
        /\ "PortfolioManager" \in FixedAgents \ {"BullResearcher"}
    BY DEF FixedAgents, Team, Researchers, RiskAnalysts
  <1>7. \A a \in Selected :
          /\ e.status[a] = IF a \in Done(d, c) THEN "completed"
                           ELSE IF a \in FirstWithout(Done(d, c)) THEN "in_progress"
                           ELSE "pending"
          /\ e.sections[a] = IF a \in c.reports THEN a ELSE d.sections[a]
    BY <1>1, <1>2, <1>3, <1>4, <1>5 DEF ResearchShown, TraderShown, DeciderShown
  <1>8. \A a \in Team :
          /\ c.debate.judged => e.status[a] = "completed"
          /\ ~c.debate.judged => e.status[a] \in {d.status[a], "in_progress"}
    BY <1>1, <1>2, <1>3, <1>4, <1>5, <1>6 DEF ResearchShown, TraderShown, DeciderShown
  <1>9. /\ "trader" \in c.plans => e.status["Trader"] = "completed"
        /\ "trader" \notin c.plans => e.status["Trader"] \in {d.status["Trader"], "in_progress"}
    BY <1>1, <1>2, <1>3, <1>4, <1>5, <1>6 DEF ResearchShown, TraderShown, DeciderShown
  <1>10. ~c.risk.judged =>
           \A a \in RiskAnalysts \cup {"PortfolioManager"} :
             e.status[a] \in {d.status[a], "in_progress"}
    BY <1>1, <1>2, <1>3, <1>4, <1>5, <1>6 DEF ResearchShown, TraderShown, DeciderShown
  <1>11. QED
    BY <1>5, <1>7, <1>8, <1>9, <1>10 DEF DeciderShown, LoopShown

(* What the display says of a run in progress, agent by agent. *)
Shown ==
    /\ \A a \in Selected : sections[a] # "none" <=> a \in reports
    /\ \A a \in Selected : status[a] = IF a \in reports THEN "completed"
                                       ELSE IF a \in FirstWithout(reports) THEN "in_progress"
                                       ELSE "pending"
    /\ times.done = reports
    /\ times.started \ times.done = FirstWithout(reports)
    /\ \A a \in Team : status[a] = "completed" => debate.judged
    /\ status["Trader"] = "completed" => "trader" \in plans
    /\ \A a \in RiskAnalysts \cup {"PortfolioManager"} : status[a] = "completed" => node = "END"

DisplayInv ==
    /\ closed => node = "END"
    /\ ~setup.crypto => Shape([status |-> status, sections |-> sections])
    /\ ~setup.crypto /\ ~closed => Shown

(* The display at a chunk: each part of the loop looks at what the one before it left. *)
LEMMA ChunkShown ==
    ASSUME TypeOK, ReportInv, StageInv, DisplayInv, ~closed, ~setup.crypto, Step,
           NEW chunk, chunk.reports = reports', chunk.debate = debate',
           chunk.plans = plans', chunk.risk = risk',
           NEW analysts, analysts = AnalystTeam([status |-> status, sections |-> sections], chunk),
           NEW research, research = ResearchTeam(analysts, chunk),
           NEW trading, trading = TradingTeam(research, chunk),
           NEW risks, risks = RiskAnalystsShown(trading, chunk),
           NEW shown, shown = DecisionShown(risks, chunk),
           status' = shown.status, sections' = shown.sections,
           times' = Tracked(times, chunk), closed' = closed
    PROVE  /\ DisplayInv'
           /\ \A a \in Agents : status[a] = "completed" => status'[a] = "completed"
  <1>. DEFINE d == [status |-> status, sections |-> sections]
              deciders == RiskAnalysts \cup {"PortfolioManager"}
  <1>1. /\ setup \in Setups /\ setup' = setup /\ node \notin Ends /\ Shape(d) /\ Shown
        /\ d.status = status /\ d.sections = sections /\ "none" \notin Selected
    BY StepFacts, NamesDiffer DEF DisplayInv, TypeOK
  <1>2. /\ reports' \subseteq Selected /\ reports \subseteq reports'
        /\ debate.judged => debate'.judged
        /\ "trader" \in plans => "trader" \in plans'
        /\ risk'.judged => node' = "END"
    <2>1. [Next]_vars
      BY DEF Next
    <2>2. ReportInv' /\ reports \subseteq reports'
      BY <2>1, StepReportInv
    <2>3. QED
      BY <1>1, <2>1, <2>2, StepStageInv, StepFacts DEF ReportInv, Selected
  <1>3. Done(d, chunk) = reports'
    BY <1>1, <1>2 DEF Done, Shown
  <1>4. /\ Shape(shown)
        /\ \A a \in Selected :
             /\ shown.status[a] = IF a \in reports' THEN "completed"
                                  ELSE IF a \in FirstWithout(reports') THEN "in_progress"
                                  ELSE "pending"
             /\ shown.sections[a] = IF a \in reports' THEN a ELSE sections[a]
        /\ \A a \in Team :
             /\ chunk.debate.judged => shown.status[a] = "completed"
             /\ ~chunk.debate.judged => shown.status[a] \in {status[a], "in_progress"}
        /\ "trader" \in chunk.plans => shown.status["Trader"] = "completed"
        /\ "trader" \notin chunk.plans =>
             shown.status["Trader"] \in {status["Trader"], "in_progress"}
        /\ ~chunk.risk.judged =>
             \A a \in RiskAnalysts \cup {"PortfolioManager"} :
               shown.status[a] \in {status[a], "in_progress"}
    <2>1. chunk.reports \subseteq Selected
      BY <1>2
    <2>2. setup \in Setups /\ Shape(d) /\ d.status = status /\ d.sections = sections
      BY <1>1
    <2>3. analysts = AnalystTeam(d, chunk)
      OBVIOUS
    <2>. HIDE DEF d
    <2>4. LoopShown(d, chunk, shown)
      BY <2>1, <2>2, <2>3, LoopParts, Zenon
    <2>5. QED
      BY <1>3, <2>2, <2>4 DEF LoopShown
  <1>9. Agents = Selected \cup Team \cup {"Trader"} \cup deciders
    BY DEF FixedAgents, Team, Researchers, RiskAnalysts, Agents
  <1>10. \A a \in Selected :
           /\ status'[a] = IF a \in reports' THEN "completed"
                           ELSE IF a \in FirstWithout(reports') THEN "in_progress"
                           ELSE "pending"
           /\ sections'[a] = IF a \in reports' THEN a ELSE sections[a]
    BY <1>4
  <1>11. \A a \in Team :
           /\ debate'.judged => status'[a] = "completed"
           /\ ~debate'.judged => status'[a] \in {status[a], "in_progress"}
    BY <1>4
  <1>12. /\ "trader" \in plans' => status'["Trader"] = "completed"
         /\ "trader" \notin plans' => status'["Trader"] \in {status["Trader"], "in_progress"}
    BY <1>4
  <1>13. ~risk'.judged => \A a \in deciders : status'[a] \in {status[a], "in_progress"}
    BY <1>4
  <1>14. /\ times'.done = reports'
         /\ times'.started \ times'.done = FirstWithout(reports')
    <2>1. /\ times'.done = times.done \cup (reports' \cap Selected)
          /\ times'.started = times.started \cup (reports' \cap Selected) \cup FirstWithout(reports')
      BY DEF Tracked
    <2>2. times.done = reports /\ times.started \ times.done = FirstWithout(reports)
      BY <1>1 DEF Shown
    <2>3. FirstWithout(reports') \cap reports' = {}
      BY DEF FirstWithout
    <2>4. FirstWithout(reports) \ reports' \subseteq FirstWithout(reports')
      BY <1>2 DEF FirstWithout
    <2>5. times'.done = reports'
      BY <1>2, <2>1, <2>2
    <2>6. QED
      BY <1>2, <2>1, <2>2, <2>3, <2>4, <2>5
  <1>. HIDE DEF deciders
  <1>15. Shown'
    <2>1. Selected' = Selected /\ FirstWithout(reports)' = FirstWithout(reports')
      BY <1>1 DEF Selected, FirstWithout
    <2>2. \A a \in Selected : sections'[a] # "none" <=> a \in reports'
      BY <1>1, <1>2, <1>10 DEF Shown
    <2>3. \A a \in Team : status'[a] = "completed" => debate'.judged
      BY <1>1, <1>2, <1>11 DEF Shown
    <2>4. status'["Trader"] = "completed" => "trader" \in plans'
      BY <1>1, <1>2, <1>12 DEF Shown
    <2>5. \A a \in deciders : status'[a] = "completed" => node' = "END"
      BY <1>1, <1>2, <1>13 DEF Shown, Ends, deciders
    <2>6. QED
      BY <1>10, <1>14, <2>1, <2>2, <2>3, <2>4, <2>5 DEF Shown, deciders
  <1>16. DisplayInv'
    <2>1. shown = [status |-> status', sections |-> sections']
      BY <1>4 DEF Shape
    <2>2. Shape([status |-> status, sections |-> sections])'
      BY <1>1, <1>4, <2>1 DEF Shape, Agents, Selected
    <2>3. QED
      BY <1>1, <1>15, <2>2 DEF DisplayInv
  <1>17. ASSUME NEW a \in Agents, status[a] = "completed" PROVE status'[a] = "completed"
    <2>1. CASE a \in Selected
      <3>1. a \in reports
        BY <1>1, <1>17, <2>1 DEF Shown
      <3>2. QED
        BY <1>2, <1>10, <2>1, <3>1
    <2>2. CASE a \in Team
      BY <1>1, <1>2, <1>11, <1>17, <2>2 DEF Shown
    <2>3. CASE a = "Trader"
      BY <1>1, <1>2, <1>12, <1>17, <2>3 DEF Shown
    <2>4. CASE a \in deciders
      BY <1>1, <1>17, <2>4 DEF Shown, Ends, deciders
    <2>5. QED
      BY <1>9, <2>1, <2>2, <2>3, <2>4
  <1>18. QED
    BY <1>16, <1>17

(* The steps of a run with a display are steps of the run, or leave it alone. *)
LEMMA DisplayWatches == [DisplayNext]_<<vars, display>> => [Next]_vars
  BY DEF DisplayNext, ShowStep, StopStep, Close, Next, display

LEMMA InitDisplayInv == DisplayInit => TypeOK /\ ReportInv /\ StageInv /\ DisplayInv
  <1>. SUFFICES ASSUME DisplayInit PROVE TypeOK /\ ReportInv /\ StageInv /\ DisplayInv
    OBVIOUS
  <1>1. TypeOK /\ setup \in Setups /\ Init
    BY InitTypeOK DEF DisplayInit, Init
  <1>2. ReportInv /\ StageInv
    BY <1>1 DEF Init, ReportInv, StageInv, AnalystNodes, Team, Researchers
  <1>3. Len(setup.analysts) \in Nat \ {0} /\ reports = {} /\ closed = FALSE
    BY <1>1, SetupFacts DEF DisplayInit, Init
  <1>4. FirstWithout({}) = {setup.analysts[1]} /\ setup.analysts[1] \in Selected
    BY <1>3 DEF FirstWithout, Selected
  <1>5. /\ status = [a \in Agents |-> IF a = setup.analysts[1] THEN "in_progress" ELSE "pending"]
        /\ sections = [s \in Selected \cup Plans |-> "none"]
        /\ times = [started |-> {setup.analysts[1]}, done |-> {}]
    BY DEF DisplayInit
  <1>6. Selected \subseteq Agents /\ Team \cup {"Trader"} \subseteq Agents
        /\ RiskAnalysts \cup {"PortfolioManager"} \subseteq Agents
    BY DEF Agents, FixedAgents
  <1>7. \A a \in Agents : status[a] # "completed"
    BY <1>5
  <1>8. Shown
    BY <1>3, <1>4, <1>5, <1>6, <1>7 DEF Shown
  <1>9. Shape([status |-> status, sections |-> sections])
    BY <1>5 DEF Shape
  <1>10. QED
    BY <1>1, <1>2, <1>3, <1>8, <1>9 DEF DisplayInv

LEMMA StepDisplayInv ==
    ASSUME TypeOK, ReportInv, StageInv, DisplayInv, [DisplayNext]_<<vars, display>>
    PROVE  /\ TypeOK' /\ ReportInv' /\ StageInv' /\ DisplayInv'
           /\ ~setup.crypto =>
                \A a \in Agents : status[a] = "completed" => status'[a] = "completed"
           /\ setup.crypto => UNCHANGED display
  <1>1. TypeOK' /\ ReportInv' /\ StageInv'
    BY DisplayWatches, StepTypeOK, StepReportInv, StepStageInv
  <1>2. CASE ShowStep /\ setup.crypto
    <2>1. node \notin Ends /\ setup' = setup /\ UNCHANGED display
      BY <1>2, StepFacts DEF ShowStep
    <2>2. QED
      BY <1>1, <1>2, <2>1 DEF DisplayInv, Ends, display
  <1>3. CASE ShowStep /\ ~setup.crypto
    <2>1. node \notin Ends /\ Step /\ closed' = closed
      BY <1>3, StepFacts DEF ShowStep
    <2>2. ~closed
      BY <2>1 DEF DisplayInv, Ends
    <2>3. PICK chunk \in {[reports |-> reports', debate |-> debate', plans |-> plans',
                           risk |-> risk']} :
            \E analysts \in {AnalystTeam([status |-> status, sections |-> sections], chunk)} :
            \E research \in {ResearchTeam(analysts, chunk)} :
            \E trading \in {TradingTeam(research, chunk)} :
            \E risks \in {RiskAnalystsShown(trading, chunk)} :
            \E shown \in {DecisionShown(risks, chunk)} :
              /\ status' = shown.status
              /\ sections' = shown.sections
              /\ times' = Tracked(times, chunk)
      BY <1>3 DEF ShowStep
    <2>4. chunk.reports = reports' /\ chunk.debate = debate' /\ chunk.plans = plans'
          /\ chunk.risk = risk'
      BY <2>3
    <2>5. PICK analysts, research, trading, risks, shown :
            /\ analysts = AnalystTeam([status |-> status, sections |-> sections], chunk)
            /\ research = ResearchTeam(analysts, chunk)
            /\ trading = TradingTeam(research, chunk)
            /\ risks = RiskAnalystsShown(trading, chunk)
            /\ shown = DecisionShown(risks, chunk)
            /\ status' = shown.status
            /\ sections' = shown.sections
            /\ times' = Tracked(times, chunk)
      BY <2>3
    <2>6. /\ DisplayInv'
          /\ \A a \in Agents : status[a] = "completed" => status'[a] = "completed"
      BY <1>3, <2>1, <2>2, <2>4, <2>5, ChunkShown
    <2>7. QED
      BY <1>1, <1>3, <2>6
  <1>4. CASE StopStep
    <2>1. /\ node \notin Ends /\ UNCHANGED display
          /\ UNCHANGED <<setup, turn, reports, debate, plans, risk>>
      BY <1>4 DEF StopStep, Fail, OutOfSteps
    <2>2. Selected' = Selected /\ Agents' = Agents
          /\ FirstWithout(reports)' = FirstWithout(reports)
      BY <2>1 DEF Selected, Agents, FirstWithout
    <2>3. ~closed /\ closed' = closed /\ status' = status /\ sections' = sections
          /\ times' = times
      BY <2>1 DEF DisplayInv, Ends, display
    <2>4. ~setup.crypto => Shown'
      BY <2>1, <2>2, <2>3 DEF DisplayInv, Shown, Ends
    <2>5. ~setup.crypto => Shape([status |-> status, sections |-> sections])'
      BY <2>2, <2>3 DEF DisplayInv, Shape
    <2>6. QED
      BY <1>1, <2>1, <2>3, <2>4, <2>5 DEF DisplayInv
  <1>5. CASE Close
    <2>1. /\ node = "END" /\ ~setup.crypto /\ closed' = TRUE /\ UNCHANGED vars
          /\ status' = [a \in DOMAIN status |-> "completed"]
          /\ sections' = [s \in DOMAIN sections |-> Written(s)]
      BY <1>5 DEF Close
    <2>2. DOMAIN status = Agents /\ DOMAIN sections = Selected \cup Plans
      <3>1. \A f, S : f = [x \in S |-> f[x]] => DOMAIN f = S
        OBVIOUS
      <3>2. status = [a \in Agents |-> status[a]]
            /\ sections = [s \in Selected \cup Plans |-> sections[s]]
        BY <2>1 DEF DisplayInv, Shape
      <3>3. QED
        BY <3>1, <3>2, Zenon
    <2>3. Selected' = Selected /\ Agents' = Agents
      BY <2>1 DEF Selected, Agents, vars
    <2>4. /\ status' = [a \in Agents |-> "completed"]
          /\ sections' = [s \in Selected \cup Plans |-> Written(s)]
      BY <2>1, <2>2
    <2>5. Shape([status |-> status, sections |-> sections])'
      BY <2>3, <2>4 DEF Shape
    <2>6. QED
      BY <1>1, <2>1, <2>4, <2>5 DEF DisplayInv, vars
  <1>6. CASE UNCHANGED <<vars, display>>
    <2>1. Selected' = Selected /\ Agents' = Agents
          /\ FirstWithout(reports)' = FirstWithout(reports)
      BY <1>6 DEF vars, Selected, Agents, FirstWithout
    <2>2. UNCHANGED display /\ UNCHANGED vars
      BY <1>6
    <2>3. ~setup.crypto => Shape([status |-> status, sections |-> sections])'
      BY <2>1, <2>2 DEF DisplayInv, Shape, display, vars
    <2>4. ~setup.crypto /\ ~closed => Shown'
      BY <2>1, <2>2 DEF DisplayInv, Shown, display, vars
    <2>5. QED
      BY <1>1, <2>2, <2>3, <2>4 DEF DisplayInv, display, vars
  <1>7. QED
    BY <1>2, <1>3, <1>4, <1>5, <1>6 DEF DisplayNext

(* No agent is shown as completed while it has a turn to come: an analyst is completed when
   its report is written, the researchers when their debate is judged, the trader when its
   plan is written, the others when the run is over (run_analysis). *)
THEOREM CompletedAgentsAreDone == DisplaySpec => []CompletedIsDone
  <1>. DEFINE Inv == TypeOK /\ ReportInv /\ StageInv /\ DisplayInv
  <1>1. DisplayInit => Inv
    BY InitDisplayInv
  <1>2. Inv /\ [DisplayNext]_<<vars, display>> => Inv'
    BY StepDisplayInv
  <1>3. Inv => CompletedIsDone
    <2>. SUFFICES ASSUME Inv, ~setup.crypto, NEW a \in Agents, status[a] = "completed"
                  PROVE  a \notin ToCome
      BY DEF CompletedIsDone
    <2>. USE DEF AnalystNodes, Team, Researchers, RiskAnalysts, Ends
    <2>1. CASE node \in Ends
      BY <2>1 DEF ToCome
    <2>2. CASE node \notin Ends
      <3>1. Shown
        BY <2>2 DEF DisplayInv
      <3>2. setup \in Setups /\ turn \in 1..Len(setup.analysts)
            /\ Len(setup.analysts) \in Nat
        BY SetupFacts DEF TypeOK
      <3>3. CASE a \in Selected
        <4>1. a \in reports
          BY <3>1, <3>3 DEF Shown
        <4>2. \A i \in turn..Len(setup.analysts) :
                ~(/\ node \in AnalystNodes /\ setup.analysts[i] = a
                  /\ i = turn => node # "MsgClear")
          BY <3>2, <4>1 DEF ReportInv
        <4>3. a \notin Team \cup {"Trader", "PortfolioManager"} \cup RiskAnalysts
          BY <3>2, <3>3, NamesDiffer
        <4>4. QED
          BY <4>2, <4>3 DEF ToCome
      <3>4. CASE a \in Team
        <4>1. node \notin {"SnapshotBuilder"} \cup AnalystNodes \cup Team
          BY <3>1, <3>4 DEF Shown, StageInv
        <4>2. a \notin Selected
          BY <3>2, <3>4, NamesDiffer
        <4>3. QED
          BY <3>4, <4>1, <4>2 DEF ToCome
      <3>5. CASE a = "Trader"
        <4>1. node \notin {"SnapshotBuilder"} \cup AnalystNodes \cup Team \cup {"Trader"}
          BY <3>1, <3>5 DEF Shown, StageInv
        <4>2. a \notin Selected
          BY <3>2, <3>5, NamesDiffer
        <4>3. QED
          BY <3>5, <4>1, <4>2 DEF ToCome
      <3>6. CASE a \in RiskAnalysts \cup {"PortfolioManager"}
        BY <2>2, <3>1, <3>6 DEF Shown
      <3>7. QED
        BY <3>3, <3>4, <3>5, <3>6 DEF Agents, FixedAgents
    <2>3. QED
      BY <2>1, <2>2
  <1>4. QED
    BY <1>1, <1>2, <1>3, PTL DEF DisplaySpec

(* The status display, which goes by all the reports seen, and the tracker, which goes by
   the reports of one chunk, never disagree: a written report stays in the state. *)
THEOREM DisplayAndTrackerAgree == DisplaySpec => []TrackerAgrees
  <1>. DEFINE Inv == TypeOK /\ ReportInv /\ StageInv /\ DisplayInv
  <1>1. DisplayInit => Inv
    BY InitDisplayInv
  <1>2. Inv /\ [DisplayNext]_<<vars, display>> => Inv'
    BY StepDisplayInv
  <1>3. Inv => TrackerAgrees
    <2>. SUFFICES ASSUME Inv, ~setup.crypto, ~closed
                  PROVE  /\ times.done = {a \in Selected : status[a] = "completed"}
                         /\ times.started \ times.done =
                              {a \in Selected : status[a] = "in_progress"}
      BY DEF TrackerAgrees
    <2>1. Shown /\ reports \subseteq Selected
      BY DEF DisplayInv, ReportInv
    <2>2. FirstWithout(reports) \subseteq Selected \ reports
      BY DEF FirstWithout, Selected
    <2>3. QED
      BY <2>1, <2>2 DEF Shown
  <1>4. QED
    BY <1>1, <1>2, <1>3, PTL DEF DisplaySpec

(* An agent shown as completed stays so: whatever the parts of the loop write in between, no
   chunk leaves it in another state. *)
THEOREM CompletedStays == DisplaySpec => NeverReopened
  <1>. DEFINE Inv == TypeOK /\ ReportInv /\ StageInv /\ DisplayInv
              Kept == \A a \in DOMAIN status : status[a] = "completed" =>
                                               status'[a] = "completed"
  <1>1. DisplayInit => Inv
    BY InitDisplayInv
  <1>2. Inv /\ [DisplayNext]_<<vars, display>> => Inv'
    BY StepDisplayInv
  <1>3. Inv /\ [DisplayNext]_<<vars, display>> => [Kept]_display
    <2>. SUFFICES ASSUME Inv, [DisplayNext]_<<vars, display>>, ~UNCHANGED display
                  PROVE  Kept
      OBVIOUS
    <2>1. ~setup.crypto
          /\ \A a \in Agents : status[a] = "completed" => status'[a] = "completed"
      BY StepDisplayInv
    <2>2. DOMAIN status = Agents
      <3>1. \A f, S : f = [x \in S |-> f[x]] => DOMAIN f = S
        OBVIOUS
      <3>2. status = [a \in Agents |-> status[a]]
        BY <2>1 DEF DisplayInv, Shape
      <3>3. QED
        BY <3>1, <3>2, Zenon
    <2>3. QED
      BY <2>1, <2>2
  <1>4. QED
    BY <1>1, <1>2, <1>3, PTL DEF DisplaySpec, NeverReopened
=============================================================================
