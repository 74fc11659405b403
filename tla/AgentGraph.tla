----------------------------- MODULE AgentGraph -----------------------------
(***************************************************************************)
(* One run of the agent graph, node by node: GraphSetup.setup_graph, the   *)
(* routers of ConditionalLogic and what each agent writes to the channels. *)
(*                                                                         *)
(* Analysts work one after the other over one list of messages; the bull   *)
(* and the bear, and then three risk analysts, speak in turns that the     *)
(* routers decide from labels and counters in the state.  What the         *)
(* language model answers is a choice: it calls tools, writes a text, or   *)
(* writes nothing.  Texts are abstracted to whether they are empty, and    *)
(* histories to the number of arguments they hold.  Nodes have the names   *)
(* of the graph without their spaces.                                      *)
(***************************************************************************)
EXTENDS Integers, Sequences

CONSTANTS
    Setups   \* the graphs and limits to choose from

AnalystKeys ==
    {"market", "social", "news", "fundamentals", "derivatives", "catalyst", "regime"}

\* Selected analysts in order, asset type, rounds of both debates, and how many node
\* runs LangGraph allows (max_recur_limit).
Setup ==
    [analysts: Seq(AnalystKeys) \ {<<>>}, crypto: BOOLEAN, debateRounds: Nat,
     riskRounds: Nat, stepLimit: Nat]

ASSUME SetupAssumption ==
    /\ Setups \subseteq Setup
    /\ \A s \in Setups : \A i, j \in 1..Len(s.analysts) :
         s.analysts[i] = s.analysts[j] => i = j

VARIABLES
    setup,       \* the graph, fixed by setup_graph
    node,        \* the node to run next, or how the run ended
    turn,        \* which analyst is at work
    messages,    \* whose messages are in the list, and what the last one is
    reports,     \* analysts whose report is not empty
    debate,      \* investment_debate_state
    plans,       \* which of the three plans are not empty
    risk,        \* risk_debate_state
    steps,       \* node runs so far
    toolRounds   \* auxiliary: runs of tool nodes

vars == <<setup, node, turn, messages, reports, debate, plans, risk, steps, toolRounds>>

Researchers == {"BullResearcher", "BearResearcher"}
RiskAnalysts == {"AggressiveAnalyst", "ConservativeAnalyst", "NeutralAnalyst"}
AnalystNodes == {"Analyst", "tools", "MsgClear"}
LaterNodes == {"ResearchManager", "Trader", "PortfolioManager", "RiskGate"}
Ends == {"END", "failed", "out_of_steps"}

Analyst == setup.analysts[turn]

-----------------------------------------------------------------------------
(* Steps.  A node may run while the limit allows; the counters stop there. *)

\* Mutant: the limit is not passed to the graph.
NoLimit == FALSE

LimitReached == steps >= setup.stepLimit

Counted(n) == IF n < setup.stepLimit THEN n + 1 ELSE n

\* A node runs and its edge, or its router, names the next one.
Run(name, next) ==
    /\ node = name
    /\ ~LimitReached
    /\ steps' = Counted(steps)
    /\ node' = next
    /\ UNCHANGED setup

-----------------------------------------------------------------------------
(* Analysts.                                                               *)

BuildSnapshot ==
    /\ Run("SnapshotBuilder", "Analyst")
    /\ UNCHANGED <<turn, messages, reports, debate, plans, risk, toolRounds>>

\* The sentiment analyst has its data in the prompt and no tools.
MayCallTools == Analyst # "social"

\* Mutant: the label of the node before it was renamed.
OldLabel(last) == IF last = "tool_calls" THEN "tools" ELSE "MsgClearSocial"

\* should_continue_<analyst>.
AfterAnalyst(last) == IF last = "tool_calls" THEN "tools" ELSE "MsgClear"

\* The model is called with all the messages; its report is empty while it calls tools.
AnalystCallsTools ==
    /\ MayCallTools
    /\ Run("Analyst", AfterAnalyst("tool_calls"))
    /\ messages' = [from |-> messages.from \cup {Analyst}, last |-> "tool_calls"]
    /\ reports' = reports \ {Analyst}
    /\ UNCHANGED <<turn, debate, plans, risk, toolRounds>>

AnalystReports ==
    /\ Run("Analyst", AfterAnalyst("answer"))
    /\ messages' = [from |-> messages.from \cup {Analyst}, last |-> "answer"]
    /\ reports' \in {reports \cup {Analyst}, reports \ {Analyst}}
    /\ UNCHANGED <<turn, debate, plans, risk, toolRounds>>

\* The tool node answers every call of the last message.
CallTools ==
    /\ Run("tools", "Analyst")
    /\ messages' = [messages EXCEPT !.last = "results"]
    /\ toolRounds' = Counted(toolRounds)
    /\ UNCHANGED <<turn, reports, debate, plans, risk>>

\* Mutant: the last message is left for the next analyst.
KeepLast == [from |-> {Analyst}, last |-> "prompt"]

\* create_msg_delete: every message goes and a prompt takes their place.
Cleared == [from |-> {}, last |-> "prompt"]

ClearMessages ==
    /\ Run("MsgClear", IF turn < Len(setup.analysts) THEN "Analyst" ELSE "BullResearcher")
    /\ messages' = Cleared
    /\ turn' = IF turn < Len(setup.analysts) THEN turn + 1 ELSE turn
    /\ UNCHANGED <<reports, debate, plans, risk, toolRounds>>

-----------------------------------------------------------------------------
(* The research debate.                                                    *)

\* Mutant: the debate ends one argument late.
LateDebate(d) ==
    IF d.count > 2 * setup.debateRounds THEN "ResearchManager"
    ELSE IF d.current = "Bull" THEN "BearResearcher" ELSE "BullResearcher"

\* should_continue_debate: by the number of arguments and the label of the last one.
NextInDebate(d) ==
    IF d.count >= 2 * setup.debateRounds THEN "ResearchManager"
    ELSE IF d.current = "Bull" THEN "BearResearcher" ELSE "BullResearcher"

\* bull_node writes its own history and carries the bear's over.
BullArgues(d) ==
    [bull |-> d.bull + 1, bear |-> d.bear, history |-> d.history + 1, current |-> "Bull",
     count |-> d.count + 1, judged |-> FALSE]

BearArgues(d) ==
    [bull |-> d.bull, bear |-> d.bear + 1, history |-> d.history + 1, current |-> "Bear",
     count |-> d.count + 1, judged |-> FALSE]

Argue ==
    \/ /\ Run("BullResearcher", NextInDebate(BullArgues(debate)))
       /\ debate' = BullArgues(debate)
       /\ UNCHANGED <<turn, messages, reports, plans, risk, toolRounds>>
    \/ /\ Run("BearResearcher", NextInDebate(BearArgues(debate)))
       /\ debate' = BearArgues(debate)
       /\ UNCHANGED <<turn, messages, reports, plans, risk, toolRounds>>

\* The decision closes the debate it judges.
Judged(d, written) ==
    [bull |-> d.bull, bear |-> d.bear, history |-> d.history, current |-> "plan",
     count |-> d.count, judged |-> written]

\* A plan may turn out empty.
WithPlan(name, written) == IF written THEN plans \cup {name} ELSE plans \ {name}

JudgeResearch ==
    /\ Run("ResearchManager", "Trader")
    /\ \E written \in BOOLEAN :
         /\ plans' = WithPlan("investment", written)
         /\ debate' = Judged(debate, written)
    /\ UNCHANGED <<turn, messages, reports, risk, toolRounds>>

Trade ==
    /\ Run("Trader", "AggressiveAnalyst")
    /\ \E written \in BOOLEAN : plans' = WithPlan("trader", written)
    /\ messages' = [from |-> messages.from \cup {"Trader"}, last |-> "answer"]
    /\ UNCHANGED <<turn, reports, debate, risk, toolRounds>>

-----------------------------------------------------------------------------
(* The risk debate.                                                        *)

\* Mutant: the neutral analyst is passed over.
TwoInRisk(r) ==
    IF r.count >= 3 * setup.riskRounds THEN "PortfolioManager"
    ELSE IF r.latest = "AggressiveAnalyst" THEN "ConservativeAnalyst"
    ELSE "AggressiveAnalyst"

\* should_continue_risk_analysis.
NextInRisk(r) ==
    IF r.count >= 3 * setup.riskRounds THEN "PortfolioManager"
    ELSE IF r.latest = "AggressiveAnalyst" THEN "ConservativeAnalyst"
    ELSE IF r.latest = "ConservativeAnalyst" THEN "NeutralAnalyst"
    ELSE "AggressiveAnalyst"

\* A risk analyst writes its own history and carries the others' over.
Speaks(r, name) ==
    [spoken |-> [r.spoken EXCEPT ![name] = @ + 1], history |-> r.history + 1,
     latest |-> name, count |-> r.count + 1, judged |-> FALSE]

DebateRisk(name) ==
    /\ Run(name, NextInRisk(Speaks(risk, name)))
    /\ risk' = Speaks(risk, name)
    /\ UNCHANGED <<turn, messages, reports, debate, plans, toolRounds>>

Decided(r, written) ==
    [spoken |-> r.spoken, history |-> r.history, latest |-> "Judge", count |-> r.count,
     judged |-> written]

Decide ==
    /\ Run("PortfolioManager", IF setup.crypto THEN "RiskGate" ELSE "END")
    /\ \E written \in BOOLEAN :
         /\ plans' = WithPlan("final", written)
         /\ risk' = Decided(risk, written)
    /\ UNCHANGED <<turn, messages, reports, debate, toolRounds>>

Gate ==
    /\ Run("RiskGate", "END")
    /\ UNCHANGED <<turn, messages, reports, debate, plans, risk, toolRounds>>

-----------------------------------------------------------------------------
(* Ends.                                                                   *)

\* A node raises.
Fail ==
    /\ node \notin Ends
    /\ node' = "failed"
    /\ UNCHANGED <<setup, turn, messages, reports, debate, plans, risk, steps, toolRounds>>

\* GraphRecursionError.
OutOfSteps ==
    /\ node \notin Ends
    /\ LimitReached
    /\ node' = "out_of_steps"
    /\ UNCHANGED <<setup, turn, messages, reports, debate, plans, risk, steps, toolRounds>>

\* create_initial_state.
Init ==
    /\ setup \in Setups
    /\ node = IF setup.crypto THEN "SnapshotBuilder" ELSE "Analyst"
    /\ turn = 1
    /\ messages = [from |-> {}, last |-> "prompt"]
    /\ reports = {}
    /\ debate = [bull |-> 0, bear |-> 0, history |-> 0, current |-> "nobody", count |-> 0,
                 judged |-> FALSE]
    /\ plans = {}
    /\ risk = [spoken |-> [name \in RiskAnalysts |-> 0], history |-> 0, latest |-> "nobody",
               count |-> 0, judged |-> FALSE]
    /\ steps = 0
    /\ toolRounds = 0

Step ==
    \/ BuildSnapshot
    \/ AnalystCallsTools \/ AnalystReports \/ CallTools \/ ClearMessages
    \/ Argue \/ JudgeResearch \/ Trade
    \/ \E name \in RiskAnalysts : DebateRisk(name)
    \/ Decide \/ Gate

Next == Step \/ Fail \/ OutOfSteps

\* The graph is one synchronous loop: while a node can run, one does.
Spec == Init /\ [][Next]_vars /\ WF_vars(Next)

-----------------------------------------------------------------------------
(* Properties.                                                             *)

Authors == SUBSET (AnalystKeys \cup {"Trader"})

Debate ==
    [bull: Nat, bear: Nat, history: Nat, current: {"nobody", "Bull", "Bear", "plan"}, count: Nat,
     judged: BOOLEAN]

Risk ==
    [spoken: [RiskAnalysts -> Nat], history: Nat, latest: RiskAnalysts \cup {"nobody", "Judge"},
     count: Nat, judged: BOOLEAN]

\* The channels hold what they are for, and the node to run exists in the graph.
TypeOK ==
    /\ setup \in Setups
    /\ node \in AnalystNodes \cup Researchers \cup RiskAnalysts \cup LaterNodes \cup Ends
                \cup {"SnapshotBuilder"}
    /\ turn \in 1..Len(setup.analysts)
    /\ messages \in [from: Authors, last: {"prompt", "tool_calls", "results", "answer"}]
    /\ reports \subseteq AnalystKeys
    /\ debate \in Debate
    /\ plans \subseteq {"investment", "trader", "final"}
    /\ risk \in Risk
    /\ steps \in Nat /\ toolRounds \in Nat

AfterDebate == {"ResearchManager", "Trader", "PortfolioManager", "RiskGate",
                "END"} \cup RiskAnalysts
AfterRisk == {"PortfolioManager", "RiskGate", "END"}

GreaterOf(a, b) == IF a >= b THEN a ELSE b

\* The research manager judges a balanced debate: both sides have spoken once a round, in
\* turns that the bull opens, and the history has every argument.  (With no rounds at all
\* the bull still speaks once: should_continue_debate is asked after the first argument.)
BalancedDebate ==
    /\ debate.bear <= debate.bull /\ debate.bull <= debate.bear + 1
    /\ debate.history = debate.bull + debate.bear
    /\ node \in AfterDebate =>
         /\ debate.bull = GreaterOf(1, setup.debateRounds)
         /\ debate.bear = setup.debateRounds

Spoken(name) == risk.spoken[name]

\* The portfolio manager decides after a balanced debate: aggressive, conservative and
\* neutral analyst speak in this order, once a round.  (With no rounds the aggressive
\* analyst still speaks once.)
BalancedRisk ==
    LET a == Spoken("AggressiveAnalyst")
        c == Spoken("ConservativeAnalyst")
        n == Spoken("NeutralAnalyst")
    IN  /\ n <= c /\ c <= a /\ a <= n + 1
        /\ risk.history = a + c + n
        /\ node \in AfterRisk =>
             /\ a = GreaterOf(1, setup.riskRounds)
             /\ c = setup.riskRounds /\ n = setup.riskRounds

\* A model is called with the messages of its own analyst and no other, and never while a
\* tool call of the list has no result (providers refuse such a list).
OwnMessagesOnly ==
    node = "Analyst" => messages.from \subseteq {Analyst} /\ messages.last # "tool_calls"

\* Node runs of a run that makes no tool call.
FixedSteps ==
    (IF setup.crypto THEN 2 ELSE 0) + 2 * Len(setup.analysts) + 3
    + GreaterOf(1, 2 * setup.debateRounds) + GreaterOf(1, 3 * setup.riskRounds)

\* The step limit is met by runs whose tool calls fit, and by no other: a tool round costs
\* two steps, everything else is fixed by the setup (max_recur_limit).
StepBudget ==
    /\ node = "END" => steps = FixedSteps + 2 * toolRounds
    /\ node = "out_of_steps" => FixedSteps + 2 * toolRounds > setup.stepLimit

\* Every run ends, if only at the step limit: no agent keeps the graph going for ever.
Terminates == <>(node \in Ends)
=============================================================================
