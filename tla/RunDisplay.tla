----------------------------- MODULE RunDisplay -----------------------------
(***************************************************************************)
(* The terminal display of a run (cli/main.py): MessageBuffer, the         *)
(* wall-time tracker and the loop over the stream of the agent graph.      *)
(*                                                                         *)
(* The graph streams the whole state after every node, and the loop        *)
(* derives from it who is working and what is written, without being told  *)
(* which node ran.  The loop is finished with a chunk before the next node *)
(* runs, so a step of the graph and its chunk are one step here.  The      *)
(* crypto commands call propagate and have no such display.                *)
(***************************************************************************)
EXTENDS AgentGraph

VARIABLES
    status,    \* agent -> pending, in_progress, completed
    sections,  \* report section -> whose text it shows, or "none"
    times,     \* the wall-time tracker: analysts started and done
    closed     \* the stream is over and the display has its last state

display == <<status, sections, times, closed>>

Team == Researchers \cup {"ResearchManager"}

\* FIXED_AGENTS; an analyst is named by its key.
FixedAgents == Team \cup {"Trader", "PortfolioManager"} \cup RiskAnalysts

Selected == {setup.analysts[i] : i \in 1..Len(setup.analysts)}

Agents == Selected \cup FixedAgents

Plans == {"investment", "trader", "final"}

\* REPORT_SECTIONS: who finalizes a section.
Finalizer(section) ==
    CASE section = "investment" -> "ResearchManager"
      [] section = "trader" -> "Trader"
      [] section = "final" -> "PortfolioManager"
      [] OTHER -> section

-----------------------------------------------------------------------------
(* A chunk c = [reports, debate, plans, risk] on the display d = [status,   *)
(* sections].                                                              *)

SetStatus(d, agents, value) ==
    [d EXCEPT !.status = [a \in DOMAIN d.status |->
                            IF a \in agents THEN value ELSE d.status[a]]]

\* The first analyst of the plan without a report.
FirstWithout(done) ==
    {setup.analysts[i] : i \in {n \in 1..Len(setup.analysts) :
        /\ setup.analysts[n] \notin done
        /\ \A m \in 1..(n - 1) : setup.analysts[m] \in done}}

\* The analysts whose report is in the chunk or on the display.
Done(d, c) == c.reports \cup {a \in Selected : d.sections[a] # "none"}

AnalystsMarked(d, c, active) ==
    LET done == Done(d, c)
        marked ==
            [status |-> [a \in DOMAIN d.status |->
                 CASE a \in done -> "completed"
                   [] a \in active -> "in_progress"
                   [] a \in Selected \ (done \cup active) -> "pending"
                   [] OTHER -> d.status[a]],
             sections |-> [s \in DOMAIN d.sections |->
                 IF s \in c.reports THEN s ELSE d.sections[s]]]
    IN  IF Selected \subseteq done /\ d.status["BullResearcher"] = "pending"
        THEN SetStatus(marked, {"BullResearcher"}, "in_progress") ELSE marked

\* Mutant: every analyst without a report is shown at work.
AllActive(d, c) == AnalystsMarked(d, c, Selected \ Done(d, c))

\* update_analyst_statuses: by the reports seen so far.
AnalystTeam(d, c) == AnalystsMarked(d, c, FirstWithout(Done(d, c)))

\* The last writer of a sequence of overwrites, those in order who have written.
LastOf(order, written) ==
    LET last == CHOOSE i \in 1..Len(order) :
                    /\ order[i] \in written
                    /\ \A j \in (i + 1)..Len(order) : order[j] \notin written
    IN  order[last]

WrittenOver(d, section, order, written) ==
    IF written = {} THEN d ELSE [d EXCEPT !.sections[section] = LastOf(order, written)]

\* Each side's history, and then the judge's decision, overwrite one section.
ResearchTeam(d, c) ==
    LET written == {a \in Team : CASE a = "BullResearcher" -> c.debate.bull > 0
                                   [] a = "BearResearcher" -> c.debate.bear > 0
                                   [] OTHER -> c.debate.judged}
        argued == WrittenOver(d, "investment",
                      <<"BullResearcher", "BearResearcher", "ResearchManager">>, written)
    IN  IF c.debate.judged
        THEN SetStatus(SetStatus(argued, Team, "completed"), {"Trader"}, "in_progress")
        ELSE IF written # {} THEN SetStatus(argued, Team, "in_progress") ELSE argued

\* Mutant: the plan is taken note of when it is new.
TradingOnce(d, c) ==
    IF "trader" \notin c.plans \/ d.sections["trader"] # "none" THEN d
    ELSE SetStatus(SetStatus([d EXCEPT !.sections["trader"] = "Trader"],
                             {"Trader"}, "completed"),
                   {"AggressiveAnalyst"}, "in_progress")

TradingTeam(d, c) ==
    LET written == [d EXCEPT !.sections["trader"] = "Trader"]
    IN  IF "trader" \notin c.plans THEN d
        ELSE IF d.status["Trader"] = "completed" THEN written
        ELSE SetStatus(SetStatus(written, {"Trader"}, "completed"),
                       {"AggressiveAnalyst"}, "in_progress")

RiskOrder == <<"AggressiveAnalyst", "ConservativeAnalyst", "NeutralAnalyst">>

\* Mutant: who has spoken is done.
SpokenIsDone(d, c) ==
    LET spoken == {name \in RiskAnalysts : c.risk.spoken[name] > 0}
    IN  SetStatus(WrittenOver(d, "final", RiskOrder, spoken), spoken, "completed")

\* The parts of the risk analysts in a chunk.
RiskAnalystsShown(d, c) ==
    LET spoken == {name \in RiskAnalysts : c.risk.spoken[name] > 0}
    IN  SetStatus(WrittenOver(d, "final", RiskOrder, spoken),
                  {name \in spoken : d.status[name] # "completed"}, "in_progress")

DecisionShown(d, c) ==
    IF ~c.risk.judged \/ d.status["PortfolioManager"] = "completed" THEN d
    ELSE SetStatus([d EXCEPT !.sections["final"] = "PortfolioManager"],
                   RiskAnalysts \cup {"PortfolioManager"}, "completed")

\* sync_analyst_tracker_from_chunk: by the reports of this chunk.
Tracked(t, c) ==
    [started |-> t.started \cup (c.reports \cap Selected) \cup FirstWithout(c.reports),
     done |-> t.done \cup (c.reports \cap Selected)]

-----------------------------------------------------------------------------
\* init_for_analysis, and the first analyst marked before the stream begins.
DisplayInit ==
    /\ Init
    /\ status = [a \in Agents |-> IF a = setup.analysts[1] THEN "in_progress" ELSE "pending"]
    /\ sections = [s \in Selected \cup Plans |-> "none"]
    /\ times = [started |-> {setup.analysts[1]}, done |-> {}]
    /\ closed = FALSE

\* A node runs, and its chunk goes through the parts of the loop in run_analysis.
ShowStep ==
    /\ Step
    /\ \/ setup.crypto /\ UNCHANGED display
       \/ /\ ~setup.crypto
          /\ \E chunk \in {[reports |-> reports', debate |-> debate', plans |-> plans',
                           risk |-> risk']} :
             \E analysts \in {AnalystTeam([status |-> status, sections |-> sections], chunk)} :
             \E research \in {ResearchTeam(analysts, chunk)} :
             \E trading \in {TradingTeam(research, chunk)} :
             \E risks \in {RiskAnalystsShown(trading, chunk)} :
             \E shown \in {DecisionShown(risks, chunk)} :
               /\ status' = shown.status
               /\ sections' = shown.sections
               /\ times' = Tracked(times, chunk)
          /\ UNCHANGED closed

\* An exception leaves the display as it is.
StopStep == (Fail \/ OutOfSteps) /\ UNCHANGED display

\* What the last state has for a section, possibly nothing.
Written(section) ==
    IF section \in reports \/ section \in plans THEN Finalizer(section) ELSE "blank"

\* After the stream: every agent is completed and every section is rewritten.
Close ==
    /\ node = "END"
    /\ ~setup.crypto
    /\ ~closed
    /\ status' = [a \in DOMAIN status |-> "completed"]
    /\ sections' = [s \in DOMAIN sections |-> Written(s)]
    /\ closed' = TRUE
    /\ UNCHANGED <<vars, times>>

DisplayNext == ShowStep \/ StopStep \/ Close

DisplaySpec == DisplayInit /\ [][DisplayNext]_<<vars, display>> /\ WF_<<vars, display>>(DisplayNext)

-----------------------------------------------------------------------------
(* Properties.                                                             *)

\* Agents that still have a turn, as far as the routers can tell.
ToCome ==
    LET before(nodes) == node \in nodes
    IN  {a \in Selected : before(AnalystNodes) /\ \E i \in turn..Len(setup.analysts) :
                              setup.analysts[i] = a /\ (i = turn => node # "MsgClear")}
        \cup {a \in Team : before(AnalystNodes \cup Researchers) \/ node = a}
        \cup {a \in {"Trader"} : before(AnalystNodes \cup Team \cup {"Trader"})}
        \cup {a \in RiskAnalysts :
                before(AnalystNodes \cup Team \cup {"Trader"} \cup RiskAnalysts)}
        \cup {a \in {"PortfolioManager"} : node \notin Ends}

\* No agent is shown as completed while it has still something to do, although the
\* display only guesses from the texts in the state.
CompletedIsDone ==
    ~setup.crypto => \A a \in Agents : status[a] = "completed" => a \notin ToCome

\* An agent shown as completed stays so: the loop writes interim states (the trader "in
\* progress" in every chunk after the judge's) and always takes them back in time.
NeverReopened ==
    [][\A a \in DOMAIN status : status[a] = "completed" => status'[a] = "completed"]_display

\* The status display and the wall-time tracker follow the analysts on their own and
\* agree: done is completed, started and not done is in progress.
TrackerAgrees ==
    ~setup.crypto /\ ~closed =>
        /\ times.done = {a \in Selected : status[a] = "completed"}
        /\ times.started \ times.done = {a \in Selected : status[a] = "in_progress"}
=============================================================================
