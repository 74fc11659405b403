----------------------------- MODULE CryptoRun -----------------------------
(***************************************************************************)
(* A process that runs the crypto graph again and again:                   *)
(* TradingAgentsGraph.propagate and _run_graph around the nodes that read  *)
(* or write something shared, the snapshot builder, the analysts' tools,   *)
(* the trader and the risk gate.                                           *)
(*                                                                         *)
(* Three stores outlive a run: the configuration and the snapshot of the   *)
(* process, the checkpoints, memory log and paper book on disk.  A run may *)
(* fail at any step, with its "finally" clause, or the process may die,    *)
(* without.  What the model of the language says is a choice; what the     *)
(* agents say to each other is in AgentGraph, the rules of the gate are in *)
(* RiskEngine and the steps of a paper fill in PaperExecution.             *)
(***************************************************************************)
EXTENDS Integers, Sequences

CONSTANTS
    Tickers,
    Dates,
    Strategies,      \* strategy profiles
    Requests,        \* the calls of propagate to choose from
    GraphStrategy,   \* the profile the graph object was made with, or NoStrategy
    DefaultStrategy, \* default_crypto_strategy of the base configuration
    NoStrategy,      \* the empty profile name, a missing key, the base limits
    CheckpointEnabled, \* checkpoint_enabled
    MaxRuns,         \* bound: calls of propagate
    MaxMoves,        \* bound: how often the market moves
    FailedFetch,     \* what the builder leaves in the graph state when the fetch failed
    None             \* no snapshot, no checkpoint, nothing said yet

Request ==
    [ticker: Tickers, date: Dates, strategy: Strategies \cup {NoStrategy}, paper: BOOLEAN]

\* A snapshot is told from another by its market and when it was taken.
Snapshots == [ticker: Tickers, at: 0..MaxMoves]
SnapshotSets == SUBSET Snapshots

ASSUME RunAssumption ==
    /\ Requests \subseteq Request
    /\ GraphStrategy \in Strategies \cup {NoStrategy}
    /\ DefaultStrategy \in Strategies
    /\ NoStrategy \notin Strategies
    /\ CheckpointEnabled \in BOOLEAN
    /\ MaxRuns \in Nat
    /\ MaxMoves \in Nat
    /\ None \notin Snapshots
    /\ FailedFetch \notin Snapshots \cup {None}

VARIABLES
    pc,        \* where the call of propagate is
    request,   \* what was asked for
    state,     \* the channels of the graph
    judged,    \* what the risk gate decided in this run, and on what
    config,    \* process: the profile and limits in dataflows.config
    store,     \* process: the current snapshot, or None
    saved,     \* disk: thread -> channels at the last checkpoint, or None
    memory,    \* disk: the entries of the memory log
    book,      \* disk: paper fills
    market,    \* how often the market has moved
    runs,      \* calls of propagate so far
    finished   \* auxiliary: threads whose last run returned

process == <<config, store>>
disk == <<saved, memory, book>>
vars == <<pc, request, state, judged, config, store, saved, memory, book, market, runs,
          finished>>

-----------------------------------------------------------------------------
(* Names and keys.                                                         *)

\* propagate: the profile of the call, else the one of the graph.
RunStrategy(r) == IF r.strategy # NoStrategy THEN r.strategy ELSE GraphStrategy

\* Mutant: all dates of a ticker share a thread.
ThreadOfTicker(r) == <<r.ticker, CHOOSE date \in Dates : TRUE, RunStrategy(r)>>

\* thread_id over ticker, date and _run_signature; what else the signature holds is
\* fixed for one graph object.
Thread(r) == <<r.ticker, r.date, RunStrategy(r)>>

Threads == Tickers \X Dates \X (Strategies \cup {NoStrategy})

\* The process configuration: whose limits apply, and which profile is named.
BaseConfig == [limits |-> GraphStrategy, profile |-> GraphStrategy]

\* Mutant: the profile is named and its limits are not applied.
NamedOnly(strategy) == [limits |-> config.limits, profile |-> strategy]

\* apply_strategy_to_config and set_config.
Overlaid(strategy) == [limits |-> strategy, profile |-> strategy]

\* set_config(self.config) replaces the keys the base has and removes none: the name of
\* a profile is a key that the base has only when the graph was made with a profile.
Restored ==
    [limits |-> GraphStrategy,
     profile |-> IF GraphStrategy = NoStrategy THEN config.profile ELSE GraphStrategy]

-----------------------------------------------------------------------------
(* The channels of the graph.                                              *)

\* create_initial_state has a value for each of these but messages, which
\* accumulates, and plan, which it leaves alone.
InitialState(r) ==
    [strategy |-> RunStrategy(r), snapshot |-> None, reports |-> {}, proposal |-> None]

\* What a graph object starts from: nothing said and no plan.
EmptyChannels ==
    [strategy |-> NoStrategy, snapshot |-> None, reports |-> {}, proposal |-> None,
     messages |-> {}, plan |-> None]

\* LangGraph: an input given to a thread that has a checkpoint is applied to the saved
\* channels, and the graph starts over.  (Only an input of None goes on where the thread
\* stopped; _run_graph never gives one.)
Started(checkpoint, r) ==
    LET old == IF checkpoint = None THEN EmptyChannels ELSE checkpoint
        new == InitialState(r)
    IN  [old EXCEPT !.strategy = new.strategy, !.snapshot = new.snapshot,
                    !.reports = new.reports, !.proposal = new.proposal]

\* Node results go to the channels and to the checkpoint of the thread.
Commit(channels) ==
    /\ state' = channels
    /\ saved' = IF CheckpointEnabled THEN [saved EXCEPT ![Thread(request)] = channels]
                ELSE saved

-----------------------------------------------------------------------------
(* propagate, up to the graph.                                             *)

Begin ==
    /\ pc = "idle"
    /\ runs < MaxRuns
    /\ runs' = runs + 1
    /\ \E r \in Requests :
         /\ request' = r
         /\ config' = IF RunStrategy(r) # NoStrategy THEN Overlaid(RunStrategy(r)) ELSE config
    /\ pc' = "resolve"
    /\ judged' = None
    /\ UNCHANGED <<state, store, disk, market, finished>>

\* _resolve_pending_entries: in one write, any of the ticker's entries whose outcome
\* is known.
ResolvePending ==
    /\ pc = "resolve"
    /\ \E known \in SUBSET {i \in 1..Len(memory) :
                              memory[i].ticker = request.ticker /\ memory[i].pending} :
         memory' = [i \in 1..Len(memory) |->
                      IF i \in known THEN [memory[i] EXCEPT !.pending = FALSE] ELSE memory[i]]
    /\ pc' = "invoke"
    /\ UNCHANGED <<request, state, judged, process, saved, book, market, runs, finished>>

\* It runs before the "try": when it raises, nothing is restored.
ResolveFails ==
    /\ pc = "resolve"
    /\ pc' = "idle"
    /\ UNCHANGED <<request, state, judged, process, disk, market, runs, finished>>

Invoke ==
    /\ pc = "invoke"
    /\ Commit(Started(saved[Thread(request)], request))
    /\ finished' = finished \ {Thread(request)}
    /\ pc' = "SnapshotBuilder"
    /\ UNCHANGED <<request, judged, process, memory, book, market, runs>>

-----------------------------------------------------------------------------
(* The nodes.                                                              *)

\* Mutant: the builder leaves the old snapshot in the store until it has a new one.
KeptOnFailure == store

\* The store while the builder fetches.
ClearedStore == None

BuildSnapshot ==
    /\ pc = "SnapshotBuilder"
    /\ \/ LET snapshot == [ticker |-> request.ticker, at |-> market]
          IN  /\ store' = snapshot
              /\ Commit([state EXCEPT !.snapshot = snapshot])
       \/ /\ store' = ClearedStore
          /\ Commit([state EXCEPT !.snapshot = FailedFetch])
    /\ pc' = "Analysts"
    /\ UNCHANGED <<request, judged, config, memory, book, market, runs, finished>>

\* crypto_data_tools: a tool call puts what the store has into the messages.
CallTool ==
    /\ pc = "Analysts"
    /\ store # None
    /\ store \notin state.messages
    /\ Commit([state EXCEPT !.messages = @ \cup {store}])
    /\ UNCHANGED <<pc, request, judged, process, memory, book, market, runs, finished>>

\* An analyst writes its report from all the messages, which are then deleted; the
\* graph goes on to the researchers, whose plan is of this run.
Report ==
    /\ pc = "Analysts"
    /\ Commit([state EXCEPT !.reports = state.messages, !.messages = {},
                            !.plan = <<request.ticker, request.date>>])
    /\ pc' = "Trader"
    /\ UNCHANGED <<request, judged, process, memory, book, market, runs, finished>>

\* A structured proposal, or free text and no proposal.
Trade ==
    /\ pc = "Trader"
    /\ \E proposal \in {"trade", "no_trade", None} :
         Commit([state EXCEPT !.proposal = proposal])
    /\ pc' = "RiskGate"
    /\ UNCHANGED <<request, judged, process, memory, book, market, runs, finished>>

\* Mutant: the payload of a failed fetch passes for a snapshot.
LoadAnything == IF store # None THEN store ELSE state.snapshot

\* _load_snapshot: the store, else the channel if it validates.
LoadSnapshot ==
    IF store # None THEN store
    ELSE IF state.snapshot \in Snapshots THEN state.snapshot ELSE None

\* The portfolio a fill goes to: profile of the run, of the configuration, default.
PaperStrategy ==
    IF state.strategy # NoStrategy THEN state.strategy
    ELSE IF config.profile # NoStrategy THEN config.profile ELSE DefaultStrategy

\* risk_gate_node: evaluate_risk under the limits of the configuration.  Only a trade is
\* approved as a trade; with no snapshot the staleness rule is not applied.
Judge ==
    /\ pc = "RiskGate"
    /\ \E approved \in (IF state.proposal = "trade" THEN BOOLEAN ELSE {FALSE}) :
         judged' = [snapshot |-> LoadSnapshot, limits |-> config.limits,
                    strategy |-> PaperStrategy, trade |-> approved]
    /\ pc' = IF request.paper THEN "paper" ELSE "gate_done"
    /\ UNCHANGED <<request, state, process, disk, market, runs, finished>>

\* _maybe_paper_execute: without a snapshot it is skipped; the executor fills an approved
\* trade once per strategy and snapshot, unless it refuses or raises.
PaperTrade ==
    /\ pc = "paper"
    /\ \/ /\ judged.trade /\ judged.snapshot # None
          /\ book' = book \cup {[strategy |-> judged.strategy, snapshot |-> judged.snapshot]}
       \/ UNCHANGED book
    /\ pc' = "gate_done"
    /\ UNCHANGED <<request, state, judged, process, saved, memory, market, runs, finished>>

\* The gate's result reaches the checkpoint; the graph is at its end.
GateDone ==
    /\ pc = "gate_done"
    /\ Commit(state)
    /\ pc' = "store"
    /\ UNCHANGED <<request, judged, process, memory, book, market, runs, finished>>

-----------------------------------------------------------------------------
(* _run_graph and propagate, after the graph.                              *)

\* Mutant: a decision is always appended.
NeverStored(r) == FALSE

\* store_decision looks for a pending entry of the same ticker and date.
AlreadyPending(r) ==
    \E i \in 1..Len(memory) :
        memory[i].ticker = r.ticker /\ memory[i].date = r.date /\ memory[i].pending

StoreDecision ==
    /\ pc = "store"
    /\ memory' = IF AlreadyPending(request) THEN memory
                 ELSE Append(memory, [ticker |-> request.ticker, date |-> request.date,
                                      pending |-> TRUE])
    /\ pc' = "clear"
    /\ UNCHANGED <<request, state, judged, process, saved, book, market, runs, finished>>

\* Mutant: the checkpoint is cleared under the signature of a run without a profile.
UnprofiledThread(r) == <<r.ticker, r.date, GraphStrategy>>

ClearedThread(r) == Thread(r)

\* clear_checkpoint, the return and the "finally" of propagate.
Return ==
    /\ pc = "clear"
    /\ saved' = [saved EXCEPT ![ClearedThread(request)] = None]
    /\ finished' = finished \cup {Thread(request)}
    /\ config' = Restored
    /\ pc' = "idle"
    /\ UNCHANGED <<request, state, judged, store, memory, book, market, runs>>

-----------------------------------------------------------------------------
(* What goes wrong, and what happens meanwhile.                            *)

InTry == {"invoke", "SnapshotBuilder", "Analysts", "Trader", "RiskGate", "gate_done",
          "store", "clear"}

\* An exception in the graph or after it: the "finally" of propagate.  (Exceptions of the
\* paper executor are caught by the gate.)
Fail ==
    /\ pc \in InTry
    /\ config' = Restored
    /\ pc' = "idle"
    /\ UNCHANGED <<request, state, judged, store, disk, market, runs, finished>>

\* The process dies and another starts, whatever the first was doing.
Crash ==
    /\ pc # "idle"
    /\ pc' = "idle"
    /\ config' = BaseConfig
    /\ store' = None
    /\ UNCHANGED <<request, state, judged, disk, market, runs, finished>>

MarketMoves ==
    /\ market < MaxMoves
    /\ market' = market + 1
    /\ UNCHANGED <<pc, request, state, judged, process, disk, runs, finished>>

Init ==
    /\ pc = "idle"
    /\ request = None
    /\ state = EmptyChannels
    /\ judged = None
    /\ config = BaseConfig
    /\ store = None
    /\ saved = [t \in Threads |-> None]
    /\ memory = <<>>
    /\ book = {}
    /\ market = 0
    /\ runs = 0
    /\ finished = {}

Next ==
    \/ Begin \/ ResolvePending \/ ResolveFails \/ Invoke
    \/ BuildSnapshot \/ CallTool \/ Report \/ Trade
    \/ Judge \/ PaperTrade \/ GateDone
    \/ StoreDecision \/ Return
    \/ Fail \/ Crash \/ MarketMoves

Spec == Init /\ [][Next]_vars

-----------------------------------------------------------------------------
(* Properties.                                                             *)

Judgement ==
    [snapshot: Snapshots \cup {None}, limits: Strategies \cup {NoStrategy},
     strategy: Strategies, trade: BOOLEAN]

Entry == [ticker: Tickers, date: Dates, pending: BOOLEAN]

Channels ==
    [strategy: Strategies \cup {NoStrategy}, snapshot: Snapshots \cup {FailedFetch, None},
     reports: SnapshotSets, proposal: {"trade", "no_trade", None},
     messages: SnapshotSets, plan: (Tickers \X Dates) \cup {None}]

\* Every store and channel holds what it is for; in particular the gate judges on a
\* snapshot or on none, never on the payload of a failed fetch.
TypeOK ==
    /\ pc \in InTry \cup {"idle", "resolve", "paper"}
    /\ request \in Requests \cup {None}
    /\ state \in Channels
    /\ judged \in Judgement \cup {None}
    /\ config \in [limits: Strategies \cup {NoStrategy},
                   profile: Strategies \cup {NoStrategy}]
    /\ store \in Snapshots \cup {None}
    /\ saved \in [Threads -> Channels \cup {None}]
    /\ memory \in Seq(Entry)
    /\ book \subseteq [strategy: Strategies, snapshot: Snapshots]

Running == pc \in InTry \cup {"paper"} /\ pc # "invoke"

\* The gate judges on the snapshot that the builder of this very run took, and on none if
\* that fetch failed: never on what an earlier run left in the process
\* (snapshot_builder_node clears the store first, _load_snapshot prefers the store).
GateJudgesOwnSnapshot ==
    Running /\ judged # None =>
        judged.snapshot = IF state.snapshot = FailedFetch THEN None ELSE state.snapshot

\* A run that names a profile is judged under the limits of that profile and fills its
\* portfolio, whatever runs came before and however they ended.
NamedStrategyGoverns ==
    judged # None /\ request.strategy # NoStrategy =>
        judged.limits = request.strategy /\ judged.strategy = request.strategy

\* However runs fail, crash and are repeated, the memory log never has two pending
\* entries of one ticker and date (store_decision).
OnePendingPerDay ==
    \A i, j \in 1..Len(memory) :
        /\ memory[i].pending /\ memory[j].pending
        /\ memory[i].ticker = memory[j].ticker /\ memory[i].date = memory[j].date
        => i = j

\* What the channels keep from an earlier attempt is of the same ticker and date.
OwnThread ==
    Running /\ state.plan # None => state.plan = <<request.ticker, request.date>>

\* A run that returned leaves no checkpoint for the next one to start from.
FinishedRunsLeaveNoCheckpoint == \A t \in finished : saved[t] = None

\* Every analyst of a run uses the snapshot of the run and no other.
ReportsFromOwnSnapshot ==
    Running /\ pc \notin {"SnapshotBuilder", "Analysts"} =>
        state.reports \subseteq {state.snapshot}

\* A run that names no profile is judged under the baseline of the graph and fills the
\* default portfolio: what an earlier run overlaid is gone.
UnnamedRunIsBaseline ==
    judged # None /\ RunStrategy(request) = NoStrategy =>
        judged.limits = GraphStrategy /\ judged.strategy = DefaultStrategy
=============================================================================
