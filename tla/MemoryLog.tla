----------------------------- MODULE MemoryLog -----------------------------
(***************************************************************************)
(* The decision log (agents/utils/memory.py, agents/utils/crypto_memory.py *)
(* and _resolve_pending_entries): one markdown file for all tickers, whose *)
(* entries are pending until a later run of the same ticker finds prices   *)
(* to score them with.                                                     *)
(*                                                                         *)
(* A run of propagate reads the file four times -- the pending entries to  *)
(* score, the blocks to rewrite, the lessons for the prompt, the entries   *)
(* of the day before it appends -- and there is no lock: each read and     *)
(* write is a step, and a run can fail or its process die between any two. *)
(* Texts, ratings and figures are left out; an outcome is known by the     *)
(* price bars it was computed from.                                        *)
(***************************************************************************)
EXTENDS Integers, FiniteSetsExt

CONSTANTS
    Procs,         \* processes that share the file
    CryptoTickers, \* tickers that is_crypto_memory_entry accepts
    StockTickers,  \* all others
    MaxEntries,    \* memory_log_max_entries, 0 for None
    SameLessons,   \* n_same
    CrossLessons,  \* n_cross
    HoldingDays,   \* holding_days of _fetch_returns
    DayLength,     \* bound: hours of a day, and of holding_hours
    MaxHours,      \* bound: how far the clock runs
    MaxDecisions,  \* bound: decisions stored
    None           \* no file

Tickers == CryptoTickers \cup StockTickers

ASSUME LogAssumption ==
    /\ CryptoTickers \cap StockTickers = {}
    /\ {MaxEntries, SameLessons, CrossLessons, MaxHours, MaxDecisions} \subseteq Nat
    /\ HoldingDays \in Nat \ {0}
    /\ DayLength \in Nat \ {0}

VARIABLES
    now,    \* hours since the first midnight
    log,    \* the entries of the log file
    tmp,    \* the entries of the .tmp file, or None
    stored, \* decisions appended so far: the id of the newest entry
    call    \* call[p] : the local state of the run of propagate of p

vars == <<now, log, tmp, stored, call>>

\* A day is known by its number, and the hour it begins at.
Midnight(date) == date * DayLength
Days == {d \in 0..MaxHours : Midnight(d) <= MaxHours}

(***************************************************************************)
(* An entry of the log.  Its id is its place: ids are given in the order   *)
(* in which entries are appended, and a rewrite keeps that order, so that  *)
(* a file is known by the set of its entries.  The hour an entry was       *)
(* stored at is not in the file: the properties need it.                   *)
(***************************************************************************)
BarSets == SUBSET (0..MaxHours)

Entry ==
    [id: 1..MaxDecisions, at: 0..MaxHours, ticker: Tickers, date: Days,
     proposal: {"trade", "no_trade", "none"}, state: {"pending", "flat", "scored"},
     bars: BarSets]

Pending(e) == e.state = "pending"
Resolved(e) == ~Pending(e)
Key(e) == <<e.date, e.ticker>>

\* The local state of a run between two calls: where it is and for what.
Idle == [pc |-> "idle"]
Run(pc, ticker, date) == [pc |-> pc, ticker |-> ticker, date |-> date]

-----------------------------------------------------------------------------
(* Prices.                                                                 *)

\* Mutant: the whole day is taken for granted.
CandlesOfDay(date, t) == (Midnight(date) + 1)..Midnight(date + 1)

\* Hourly candles known at hour t that open after the trade date's midnight, within 24
\* hours of it.  A candle can be had as soon as it opens.
Candles(date, t) == {h \in (Midnight(date) + 1)..Midnight(date + 1) : h <= t}

\* Daily bars known at hour t, up to the one the position is closed at; a bar goes by its
\* midnight.  Weekends and holidays are left out.
DailyBars(date, t) == {Midnight(d) : d \in {d \in date..(date + HoldingDays) : Midnight(d) <= t}}

\* Mutant: a decision not to trade is scored like the others.
ScoredAnyway(e, t) ==
    IF e.ticker \in CryptoTickers THEN [state |-> "scored", bars |-> Candles(e.date, t)]
    ELSE [state |-> "scored", bars |-> DailyBars(e.date, t)]

\* evaluate_crypto_decision and _fetch_returns: what entry e comes to at hour t.  The
\* proposal is what the memory block of a crypto entry holds, not what the risk gate made
\* of it; stock entries have none and are scored whatever they say.
Outcome(e, t) ==
    IF e.ticker \in StockTickers THEN [state |-> "scored", bars |-> DailyBars(e.date, t)]
    ELSE IF e.proposal = "no_trade" THEN [state |-> "flat", bars |-> {}]
    ELSE [state |-> "scored", bars |-> Candles(e.date, t)]

\* Two bars are enough, and fewer leave the entry pending.
Due(e, t) == Outcome(e, t).state = "flat" \/ Cardinality(Outcome(e, t).bars) >= 2

-----------------------------------------------------------------------------
(* The entries of a file.                                                  *)

\* Mutant: a resolved entry of the day matches as well.
MatchedAgain(blocks, e) == \A f \in blocks : Key(f) = Key(e) => e.id <= f.id

\* An update is used up by the first pending entry of its date and ticker.
Matched(blocks, e) ==
    /\ Pending(e)
    /\ \A f \in blocks : Pending(f) /\ Key(f) = Key(e) => e.id <= f.id

\* The tag gets the outcome in place of "pending".
Scored(e, outcome) == [e EXCEPT !.state = outcome.state, !.bars = outcome.bars]

\* batch_update_with_outcomes, up to the rotation: updates is a function on keys.
Updated(blocks, updates) ==
    {IF Key(e) \in DOMAIN updates /\ Matched(blocks, e)
     THEN Scored(e, updates[Key(e)]) ELSE e : e \in blocks}

ResolvedIn(blocks) == {e \in blocks : Resolved(e)}

\* The last n entries of a file.
Newest(entries, n) ==
    {e \in entries : Cardinality({f \in entries : f.id > e.id}) < n}

\* Mutant: the cap is on all entries.
CappedAll(blocks) == IF MaxEntries = 0 THEN blocks ELSE Newest(blocks, MaxEntries)

\* _apply_rotation: pending entries stay, and of the resolved ones the last in the file.
Rotated(blocks) ==
    IF MaxEntries = 0 THEN blocks
    ELSE {e \in blocks : Pending(e)} \cup Newest(ResolvedIn(blocks), MaxEntries)

\* Those of entries that are of the ticker, and those that are of another.
OfTicker(entries, ticker) == {e \in entries : e.ticker = ticker}
OfOthers(entries, ticker) == {e \in entries : e.ticker # ticker}

\* Mutant: the file is read from its beginning.
OldestLessons(blocks, ticker) ==
    LET first(entries, n) == {e \in entries : Cardinality({f \in entries : f.id < e.id}) < n}
    IN  {e.id : e \in first(OfTicker(ResolvedIn(blocks), ticker), SameLessons)
                      \cup first(OfOthers(ResolvedIn(blocks), ticker), CrossLessons)}

\* get_past_context: lessons of the ticker, and fewer of the others.
PastContext(blocks, ticker) ==
    {e.id : e \in Newest(OfTicker(ResolvedIn(blocks), ticker), SameLessons)
                  \cup Newest(OfOthers(ResolvedIn(blocks), ticker), CrossLessons)}

-----------------------------------------------------------------------------
(* The steps of propagate.                                                 *)

Init ==
    /\ now = 0
    /\ log = {}
    /\ tmp = None
    /\ stored = 0
    /\ call = [p \in Procs |-> Idle]

Goto(p, c) == call' = [call EXCEPT ![p] = c]

Begin(p) ==
    /\ call[p].pc = "idle"
    /\ \E ticker \in Tickers, date \in {d \in Days : Midnight(d) <= now} :
         Goto(p, Run("load", ticker, date))
    /\ UNCHANGED <<now, log, tmp, stored>>

\* What a run knows once it has nothing more to score: the hour it looked at prices and
\* which entries no prices came for (the properties need both).
Resolution(pc, c, hour, skipped) ==
    [pc |-> pc, ticker |-> c.ticker, date |-> c.date, hour |-> hour, skipped |-> skipped]

\* get_pending_entries, those of the ticker.
LoadPending(p) ==
    /\ call[p].pc = "load"
    /\ LET c == call[p]
           found == {e \in log : Pending(e) /\ e.ticker = c.ticker}
       IN  Goto(p, IF found = {} THEN Resolution("context", c, now, {})
                   ELSE [pc |-> "evaluate", ticker |-> c.ticker, date |-> c.date,
                         found |-> found])
    /\ UNCHANGED <<now, log, tmp, stored>>

\* Mutant: one entry at a time.
OldestOnly(entries, t) ==
    LET oldest == {e \in entries : \A f \in entries : e.id <= f.id}
    IN  [k \in {Key(e) : e \in oldest} |-> Outcome(CHOOSE e \in oldest : TRUE, t)]

\* The last of the entries with a key.
LastOf(entries, k) ==
    CHOOSE e \in entries : /\ Key(e) = k
                           /\ \A f \in entries : Key(f) = k => f.id <= e.id

\* The updates for entries at hour t, by key: the last of a key wins.
UpdatesFor(entries, t) ==
    [k \in {Key(e) : e \in entries} |-> Outcome(LastOf(entries, k), t)]

\* Prices are fetched for each entry; a fetch can come back with nothing, and so can the
\* one for the benchmark.
Evaluate(p) ==
    /\ call[p].pc = "evaluate"
    /\ \E skipped \in SUBSET call[p].found :
         LET c == call[p]
             ids == {e.id : e \in skipped}
             updates == UpdatesFor({e \in c.found \ skipped : Due(e, now)}, now)
         IN  Goto(p, IF DOMAIN updates = {} THEN Resolution("context", c, now, ids)
                     ELSE [pc |-> "rewrite", ticker |-> c.ticker, date |-> c.date,
                           hour |-> now, skipped |-> ids, updates |-> updates])
    /\ UNCHANGED <<now, log, tmp, stored>>

\* batch_update_with_outcomes reads the file again.
Rewrite(p) ==
    /\ call[p].pc = "rewrite"
    /\ LET c == call[p]
       IN  Goto(p, [pc |-> "write", ticker |-> c.ticker, date |-> c.date, hour |-> c.hour,
                    skipped |-> c.skipped, blocks |-> Rotated(Updated(log, c.updates))])
    /\ UNCHANGED <<now, log, tmp, stored>>

\* The .tmp file has one name for all processes.
WriteTmp(p) ==
    /\ call[p].pc = "write"
    /\ tmp' = call[p].blocks
    /\ LET c == call[p] IN Goto(p, Resolution("replace", c, c.hour, c.skipped))
    /\ UNCHANGED <<now, log, stored>>

Replace(p) ==
    /\ call[p].pc = "replace"
    /\ tmp # None
    /\ log' = tmp
    /\ tmp' = None
    /\ LET c == call[p] IN Goto(p, Resolution("context", c, c.hour, c.skipped))
    /\ UNCHANGED <<now, stored>>

\* _run_graph: the lessons for the prompt, and then the graph.
ReadContext(p) ==
    /\ call[p].pc = "context"
    /\ LET c == call[p]
       IN  Goto(p, [pc |-> "graph", ticker |-> c.ticker, date |-> c.date,
                    told |-> PastContext(log, c.ticker)])
    /\ UNCHANGED <<now, log, tmp, stored>>

AlreadyPending(ticker, date) == \E e \in log : Pending(e) /\ Key(e) = <<date, ticker>>

\* store_decision reads the file for a pending entry of the day.
CheckPending(p) ==
    /\ call[p].pc = "graph"
    /\ LET c == call[p]
       IN  Goto(p, IF AlreadyPending(c.ticker, c.date) THEN Idle
                   ELSE Run("append", c.ticker, c.date))
    /\ UNCHANGED <<now, log, tmp, stored>>

\* A crypto run that ends without a proposal says NO_TRADE in its text.
ProposalsFor(ticker) == IF ticker \in CryptoTickers THEN {"trade", "no_trade"} ELSE {"none"}

\* An append is one write.
StoreDecision(p) ==
    /\ call[p].pc = "append"
    /\ stored < MaxDecisions
    /\ \E proposal \in ProposalsFor(call[p].ticker) :
         log' = log \cup {[id |-> stored + 1, at |-> now, ticker |-> call[p].ticker,
                            date |-> call[p].date, proposal |-> proposal,
                            state |-> "pending", bars |-> {}]}
    /\ stored' = stored + 1
    /\ Goto(p, Idle)
    /\ UNCHANGED <<now, tmp>>

\* A run raises or its process dies; a .tmp file stays where it is.
Stop(p) ==
    /\ call[p].pc # "idle"
    /\ Goto(p, Idle)
    /\ UNCHANGED <<now, log, tmp, stored>>

Tick ==
    /\ now < MaxHours
    /\ now' = now + 1
    /\ UNCHANGED <<log, tmp, stored, call>>

Next ==
    \/ \E p \in Procs :
         \/ Begin(p) \/ LoadPending(p) \/ Evaluate(p) \/ Rewrite(p) \/ WriteTmp(p)
         \/ Replace(p) \/ ReadContext(p) \/ CheckPending(p) \/ StoreDecision(p) \/ Stop(p)
    \/ Tick

Spec == Init /\ [][Next]_vars

-----------------------------------------------------------------------------
(* Properties.                                                             *)

Locations ==
    {"idle", "load", "evaluate", "rewrite", "write", "replace", "context", "graph", "append"}

\* The file and the temporary file hold entries, each id once, and a run is at a known step.
TypeOK ==
    /\ now \in 0..MaxHours
    /\ stored \in 0..MaxDecisions
    /\ \A blocks \in {log} \cup ({tmp} \ {None}) :
         /\ blocks \subseteq Entry
         /\ \A e \in blocks : e.id <= stored
         /\ \A e, f \in blocks : e.id = f.id => e = f
    /\ \A p \in Procs : call[p].pc \in Locations

\* Through every rewrite, rotation and crash, a pending entry leaves the log only resolved:
\* when the run that rewrites the file has scored it (default_config.py: "Pending entries
\* are never pruned").
PendingNeverPruned ==
    [][\A e \in log : Pending(e) /\ (\A f \in log' : e.id # f.id) =>
         \E p \in Procs : /\ call[p].pc = "replace"
                          /\ call[p].ticker = e.ticker
                          /\ e.id \notin call[p].skipped
                          /\ Due(e, call[p].hour)]_vars

\* The log as a journal: what its entries decide, by their places.
Decision(e) ==
    [topic |-> e.ticker, date |-> e.date,
     result |-> IF Pending(e) THEN <<"pending", {}>> ELSE <<e.state, e.bars>>]
Decisions(entries) ==
    [i \in {e.id : e \in entries} |-> Decision(CHOOSE e \in entries : e.id = i)]

\* Loading, scoring, rewriting and renaming are as one step, with crashes in between and
\* without: decisions are recorded once, scored together, each once, and forgotten
\* only for newer outcomes (MemoryLog implements DecisionLog).
Journal == INSTANCE DecisionLog WITH
    Topics <- Tickers,
    Dates <- Days,
    Results <- {"flat", "scored"} \X BarSets,
    Unsettled <- <<"pending", {}>>,
    Cap <- MaxEntries,
    journal <- Decisions(log),
    last <- stored

ImplementsJournal == Journal!Spec

\* An entry is scored with prices of its own day and after, whatever other entries its
\* ticker has, and a proposal not to trade is not scored as a position.
OwnOutcome ==
    \A e \in ResolvedIn(log) :
        /\ e.state = "flat" <=> e.proposal = "no_trade"
        /\ e.state = "scored" => Min(e.bars) - Midnight(e.date) \in {0, 1}

\* When a run goes on to its graph it has resolved every entry of its ticker that prices
\* had come for: no two runs of the same ticker leave one behind between them.
DueIsResolved ==
    \A p \in Procs : call[p].pc = "context" =>
        \A e \in log :
            Pending(e) /\ e.ticker = call[p].ticker /\ e.id \notin call[p].skipped
                => ~Due(e, call[p].hour)

\* A lesson a run is not told of gave way to newer ones of its kind: those of the run's own
\* ticker are never crowded out by others (get_past_context).
ToldTheNewest ==
    \A p \in Procs : call[p].pc = "graph" =>
        \A e \in ResolvedIn(log) : e.id \notin call[p].told =>
            LET own == e.ticker = call[p].ticker
                rivals == {f \in ResolvedIn(log) :
                             f.id \in call[p].told /\ (f.ticker = call[p].ticker) = own}
            IN  /\ Cardinality(rivals) = IF own THEN SameLessons ELSE CrossLessons
                /\ \A f \in rivals : e.id < f.id

\* "Need candles strictly after the decision timestamp": a decision of today is scored with
\* no candle from before it; the one of its hour may pass.
ScoredAfterwards ==
    \A e \in ResolvedIn(log) :
        e.ticker \in CryptoTickers /\ Midnight(e.date) <= e.at /\ e.at < Midnight(e.date + 1)
            => \A bar \in e.bars : bar >= e.at
=============================================================================
