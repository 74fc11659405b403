--------------------------- MODULE PaperExecution ---------------------------
(***************************************************************************)
(* Simulated execution of risk-approved proposals into the SQLite paper    *)
(* store: tradingagents/paper/execution.py over paper/portfolio.py and     *)
(* paper/database.py.                                                      *)
(*                                                                         *)
(* One strategy's portfolio is modelled (the portfolio row, its positions, *)
(* and the strategy_runs, orders, fills and equity_snapshots tables, all   *)
(* keyed by the strategy).  Several processes -- two terminals, a loop and *)
(* a terminal -- call PaperExecutor.execute on the same database file.     *)
(* execute opens a fresh connection for every query outside its main       *)
(* transaction, so each of those queries is a step of its own here and     *)
(* the steps of different processes interleave; a BEGIN IMMEDIATE ...      *)
(* COMMIT block is one step.  At any point between its steps a process can *)
(* be killed, or an exception ("database is locked", a full disk) can make *)
(* the call give up: the open transaction is rolled back and nothing else  *)
(* is undone.                                                              *)
(*                                                                         *)
(* Decimals are integers here and quantities whole lots; the MC modules    *)
(* choose prices that every division below divides, so that no accounting  *)
(* identity is lost to rounding.                                           *)
(***************************************************************************)
EXTENDS Integers, Sequences, FiniteSets, Functions

CONSTANTS
    Procs,            \* processes that execute proposals
    Instruments,      \* display symbols
    SnapshotIds,      \* what a proposal may carry as snapshot_id
    Requests,         \* Requests[p] : the execute() calls process p may make
    StartingBalance,  \* paper_starting_balance
    FeeBps,           \* paper_fee_bps
    SlippageBps,      \* paper_slippage_bps
    MaxLots,          \* bound: the largest order, in lots
    None              \* no row, no price

(***************************************************************************)
(* An execute() call: the proposal (id, inst, action), the risk decision   *)
(* (approved, final, pct, lev) and the market snapshot (quoted, mid, mark). *)
(* The code never compares the instrument of the proposal with the one the *)
(* snapshot quotes, nor their snapshot ids.                                *)
(***************************************************************************)
Actions == {"LONG", "SHORT", "NO_TRADE"}
Sides == {"LONG", "SHORT", "FLAT"}
Prices == Nat \ {0}

Request ==
    [id: SnapshotIds, inst: Instruments, action: Actions,
     approved: BOOLEAN, final: Actions, pct: Nat, lev: Nat \ {0},
     quoted: Instruments, mid: Prices \cup {None}, mark: Prices \cup {None}]

\* A row of the positions table (stop_loss and take_profits are left out).
PositionRow ==
    [side: Sides, qty: Nat, entry: Int, lev: Nat \ {0}, upnl: Int,
     realized: Int, mark: Int]

ASSUME ExecutionAssumption ==
    /\ IsFiniteSet(Instruments)
    /\ Requests \in [Procs -> SUBSET Request]
    /\ StartingBalance \in Nat
    /\ FeeBps \in Nat
    /\ SlippageBps \in 0..9999
    /\ MaxLots \in Nat
    /\ None \notin Int
    /\ None \notin Request
    /\ None \notin PositionRow

VARIABLES
    cash,       \* portfolios.cash_balance, None before the row exists
    positions,  \* positions[i] : the row of instrument i, or None
    runs,       \* runs[s] : strategy_runs.execution_status, or "none"
    orders,     \* the orders table, in insertion order
    fills,      \* the fills table, in insertion order
    equities,   \* the equity_snapshots table, in insertion order
    exec        \* exec[p] : the local state of the execute() call of p

dbVars == <<cash, positions, runs, orders, fills, equities>>
vars == <<cash, positions, runs, orders, fills, equities, exec>>

-----------------------------------------------------------------------------
(* Prices and sizes.                                                       *)

\* mid price, or the mark price when the book gave no mid.
QuotedPrice(r) == IF r.mid = None THEN r.mark ELSE r.mid

MarkPrice(r) == IF r.mark = None THEN QuotedPrice(r) ELSE r.mark

Slip(r) == (QuotedPrice(r) * SlippageBps) \div 10000

\* A LONG pays the slippage, a SHORT gives it up.
FillPrice(r) ==
    IF r.final = "LONG" THEN QuotedPrice(r) + Slip(r) ELSE QuotedPrice(r) - Slip(r)

\* q lots are what approved_position_pct of the equity buys at the fill price.
IsOrderSize(q, equity, r) ==
    /\ q * FillPrice(r) * 100 <= equity * r.pct
    /\ equity * r.pct < (q + 1) * FillPrice(r) * 100

Notional(q, r) == q * FillPrice(r)
Fee(q, r) == (Notional(q, r) * FeeBps) \div 10000
Margin(q, r) == Notional(q, r) \div r.lev

IsOpen(row) == row # None /\ row.side # "FLAT" /\ row.qty > 0

\* Unrealized profit of a row at a mark.
UnrealizedAt(row, mark) ==
    CASE row.side = "LONG"  -> (mark - row.entry) * row.qty
      [] row.side = "SHORT" -> (row.entry - mark) * row.qty
      [] OTHER -> 0

Marked(row, mark) ==
    [row EXCEPT !.mark = mark, !.upnl = UnrealizedAt(row, mark)]

TotalUnrealized(rows) ==
    LET upnl == [i \in Instruments |-> IF rows[i] = None THEN 0 ELSE rows[i].upnl]
    IN  SumFunction(upnl)

-----------------------------------------------------------------------------
(* The position after an order of q lots on top of the row prior.          *)

LesserOf(a, b) == IF a <= b THEN a ELSE b

SameSide(prior, r) == IsOpen(prior) /\ prior.side = r.final
Opposes(prior, r) == IsOpen(prior) /\ prior.side # r.final

RealizedBy(prior, q, r) ==
    LET closed == LesserOf(prior.qty, q)
    IN  IF ~Opposes(prior, r) THEN 0
        ELSE IF prior.side = "LONG" THEN (FillPrice(r) - prior.entry) * closed
        ELSE (prior.entry - FillPrice(r)) * closed

\* Mutant: an order larger than the position it closes does not flip it.
NewQtyWithoutFlip(prior, q, r) ==
    IF SameSide(prior, r) THEN prior.qty + q
    ELSE IF ~Opposes(prior, r) THEN q ELSE prior.qty - LesserOf(prior.qty, q)

\* Mutant: the smaller part of a crossing order is forgotten.
NewQtyUnclamped(prior, q, r) ==
    IF SameSide(prior, r) THEN prior.qty + q
    ELSE IF ~Opposes(prior, r) THEN q ELSE prior.qty - q

NewQty(prior, q, r) ==
    IF SameSide(prior, r) THEN prior.qty + q
    ELSE IF ~Opposes(prior, r) THEN q
    ELSE IF prior.qty > q THEN prior.qty - q ELSE q - prior.qty

NewSide(prior, q, r) ==
    IF ~Opposes(prior, r) THEN r.final
    ELSE IF prior.qty > q THEN prior.side
    ELSE IF prior.qty = q THEN "FLAT" ELSE r.final

\* Mutant: a partial close restates the entry price.
NewEntryAtFill(prior, q, r) ==
    IF SameSide(prior, r)
    THEN (prior.entry * prior.qty + FillPrice(r) * q) \div (prior.qty + q)
    ELSE FillPrice(r)

NewEntry(prior, q, r) ==
    IF SameSide(prior, r)
    THEN (prior.entry * prior.qty + FillPrice(r) * q) \div (prior.qty + q)
    ELSE IF Opposes(prior, r) /\ prior.qty > q THEN prior.entry
    ELSE FillPrice(r)

\* realized_pnl accumulates on an open row and restarts on a flat one.
NewRealized(prior, q, r) ==
    IF IsOpen(prior) THEN prior.realized + RealizedBy(prior, q, r) ELSE 0

\* The whole row is rewritten; leverage becomes that of this order.
NewRow(prior, q, r) ==
    Marked([side |-> NewSide(prior, q, r), qty |-> NewQty(prior, q, r),
            entry |-> NewEntry(prior, q, r), lev |-> r.lev, upnl |-> 0,
            realized |-> NewRealized(prior, q, r), mark |-> MarkPrice(r)],
           MarkPrice(r))

RowMargin(row) == (row.qty * row.entry) \div row.lev

\* A partial close releases margin in proportion.
Freed(prior, q) == (RowMargin(prior) * LesserOf(prior.qty, q)) \div prior.qty

\* Margin and profit that move between cash and the position.
CashFlow(prior, q, r) ==
    LET side == NewSide(prior, q, r)
    IN  IF ~Opposes(prior, r) THEN -Margin(q, r)
        ELSE IF side = "FLAT" THEN RowMargin(prior) + RealizedBy(prior, q, r)
        ELSE IF side = prior.side
             THEN Freed(prior, q) + RealizedBy(prior, q, r)
        ELSE RowMargin(prior) + RealizedBy(prior, q, r)
             - (NewQty(prior, q, r) * NewEntry(prior, q, r)) \div r.lev

-----------------------------------------------------------------------------
(* The execute() call of one process.                                      *)

Locations == {"idle", "open", "read_cash", "read_rows", "write_mark", "size",
              "commit", "refuse"}
AfterOpen == {"read_cash", "read_rows", "write_mark", "size", "commit"}
Replies == {"none", "filled", "duplicate", "rejected", "error"}

Call(pc, req, reply) ==
    [pc |-> pc, req |-> req, cash |-> 0, row |-> None, equity |-> 0,
     qty |-> 0, reply |-> reply]

\* Between calls: what the last one answered.
Idle(reply) == Call("idle", None, reply)

Return(p, reply) == exec' = [exec EXCEPT ![p] = Idle(reply)]

Executable(r) ==
    /\ r.approved
    /\ r.final # "NO_TRADE"
    /\ r.action # "NO_TRADE"

\* execute() is called: the refusals that leave no trace, the first dedupe
\* query on its own connection, and the price check.
Start(p) ==
    /\ exec[p].pc = "idle"
    /\ \E r \in Requests[p] :
         exec' = [exec EXCEPT ![p] =
                    CASE ~Executable(r) -> Idle("rejected")
                      [] Executable(r) /\ runs[r.id] # "none" -> Idle("duplicate")
                      [] Executable(r) /\ runs[r.id] = "none" ->
                           Call(IF QuotedPrice(r) = None THEN "refuse" ELSE "open",
                                r, "none")]
    /\ UNCHANGED dbVars

\* Mutant: INSERT OR REPLACE.
RunsReplaced(id) == [runs EXCEPT ![id] = "rejected"]

\* INSERT under UNIQUE(strategy, snapshot_id), its failure suppressed.
RunsAfterRefusal(id) ==
    IF runs[id] = "none" THEN [runs EXCEPT ![id] = "rejected"] ELSE runs

\* _rejected(record_run=True): insert the run unless the id has one.
RecordRefusal(p) ==
    /\ exec[p].pc = "refuse"
    /\ runs' = RunsAfterRefusal(exec[p].req.id)
    /\ Return(p, "rejected")
    /\ UNCHANGED <<cash, positions, orders, fills, equities>>

\* Mutant: the row is created again over the one that exists.
BalanceRecreated == StartingBalance

BalanceOnOpen == IF cash = None THEN StartingBalance ELSE cash

\* PaperPortfolio(...): get_or_create_portfolio in a transaction of its own.
OpenPortfolio(p) ==
    /\ exec[p].pc = "open"
    /\ cash' = BalanceOnOpen
    /\ exec' = [exec EXCEPT ![p].pc = "read_cash"]
    /\ UNCHANGED <<positions, runs, orders, fills, equities>>

\* equity(): cash_balance through refresh().
ReadCash(p) ==
    /\ exec[p].pc = "read_cash"
    /\ exec' = [exec EXCEPT ![p].pc = "read_rows", ![p].cash = cash]
    /\ UNCHANGED dbVars

\* equity() -> mark_to_market(): list_positions on another connection.  The row
\* of the quoted instrument, marked at the mid price, is kept for write_mark.
ReadRows(p) ==
    /\ exec[p].pc = "read_rows"
    /\ LET r    == exec[p].req
           row  == positions[r.quoted]
           kept == IF row = None THEN None ELSE Marked(row, QuotedPrice(r))
           seen == [positions EXCEPT ![r.quoted] = kept]
       IN  exec' = [exec EXCEPT ![p].pc = IF row = None THEN "size" ELSE "write_mark",
                                ![p].row = kept,
                                ![p].equity = exec[p].cash + TotalUnrealized(seen)]
    /\ UNCHANGED dbVars

\* mark_to_market(): the whole row goes back, as it was read, in a transaction
\* of its own.
WriteMark(p) ==
    /\ exec[p].pc = "write_mark"
    /\ positions' = [positions EXCEPT ![exec[p].req.quoted] = exec[p].row]
    /\ exec' = [exec EXCEPT ![p].pc = "size", ![p].row = None]
    /\ UNCHANGED <<cash, runs, orders, fills, equities>>

\* The order is sized on the equity just read, outside any transaction.
Size(p) ==
    /\ exec[p].pc = "size"
    /\ \/ \E q \in 1..MaxLots :
            /\ IsOrderSize(q, exec[p].equity, exec[p].req)
            /\ exec' = [exec EXCEPT ![p].pc = "commit", ![p].qty = q]
       \/ /\ exec[p].equity * exec[p].req.pct < FillPrice(exec[p].req) * 100
          /\ exec' = [exec EXCEPT ![p].pc = "refuse"]
    /\ UNCHANGED dbVars

-----------------------------------------------------------------------------
(* The main transaction.  It ends in one of three ways.                    *)

InTransaction(p) == exec[p].pc = "commit"

\* Mutant: the dedupe of the first query is trusted.
NeverDecided(id) == FALSE

\* The dedupe query, repeated under the write lock (and, behind it, the UNIQUE
\* constraint of strategy_runs, which this query never lets the insert meet).
Decided(id) == runs[id] # "none"

RunRecorded(id, status) == [runs EXCEPT ![id] = status]

\* Mutant: the balance read while sizing is used in the transaction.
StaleBalance(p) == exec[p].cash

\* cash_balance, read again inside the transaction.
Balance(p) == cash

CommitDuplicate(p) ==
    /\ InTransaction(p)
    /\ Decided(exec[p].req.id)
    /\ Return(p, "duplicate")
    /\ UNCHANGED dbVars

CanPay(p) ==
    LET r == exec[p].req
        q == exec[p].qty
    IN  Balance(p) >= Margin(q, r) + Fee(q, r)

OrderRow(p, status) ==
    [id |-> exec[p].req.id, inst |-> exec[p].req.inst, side |-> exec[p].req.final,
     qty |-> exec[p].qty, status |-> status]

\* A refusal that is committed: the run and a rejected order.
CommitInsufficient(p) ==
    /\ InTransaction(p)
    /\ ~Decided(exec[p].req.id)
    /\ ~CanPay(p)
    /\ runs' = RunRecorded(exec[p].req.id, "rejected_insufficient_cash")
    /\ orders' = Append(orders, OrderRow(p, "rejected"))
    /\ Return(p, "rejected")
    /\ UNCHANGED <<cash, positions, fills, equities>>

FillRow(p) ==
    LET r == exec[p].req
        q == exec[p].qty
    IN  [id |-> r.id, inst |-> r.inst, side |-> r.final,
         qty |-> q, price |-> FillPrice(r), fee |-> Fee(q, r),
         realized |-> RealizedBy(positions[r.inst], q, r)]

RealizedTotal(rows) ==
    SumFunction([i \in DOMAIN rows |-> rows[i].realized])

\* record_equity_snapshot(conn): cash and unrealized profit are read on the
\* transaction's connection, fills and realized profit on connections of their
\* own, which do not see what this transaction has not committed yet.
EquityRow(newCash, newRows) ==
    LET oldRows == [i \in {j \in Instruments : positions[j] # None} |-> positions[i]]
    IN  [equity |-> newCash + TotalUnrealized(newRows),
         cash |-> newCash,
         upnl |-> TotalUnrealized(newRows),
         realized |-> IF fills = <<>> THEN RealizedTotal(oldRows)
                                      ELSE RealizedTotal(fills)]

\* Cash, order, fill, position, run and equity snapshot, all or none.
CommitFill(p) ==
    LET r       == exec[p].req
        q       == exec[p].qty
        prior   == positions[r.inst]
        newCash == Balance(p) - Fee(q, r) + CashFlow(prior, q, r)
        newRows == [positions EXCEPT ![r.inst] = NewRow(prior, q, r)]
    IN  /\ InTransaction(p)
        /\ ~Decided(r.id)
        /\ CanPay(p)
        /\ cash' = newCash
        /\ orders' = Append(orders, OrderRow(p, "filled"))
        /\ fills' = Append(fills, FillRow(p))
        /\ positions' = newRows
        /\ runs' = RunRecorded(r.id, "filled")
        /\ equities' = Append(equities, EquityRow(newCash, newRows))
        /\ Return(p, "filled")

\* The process dies or the call raises: what was committed stays, the caller
\* (if it lives) is told "error", and may call again.
Abort(p) ==
    /\ exec[p].pc # "idle"
    /\ Return(p, "error")
    /\ UNCHANGED dbVars

-----------------------------------------------------------------------------
Init ==
    /\ cash = None
    /\ positions = [i \in Instruments |-> None]
    /\ runs = [s \in SnapshotIds |-> "none"]
    /\ orders = <<>>
    /\ fills = <<>>
    /\ equities = <<>>
    /\ exec = [p \in Procs |-> Idle("none")]

Step(p) ==
    \/ RecordRefusal(p)
    \/ OpenPortfolio(p)
    \/ ReadCash(p)
    \/ ReadRows(p)
    \/ WriteMark(p)
    \/ Size(p)
    \/ CommitDuplicate(p)
    \/ CommitInsufficient(p)
    \/ CommitFill(p)

Next == \E p \in Procs : Start(p) \/ Step(p) \/ Abort(p)

Spec == Init /\ [][Next]_vars

-----------------------------------------------------------------------------
(* Type invariant.                                                         *)

RunStatuses == {"none", "filled", "rejected", "rejected_insufficient_cash"}

OrderRows ==
    [id: SnapshotIds, inst: Instruments, side: {"LONG", "SHORT"}, qty: Nat,
     status: {"filled", "rejected"}]

FillRows ==
    [id: SnapshotIds, inst: Instruments, side: {"LONG", "SHORT"},
     qty: Nat, price: Int, fee: Int, realized: Int]

EquityRows == [equity: Int, cash: Int, upnl: Int, realized: Int]

Calls ==
    [pc: Locations, req: Request \cup {None}, cash: Int, row: PositionRow \cup {None},
     equity: Int, qty: Nat, reply: Replies]

\* What a call may hold at each location of execute().
CallOK(e) ==
    /\ e \in Calls
    /\ e.pc = "idle" => e.req = None
    /\ e.pc # "idle" => e.req # None /\ Executable(e.req)
    /\ e.pc \notin {"idle", "refuse"} => QuotedPrice(e.req) # None
    /\ e.pc = "write_mark" => e.row # None
    /\ e.pc = "commit" => e.qty > 0

\* The tables hold rows of their types and every call is somewhere in execute()
\* with what that place needs.
TypeOK ==
    /\ cash \in Int \cup {None}
    /\ positions \in [Instruments -> PositionRow \cup {None}]
    /\ runs \in [SnapshotIds -> RunStatuses]
    /\ orders \in Seq(OrderRows)
    /\ fills \in Seq(FillRows)
    /\ equities \in Seq(EquityRows)
    /\ DOMAIN exec = Procs
    /\ \A p \in Procs :
         /\ CallOK(exec[p])
         /\ exec[p].pc \in AfterOpen => cash # None

-----------------------------------------------------------------------------
(* The journal.                                                            *)

\* No snapshot id of the strategy is traded twice, whatever calls race, die and
\* are retried (execute(): the query before the transaction and the one in it).
AtMostOneFill ==
    \A m, n \in DOMAIN fills : fills[m].id = fills[n].id => m = n

IdsOf(rows) == {rows[n].id : n \in DOMAIN rows}
OrderIds(status) ==
    {orders[n].id : n \in {m \in DOMAIN orders : orders[m].status = status}}

\* The four journals tell one story after every commit and every crash: an id is
\* "filled" exactly when it has a fill and a filled order, and
\* "rejected_insufficient_cash" exactly when it has a rejected order; each fill
\* has its equity snapshot.
JournalAgrees ==
    /\ \A s \in SnapshotIds :
         /\ runs[s] = "filled" <=> s \in IdsOf(fills)
         /\ runs[s] = "filled" <=> s \in OrderIds("filled")
         /\ runs[s] = "rejected_insufficient_cash" <=> s \in OrderIds("rejected")
    /\ Len(equities) = Len(fills)

\* What was decided for an id, and the trades, as the journal tells them.
Verdict ==
    [s \in SnapshotIds |->
        CASE runs[s] = "none" -> "undecided"
          [] runs[s] = "filled" -> "executed"
          [] OTHER -> "refused"]

Trades == [n \in DOMAIN fills |-> fills[n].id]

\* The store, seen through the journal, behaves as the abstract ledger.
Ledger ==
    INSTANCE PaperLedger WITH
        NoPortfolio <- None, verdict <- Verdict, trades <- Trades, balance <- cash

\* execute() with its many connections implements the ledger in which a decision
\* is final and comes with its trade and its cash movement in one instant.
ImplementsLedger == Ledger!Spec

-----------------------------------------------------------------------------
(* The accounts.                                                           *)

Signed(side, amount) ==
    CASE side = "LONG" -> amount [] side = "SHORT" -> -amount [] OTHER -> 0

SignedQty(i) ==
    IF positions[i] = None THEN 0 ELSE Signed(positions[i].side, positions[i].qty)

FillsOf(i) == {n \in DOMAIN fills : fills[n].inst = i}

SumFills(i, f(_)) == SumFunction([n \in FillsOf(i) |-> f(fills[n])])

\* The one net position of an instrument is what its fills add up to, through
\* adds, partial closes, flips and rows that went flat and were opened again.
NetPosition ==
    \A i \in Instruments :
        SignedQty(i) = SumFills(i, LAMBDA f : Signed(f.side, f.qty))

\* Profit is neither invented nor lost by averaged entries and partial closes:
\* what was paid for an instrument less what it was sold for is the cost of the
\* open position less the profit reported as realized on its fills.
ProfitIdentity ==
    \A i \in Instruments :
        SumFills(i, LAMBDA f : Signed(f.side, f.qty * f.price))
          = (IF positions[i] = None THEN 0 ELSE SignedQty(i) * positions[i].entry)
            - SumFills(i, LAMBDA f : f.realized)

MarginHeld ==
    SumFunction([i \in Instruments |->
                   IF positions[i] = None THEN 0 ELSE RowMargin(positions[i])])

\* Money is conserved: cash plus the margin held for open positions is the
\* starting balance plus realized profit less fees.
MarginConservation ==
    cash # None =>
        cash + MarginHeld
          = StartingBalance + SumFunction([n \in DOMAIN fills |->
                                             fills[n].realized - fills[n].fee])

=============================================================================
