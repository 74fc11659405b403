------------------------ MODULE PaperExecutionProofs ------------------------
(***************************************************************************)
(* Theorems about PaperExecution and the report of PaperPerformance, for   *)
(* any processes, instruments, ids, calls, fees and bounds.                *)
(***************************************************************************)
EXTENDS PaperPerformance, SequenceTheorems, DataLemmas

(***************************************************************************)
(* The numbers of an order are integers.                                   *)
(***************************************************************************)
\* Integer division by a positive number.
LEMMA DivIsInt == ASSUME NEW a \in Int, NEW b \in Int, b > 0 PROVE a \div b \in Int
  OBVIOUS

\* A quoted price makes the mark and the fill price numbers.
LEMMA FillPriceIsInt ==
    ASSUME NEW r \in Request, QuotedPrice(r) # None
    PROVE  /\ QuotedPrice(r) \in Nat
           /\ MarkPrice(r) \in Nat
           /\ FillPrice(r) \in Int
  <1>1. QuotedPrice(r) \in Nat /\ MarkPrice(r) \in Nat
    BY DEF Request, QuotedPrice, MarkPrice, Prices
  <1>2. Slip(r) \in Int
    BY <1>1, ExecutionAssumption DEF Slip
  <1>3. QED
    BY <1>1, <1>2 DEF FillPrice

\* So are notional, fee and margin of an order.
LEMMA CostsAreInts ==
    ASSUME NEW r \in Request, QuotedPrice(r) # None, NEW q \in Nat
    PROVE  /\ Notional(q, r) \in Int
           /\ Fee(q, r) \in Int
           /\ Margin(q, r) \in Int
  <1>1. Notional(q, r) \in Int
    BY FillPriceIsInt DEF Notional
  <1>2. r.lev \in Int /\ r.lev > 0
    BY DEF Request
  <1>3. Notional(q, r) * FeeBps \in Int
    BY <1>1, ExecutionAssumption
  <1>4. QED
    BY <1>1, <1>2, <1>3, DivIsInt DEF Fee, Margin

\* Marking a position row at a price keeps it a row (mark_to_market).
LEMMA MarkedIsRow ==
    ASSUME NEW row \in PositionRow, NEW mark \in Int
    PROVE  Marked(row, mark) \in PositionRow
  <1>1. UnrealizedAt(row, mark) \in Int
    BY DEF UnrealizedAt, PositionRow
  <1>2. QED
    BY <1>1 DEF Marked, PositionRow

\* prior is what the positions table holds for an instrument.
LEMMA RealizedIsInt ==
    ASSUME NEW r \in Request, QuotedPrice(r) # None, NEW q \in Nat,
           NEW prior \in PositionRow \cup {None}
    PROVE  RealizedBy(prior, q, r) \in Int
  <1>1. CASE ~Opposes(prior, r)
    BY <1>1 DEF RealizedBy
  <1>2. CASE Opposes(prior, r)
    <2>1. prior \in PositionRow
      BY <1>2 DEF Opposes, IsOpen
    <2>2. prior.qty \in Int /\ prior.entry \in Int /\ LesserOf(prior.qty, q) \in Int
      BY <2>1 DEF PositionRow, LesserOf
    <2>3. QED
      BY <1>2, <2>2, FillPriceIsInt DEF RealizedBy
  <1>3. QED
    BY <1>1, <1>2

\* Side, quantity, entry and realized profit of the position after an order have
\* their types: in particular the quantity is never negative.
LEMMA NewFieldsAreTyped ==
    ASSUME NEW r \in Request, QuotedPrice(r) # None, Executable(r),
           NEW q \in Nat, q > 0, NEW prior \in PositionRow \cup {None}
    PROVE  /\ NewSide(prior, q, r) \in Sides
           /\ NewQty(prior, q, r) \in Nat
           /\ NewEntry(prior, q, r) \in Int
           /\ NewRealized(prior, q, r) \in Int
  <1>1. r.final \in {"LONG", "SHORT"} /\ r.lev \in Nat \ {0}
    BY DEF Request, Actions, Executable
  <1>2. IsOpen(prior) => /\ prior.side \in Sides /\ prior.qty \in Nat
                         /\ prior.entry \in Int /\ prior.realized \in Int
    BY DEF IsOpen, PositionRow
  <1>3. NewSide(prior, q, r) \in Sides
    BY <1>1, <1>2 DEF NewSide, Opposes, Sides
  <1>4. NewQty(prior, q, r) \in Nat
    BY <1>2 DEF NewQty, SameSide, Opposes
  <1>5. NewEntry(prior, q, r) \in Int
    <2>1. CASE SameSide(prior, r)
      <3>1. prior.qty + q \in Int /\ prior.qty + q > 0
        BY <1>2, <2>1 DEF SameSide
      <3>2. prior.entry * prior.qty + FillPrice(r) * q \in Int
        BY <1>2, <2>1, FillPriceIsInt DEF SameSide
      <3>3. QED
        BY <2>1, <3>1, <3>2, DivIsInt DEF NewEntry
    <2>2. CASE ~SameSide(prior, r)
      BY <1>2, <2>2, FillPriceIsInt DEF NewEntry, Opposes
    <2>3. QED
      BY <2>1, <2>2
  <1>6. NewRealized(prior, q, r) \in Int
    BY <1>2, RealizedIsInt DEF NewRealized
  <1>7. QED
    BY <1>3, <1>4, <1>5, <1>6

\* What upsert_position writes after a fill is a position row.
LEMMA NewRowIsRow ==
    ASSUME NEW r \in Request, QuotedPrice(r) # None, Executable(r),
           NEW q \in Nat, q > 0, NEW prior \in PositionRow \cup {None}
    PROVE  NewRow(prior, q, r) \in PositionRow
  <1> DEFINE base == [side |-> NewSide(prior, q, r), qty |-> NewQty(prior, q, r),
                      entry |-> NewEntry(prior, q, r), lev |-> r.lev, upnl |-> 0,
                      realized |-> NewRealized(prior, q, r), mark |-> MarkPrice(r)]
  <1>1. r.lev \in Nat \ {0} /\ MarkPrice(r) \in Int
    BY FillPriceIsInt DEF Request
  <1>2. base \in PositionRow
    BY <1>1, NewFieldsAreTyped DEF PositionRow
  <1>3. Marked(base, MarkPrice(r)) \in PositionRow
    BY <1>1, <1>2, MarkedIsRow
  <1>4. QED
    BY <1>3 DEF NewRow

\* The margin and profit an order moves is a number: no division is by zero.
LEMMA CashFlowIsInt ==
    ASSUME NEW r \in Request, QuotedPrice(r) # None, Executable(r),
           NEW q \in Nat, q > 0, NEW prior \in PositionRow \cup {None}
    PROVE  CashFlow(prior, q, r) \in Int
  <1>1. CASE ~Opposes(prior, r)
    BY <1>1, CostsAreInts DEF CashFlow
  <1>2. CASE Opposes(prior, r)
    <2>1. /\ prior.qty \in Int /\ prior.qty > 0
          /\ prior.entry \in Int /\ prior.lev \in Int /\ prior.lev > 0
      BY <1>2 DEF Opposes, IsOpen, PositionRow
    <2>2. RowMargin(prior) \in Int
      BY <2>1, DivIsInt DEF RowMargin
    <2>3. Freed(prior, q) \in Int
      <3>1. RowMargin(prior) * LesserOf(prior.qty, q) \in Int
        BY <2>1, <2>2 DEF LesserOf
      <3>2. QED
        BY <2>1, <3>1, DivIsInt DEF Freed
    <2>4. (NewQty(prior, q, r) * NewEntry(prior, q, r)) \div r.lev \in Int
      <3>1. NewQty(prior, q, r) \in Int /\ NewEntry(prior, q, r) \in Int
        BY NewFieldsAreTyped
      <3>2. r.lev \in Int /\ r.lev > 0
        BY DEF Request
      <3>3. NewQty(prior, q, r) * NewEntry(prior, q, r) \in Int
        BY <3>1
      <3>4. QED
        BY <3>2, <3>3, DivIsInt
    <2>5. RealizedBy(prior, q, r) \in Int
      BY RealizedIsInt
    <2>6. QED
      BY <1>2, <2>2, <2>3, <2>4, <2>5 DEF CashFlow
  <1>3. QED
    BY <1>1, <1>2

\* The unrealized profit of all rows is a number.
LEMMA TotalUnrealizedIsInt ==
    ASSUME NEW rows \in [Instruments -> PositionRow \cup {None}]
    PROVE  TotalUnrealized(rows) \in Int
  <1> DEFINE upnl == [i \in Instruments |-> IF rows[i] = None THEN 0 ELSE rows[i].upnl]
  <1>1. \A i \in Instruments : upnl[i] \in Int
    BY DEF PositionRow
  <1>2. SumFunctionOnSet(upnl, Instruments) \in Int
    BY <1>1, SumIsInt, ExecutionAssumption
  <1>3. QED
    BY <1>2 DEF TotalUnrealized, SumFunction

\* So is the realized profit of a table.
LEMMA RealizedTotalIsInt ==
    ASSUME NEW rows, IsFiniteSet(DOMAIN rows), \A i \in DOMAIN rows : rows[i].realized \in Int
    PROVE  RealizedTotal(rows) \in Int
  <1> DEFINE realized == [i \in DOMAIN rows |-> rows[i].realized]
  <1>1. \A i \in DOMAIN rows : realized[i] \in Int
    OBVIOUS
  <1>2. SumFunctionOnSet(realized, DOMAIN rows) \in Int
    BY <1>1, SumIsInt
  <1>3. QED
    BY <1>2 DEF RealizedTotal, SumFunction

\* The row that record_equity_snapshot appends is a row.
LEMMA EquityRowIsRow ==
    ASSUME TypeOK, NEW newCash \in Int,
           NEW newRows \in [Instruments -> PositionRow \cup {None}]
    PROVE  EquityRow(newCash, newRows) \in EquityRows
  <1> DEFINE oldRows == [i \in {j \in Instruments : positions[j] # None} |-> positions[i]]
  <1>1. TotalUnrealized(newRows) \in Int
    BY TotalUnrealizedIsInt
  <1>2. RealizedTotal(oldRows) \in Int
    <2>1. IsFiniteSet(DOMAIN oldRows)
      BY FS_Subset, ExecutionAssumption
    <2>2. \A i \in DOMAIN oldRows : oldRows[i].realized \in Int
      BY DEF TypeOK, PositionRow
    <2>. HIDE DEF oldRows
    <2>3. QED
      BY <2>1, <2>2, RealizedTotalIsInt
  <1>3. RealizedTotal(fills) \in Int
    <2>1. fills \in Seq(FillRows)
      BY DEF TypeOK
    <2>2. DOMAIN fills = 1..Len(fills) /\ Len(fills) \in Nat
      BY <2>1
    <2>3. IsFiniteSet(DOMAIN fills)
      BY <2>2, FS_Interval
    <2>4. \A n \in DOMAIN fills : fills[n].realized \in Int
      <3>1. \A n \in DOMAIN fills : fills[n] \in FillRows
        BY <2>1, <2>2
      <3>2. \A f \in FillRows : f.realized \in Int
        BY DEF FillRows
      <3>3. QED
        BY <3>1, <3>2
    <2>5. QED
      BY <2>3, <2>4, RealizedTotalIsInt
  <1>. DEFINE realized == IF fills = <<>> THEN RealizedTotal(oldRows) ELSE RealizedTotal(fills)
  <1>4. realized \in Int
    BY <1>2, <1>3
  <1>5. newCash + TotalUnrealized(newRows) \in Int
    BY <1>1
  <1>6. EquityRow(newCash, newRows) =
          [equity |-> newCash + TotalUnrealized(newRows), cash |-> newCash,
           upnl |-> TotalUnrealized(newRows), realized |-> realized]
    BY DEF EquityRow
  <1>. HIDE DEF realized
  <1>7. QED
    BY <1>1, <1>4, <1>5, <1>6 DEF EquityRows

(***************************************************************************)
(* Type correctness, one lemma per way a call moves.                       *)
(***************************************************************************)

\* Every step changes the state of one call, and no step loses the portfolio row.
LEMMA OneCall ==
    ASSUME NEW p \in Procs, NEW e, TypeOK, exec' = [exec EXCEPT ![p] = e],
           CallOK(e), cash # None => cash' # None,
           e.pc \in AfterOpen => cash' # None
    PROVE  /\ DOMAIN exec' = Procs
           /\ \A o \in Procs : CallOK(exec'[o]) /\ (exec'[o].pc \in AfterOpen => cash' # None)
  BY DEF TypeOK

\* A call that returned holds what an idle call may hold.
LEMMA IdleIsOK ==
    ASSUME NEW reply \in Replies
    PROVE  CallOK(Idle(reply)) /\ Idle(reply).pc \notin AfterOpen
  BY DEF CallOK, Calls, Call, Idle, Locations, AfterOpen

\* Returning from execute() leaves every call in order.
LEMMA ReturnIsOK ==
    ASSUME NEW p \in Procs, NEW reply \in Replies, TypeOK, exec[p].pc # "idle",
           Return(p, reply), cash # None => cash' # None
    PROVE  /\ DOMAIN exec' = Procs
           /\ \A o \in Procs : CallOK(exec'[o]) /\ (exec'[o].pc \in AfterOpen => cash' # None)
  <1> DEFINE e == Idle(reply)
  <1>1. CallOK(e) /\ e.pc \notin AfterOpen
    BY IdleIsOK
  <1>2. exec' = [exec EXCEPT ![p] = e]
    BY DEF Return
  <1> HIDE DEF e
  <1>3. QED
    BY <1>1, <1>2, OneCall

\* The empty store is well typed.
LEMMA InitTypeOK == Init => TypeOK
  <1> SUFFICES ASSUME Init PROVE TypeOK
    OBVIOUS
  <1>1. CallOK(Idle("none")) /\ Idle("none").pc \notin AfterOpen
    BY IdleIsOK DEF Replies
  <1>2. QED
    BY <1>1 DEF Init, TypeOK, RunStatuses

\* Starting a call keeps the types.
LEMMA StartTypeOK == ASSUME NEW p \in Procs, TypeOK, Start(p) PROVE TypeOK'
  <1>1. PICK r \in Requests[p] :
          exec' = [exec EXCEPT ![p] =
            CASE ~Executable(r) -> Idle("rejected")
              [] Executable(r) /\ runs[r.id] # "none" -> Idle("duplicate")
              [] Executable(r) /\ runs[r.id] = "none" ->
                   Call(IF QuotedPrice(r) = None THEN "refuse" ELSE "open",
                        r, "none")]
    BY DEF Start
  <1>2. r \in Request /\ r.id \in SnapshotIds /\ r # None
    BY ExecutionAssumption DEF Request
  <1>3. UNCHANGED dbVars
    BY DEF Start
  <1>4. PICK e : /\ exec' = [exec EXCEPT ![p] = e]
                 /\ CallOK(e) /\ e.pc \notin AfterOpen
    <2>1. CASE ~Executable(r)
      BY <1>1, <1>2, <2>1, IdleIsOK DEF Replies
    <2>2. CASE Executable(r) /\ runs[r.id] # "none"
      BY <1>1, <1>2, <2>2, IdleIsOK DEF Replies
    <2>3. CASE Executable(r) /\ runs[r.id] = "none"
      <3> DEFINE pc == IF QuotedPrice(r) = None THEN "refuse" ELSE "open"
      <3>1. pc \in {"refuse", "open"} /\ (pc = "open" => QuotedPrice(r) # None)
        OBVIOUS
      <3>2. exec' = [exec EXCEPT ![p] = Call(pc, r, "none")]
        BY <1>1, <2>3
      <3> HIDE DEF pc
      <3>3. /\ CallOK(Call(pc, r, "none"))
            /\ Call(pc, r, "none").pc \notin AfterOpen
        BY <1>2, <2>3, <3>1 DEF Call, CallOK, Calls, Locations, Replies, AfterOpen
      <3>4. QED
        BY <3>2, <3>3
    <2>4. QED
      BY <2>1, <2>2, <2>3
  <1>5. /\ DOMAIN exec' = Procs
        /\ \A o \in Procs : CallOK(exec'[o]) /\ (exec'[o].pc \in AfterOpen => cash' # None)
    BY <1>3, <1>4, OneCall DEF dbVars
  <1>6. QED
    BY <1>3, <1>5 DEF TypeOK, dbVars

\* Recording a refusal keeps the types.
LEMMA RecordRefusalTypeOK ==
    ASSUME NEW p \in Procs, TypeOK, RecordRefusal(p) PROVE TypeOK'
  <1>1. runs' \in [SnapshotIds -> RunStatuses]
    BY DEF TypeOK, RecordRefusal, RunsAfterRefusal, RunStatuses
  <1>2. /\ DOMAIN exec' = Procs
        /\ \A o \in Procs : CallOK(exec'[o]) /\ (exec'[o].pc \in AfterOpen => cash' # None)
    BY ReturnIsOK DEF RecordRefusal, Replies
  <1>3. QED
    BY <1>1, <1>2 DEF TypeOK, RecordRefusal

\* A crash keeps the types.
LEMMA AbortTypeOK == ASSUME NEW p \in Procs, TypeOK, Abort(p) PROVE TypeOK'
  <1>1. /\ DOMAIN exec' = Procs
        /\ \A o \in Procs : CallOK(exec'[o]) /\ (exec'[o].pc \in AfterOpen => cash' # None)
    BY ReturnIsOK DEF Abort, Replies, dbVars
  <1>2. QED
    BY <1>1 DEF TypeOK, Abort, dbVars

\* A duplicate reply keeps the types.
LEMMA CommitDuplicateTypeOK ==
    ASSUME NEW p \in Procs, TypeOK, CommitDuplicate(p) PROVE TypeOK'
  <1>1. /\ DOMAIN exec' = Procs
        /\ \A o \in Procs : CallOK(exec'[o]) /\ (exec'[o].pc \in AfterOpen => cash' # None)
    BY ReturnIsOK DEF CommitDuplicate, InTransaction, Replies, dbVars
  <1>2. QED
    BY <1>1 DEF TypeOK, CommitDuplicate, dbVars

\* What is known of a call that is under way.
LEMMA CallFacts ==
    ASSUME NEW p \in Procs, TypeOK, exec[p].pc # "idle"
    PROVE  /\ exec[p] \in Calls
           /\ exec[p].req \in Request
           /\ Executable(exec[p].req)
           /\ exec[p].pc \notin {"idle", "refuse"} => QuotedPrice(exec[p].req) # None
           /\ exec[p].pc \in AfterOpen => cash \in Int
  BY DEF TypeOK, CallOK, Calls

\* get_or_create_portfolio keeps the types and leaves a balance.
LEMMA OpenPortfolioTypeOK ==
    ASSUME NEW p \in Procs, TypeOK, OpenPortfolio(p) PROVE TypeOK'
  <1>1. cash' \in Int /\ cash' # None
    BY ExecutionAssumption DEF OpenPortfolio, BalanceOnOpen, TypeOK
  <1> DEFINE e == [exec[p] EXCEPT !.pc = "read_cash"]
  <1>2. exec' = [exec EXCEPT ![p] = e]
    BY DEF OpenPortfolio
  <1>3. CallOK(e)
    <2>1. e \in Calls
      BY CallFacts DEF OpenPortfolio, Calls, Locations
    <2>2. e.pc = "read_cash" /\ e.req = exec[p].req /\ e.equity = exec[p].equity
      BY CallFacts DEF OpenPortfolio, Calls
    <2>3. QED
      BY <2>1, <2>2, CallFacts, ExecutionAssumption DEF OpenPortfolio, CallOK
  <1> HIDE DEF e
  <1>4. /\ DOMAIN exec' = Procs
        /\ \A o \in Procs : CallOK(exec'[o]) /\ (exec'[o].pc \in AfterOpen => cash' # None)
    BY <1>1, <1>2, <1>3, OneCall
  <1>5. QED
    BY <1>1, <1>4 DEF TypeOK, OpenPortfolio

\* Reading the balance keeps the types: there is one to read.
LEMMA ReadCashTypeOK ==
    ASSUME NEW p \in Procs, TypeOK, ReadCash(p) PROVE TypeOK'
  <1>1. cash \in Int /\ cash # None
    BY CallFacts, ExecutionAssumption DEF ReadCash, AfterOpen
  <1> DEFINE e == [exec[p] EXCEPT !.pc = "read_rows", !.cash = cash]
  <1>2. exec' = [exec EXCEPT ![p] = e]
    BY DEF ReadCash
  <1>3. CallOK(e)
    <2>1. e \in Calls
      BY <1>1, CallFacts DEF ReadCash, Calls, Locations
    <2>2. e.pc = "read_rows" /\ e.req = exec[p].req /\ e.equity = exec[p].equity
      BY CallFacts DEF ReadCash, Calls
    <2>3. QED
      BY <2>1, <2>2, CallFacts, ExecutionAssumption DEF ReadCash, CallOK
  <1> HIDE DEF e
  <1>4. /\ DOMAIN exec' = Procs
        /\ \A o \in Procs : CallOK(exec'[o]) /\ (exec'[o].pc \in AfterOpen => cash' # None)
    BY <1>1, <1>2, <1>3, OneCall DEF ReadCash, dbVars
  <1>5. QED
    BY <1>4 DEF TypeOK, ReadCash, dbVars

\* Reading and marking the rows keeps the types: there is a price to mark at.
LEMMA ReadRowsTypeOK ==
    ASSUME NEW p \in Procs, TypeOK, ReadRows(p) PROVE TypeOK'
  <1> DEFINE r == exec[p].req
             row == positions[r.quoted]
             kept == IF row = None THEN None ELSE Marked(row, QuotedPrice(r))
             pc == IF row = None THEN "size" ELSE "write_mark"
             equity == exec[p].cash + TotalUnrealized([positions EXCEPT ![r.quoted] = kept])
             e == [exec[p] EXCEPT !.pc = pc, !.row = kept, !.equity = equity]
  <1>1. cash # None /\ QuotedPrice(r) # None /\ r \in Request
    BY CallFacts, ExecutionAssumption DEF ReadRows, AfterOpen
  <1>2. /\ kept \in PositionRow \cup {None}
        /\ pc \in {"size", "write_mark"}
        /\ pc = "write_mark" => kept # None
    <2>1. row \in PositionRow \cup {None}
      BY <1>1 DEF TypeOK, Request
    <2>2. QuotedPrice(r) \in Int
      BY <1>1, FillPriceIsInt
    <2>3. row # None => Marked(row, QuotedPrice(r)) \in PositionRow
      BY <2>1, <2>2, MarkedIsRow
    <2>4. QED
      BY <2>3, ExecutionAssumption
  <1>3. exec' = [exec EXCEPT ![p] = e]
    BY DEF ReadRows
  <1>a. equity \in Int
    <2> DEFINE seen == [positions EXCEPT ![r.quoted] = kept]
    <2>1. seen \in [Instruments -> PositionRow \cup {None}]
      BY <1>2 DEF TypeOK
    <2>2. TotalUnrealized(seen) \in Int
      <3> HIDE DEF seen
      <3>1. QED
        BY <2>1, TotalUnrealizedIsInt
    <2>3. exec[p].cash \in Int
      BY CallFacts DEF ReadRows, Calls
    <2>4. QED
      BY <2>2, <2>3
  <1> HIDE DEF kept, pc, equity
  <1>4. CallOK(e)
    <2>1. e \in Calls
      BY <1>2, <1>a, CallFacts DEF ReadRows, Calls, Locations
    <2>2. e.pc = pc /\ e.req = r /\ e.equity = equity /\ e.row = kept
      BY CallFacts DEF ReadRows, Calls
    <2>3. QED
      BY <1>1, <1>2, <2>1, <2>2, CallFacts, ExecutionAssumption DEF ReadRows, CallOK
  <1> HIDE DEF e
  <1>5. /\ DOMAIN exec' = Procs
        /\ \A o \in Procs : CallOK(exec'[o]) /\ (exec'[o].pc \in AfterOpen => cash' # None)
    BY <1>1, <1>3, <1>4, OneCall DEF ReadRows, dbVars
  <1>6. QED
    BY <1>5 DEF TypeOK, ReadRows, dbVars

\* Writing the marked row back keeps the types: a row was kept.
LEMMA WriteMarkTypeOK ==
    ASSUME NEW p \in Procs, TypeOK, WriteMark(p) PROVE TypeOK'
  <1>1. cash # None
    BY CallFacts, ExecutionAssumption DEF WriteMark, AfterOpen
  <1>2. exec[p].row \in PositionRow
    BY DEF TypeOK, WriteMark, CallOK, Calls
  <1> DEFINE e == [exec[p] EXCEPT !.pc = "size", !.row = None]
  <1>3. exec' = [exec EXCEPT ![p] = e]
    BY DEF WriteMark
  <1>4. CallOK(e)
    <2>1. e \in Calls
      BY CallFacts DEF WriteMark, Calls, Locations
    <2>2. e.pc = "size" /\ e.req = exec[p].req /\ e.equity = exec[p].equity
      BY CallFacts DEF WriteMark, Calls
    <2>3. QED
      BY <2>1, <2>2, CallFacts, ExecutionAssumption DEF WriteMark, CallOK
  <1> HIDE DEF e
  <1>5. /\ DOMAIN exec' = Procs
        /\ \A o \in Procs : CallOK(exec'[o]) /\ (exec'[o].pc \in AfterOpen => cash' # None)
    BY <1>1, <1>3, <1>4, OneCall DEF WriteMark
  <1>6. QED
    BY <1>2, <1>5 DEF TypeOK, WriteMark

\* Sizing the order keeps the types and yields a positive quantity.
LEMMA SizeTypeOK == ASSUME NEW p \in Procs, TypeOK, Size(p) PROVE TypeOK'
  <1>1. cash # None
    BY CallFacts, ExecutionAssumption DEF Size, AfterOpen
  <1>2. PICK e : exec' = [exec EXCEPT ![p] = e] /\ CallOK(e)
    <2>1. ASSUME NEW q \in 1..MaxLots,
                 exec' = [exec EXCEPT ![p].pc = "commit", ![p].qty = q]
          PROVE  \E e : exec' = [exec EXCEPT ![p] = e] /\ CallOK(e)
      <3> DEFINE e == [exec[p] EXCEPT !.pc = "commit", !.qty = q]
      <3>1. q \in Nat /\ q > 0
        BY ExecutionAssumption
      <3>2. CallOK(e)
        <4>1. e \in Calls
          BY <3>1, CallFacts DEF Size, Calls, Locations
        <4>2. e.pc = "commit" /\ e.req = exec[p].req /\ e.equity = exec[p].equity /\ e.qty = q
          BY CallFacts DEF Size, Calls
        <4>3. QED
          BY <3>1, <4>1, <4>2, CallFacts, ExecutionAssumption DEF Size, CallOK
      <3>3. exec' = [exec EXCEPT ![p] = e]
        BY <2>1
      <3>4. QED
        BY <3>2, <3>3
    <2>2. ASSUME exec' = [exec EXCEPT ![p].pc = "refuse"]
          PROVE  \E e : exec' = [exec EXCEPT ![p] = e] /\ CallOK(e)
      <3> DEFINE e == [exec[p] EXCEPT !.pc = "refuse"]
      <3>1. CallOK(e)
        <4>1. e \in Calls
          BY CallFacts DEF Size, Calls, Locations
        <4>2. e.pc = "refuse" /\ e.req = exec[p].req /\ e.equity = exec[p].equity
          BY CallFacts DEF Size, Calls
        <4>3. QED
          BY <4>1, <4>2, CallFacts, ExecutionAssumption DEF Size, CallOK
      <3>2. exec' = [exec EXCEPT ![p] = e]
        BY <2>2
      <3>3. QED
        BY <3>1, <3>2
    <2>3. QED
      BY <2>1, <2>2 DEF Size
  <1>3. /\ DOMAIN exec' = Procs
        /\ \A o \in Procs : CallOK(exec'[o]) /\ (exec'[o].pc \in AfterOpen => cash' # None)
    BY <1>1, <1>2, OneCall DEF Size, dbVars
  <1>4. QED
    BY <1>3 DEF TypeOK, Size, dbVars

\* A rejection for lack of cash keeps the types.
LEMMA CommitInsufficientTypeOK ==
    ASSUME NEW p \in Procs, TypeOK, CommitInsufficient(p) PROVE TypeOK'
  <1>1. /\ exec[p].req.id \in SnapshotIds
        /\ exec[p].req.inst \in Instruments
        /\ exec[p].req.final \in {"LONG", "SHORT"}
        /\ exec[p].qty \in Nat
    BY CallFacts DEF CommitInsufficient, InTransaction, Calls, Request, Actions, Executable
  <1>2. OrderRow(p, "rejected") \in OrderRows
    BY <1>1 DEF OrderRow, OrderRows
  <1>3. orders' \in Seq(OrderRows)
    BY <1>2 DEF TypeOK, CommitInsufficient
  <1>4. runs' \in [SnapshotIds -> RunStatuses]
    BY DEF TypeOK, CommitInsufficient, RunRecorded, RunStatuses
  <1>5. /\ DOMAIN exec' = Procs
        /\ \A o \in Procs : CallOK(exec'[o]) /\ (exec'[o].pc \in AfterOpen => cash' # None)
    BY ReturnIsOK DEF CommitInsufficient, InTransaction, Replies
  <1>6. QED
    BY <1>3, <1>4, <1>5 DEF TypeOK, CommitInsufficient

\* What the transaction starts from, and the cash it leaves.
LEMMA CommitFillFacts ==
    ASSUME NEW p \in Procs, TypeOK, CommitFill(p)
    PROVE  LET r == exec[p].req
               q == exec[p].qty
           IN  /\ r \in Request /\ Executable(r) /\ QuotedPrice(r) # None
               /\ r.id \in SnapshotIds
               /\ r.inst \in Instruments /\ r.final \in {"LONG", "SHORT"}
               /\ positions[r.inst] \in PositionRow \cup {None}
               /\ q \in Nat /\ q > 0
               /\ cash \in Int /\ cash # None
               /\ cash' \in Int /\ cash' # None
  <1> DEFINE r == exec[p].req
             q == exec[p].qty
             prior == positions[r.inst]
  <1>1. /\ r \in Request /\ Executable(r) /\ QuotedPrice(r) # None
        /\ q \in Nat /\ q > 0
        /\ cash \in Int /\ cash # None
    <2>1. exec[p].pc = "commit"
      BY DEF CommitFill, InTransaction
    <2>2. QED
      BY <2>1, CallFacts, ExecutionAssumption DEF AfterOpen, TypeOK, CallOK, Calls
  <1>2. /\ r.id \in SnapshotIds /\ r.inst \in Instruments
        /\ r.final \in {"LONG", "SHORT"}
    BY <1>1 DEF Request, Actions, Executable
  <1>3. prior \in PositionRow \cup {None}
    BY <1>2 DEF TypeOK
  <1>4. cash' = cash - Fee(q, r) + CashFlow(prior, q, r)
    BY DEF CommitFill, Balance
  <1> HIDE DEF r, q, prior
  <1>5. cash' \in Int /\ cash' # None
    <2>1. CashFlow(prior, q, r) \in Int /\ Fee(q, r) \in Int
      BY <1>1, <1>3, CashFlowIsInt, CostsAreInts
    <2>2. QED
      BY <1>1, <1>4, <2>1, ExecutionAssumption
  <1>6. QED
    BY <1>1, <1>2, <1>3, <1>5 DEF r, q, prior

\* The rows that the transaction writes are rows of their tables.
LEMMA CommitRows ==
    ASSUME NEW p \in Procs, TypeOK, CommitFill(p)
    PROVE  /\ OrderRow(p, "filled") \in OrderRows
           /\ FillRow(p) \in FillRows
           /\ positions' \in [Instruments -> PositionRow \cup {None}]
           /\ EquityRow(cash', positions') \in EquityRows
  <1> DEFINE r == exec[p].req
             q == exec[p].qty
             prior == positions[r.inst]
  <1>1. /\ r \in Request /\ Executable(r) /\ QuotedPrice(r) # None
        /\ r.id \in SnapshotIds
        /\ r.inst \in Instruments /\ r.final \in {"LONG", "SHORT"}
        /\ prior \in PositionRow \cup {None}
        /\ q \in Nat /\ q > 0
        /\ cash' \in Int
    BY CommitFillFacts
  <1> HIDE DEF r, q, prior
  <1>2. FillPrice(r) \in Int /\ Fee(q, r) \in Int /\ RealizedBy(prior, q, r) \in Int
    BY <1>1, FillPriceIsInt, CostsAreInts, RealizedIsInt
  <1>3. positions' \in [Instruments -> PositionRow \cup {None}]
    <2>1. NewRow(prior, q, r) \in PositionRow
      BY <1>1, NewRowIsRow
    <2>2. positions' = [positions EXCEPT ![r.inst] = NewRow(prior, q, r)]
      BY DEF CommitFill, r, q, prior
    <2>3. QED
      BY <1>1, <2>1, <2>2 DEF TypeOK
  <1>4. OrderRow(p, "filled") \in OrderRows
    BY <1>1 DEF OrderRow, OrderRows, r, q
  <1>5. FillRow(p) \in FillRows
    BY <1>1, <1>2 DEF FillRow, FillRows, r, q, prior
  <1>6. EquityRow(cash', positions') \in EquityRows
    BY <1>1, <1>3, EquityRowIsRow
  <1>7. QED
    BY <1>3, <1>4, <1>5, <1>6

\* A fill keeps the types.
LEMMA CommitFillTypeOK ==
    ASSUME NEW p \in Procs, TypeOK, CommitFill(p) PROVE TypeOK'
  <1>1. cash' \in Int /\ cash' # None /\ exec[p].pc = "commit"
    BY CommitFillFacts DEF CommitFill, InTransaction
  <1>2. runs' \in [SnapshotIds -> RunStatuses]
    BY DEF TypeOK, CommitFill, RunRecorded, RunStatuses
  <1>3. orders' \in Seq(OrderRows) /\ fills' \in Seq(FillRows)
    <2>1. orders' = Append(orders, OrderRow(p, "filled")) /\ fills' = Append(fills, FillRow(p))
      BY DEF CommitFill
    <2>2. orders \in Seq(OrderRows) /\ fills \in Seq(FillRows)
      BY DEF TypeOK
    <2>3. OrderRow(p, "filled") \in OrderRows /\ FillRow(p) \in FillRows
      BY CommitRows
    <2>4. QED
      BY <2>1, <2>2, <2>3
  <1>4. equities' \in Seq(EquityRows)
    <2>1. equities' = Append(equities, EquityRow(cash', positions'))
      BY DEF CommitFill
    <2>2. QED
      BY <2>1, CommitRows DEF TypeOK
  <1>5. /\ DOMAIN exec' = Procs
        /\ \A o \in Procs : CallOK(exec'[o]) /\ (exec'[o].pc \in AfterOpen => cash' # None)
    <2>1. Return(p, "filled") /\ exec[p].pc # "idle"
      BY <1>1 DEF CommitFill
    <2>2. QED
      BY <1>1, <2>1, ReturnIsOK DEF Replies
  <1>6. QED
    BY <1>1, <1>2, <1>3, <1>4, <1>5, CommitRows DEF TypeOK

\* Every step keeps the types.
LEMMA StepTypeOK == ASSUME TypeOK, [Next]_vars PROVE TypeOK'
  <1>1. CASE UNCHANGED vars
    BY <1>1 DEF TypeOK, vars
  <1>2. ASSUME NEW p \in Procs, Start(p) \/ Step(p) \/ Abort(p) PROVE TypeOK'
    BY <1>2, StartTypeOK, RecordRefusalTypeOK, OpenPortfolioTypeOK, ReadCashTypeOK,
       ReadRowsTypeOK, WriteMarkTypeOK, SizeTypeOK, CommitDuplicateTypeOK,
       CommitInsufficientTypeOK, CommitFillTypeOK, AbortTypeOK
    DEF Step
  <1>3. QED
    BY <1>1, <1>2 DEF Next

\* The tables hold rows of their types, and a call of execute() has, at every
\* location, the request, the price and the portfolio that the code there uses.
THEOREM TypeCorrect == Spec => []TypeOK
  <1>1. QED
    BY InitTypeOK, StepTypeOK, PTL DEF Spec

(***************************************************************************)
(* No id is traded twice.  The invariant is inductive together with the    *)
(* fact that every fill's id has a run: a commit that finds no run for its *)
(* id then knows that no fill has that id.                                 *)
(***************************************************************************)
FillsHaveRuns == \A n \in DOMAIN fills : runs[fills[n].id] # "none"

JournalInv == TypeOK /\ FillsHaveRuns /\ AtMostOneFill

\* Fills carry ids of the strategy.
LEMMA FillIds ==
    ASSUME TypeOK
    PROVE  /\ fills \in Seq(FillRows)
           /\ \A n \in DOMAIN fills : fills[n] \in FillRows /\ fills[n].id \in SnapshotIds
  <1>1. fills \in Seq(FillRows)
    BY DEF TypeOK
  <1>2. \A n \in DOMAIN fills : fills[n] \in FillRows
    BY <1>1
  <1>3. \A f \in FillRows : f.id \in SnapshotIds
    BY DEF FillRows
  <1>4. QED
    BY <1>1, <1>2, <1>3

\* No step but CommitFill writes a fill, and no step takes a run back.
LEMMA OtherStepsKeepFills ==
    ASSUME NEW p \in Procs, TypeOK, Start(p) \/ Step(p) \/ Abort(p), ~CommitFill(p)
    PROVE  /\ fills' = fills
           /\ \A s \in SnapshotIds : runs[s] # "none" => runs'[s] # "none"
  <1>1. CASE RecordRefusal(p)
    BY <1>1 DEF RecordRefusal, RunsAfterRefusal
  <1>2. CASE CommitInsufficient(p)
    BY <1>2 DEF CommitInsufficient, RunRecorded, TypeOK
  <1>3. CASE OpenPortfolio(p) \/ WriteMark(p)
    BY <1>3 DEF OpenPortfolio, WriteMark
  <1>4. CASE Start(p) \/ ReadCash(p) \/ ReadRows(p) \/ Size(p) \/ CommitDuplicate(p) \/ Abort(p)
    BY <1>4 DEF Start, ReadCash, ReadRows, Size, CommitDuplicate, Abort, dbVars
  <1>5. QED
    BY <1>1, <1>2, <1>3, <1>4 DEF Step

\* A commit adds one fill, for an id that had no run and now has one.
LEMMA CommitAddsOneFill ==
    ASSUME NEW p \in Procs, TypeOK, CommitFill(p)
    PROVE  /\ exec[p].req.id \in SnapshotIds
           /\ runs[exec[p].req.id] = "none"
           /\ runs' = [runs EXCEPT ![exec[p].req.id] = "filled"]
           /\ fills' = Append(fills, FillRow(p))
           /\ FillRow(p).id = exec[p].req.id
           /\ cash # None /\ cash' \in Int
  <1>1. exec[p].req.id \in SnapshotIds /\ cash # None /\ cash' \in Int
    BY CommitFillFacts
  <1>2. QED
    BY <1>1 DEF CommitFill, Decided, RunRecorded, FillRow

\* Every step keeps the journal invariant.
LEMMA StepJournalInv == ASSUME JournalInv, [Next]_vars PROVE JournalInv'
  <1>1. TypeOK'
    BY StepTypeOK DEF JournalInv
  <1>2. FillsHaveRuns' /\ AtMostOneFill'
    <2>1. CASE UNCHANGED vars
      BY <2>1 DEF vars, JournalInv, FillsHaveRuns, AtMostOneFill
    <2>2. ASSUME NEW p \in Procs, Start(p) \/ Step(p) \/ Abort(p), ~CommitFill(p)
          PROVE  FillsHaveRuns' /\ AtMostOneFill'
      <3>1. \A n \in DOMAIN fills : fills[n].id \in SnapshotIds
        BY FillIds DEF JournalInv
      <3>2. QED
        BY <2>2, <3>1, OtherStepsKeepFills DEF JournalInv, FillsHaveRuns, AtMostOneFill
    <2>3. ASSUME NEW p \in Procs, CommitFill(p)
          PROVE  FillsHaveRuns' /\ AtMostOneFill'
      <3> DEFINE id == exec[p].req.id
                 row == FillRow(p)
      <3>1. /\ id \in SnapshotIds /\ runs[id] = "none"
            /\ runs' = [runs EXCEPT ![id] = "filled"]
            /\ fills' = Append(fills, row) /\ row.id = id
        BY <2>3, CommitAddsOneFill DEF JournalInv
      <3>2. fills \in Seq(FillRows) /\ runs \in [SnapshotIds -> RunStatuses]
        BY DEF JournalInv, TypeOK
      <3> HIDE DEF id, row
      <3>3. /\ DOMAIN fills' = 1..(Len(fills) + 1)
            /\ DOMAIN fills = 1..Len(fills)
            /\ Len(fills) \in Nat
            /\ \A n \in 1..Len(fills) : fills'[n] = fills[n]
            /\ fills'[Len(fills) + 1] = row
        BY <3>1, <3>2
      <3>4. \A n \in 1..Len(fills) : fills[n].id # id /\ fills[n].id \in SnapshotIds
        BY <3>1, <3>3, FillIds DEF JournalInv, FillsHaveRuns
      <3>5. FillsHaveRuns'
        BY <3>1, <3>2, <3>3, <3>4 DEF JournalInv, FillsHaveRuns
      <3>6. AtMostOneFill'
        BY <3>1, <3>3, <3>4 DEF JournalInv, AtMostOneFill
      <3>7. QED
        BY <3>5, <3>6
    <2>4. QED
      BY <2>1, <2>2, <2>3 DEF Next
  <1>3. QED
    BY <1>1, <1>2 DEF JournalInv

\* Whatever calls race, crash and are retried, no snapshot id of the strategy is
\* filled twice.
THEOREM NoDoubleFill == Spec => []AtMostOneFill
  <1>1. Init => JournalInv
    BY InitTypeOK DEF Init, JournalInv, FillsHaveRuns, AtMostOneFill
  <1>2. JournalInv /\ [Next]_vars => JournalInv'
    BY StepJournalInv
  <1>3. JournalInv => AtMostOneFill
    BY DEF JournalInv
  <1>4. QED
    BY <1>1, <1>2, <1>3, PTL DEF Spec

(***************************************************************************)
(* The journals agree.  Given the types this is inductive as it stands: a  *)
(* transaction writes all the journals of its id, and finds the id without *)
(* a run, hence without a fill and without an order.                       *)
(***************************************************************************)
\* A row appended to a journal adds its id to the ids of the journal.
LEMMA AppendedIds ==
    ASSUME NEW S, NEW rows \in Seq(S), NEW row \in S, NEW id, row.id = id
    PROVE  IdsOf(Append(rows, row)) = IdsOf(rows) \cup {id}
  <1>1. /\ DOMAIN Append(rows, row) = 1..(Len(rows) + 1) /\ DOMAIN rows = 1..Len(rows)
        /\ Len(rows) \in Nat
        /\ \A n \in 1..Len(rows) : Append(rows, row)[n] = rows[n]
        /\ Append(rows, row)[Len(rows) + 1] = row
    OBVIOUS
  <1>2. QED
    BY <1>1 DEF IdsOf

\* An order adds its id to those of its status.
LEMMA AppendedOrder ==
    ASSUME TypeOK, NEW row \in OrderRows, orders' = Append(orders, row), NEW status
    PROVE  OrderIds(status)' =
             IF row.status = status THEN OrderIds(status) \cup {row.id} ELSE OrderIds(status)
  <1>1. orders \in Seq(OrderRows)
    BY DEF TypeOK
  <1>2. /\ DOMAIN orders' = 1..(Len(orders) + 1) /\ DOMAIN orders = 1..Len(orders)
        /\ Len(orders) \in Nat
        /\ \A n \in 1..Len(orders) : orders'[n] = orders[n]
        /\ orders'[Len(orders) + 1] = row
    BY <1>1
  <1>3. QED
    BY <1>2 DEF OrderIds

\* Steps that write no journal, or only a run that is refused without an order.
LEMMA OtherStepsKeepJournals ==
    ASSUME NEW p \in Procs, TypeOK, Start(p) \/ Step(p) \/ Abort(p),
           ~CommitFill(p), ~CommitInsufficient(p)
    PROVE  /\ UNCHANGED <<orders, fills, equities>>
           /\ \A s \in SnapshotIds :
                \/ runs'[s] = runs[s]
                \/ runs[s] = "none" /\ runs'[s] = "rejected"
  <1>1. CASE RecordRefusal(p)
    BY <1>1 DEF RecordRefusal, RunsAfterRefusal, TypeOK
  <1>2. CASE OpenPortfolio(p) \/ WriteMark(p)
    BY <1>2 DEF OpenPortfolio, WriteMark
  <1>3. CASE Start(p) \/ ReadCash(p) \/ ReadRows(p) \/ Size(p) \/ CommitDuplicate(p) \/ Abort(p)
    BY <1>3 DEF Start, ReadCash, ReadRows, Size, CommitDuplicate, Abort, dbVars
  <1>4. QED
    BY <1>1, <1>2, <1>3 DEF Step

\* Every step keeps the journals in agreement.
LEMMA StepJournalAgrees ==
    ASSUME TypeOK, JournalAgrees, [Next]_vars PROVE JournalAgrees'
  <1>1. CASE UNCHANGED vars
    BY <1>1 DEF vars, JournalAgrees, IdsOf, OrderIds
  <1>2. ASSUME NEW p \in Procs, Start(p) \/ Step(p) \/ Abort(p),
               ~CommitFill(p), ~CommitInsufficient(p)
        PROVE  JournalAgrees'
    <2>1. /\ UNCHANGED <<orders, fills, equities>>
          /\ \A s \in SnapshotIds :
               \/ runs'[s] = runs[s]
               \/ runs[s] = "none" /\ runs'[s] = "rejected"
      BY <1>2, OtherStepsKeepJournals
    <2>2. QED
      BY <2>1 DEF JournalAgrees, IdsOf, OrderIds
  <1>3. ASSUME NEW p \in Procs, CommitInsufficient(p) PROVE JournalAgrees'
    <2> DEFINE id == exec[p].req.id
    <2>1. id \in SnapshotIds /\ OrderRow(p, "rejected") \in OrderRows
      <3>1. exec[p].pc = "commit"
        BY <1>3 DEF CommitInsufficient, InTransaction
      <3>2. exec[p].req \in Request /\ Executable(exec[p].req) /\ exec[p].qty \in Nat
        BY <3>1, CallFacts DEF Calls
      <3>3. QED
        BY <3>2 DEF OrderRow, OrderRows, Request, Actions, Executable
    <2>2. /\ runs[id] = "none" /\ UNCHANGED <<fills, equities>>
          /\ runs' = [runs EXCEPT ![id] = "rejected_insufficient_cash"]
          /\ orders' = Append(orders, OrderRow(p, "rejected"))
      BY <1>3 DEF CommitInsufficient, Decided, RunRecorded
    <2>3. OrderRow(p, "rejected").status = "rejected" /\ OrderRow(p, "rejected").id = id
      BY DEF OrderRow
    <2> HIDE DEF id
    <2>4. /\ OrderIds("filled")' = OrderIds("filled")
          /\ OrderIds("rejected")' = OrderIds("rejected") \cup {id}
      BY <2>1, <2>2, <2>3, AppendedOrder
    <2>5. IdsOf(fills)' = IdsOf(fills)
      BY <2>2 DEF IdsOf
    <2>6. runs \in [SnapshotIds -> RunStatuses]
      BY DEF TypeOK
    <2>7. QED
      BY <2>1, <2>2, <2>4, <2>5, <2>6 DEF JournalAgrees
  <1>4. ASSUME NEW p \in Procs, CommitFill(p) PROVE JournalAgrees'
    <2> DEFINE id == exec[p].req.id
               row == EquityRow(cash', positions')
    <2>1. /\ id \in SnapshotIds /\ runs[id] = "none"
          /\ runs' = [runs EXCEPT ![id] = "filled"]
          /\ fills' = Append(fills, FillRow(p)) /\ FillRow(p).id = id
      BY <1>4, CommitAddsOneFill
    <2>2. orders' = Append(orders, OrderRow(p, "filled")) /\ equities' = Append(equities, row)
      BY <1>4 DEF CommitFill
    <2>3. fills \in Seq(FillRows) /\ fills' \in Seq(FillRows) /\ equities \in Seq(EquityRows)
          /\ equities' \in Seq(EquityRows) /\ runs \in [SnapshotIds -> RunStatuses]
      BY <1>4, CommitFillTypeOK DEF TypeOK
    <2>4. OrderRow(p, "filled").status = "filled" /\ OrderRow(p, "filled").id = id
      BY DEF OrderRow
    <2>5. OrderRow(p, "filled") \in OrderRows /\ FillRow(p) \in FillRows /\ row \in EquityRows
      BY <1>4, CommitRows
    <2> HIDE DEF id, row
    <2>6. /\ OrderIds("filled")' = OrderIds("filled") \cup {id}
          /\ OrderIds("rejected")' = OrderIds("rejected")
      BY <2>2, <2>4, <2>5, AppendedOrder
    <2>7. IdsOf(fills)' = IdsOf(fills) \cup {id}
      <3>1. IdsOf(Append(fills, FillRow(p))) = IdsOf(fills) \cup {id}
        BY <2>1, <2>3, <2>5, AppendedIds
      <3>2. QED
        BY <2>1, <3>1 DEF IdsOf
    <2>8. Len(equities') = Len(equities) + 1 /\ Len(fills') = Len(fills) + 1
      BY <2>1, <2>2, <2>3, <2>5
    <2>9. QED
      BY <2>1, <2>3, <2>6, <2>7, <2>8 DEF JournalAgrees
  <1>5. QED
    BY <1>1, <1>2, <1>3, <1>4 DEF Next

\* After every commit and every crash the runs, the orders, the fills and the equity
\* snapshots of an id tell the same story (the transaction of PaperExecutor.execute).
THEOREM JournalsAgree == Spec => []JournalAgrees
  <1>1. Init => JournalAgrees
    BY DEF Init, JournalAgrees, IdsOf, OrderIds
  <1>2. TypeOK /\ JournalAgrees /\ [Next]_vars => JournalAgrees'
    BY StepJournalAgrees
  <1>3. QED
    BY <1>1, <1>2, TypeCorrect, PTL DEF Spec

(***************************************************************************)
(* Refinement: every step of execute() is a step of the ledger or none.    *)
(***************************************************************************)

\* The initial store is the empty ledger.
LEMMA InitIsLedgerInit == Init => Ledger!Init
  BY DEF Init, Ledger!Init, Verdict, Trades

\* The commit of a fill is the ledger's Trade.
LEMMA CommitFillIsTrade ==
    ASSUME NEW p \in Procs, TypeOK, CommitFill(p)
    PROVE  Ledger!Trade(exec[p].req.id)
  <1> DEFINE id == exec[p].req.id
  <1>1. /\ id \in SnapshotIds /\ runs[id] = "none"
        /\ runs' = [runs EXCEPT ![id] = "filled"]
        /\ fills' = Append(fills, FillRow(p)) /\ FillRow(p).id = id
        /\ cash' \in Int /\ cash # None
    BY CommitAddsOneFill
  <1>2. fills \in Seq(FillRows) /\ runs \in [SnapshotIds -> RunStatuses]
    BY DEF TypeOK
  <1> HIDE DEF id
  <1>3. Verdict[id] = "undecided" /\ Verdict' = [Verdict EXCEPT ![id] = "executed"]
    BY <1>1, <1>2 DEF Verdict
  <1>4. Trades' = Append(Trades, id)
    BY <1>1, <1>2 DEF Trades
  <1>5. QED
    BY <1>1, <1>3, <1>4 DEF Ledger!Trade, id

\* A remembered refusal is the ledger's Refuse, or nothing if the id is spent.
LEMMA RefusalIsRefuse ==
    ASSUME NEW id \in SnapshotIds, NEW status \in RunStatuses \ {"none", "filled"}, TypeOK,
           runs[id] = "none", runs' = [runs EXCEPT ![id] = status],
           UNCHANGED <<fills, cash>>
    PROVE  Ledger!Refuse(id)
  <1>1. runs \in [SnapshotIds -> RunStatuses]
    BY DEF TypeOK
  <1>2. Verdict[id] = "undecided" /\ Verdict' = [Verdict EXCEPT ![id] = "refused"]
    BY <1>1 DEF Verdict
  <1>3. Trades' = Trades
    BY DEF Trades
  <1>4. QED
    BY <1>2, <1>3 DEF Ledger!Refuse

\* A step that touches neither runs, fills nor cash does nothing to the ledger.
LEMMA SilentStep ==
    ASSUME UNCHANGED <<runs, fills, cash>> PROVE UNCHANGED Ledger!ledgerVars
  BY DEF Ledger!ledgerVars, Verdict, Trades

\* Every step is a step of the ledger or leaves it as it was.
LEMMA StepIsLedgerStep ==
    ASSUME TypeOK, [Next]_vars PROVE [Ledger!Next]_(Ledger!ledgerVars)
  <1>1. CASE UNCHANGED vars
    BY <1>1, SilentStep DEF vars
  <1>2. ASSUME NEW p \in Procs, Start(p) \/ Step(p) \/ Abort(p)
        PROVE  [Ledger!Next]_(Ledger!ledgerVars)
    <2>1. CASE \/ Start(p) \/ ReadCash(p) \/ ReadRows(p) \/ WriteMark(p) \/ Size(p)
               \/ CommitDuplicate(p) \/ Abort(p)
      <3>1. UNCHANGED <<runs, fills, cash>>
        BY <2>1 DEF Start, ReadCash, ReadRows, WriteMark, Size, CommitDuplicate, Abort, dbVars
      <3>2. QED
        BY <3>1, SilentStep
    <2>2. CASE OpenPortfolio(p)
      <3>1. UNCHANGED <<runs, fills>> /\ cash' = BalanceOnOpen
        BY <2>2 DEF OpenPortfolio
      <3>2. CASE cash = None
        <4>1. cash' \in Int
          BY <3>1, <3>2, ExecutionAssumption DEF BalanceOnOpen
        <4>2. UNCHANGED <<Verdict, Trades>>
          BY <3>1 DEF Verdict, Trades
        <4>3. Ledger!Open
          BY <3>2, <4>1, <4>2 DEF Ledger!Open
        <4>4. QED
          BY <4>3 DEF Ledger!Next
      <3>3. CASE cash # None
        BY <3>1, <3>3, SilentStep DEF BalanceOnOpen
      <3>4. QED
        BY <3>2, <3>3
    <2>3. CASE RecordRefusal(p)
      <3> DEFINE id == exec[p].req.id
      <3>1. id \in SnapshotIds
        BY <2>3, CallFacts DEF RecordRefusal, Request
      <3>2. runs' = RunsAfterRefusal(id) /\ UNCHANGED <<fills, cash>>
        BY <2>3 DEF RecordRefusal
      <3> HIDE DEF id
      <3>3. CASE runs[id] = "none"
        <4>1. Ledger!Refuse(id)
          BY <3>1, <3>2, <3>3, RefusalIsRefuse DEF RunsAfterRefusal, RunStatuses
        <4>2. QED
          BY <3>1, <4>1 DEF Ledger!Next
      <3>4. CASE runs[id] # "none"
        BY <3>2, <3>4, SilentStep DEF RunsAfterRefusal
      <3>5. QED
        BY <3>3, <3>4
    <2>4. CASE CommitInsufficient(p)
      <3> DEFINE id == exec[p].req.id
      <3>1. id \in SnapshotIds
        BY <2>4, CallFacts DEF CommitInsufficient, InTransaction, Request
      <3>2. /\ runs[id] = "none" /\ UNCHANGED <<fills, cash>>
            /\ runs' = [runs EXCEPT ![id] = "rejected_insufficient_cash"]
        BY <2>4 DEF CommitInsufficient, Decided, RunRecorded
      <3> HIDE DEF id
      <3>3. Ledger!Refuse(id)
        BY <3>1, <3>2, RefusalIsRefuse DEF RunStatuses
      <3>4. QED
        BY <3>1, <3>3 DEF Ledger!Next
    <2>5. CASE CommitFill(p)
      BY <2>5, CommitFillFacts, CommitFillIsTrade DEF Ledger!Next
    <2>6. QED
      BY <1>2, <2>1, <2>2, <2>3, <2>4, <2>5 DEF Step
  <1>3. QED
    BY <1>1, <1>2 DEF Next

\* execute(), with its many connections, crashes and retries, implements the
\* ledger in which a decision is final and a trade is one instant.
THEOREM Refinement == Spec => ImplementsLedger
  <1>1. Init => Ledger!Init
    BY InitIsLedgerInit
  <1>2. TypeOK /\ [Next]_vars => [Ledger!Next]_(Ledger!ledgerVars)
    BY StepIsLedgerStep
  <1>3. QED
    BY <1>1, <1>2, TypeCorrect, PTL DEF Spec, ImplementsLedger, Ledger!Spec

(***************************************************************************)
(* The accounts.  A mark is written back over the whole row, as it was     *)
(* read; between the two steps another process may have traded the same    *)
(* instrument (the run paper_lost_update).  Where no process marks what    *)
(* another trades, the row kept for the write is the row of the table in   *)
(* all but its mark, and the positions add up with the fills.              *)
(***************************************************************************)
OneDeskPerInstrument ==
    \A p, o \in Procs : p # o =>
        \A r \in Requests[p], s \in Requests[o] : r.quoted # s.inst

SameHolding(a, b) ==
    a.side = b.side /\ a.qty = b.qty /\ a.entry = b.entry /\ a.lev = b.lev

Kept(e) ==
    /\ positions[e.req.quoted] # None
    /\ SameHolding(e.row, positions[e.req.quoted])

MarkInv ==
    \A p \in Procs :
        /\ exec[p].pc # "idle" => exec[p].req \in Requests[p]
        /\ exec[p].pc = "write_mark" => Kept(exec[p])

\* A step of p that leaves p elsewhere than before the write of a mark keeps the
\* invariant if it leaves the holdings that the others have read.
LEMMA OthersKeepTheirRow ==
    ASSUME NEW p \in Procs, NEW e, TypeOK, MarkInv, exec' = [exec EXCEPT ![p] = e],
           e.pc # "idle" => e.req \in Requests[p],
           e.pc # "write_mark",
           \A o \in Procs \ {p} : exec[o].pc = "write_mark" =>
              /\ positions'[exec[o].req.quoted] # None
              /\ SameHolding(positions[exec[o].req.quoted], positions'[exec[o].req.quoted])
    PROVE  MarkInv'
  <1>1. DOMAIN exec = Procs
    BY DEF TypeOK
  <1>2. exec'[p] = e /\ \A o \in Procs \ {p} : exec'[o] = exec[o]
    BY <1>1
  <1>3. ASSUME NEW o \in Procs
        PROVE  /\ exec'[o].pc # "idle" => exec'[o].req \in Requests[o]
               /\ exec'[o].pc = "write_mark" => Kept(exec[o])'
    <2>1. CASE o = p
      BY <1>2, <2>1
    <2>2. CASE o # p
      BY <1>2, <2>2 DEF MarkInv, Kept, SameHolding
    <2>3. QED
      BY <2>1, <2>2
  <1>4. QED
    BY <1>3 DEF MarkInv

\* So does a step that leaves the positions.
LEMMA PositionsKept ==
    ASSUME NEW p \in Procs, NEW e, TypeOK, MarkInv, exec' = [exec EXCEPT ![p] = e],
           e.pc # "idle" => e.req \in Requests[p], e.pc # "write_mark",
           positions' = positions
    PROVE  MarkInv'
  <1>1. \A o \in Procs \ {p} : exec[o].pc = "write_mark" =>
           /\ positions'[exec[o].req.quoted] # None
           /\ SameHolding(positions[exec[o].req.quoted], positions'[exec[o].req.quoted])
    BY DEF MarkInv, Kept, SameHolding
  <1>2. QED
    BY <1>1, OthersKeepTheirRow

\* Marking a row leaves what is held.
LEMMA MarkedIsSameHolding ==
    ASSUME NEW row \in PositionRow, NEW mark
    PROVE  SameHolding(Marked(row, mark), row)
  BY DEF SameHolding, Marked, PositionRow

\* Steps that return from execute() or move on in it, and write no position.
LEMMA QuietStepKeepsMarkInv ==
    ASSUME NEW p \in Procs, TypeOK, MarkInv,
           \/ Start(p) \/ RecordRefusal(p) \/ OpenPortfolio(p) \/ ReadCash(p)
           \/ Size(p) \/ CommitDuplicate(p) \/ CommitInsufficient(p) \/ Abort(p)
    PROVE  MarkInv'
  <1>0. exec[p].pc # "idle" => exec[p] \in Calls /\ exec[p].req \in Requests[p]
    BY CallFacts DEF MarkInv
  <1>1. ASSUME NEW reply, Return(p, reply), positions' = positions PROVE MarkInv'
    <2> DEFINE e == Idle(reply)
    <2>1. e.pc = "idle"
      BY DEF Idle, Call
    <2>2. exec' = [exec EXCEPT ![p] = e]
      BY <1>1 DEF Return
    <2> HIDE DEF e
    <2>3. QED
      BY <1>1, <2>1, <2>2, PositionsKept
  <1>2. CASE RecordRefusal(p) \/ CommitDuplicate(p) \/ CommitInsufficient(p) \/ Abort(p)
    BY <1>1, <1>2 DEF RecordRefusal, CommitDuplicate, CommitInsufficient, Abort, dbVars
  <1>3. CASE Start(p)
    <2>1. positions' = positions
      BY <1>3 DEF Start, dbVars
    <2>2. PICK r \in Requests[p] :
            exec' = [exec EXCEPT ![p] =
              CASE ~Executable(r) -> Idle("rejected")
                [] Executable(r) /\ runs[r.id] # "none" -> Idle("duplicate")
                [] Executable(r) /\ runs[r.id] = "none" ->
                     Call(IF QuotedPrice(r) = None THEN "refuse" ELSE "open", r, "none")]
      BY <1>3 DEF Start
    <2>3. PICK e : /\ exec' = [exec EXCEPT ![p] = e] /\ e.pc # "write_mark"
                   /\ e.pc # "idle" => e.req = r
      <3>a. Idle("rejected").pc = "idle" /\ Idle("duplicate").pc = "idle"
        BY DEF Idle, Call
      <3>b. \A pc : Call(pc, r, "none").pc = pc /\ Call(pc, r, "none").req = r
        BY DEF Call
      <3>1. CASE ~Executable(r)
        BY <2>2, <3>1, <3>a
      <3>2. CASE Executable(r) /\ runs[r.id] # "none"
        BY <2>2, <3>2, <3>a
      <3>3. CASE Executable(r) /\ runs[r.id] = "none"
        <4> DEFINE pc == IF QuotedPrice(r) = None THEN "refuse" ELSE "open"
        <4>1. pc # "write_mark" /\ exec' = [exec EXCEPT ![p] = Call(pc, r, "none")]
          BY <2>2, <3>3
        <4> HIDE DEF pc
        <4>2. QED
          BY <4>1, <3>b
      <3>4. QED
        BY <3>1, <3>2, <3>3
    <2>4. QED
      BY <2>1, <2>3, PositionsKept
  <1>4. CASE OpenPortfolio(p) \/ ReadCash(p) \/ Size(p)
    <2>1. positions' = positions /\ exec[p].pc # "idle"
      BY <1>4 DEF OpenPortfolio, ReadCash, Size, dbVars
    <2>2. PICK e : /\ exec' = [exec EXCEPT ![p] = e] /\ e.pc # "write_mark"
                   /\ e.req = exec[p].req
      <3>1. CASE OpenPortfolio(p)
        <4> DEFINE e == [exec[p] EXCEPT !.pc = "read_cash"]
        <4>1. exec' = [exec EXCEPT ![p] = e]
          BY <3>1 DEF OpenPortfolio
        <4>2. e.pc # "write_mark" /\ e.req = exec[p].req
          BY <1>0, <2>1 DEF Calls
        <4>3. QED
          BY <4>1, <4>2
      <3>2. CASE ReadCash(p)
        <4> DEFINE e == [exec[p] EXCEPT !.pc = "read_rows", !.cash = cash]
        <4>1. exec' = [exec EXCEPT ![p] = e]
          BY <3>2 DEF ReadCash
        <4>2. e.pc # "write_mark" /\ e.req = exec[p].req
          BY <1>0, <2>1 DEF Calls
        <4>3. QED
          BY <4>1, <4>2
      <3>3. ASSUME NEW n, exec' = [exec EXCEPT ![p].pc = "commit", ![p].qty = n]
            PROVE  \E e : /\ exec' = [exec EXCEPT ![p] = e] /\ e.pc # "write_mark"
                          /\ e.req = exec[p].req
        <4> DEFINE e == [exec[p] EXCEPT !.pc = "commit", !.qty = n]
        <4>1. exec' = [exec EXCEPT ![p] = e]
          BY <3>3
        <4>2. e.pc # "write_mark" /\ e.req = exec[p].req
          BY <1>0, <2>1 DEF Calls
        <4>3. QED
          BY <4>1, <4>2
      <3>4. ASSUME exec' = [exec EXCEPT ![p].pc = "refuse"]
            PROVE  \E e : /\ exec' = [exec EXCEPT ![p] = e] /\ e.pc # "write_mark"
                          /\ e.req = exec[p].req
        <4> DEFINE e == [exec[p] EXCEPT !.pc = "refuse"]
        <4>1. exec' = [exec EXCEPT ![p] = e]
          BY <3>4
        <4>2. e.pc # "write_mark" /\ e.req = exec[p].req
          BY <1>0, <2>1 DEF Calls
        <4>3. QED
          BY <4>1, <4>2
      <3>5. QED
        BY <1>4, <3>1, <3>2, <3>3, <3>4 DEF Size
    <2>3. QED
      BY <1>0, <2>1, <2>2, PositionsKept
  <1>5. QED
    BY <1>2, <1>3, <1>4

\* Reading the rows keeps the invariant: what is kept is the row but for its mark.
LEMMA ReadRowsMarkInv ==
    ASSUME NEW p \in Procs, TypeOK, MarkInv, ReadRows(p) PROVE MarkInv'
  <1> DEFINE r == exec[p].req
             row == positions[r.quoted]
             kept == IF row = None THEN None ELSE Marked(row, QuotedPrice(r))
             pc == IF row = None THEN "size" ELSE "write_mark"
             e == [exec[p] EXCEPT !.pc = pc, !.row = kept,
                     !.equity = exec[p].cash + TotalUnrealized([positions EXCEPT ![r.quoted] = kept])]
  <1>1. /\ exec[p] \in Calls /\ r \in Requests[p] /\ r \in Request
        /\ positions' = positions /\ DOMAIN exec = Procs
    BY CallFacts DEF ReadRows, MarkInv, dbVars, TypeOK
  <1>2. row \in PositionRow \cup {None}
    BY <1>1 DEF TypeOK, Request
  <1>3. exec' = [exec EXCEPT ![p] = e]
    BY DEF ReadRows
  <1>4. e.req = r /\ e.pc = pc /\ e.row = kept
    BY <1>1 DEF Calls
  <1>5. row # None => SameHolding(kept, row)
    BY <1>2, MarkedIsSameHolding
  <1>6. e.pc # "idle" /\ (e.pc = "write_mark" => row # None)
    BY <1>4
  <1> HIDE DEF e
  <1>7. exec'[p] = e /\ \A o \in Procs \ {p} : exec'[o] = exec[o]
    BY <1>1, <1>3
  <1>8. ASSUME NEW o \in Procs
        PROVE  /\ exec'[o].pc # "idle" => exec'[o].req \in Requests[o]
               /\ exec'[o].pc = "write_mark" => Kept(exec[o])'
    <2>1. CASE o = p
      BY <1>1, <1>4, <1>5, <1>6, <1>7, <2>1 DEF Kept
    <2>2. CASE o # p
      BY <1>1, <1>7, <2>2 DEF MarkInv, Kept
    <2>3. QED
      BY <2>1, <2>2
  <1>9. QED
    BY <1>8 DEF MarkInv

\* Writing the marked row back leaves what is held of the instrument, and so what the
\* other calls have read of it.
LEMMA WriteMarkFacts ==
    ASSUME NEW p \in Procs, TypeOK, MarkInv, WriteMark(p)
    PROVE  /\ MarkInv'
           /\ \A i \in Instruments :
                /\ positions'[i] = None <=> positions[i] = None
                /\ positions[i] # None => SameHolding(positions[i], positions'[i])
  <1> DEFINE i0 == exec[p].req.quoted
             e == [exec[p] EXCEPT !.pc = "size", !.row = None]
  <1>1. /\ exec[p] \in Calls /\ exec[p].req \in Requests[p] /\ exec[p].row # None
        /\ i0 \in Instruments
        /\ positions[i0] # None /\ SameHolding(exec[p].row, positions[i0])
    BY CallFacts DEF WriteMark, MarkInv, Kept, TypeOK, CallOK, Request
  <1>2. positions' = [positions EXCEPT ![i0] = exec[p].row] /\ exec' = [exec EXCEPT ![p] = e]
    BY DEF WriteMark
  <1>3. DOMAIN positions = Instruments
    BY DEF TypeOK
  <1>4. e.pc = "size" /\ e.req = exec[p].req
    BY <1>1 DEF Calls
  <1> HIDE DEF e, i0
  <1>5. \A i \in Instruments :
          /\ positions'[i] = None <=> positions[i] = None
          /\ positions[i] # None => SameHolding(positions[i], positions'[i])
    BY <1>1, <1>2, <1>3 DEF SameHolding
  <1>6. \A o \in Procs \ {p} : exec[o].pc = "write_mark" =>
          /\ positions'[exec[o].req.quoted] # None
          /\ SameHolding(positions[exec[o].req.quoted], positions'[exec[o].req.quoted])
    <2>1. ASSUME NEW o \in Procs \ {p}, exec[o].pc = "write_mark"
          PROVE  exec[o].req.quoted \in Instruments /\ positions[exec[o].req.quoted] # None
      BY <2>1, CallFacts DEF MarkInv, Kept, Request
    <2>2. QED
      BY <1>5, <2>1
  <1>7. MarkInv'
    BY <1>1, <1>2, <1>4, <1>6, OthersKeepTheirRow
  <1>8. QED
    BY <1>5, <1>7

\* A fill keeps the invariant: no other process has read the row that it writes.
LEMMA CommitFillMarkInv ==
    ASSUME OneDeskPerInstrument, NEW p \in Procs, TypeOK, MarkInv, CommitFill(p)
    PROVE  MarkInv'
  <1> DEFINE i0 == exec[p].req.inst
             e == Idle("filled")
  <1>1. exec' = [exec EXCEPT ![p] = e] /\ exec[p].pc # "idle"
    BY DEF CommitFill, Return, InTransaction
  <1>2. e.pc = "idle"
    BY DEF Idle, Call
  <1> HIDE DEF e
  <1>3. \A i \in Instruments \ {i0} : positions'[i] = positions[i]
    BY DEF CommitFill, TypeOK
  <1>4. ASSUME NEW o \in Procs \ {p}, exec[o].pc = "write_mark"
        PROVE  /\ positions'[exec[o].req.quoted] # None
               /\ SameHolding(positions[exec[o].req.quoted], positions'[exec[o].req.quoted])
    <2>1. exec[o].req \in Requests[o] /\ exec[p].req \in Requests[p]
      BY <1>1, <1>4 DEF MarkInv
    <2>2. exec[o].req.quoted # i0
      BY <2>1 DEF OneDeskPerInstrument
    <2>3. exec[o].req.quoted \in Instruments /\ positions[exec[o].req.quoted] # None
      BY <1>4, CallFacts DEF MarkInv, Kept, Request
    <2>4. QED
      BY <1>3, <2>2, <2>3 DEF SameHolding
  <1>5. QED
    BY <1>1, <1>2, <1>4, OthersKeepTheirRow

LEMMA StepMarkInv ==
    ASSUME OneDeskPerInstrument, TypeOK, MarkInv, [Next]_vars PROVE MarkInv'
  <1>1. CASE UNCHANGED vars
    BY <1>1 DEF vars, MarkInv, Kept
  <1>2. ASSUME NEW p \in Procs, Start(p) \/ Step(p) \/ Abort(p) PROVE MarkInv'
    BY <1>2, QuietStepKeepsMarkInv, ReadRowsMarkInv, WriteMarkFacts, CommitFillMarkInv DEF Step
  <1>3. QED
    BY <1>1, <1>2 DEF Next

\* What a position row holds, and what an order of q lots makes of it.
Holding(row) == IF row = None THEN 0 ELSE Signed(row.side, row.qty)

LEMMA HoldingIsInt ==
    ASSUME NEW row \in PositionRow \cup {None} PROVE Holding(row) \in Int
  BY DEF Holding, Signed, PositionRow

LEMMA NewRowFields ==
    ASSUME NEW prior, NEW q, NEW r
    PROVE  /\ NewRow(prior, q, r).side = NewSide(prior, q, r)
           /\ NewRow(prior, q, r).qty = NewQty(prior, q, r)
           /\ NewRow(prior, q, r).entry = NewEntry(prior, q, r)
  BY DEF NewRow, Marked

\* The facts of the row before an order that its arithmetic uses.
LEMMA PriorFacts ==
    ASSUME NEW prior \in PositionRow \cup {None}
    PROVE  /\ IsOpen(prior) => /\ prior # None /\ prior.side \in {"LONG", "SHORT"}
                               /\ prior.qty \in Int /\ prior.qty > 0 /\ prior.entry \in Int
           /\ ~IsOpen(prior) => Holding(prior) = 0
           /\ IsOpen(prior) => Holding(prior) = IF prior.side = "LONG" THEN prior.qty
                                                                       ELSE -prior.qty
  BY DEF IsOpen, Holding, Signed, PositionRow, Sides

\* An order adds its signed quantity to what is held: adds, partial and exact closes
\* and flips alike (the branches of PaperExecutor.execute).
LEMMA OrderAddsUp ==
    ASSUME NEW r \in Request, r.final \in {"LONG", "SHORT"}, NEW q \in Nat, q > 0,
           NEW prior \in PositionRow \cup {None}, NewRow(prior, q, r) # None
    PROVE  Holding(NewRow(prior, q, r)) = Holding(prior) + Signed(r.final, q)
  <1>1. Holding(NewRow(prior, q, r)) = Signed(NewSide(prior, q, r), NewQty(prior, q, r))
    BY NewRowFields DEF Holding
  <1>2. CASE ~IsOpen(prior)
    BY <1>1, <1>2, PriorFacts DEF NewSide, NewQty, SameSide, Opposes, Signed
  <1>3. CASE IsOpen(prior)
    <2>1. /\ prior.side \in {"LONG", "SHORT"} /\ prior.qty \in Int /\ prior.qty > 0
          /\ Holding(prior) = IF prior.side = "LONG" THEN prior.qty ELSE -prior.qty
      BY <1>3, PriorFacts
    <2>2. CASE prior.side = r.final
      BY <1>1, <1>3, <2>1, <2>2 DEF NewSide, NewQty, SameSide, Opposes, Signed
    <2>3. CASE prior.side # r.final
      BY <1>1, <1>3, <2>1, <2>3 DEF NewSide, NewQty, SameSide, Opposes, Signed
    <2>4. QED
      BY <2>2, <2>3
  <1>4. QED
    BY <1>2, <1>3

\* The entry price of an added position is the exact average.
AveragesExactly(prior, q, r) ==
    SameSide(prior, r) =>
        NewEntry(prior, q, r) * (prior.qty + q) = prior.entry * prior.qty + FillPrice(r) * q

Cost(row) == IF row = None THEN 0 ELSE Holding(row) * row.entry

LEMMA MinusIsLess == \A n \in Int : -n = 0 - n
  OBVIOUS

\* What a division by a positive number leaves.
LEMMA Remainder ==
    ASSUME NEW a \in Int, NEW b \in Int, b > 0
    PROVE  a - (a \div b) * b \in 0..(b - 1)
  OBVIOUS

LEMMA NothingSigned ==
    ASSUME NEW side, NEW n \in Int, n = 0 PROVE Signed(side, n) = 0
  <1>1. -n = 0 - n
    BY MinusIsLess, Zenon
  <1>2. 0 - n = 0
    OBVIOUS
  <1>3. -n = 0
    BY ONLY <1>1, <1>2
  <1>4. QED
    BY <1>3, Zenon DEF Signed

LEMMA CostIsInt ==
    ASSUME NEW row \in PositionRow \cup {None} PROVE Cost(row) \in Int
  <1>1. Holding(row) \in Int /\ (row # None => row.entry \in Int)
    BY HoldingIsInt DEF PositionRow
  <1>2. QED
    BY <1>1 DEF Cost

\* Closing a short of m lots entered at e with an order of n lots at p.
LEMMA CoverProduct ==
    ASSUME NEW n \in Int, NEW m \in Int, NEW p \in Int, NEW e \in Int
    PROVE  (n - m) * p - (e - p) * m = (-m) * e + n * p
  <1>1. (n - m) * p = n * p - m * p
    OBVIOUS
  <1>2. (e - p) * m = e * m - p * m
    OBVIOUS
  <1>3. (-m) * e = -(e * m) /\ m * p = p * m
    OBVIOUS
  <1>4. QED
    BY <1>1, <1>2, <1>3

\* What the average entry price of an added position loses to rounding.
Lost(prior, q, r) ==
    IF SameSide(prior, r)
    THEN (prior.entry * prior.qty + FillPrice(r) * q) - NewEntry(prior, q, r) * (prior.qty + q)
    ELSE 0

\* The cost of what is held moves by what the order cost and the profit it realized,
\* but for what is lost to rounding.
LEMMA OrderCosts ==
    ASSUME NEW r \in Request, r.final \in {"LONG", "SHORT"}, NEW q \in Nat, q > 0,
           NEW prior \in PositionRow \cup {None}, NewRow(prior, q, r) # None,
           FillPrice(r) \in Int, NewEntry(prior, q, r) \in Int
    PROVE  /\ Lost(prior, q, r) \in Int
           /\ Cost(NewRow(prior, q, r)) - RealizedBy(prior, q, r)
                = Cost(prior) + Signed(r.final, q * FillPrice(r)) - Signed(r.final, Lost(prior, q, r))
  <1> DEFINE price == FillPrice(r)
             entry == NewEntry(prior, q, r)
             qty == NewQty(prior, q, r)
             side == NewSide(prior, q, r)
             lost == Lost(prior, q, r)
  <1>1. Cost(NewRow(prior, q, r)) = Signed(side, qty) * entry
    BY NewRowFields DEF Cost, Holding
  <1>2. price \in Int /\ entry \in Int
    OBVIOUS
  <1>3. CASE ~IsOpen(prior)
    <2>1. /\ side = r.final /\ qty = q /\ entry = price /\ RealizedBy(prior, q, r) = 0
          /\ lost = 0
      BY <1>3 DEF NewSide, NewQty, NewEntry, SameSide, Opposes, RealizedBy, Lost
    <2>2. Cost(prior) = 0
      <3>1. prior = None \/ (Holding(prior) = 0 /\ prior.entry \in Int)
        BY <1>3, PriorFacts DEF PositionRow
      <3>2. QED
        BY <3>1 DEF Cost
    <2> HIDE DEF price, entry, qty, side, lost
    <2>3. QED
      BY <1>1, <1>2, <2>1, <2>2 DEF Signed, price, lost
  <1>4. CASE SameSide(prior, r)
    <2>1. /\ prior # None /\ prior.side = r.final /\ prior.qty \in Int /\ prior.qty > 0
          /\ prior.entry \in Int
          /\ Holding(prior) = IF r.final = "LONG" THEN prior.qty ELSE -prior.qty
      BY <1>4, PriorFacts DEF SameSide
    <2>2. /\ side = r.final /\ qty = prior.qty + q /\ RealizedBy(prior, q, r) = 0
          /\ lost = (prior.entry * prior.qty + price * q) - entry * (prior.qty + q)
      BY <1>4 DEF NewSide, NewQty, SameSide, Opposes, RealizedBy, Lost
    <2>3. Cost(prior) = Holding(prior) * prior.entry
      BY <2>1 DEF Cost
    <2> DEFINE was == prior.entry * prior.qty
               paid == price * q
               now == entry * (prior.qty + q)
    <2>4. was \in Int /\ paid \in Int /\ now \in Int
      BY <1>2, <2>1
    <2>5. q * price = paid /\ prior.qty * prior.entry = was /\ (prior.qty + q) * entry = now
      BY <1>2, <2>1
    <2>6. (-prior.qty) * prior.entry = -was /\ (-(prior.qty + q)) * entry = -now
      BY <1>2, <2>1
    <2>7. lost = (was + paid) - now /\ lost \in Int
      BY <2>2, <2>4
    <2>8. Cost(NewRow(prior, q, r)) = IF r.final = "LONG" THEN now ELSE -now
      BY <1>1, <2>2, <2>5, <2>6 DEF Signed
    <2>9. Cost(prior) = IF r.final = "LONG" THEN was ELSE -was
      BY <2>1, <2>3, <2>5, <2>6
    <2>10. Signed(r.final, q * FillPrice(r)) = IF r.final = "LONG" THEN paid ELSE -paid
      BY <2>5 DEF Signed, price
    <2>11. Signed(r.final, lost) = IF r.final = "LONG" THEN lost ELSE -lost
      BY DEF Signed
    <2> HIDE DEF was, paid, now, price, entry, qty, side, lost
    <2>12. Cost(NewRow(prior, q, r)) - RealizedBy(prior, q, r)
             = Cost(prior) + Signed(r.final, q * FillPrice(r)) - Signed(r.final, lost)
      BY <2>2, <2>4, <2>7, <2>8, <2>9, <2>10, <2>11
    <2>13. QED
      BY <2>7, <2>12 DEF lost
  <1>5. CASE Opposes(prior, r)
    <2>1. /\ prior # None /\ prior.side \in {"LONG", "SHORT"} /\ prior.side # r.final
          /\ prior.qty \in Int /\ prior.qty > 0 /\ prior.entry \in Int
          /\ Holding(prior) = IF prior.side = "LONG" THEN prior.qty ELSE -prior.qty
          /\ IsOpen(prior)
      BY <1>5, PriorFacts DEF Opposes
    <2>2. Cost(prior) = Holding(prior) * prior.entry
      BY <2>1 DEF Cost
    <2>0. Lost(prior, q, r) = 0
      BY <1>5 DEF SameSide, Opposes, Lost
    <2> SUFFICES Cost(NewRow(prior, q, r)) - RealizedBy(prior, q, r)
                   = Cost(prior) + Signed(r.final, q * FillPrice(r))
      <3>1. Cost(prior) \in Int /\ Signed(r.final, q * FillPrice(r)) \in Int
        BY CostIsInt DEF Signed
      <3>2. QED
        BY <2>0, <3>1, NothingSigned
    <2>3. CASE prior.qty > q
      <3>1. side = prior.side /\ qty = prior.qty - q /\ entry = prior.entry
        BY <1>5, <2>1, <2>3 DEF NewSide, NewQty, NewEntry, SameSide
      <3>2. RealizedBy(prior, q, r) = IF prior.side = "LONG" THEN (price - prior.entry) * q
                                                             ELSE (prior.entry - price) * q
        BY <1>5, <2>1, <2>3 DEF RealizedBy, LesserOf
      <3> HIDE DEF price, entry, qty, side
      <3>3. QED
        BY <1>1, <1>2, <2>1, <2>2, <3>1, <3>2 DEF Signed, price
    <2>4. CASE ~(prior.qty > q)
      <3>1. /\ side = IF prior.qty = q THEN "FLAT" ELSE r.final
            /\ qty = q - prior.qty /\ entry = price
        BY <1>5, <2>1, <2>4 DEF NewSide, NewQty, NewEntry, SameSide
      <3>2. RealizedBy(prior, q, r) = IF prior.side = "LONG" THEN (price - prior.entry) * prior.qty
                                                    ELSE (prior.entry - price) * prior.qty
        BY <1>5, <2>1, <2>4 DEF RealizedBy, LesserOf
      <3> HIDE DEF price, entry, qty, side
      <3>3. CASE prior.side = "LONG"
        <4>1. r.final = "SHORT"
          BY <2>1, <3>3
        <4>2. Signed(side, qty) = -(q - prior.qty)
          BY <2>1, <3>1, <4>1 DEF Signed
        <4>3. Cost(prior) = prior.qty * prior.entry
          BY <2>1, <2>2, <3>3
        <4>4. RealizedBy(prior, q, r) = (price - prior.entry) * prior.qty
          BY <3>2, <3>3
        <4>5. (-(q - prior.qty)) * price - (price - prior.entry) * prior.qty
                = prior.qty * prior.entry - q * price
          BY <1>2, <2>1
        <4>6. Signed(r.final, q * FillPrice(r)) = -(q * price)
          BY <4>1 DEF Signed, price
        <4>7. q * price \in Int /\ prior.qty * prior.entry \in Int
          BY <1>2, <2>1
        <4>8. QED
          BY <1>1, <3>1, <4>2, <4>3, <4>4, <4>5, <4>6, <4>7
      <3>4. CASE prior.side = "SHORT"
        <4>1. r.final = "LONG"
          BY <2>1, <3>4
        <4>2. Signed(side, qty) = q - prior.qty
          BY <2>1, <3>1, <4>1 DEF Signed
        <4>3. Cost(prior) = (-prior.qty) * prior.entry
          BY <2>1, <2>2, <3>4
        <4>4. RealizedBy(prior, q, r) = (prior.entry - price) * prior.qty
          BY <3>2, <3>4
        <4>5. (q - prior.qty) * price - (prior.entry - price) * prior.qty
                = (-prior.qty) * prior.entry + q * price
          <5> DEFINE m == prior.qty
                     e == prior.entry
          <5>1. m \in Int /\ e \in Int /\ q \in Int
            BY <2>1
          <5> HIDE DEF m, e
          <5>2. (q - m) * price - (e - price) * m = (-m) * e + q * price
            BY <1>2, <5>1, CoverProduct
          <5>3. QED
            BY <5>2 DEF m, e
        <4>6. Signed(r.final, q * FillPrice(r)) = q * price
          BY <4>1 DEF Signed, price
        <4>7. QED
          BY <1>1, <3>1, <4>2, <4>3, <4>4, <4>5, <4>6
      <3>5. QED
        BY <2>1, <3>3, <3>4
    <2>5. QED
      BY <2>3, <2>4
  <1>6. QED
    BY <1>3, <1>4, <1>5 DEF SameSide, Opposes

\* Less than one unit of the price is lost for each lot then held.
LEMMA LostIsSmall ==
    ASSUME NEW r \in Request, NEW q \in Nat, q > 0,
           NEW prior \in PositionRow \cup {None}, FillPrice(r) \in Int
    PROVE  \/ Lost(prior, q, r) = 0
           \/ /\ SameSide(prior, r)
              /\ Lost(prior, q, r) \in 0..(NewQty(prior, q, r) - 1)
  <1>1. CASE ~SameSide(prior, r)
    BY <1>1 DEF Lost
  <1>2. CASE SameSide(prior, r)
    <2> DEFINE total == prior.entry * prior.qty + FillPrice(r) * q
               n == prior.qty + q
    <2>1. prior.qty \in Int /\ prior.qty > 0 /\ prior.entry \in Int
      BY <1>2, PriorFacts DEF SameSide
    <2>2. total \in Int /\ n \in Int /\ n > 0
      BY <2>1
    <2>3. /\ NewEntry(prior, q, r) = total \div n /\ NewQty(prior, q, r) = n
          /\ Lost(prior, q, r) = total - NewEntry(prior, q, r) * n
      BY <1>2 DEF NewEntry, NewQty, Lost
    <2> HIDE DEF total, n
    <2>4. total - (total \div n) * n \in 0..(n - 1)
      BY <2>2, Remainder
    <2>5. QED
      BY <1>2, <2>3, <2>4
  <1>3. QED
    BY <1>1, <1>2

\* With an exact average nothing is lost.
LEMMA NothingLost ==
    ASSUME NEW r \in Request, NEW q \in Nat, NEW prior \in PositionRow \cup {None},
           FillPrice(r) \in Int, AveragesExactly(prior, q, r)
    PROVE  Lost(prior, q, r) = 0
  <1>1. CASE SameSide(prior, r)
    <2>1. prior.qty \in Int /\ prior.entry \in Int
      BY <1>1, PriorFacts DEF SameSide
    <2>2. prior.entry * prior.qty + FillPrice(r) * q \in Int
      BY <2>1
    <2>3. QED
      BY <1>1, <2>2 DEF Lost, AveragesExactly
  <1>2. QED
    BY <1>1 DEF Lost

\* The fills of an instrument, as functions that the sums run over.
QtyFills(i) == [n \in FillsOf(i) |-> Signed(fills[n].side, fills[n].qty)]
CostFills(i) == [n \in FillsOf(i) |-> Signed(fills[n].side, fills[n].qty * fills[n].price)]
ProfitFills(i) == [n \in FillsOf(i) |-> fills[n].realized]
LotFills(i) == [n \in FillsOf(i) |-> fills[n].qty]

LEMMA SumsOfFills ==
    ASSUME NEW i
    PROVE  /\ SumFills(i, LAMBDA f : Signed(f.side, f.qty)) = SumFunction(QtyFills(i))
           /\ SumFills(i, LAMBDA f : Signed(f.side, f.qty * f.price)) = SumFunction(CostFills(i))
           /\ SumFills(i, LAMBDA f : f.realized) = SumFunction(ProfitFills(i))
           /\ SumFills(i, LAMBDA f : f.qty) = SumFunction(LotFills(i))
  BY DEF SumFills, QtyFills, CostFills, ProfitFills, LotFills

\* The fills of an instrument are finitely many and what they add up is numbers.
LEMMA FillsAreNumbers ==
    ASSUME TypeOK, NEW i
    PROVE  /\ IsFiniteSet(FillsOf(i))
           /\ \A n \in FillsOf(i) :
                /\ QtyFills(i)[n] \in Int /\ CostFills(i)[n] \in Int
                /\ ProfitFills(i)[n] \in Int /\ LotFills(i)[n] \in Int
  <1>1. fills \in Seq(FillRows)
    BY DEF TypeOK
  <1>2. DOMAIN fills = 1..Len(fills) /\ Len(fills) \in Nat
    BY <1>1
  <1>3. IsFiniteSet(FillsOf(i))
    <2>1. IsFiniteSet(1..Len(fills))
      BY <1>2, FS_Interval
    <2>2. FillsOf(i) \subseteq 1..Len(fills)
      BY <1>2 DEF FillsOf
    <2>3. QED
      BY <2>1, <2>2, FS_Subset
  <1>4. \A f \in FillRows : /\ Signed(f.side, f.qty) \in Int
                            /\ Signed(f.side, f.qty * f.price) \in Int
                            /\ f.realized \in Int /\ f.qty \in Int
    BY DEF FillRows, Signed
  <1>5. \A n \in FillsOf(i) : fills[n] \in FillRows
    BY <1>1, <1>2 DEF FillsOf
  <1>6. QED
    BY <1>3, <1>4, <1>5 DEF QtyFills, CostFills, ProfitFills, LotFills

\* A fill adds its quantity, cost, profit and lots to the sums of its instrument, and
\* nothing to those of another.
LEMMA FillAddsToSums ==
    ASSUME NEW p \in Procs, TypeOK, CommitFill(p), NEW i
    PROVE  LET row == FillRow(p)
           IN  /\ row.inst # i =>
                    /\ SumFunction(QtyFills(i))' = SumFunction(QtyFills(i))
                    /\ SumFunction(CostFills(i))' = SumFunction(CostFills(i))
                    /\ SumFunction(ProfitFills(i))' = SumFunction(ProfitFills(i))
                    /\ SumFunction(LotFills(i))' = SumFunction(LotFills(i))
               /\ row.inst = i =>
                    /\ SumFunction(QtyFills(i))'
                         = SumFunction(QtyFills(i)) + Signed(row.side, row.qty)
                    /\ SumFunction(CostFills(i))'
                         = SumFunction(CostFills(i)) + Signed(row.side, row.qty * row.price)
                    /\ SumFunction(ProfitFills(i))' = SumFunction(ProfitFills(i)) + row.realized
                    /\ SumFunction(LotFills(i))' = SumFunction(LotFills(i)) + row.qty
                    /\ SumFunction(QtyFills(i)) \in Int
                    /\ SumFunction(CostFills(i)) \in Int
                    /\ SumFunction(ProfitFills(i)) \in Int
                    /\ SumFunction(LotFills(i)) \in Int
  <1> DEFINE row == FillRow(p)
             last == Len(fills) + 1
  <1>1. fills \in Seq(FillRows) /\ row \in FillRows /\ fills' = Append(fills, row)
    BY CommitRows DEF TypeOK, CommitFill
  <1> HIDE DEF row
  <1>2. /\ DOMAIN fills = 1..Len(fills) /\ Len(fills) \in Nat
        /\ DOMAIN fills' = 1..last
        /\ \A n \in DOMAIN fills : fills'[n] = fills[n]
        /\ fills'[last] = row
    BY <1>1
  <1>3. CASE row.inst # i
    <2>1. FillsOf(i)' = FillsOf(i)
      BY <1>2, <1>3 DEF FillsOf
    <2>2. \A n \in FillsOf(i) : fills'[n] = fills[n]
      BY <1>2 DEF FillsOf
    <2>3. QtyFills(i)' = QtyFills(i) /\ CostFills(i)' = CostFills(i)
          /\ ProfitFills(i)' = ProfitFills(i) /\ LotFills(i)' = LotFills(i)
      BY <2>1, <2>2 DEF QtyFills, CostFills, ProfitFills, LotFills
    <2>4. QED
      BY <1>3, <2>3 DEF row
  <1>4. CASE row.inst = i
    <2>1. FillsOf(i)' = FillsOf(i) \cup {last} /\ last \notin FillsOf(i)
      BY <1>2, <1>4 DEF FillsOf
    <2>2. \A n \in FillsOf(i) : fills'[n] = fills[n]
      BY <1>2 DEF FillsOf
    <2>3. /\ Signed(row.side, row.qty) \in Int /\ Signed(row.side, row.qty * row.price) \in Int
          /\ row.realized \in Int /\ row.qty \in Int
      BY <1>1 DEF FillRows, Signed
    <2>4. IsFiniteSet(FillsOf(i))
          /\ \A n \in FillsOf(i) : QtyFills(i)[n] \in Int /\ CostFills(i)[n] \in Int
                                   /\ ProfitFills(i)[n] \in Int /\ LotFills(i)[n] \in Int
      BY FillsAreNumbers
    <2>5. /\ SumFunction(QtyFills(i))' = SumFunction(QtyFills(i)) + Signed(row.side, row.qty)
          /\ SumFunction(QtyFills(i)) \in Int
      <3> DEFINE f == QtyFills(i)
                 e == QtyFills(i)'
      <3>1. DOMAIN f = FillsOf(i) /\ DOMAIN e = FillsOf(i) \cup {last}
        BY <2>1 DEF QtyFills
      <3>2. \A n \in FillsOf(i) : e[n] = f[n]
        BY <2>1, <2>2 DEF QtyFills
      <3>3. e[last] = Signed(row.side, row.qty)
        BY <1>2, <2>1 DEF QtyFills
      <3>4. \A n \in FillsOf(i) : f[n] \in Int
        BY <2>4
      <3> HIDE DEF f, e
      <3>5. SumFunction(e) = SumFunction(f) + e[last] /\ SumFunction(f) \in Int
        BY <2>1, <2>3, <2>4, <3>1, <3>2, <3>3, <3>4, SumExtends
      <3>6. QED
        BY <3>3, <3>5 DEF f, e
    <2>6. /\ SumFunction(CostFills(i))'
               = SumFunction(CostFills(i)) + Signed(row.side, row.qty * row.price)
          /\ SumFunction(CostFills(i)) \in Int
      <3> DEFINE f == CostFills(i)
                 e == CostFills(i)'
      <3>1. DOMAIN f = FillsOf(i) /\ DOMAIN e = FillsOf(i) \cup {last}
        BY <2>1 DEF CostFills
      <3>2. \A n \in FillsOf(i) : e[n] = f[n]
        BY <2>1, <2>2 DEF CostFills
      <3>3. e[last] = Signed(row.side, row.qty * row.price)
        BY <1>2, <2>1 DEF CostFills
      <3>4. \A n \in FillsOf(i) : f[n] \in Int
        BY <2>4
      <3> HIDE DEF f, e
      <3>5. SumFunction(e) = SumFunction(f) + e[last] /\ SumFunction(f) \in Int
        BY <2>1, <2>3, <2>4, <3>1, <3>2, <3>3, <3>4, SumExtends
      <3>6. QED
        BY <3>3, <3>5 DEF f, e
    <2>7. /\ SumFunction(ProfitFills(i))' = SumFunction(ProfitFills(i)) + row.realized
          /\ SumFunction(ProfitFills(i)) \in Int
      <3> DEFINE f == ProfitFills(i)
                 e == ProfitFills(i)'
      <3>1. DOMAIN f = FillsOf(i) /\ DOMAIN e = FillsOf(i) \cup {last}
        BY <2>1 DEF ProfitFills
      <3>2. \A n \in FillsOf(i) : e[n] = f[n]
        BY <2>1, <2>2 DEF ProfitFills
      <3>3. e[last] = row.realized
        BY <1>2, <2>1 DEF ProfitFills
      <3>4. \A n \in FillsOf(i) : f[n] \in Int
        BY <2>4
      <3> HIDE DEF f, e
      <3>5. SumFunction(e) = SumFunction(f) + e[last] /\ SumFunction(f) \in Int
        BY <2>1, <2>3, <2>4, <3>1, <3>2, <3>3, <3>4, SumExtends
      <3>6. QED
        BY <3>3, <3>5 DEF f, e
    <2>8. /\ SumFunction(LotFills(i))' = SumFunction(LotFills(i)) + row.qty
          /\ SumFunction(LotFills(i)) \in Int
      <3> DEFINE f == LotFills(i)
                 e == LotFills(i)'
      <3>1. DOMAIN f = FillsOf(i) /\ DOMAIN e = FillsOf(i) \cup {last}
        BY <2>1 DEF LotFills
      <3>2. \A n \in FillsOf(i) : e[n] = f[n]
        BY <2>1, <2>2 DEF LotFills
      <3>3. e[last] = row.qty
        BY <1>2, <2>1 DEF LotFills
      <3>4. \A n \in FillsOf(i) : f[n] \in Int
        BY <2>4
      <3> HIDE DEF f, e
      <3>5. SumFunction(e) = SumFunction(f) + e[last] /\ SumFunction(f) \in Int
        BY <2>1, <2>3, <2>4, <3>1, <3>2, <3>3, <3>4, SumExtends
      <3>6. QED
        BY <3>3, <3>5 DEF f, e
    <2>9. QED
      BY <1>4, <2>5, <2>6, <2>7, <2>8 DEF row
  <1>5. QED
    BY <1>3, <1>4

\* The two identities, over rows and sums.
QtyInv == \A i \in Instruments : Holding(positions[i]) = SumFunction(QtyFills(i))

ProfitInv ==
    \A i \in Instruments :
        SumFunction(CostFills(i)) = Cost(positions[i]) - SumFunction(ProfitFills(i))

LEMMA AccountsRestated == (NetPosition <=> QtyInv) /\ (ProfitIdentity <=> ProfitInv)
  <1>1. \A i : SignedQty(i) = Holding(positions[i])
    BY DEF SignedQty, Holding
  <1>2. \A i : (IF positions[i] = None THEN 0 ELSE SignedQty(i) * positions[i].entry)
               = Cost(positions[i])
    BY <1>1 DEF Cost
  <1>3. QED
    BY <1>1, <1>2, SumsOfFills DEF NetPosition, ProfitIdentity, QtyInv, ProfitInv

\* A step that writes no fill leaves the holdings and what they cost.
LEMMA OtherStepsKeepAccounts ==
    ASSUME NEW p \in Procs, TypeOK, MarkInv, Start(p) \/ Step(p) \/ Abort(p), ~CommitFill(p),
           NEW i \in Instruments
    PROVE  /\ Holding(positions'[i]) = Holding(positions[i])
           /\ Cost(positions'[i]) = Cost(positions[i])
           /\ fills' = fills
  <1>1. fills' = fills
    BY OtherStepsKeepFills
  <1>2. CASE WriteMark(p)
    <2>1. /\ positions'[i] = None <=> positions[i] = None
          /\ positions[i] # None => SameHolding(positions[i], positions'[i])
      BY <1>2, WriteMarkFacts
    <2>2. QED
      BY <1>1, <2>1 DEF SameHolding, Holding, Cost
  <1>3. CASE ~WriteMark(p)
    <2>1. positions' = positions
      BY <1>3 DEF Step, Start, RecordRefusal, OpenPortfolio, ReadCash, ReadRows, Size,
         CommitDuplicate, CommitInsufficient, Abort, dbVars
    <2>2. QED
      BY <1>1, <2>1
  <1>4. QED
    BY <1>2, <1>3

\* The row and the fill that a commit writes.
LEMMA CommitWrites ==
    ASSUME NEW p \in Procs, TypeOK, CommitFill(p)
    PROVE  LET r == exec[p].req
               q == exec[p].qty
               prior == positions[r.inst]
           IN  /\ r \in Request /\ r.final \in {"LONG", "SHORT"} /\ r.inst \in Instruments
               /\ q \in Nat /\ q > 0 /\ prior \in PositionRow \cup {None}
               /\ NewRow(prior, q, r) # None /\ FillPrice(r) \in Int
               /\ NewEntry(prior, q, r) \in Int /\ RealizedBy(prior, q, r) \in Int
               /\ positions' = [positions EXCEPT ![r.inst] = NewRow(prior, q, r)]
               /\ FillRow(p).inst = r.inst /\ FillRow(p).side = r.final /\ FillRow(p).qty = q
               /\ FillRow(p).price = FillPrice(r)
               /\ FillRow(p).realized = RealizedBy(prior, q, r)
  <1> DEFINE r == exec[p].req
             q == exec[p].qty
             prior == positions[r.inst]
  <1>1. /\ r \in Request /\ Executable(r) /\ QuotedPrice(r) # None
        /\ r.inst \in Instruments /\ r.final \in {"LONG", "SHORT"}
        /\ prior \in PositionRow \cup {None}
        /\ q \in Nat /\ q > 0
    BY CommitFillFacts
  <1>2. /\ positions' = [positions EXCEPT ![r.inst] = NewRow(prior, q, r)]
        /\ FillRow(p).inst = r.inst /\ FillRow(p).side = r.final /\ FillRow(p).qty = q
        /\ FillRow(p).price = FillPrice(r)
        /\ FillRow(p).realized = RealizedBy(prior, q, r)
    BY DEF CommitFill, FillRow
  <1> HIDE DEF r, q, prior
  <1>3. NewRow(prior, q, r) # None
    BY <1>1, NewRowIsRow, ExecutionAssumption
  <1>4. /\ FillPrice(r) \in Int /\ NewEntry(prior, q, r) \in Int
        /\ RealizedBy(prior, q, r) \in Int
    BY <1>1, FillPriceIsInt, NewFieldsAreTyped, RealizedIsInt
  <1>5. QED
    BY <1>1, <1>2, <1>3, <1>4 DEF r, q, prior

\* Every step keeps the net positions.
LEMMA StepQtyInv ==
    ASSUME TypeOK, MarkInv, QtyInv, [Next]_vars PROVE QtyInv'
  <1>1. CASE UNCHANGED vars
    BY <1>1 DEF vars, QtyInv, Holding, QtyFills, FillsOf
  <1>2. ASSUME NEW p \in Procs, Start(p) \/ Step(p) \/ Abort(p), NEW i \in Instruments
        PROVE  Holding(positions'[i]) = SumFunction(QtyFills(i))'
    <2>0. Holding(positions[i]) = SumFunction(QtyFills(i))
      BY DEF QtyInv
    <2>1. CASE ~CommitFill(p)
      <3>1. Holding(positions'[i]) = Holding(positions[i]) /\ fills' = fills
        BY <1>2, <2>1, OtherStepsKeepAccounts
      <3>2. QtyFills(i)' = QtyFills(i)
        BY <3>1 DEF QtyFills, FillsOf
      <3>3. QED
        BY <2>0, <3>1, <3>2
    <2>2. CASE CommitFill(p)
      <3> DEFINE r == exec[p].req
                 q == exec[p].qty
                 prior == positions[r.inst]
      <3>1. /\ r \in Request /\ r.final \in {"LONG", "SHORT"} /\ r.inst \in Instruments
            /\ q \in Nat /\ q > 0 /\ prior \in PositionRow \cup {None}
            /\ NewRow(prior, q, r) # None
            /\ positions' = [positions EXCEPT ![r.inst] = NewRow(prior, q, r)]
            /\ FillRow(p).inst = r.inst /\ FillRow(p).side = r.final /\ FillRow(p).qty = q
        BY <2>2, CommitWrites
      <3>2. DOMAIN positions = Instruments
        BY DEF TypeOK
      <3>3. CASE r.inst # i
        <4>1. positions'[i] = positions[i]
          BY <3>1, <3>2, <3>3
        <4>2. SumFunction(QtyFills(i))' = SumFunction(QtyFills(i))
          BY <2>2, <3>1, <3>3, FillAddsToSums
        <4>3. QED
          BY <2>0, <4>1, <4>2
      <3>4. CASE r.inst = i
        <4>1. positions'[i] = NewRow(prior, q, r) /\ positions[i] = prior
          BY <3>1, <3>2, <3>4
        <4>2. SumFunction(QtyFills(i))' = SumFunction(QtyFills(i)) + Signed(r.final, q)
          BY <2>2, <3>1, <3>4, FillAddsToSums
        <4> HIDE DEF r, q, prior
        <4>3. Holding(NewRow(prior, q, r)) = Holding(prior) + Signed(r.final, q)
          BY <3>1, OrderAddsUp
        <4>4. QED
          BY <2>0, <4>1, <4>2, <4>3
      <3>5. QED
        BY <3>3, <3>4
    <2>3. QED
      BY <2>1, <2>2
  <1>3. ASSUME Next PROVE QtyInv'
    <2>1. \A i \in Instruments : Holding(positions'[i]) = SumFunction(QtyFills(i))'
      BY <1>2, <1>3 DEF Next
    <2>2. QED
      BY <2>1 DEF QtyInv, Holding
  <1>4. QED
    BY <1>1, <1>3

\* What the averages of a step lose to rounding: nothing.
ExactStep ==
    \A p \in Procs : CommitFill(p) =>
        AveragesExactly(positions[exec[p].req.inst], exec[p].qty, exec[p].req)

ExactAverages == [][ExactStep]_vars

\* By how much the fills and the row of an instrument disagree.
Drift(i) == SumFunction(CostFills(i)) - Cost(positions[i]) + SumFunction(ProfitFills(i))

LEMMA DriftIsInt ==
    ASSUME TypeOK, NEW i \in Instruments
    PROVE  /\ Drift(i) \in Int
           /\ SumFunction(CostFills(i)) \in Int /\ Cost(positions[i]) \in Int
           /\ SumFunction(ProfitFills(i)) \in Int /\ SumFunction(LotFills(i)) \in Int
  <1>1. positions[i] \in PositionRow \cup {None}
    BY DEF TypeOK
  <1>2. Cost(positions[i]) \in Int
    BY <1>1, CostIsInt
  <1>3. /\ DOMAIN CostFills(i) = FillsOf(i) /\ DOMAIN ProfitFills(i) = FillsOf(i)
        /\ DOMAIN LotFills(i) = FillsOf(i)
    BY DEF CostFills, ProfitFills, LotFills
  <1>4. /\ SumFunction(CostFills(i)) \in Int /\ SumFunction(ProfitFills(i)) \in Int
        /\ SumFunction(LotFills(i)) \in Int
    BY <1>3, FillsAreNumbers, SumIsInt DEF SumFunction
  <1>5. QED
    BY <1>2, <1>4 DEF Drift

\* Only a fill of the instrument moves it, by what its average loses.
LEMMA StepDrift ==
    ASSUME NEW p \in Procs, TypeOK, MarkInv, Start(p) \/ Step(p) \/ Abort(p),
           NEW i \in Instruments
    PROVE  IF CommitFill(p) /\ exec[p].req.inst = i
           THEN LET r == exec[p].req
                    lost == Lost(positions[i], exec[p].qty, r)
                IN  lost \in Int /\ Drift(i)' = Drift(i) + Signed(r.final, lost)
           ELSE Drift(i)' = Drift(i)
  <1>0. Cost(positions[i])' = Cost(positions'[i])
    BY DEF Cost, Holding
  <1>1. CASE ~CommitFill(p)
    <2>1. Cost(positions'[i]) = Cost(positions[i]) /\ fills' = fills
      BY <1>1, OtherStepsKeepAccounts
    <2>2. CostFills(i)' = CostFills(i) /\ ProfitFills(i)' = ProfitFills(i)
      BY <2>1 DEF CostFills, ProfitFills, FillsOf
    <2>3. Drift(i)' = Drift(i)
      BY <1>0, <2>1, <2>2 DEF Drift
    <2>4. QED
      BY <1>1, <2>3
  <1>2. CASE CommitFill(p)
    <2> DEFINE r == exec[p].req
               q == exec[p].qty
               prior == positions[r.inst]
               lost == Lost(prior, q, r)
    <2>1. /\ r \in Request /\ r.final \in {"LONG", "SHORT"} /\ r.inst \in Instruments
          /\ q \in Nat /\ q > 0 /\ prior \in PositionRow \cup {None}
          /\ NewRow(prior, q, r) # None /\ FillPrice(r) \in Int
          /\ NewEntry(prior, q, r) \in Int /\ RealizedBy(prior, q, r) \in Int
          /\ positions' = [positions EXCEPT ![r.inst] = NewRow(prior, q, r)]
          /\ FillRow(p).inst = r.inst /\ FillRow(p).side = r.final /\ FillRow(p).qty = q
          /\ FillRow(p).price = FillPrice(r)
          /\ FillRow(p).realized = RealizedBy(prior, q, r)
      BY <1>2, CommitWrites
    <2>2. DOMAIN positions = Instruments
      BY DEF TypeOK
    <2>3. CASE r.inst # i
      <3>1. positions'[i] = positions[i]
        BY <2>1, <2>2, <2>3
      <3>2. /\ SumFunction(CostFills(i))' = SumFunction(CostFills(i))
            /\ SumFunction(ProfitFills(i))' = SumFunction(ProfitFills(i))
        BY <1>2, <2>1, <2>3, FillAddsToSums
      <3>3. Drift(i)' = Drift(i)
        BY <1>0, <3>1, <3>2 DEF Drift
      <3>4. QED
        BY <2>3, <3>3
    <2>4. CASE r.inst = i
      <3>1. positions'[i] = NewRow(prior, q, r) /\ positions[i] = prior
        BY <2>1, <2>2, <2>4
      <3>2. /\ SumFunction(CostFills(i))'
                 = SumFunction(CostFills(i)) + Signed(r.final, q * FillPrice(r))
            /\ SumFunction(ProfitFills(i))'
                 = SumFunction(ProfitFills(i)) + RealizedBy(prior, q, r)
            /\ SumFunction(CostFills(i)) \in Int /\ SumFunction(ProfitFills(i)) \in Int
        BY <1>2, <2>1, <2>4, FillAddsToSums
      <3>3. /\ Drift(i)' = SumFunction(CostFills(i))' - Cost(NewRow(prior, q, r))
                           + SumFunction(ProfitFills(i))'
            /\ Drift(i) = SumFunction(CostFills(i)) - Cost(prior) + SumFunction(ProfitFills(i))
        BY <1>0, <3>1 DEF Drift
      <3> HIDE DEF r, q, prior, lost
      <3>4. /\ lost \in Int
            /\ Cost(NewRow(prior, q, r)) - RealizedBy(prior, q, r)
                 = Cost(prior) + Signed(r.final, q * FillPrice(r)) - Signed(r.final, lost)
        BY <2>1, OrderCosts DEF lost
      <3>5. Cost(prior) \in Int /\ Cost(NewRow(prior, q, r)) \in Int
        <4>1. Cost(prior) \in Int
          BY <2>1, CostIsInt
        <4>2. Holding(prior) \in Int /\ Signed(r.final, q) \in Int
          BY <2>1, HoldingIsInt DEF Signed
        <4>3. Holding(NewRow(prior, q, r)) \in Int
          BY <2>1, <4>2, OrderAddsUp
        <4>4. NewRow(prior, q, r).entry \in Int
          BY <2>1, NewRowFields
        <4>5. QED
          BY <4>1, <4>3, <4>4 DEF Cost
      <3>6. Signed(r.final, q * FillPrice(r)) \in Int /\ Signed(r.final, lost) \in Int
        BY <2>1, <3>4 DEF Signed
      <3>7. Drift(i)' = Drift(i) + Signed(r.final, lost)
        BY <2>1, <3>2, <3>3, <3>4, <3>5, <3>6
      <3>8. QED
        BY <1>2, <2>4, <3>1, <3>4, <3>7 DEF r, q, lost
    <2>5. QED
      BY <2>3, <2>4
  <1>3. QED
    BY <1>1, <1>2

\* A position for which nothing is lost has no drift to begin with and gets none.
LEMMA ProfitIsNoDrift ==
    ASSUME TypeOK PROVE ProfitInv <=> \A i \in Instruments : Drift(i) = 0
  BY DriftIsInt DEF ProfitInv, Drift

\* Every step whose averages are exact keeps the profit identity.
LEMMA StepProfitInv ==
    ASSUME TypeOK, TypeOK', MarkInv, ProfitInv, [Next]_vars, [ExactStep]_vars
    PROVE  ProfitInv'
  <1>1. CASE UNCHANGED vars
    BY <1>1 DEF vars, ProfitInv, Holding, Cost, CostFills, ProfitFills, FillsOf
  <1>2. ASSUME ExactStep, NEW p \in Procs, Start(p) \/ Step(p) \/ Abort(p),
               NEW i \in Instruments
        PROVE  Drift(i)' = 0
    <2> DEFINE r == exec[p].req
               q == exec[p].qty
               lost == Lost(positions[i], q, r)
    <2>1. Drift(i) = 0
      BY ProfitIsNoDrift
    <2>2. CASE CommitFill(p) /\ r.inst = i
      <3>1. AveragesExactly(positions[i], q, r)
        BY <1>2, <2>2 DEF ExactStep
      <3>2. Drift(i)' = Drift(i) + Signed(r.final, lost)
        BY <1>2, <2>2, StepDrift
      <3>3. /\ r \in Request /\ q \in Nat /\ positions[i] \in PositionRow \cup {None}
            /\ FillPrice(r) \in Int
        BY <2>2, CommitWrites
      <3> HIDE DEF r, q
      <3>4. lost = 0
        BY <3>1, <3>3, NothingLost
      <3>5. Signed(r.final, lost) = 0
        BY <3>4, NothingSigned
      <3>6. QED
        BY <2>1, <3>2, <3>5
    <2>3. CASE ~(CommitFill(p) /\ r.inst = i)
      BY <1>2, <2>1, <2>3, StepDrift
    <2>4. QED
      BY <2>2, <2>3
  <1>3. ASSUME Next, ExactStep PROVE ProfitInv'
    <2>1. \A i \in Instruments : Drift(i)' = 0
      BY <1>2, <1>3 DEF Next
    <2>2. TypeOK' => (ProfitInv <=> \A i \in Instruments : Drift(i) = 0)'
      BY ProfitIsNoDrift, PTL
    <2>3. QED
      BY <2>1, <2>2
  <1>4. QED
    BY <1>1, <1>3

\* An empty store holds nothing and has traded nothing.
LEMMA InitAccounts == Init => MarkInv /\ QtyInv /\ ProfitInv
  <1> SUFFICES ASSUME Init PROVE MarkInv /\ QtyInv /\ ProfitInv
    OBVIOUS
  <1>1. \A reply : Idle(reply).pc = "idle"
    BY DEF Idle, Call
  <1>2. MarkInv
    BY <1>1 DEF Init, MarkInv
  <1>3. ASSUME NEW i \in Instruments
        PROVE  /\ Holding(positions[i]) = 0 /\ Cost(positions[i]) = 0
               /\ SumFunction(QtyFills(i)) = 0 /\ SumFunction(CostFills(i)) = 0
               /\ SumFunction(ProfitFills(i)) = 0
    <2>1. FillsOf(i) = {} /\ positions[i] = None
      BY DEF Init, FillsOf
    <2>2. DOMAIN QtyFills(i) = {} /\ DOMAIN CostFills(i) = {} /\ DOMAIN ProfitFills(i) = {}
      BY <2>1 DEF QtyFills, CostFills, ProfitFills
    <2>3. QED
      BY <2>1, <2>2, SumOverNothing DEF Holding, Cost, SumFunction
  <1>4. QED
    BY <1>2, <1>3 DEF QtyInv, ProfitInv

\* Where no process marks what another trades, a mark that is written back is the row
\* of the table but for its mark.
THEOREM MarksAreFresh == ASSUME OneDeskPerInstrument PROVE Spec => []MarkInv
  <1>1. Init => MarkInv
    BY InitAccounts
  <1>2. TypeOK /\ MarkInv /\ [Next]_vars => MarkInv'
    BY StepMarkInv
  <1>3. QED
    BY <1>1, <1>2, TypeCorrect, PTL DEF Spec

\* Then the position of an instrument is what its fills add up to, through adds, partial
\* closes, flips, crashes and retries (PaperExecutor.execute and mark_to_market).
THEOREM PositionsAddUp == ASSUME OneDeskPerInstrument PROVE Spec => []NetPosition
  <1>1. Init => QtyInv
    BY InitAccounts
  <1>2. TypeOK /\ MarkInv /\ QtyInv /\ [Next]_vars => QtyInv'
    BY StepQtyInv
  <1>3. Spec => []MarkInv
    BY MarksAreFresh
  <1>4. QtyInv => NetPosition
    BY AccountsRestated
  <1>5. QED
    BY <1>1, <1>2, <1>3, <1>4, TypeCorrect, PTL DEF Spec

\* And where the averages are exact besides, no profit is invented or lost by averaged
\* entries and partial closes.
THEOREM ProfitsAddUp ==
    ASSUME OneDeskPerInstrument PROVE Spec /\ ExactAverages => []ProfitIdentity
  <1>1. Init => ProfitInv
    BY InitAccounts
  <1>2. TypeOK /\ TypeOK' /\ MarkInv /\ ProfitInv /\ [Next]_vars /\ [ExactStep]_vars => ProfitInv'
    BY StepProfitInv
  <1>3. Spec => []MarkInv
    BY MarksAreFresh
  <1>4. ProfitInv => ProfitIdentity
    BY AccountsRestated
  <1>5. QED
    BY <1>1, <1>2, <1>3, <1>4, TypeCorrect, PTL DEF Spec, ExactAverages

(***************************************************************************)
(* What rounded averages do to the accounts.                               *)
(***************************************************************************)
LotsHeld(i) == IF positions[i] = None THEN 0 ELSE positions[i].qty
LotsTraded(i) == SumFunction(LotFills(i))

\* A step moves the accounts of an instrument by nothing, or is a fill that adds to its
\* position and moves them by less than one unit of the price for each lot then held:
\* its average entry is rounded down.
RoundedStep ==
    \A i \in Instruments :
        \/ Drift(i)' = Drift(i)
        \/ /\ Len(fills') = Len(fills) + 1
           /\ \E lost \in 1..(LotsHeld(i)' - 1) :
                 Drift(i)' = Drift(i) + Signed(positions'[i].side, lost)

Within(off, i) == off <= Len(fills) * LotsTraded(i) /\ -off <= Len(fills) * LotsTraded(i)

RoundingInv ==
    \A i \in Instruments :
        /\ LotsHeld(i) <= LotsTraded(i)
        /\ Within(Drift(i), i)

\* One fill more, of at most as many lots as were then traded.
LEMMA WithinGrows ==
    ASSUME NEW n \in Nat, NEW t \in Int, NEW u \in Int, t <= u, 0 <= t,
           NEW d \in Int, d <= n * t, -d <= n * t,
           NEW e \in Int, e - d <= u, d - e <= u
    PROVE  e <= (n + 1) * u /\ -e <= (n + 1) * u
  <1>1. n * t \in Int /\ n * u \in Int /\ (n + 1) * u = n * u + u
    OBVIOUS
  <1>2. n * t <= n * u
    OBVIOUS
  <1>3. QED
    BY <1>1, <1>2

\* An order leaves at most the lots there were and its own.
LEMMA LotsGrow ==
    ASSUME NEW r \in Request, NEW q \in Nat, q > 0, NEW prior \in PositionRow \cup {None}
    PROVE  /\ NewQty(prior, q, r) \in Int
           /\ NewQty(prior, q, r) <= q + (IF prior = None THEN 0 ELSE prior.qty)
  <1>1. prior # None => prior.qty \in Int /\ prior.qty >= 0
    BY DEF PositionRow
  <1>2. IsOpen(prior) => prior # None
    BY DEF IsOpen
  <1>3. CASE prior = None
    BY <1>2, <1>3 DEF NewQty, SameSide, Opposes
  <1>4. CASE prior # None
    BY <1>1, <1>4 DEF NewQty, SameSide, Opposes
  <1>5. QED
    BY <1>3, <1>4

LEMMA LotFacts ==
    ASSUME TypeOK, NEW i \in Instruments
    PROVE  /\ LotsHeld(i) \in Int /\ LotsHeld(i) >= 0 /\ LotsTraded(i) \in Int
           /\ Len(fills) \in Nat
  <1>1. positions[i] \in PositionRow \cup {None} /\ fills \in Seq(FillRows)
    BY DEF TypeOK
  <1>2. LotsHeld(i) \in Int /\ LotsHeld(i) >= 0
    BY <1>1 DEF LotsHeld, PositionRow
  <1>3. QED
    BY <1>1, <1>2, DriftIsInt DEF LotsTraded

\* What a fill does to its own instrument.
LEMMA FillRounds ==
    ASSUME NEW p \in Procs, TypeOK, MarkInv, Start(p) \/ Step(p) \/ Abort(p),
           CommitFill(p), NEW i \in Instruments, exec[p].req.inst = i
    PROVE  /\ Len(fills') = Len(fills) + 1
           /\ \E q \in Nat : /\ LotsTraded(i)' = LotsTraded(i) + q
                             /\ LotsHeld(i)' <= LotsHeld(i) + q
           /\ \/ Drift(i)' = Drift(i)
              \/ \E lost \in 1..(LotsHeld(i)' - 1) :
                    Drift(i)' = Drift(i) + Signed(positions'[i].side, lost)
  <1> DEFINE r == exec[p].req
             q == exec[p].qty
             prior == positions[i]
             lost == Lost(prior, q, r)
  <1>1. /\ r \in Request
        /\ q \in Nat /\ q > 0 /\ prior \in PositionRow \cup {None}
        /\ NewRow(prior, q, r) # None /\ FillPrice(r) \in Int
        /\ positions' = [positions EXCEPT ![i] = NewRow(prior, q, r)]
        /\ FillRow(p).inst = i /\ FillRow(p).qty = q
    BY CommitWrites
  <1>2. fills \in Seq(FillRows) /\ fills' = Append(fills, FillRow(p)) /\ DOMAIN positions = Instruments
    BY DEF TypeOK, CommitFill
  <1>3. Len(fills') = Len(fills) + 1
    BY <1>2
  <1>4. LotsTraded(i)' = LotsTraded(i) + q
    BY <1>1, FillAddsToSums DEF LotsTraded
  <1>5. positions'[i] = NewRow(prior, q, r)
    BY <1>1, <1>2
  <1>6. LotsHeld(i)' = NewQty(prior, q, r) /\ positions'[i].side = NewSide(prior, q, r)
    BY <1>1, <1>5, NewRowFields DEF LotsHeld
  <1>7. LotsHeld(i) = IF prior = None THEN 0 ELSE prior.qty
    BY DEF LotsHeld
  <1>8. Drift(i)' = Drift(i) + Signed(r.final, lost)
    BY <1>1, StepDrift
  <1>9. Drift(i) \in Int
    BY <1>1, DriftIsInt
  <1> HIDE DEF r, q, prior, lost
  <1>10. LotsHeld(i)' <= LotsHeld(i) + q
    BY <1>1, <1>6, <1>7, LotsGrow, LotFacts
  <1>11. CASE lost = 0
    <2>1. Signed(r.final, lost) = 0
      BY <1>11, NothingSigned
    <2>2. Drift(i)' = Drift(i)
      BY <1>8, <1>9, <2>1
    <2>3. QED
      BY <1>1, <1>3, <1>4, <1>10, <2>2
  <1>12. CASE lost # 0
    <2>1. SameSide(prior, r) /\ lost \in 1..(NewQty(prior, q, r) - 1)
      BY <1>1, <1>12, LostIsSmall, LotsGrow DEF lost
    <2>2. NewSide(prior, q, r) = r.final
      BY <2>1 DEF NewSide, SameSide, Opposes
    <2>3. \E l \in 1..(LotsHeld(i)' - 1) :
             Drift(i)' = Drift(i) + Signed(positions'[i].side, l)
      BY <1>6, <1>8, <2>1, <2>2
    <2>4. QED
      BY <1>1, <1>3, <1>4, <1>10, <2>3
  <1>13. QED
    BY <1>11, <1>12

\* What any step does to an instrument that it does not fill.
LEMMA OthersDoNotRound ==
    ASSUME NEW p \in Procs, TypeOK, MarkInv, Start(p) \/ Step(p) \/ Abort(p),
           NEW i \in Instruments, ~(CommitFill(p) /\ exec[p].req.inst = i)
    PROVE  /\ Drift(i)' = Drift(i) /\ LotsTraded(i)' = LotsTraded(i)
           /\ LotsHeld(i)' = LotsHeld(i) /\ Len(fills') \in {Len(fills), Len(fills) + 1}
  <1>1. Drift(i)' = Drift(i)
    BY StepDrift
  <1>2. CASE CommitFill(p)
    <2>1. /\ exec[p].req.inst # i /\ FillRow(p).inst = exec[p].req.inst
          /\ \E row : positions' = [positions EXCEPT ![exec[p].req.inst] = row]
      BY <1>2, CommitWrites
    <2>2. positions'[i] = positions[i]
      BY <2>1 DEF TypeOK
    <2>3. LotsTraded(i)' = LotsTraded(i)
      BY <1>2, <2>1, FillAddsToSums DEF LotsTraded
    <2>4. Len(fills') = Len(fills) + 1
      BY <1>2 DEF TypeOK, CommitFill
    <2>5. QED
      BY <1>1, <2>2, <2>3, <2>4 DEF LotsHeld
  <1>3. CASE ~CommitFill(p)
    <2>1. fills' = fills
      BY <1>3, OtherStepsKeepFills
    <2>2. LotFills(i)' = LotFills(i)
      BY <2>1 DEF LotFills, FillsOf
    <2>3. LotsHeld(i)' = LotsHeld(i)
      <3>1. CASE WriteMark(p)
        BY <3>1, WriteMarkFacts DEF SameHolding, LotsHeld
      <3>2. CASE ~WriteMark(p)
        <4>1. positions' = positions
          BY <1>3, <3>2 DEF Step, Start, RecordRefusal, OpenPortfolio, ReadCash, ReadRows, Size,
             CommitDuplicate, CommitInsufficient, Abort, dbVars
        <4>2. QED
          BY <4>1 DEF LotsHeld
      <3>3. QED
        BY <3>1, <3>2
    <2>4. QED
      BY <1>1, <2>1, <2>2, <2>3 DEF LotsTraded
  <1>4. QED
    BY <1>2, <1>3

LEMMA StepRounds ==
    ASSUME TypeOK, TypeOK', MarkInv, RoundingInv, [Next]_vars
    PROVE  RoundingInv' /\ [RoundedStep]_vars
  <1>1. CASE UNCHANGED vars
    BY <1>1 DEF vars, RoundingInv, Within, LotsHeld, LotsTraded, LotFills, Drift, Holding, Cost,
       CostFills, ProfitFills, FillsOf
  <1>2. ASSUME NEW p \in Procs, Start(p) \/ Step(p) \/ Abort(p), NEW i \in Instruments
        PROVE  /\ LotsHeld(i)' <= LotsTraded(i)' /\ Within(Drift(i), i)'
               /\ \/ Drift(i)' = Drift(i)
                  \/ /\ Len(fills') = Len(fills) + 1
                     /\ \E lost \in 1..(LotsHeld(i)' - 1) :
                           Drift(i)' = Drift(i) + Signed(positions'[i].side, lost)
    <2>1. /\ LotsHeld(i) <= LotsTraded(i)
          /\ Drift(i) <= Len(fills) * LotsTraded(i) /\ -Drift(i) <= Len(fills) * LotsTraded(i)
      BY DEF RoundingInv, Within
    <2>2. /\ LotsHeld(i) \in Int /\ LotsHeld(i) >= 0 /\ LotsTraded(i) \in Int
          /\ Len(fills) \in Nat /\ Drift(i) \in Int
      BY LotFacts, DriftIsInt
    <2>3. LotsHeld(i)' \in Int /\ LotsTraded(i)' \in Int /\ Drift(i)' \in Int
      <3>1. (TypeOK => LotsHeld(i) \in Int /\ LotsTraded(i) \in Int /\ Drift(i) \in Int)'
        BY LotFacts, DriftIsInt, PTL
      <3>2. QED
        BY <3>1
    <2>4. CASE CommitFill(p) /\ exec[p].req.inst = i
      <3>1. /\ Len(fills') = Len(fills) + 1
            /\ \/ Drift(i)' = Drift(i)
               \/ \E lost \in 1..(LotsHeld(i)' - 1) :
                     Drift(i)' = Drift(i) + Signed(positions'[i].side, lost)
        BY <1>2, <2>4, FillRounds
      <3>2. PICK q \in Nat : /\ LotsTraded(i)' = LotsTraded(i) + q
                            /\ LotsHeld(i)' <= LotsHeld(i) + q
        BY <1>2, <2>4, FillRounds
      <3>3. LotsHeld(i)' <= LotsTraded(i)' /\ LotsTraded(i) <= LotsTraded(i)'
        BY <2>1, <2>2, <2>3, <3>2
      <3>4. Drift(i)' - Drift(i) <= LotsTraded(i)' /\ Drift(i) - Drift(i)' <= LotsTraded(i)'
        <4>1. CASE Drift(i)' = Drift(i)
          BY <2>1, <2>2, <2>3, <3>3, <4>1
        <4>2. ASSUME NEW lost \in 1..(LotsHeld(i)' - 1),
                     Drift(i)' = Drift(i) + Signed(positions'[i].side, lost)
              PROVE  Drift(i)' - Drift(i) <= LotsTraded(i)' /\ Drift(i) - Drift(i)' <= LotsTraded(i)'
          <5>1. Signed(positions'[i].side, lost) \in {lost, -lost, 0}
            BY DEF Signed
          <5>2. lost \in Int /\ 1 <= lost /\ lost <= LotsTraded(i)'
            BY <2>3, <3>3
          <5>3. QED
            BY <2>2, <2>3, <4>2, <5>1, <5>2
        <4>3. QED
          BY <3>1, <4>1, <4>2
      <3>5. /\ Drift(i)' <= (Len(fills) + 1) * LotsTraded(i)'
            /\ -Drift(i)' <= (Len(fills) + 1) * LotsTraded(i)'
        <4> DEFINE n == Len(fills)
                   t == LotsTraded(i)
                   u == LotsTraded(i)'
                   d == Drift(i)
                   e == Drift(i)'
        <4>1. /\ n \in Nat /\ t \in Int /\ u \in Int /\ t <= u /\ 0 <= t /\ d \in Int /\ e \in Int
              /\ d <= n * t /\ -d <= n * t /\ e - d <= u /\ d - e <= u
          BY <2>1, <2>2, <2>3, <3>3, <3>4
        <4> HIDE DEF n, t, u, d, e
        <4>2. e <= (n + 1) * u /\ -e <= (n + 1) * u
          BY <4>1, WithinGrows
        <4>3. QED
          BY <4>2 DEF n, u, e
      <3>6. QED
        BY <3>1, <3>3, <3>5 DEF Within
    <2>5. CASE ~(CommitFill(p) /\ exec[p].req.inst = i)
      <3>1. /\ Drift(i)' = Drift(i) /\ LotsTraded(i)' = LotsTraded(i)
            /\ LotsHeld(i)' = LotsHeld(i) /\ Len(fills') \in {Len(fills), Len(fills) + 1}
        BY <1>2, <2>5, OthersDoNotRound
      <3>2. Len(fills) * LotsTraded(i) <= Len(fills') * LotsTraded(i)
        <4> DEFINE n == Len(fills)
                   m == Len(fills')
                   t == LotsTraded(i)
        <4>1. n \in Nat /\ m \in {n, n + 1} /\ t \in Nat
          BY <2>1, <2>2, <3>1
        <4> HIDE DEF n, m, t
        <4>2. n * t \in Int /\ (n + 1) * t = n * t + t
          BY <4>1
        <4>3. n * t <= m * t
          BY <4>1, <4>2
        <4>4. QED
          BY <4>3 DEF n, m, t
      <3>3. /\ Drift(i)' <= Len(fills') * LotsTraded(i)'
            /\ -Drift(i)' <= Len(fills') * LotsTraded(i)'
        <4> DEFINE a == Len(fills) * LotsTraded(i)
                   b == Len(fills') * LotsTraded(i)
        <4>1. a \in Int /\ b \in Int /\ a <= b
          BY <2>2, <3>1, <3>2
        <4>2. Drift(i) <= a /\ -Drift(i) <= a
          BY <2>1
        <4> HIDE DEF a, b
        <4>3. Drift(i) <= b /\ -Drift(i) <= b
          BY <2>2, <4>1, <4>2
        <4>4. QED
          BY <3>1, <4>3 DEF b
      <3>4. QED
        BY <2>1, <3>1, <3>3 DEF Within
    <2>6. QED
      BY <2>4, <2>5
  <1>3. CASE Next
    BY <1>2, <1>3 DEF Next, RoundingInv, RoundedStep
  <1>4. QED
    BY <1>1, <1>3

LEMMA InitRounds == Init => RoundingInv
  <1> SUFFICES ASSUME Init, NEW i \in Instruments
               PROVE  LotsHeld(i) <= LotsTraded(i) /\ Within(Drift(i), i)
    BY DEF RoundingInv
  <1>1. FillsOf(i) = {} /\ positions[i] = None /\ Len(fills) = 0
    BY DEF Init, FillsOf
  <1>2. DOMAIN CostFills(i) = {} /\ DOMAIN ProfitFills(i) = {} /\ DOMAIN LotFills(i) = {}
    BY <1>1 DEF CostFills, ProfitFills, LotFills
  <1>3. Drift(i) = 0 /\ LotsTraded(i) = 0 /\ LotsHeld(i) = 0
    BY <1>1, <1>2, SumOverNothing DEF Drift, Cost, LotsTraded, LotsHeld, SumFunction
  <1>4. 0 * 0 = 0 /\ \A n \in Int : n = 0 => -n <= 0
    OBVIOUS
  <1>5. QED
    BY <1>1, <1>3, <1>4 DEF Within

\* The profit identity with the room that rounding takes, in the terms of the model.
ProfitWithinRounding ==
    \A i \in Instruments :
        LET off  == SumFills(i, LAMBDA f : Signed(f.side, f.qty * f.price))
                      - (IF positions[i] = None THEN 0 ELSE SignedQty(i) * positions[i].entry)
                      + SumFills(i, LAMBDA f : f.realized)
            room == Len(fills) * SumFills(i, LAMBDA f : f.qty)
        IN  off <= room /\ -off <= room

LEMMA RoundingRestated == RoundingInv => ProfitWithinRounding
  <1>1. \A i : SignedQty(i) = Holding(positions[i])
    BY DEF SignedQty, Holding
  <1>2. \A i : (IF positions[i] = None THEN 0 ELSE SignedQty(i) * positions[i].entry)
               = Cost(positions[i])
    BY <1>1 DEF Cost
  <1>3. QED
    BY <1>2, SumsOfFills DEF RoundingInv, ProfitWithinRounding, Within, Drift, LotsTraded

\* Without exact averages: the rounding of one fill moves the accounts of an instrument by
\* less than one unit of the price for each lot held, and no other step moves them.
THEOREM RoundingIsSmall == ASSUME OneDeskPerInstrument PROVE Spec => [][RoundedStep]_vars
  <1>1. TypeOK /\ TypeOK' /\ MarkInv /\ RoundingInv /\ [Next]_vars
           => RoundingInv' /\ [RoundedStep]_vars
    BY StepRounds
  <1>2. QED
    BY <1>1, InitRounds, MarksAreFresh, TypeCorrect, PTL DEF Spec

\* After n fills they are off by at most n units for each lot ever traded.
THEOREM RoundingIsBounded ==
    ASSUME OneDeskPerInstrument PROVE Spec => []ProfitWithinRounding
  <1>1. TypeOK /\ TypeOK' /\ MarkInv /\ RoundingInv /\ [Next]_vars => RoundingInv'
    BY StepRounds
  <1>2. QED
    BY <1>1, InitRounds, RoundingRestated, MarksAreFresh, TypeCorrect, PTL DEF Spec

(***************************************************************************)
(* The drawdown of the report.  It goes along the curve once and holds     *)
(* only a peak and the worst fall; what it returns is a statement about    *)
(* all pairs of rows.                                                      *)
(***************************************************************************)
\* Row i of curve c is the highest until row m.
HighestUntil(c, i, m) == i <= m /\ \A k \in 1..m : c[k] <= c[i]

\* What is to be held after m rows.
SeenUntil(c, m, seen) ==
    /\ \E i \in 1..m : HighestUntil(c, i, m) /\ seen.peak = c[i]
    /\ \E j \in 1..m : \E i \in 1..m : HighestUntil(c, i, j) /\ seen.worst = Fall(c[i], c[j])
    /\ \A j \in 1..m : \A i \in 1..m : HighestUntil(c, i, j) => Fall(c[i], c[j]) <= seen.worst

LEMMA FallIsInt ==
    ASSUME NEW peak \in Int, NEW equity \in Int
    PROVE  Fall(peak, equity) \in Int
  BY DEF Fall

LEMMA NoFall == ASSUME NEW peak \in Int PROVE Fall(peak, peak) = 0
  BY DEF Fall

LEMMA PassedFields ==
    ASSUME NEW seen, NEW equity
    PROVE  /\ Passed(seen, equity).peak = LargerOf(seen.peak, equity)
           /\ Passed(seen, equity).worst =
                LargerOf(seen.worst, Fall(LargerOf(seen.peak, equity), equity))
  BY DEF Passed

\* The first row is its own peak.
LEMMA FirstSeen ==
    ASSUME NEW n \in Nat, n >= 1, NEW c \in [1..n -> Int],
           NEW base, base.peak = c[1], base.worst = 0
    PROVE  SeenUntil(c, 1, Passed(base, c[1]))
  <1> DEFINE seen == Passed(base, c[1])
  <1>1. c[1] \in Int
    OBVIOUS
  <1>2. seen.peak = c[1] /\ seen.worst = 0
    BY <1>1, PassedFields, NoFall DEF LargerOf
  <1>3. Fall(c[1], c[1]) = 0 /\ HighestUntil(c, 1, 1)
    BY <1>1, NoFall DEF HighestUntil
  <1> HIDE DEF seen
  <1>4. \A i \in 1..1 : i = 1
    OBVIOUS
  <1>5. 1 \in 1..1
    OBVIOUS
  <1>6. SeenUntil(c, 1, seen)
    BY <1>2, <1>3, <1>4, <1>5 DEF SeenUntil
  <1>7. QED
    BY <1>6 DEF seen

\* One row more.
LEMMA NextSeen ==
    ASSUME NEW n \in Nat, NEW c \in [1..n -> Int], NEW m \in 1..n, m + 1 <= n,
           NEW seen, SeenUntil(c, m, seen)
    PROVE  SeenUntil(c, m + 1, Passed(seen, c[m + 1]))
  <1> DEFINE last == m + 1
             now == Passed(seen, c[last])
  <1>1. /\ last \in 1..n /\ \A k \in 1..last : k \in 1..m \/ k = last
        /\ \A k \in 1..m : k \in 1..last /\ k <= last /\ c[k] \in Int
        /\ last \in 1..last /\ c[last] \in Int
    OBVIOUS
  <1>2. PICK i0 \in 1..m : HighestUntil(c, i0, m) /\ seen.peak = c[i0]
    BY DEF SeenUntil
  <1>3. PICK j1 \in 1..m, i1 \in 1..m :
           HighestUntil(c, i1, j1) /\ seen.worst = Fall(c[i1], c[j1])
    BY DEF SeenUntil
  <1>4. seen.peak \in Int /\ seen.worst \in Int
    BY <1>1, <1>2, <1>3, FallIsInt
  <1>5. now.peak = LargerOf(seen.peak, c[last])
        /\ now.worst = LargerOf(seen.worst, Fall(now.peak, c[last]))
    BY PassedFields
  <1>6. PICK i2 \in 1..last : HighestUntil(c, i2, last) /\ now.peak = c[i2]
    <2>1. CASE c[last] > seen.peak
      <3>1. now.peak = c[last]
        BY <1>5, <2>1 DEF LargerOf
      <3>2. \A k \in 1..last : c[k] <= c[last]
        <4>1. \A k \in 1..m : c[k] <= c[i0] /\ c[k] \in Int /\ c[i0] \in Int
          BY <1>1, <1>2 DEF HighestUntil
        <4>2. c[i0] < c[last] /\ c[last] \in Int
          BY <1>1, <1>2, <2>1
        <4> HIDE DEF last
        <4>3. \A k \in 1..m : c[k] <= c[last]
          BY <1>2, <4>1, <4>2
        <4>4. QED
          BY <1>1, <4>2, <4>3
      <3>3. QED
        BY <1>1, <3>1, <3>2 DEF HighestUntil
    <2>2. CASE ~(c[last] > seen.peak)
      <3>1. now.peak = c[i0]
        BY <1>2, <1>5, <2>2 DEF LargerOf
      <3>2. \A k \in 1..last : c[k] <= c[i0]
        BY <1>1, <1>2, <2>2 DEF HighestUntil
      <3>3. QED
        BY <1>1, <3>1, <3>2 DEF HighestUntil
    <2>3. QED
      BY <2>1, <2>2
  <1>7. now.peak \in Int /\ Fall(now.peak, c[last]) \in Int
    BY <1>1, <1>6, FallIsInt
  <1>8. /\ now.worst \in {seen.worst, Fall(now.peak, c[last])}
        /\ seen.worst <= now.worst /\ Fall(now.peak, c[last]) <= now.worst
    BY <1>4, <1>5, <1>7 DEF LargerOf
  <1>9. \A i \in 1..last : HighestUntil(c, i, last) => c[i] = now.peak
    <2>1. ASSUME NEW i \in 1..last, HighestUntil(c, i, last) PROVE c[i] = now.peak
      <3>1. c[i] <= c[i2] /\ c[i2] <= c[i] /\ c[i] \in Int /\ c[i2] \in Int
        BY <1>1, <1>6, <2>1 DEF HighestUntil
      <3>2. QED
        BY <1>6, <3>1
    <2>2. QED
      BY <2>1
  <1>10. \A j \in 1..m : \A i \in 1..last : HighestUntil(c, i, j) => i \in 1..m
    BY DEF HighestUntil
  <1> HIDE DEF now, last
  <1>11. \E j \in 1..last : \E i \in 1..last :
            HighestUntil(c, i, j) /\ now.worst = Fall(c[i], c[j])
    BY <1>1, <1>3, <1>6, <1>8
  <1>12. ASSUME NEW j \in 1..last, NEW i \in 1..last, HighestUntil(c, i, j)
         PROVE  Fall(c[i], c[j]) <= now.worst
    <2>1. CASE j = last
      BY <1>8, <1>9, <1>12, <2>1
    <2>2. CASE j \in 1..m
      <3>1. i \in 1..m
        BY <1>10, <1>12, <2>2
      <3>2. Fall(c[i], c[j]) <= seen.worst
        BY <1>12, <2>2, <3>1 DEF SeenUntil
      <3>3. Fall(c[i], c[j]) \in Int /\ now.worst \in Int
        BY <1>1, <1>4, <1>7, <1>8, <2>2, <3>1, FallIsInt
      <3>4. QED
        BY <1>4, <1>8, <3>2, <3>3
    <2>3. QED
      BY <1>1, <2>1, <2>2
  <1>13. SeenUntil(c, last, now)
    BY <1>6, <1>11, <1>12 DEF SeenUntil
  <1>14. QED
    BY <1>13 DEF now, last

IsSeen(f, last) ==
    f = [n \in 0..last |->
            IF n = 0 THEN [peak |-> equities[1].equity, worst |-> 0]
            ELSE Passed(f[n - 1], equities[n].equity)]

LEMMA SeenSteps ==
    ASSUME NEW f, NEW last, IsSeen(f, last)
    PROVE  \A n \in 0..last :
             f[n] = IF n = 0 THEN [peak |-> equities[1].equity, worst |-> 0]
                    ELSE Passed(f[n - 1], equities[n].equity)
  <1> DEFINE step(n) == IF n = 0 THEN [peak |-> equities[1].equity, worst |-> 0]
                        ELSE Passed(f[n - 1], equities[n].equity)
  <1>1. f = [n \in 0..last |-> step(n)]
    BY DEF IsSeen
  <1> HIDE DEF step
  <1>2. \A n \in 0..last : f[n] = step(n)
    BY <1>1, Zenon
  <1>3. QED
    BY <1>2 DEF step

\* There is such a function, by the least length without one.
LEMMA SeenExists == \A k \in Nat : \E f : IsSeen(f, k)
  <1> DEFINE Bad == {k \in Nat : ~\E f : IsSeen(f, k)}
  <1>1. SUFFICES ASSUME Bad # {} PROVE FALSE
    OBVIOUS
  <1>2. PICK m \in Bad : \A k \in Bad : m <= k
    <2> Bad \subseteq Nat
      OBVIOUS
    <2> HIDE DEF Bad
    <2> QED
      BY <1>1, Least
  <1>3. CASE m = 0
    <2> DEFINE f == [n \in 0..0 |-> [peak |-> equities[1].equity, worst |-> 0]]
    <2>1. IsSeen(f, 0)
      BY DEF IsSeen
    <2>2. QED
      BY <1>2, <1>3, <2>1
  <1>4. CASE m # 0
    <2>1. m \in Nat /\ m - 1 \in Nat /\ ~(m <= m - 1)
      BY <1>2, <1>4
    <2>2. PICK g : IsSeen(g, m - 1)
      BY <1>2, <2>1
    <2> DEFINE f == [n \in 0..m |->
                       IF n = 0 THEN [peak |-> equities[1].equity, worst |-> 0]
                       ELSE Passed(g[n - 1], equities[n].equity)]
    <2>3. \A n \in 0..(m - 1) : f[n] = g[n]
      <3>1. \A n \in 0..(m - 1) : n \in 0..m
        BY <2>1
      <3>2. \A n \in 0..m :
              f[n] = IF n = 0 THEN [peak |-> equities[1].equity, worst |-> 0]
                     ELSE Passed(g[n - 1], equities[n].equity)
        BY Zenon
      <3> HIDE DEF f
      <3>3. QED
        BY <2>2, <3>1, <3>2, SeenSteps
    <2>4. \A n \in 0..m : n # 0 => f[n - 1] = g[n - 1]
      <3>1. \A n \in 0..m : n # 0 => n - 1 \in 0..(m - 1)
        BY <2>1
      <3> HIDE DEF f
      <3>2. QED
        BY <2>3, <3>1
    <2>5. IsSeen(f, m)
      BY <2>4 DEF IsSeen
    <2>6. QED
      BY <1>2, <2>5
  <1>5. QED
    BY <1>3, <1>4

\* After the last row the report holds the worst fall of all.
LEMMA DrawdownFacts ==
    ASSUME equities \in Seq(EquityRows), Len(equities) >= 2
    PROVE  LET c == [k \in 1..Len(equities) |-> equities[k].equity]
           IN  /\ c \in [1..Len(equities) -> Int]
               /\ \E seen : Drawdown = seen.worst /\ SeenUntil(c, Len(equities), seen)
  <1> DEFINE n == Len(equities)
             c == [k \in 1..n |-> equities[k].equity]
             f == CHOOSE f : IsSeen(f, n)
  <1>1. n \in Nat /\ n >= 2 /\ ~(n < 2)
    OBVIOUS
  <1>2. c \in [1..n -> Int]
    <2>1. \A k \in 1..n : equities[k] \in EquityRows
      OBVIOUS
    <2>2. QED
      BY <2>1 DEF EquityRows
  <1>3. IsSeen(f, n)
    BY <1>1, SeenExists
  <1>4. Drawdown = f[n].worst
    BY <1>1 DEF Drawdown, IsSeen
  <1> HIDE DEF f
  <1>5. f[0].peak = c[1] /\ f[0].worst = 0
        /\ \A k \in 1..n : f[k] = Passed(f[k - 1], c[k])
    <2>1. 0 \in 0..n /\ 1 \in 1..n /\ \A k \in 1..n : k \in 0..n /\ k # 0
      BY <1>1
    <2>2. f[0] = [peak |-> equities[1].equity, worst |-> 0]
      BY <1>3, <2>1, SeenSteps
    <2>3. \A k \in 1..n : f[k] = Passed(f[k - 1], equities[k].equity)
      BY <1>3, <2>1, SeenSteps
    <2>4. \A k \in 1..n : c[k] = equities[k].equity
      OBVIOUS
    <2> HIDE DEF c
    <2>5. QED
      BY <2>1, <2>2, <2>3, <2>4
  <1> HIDE DEF c, n
  <1> DEFINE Bad == {k \in 1..n : ~SeenUntil(c, k, f[k])}
  <1>6. ASSUME Bad # {} PROVE FALSE
    <2>1. PICK m \in Bad : \A k \in Bad : m <= k
      <3> Bad \subseteq Nat
        BY <1>1
      <3> HIDE DEF Bad
      <3> QED
        BY <1>6, Least
    <2>2. m \in 1..n
      OBVIOUS
    <2>3. SeenUntil(c, m, f[m])
      <3>1. CASE m = 1
        <4>1. n \in Nat /\ n >= 1 /\ f[1] = Passed(f[0], c[1])
          BY <1>1, <1>5
        <4>2. SeenUntil(c, 1, Passed(f[0], c[1]))
          BY <1>2, <1>5, <4>1, FirstSeen
        <4>3. QED
          BY <3>1, <4>1, <4>2
      <3>2. CASE m # 1
        <4>1. m - 1 \in 1..n /\ m \in Int /\ m - 1 + 1 = m /\ m <= n /\ ~(m <= m - 1)
          BY <1>1, <2>2, <3>2
        <4>2. SeenUntil(c, m - 1, f[m - 1])
          BY <2>1, <4>1
        <4>3. f[m] = Passed(f[m - 1], c[m])
          BY <1>5, <2>2
        <4> DEFINE k == m - 1
        <4>4. k \in 1..n /\ k + 1 = m /\ SeenUntil(c, k, f[k]) /\ f[m] = Passed(f[k], c[m])
          BY <4>1, <4>2, <4>3
        <4> HIDE DEF k
        <4>5. SeenUntil(c, k + 1, Passed(f[k], c[k + 1]))
          BY <1>1, <1>2, <4>1, <4>4, NextSeen
        <4>6. QED
          BY <4>4, <4>5
      <3>3. QED
        BY <3>1, <3>2
    <2>4. QED
      BY <2>1, <2>3
  <1>7. SeenUntil(c, n, f[n])
    BY <1>1, <1>6
  <1>8. QED
    BY <1>2, <1>4, <1>7 DEF c, n

\* The peak in the report goes along, so its drawdown is a fall from the highest
\* equity until then, and none is worse (compute_performance).
LEMMA DrawdownHolds == TypeOK => DrawdownIsWorst
  <1> SUFFICES ASSUME TypeOK, Drawdown # None
               PROVE  LET Falls == {Fall(equities[ij[1]].equity, equities[ij[2]].equity) :
                                      ij \in {kl \in (DOMAIN equities) \X (DOMAIN equities) :
                                                IsPeak(kl[1], kl[2])}}
                      IN  Drawdown \in Falls /\ \A fall \in Falls : fall <= Drawdown
    BY DEF DrawdownIsWorst
  <1> DEFINE n == Len(equities)
             c == [k \in 1..n |-> equities[k].equity]
             Pairs == {kl \in (DOMAIN equities) \X (DOMAIN equities) : IsPeak(kl[1], kl[2])}
  <1>1. equities \in Seq(EquityRows) /\ n \in Nat /\ DOMAIN equities = 1..n
    BY DEF TypeOK
  <1>2. n >= 2
    BY <1>1 DEF Drawdown
  <1>3. PICK seen : Drawdown = seen.worst /\ SeenUntil(c, n, seen)
    BY <1>1, <1>2, DrawdownFacts
  <1>4. \A k \in 1..n : c[k] = equities[k].equity
    OBVIOUS
  <1>5. \A i, j \in 1..n : IsPeak(i, j) <=> HighestUntil(c, i, j)
    <2>1. ASSUME NEW i \in 1..n, NEW j \in 1..n PROVE IsPeak(i, j) <=> HighestUntil(c, i, j)
      <3>1. \A k \in 1..j : k \in 1..n
        BY <1>1
      <3>2. QED
        BY <1>4, <3>1 DEF IsPeak, HighestUntil
    <2>2. QED
      BY <2>1
  <1> HIDE DEF c, n
  <1>6. PICK j \in 1..n, i \in 1..n : IsPeak(i, j) /\ Drawdown = Fall(c[i], c[j])
    BY <1>3, <1>5 DEF SeenUntil
  <1>7. <<i, j>> \in Pairs /\ Drawdown = Fall(equities[i].equity, equities[j].equity)
    BY <1>1, <1>4, <1>6
  <1>8. ASSUME NEW ij \in Pairs
        PROVE  Fall(equities[ij[1]].equity, equities[ij[2]].equity) <= Drawdown
    <2>1. ij[1] \in 1..n /\ ij[2] \in 1..n /\ IsPeak(ij[1], ij[2])
      BY <1>1
    <2>2. Fall(c[ij[1]], c[ij[2]]) <= Drawdown
      BY <1>3, <1>5, <2>1 DEF SeenUntil
    <2>3. QED
      BY <1>4, <2>1, <2>2
  <1>9. QED
    <2> HIDE DEF Pairs
    <2>1. Drawdown \in {Fall(equities[kl[1]].equity, equities[kl[2]].equity) : kl \in Pairs}
      BY <1>7
    <2>2. \A fall \in {Fall(equities[kl[1]].equity, equities[kl[2]].equity) : kl \in Pairs} :
             fall <= Drawdown
      BY <1>8
    <2>3. QED
      BY <2>1, <2>2 DEF Pairs

(***************************************************************************)
(* Money.  An order moves margin between cash and its position.  With one  *)
(* leverage for an instrument, and margins and averages without a          *)
(* remainder, what leaves cash is what the position holds, less what is    *)
(* realized (with two it is not: the run paper_leverage).                  *)
(***************************************************************************)
OneLeverage ==
    \A p, o \in Procs : \A r \in Requests[p], s \in Requests[o] :
        r.inst = s.inst => r.lev = s.lev

\* What the margins of an order lose to rounding: nothing.
MarginsExactly(prior, q, r) ==
    IsOpen(prior) =>
        /\ RowMargin(prior) * prior.lev = prior.qty * prior.entry
        /\ SameSide(prior, r) => Margin(q, r) * r.lev = Notional(q, r)
        /\ Opposes(prior, r) /\ prior.qty > q => Freed(prior, q) * prior.qty = RowMargin(prior) * q

ExactMarginStep ==
    \A p \in Procs : CommitFill(p) =>
        MarginsExactly(positions[exec[p].req.inst], exec[p].qty, exec[p].req)

ExactMargins == [][ExactMarginStep]_vars

\* A row has the leverage of an order for its instrument, and nothing if it is flat.
RowOf(row, i) ==
    /\ row.side = "FLAT" => row.qty = 0
    /\ \E p \in Procs : \E r \in Requests[p] : r.inst = i /\ r.lev = row.lev

RowInv == \A i \in Instruments : positions[i] # None => RowOf(positions[i], i)

MarginOf(row) == IF row = None THEN 0 ELSE RowMargin(row)

Margins == [i \in Instruments |-> IF positions[i] = None THEN 0 ELSE RowMargin(positions[i])]
Gains == [n \in DOMAIN fills |-> fills[n].realized]
Fees == [n \in DOMAIN fills |-> fills[n].fee]
NetGains == [n \in DOMAIN fills |-> fills[n].realized - fills[n].fee]

\* The balance, or what it will be when there is one.
Funds == IF cash = None THEN StartingBalance ELSE cash

MoneyInv ==
    /\ Funds + SumFunction(Margins) = StartingBalance + SumFunction(NetGains)
    /\ SumFunction(NetGains) = SumFunction(Gains) - SumFunction(Fees)

\* The last snapshot was taken with the cash there still is.
CurveInv == equities # <<>> => cash # None /\ LastRow.equity = cash + LastRow.upnl

LEMMA ExactQuotient ==
    ASSUME NEW a \in Int, NEW b \in Int, b > 0, NEW c \in Int, a = b * c
    PROVE  a \div b = c
  OBVIOUS

LEMMA CancelFactor ==
    ASSUME NEW a \in Int, NEW b \in Int, NEW c \in Int, c > 0, c * a = c * b
    PROVE  a = b
  OBVIOUS

\* pq * pe = k * m is held, x of it is freed for q of pq lots.
LEMMA RestOfMargin ==
    ASSUME NEW pq \in Int, pq > 0, NEW pe \in Int, NEW q \in Int, NEW k \in Int, k > 0,
           NEW m \in Int, NEW x \in Int, m * k = pq * pe, x * pq = m * q
    PROVE  (pq - q) * pe = k * (m - x)
  <1>1. pq * ((pq - q) * pe) = pq * (k * (m - x))
    <2>1. pq * ((pq - q) * pe) = (pq - q) * (pq * pe)
      OBVIOUS
    <2>2. (pq - q) * (pq * pe) = (pq - q) * (m * k)
      OBVIOUS
    <2>3. (pq - q) * (m * k) = k * (pq * m - m * q)
      OBVIOUS
    <2>4. k * (pq * m - m * q) = k * (pq * m - x * pq)
      OBVIOUS
    <2>5. k * (pq * m - x * pq) = pq * (k * (m - x))
      OBVIOUS
    <2>6. QED
      BY <2>1, <2>2, <2>3, <2>4, <2>5
  <1>2. (pq - q) * pe \in Int /\ k * (m - x) \in Int
    OBVIOUS
  <1> DEFINE a == (pq - q) * pe
             b == k * (m - x)
  <1>3. a \in Int /\ b \in Int /\ pq * a = pq * b
    BY <1>1, <1>2
  <1> HIDE DEF a, b
  <1>4. a = b
    BY <1>3, CancelFactor
  <1>5. QED
    BY <1>4 DEF a, b

\* What an order takes from cash is what the margin of its row gains, less what it
\* realizes.
LEMMA MarginsAddUp ==
    ASSUME NEW r \in Request, Executable(r), r.final \in {"LONG", "SHORT"},
           QuotedPrice(r) # None, NEW q \in Nat, q > 0,
           NEW prior \in PositionRow \cup {None},
           prior # None => prior.lev = r.lev /\ (prior.side = "FLAT" => prior.qty = 0),
           NewRow(prior, q, r) # None,
           AveragesExactly(prior, q, r), MarginsExactly(prior, q, r)
    PROVE  /\ MarginOf(NewRow(prior, q, r)) + CashFlow(prior, q, r)
                = MarginOf(prior) + RealizedBy(prior, q, r)
           /\ MarginOf(prior) \in Int /\ MarginOf(NewRow(prior, q, r)) \in Int
  <1> DEFINE new == NewRow(prior, q, r)
             k == r.lev
             e == NewEntry(prior, q, r)
             nq == NewQty(prior, q, r)
             price == FillPrice(r)
             gain == RealizedBy(prior, q, r)
  <1>1. k \in Int /\ k > 0 /\ price \in Int /\ e \in Int /\ gain \in Int /\ nq \in Int
    <2>1. k \in Int /\ k > 0
      BY DEF Request
    <2>2. price \in Int /\ gain \in Int
      BY FillPriceIsInt, RealizedIsInt
    <2>3. e \in Int /\ nq \in Nat
      BY NewFieldsAreTyped
    <2>4. QED
      BY <2>1, <2>2, <2>3
  <1>2. MarginOf(new) = (nq * e) \div k
    <2>1. new.qty = nq /\ new.entry = e /\ new.lev = k
      BY NewRowFields DEF NewRow, Marked
    <2> HIDE DEF new, nq, e, k
    <2>2. new # None
      BY DEF new
    <2>3. QED
      BY <2>1, <2>2 DEF MarginOf, RowMargin
  <1>3. Margin(q, r) = (q * price) \div k
    BY DEF Margin, Notional
  <1> DEFINE fresh == Margin(q, r)
             after == MarginOf(new)
  <1>4. fresh \in Int /\ after \in Int
    <2>1. q * price \in Int /\ nq * e \in Int
      BY <1>1
    <2> HIDE DEF k, e, nq, price, gain, new
    <2>2. (q * price) \div k \in Int /\ (nq * e) \div k \in Int
      BY <1>1, <2>1, DivIsInt
    <2>3. QED
      BY <1>2, <1>3, <2>2
  <1>5. CASE ~IsOpen(prior)
    <2>1. /\ nq = q /\ e = price /\ gain = 0 /\ CashFlow(prior, q, r) = -fresh
      BY <1>5 DEF NewQty, NewEntry, SameSide, Opposes, RealizedBy, CashFlow
    <2>2. MarginOf(prior) = 0
      <3>1. CASE prior = None
        BY <3>1 DEF MarginOf
      <3>2. CASE prior # None
        <4>1. prior.qty = 0 /\ prior.entry \in Int /\ prior.lev = k
          BY <1>5, <3>2 DEF IsOpen, PositionRow
        <4>2. prior.qty * prior.entry = k * 0
          BY <1>1, <4>1
        <4> HIDE DEF k
        <4>3. RowMargin(prior) = 0
          BY <1>1, <4>1, <4>2, ExactQuotient DEF RowMargin
        <4>4. QED
          BY <3>2, <4>3 DEF MarginOf
      <3>3. QED
        BY <3>1, <3>2
    <2>3. after = fresh
      BY <1>2, <1>3, <2>1
    <2> HIDE DEF k, e, nq, price, gain, fresh, after
    <2>4. after + CashFlow(prior, q, r) = MarginOf(prior) + gain /\ MarginOf(prior) \in Int
      BY <1>4, <2>1, <2>2, <2>3
    <2>5. QED
      BY <1>4, <2>4 DEF after, gain
  <1>6. CASE IsOpen(prior)
    <2> DEFINE pq == prior.qty
               pe == prior.entry
               held == RowMargin(prior)
    <2>1. /\ prior # None /\ prior.side \in {"LONG", "SHORT"} /\ prior.lev = k
          /\ pq \in Int /\ pq > 0 /\ pe \in Int
      BY <1>6, PriorFacts
    <2>2. MarginOf(prior) = held /\ held = (pq * pe) \div k
      BY <2>1 DEF MarginOf, RowMargin
    <2>3. held * k = pq * pe
      BY <1>6, <2>1 DEF MarginsExactly
    <2>4. held \in Int
      <3>1. pq * pe \in Int
        BY <2>1
      <3> HIDE DEF k, held, pq, pe
      <3>2. QED
        BY <1>1, <2>2, <3>1, DivIsInt
    <2>5. CASE prior.side = r.final
      <3>1. SameSide(prior, r) /\ ~Opposes(prior, r)
        BY <1>6, <2>5 DEF SameSide, Opposes
      <3>2. nq = pq + q /\ gain = 0 /\ CashFlow(prior, q, r) = -fresh
        BY <3>1 DEF NewQty, RealizedBy, CashFlow
      <3>3. e * (pq + q) = pe * pq + price * q
        BY <3>1 DEF AveragesExactly
      <3>4. fresh * k = q * price
        BY <1>6, <3>1 DEF MarginsExactly, Notional
      <3> HIDE DEF k, e, nq, price, gain, fresh, after, pq, pe, held
      <3>5. nq * e = k * (held + fresh)
        <4>1. nq * e = pe * pq + price * q
          BY <1>1, <2>1, <3>2, <3>3
        <4>2. pe * pq = held * k /\ price * q = fresh * k
          BY <1>1, <2>1, <2>3, <3>4
        <4>3. held * k + fresh * k = k * (held + fresh)
          BY <1>1, <1>4, <2>4
        <4>4. QED
          BY <4>1, <4>2, <4>3
      <3>6. (nq * e) \div k = held + fresh
        <4>1. nq * e \in Int /\ held + fresh \in Int
          BY <1>1, <1>4, <2>4
        <4>2. QED
          BY <1>1, <3>5, <4>1, ExactQuotient
      <3>7. after = held + fresh
        BY <1>2, <3>6 DEF after
      <3>8. after + CashFlow(prior, q, r) = held + gain
        BY <1>4, <2>4, <3>2, <3>7
      <3>9. QED
        BY <1>4, <2>2, <2>4, <3>8 DEF after, gain
    <2>6. CASE prior.side # r.final
      <3>1. Opposes(prior, r) /\ ~SameSide(prior, r)
        BY <1>6, <2>6 DEF SameSide, Opposes
      <3>2. CASE pq = q
        <4>1. NewSide(prior, q, r) = "FLAT" /\ nq = 0
          BY <2>1, <3>1, <3>2 DEF NewSide, NewQty
        <4>2. CashFlow(prior, q, r) = held + gain
          BY <3>1, <4>1 DEF CashFlow
        <4>3. after = 0
          <5>1. nq * e = k * 0
            BY <1>1, <4>1
          <5> HIDE DEF k, e, nq, after
          <5>2. (nq * e) \div k = 0
            <6>1. nq * e \in Int
              BY <1>1
            <6>2. QED
              BY <1>1, <5>1, <6>1, ExactQuotient
          <5>3. QED
            BY <1>2, <5>2 DEF after
        <4> HIDE DEF after, gain, held
        <4>4. after + CashFlow(prior, q, r) = held + gain
          BY <1>1, <2>4, <4>2, <4>3
        <4>5. QED
          BY <1>4, <2>2, <2>4, <4>4 DEF after, gain
      <3>3. CASE pq > q
        <4> DEFINE freed == Freed(prior, q)
        <4>1. NewSide(prior, q, r) = prior.side /\ nq = pq - q /\ e = pe
          BY <2>1, <3>1, <3>3 DEF NewSide, NewQty, NewEntry
        <4>2. CashFlow(prior, q, r) = freed + gain
          BY <2>1, <3>1, <4>1 DEF CashFlow
        <4>3. freed * pq = held * q
          BY <1>6, <3>1, <3>3 DEF MarginsExactly
        <4>4. freed \in Int
          <5>1. LesserOf(pq, q) \in Int
            BY <2>1 DEF LesserOf
          <5>2. freed = (held * LesserOf(pq, q)) \div pq
            BY DEF Freed
          <5> HIDE DEF freed, held, pq
          <5>3. held * LesserOf(pq, q) \in Int
            BY <2>4, <5>1
          <5>4. QED
            BY <2>1, <5>2, <5>3, DivIsInt
        <4> HIDE DEF k, e, nq, gain, after, pq, pe, held, freed
        <4>5. (pq - q) * pe = k * (held - freed)
          BY <1>1, <2>1, <2>3, <2>4, <4>3, <4>4, RestOfMargin
        <4>6. nq * e = k * (held - freed)
          BY <4>1, <4>5
        <4>7. after = held - freed
          <5>1. nq * e \in Int /\ held - freed \in Int
            BY <1>1, <2>4, <4>4
          <5>2. (nq * e) \div k = held - freed
            BY <1>1, <4>6, <5>1, ExactQuotient
          <5>3. QED
            BY <1>2, <5>2 DEF after
        <4>8. after + CashFlow(prior, q, r) = held + gain
          BY <1>1, <2>4, <4>2, <4>4, <4>7
        <4>9. QED
          BY <1>4, <2>2, <2>4, <4>8 DEF after, gain
      <3>4. CASE q > pq
        <4>1. NewSide(prior, q, r) = r.final
          BY <2>1, <3>1, <3>4 DEF NewSide
        <4>2. CashFlow(prior, q, r) = held + gain - (nq * e) \div k
          BY <2>6, <3>1, <4>1 DEF CashFlow
        <4> HIDE DEF k, e, nq, gain, after, held
        <4>3. after = (nq * e) \div k
          BY <1>2 DEF after
        <4>4. after + CashFlow(prior, q, r) = held + gain
          BY <1>1, <1>4, <2>4, <4>2, <4>3
        <4>5. QED
          BY <1>4, <2>2, <2>4, <4>4 DEF after, gain
      <3>5. QED
        BY <2>1, <3>2, <3>3, <3>4
    <2>7. QED
      BY <2>5, <2>6
  <1>7. QED
    BY <1>5, <1>6

\* A row keeps the leverage of an order for its instrument, whoever marks it.
LEMMA StepRowInv ==
    ASSUME TypeOK, MarkInv, RowInv, [Next]_vars PROVE RowInv'
  <1>0. ASSUME NEW i \in Instruments, positions'[i] = positions[i]
        PROVE  positions'[i] # None => RowOf(positions'[i], i)
    BY <1>0 DEF RowInv
  <1>1. CASE UNCHANGED vars
    BY <1>1 DEF vars, RowInv
  <1>2. ASSUME NEW p \in Procs, Start(p) \/ Step(p) \/ Abort(p), NEW i \in Instruments,
               positions'[i] # None
        PROVE  RowOf(positions'[i], i)
    <2>1. CASE CommitFill(p)
      <3> DEFINE r == exec[p].req
                 q == exec[p].qty
                 prior == positions[r.inst]
      <3>1. /\ r \in Request /\ r.final \in {"LONG", "SHORT"} /\ r.inst \in Instruments
            /\ q \in Nat /\ q > 0 /\ prior \in PositionRow \cup {None}
            /\ positions' = [positions EXCEPT ![r.inst] = NewRow(prior, q, r)]
        BY <2>1, CommitWrites
      <3>2. DOMAIN positions = Instruments /\ r \in Requests[p]
        BY <2>1 DEF TypeOK, MarkInv, CommitFill, InTransaction
      <3>3. CASE i # r.inst
        BY <1>0, <1>2, <3>1, <3>2, <3>3
      <3>4. CASE i = r.inst
        <4> HIDE DEF r, q, prior
        <4>1. positions'[i] = NewRow(prior, q, r)
          BY <3>1, <3>2, <3>4
        <4>2. NewRow(prior, q, r).lev = r.lev
          BY DEF NewRow, Marked
        <4>3. NewRow(prior, q, r).side = "FLAT" => NewRow(prior, q, r).qty = 0
          <5>1. NewSide(prior, q, r) = "FLAT" => NewQty(prior, q, r) = 0
            <6>1. IsOpen(prior) => prior.qty \in Int /\ prior.side \in {"LONG", "SHORT"}
              BY <3>1, PriorFacts
            <6>2. QED
              BY <3>1, <6>1 DEF NewSide, NewQty, Opposes, SameSide
          <5>2. QED
            BY <5>1, NewRowFields
        <4>4. QED
          BY <3>2, <3>4, <4>1, <4>2, <4>3 DEF RowOf
      <3>5. QED
        BY <3>3, <3>4
    <2>2. CASE WriteMark(p)
      <3>1. positions[i] # None /\ SameHolding(positions[i], positions'[i])
        BY <1>2, <2>2, WriteMarkFacts
      <3>2. QED
        BY <3>1 DEF RowInv, RowOf, SameHolding
    <2>3. CASE ~CommitFill(p) /\ ~WriteMark(p)
      <3>1. positions' = positions
        BY <1>2, <2>3 DEF Step, Start, RecordRefusal, OpenPortfolio, ReadCash, ReadRows, Size,
           CommitDuplicate, CommitInsufficient, Abort, dbVars
      <3>2. QED
        BY <1>0, <1>2, <3>1
    <2>4. QED
      BY <2>1, <2>2, <2>3
  <1>3. ASSUME Next PROVE RowInv'
    BY <1>2, <1>3 DEF Next, RowInv
  <1>4. QED
    BY <1>1, <1>3

\* A step that writes no fill leaves the funds, the margins and the curve.
LEMMA OtherStepsKeepMoney ==
    ASSUME NEW p \in Procs, TypeOK, MarkInv, Start(p) \/ Step(p) \/ Abort(p), ~CommitFill(p)
    PROVE  /\ fills' = fills /\ equities' = equities
           /\ Funds' = Funds /\ (cash # None => cash' = cash)
           /\ Margins' = Margins
  <1>1. fills' = fills
    BY OtherStepsKeepFills
  <1>2. equities' = equities
    BY DEF Step, Start, RecordRefusal, OpenPortfolio, ReadCash, ReadRows, WriteMark, Size,
       CommitDuplicate, CommitInsufficient, Abort, dbVars
  <1>3. Funds' = Funds /\ (cash # None => cash' = cash)
    <2>1. CASE OpenPortfolio(p)
      <3>1. cash' = IF cash = None THEN StartingBalance ELSE cash
        BY <2>1 DEF OpenPortfolio, BalanceOnOpen
      <3>2. StartingBalance # None
        BY ExecutionAssumption
      <3>3. QED
        BY <3>1, <3>2 DEF Funds
    <2>2. CASE ~OpenPortfolio(p)
      <3>1. cash' = cash
        BY <2>2 DEF Step, Start, RecordRefusal, ReadCash, ReadRows, WriteMark, Size,
           CommitDuplicate, CommitInsufficient, Abort, dbVars
      <3>2. QED
        BY <3>1 DEF Funds
    <2>3. QED
      BY <2>1, <2>2
  <1>4. \A i \in Instruments :
          /\ positions'[i] = None <=> positions[i] = None
          /\ positions[i] # None => RowMargin(positions'[i]) = RowMargin(positions[i])
    <2>1. CASE WriteMark(p)
      BY <2>1, WriteMarkFacts DEF SameHolding, RowMargin
    <2>2. CASE ~WriteMark(p)
      <3>1. positions' = positions
        BY <2>2 DEF Step, Start, RecordRefusal, OpenPortfolio, ReadCash, ReadRows, Size,
           CommitDuplicate, CommitInsufficient, Abort, dbVars
      <3>2. QED
        BY <3>1
    <2>3. QED
      BY <2>1, <2>2
  <1>5. Margins' = Margins
    <2>1. \A i \in Instruments : Margins'[i] = Margins[i]
      BY <1>4 DEF Margins, RowMargin
    <2>2. QED
      BY <2>1 DEF Margins
  <1>6. QED
    BY <1>1, <1>2, <1>3, <1>5

\* The fills are finitely many and what they earn and cost is numbers.
LEMMA FillsEarnNumbers ==
    ASSUME TypeOK
    PROVE  /\ IsFiniteSet(DOMAIN fills)
           /\ \A n \in DOMAIN fills : fills[n].realized \in Int /\ fills[n].fee \in Int
  <1>1. fills \in Seq(FillRows)
    BY DEF TypeOK
  <1>2. DOMAIN fills = 1..Len(fills) /\ Len(fills) \in Nat
    BY <1>1
  <1>3. IsFiniteSet(1..Len(fills))
    BY <1>2, FS_Interval
  <1>4. \A n \in DOMAIN fills : fills[n] \in FillRows
    BY <1>1, <1>2
  <1>5. QED
    BY <1>2, <1>3, <1>4 DEF FillRows

\* A fill adds its profit and its fee to the sums over all fills.
LEMMA FillEarns ==
    ASSUME NEW p \in Procs, TypeOK, CommitFill(p)
    PROVE  /\ SumFunction(Gains)' = SumFunction(Gains) + FillRow(p).realized
           /\ SumFunction(Fees)' = SumFunction(Fees) + FillRow(p).fee
           /\ SumFunction(NetGains)'
                = SumFunction(NetGains) + (FillRow(p).realized - FillRow(p).fee)
           /\ SumFunction(Gains) \in Int /\ SumFunction(Fees) \in Int
           /\ SumFunction(NetGains) \in Int
           /\ FillRow(p).realized \in Int /\ FillRow(p).fee \in Int
  <1> DEFINE row == FillRow(p)
             last == Len(fills) + 1
             D == DOMAIN fills
  <1>1. fills \in Seq(FillRows) /\ row \in FillRows /\ fills' = Append(fills, row)
    BY CommitRows DEF TypeOK, CommitFill
  <1>2. row.realized \in Int /\ row.fee \in Int
    BY <1>1 DEF FillRows
  <1> HIDE DEF row
  <1>3. /\ last \notin D /\ DOMAIN fills' = D \cup {last}
        /\ \A n \in D : fills'[n] = fills[n]
        /\ fills'[last] = row
    BY <1>1
  <1>4. IsFiniteSet(D) /\ \A n \in D : fills[n].realized \in Int /\ fills[n].fee \in Int
    BY FillsEarnNumbers
  <1> HIDE DEF last
  <1>5. ASSUME NEW f, NEW e, DOMAIN f = D, DOMAIN e = D \cup {last},
               \A n \in D : f[n] \in Int /\ e[n] = f[n], e[last] \in Int
        PROVE  SumFunction(e) = SumFunction(f) + e[last] /\ SumFunction(f) \in Int
    <2> HIDE DEF D
    <2>1. QED
      BY <1>3, <1>4, <1>5, SumExtends
  <1>6. SumFunction(Gains)' = SumFunction(Gains) + row.realized /\ SumFunction(Gains) \in Int
    <2> DEFINE f == Gains
               e == Gains'
    <2>1. DOMAIN f = D /\ DOMAIN e = D \cup {last}
      BY <1>3 DEF Gains
    <2>2. /\ \A n \in D : f[n] \in Int /\ e[n] = f[n]
          /\ e[last] = row.realized
      BY <1>3, <1>4 DEF Gains
    <2> HIDE DEF f, e, D
    <2>3. SumFunction(e) = SumFunction(f) + e[last] /\ SumFunction(f) \in Int
      BY <1>2, <1>5, <2>1, <2>2
    <2>4. QED
      BY <2>2, <2>3 DEF f, e
  <1>7. SumFunction(Fees)' = SumFunction(Fees) + row.fee /\ SumFunction(Fees) \in Int
    <2> DEFINE f == Fees
               e == Fees'
    <2>1. DOMAIN f = D /\ DOMAIN e = D \cup {last}
      BY <1>3 DEF Fees
    <2>2. /\ \A n \in D : f[n] \in Int /\ e[n] = f[n]
          /\ e[last] = row.fee
      BY <1>3, <1>4 DEF Fees
    <2> HIDE DEF f, e, D
    <2>3. SumFunction(e) = SumFunction(f) + e[last] /\ SumFunction(f) \in Int
      BY <1>2, <1>5, <2>1, <2>2
    <2>4. QED
      BY <2>2, <2>3 DEF f, e
  <1>8. SumFunction(NetGains)' = SumFunction(NetGains) + (row.realized - row.fee)
        /\ SumFunction(NetGains) \in Int
    <2> DEFINE f == NetGains
               e == NetGains'
    <2>1. DOMAIN f = D /\ DOMAIN e = D \cup {last}
      BY <1>3 DEF NetGains
    <2>2. /\ \A n \in D : f[n] \in Int /\ e[n] = f[n]
          /\ e[last] = row.realized - row.fee
      BY <1>3, <1>4 DEF NetGains
    <2>3. row.realized - row.fee \in Int
      BY <1>2
    <2> HIDE DEF f, e, D
    <2>4. SumFunction(e) = SumFunction(f) + e[last] /\ SumFunction(f) \in Int
      BY <1>5, <2>1, <2>2, <2>3
    <2>5. QED
      BY <2>2, <2>4 DEF f, e
  <1>9. QED
    BY <1>2, <1>6, <1>7, <1>8 DEF row

LEMMA RowMarginIsInt == ASSUME NEW row \in PositionRow PROVE RowMargin(row) \in Int
  <1> DEFINE a == row.qty * row.entry
             k == row.lev
  <1>1. a \in Int /\ k \in Int /\ k > 0
    BY DEF PositionRow
  <1>2. RowMargin(row) = a \div k
    BY DEF RowMargin
  <1> HIDE DEF a, k
  <1>3. QED
    BY <1>1, <1>2, DivIsInt

\* The margins of the rows are numbers, finitely many.
LEMMA MarginsAreNumbers ==
    ASSUME TypeOK
    PROVE  /\ IsFiniteSet(DOMAIN Margins) /\ DOMAIN Margins = Instruments
           /\ \A i \in Instruments : Margins[i] = MarginOf(positions[i]) /\ Margins[i] \in Int
  <1>1. \A i \in Instruments : positions[i] \in PositionRow \cup {None}
    BY DEF TypeOK
  <1>2. QED
    BY <1>1, RowMarginIsInt, ExecutionAssumption DEF Margins, MarginOf

\* By how much the money there is and the money there should be disagree.
MoneyDrift == Funds + SumFunction(Margins) - StartingBalance - SumFunction(NetGains)

\* What an order loses or finds on the way between cash and margin.
Astray(prior, q, r) ==
    MarginOf(NewRow(prior, q, r)) + CashFlow(prior, q, r) - MarginOf(prior) - RealizedBy(prior, q, r)

\* The row that an order finds has its leverage, where an instrument has one.
LEMMA PriorLeverage ==
    ASSUME OneLeverage, NEW p \in Procs, TypeOK, MarkInv, RowInv, CommitFill(p)
    PROVE  LET r == exec[p].req
               prior == positions[r.inst]
           IN  prior # None => prior.lev = r.lev /\ (prior.side = "FLAT" => prior.qty = 0)
  <1> DEFINE r == exec[p].req
             prior == positions[r.inst]
  <1>1. r.inst \in Instruments
    BY CommitFillFacts
  <1>2. r \in Requests[p]
    BY DEF TypeOK, MarkInv, CommitFill, InTransaction
  <1>3. SUFFICES ASSUME prior # None
                 PROVE  prior.lev = r.lev /\ (prior.side = "FLAT" => prior.qty = 0)
    OBVIOUS
  <1>4. RowOf(prior, r.inst)
    BY <1>1, <1>3 DEF RowInv
  <1>5. PICK o \in Procs : \E s \in Requests[o] : s.inst = r.inst /\ s.lev = prior.lev
    BY <1>4 DEF RowOf
  <1>6. prior.lev = r.lev
    BY <1>2, <1>5 DEF OneLeverage
  <1>7. QED
    BY <1>4, <1>6 DEF RowOf

\* A fill moves money by what goes astray.
LEMMA CommitMovesMoney ==
    ASSUME NEW p \in Procs, TypeOK, CommitFill(p)
    PROVE  LET r == exec[p].req
               astray == Astray(positions[r.inst], exec[p].qty, r)
           IN  /\ MoneyDrift \in Int /\ astray \in Int
               /\ MoneyDrift' = MoneyDrift + astray
               /\ MarginOf(positions[r.inst]) \in Int
               /\ SumFunction(NetGains) = SumFunction(Gains) - SumFunction(Fees)
                    => SumFunction(NetGains)' = SumFunction(Gains)' - SumFunction(Fees)'
  <1> DEFINE r == exec[p].req
             q == exec[p].qty
             prior == positions[r.inst]
             new == NewRow(prior, q, r)
  <1>1. /\ r \in Request /\ Executable(r) /\ QuotedPrice(r) # None
        /\ r.inst \in Instruments /\ r.final \in {"LONG", "SHORT"}
        /\ prior \in PositionRow \cup {None}
        /\ q \in Nat /\ q > 0
        /\ cash \in Int /\ cash # None /\ cash' \in Int /\ cash' # None
    BY CommitFillFacts
  <1>2. /\ positions' = [positions EXCEPT ![r.inst] = new] /\ new # None
        /\ FillRow(p).realized = RealizedBy(prior, q, r)
    BY CommitWrites
  <1>3. /\ cash' = cash - Fee(q, r) + CashFlow(prior, q, r)
        /\ FillRow(p).fee = Fee(q, r)
    BY DEF CommitFill, Balance, FillRow
  <1>4. DOMAIN positions = Instruments
    BY DEF TypeOK
  <1>7. /\ Funds = cash /\ Funds' = cash'
        /\ SumFunction(Gains)' = SumFunction(Gains) + FillRow(p).realized
        /\ SumFunction(Fees)' = SumFunction(Fees) + FillRow(p).fee
        /\ SumFunction(NetGains)' = SumFunction(NetGains) + (FillRow(p).realized - FillRow(p).fee)
        /\ SumFunction(Gains) \in Int /\ SumFunction(Fees) \in Int /\ SumFunction(NetGains) \in Int
        /\ FillRow(p).realized \in Int /\ FillRow(p).fee \in Int
    BY <1>1, FillEarns DEF Funds
  <1> HIDE DEF r, q, prior
  <1>8. MarginOf(prior) \in Int /\ MarginOf(new) \in Int /\ CashFlow(prior, q, r) \in Int
    <2>1. new \in PositionRow
      BY <1>1, NewRowIsRow
    <2>2. QED
      BY <1>1, <1>2, <2>1, RowMarginIsInt, CashFlowIsInt DEF MarginOf
  <1> HIDE DEF new
  <1>9. /\ SumFunction(Margins)' = SumFunction(Margins) - MarginOf(prior) + MarginOf(new)
        /\ SumFunction(Margins) \in Int
    <2> DEFINE f == Margins
               e == Margins'
               i0 == r.inst
    <2>1. IsFiniteSet(DOMAIN f) /\ DOMAIN f = Instruments /\ DOMAIN e = DOMAIN f
      BY MarginsAreNumbers DEF Margins
    <2>2. \A x \in Instruments : f[x] \in Int /\ f[x] = MarginOf(positions[x])
      BY MarginsAreNumbers
    <2>3. \A x \in Instruments \ {i0} : positions'[x] = positions[x]
      BY <1>2, <1>4
    <2>4. positions'[i0] = new /\ prior = positions[i0]
      BY <1>1, <1>2, <1>4 DEF prior
    <2>5. \A x \in Instruments : e[x] = MarginOf(positions'[x])
      BY DEF Margins, MarginOf, RowMargin
    <2>6. f[i0] = MarginOf(prior) /\ e[i0] = MarginOf(new)
      BY <1>1, <2>2, <2>4, <2>5
    <2>7. \A x \in Instruments \ {i0} : e[x] = f[x]
      BY <2>2, <2>3, <2>5
    <2>8. i0 \in Instruments
      BY <1>1
    <2> HIDE DEF f, e, i0
    <2>9. /\ SumFunction(e) = SumFunction(f) - f[i0] + e[i0]
          /\ SumFunction(f) \in Int
      BY <1>8, <2>1, <2>2, <2>6, <2>7, <2>8, SumChanges
    <2>10. QED
      BY <2>6, <2>9 DEF f, e
  <1>10. StartingBalance \in Int
    BY ExecutionAssumption
  <1>11. Astray(prior, q, r)
           = MarginOf(new) + CashFlow(prior, q, r) - MarginOf(prior) - FillRow(p).realized
    BY <1>2 DEF Astray, new
  <1>12. MoneyDrift \in Int /\ Astray(prior, q, r) \in Int
         /\ MoneyDrift' = MoneyDrift + Astray(prior, q, r)
    <2> DEFINE held == SumFunction(Margins)
               net == SumFunction(NetGains)
               flow == CashFlow(prior, q, r)
               old == MarginOf(prior)
               now == MarginOf(new)
               fee == FillRow(p).fee
               gain == FillRow(p).realized
               held2 == SumFunction(Margins)'
               net2 == SumFunction(NetGains)'
    <2>1. /\ held \in Int /\ net \in Int /\ flow \in Int /\ old \in Int /\ now \in Int
          /\ fee \in Int /\ gain \in Int
          /\ held2 = held - old + now /\ net2 = net + (gain - fee)
          /\ Astray(prior, q, r) = now + flow - old - gain
          /\ cash' = cash - fee + flow
          /\ MoneyDrift = cash + held - StartingBalance - net
          /\ MoneyDrift' = cash' + held2 - StartingBalance - net2
      BY <1>3, <1>7, <1>8, <1>9, <1>11 DEF MoneyDrift
    <2> HIDE DEF held, net, flow, old, now, fee, gain, held2, net2
    <2>2. QED
      BY <1>1, <1>10, <2>1
  <1>13. ASSUME SumFunction(NetGains) = SumFunction(Gains) - SumFunction(Fees)
         PROVE  SumFunction(NetGains)' = SumFunction(Gains)' - SumFunction(Fees)'
    <2> DEFINE net == SumFunction(NetGains)
               all == SumFunction(Gains)
               paid == SumFunction(Fees)
               fee == FillRow(p).fee
               gain == FillRow(p).realized
    <2>1. net + (gain - fee) = (all + gain) - (paid + fee)
      <3>1. /\ net = all - paid /\ net \in Int /\ all \in Int /\ paid \in Int
            /\ fee \in Int /\ gain \in Int
        BY <1>7, <1>13
      <3> HIDE DEF net, all, paid, fee, gain
      <3>2. QED
        BY <3>1
    <2>2. QED
      BY <1>7, <2>1
  <1>14. QED
    BY <1>8, <1>12, <1>13 DEF r, q, prior

LEMMA NumbersOfMoney ==
    ASSUME TypeOK
    PROVE  /\ Funds \in Int /\ SumFunction(Margins) \in Int /\ SumFunction(NetGains) \in Int
           /\ StartingBalance \in Int /\ MoneyDrift \in Int
  <1>1. Funds \in Int /\ StartingBalance \in Int
    BY ExecutionAssumption DEF TypeOK, Funds
  <1>2. SumFunctionOnSet(Margins, Instruments) \in Int /\ DOMAIN Margins = Instruments
    BY MarginsAreNumbers, SumIsInt
  <1>3. \A n \in DOMAIN fills : NetGains[n] \in Int
    BY FillsEarnNumbers DEF NetGains
  <1>4. DOMAIN NetGains = DOMAIN fills
    BY DEF NetGains
  <1>5. SumFunctionOnSet(NetGains, DOMAIN fills) \in Int
    BY <1>3, FillsEarnNumbers, SumIsInt
  <1>6. QED
    BY <1>1, <1>2, <1>4, <1>5 DEF SumFunction, MoneyDrift

LEMMA NoMoneyDrift ==
    TypeOK /\ MoneyDrift = 0
      => Funds + SumFunction(Margins) = StartingBalance + SumFunction(NetGains)
  BY NumbersOfMoney DEF MoneyDrift

\* A fill conserves money.
LEMMA CommitKeepsMoney ==
    ASSUME OneLeverage, NEW p \in Procs, TypeOK, TypeOK', MarkInv, RowInv, MoneyInv, CommitFill(p),
           ExactStep, ExactMarginStep
    PROVE  MoneyInv'
  <1> DEFINE r == exec[p].req
             q == exec[p].qty
             prior == positions[r.inst]
  <1>1. /\ r \in Request /\ Executable(r) /\ QuotedPrice(r) # None
        /\ r.final \in {"LONG", "SHORT"}
        /\ prior \in PositionRow \cup {None}
        /\ q \in Nat /\ q > 0 /\ NewRow(prior, q, r) # None
    BY CommitFillFacts, CommitWrites
  <1>2. AveragesExactly(prior, q, r) /\ MarginsExactly(prior, q, r)
    BY DEF ExactStep, ExactMarginStep
  <1>3. prior # None => prior.lev = r.lev /\ (prior.side = "FLAT" => prior.qty = 0)
    BY PriorLeverage
  <1>4. MoneyDrift' = MoneyDrift + Astray(prior, q, r)
        /\ SumFunction(NetGains)' = SumFunction(Gains)' - SumFunction(Fees)'
    BY CommitMovesMoney DEF MoneyInv
  <1> HIDE DEF r, q, prior
  <1>5. Astray(prior, q, r) = 0
    <2>1. /\ MarginOf(NewRow(prior, q, r)) + CashFlow(prior, q, r)
                = MarginOf(prior) + RealizedBy(prior, q, r)
          /\ MarginOf(prior) \in Int /\ MarginOf(NewRow(prior, q, r)) \in Int
      BY <1>1, <1>2, <1>3, MarginsAddUp
    <2>2. CashFlow(prior, q, r) \in Int /\ RealizedBy(prior, q, r) \in Int
      BY <1>1, CashFlowIsInt, RealizedIsInt
    <2>3. QED
      BY <2>1, <2>2 DEF Astray
  <1>6. MoneyDrift = 0
    BY NumbersOfMoney DEF MoneyInv, MoneyDrift
  <1>7. MoneyDrift' = 0
    BY <1>4, <1>5, <1>6
  <1>8. (TypeOK /\ MoneyDrift = 0
           => Funds + SumFunction(Margins) = StartingBalance + SumFunction(NetGains))'
    BY NoMoneyDrift, PTL
  <1>9. QED
    BY <1>4, <1>7, <1>8 DEF MoneyInv

LEMMA StepMoneyInv ==
    ASSUME OneLeverage, TypeOK, TypeOK', MarkInv, RowInv, MoneyInv, [Next]_vars,
           [ExactStep]_vars, [ExactMarginStep]_vars
    PROVE  MoneyInv'
  <1>1. CASE UNCHANGED vars
    BY <1>1 DEF vars, MoneyInv, Funds, Margins, Gains, Fees, NetGains, RowMargin
  <1>2. ASSUME ExactStep, ExactMarginStep, NEW p \in Procs, Start(p) \/ Step(p) \/ Abort(p)
        PROVE  MoneyInv'
    <2>1. CASE CommitFill(p)
      BY <1>2, <2>1, CommitKeepsMoney
    <2>2. CASE ~CommitFill(p)
      <3>1. fills' = fills /\ Funds' = Funds /\ Margins' = Margins
        BY <1>2, <2>2, OtherStepsKeepMoney
      <3>2. Gains' = Gains /\ Fees' = Fees /\ NetGains' = NetGains
        BY <3>1 DEF Gains, Fees, NetGains
      <3>3. QED
        BY <3>1, <3>2 DEF MoneyInv
    <2>3. QED
      BY <2>1, <2>2
  <1>3. QED
    BY <1>1, <1>2 DEF Next

\* Each fill has its snapshot, and no other step moves cash that there is.
LEMMA StepCurveInv ==
    ASSUME TypeOK, MarkInv, CurveInv, [Next]_vars PROVE CurveInv'
  <1>1. CASE UNCHANGED vars
    BY <1>1 DEF vars, CurveInv, LastRow
  <1>2. ASSUME NEW p \in Procs, Start(p) \/ Step(p) \/ Abort(p) PROVE CurveInv'
    <2>1. CASE CommitFill(p)
      <3> DEFINE row == EquityRow(cash', positions')
      <3>1. equities' = Append(equities, row) /\ equities \in Seq(EquityRows)
        BY <2>1 DEF CommitFill, TypeOK
      <3>2. row.equity = cash' + row.upnl
        BY DEF EquityRow
      <3>3. cash' # None
        BY <2>1, CommitFillFacts
      <3> HIDE DEF row
      <3>4. equities'[Len(equities')] = row
        BY <3>1
      <3>5. QED
        BY <3>2, <3>3, <3>4 DEF CurveInv, LastRow
    <2>2. CASE ~CommitFill(p)
      <3>1. equities' = equities /\ (cash # None => cash' = cash)
        BY <1>2, <2>2, OtherStepsKeepMoney
      <3>2. QED
        BY <3>1 DEF CurveInv, LastRow
    <2>3. QED
      BY <2>1, <2>2
  <1>3. QED
    BY <1>1, <1>2 DEF Next

LEMMA InitMoney == Init => RowInv /\ MoneyInv /\ CurveInv
  <1> SUFFICES ASSUME Init PROVE RowInv /\ MoneyInv /\ CurveInv
    OBVIOUS
  <1>1. /\ cash = None /\ fills = <<>> /\ equities = <<>>
        /\ \A i \in Instruments : positions[i] = None
    BY DEF Init
  <1>2. Funds = StartingBalance /\ StartingBalance \in Int
    BY <1>1, ExecutionAssumption DEF Funds
  <1>3. SumFunction(Gains) = 0 /\ SumFunction(Fees) = 0 /\ SumFunction(NetGains) = 0
    <2>1. DOMAIN Gains = {} /\ DOMAIN Fees = {} /\ DOMAIN NetGains = {}
      BY <1>1 DEF Gains, Fees, NetGains
    <2>2. QED
      BY <2>1, SumOverNothing DEF SumFunction
  <1>4. SumFunction(Margins) = 0
    <2> DEFINE f == Margins
    <2>1. DOMAIN f = Instruments /\ IsFiniteSet(Instruments) /\ \A i \in Instruments : f[i] = 0
      BY <1>1, ExecutionAssumption DEF Margins
    <2> HIDE DEF f
    <2>2. SumFunctionOnSet(f, Instruments) = 0
      BY <2>1, SumOfZeros
    <2>3. QED
      BY <2>1, <2>2 DEF f, SumFunction
  <1>5. QED
    BY <1>1, <1>2, <1>3, <1>4 DEF RowInv, MoneyInv, CurveInv

LEMMA MoneyInvHolds ==
    ASSUME OneDeskPerInstrument, OneLeverage
    PROVE  Spec /\ ExactAverages /\ ExactMargins => [](MoneyInv /\ CurveInv)
  <1>1. TypeOK /\ MarkInv /\ RowInv /\ [Next]_vars => RowInv'
    BY StepRowInv
  <1>2. TypeOK /\ TypeOK' /\ MarkInv /\ RowInv /\ MoneyInv /\ [Next]_vars
          /\ [ExactStep]_vars /\ [ExactMarginStep]_vars => MoneyInv'
    BY StepMoneyInv
  <1>3. TypeOK /\ MarkInv /\ CurveInv /\ [Next]_vars => CurveInv'
    BY StepCurveInv
  <1>4. Spec => []MarkInv
    BY MarksAreFresh
  <1>5. QED
    BY <1>1, <1>2, <1>3, <1>4, InitMoney, TypeCorrect, PTL
       DEF Spec, ExactAverages, ExactMargins

\* With one leverage for an instrument, cash and the margin held are the starting
\* balance, realized profit and fees, through adds, partial closes and flips
\* (the transaction of PaperExecutor.execute).
THEOREM MoneyIsConserved ==
    ASSUME OneDeskPerInstrument, OneLeverage
    PROVE  Spec /\ ExactAverages /\ ExactMargins => []MarginConservation
  <1>1. MoneyInv => MarginConservation
    BY DEF MoneyInv, MarginConservation, MarginHeld, Margins, Funds, NetGains
  <1>2. QED
    BY <1>1, MoneyInvHolds, PTL

\* A factor may be left out of an inequality.
LEMMA LessWithoutFactor ==
    ASSUME NEW u \in Int, NEW v \in Int, NEW k \in Int, k > 0, u * k < v * k
    PROVE  u < v
  <1>1. SUFFICES ASSUME v <= u PROVE FALSE
    OBVIOUS
  <1>2. (u - v) * k = u * k - v * k /\ (u - v) * k >= 0
    BY <1>1
  <1>3. u * k \in Int /\ v * k \in Int
    OBVIOUS
  <1>4. QED
    BY <1>2, <1>3

\* What the quotients of two parts, rounded down, have of that of their sum, of which
\* some is lost.
LEMMA QuotientOfSum ==
    ASSUME NEW a \in Int, NEW b \in Int, NEW lost \in Nat, NEW k \in Int, k > 0
    PROVE  LET d == (a + b - lost) \div k - a \div k - b \div k
           IN  d \in Int /\ -lost <= d /\ d <= 1
  <1> DEFINE c == a + b - lost
             x == a \div k
             y == b \div k
             z == c \div k
  <1>1. c \in Int /\ x \in Int /\ y \in Int /\ z \in Int
    BY DivIsInt
  <1>2. a - x * k \in 0..(k - 1) /\ b - y * k \in 0..(k - 1) /\ c - z * k \in 0..(k - 1)
    BY <1>1, Remainder
  <1>3. c = a + b - lost
    OBVIOUS
  <1> HIDE DEF c, x, y, z
  <1>4. x * k \in Int /\ y * k \in Int /\ z * k \in Int
    BY <1>1
  <1>5. (x + y + 2) * k = x * k + y * k + 2 * k
    BY <1>1
  <1>6. z * k < (x + y + 2) * k
    BY <1>1, <1>2, <1>3, <1>4, <1>5
  <1>7. z < x + y + 2
    BY <1>1, <1>6, LessWithoutFactor
  <1>8. lost * k \in Int /\ lost <= lost * k
    OBVIOUS
  <1>9. (x + y - lost - 1) * k = x * k + y * k - lost * k - k
    BY <1>1
  <1>10. (x + y - lost - 1) * k < z * k
    BY <1>1, <1>2, <1>3, <1>4, <1>8, <1>9
  <1>11. x + y - lost - 1 < z
    BY <1>1, <1>10, LessWithoutFactor
  <1>12. QED
    BY <1>1, <1>7, <1>11 DEF c, x, y, z

\* What is freed for q of n lots and what is then held for the others, all rounded down.
LEMMA QuotientOfParts ==
    ASSUME NEW n \in Int, NEW q \in Int, 0 < q, q < n, NEW e \in Int, NEW k \in Int, k > 0
    PROVE  LET held == (n * e) \div k
               d == ((n - q) * e) \div k + (held * q) \div n - held
           IN  d \in {-1, 0}
  <1> DEFINE held == (n * e) \div k
             m == n - q
             rest == (m * e) \div k
             freed == (held * q) \div n
  <1>1. n * e \in Int /\ m \in Int /\ m * e \in Int /\ 0 < m /\ m < n
    OBVIOUS
  <1>2. held \in Int /\ rest \in Int /\ n * e - held * k \in 0..(k - 1) /\ m * e - rest * k \in 0..(k - 1)
    <2> DEFINE a == n * e
               b == m * e
    <2>1. a \in Int /\ b \in Int
      BY <1>1
    <2> HIDE DEF a, b, m
    <2>2. /\ a \div k \in Int /\ b \div k \in Int
          /\ a - (a \div k) * k \in 0..(k - 1) /\ b - (b \div k) * k \in 0..(k - 1)
      BY <2>1, DivIsInt, Remainder
    <2>3. QED
      BY <2>2 DEF a, b
  <1> HIDE DEF held, rest
  <1>3. freed \in Int /\ held * q - freed * n \in 0..(n - 1)
    <2> DEFINE a == held * q
    <2>1. a \in Int
      BY <1>2
    <2> HIDE DEF a
    <2>2. a \div n \in Int /\ a - (a \div n) * n \in 0..(n - 1)
      BY <2>1, DivIsInt, Remainder
    <2>3. QED
      BY <2>2 DEF a
  <1>4. m = n - q
    OBVIOUS
  <1> HIDE DEF freed, m
  <1> DEFINE d == rest + freed - held
             u == n * e - held * k
             v == m * e - rest * k
             w == held * q - freed * n
  <1>5. u \in Int /\ v \in Int /\ w \in Int /\ d \in Int /\ 0 <= u /\ u < k /\ 0 <= v /\ v < k /\ 0 <= w /\ w < n
    BY <1>1, <1>2, <1>3
  <1>6. d * (k * n) = m * u - n * v - k * w
    <2>1. d * (k * n) = n * (rest * k) + k * (freed * n) - (held * k) * n
      BY <1>1, <1>2, <1>3
    <2>2. rest * k = m * e - v /\ freed * n = held * q - w /\ held * k = n * e - u
      BY <1>1, <1>2, <1>3
    <2>3. n * (rest * k) = n * (m * e) - n * v
      BY <1>1, <1>5, <2>2
    <2>4. k * (freed * n) = (held * k) * q - k * w
      BY <1>1, <1>2, <1>5, <2>2
    <2>5. (held * k) * n = (held * k) * q + (held * k) * m
      BY <1>1, <1>2, <1>4
    <2>6. (held * k) * m = (n * e - u) * m
      BY <2>2
    <2>7. (n * e - u) * m = n * (m * e) - m * u
      BY <1>1, <1>5
    <2> DEFINE A == n * (m * e)
               B == (held * k) * q
               C == m * u
               D == n * v
               F == k * w
    <2>8. A \in Int /\ B \in Int /\ C \in Int /\ D \in Int /\ F \in Int
      BY <1>1, <1>2, <1>5
    <2>9. d * (k * n) = (A - D) + (B - F) - (B + (A - C))
      BY <2>1, <2>3, <2>4, <2>5, <2>6, <2>7
    <2> HIDE DEF A, B, C, D, F
    <2>10. d * (k * n) = C - D - F
      BY <2>8, <2>9
    <2>11. QED
      BY <2>10 DEF C, D, F
  <1> HIDE DEF d, u, v, w
  <1>7. k * n \in Int /\ k * n > 0 /\ n * k = k * n
    BY <1>1
  <1>8. 0 <= m * u /\ m * u < k * n /\ m * u \in Int
    <2>1. 0 <= m * u /\ m * u \in Int
      BY <1>1, <1>5
    <2>2. m * u <= m * k
      BY <1>1, <1>5
    <2>3. m * k < n * k
      BY <1>1
    <2>4. m * k \in Int
      BY <1>1
    <2>5. QED
      BY <1>7, <2>1, <2>2, <2>3, <2>4
  <1>9. 0 <= n * v /\ n * v < k * n /\ n * v \in Int
    <2>1. 0 <= n * v /\ n * v \in Int
      BY <1>1, <1>5
    <2>2. n * v < n * k
      BY <1>1, <1>5
    <2>3. QED
      BY <1>7, <2>1, <2>2
  <1>10. 0 <= k * w /\ k * w < k * n /\ k * w \in Int
    BY <1>1, <1>5
  <1> DEFINE z == k * n
  <1>11. d * z < 1 * z /\ (-2) * z < d * z
    BY <1>6, <1>7, <1>8, <1>9, <1>10
  <1>12. z \in Int /\ z > 0
    BY <1>7
  <1> HIDE DEF z
  <1>13. d < 1 /\ -2 < d
    BY <1>5, <1>11, <1>12, LessWithoutFactor
  <1>14. d \in {-1, 0}
    BY <1>5, <1>13
  <1>15. QED
    BY <1>14 DEF d, rest, freed, held, m

\* A fill sends astray at most one unit for each lot then held.
LEMMA AstrayIsSmall ==
    ASSUME NEW r \in Request, Executable(r), r.final \in {"LONG", "SHORT"},
           QuotedPrice(r) # None, NEW q \in Nat, q > 0,
           NEW prior \in PositionRow \cup {None},
           prior # None => prior.lev = r.lev /\ (prior.side = "FLAT" => prior.qty = 0),
           NewRow(prior, q, r) # None
    PROVE  \/ Astray(prior, q, r) = 0
           \/ NewQty(prior, q, r) > 0
              /\ Astray(prior, q, r) \in (-NewQty(prior, q, r))..NewQty(prior, q, r)
  <1> DEFINE new == NewRow(prior, q, r)
             k == r.lev
             e == NewEntry(prior, q, r)
             nq == NewQty(prior, q, r)
             price == FillPrice(r)
             gain == RealizedBy(prior, q, r)
             fresh == Margin(q, r)
             after == MarginOf(new)
             flow == CashFlow(prior, q, r)
             astray == Astray(prior, q, r)
  <1>1. /\ k \in Int /\ k > 0 /\ price \in Int /\ e \in Int /\ gain \in Int /\ nq \in Int
        /\ flow \in Int
    <2>1. k \in Int /\ k > 0
      BY DEF Request
    <2>2. price \in Int /\ gain \in Int /\ flow \in Int
      BY FillPriceIsInt, RealizedIsInt, CashFlowIsInt
    <2>3. e \in Int /\ nq \in Nat
      BY NewFieldsAreTyped
    <2>4. QED
      BY <2>1, <2>2, <2>3
  <1>2. after = (nq * e) \div k
    <2>1. new.qty = nq /\ new.entry = e /\ new.lev = k
      BY NewRowFields DEF NewRow, Marked
    <2> HIDE DEF new, nq, e, k
    <2>2. new # None
      BY DEF new
    <2>3. QED
      BY <2>1, <2>2 DEF MarginOf, RowMargin
  <1>3. fresh = (q * price) \div k
    BY DEF Margin, Notional
  <1>4. fresh \in Int /\ after \in Int
    <2>1. q * price \in Int /\ nq * e \in Int
      BY <1>1
    <2> HIDE DEF k, e, nq, price, new, fresh, after
    <2>2. (q * price) \div k \in Int /\ (nq * e) \div k \in Int
      BY <1>1, <2>1, DivIsInt
    <2>3. QED
      BY <1>2, <1>3, <2>2
  <1>5. astray = after + flow - MarginOf(prior) - gain
    BY DEF Astray
  <1>6. CASE ~IsOpen(prior)
    <2>1. /\ nq = q /\ e = price /\ gain = 0 /\ flow = -fresh
      BY <1>6 DEF NewQty, NewEntry, SameSide, Opposes, RealizedBy, CashFlow
    <2>2. MarginOf(prior) = 0
      <3>1. CASE prior = None
        BY <3>1 DEF MarginOf
      <3>2. CASE prior # None
        <4>1. prior.qty = 0 /\ prior.entry \in Int /\ prior.lev = k
          BY <1>6, <3>2 DEF IsOpen, PositionRow
        <4>2. prior.qty * prior.entry = k * 0
          BY <1>1, <4>1
        <4> HIDE DEF k
        <4>3. RowMargin(prior) = 0
          BY <1>1, <4>1, <4>2, ExactQuotient DEF RowMargin
        <4>4. QED
          BY <3>2, <4>3 DEF MarginOf
      <3>3. QED
        BY <3>1, <3>2
    <2>3. after = fresh
      BY <1>2, <1>3, <2>1
    <2> HIDE DEF k, e, nq, price, gain, fresh, after, flow, astray
    <2>4. astray = 0
      BY <1>4, <1>5, <2>1, <2>2, <2>3
    <2>5. QED
      BY <2>4 DEF astray
  <1>7. CASE IsOpen(prior)
    <2> DEFINE pq == prior.qty
               pe == prior.entry
               held == RowMargin(prior)
    <2>1. /\ prior # None /\ prior.side \in {"LONG", "SHORT"} /\ prior.lev = k
          /\ pq \in Int /\ pq > 0 /\ pe \in Int
      BY <1>7, PriorFacts
    <2>2. MarginOf(prior) = held /\ held = (pq * pe) \div k
      BY <2>1 DEF MarginOf, RowMargin
    <2>3. held \in Int
      <3>1. pq * pe \in Int
        BY <2>1
      <3> HIDE DEF k, held, pq, pe
      <3>2. QED
        BY <1>1, <2>2, <3>1, DivIsInt
    <2>4. CASE prior.side = r.final
      <3> DEFINE lost == Lost(prior, q, r)
      <3>1. SameSide(prior, r) /\ ~Opposes(prior, r)
        BY <1>7, <2>4 DEF SameSide, Opposes
      <3>2. nq = pq + q /\ gain = 0 /\ flow = -fresh
        BY <3>1 DEF NewQty, RealizedBy, CashFlow
      <3>3. lost = (pe * pq + price * q) - e * (pq + q)
        BY <3>1 DEF Lost
      <3>4. lost \in 0..(nq - 1)
        BY <1>1, <2>1, <3>2, LostIsSmall
      <3> HIDE DEF k, e, nq, price, gain, fresh, after, flow, pq, pe, held, lost, astray
      <3> DEFINE a == pq * pe
                 b == q * price
      <3>5. a \in Int /\ b \in Int /\ nq * e = a + b - lost
        <4>1. a \in Int /\ b \in Int /\ nq * e \in Int /\ a = pe * pq /\ b = price * q
              /\ nq * e = e * (pq + q)
          BY <1>1, <2>1, <3>2
        <4> HIDE DEF a, b
        <4>2. lost = (a + b) - nq * e
          BY <3>3, <4>1
        <4>3. QED
          BY <4>1, <4>2
      <3> HIDE DEF a, b
      <3>6. lost \in Nat
        BY <1>1, <3>4
      <3>7. -lost <= after - held - fresh /\ after - held - fresh <= 1
        <4>1. after = (a + b - lost) \div k /\ held = a \div k /\ fresh = b \div k
          BY <1>2, <1>3, <2>2, <3>5 DEF a, b
        <4>2. QED
          BY <1>1, <3>5, <3>6, <4>1, QuotientOfSum
      <3>8. astray = after - held - fresh
        BY <1>4, <1>5, <2>2, <2>3, <3>2
      <3>9. nq > 0 /\ astray \in (-nq)..nq
        BY <1>1, <1>4, <2>1, <2>3, <3>2, <3>4, <3>7, <3>8
      <3>10. QED
        BY <3>9 DEF nq, astray
    <2>5. CASE prior.side # r.final
      <3>1. Opposes(prior, r) /\ ~SameSide(prior, r)
        BY <1>7, <2>5 DEF SameSide, Opposes
      <3>2. CASE pq = q
        <4>1. NewSide(prior, q, r) = "FLAT" /\ nq = 0
          BY <2>1, <3>1, <3>2 DEF NewSide, NewQty
        <4>2. flow = held + gain
          BY <3>1, <4>1 DEF CashFlow
        <4>3. after = 0
          <5>1. nq * e = k * 0 /\ nq * e \in Int
            BY <1>1, <4>1
          <5> HIDE DEF k, e, nq, after
          <5>2. QED
            BY <1>1, <1>2, <5>1, ExactQuotient
        <4> HIDE DEF after, gain, held, flow, astray
        <4>4. astray = 0
          BY <1>1, <1>5, <2>2, <2>3, <4>2, <4>3
        <4>5. QED
          BY <4>4 DEF astray
      <3>3. CASE pq > q
        <4> DEFINE freed == Freed(prior, q)
        <4>1. NewSide(prior, q, r) = prior.side /\ nq = pq - q /\ e = pe
          BY <2>1, <3>1, <3>3 DEF NewSide, NewQty, NewEntry
        <4>2. flow = freed + gain
          BY <2>1, <3>1, <4>1 DEF CashFlow
        <4>3. freed = (held * q) \div pq
          BY <2>1, <3>3 DEF Freed, LesserOf
        <4> HIDE DEF k, e, nq, gain, after, flow, pq, pe, held, freed, astray
        <4>4. after = ((pq - q) * pe) \div k
          BY <1>2, <4>1
        <4>5. after + freed - held \in {-1, 0}
          <5>1. q \in Int /\ 0 < q /\ q < pq
            BY <2>1, <3>3
          <5>2. ((pq - q) * pe) \div k + (((pq * pe) \div k) * q) \div pq - (pq * pe) \div k
                  \in {-1, 0}
            BY <1>1, <2>1, <5>1, QuotientOfParts
          <5>3. QED
            BY <2>2, <4>3, <4>4, <5>2
        <4>6. freed \in Int
          <5>1. held * q \in Int
            BY <2>3
          <5>2. QED
            BY <2>1, <4>3, <5>1, DivIsInt
        <4>7. astray = after + freed - held
          BY <1>1, <1>4, <1>5, <2>2, <2>3, <4>2, <4>6
        <4>8. nq > 0 /\ astray \in (-nq)..nq
          BY <1>1, <2>1, <3>3, <4>1, <4>5, <4>7
        <4>9. QED
          BY <4>8 DEF nq, astray
      <3>4. CASE q > pq
        <4>1. NewSide(prior, q, r) = r.final
          BY <2>1, <3>1, <3>4 DEF NewSide
        <4>2. flow = held + gain - (nq * e) \div k
          BY <2>5, <3>1, <4>1 DEF CashFlow
        <4> HIDE DEF k, e, nq, gain, after, held, flow, astray
        <4>3. astray = 0
          BY <1>1, <1>2, <1>4, <1>5, <2>2, <2>3, <4>2
        <4>4. QED
          BY <4>3 DEF astray
      <3>5. QED
        BY <2>1, <3>2, <3>3, <3>4
    <2>6. QED
      BY <2>4, <2>5
  <1>8. QED
    BY <1>6, <1>7

\* The lots of all fills.
Lots == [n \in DOMAIN fills |-> fills[n].qty]
AllLots == SumFunction(Lots)

\* A step moves the money by nothing, or is a fill of an instrument that moves it by at
\* most one unit for each lot then held.
MoneyRoundedStep ==
    \/ MoneyDrift' = MoneyDrift
    \/ \E i \in Instruments :
          /\ Len(fills') = Len(fills) + 1 /\ fills'[Len(fills')].inst = i
          /\ MoneyDrift' - MoneyDrift \in (-LotsHeld(i)')..LotsHeld(i)'

MoneyRoundingInv ==
    /\ \A i \in Instruments : LotsHeld(i) <= AllLots
    /\ 0 <= AllLots
    /\ MoneyDrift <= Len(fills) * AllLots /\ -MoneyDrift <= Len(fills) * AllLots

LEMMA AllLotsIsInt == ASSUME TypeOK PROVE AllLots \in Int /\ Len(fills) \in Nat
  <1>1. fills \in Seq(FillRows)
    BY DEF TypeOK
  <1>2. \A n \in DOMAIN fills : fills[n] \in FillRows
    BY <1>1
  <1>3. IsFiniteSet(DOMAIN fills) /\ \A n \in DOMAIN fills : Lots[n] \in Int
    BY <1>2, FillsEarnNumbers DEF Lots, FillRows
  <1>4. DOMAIN Lots = DOMAIN fills
    BY DEF Lots
  <1>5. SumFunctionOnSet(Lots, DOMAIN fills) \in Int
    BY <1>3, SumIsInt
  <1>6. QED
    BY <1>1, <1>4, <1>5 DEF AllLots, SumFunction

LEMMA FillAddsLots ==
    ASSUME NEW p \in Procs, TypeOK, CommitFill(p)
    PROVE  AllLots' = AllLots + FillRow(p).qty
  <1> DEFINE row == FillRow(p)
             last == Len(fills) + 1
             D == DOMAIN fills
             f == Lots
             e == Lots'
  <1>1. fills \in Seq(FillRows) /\ row \in FillRows /\ fills' = Append(fills, row)
    BY CommitRows DEF TypeOK, CommitFill
  <1>2. row.qty \in Int /\ \A n \in D : fills[n].qty \in Int
    <2>1. \A n \in D : fills[n] \in FillRows
      BY <1>1
    <2>2. QED
      BY <1>1, <2>1 DEF FillRows
  <1> HIDE DEF row
  <1>3. /\ last \notin D /\ DOMAIN fills' = D \cup {last}
        /\ \A n \in D : fills'[n] = fills[n]
        /\ fills'[last] = row
    BY <1>1
  <1>4. IsFiniteSet(D)
    BY FillsEarnNumbers
  <1>5. DOMAIN f = D /\ DOMAIN e = D \cup {last}
    BY <1>3 DEF Lots
  <1>6. /\ \A n \in D : f[n] \in Int /\ e[n] = f[n]
        /\ e[last] = row.qty
    BY <1>2, <1>3 DEF Lots
  <1> HIDE DEF f, e, D, last
  <1>7. SumFunction(e) = SumFunction(f) + e[last]
    BY <1>2, <1>3, <1>4, <1>5, <1>6, SumExtends
  <1>8. QED
    BY <1>6, <1>7 DEF f, e, row, AllLots

\* What a fill does to the money.
LEMMA FillSendsAstray ==
    ASSUME OneLeverage, NEW p \in Procs, TypeOK, MarkInv, RowInv, CommitFill(p),
           NEW i \in Instruments, exec[p].req.inst = i
    PROVE  /\ Len(fills') = Len(fills) + 1 /\ fills'[Len(fills')].inst = i
           /\ \E astray \in Int : /\ MoneyDrift' = MoneyDrift + astray
                                  /\ astray # 0 => astray \in (-LotsHeld(i)')..LotsHeld(i)'
           /\ \E q \in Nat : /\ AllLots' = AllLots + q
                             /\ LotsHeld(i)' \in Int /\ LotsHeld(i)' <= LotsHeld(i) + q
           /\ \A j \in Instruments \ {i} : LotsHeld(j)' = LotsHeld(j)
  <1> DEFINE r == exec[p].req
             q == exec[p].qty
             prior == positions[i]
             astray == Astray(prior, q, r)
  <1>1. /\ r \in Request /\ Executable(r) /\ QuotedPrice(r) # None
        /\ r.final \in {"LONG", "SHORT"}
        /\ prior \in PositionRow \cup {None}
        /\ q \in Nat /\ q > 0 /\ NewRow(prior, q, r) # None
        /\ positions' = [positions EXCEPT ![i] = NewRow(prior, q, r)]
        /\ FillRow(p).inst = i /\ FillRow(p).qty = q
    BY CommitFillFacts, CommitWrites
  <1>2. fills \in Seq(FillRows) /\ fills' = Append(fills, FillRow(p)) /\ DOMAIN positions = Instruments
    BY DEF TypeOK, CommitFill
  <1>3. Len(fills') = Len(fills) + 1 /\ fills'[Len(fills')].inst = i
    BY <1>1, <1>2
  <1>4. prior # None => prior.lev = r.lev /\ (prior.side = "FLAT" => prior.qty = 0)
    BY PriorLeverage
  <1>5. MoneyDrift' = MoneyDrift + astray /\ astray \in Int
    BY CommitMovesMoney
  <1>6. AllLots' = AllLots + q
    BY <1>1, FillAddsLots
  <1>7. LotsHeld(i)' = NewQty(prior, q, r)
    BY <1>1, <1>2, NewRowFields DEF LotsHeld
  <1>8. LotsHeld(i) = IF prior = None THEN 0 ELSE prior.qty
    BY DEF LotsHeld
  <1>9. \A j \in Instruments \ {i} : LotsHeld(j)' = LotsHeld(j)
    BY <1>1, <1>2 DEF LotsHeld
  <1> HIDE DEF r, q, prior
  <1>10. astray # 0 => astray \in (-NewQty(prior, q, r))..NewQty(prior, q, r)
    BY <1>1, <1>4, AstrayIsSmall
  <1>11. NewQty(prior, q, r) \in Int /\ NewQty(prior, q, r) <= LotsHeld(i) + q
    BY <1>1, <1>8, LotsGrow, LotFacts
  <1> HIDE DEF astray
  <1>12. QED
    BY <1>1, <1>3, <1>5, <1>6, <1>7, <1>9, <1>10, <1>11

LEMMA StepMoneyRounds ==
    ASSUME OneLeverage, TypeOK, TypeOK', MarkInv, RowInv, MoneyRoundingInv, [Next]_vars
    PROVE  MoneyRoundingInv' /\ [MoneyRoundedStep]_vars
  <1>1. CASE UNCHANGED vars
    BY <1>1 DEF vars, MoneyRoundingInv, MoneyDrift, Funds, Margins, NetGains, RowMargin,
       LotsHeld, AllLots, Lots
  <1>2. ASSUME NEW p \in Procs, Start(p) \/ Step(p) \/ Abort(p)
        PROVE  MoneyRoundingInv' /\ MoneyRoundedStep
    <2>1. AllLots \in Int /\ Len(fills) \in Nat /\ MoneyDrift \in Int
      BY AllLotsIsInt, NumbersOfMoney
    <2>2. CASE CommitFill(p)
      <3>1. PICK i \in Instruments : exec[p].req.inst = i
        BY <2>2, CommitFillFacts
      <3>2. /\ Len(fills') = Len(fills) + 1 /\ fills'[Len(fills')].inst = i
            /\ \A j \in Instruments \ {i} : LotsHeld(j)' = LotsHeld(j)
        BY <2>2, <3>1, FillSendsAstray
      <3>3. PICK astray \in Int :
               /\ MoneyDrift' = MoneyDrift + astray
               /\ astray # 0 => astray \in (-LotsHeld(i)')..LotsHeld(i)'
        BY <2>2, <3>1, FillSendsAstray
      <3>4. PICK q \in Nat : /\ AllLots' = AllLots + q
                            /\ LotsHeld(i)' \in Int /\ LotsHeld(i)' <= LotsHeld(i) + q
        BY <2>2, <3>1, FillSendsAstray
      <3>5. \A j \in Instruments : LotsHeld(j) \in Int /\ LotsHeld(j) <= AllLots
        BY LotFacts DEF MoneyRoundingInv
      <3>6. \A j \in Instruments : LotsHeld(j)' <= AllLots'
        BY <2>1, <3>2, <3>4, <3>5
      <3>7. /\ MoneyDrift' \in Int /\ AllLots' \in Int /\ AllLots <= AllLots' /\ 0 <= AllLots
            /\ MoneyDrift' - MoneyDrift <= AllLots' /\ MoneyDrift - MoneyDrift' <= AllLots'
        <4>1. 0 <= AllLots
          BY DEF MoneyRoundingInv
        <4>2. CASE astray = 0
          BY <2>1, <3>3, <3>4, <4>1, <4>2
        <4>3. CASE astray # 0
          <5>1. -LotsHeld(i)' <= astray /\ astray <= LotsHeld(i)' /\ LotsHeld(i)' <= AllLots'
            BY <3>3, <3>4, <3>6, <4>3
          <5>2. QED
            BY <2>1, <3>3, <3>4, <4>1, <5>1
        <4>4. QED
          BY <4>2, <4>3
      <3>8. /\ MoneyDrift' <= (Len(fills) + 1) * AllLots'
            /\ -MoneyDrift' <= (Len(fills) + 1) * AllLots'
        <4> DEFINE n == Len(fills)
                   t == AllLots
                   u == AllLots'
                   d == MoneyDrift
                   e == MoneyDrift'
        <4>1. /\ n \in Nat /\ t \in Int /\ u \in Int /\ t <= u /\ 0 <= t /\ d \in Int /\ e \in Int
              /\ d <= n * t /\ -d <= n * t /\ e - d <= u /\ d - e <= u
          BY <2>1, <3>7 DEF MoneyRoundingInv
        <4> HIDE DEF n, t, u, d, e
        <4>2. e <= (n + 1) * u /\ -e <= (n + 1) * u
          BY <4>1, WithinGrows
        <4>3. QED
          BY <4>2 DEF n, u, e
      <3>9. MoneyRoundingInv'
        BY <2>1, <3>2, <3>6, <3>7, <3>8 DEF MoneyRoundingInv
      <3>10. MoneyRoundedStep
        <4>1. CASE astray = 0
          BY <2>1, <3>3, <4>1 DEF MoneyRoundedStep
        <4>2. CASE astray # 0
          <5>1. MoneyDrift' - MoneyDrift = astray
            BY <2>1, <3>3
          <5>2. QED
            BY <3>2, <3>3, <4>2, <5>1 DEF MoneyRoundedStep
        <4>3. QED
          BY <4>1, <4>2
      <3>11. QED
        BY <3>9, <3>10
    <2>3. CASE ~CommitFill(p)
      <3>1. fills' = fills /\ Funds' = Funds /\ Margins' = Margins
        BY <1>2, <2>3, OtherStepsKeepMoney
      <3>2. NetGains' = NetGains /\ Lots' = Lots
        BY <3>1 DEF NetGains, Lots
      <3>3. MoneyDrift' = MoneyDrift /\ AllLots' = AllLots
        BY <3>1, <3>2 DEF MoneyDrift, AllLots
      <3>4. \A i \in Instruments : LotsHeld(i)' = LotsHeld(i)
        BY <1>2, <2>3, OthersDoNotRound
      <3>5. QED
        BY <3>1, <3>3, <3>4 DEF MoneyRoundingInv, MoneyRoundedStep
    <2>4. QED
      BY <2>2, <2>3
  <1>3. QED
    BY <1>1, <1>2 DEF Next

LEMMA InitMoneyRounds == Init => MoneyRoundingInv
  <1> SUFFICES ASSUME Init PROVE MoneyRoundingInv
    OBVIOUS
  <1>1. Len(fills) = 0 /\ fills = <<>> /\ \A i \in Instruments : LotsHeld(i) = 0
    BY DEF Init, LotsHeld
  <1>2. DOMAIN Lots = {}
    BY <1>1 DEF Lots
  <1>3. AllLots = 0
    BY <1>2, SumOverNothing DEF AllLots, SumFunction
  <1>4. MoneyDrift = 0
    <2>1. Funds + SumFunction(Margins) = StartingBalance + SumFunction(NetGains)
      BY InitMoney DEF MoneyInv
    <2>2. TypeOK
      BY InitTypeOK
    <2>3. QED
      BY <2>1, <2>2, NumbersOfMoney DEF MoneyDrift
  <1>5. 0 * 0 = 0 /\ \A n \in Int : n = 0 => -n <= 0
    OBVIOUS
  <1>6. QED
    BY <1>1, <1>3, <1>4, <1>5 DEF MoneyRoundingInv

\* The conservation of money with the room that rounding takes, in the terms of the model.
MoneyWithinRounding ==
    cash # None =>
        LET off  == cash + MarginHeld - StartingBalance
                      - SumFunction([n \in DOMAIN fills |-> fills[n].realized - fills[n].fee])
            room == Len(fills) * SumFunction([n \in DOMAIN fills |-> fills[n].qty])
        IN  off <= room /\ -off <= room

LEMMA MoneyRoundsHolds ==
    ASSUME OneDeskPerInstrument, OneLeverage
    PROVE  Spec => []MoneyRoundingInv /\ [][MoneyRoundedStep]_vars
  <1>1. TypeOK /\ MarkInv /\ RowInv /\ [Next]_vars => RowInv'
    BY StepRowInv
  <1>2. TypeOK /\ TypeOK' /\ MarkInv /\ RowInv /\ MoneyRoundingInv /\ [Next]_vars
           => MoneyRoundingInv' /\ [MoneyRoundedStep]_vars
    BY StepMoneyRounds
  <1>3. QED
    BY <1>1, <1>2, InitMoney, InitMoneyRounds, MarksAreFresh, TypeCorrect, PTL DEF Spec

\* With one leverage for an instrument, and whatever is rounded: a fill moves the money
\* there is, against what there should be, by at most one unit for each lot then held.
THEOREM LittleGoesAstray ==
    ASSUME OneDeskPerInstrument, OneLeverage PROVE Spec => [][MoneyRoundedStep]_vars
  BY MoneyRoundsHolds, PTL

\* After n fills it is off by at most n units for each lot ever traded.
THEOREM MoneyIsNearlyConserved ==
    ASSUME OneDeskPerInstrument, OneLeverage PROVE Spec => []MoneyWithinRounding
  <1>1. MoneyRoundingInv => MoneyWithinRounding
    BY DEF MoneyRoundingInv, MoneyWithinRounding, MoneyDrift, MarginHeld, Margins, Funds,
       NetGains, AllLots, Lots
  <1>2. QED
    BY <1>1, MoneyRoundsHolds, PTL

LEMMA GainAdds ==
    ASSUME TypeOK, JournalAgrees, MoneyInv, CurveInv PROVE GainAddsUp
  <1> SUFFICES ASSUME Gain # None
               PROVE  Gain + MarginHeld = RealizedPnl + LastRow.upnl - FeesPaid
    BY DEF GainAddsUp
  <1>1. Len(equities) = Len(fills) /\ equities \in Seq(EquityRows) /\ fills \in Seq(FillRows)
    BY DEF JournalAgrees, TypeOK
  <1>2. equities # <<>>
    <2>1. equities = <<>> => fills = <<>>
      BY <1>1
    <2>2. QED
      BY <2>1 DEF Gain, HasFills
  <1>3. fills # <<>> /\ LastRow \in EquityRows
    BY <1>1, <1>2 DEF LastRow
  <1>4. /\ Gain = LastRow.equity - StartingBalance
        /\ RealizedPnl = SumFunction(Gains) /\ FeesPaid = SumFunction(Fees)
        /\ MarginHeld = SumFunction(Margins)
    BY <1>2, <1>3 DEF Gain, RealizedPnl, RealizedTotal, FeesPaid, Total, HasFills, Gains, Fees,
       MarginHeld, Margins
  <1>5. LastRow.equity = cash + LastRow.upnl /\ Funds = cash /\ cash \in Int
    BY <1>2 DEF CurveInv, Funds, TypeOK
  <1>6. /\ cash + SumFunction(Margins) = StartingBalance + SumFunction(NetGains)
        /\ SumFunction(NetGains) = SumFunction(Gains) - SumFunction(Fees)
    BY <1>5 DEF MoneyInv
  <1>7. /\ SumFunction(Margins) \in Int /\ SumFunction(Gains) \in Int
        /\ SumFunction(Fees) \in Int /\ StartingBalance \in Int /\ LastRow.upnl \in Int
    <2>1. LastRow.upnl \in Int /\ StartingBalance \in Int
      BY <1>3, ExecutionAssumption DEF EquityRows
    <2>2. SumFunctionOnSet(Margins, Instruments) \in Int /\ DOMAIN Margins = Instruments
      BY MarginsAreNumbers, SumIsInt
    <2>3. \A n \in DOMAIN fills : Gains[n] \in Int /\ Fees[n] \in Int
      BY FillsEarnNumbers DEF Gains, Fees
    <2>4. DOMAIN Gains = DOMAIN fills /\ DOMAIN Fees = DOMAIN fills
      BY DEF Gains, Fees
    <2>5. SumFunctionOnSet(Gains, DOMAIN fills) \in Int /\ SumFunctionOnSet(Fees, DOMAIN fills) \in Int
      BY <2>3, FillsEarnNumbers, SumIsInt
    <2>6. QED
      BY <2>1, <2>2, <2>4, <2>5 DEF SumFunction
  <1> DEFINE held == SumFunction(Margins)
             all == SumFunction(Gains)
             paid == SumFunction(Fees)
             net == SumFunction(NetGains)
             equity == LastRow.equity
             upnl == LastRow.upnl
  <1>8. /\ held \in Int /\ all \in Int /\ paid \in Int /\ upnl \in Int
        /\ equity = cash + upnl /\ cash + held = StartingBalance + net /\ net = all - paid
    BY <1>5, <1>6, <1>7
  <1>9. Gain = equity - StartingBalance
    BY <1>4
  <1> HIDE DEF held, all, paid, net, equity, upnl
  <1>10. Gain + held = all + upnl - paid
    BY <1>5, <1>7, <1>8, <1>9
  <1>11. QED
    BY <1>4, <1>10 DEF held, all, paid, upnl

\* Then what the report calls the return is the money made, but for the margin it
\* leaves out; and its drawdown is the worst fall of the curve (compute_performance).
THEOREM ReportsAddUp ==
    ASSUME OneDeskPerInstrument, OneLeverage
    PROVE  Spec /\ ExactAverages /\ ExactMargins => []ReportAddsUp
  <1>1. TypeOK /\ JournalAgrees /\ MoneyInv /\ CurveInv => ReportAddsUp
    BY GainAdds, DrawdownHolds DEF ReportAddsUp
  <1>2. QED
    BY <1>1, MoneyInvHolds, JournalsAgree, TypeCorrect, PTL

\* A drawdown is the worst fall whatever the orders and the processes.
THEOREM DrawdownIsRight == Spec => []DrawdownIsWorst
  BY DrawdownHolds, TypeCorrect, PTL
=============================================================================
