-------------------------- MODULE MCPaperExecution --------------------------
(***************************************************************************)
(* Small instances of PaperExecution.  Prices are multiples of 360000 so   *)
(* that 20 bps of slippage, averaged entries of up to five lots and        *)
(* margins at leverage 2 are whole numbers: the accounting identities are  *)
(* exact.                                                                  *)
(***************************************************************************)
EXTENDS PaperPerformance

Unit == 360000

\* Every process may make any of the calls.
Everyone(calls) == [p \in Procs |-> calls]

\* An approved order whose snapshot quotes the same mid and mark.
Order(id, inst, side, pct, lev, price) ==
    [id |-> id, inst |-> inst, action |-> side, approved |-> TRUE, final |-> side,
     pct |-> pct, lev |-> lev, quoted |-> inst, mid |-> price, mark |-> price]

\* Races on one instrument: orders of both sides, an order too large for the
\* cash, an order too small for a lot, a snapshot with no price, one with a mark
\* and no mid, a rejected proposal and a NO_TRADE.
RacingRequests ==
    LET long  == Order("s1", "BTC", "LONG", 50, 1, Unit)
        short == Order("s2", "BTC", "SHORT", 100, 2, 2 * Unit)
    IN  Everyone({long,
         [long EXCEPT !.pct = 100],
         [long EXCEPT !.pct = 0],
         [long EXCEPT !.mid = None, !.mark = None],
         [long EXCEPT !.approved = FALSE],
         short,
         [short EXCEPT !.mid = None],
         [short EXCEPT !.final = "NO_TRADE", !.action = "NO_TRADE"]})

\* Two desks of one strategy, one instrument each, one balance between them.  The
\* first makes every sequence of up to three adds, partial closes, exact closes
\* and flips at two prices, the second trades once; one leverage.
DeskRequests ==
    [p \in Procs |->
        IF p = "p1"
        THEN {Order(id, "BTC", side, pct, 2, price) :
                  id \in {"s1", "s2", "s3"}, side \in {"LONG", "SHORT"},
                  pct \in {25, 50}, price \in {Unit, 2 * Unit}}
        ELSE {Order("s4", "ETH", side, 50, 2, Unit) : side \in {"LONG", "SHORT"}}]

\* The same desk trades with leverage 2 and then leverage 1.
LeverageRequests ==
    Everyone({Order("s1", "BTC", "LONG", 25, 2, Unit), Order("s2", "BTC", "LONG", 25, 1, Unit),
              Order("s3", "BTC", "SHORT", 50, 1, Unit)})
=============================================================================
