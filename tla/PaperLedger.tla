---------------------------- MODULE PaperLedger ----------------------------
(***************************************************************************)
(* What the paper-trading store promises its callers, with no processes,   *)
(* no connections and no steps in between: a journal in which every        *)
(* snapshot id of a strategy is decided once and for all, a trade is       *)
(* written in the same instant as its decision, and the cash balance moves *)
(* with a trade and at no other time.  PaperExecution is shown to          *)
(* implement this module.                                                  *)
(***************************************************************************)
EXTENDS Integers, Sequences

CONSTANTS
    SnapshotIds,   \* the ids proposals are keyed by
    NoPortfolio    \* the balance of a portfolio row that does not exist yet

VARIABLES
    verdict,   \* verdict[s] : what was decided for snapshot id s
    trades,    \* the ids of the executed trades, in commit order
    balance    \* the cash balance, or NoPortfolio

ledgerVars == <<verdict, trades, balance>>

Init ==
    /\ verdict = [s \in SnapshotIds |-> "undecided"]
    /\ trades = <<>>
    /\ balance = NoPortfolio

\* The portfolio row appears, once.
Open ==
    /\ balance = NoPortfolio
    /\ balance' \in Int
    /\ UNCHANGED <<verdict, trades>>

\* A trade: decision, journal entry and cash movement are one event.
Trade(s) ==
    /\ verdict[s] = "undecided"
    /\ balance # NoPortfolio
    /\ verdict' = [verdict EXCEPT ![s] = "executed"]
    /\ trades' = Append(trades, s)
    /\ balance' \in Int

\* A refusal that is remembered: it spends the id and nothing else.
Refuse(s) ==
    /\ verdict[s] = "undecided"
    /\ verdict' = [verdict EXCEPT ![s] = "refused"]
    /\ UNCHANGED <<trades, balance>>

Next ==
    \/ Open
    \/ \E s \in SnapshotIds : Trade(s) \/ Refuse(s)

Spec == Init /\ [][Next]_ledgerVars
=============================================================================
