----------------------------- MODULE MarketData -----------------------------
(***************************************************************************)
(* The data paths of a run: the crypto client, and the vendors behind the  *)
(* tools of the stock path.  A stock run takes only the second.  A crypto  *)
(* run takes both: its catalyst analyst asks the vendors for news          *)
(* (catalyst_analyst.py, setup.py).  The paths share no state.             *)
(***************************************************************************)
EXTENDS HyperliquidClient, VendorRouting

CONSTANT PathSets   \* the paths that a run may take together

ASSUME PathAssumption == PathSets \subseteq SUBSET {"crypto", "stock"}

VARIABLE paths      \* the paths the run takes

allVars == <<vars, stockVars, paths>>

DataInit ==
    /\ Init
    /\ StockInit
    /\ paths \in PathSets

DataNext ==
    \/ "crypto" \in paths /\ Next /\ UNCHANGED <<stockVars, paths>>
    \/ "stock" \in paths /\ StockNext /\ UNCHANGED <<vars, paths>>

\* The thread of a call goes on while it can: requests have timeouts.
DataSpec ==
    /\ DataInit /\ [][DataNext]_allVars
    /\ WF_allVars("crypto" \in paths /\ Step /\ UNCHANGED <<stockVars, paths>>)
    /\ \A t \in Threads :
          WF_allVars("stock" \in paths /\ StockStep(t) /\ UNCHANGED <<vars, paths>>)

DataTypeOK == TypeOK /\ StockTypeOK

\* A call for data ends, whatever venue and vendors do and whichever thread of
\* another call is in the way: attempts are counted and no step waits for another
\* thread (_post, yf_retry, route_to_vendor).  The calls being bounded, every one
\* returns if and only if there are always again times without any.
EveryCallReturns == []<>(~InCall /\ \A t \in Threads : ~InRoute(t))

=============================================================================
