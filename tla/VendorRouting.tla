---------------------------- MODULE VendorRouting ----------------------------
(***************************************************************************)
(* The data calls of the stock path: route_to_vendor in                    *)
(* tradingagents/dataflows/interface.py and the vendors behind it.         *)
(*                                                                         *)
(* A tool call is routed along a chain of vendors until one returns.  What *)
(* a vendor's function makes of what happened on the wire decides how the  *)
(* router goes on: text is an answer, even text about an error; the errors *)
(* of errors.py mean another vendor, a sentinel or the end of the run.     *)
(* Indicators from yfinance go through the price files (PriceCache), as    *)
(* does the verified snapshot, which is not routed.                        *)
(***************************************************************************)
EXTENDS PriceCache, Sequences, SequencesExt

CONSTANTS
    Methods,     \* tools that are called
    Configs,     \* values of data_vendors and tool_vendors, split at the commas
    MaxToolCalls \* bound: tool calls

VARIABLES
    route,      \* route[t] : the tool call of thread t
    toolCalls   \* tool calls so far

stockVars == <<today, file, load, torn, route, toolCalls>>

-----------------------------------------------------------------------------
(* What a vendor's function makes of what happens.                         *)

Vendors == {"yfinance", "alpha_vantage", "fred", "polymarket"}
Macro == "get_macro_indicators"
Markets == "get_prediction_markets"
Indicators == "get_indicators"
Verified == "get_verified_market_snapshot"
Statements == {"get_balance_sheet", "get_cashflow", "get_income_statement"}
Articles == {"get_news", "get_global_news", "get_insider_transactions"}
AllMethods ==
    {"get_stock_data", "get_fundamentals", Indicators, Macro, Markets, Verified}
    \cup Statements \cup Articles

\* On the wire: rows, none, rows that are years old, something else than rows, a
\* rate limit, any other failure, no usable API key, an unknown argument.
Wires == {"data", "empty", "old", "garbled", "limited", "broken", "no_key",
          "bad_argument"}

\* Data, or a text that says there is none or why not, are answers; the rest are
\* exceptions: NoMarketDataError, VendorRateLimitError, VendorNotConfiguredError,
\* another ValueError, any other.
Answers == {"served", "absent", "apology"}
Failures == {"throttled", "unconfigured", "bad_argument", "error"}
Outcomes == Answers \cup Failures \cup {"nothing"}

\* How a call ends: with an answer, a sentinel, an exception, or text about one.
Results == Answers \cup {"no_data", "unavailable", "raised", "told"}

ASSUME RoutingAssumption ==
    /\ Methods \subseteq AllMethods
    /\ Configs \subseteq Seq(Vendors \cup {"default"})
    /\ MaxToolCalls \in Nat
    /\ Absent \notin Failures \cup Results

\* y_finance.get_YFin_data_online.  Yahoo's rate limit is not a VendorRateLimitError.
YahooPrices(wire) ==
    CASE wire = "data"            -> "served"
      [] wire \in {"empty", "old"} -> "nothing"
      [] wire = "bad_argument"    -> "bad_argument"
      [] OTHER                    -> "error"

\* y_finance.get_fundamentals: a stub without a field is no data; Yahoo keeps no
\* history of them, so nothing is old.
YahooFundamentals(wire) ==
    CASE wire \in {"data", "old"} -> "served"
      [] wire = "empty"           -> "nothing"
      [] OTHER                    -> "apology"

\* y_finance.get_balance_sheet, get_cashflow, get_income_statement.
YahooStatements(wire) == YahooFundamentals(wire)

\* yfinance_news.get_news_yfinance: articles outside the window are left out, and
\* having none is an answer.
YahooNews(wire) ==
    CASE wire = "data"             -> "served"
      [] wire \in {"empty", "old"} -> "absent"
      [] OTHER                     -> "apology"

\* yfinance_news.get_global_news_yfinance: one search after the other.
YahooGlobalNews(wire) == YahooNews(wire)

\* y_finance.get_insider_transactions: no filter by date.
YahooInsiders(wire) == IF wire = "old" THEN "served" ELSE YahooNews(wire)

Yahoo(method, wire) ==
    CASE method = "get_stock_data"           -> YahooPrices(wire)
      [] method = "get_fundamentals"         -> YahooFundamentals(wire)
      [] method \in Statements               -> YahooStatements(wire)
      [] method = "get_news"                 -> YahooNews(wire)
      [] method = "get_global_news"          -> YahooGlobalNews(wire)
      [] method = "get_insider_transactions" -> YahooInsiders(wire)

\* alpha_vantage_common._make_api_request: an error message in the body is data.
AlphaVantageBody(wire) ==
    CASE wire \in {"data", "old"}                      -> "served"
      [] wire \in {"empty", "garbled", "bad_argument"} -> "apology"
      [] wire = "limited"                              -> "throttled"
      [] wire = "no_key"                               -> "unconfigured"
      [] OTHER                                         -> "error"

\* alpha_vantage_indicator.get_indicator: an unknown indicator is refused before the
\* request; after it only a missing key gets out.
AlphaVantageIndicator(wire) ==
    CASE wire = "bad_argument" -> "bad_argument"
      [] wire # "bad_argument" /\ AlphaVantageBody(wire) \in {"served", "unconfigured"}
            -> AlphaVantageBody(wire)
      [] OTHER -> "apology"

\* fred._request: whatever is not a good status raises, a rate limit too.
FredRequest(wire) ==
    CASE wire = "no_key"                         -> "unconfigured"
      [] wire \in {"limited", "broken", "garbled"} -> "error"
      [] OTHER                                   -> "served"

\* fred.get_macro_data: an unknown indicator, an unknown series and a window without
\* observations are told in text.
Fred(wire) ==
    IF wire \in {"empty", "bad_argument"} THEN "absent" ELSE FredRequest(wire)

\* polymarket.get_prediction_markets: a failed request, or one whose body is not
\* JSON, is told in text; JSON of another form raises.
Polymarket(wire) ==
    CASE wire \in {"data", "old"}           -> "served"
      [] wire \in {"empty", "bad_argument"} -> "absent"
      [] wire = "garbled"                   -> "error"
      [] OTHER                              -> "apology"

Reply(vendor, method, wire) ==
    CASE vendor = "fred"                                -> Fred(wire)
      [] vendor = "polymarket"                          -> Polymarket(wire)
      [] vendor = "alpha_vantage" /\ method = Indicators -> AlphaVantageIndicator(wire)
      [] vendor = "alpha_vantage" /\ method # Indicators -> AlphaVantageBody(wire)
      [] vendor = "yfinance" -> Yahoo(method, wire)

\* Calls that load the price files.
ThroughFiles(vendor, method) == vendor = "yfinance" /\ method \in {Indicators, Verified}

\* yfinance and polymarket need no key.
WiresOf(vendor, method) ==
    {wire \in Wires :
        /\ ~ThroughFiles(vendor, method)
        /\ wire = "no_key" => vendor \notin {"yfinance", "polymarket"}}

-----------------------------------------------------------------------------
(* The router.                                                             *)

\* VENDOR_METHODS, in its order.
Available(method) ==
    CASE method = Macro             -> <<"fred">>
      [] method = Markets           -> <<"polymarket">>
      [] method = "get_global_news" -> <<"yfinance", "alpha_vantage">>
      [] OTHER                      -> <<"alpha_vantage", "yfinance">>

\* OPTIONAL_CATEGORIES
Optional(method) == method \in {Macro, Markets}

\* The vendors of config that are in S, in its order.
Kept(config, S) ==
    LET upTo[n \in 0..Len(config)] ==
            IF n = 0 THEN <<>>
            ELSE IF config[n] \in S THEN Append(upTo[n - 1], config[n]) ELSE upTo[n - 1]
    IN  upTo[Len(config)]

NoneNamed(config) == \A i \in DOMAIN config : config[i] = "default"

\* The configured vendors that have the method; all that have it if none is named.
\* The verified snapshot knows only yfinance.
Chain(method, config) ==
    CASE method = Verified                          -> <<"yfinance">>
      [] method # Verified /\ NoneNamed(config)     -> Available(method)
      [] OTHER -> Kept(config, ToSet(Available(method)))

\* Mutant: an error of one vendor hides that another said there is no data.
VerdictErrorFirst(r) ==
    CASE r.error # Absent /\ ~Optional(r.method) -> "raised"
      [] r.noData -> "no_data"
      [] r.error # Absent -> "unavailable"
      [] OTHER -> "raised"

\* After the last vendor: no data takes precedence over errors, and an optional
\* category does not raise the first of them.
Verdict(r) ==
    CASE r.noData -> "no_data"
      [] ~r.noData /\ r.error # Absent /\ Optional(r.method) -> "unavailable"
      [] OTHER -> "raised"

\* The tool for indicators tells the model of a ValueError instead of raising it.
Told(method, result, error) ==
    IF method = Indicators /\ result = "raised" /\ error \in {"unconfigured", "bad_argument"}
    THEN "told" ELSE result

InRoute(t) == route[t] # Absent /\ route[t].result = Absent
Vendor(r) == r.chain[Len(r.said) + 1]
Asking(t) == InRoute(t) /\ Len(route[t].said) < Len(route[t].chain)

StockInit ==
    /\ PriceInit
    /\ route = [t \in Threads |-> Absent]
    /\ toolCalls = 0

\* A tool is called.  If no configured vendor has it: ValueError.
Route(t) ==
    /\ ~InRoute(t)
    /\ toolCalls < MaxToolCalls
    /\ toolCalls' = toolCalls + 1
    /\ \E method \in Methods, config \in Configs :
          LET chain == Chain(method, config) IN
          route' = [route EXCEPT ![t] =
                      [method |-> method, chain |-> chain, said |-> <<>>,
                       noData |-> FALSE, error |-> Absent, again |-> FALSE,
                       result |-> IF chain = <<>>
                                  THEN Told(method, "raised", "bad_argument")
                                  ELSE Absent]]
    /\ load' = [load EXCEPT ![t] = Absent]
    /\ UNCHANGED <<today, file, torn>>

\* What the loop makes of one vendor's outcome.
Heard(r, outcome) ==
    [r EXCEPT !.said = Append(@, outcome),
              !.again = FALSE,
              !.result = IF outcome \in Answers THEN outcome ELSE Absent,
              !.noData = @ \/ outcome = "nothing",
              !.error = IF @ = Absent /\ outcome \in Failures \ {"throttled"}
                        THEN outcome ELSE @]

\* The vendor's function returns or raises.
Ask(t) ==
    /\ Asking(t)
    /\ LET r == route[t] IN
       \E wire \in WiresOf(Vendor(r), r.method) :
          route' = [route EXCEPT ![t] = Heard(r, Reply(Vendor(r), r.method, wire))]
    /\ UNCHANGED <<today, file, load, torn, toolCalls>>

\* The indicator is not one yfinance has: ValueError before anything is loaded.
AskUnknown(t) ==
    /\ Asking(t) /\ load[t] = Absent /\ ~route[t].again
    /\ route[t].method = Indicators /\ Vendor(route[t]) = "yfinance"
    /\ route' = [route EXCEPT ![t] = Heard(@, "bad_argument")]
    /\ UNCHANGED <<today, file, load, torn, toolCalls>>

\* The prices are loaded up to the date the caller gave.
AskFiles(t) ==
    /\ Asking(t) /\ load[t] = Absent
    /\ ThroughFiles(Vendor(route[t]), route[t].method)
    /\ \E date \in 1..today : Locate(t, date)
    /\ UNCHANGED <<route, toolCalls>>

Loaded(t) == InRoute(t) /\ load[t] # Absent /\ ~Loading(t)

\* get_stock_stats_indicators_window: a load that raised is tried again for each
\* day by itself, here for the one day of the window; if that raises, the day is
\* left blank.
HearFiles(t) ==
    /\ Loaded(t) /\ route[t].method = Indicators
    /\ LET r == route[t]
           got == load[t].pc
       IN route' = [route EXCEPT ![t] =
                      CASE got # "failed"            -> Heard(r, got)
                        [] got = "failed" /\ r.again -> Heard(r, "apology")
                        [] OTHER                     -> [r EXCEPT !.again = TRUE]]
    /\ load' = [load EXCEPT ![t] = Absent]
    /\ UNCHANGED <<today, file, torn, toolCalls>>

\* build_verified_market_snapshot: no rows, like any error, is raised.
HearVerified(t) ==
    /\ Loaded(t) /\ route[t].method = Verified
    /\ route' = [route EXCEPT ![t].result =
                   IF At(t, "served") /\ load[t].rows # {} THEN "served" ELSE "raised"]
    /\ load' = [load EXCEPT ![t] = Absent]
    /\ UNCHANGED <<today, file, torn, toolCalls>>

\* Every vendor of the chain was asked.
Conclude(t) ==
    /\ InRoute(t) /\ ~Asking(t)
    /\ route' = [route EXCEPT ![t].result =
                   Told(route[t].method, Verdict(route[t]), route[t].error)]
    /\ UNCHANGED <<today, file, load, torn, toolCalls>>

StockStep(t) ==
    \/ Ask(t) \/ AskUnknown(t) \/ AskFiles(t) \/ HearFiles(t) \/ HearVerified(t)
    \/ Conclude(t)
    \/ LoadStep(t) /\ UNCHANGED <<route, toolCalls>>

\* The run of t is killed in the middle of a load.
Killed(t) ==
    /\ Die(t)
    /\ route' = [route EXCEPT ![t] = Absent]
    /\ UNCHANGED toolCalls

StockNext ==
    \/ \E t \in Threads : Route(t) \/ StockStep(t) \/ Killed(t)
    \/ Midnight /\ UNCHANGED <<route, toolCalls>>

StockSpec == StockInit /\ [][StockNext]_stockVars

-----------------------------------------------------------------------------
(* Correctness.                                                            *)

RouteOK(r) ==
    /\ r.method \in Methods
    /\ Len(r.said) <= Len(r.chain)
    /\ ToSet(r.said) \subseteq Outcomes
    /\ r.error \in Failures \cup {Absent}
    /\ r.result \in Results \cup {Absent}

StockTypeOK ==
    /\ PriceTypeOK
    /\ \A t \in Threads : route[t] = Absent \/ RouteOK(route[t])
    /\ toolCalls \in 0..MaxToolCalls

\* A routed call is what its vendors said: an answer if the last one asked gave it
\* and no other did; otherwise every vendor of the chain was asked and none had any,
\* and it is no data exactly if one of them said so, whatever the others failed with
\* and in whichever order (the precedence of interface.py:229-262; optional data cannot
\* abort a run).
VerdictIsWarranted ==
    \A t \in Threads :
        route[t] # Absent /\ route[t].method # Verified /\ route[t].chain # <<>> =>
            LET r == route[t]
                said == ToSet(r.said)
            IN
            /\ r.result \in Answers =>
                  /\ r.result = Last(r.said)
                  /\ \A i \in DOMAIN r.said : r.said[i] \in Answers => i = Len(r.said)
            /\ r.result \in {"no_data", "raised", "told", "unavailable"} =>
                  /\ Len(r.said) = Len(r.chain)
                  /\ said \subseteq Failures \cup {"nothing"}
                  /\ r.result = "no_data" <=> "nothing" \in said
                  /\ Optional(r.method) => r.result \in {"no_data", "unavailable"}

=============================================================================
