------------------------- MODULE HyperliquidClient -------------------------
(***************************************************************************)
(* The market data client of the crypto graph:                             *)
(* tradingagents/dataflows/hyperliquid.py, used through crypto_interface.  *)
(*                                                                         *)
(* get_market_snapshot asks the venue for one source after another, each   *)
(* through _post with its cache and its retries, and puts a snapshot       *)
(* together from what it got.  Time passes during every request and        *)
(* between the attempts; the venue publishes when it likes, answers with   *)
(* what it has published, or not at all.  The client lives as long as the  *)
(* process (crypto_interface.get_client), and so does its cache: the       *)
(* limits below are the ones it was built with.                            *)
(*                                                                         *)
(* What the venue published is known by when it did, so that a snapshot    *)
(* tells how old its parts are.  Prices, indicators and warnings are left  *)
(* out.  No caller passes as_of: the windows of candles and fundings end   *)
(* at the time of the snapshot, to the millisecond, and their requests are *)
(* never the same twice.  Only the bodies without a window can be found in *)
(* the cache again, and only they are kept here.                           *)
(***************************************************************************)
EXTENDS Integers, Sequences, FiniteSets

CONSTANTS
    CandleOrder,   \* analysis_intervals, in the order they are fetched
    Period,        \* Period[s] : length of a bar, time between two fundings
    CacheTTL,      \* crypto_snapshot_cache_seconds
    MaxDataAge,    \* crypto_max_data_age_seconds
    MaxRetries,    \* MAX_RETRIES
    MaxClock,      \* bound: time
    MaxCalls,      \* bound: snapshots asked for
    None           \* no entry, no call, not asked yet

Intervals == {CandleOrder[i] : i \in DOMAIN CandleOrder}
Sources == {"asset_ctx", "l2_book", "funding_history"} \cup Intervals

ASSUME ClientAssumption ==
    /\ CandleOrder \in Seq(STRING)
    /\ {"asset_ctx", "l2_book", "funding_history"} \cap Intervals = {}
    /\ Period \in [Intervals \cup {"funding_history"} -> Nat \ {0}]
    /\ CacheTTL \in Nat
    /\ MaxDataAge \in Nat
    /\ MaxRetries \in Nat \ {0}
    /\ MaxClock \in Nat
    /\ MaxCalls \in Nat

VARIABLES
    clock,      \* the time, of the wall and monotonic
    published,  \* when the venue last published
    cache,      \* _TTLCache._store
    call,       \* the call of get_market_snapshot in progress, or None
    snapshot,   \* what the last call returned
    calls       \* calls so far

vars == <<clock, published, cache, call, snapshot, calls>>

-----------------------------------------------------------------------------
(* Requests and answers.                                                   *)

\* The order in which get_market_snapshot asks.
Plan == <<"asset_ctx">> \o CandleOrder \o <<"l2_book", "funding_history">>

\* Sources whose request, the cache key, is always the same.
Repeated == {"asset_ctx", "l2_book"}

\* What a JSON body can be to the method that reads it: get_asset_contexts (a context
\* with a funding rate or without, or, in _resolve_ctx, none for the coin), get_candles
\* (rows without a time or a price are skipped), get_l2_book (levels or none, a time or
\* none), get_funding_history (rows without a time are kept, before those with one).
ContextShapes == {"good", "rateless", "unlisted"}
CandleShapes == {"good", "empty"}
BookShapes == {"good", "undated", "empty", "undated_empty"}
FundingShapes == {"good", "undated", "empty"}

\* A body of the wrong shape, null among them, or one whose values make the parser raise
\* something that get_market_snapshot does not catch (a funding time that is no number).
BadShapes == {"malformed", "null", "unreadable"}

Shapes(s) ==
    BadShapes \cup CASE s = "asset_ctx"       -> ContextShapes
                     [] s = "l2_book"         -> BookShapes
                     [] s = "funding_history" -> FundingShapes
                     [] s \in Intervals       -> CandleShapes

AllShapes == ContextShapes \cup CandleShapes \cup BookShapes \cup FundingShapes \cup BadShapes

TellsTime(s, shape) ==
    \/ s # "asset_ctx" /\ shape = "good"
    \/ s = "l2_book" /\ shape = "empty"

\* seen is what the venue had published when it answered, where the answer tells, and
\* within the window of the request, which ends at the time of the snapshot.
Payload == [shape: AllShapes, seen: 0..MaxClock]
Seen(s, shape) ==
    IF ~TellsTime(s, shape) THEN 0
    ELSE IF s \in Repeated \/ published <= call.now THEN published ELSE call.now
CacheEntry == [expires: Nat, payload: Payload]

\* A part of the snapshot: an answer, or a failure (of the request, or to make sense
\* of the answer); whether it is from before the snapshot was asked for, and then
\* since when.
Part == [shape: AllShapes \cup {"failed"}, seen: 0..MaxClock, at: Int]
Answer(payload, at) ==
    [shape |-> IF payload.shape \in BadShapes THEN "failed" ELSE payload.shape,
     seen |-> payload.seen,
     at |-> IF at < call.now THEN at ELSE call.now]
Failure == [shape |-> "failed", seen |-> 0, at |-> call.now]

\* Mutant: an entry is still served in the instant in which it expires.
LiveInclusive(entry) == entry # None /\ clock <= entry.expires

\* _TTLCache.get
Live(entry) == entry # None /\ clock < entry.expires

\* _post finds the answer in the cache.
Hit(s) == s \in Repeated /\ Live(cache[s])

\* What the cache holds for s becomes entry.
Stored(s, entry) == IF s \in Repeated THEN [cache EXCEPT ![s] = entry] ELSE cache

-----------------------------------------------------------------------------
(* The snapshot.                                                           *)

\* A source that is in the snapshot with something, and the keys of source_timestamps:
\* a book without levels has one, funding whose last row has no time has not.
Supplied(part) == part.shape \in {"good", "rateless", "undated"}
Stamped(parts) ==
    {s \in Sources : IF s = "l2_book" THEN parts[s].shape # "failed"
                     ELSE parts[s].shape \in {"good", "rateless"}}

\* When the bar opened or the funding was paid that is the last one seen.
LastOf(s, seen) == seen - (seen % Period[s])

\* source_timestamps: the asset context carries the time at which it was read,
\* from the cache or not (readAt); a book without a time that of the snapshot.
Stamp(s, part, now, readAt) ==
    CASE s = "asset_ctx" -> readAt
      [] s = "l2_book"   -> IF TellsTime(s, part.shape) THEN part.seen ELSE now
      [] OTHER           -> LastOf(s, part.seen)

Stamps(c) == {Stamp(s, c.parts[s], c.now, c.readAt) : s \in Stamped(c.parts)}

\* Mutant: the age of the data is that of the oldest source.
AgeOfOldest(c) ==
    IF Stamps(c) = {} THEN 0
    ELSE c.now - (CHOOSE t \in Stamps(c) : \A u \in Stamps(c) : t <= u)

\* The age of the freshest source; 0 when there is none.
Age(c) ==
    IF Stamps(c) = {} THEN 0
    ELSE c.now - (CHOOSE t \in Stamps(c) : \A u \in Stamps(c) : t >= u)

IsStale(c) == Age(c) > MaxDataAge

CandlesOk(parts) == \E i \in Intervals : Supplied(parts[i])
OrderBookOk(parts) == Supplied(parts["l2_book"])

\* There is a funding rate, of the context or of the history, or any history.
DerivativesOk(parts) == parts["asset_ctx"].shape = "good" \/ Supplied(parts["funding_history"])

\* data_quality.missing_sources
Missing(parts) ==
    {s \in Sources \ {"l2_book"} : ~Supplied(parts[s])}
    \cup (IF CandlesOk(parts) THEN {} ELSE {"candles"})
    \cup (IF OrderBookOk(parts) THEN {} ELSE {"l2_book"})
    \cup (IF DerivativesOk(parts) THEN {} ELSE {"derivatives"})

Assembled(c) ==
    [now |-> c.now, parts |-> c.parts, age |-> Age(c), stale |-> IsStale(c),
     missing |-> Missing(c.parts)]

-----------------------------------------------------------------------------
(* The call.                                                               *)

NoParts == [s \in Sources |-> None]

InCall == call # None
Source == Head(call.left)

Init ==
    /\ clock = 0
    /\ published = 0
    /\ cache = [s \in Repeated |-> None]
    /\ call = None
    /\ snapshot = None
    /\ calls = 0

\* get_market_snapshot is called: the time of the snapshot is taken first.
Begin ==
    /\ ~InCall
    /\ calls < MaxCalls
    /\ calls' = calls + 1
    /\ call' = [now |-> clock, left |-> Plan, tries |-> 0, readAt |-> clock,
                parts |-> NoParts]
    /\ snapshot' = None
    /\ UNCHANGED <<clock, published, cache>>

\* A source is done: the next one is asked.
Accept(part) ==
    call' = [now |-> call.now, left |-> Tail(call.left), tries |-> 0,
             readAt |-> IF Source = "asset_ctx" /\ part.shape # "failed"
                        THEN clock ELSE call.readAt,
             parts |-> [call.parts EXCEPT ![Source] = part]]

\* A coin that is not in the universe (HyperliquidSymbolError), or an error of another
\* class than HyperliquidError, leaves the call.
Receive(payload, at) ==
    IF payload.shape \in {"unlisted", "unreadable"}
    THEN call' = None
    ELSE Accept(Answer(payload, at))

\* _post answers from the cache.
Reuse ==
    /\ InCall /\ call.left # <<>> /\ call.tries = 0
    /\ Hit(Source)
    /\ LET entry == cache[Source] IN Receive(entry.payload, entry.expires - CacheTTL)
    /\ UNCHANGED <<clock, published, cache, snapshot, calls>>

\* Nothing usable in the cache: an expired entry is dropped, the request sent.
Request ==
    /\ InCall /\ call.left # <<>> /\ call.tries = 0
    /\ ~Hit(Source)
    /\ cache' = Stored(Source, None)
    /\ call' = [call EXCEPT !.tries = 1]
    /\ UNCHANGED <<clock, published, snapshot, calls>>

\* The venue answers with JSON.  It is cached before anyone looks at it; a null is
\* never found again, since _post takes it for a miss.
Respond ==
    /\ InCall /\ call.left # <<>> /\ call.tries > 0
    /\ \E shape \in Shapes(Source) :
          LET payload == [shape |-> shape, seen |-> Seen(Source, shape)]
              entry   == [expires |-> clock + CacheTTL, payload |-> payload]
          IN  /\ cache' = Stored(Source, IF shape = "null" THEN None ELSE entry)
              /\ Receive(payload, clock)
    /\ UNCHANGED <<clock, published, snapshot, calls>>

\* Mutant: one attempt too many.
RetryOnceMore ==
    /\ InCall /\ call.left # <<>> /\ call.tries > 0
    /\ call.tries <= MaxRetries
    /\ call' = [call EXCEPT !.tries = @ + 1]
    /\ UNCHANGED <<clock, published, cache, snapshot, calls>>

\* Mutant: after the last attempt the count starts again.
RetryForever ==
    /\ InCall /\ call.left # <<>> /\ call.tries > 0
    /\ call' = [call EXCEPT !.tries = (@ % MaxRetries) + 1]
    /\ UNCHANGED <<clock, published, cache, snapshot, calls>>

\* A timeout, a lost connection, a 5xx or a 429: another attempt, if one is left.
Retry ==
    /\ InCall /\ call.left # <<>> /\ call.tries > 0
    /\ call.tries < MaxRetries
    /\ call' = [call EXCEPT !.tries = @ + 1]
    /\ UNCHANGED <<clock, published, cache, snapshot, calls>>

\* The last attempt failed so too, or any with another 4xx or a body that is not
\* JSON: the source is missing.
GiveUp ==
    /\ InCall /\ call.left # <<>> /\ call.tries > 0
    /\ Accept(Failure)
    /\ UNCHANGED <<clock, published, cache, snapshot, calls>>

\* All sources asked: the snapshot is put together and returned.
Return ==
    /\ InCall /\ call.left = <<>>
    /\ snapshot' = Assembled(call)
    /\ call' = None
    /\ UNCHANGED <<clock, published, cache, calls>>

Tick ==
    /\ clock < MaxClock
    /\ clock' = clock + 1
    /\ UNCHANGED <<published, cache, call, snapshot, calls>>

Publish ==
    /\ published < clock
    /\ published' = clock
    /\ UNCHANGED <<clock, cache, call, snapshot, calls>>

Step == Reuse \/ Request \/ Respond \/ Retry \/ GiveUp \/ Return

Next == Begin \/ Step \/ Tick \/ Publish

\* One thread makes the call and goes on while it can; requests have a timeout.
Spec == Init /\ [][Next]_vars /\ WF_vars(Step)

-----------------------------------------------------------------------------
(* Correctness.                                                            *)

CallOK(c) ==
    /\ c.now \in 0..clock
    /\ c.readAt \in c.now..clock
    /\ c.tries \in 0..MaxRetries
    /\ \E n \in 0..Len(Plan) : c.left = SubSeq(Plan, n + 1, Len(Plan))
    /\ c.parts \in [Sources -> Part \cup {None}]

TypeOK ==
    /\ clock \in 0..MaxClock
    /\ published \in 0..clock
    /\ cache \in [Repeated -> CacheEntry \cup {None}]
    /\ calls \in 0..MaxCalls
    /\ call # None => CallOK(call)
    /\ snapshot # None => snapshot.parts \in [Sources -> Part]

\* Whatever a snapshot says of a source, that it is missing included, rests on
\* what the venue said less than the lifetime of a cache entry before the time
\* of the snapshot, or later: through hits, misses, expiry between lookups,
\* retries and failures (_TTLCache, _post).
PartsWithinTTL ==
    snapshot # None =>
        \A s \in Sources :
            LET at == snapshot.parts[s].at IN
            at = snapshot.now \/ at + CacheTTL > snapshot.now

\* Parts whose age the venue told, and parts without an age that pass for new: a context
\* has none, a book may have none.
Dated(parts) == {s \in Sources : TellsTime(s, parts[s].shape)}
VenueTime(s, part) == IF s = "l2_book" THEN part.seen ELSE LastOf(s, part.seen)
PassForNew(parts) ==
    {s \in {"asset_ctx", "l2_book"} : parts[s].shape # "failed"} \ Dated(parts)

\* What data_quality.is_stale tells the risk gate: the venue dated some part, every part
\* it dated is too old, and none passes for new.  A context, or a book without a time,
\* thus makes all the others pass, while funding without a time says nothing of the
\* age; and where nothing has a date, nothing is stale (hyperliquid.py:649-652, over
\* what was stamped at :475, :495, :515-518 and :530-535).
StaleVerdict ==
    snapshot # None =>
        (snapshot.stale <=>
            /\ Dated(snapshot.parts) # {}
            /\ PassForNew(snapshot.parts) = {}
            /\ \A s \in Dated(snapshot.parts) :
                  snapshot.now - VenueTime(s, snapshot.parts[s]) > MaxDataAge)

=============================================================================
