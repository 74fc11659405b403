-------------------------- MODULE MarketDataProofs --------------------------
(***************************************************************************)
(* Proofs about HyperliquidClient, for any sources, periods, limits and    *)
(* numbers of attempts, and about MarketData, which has both data paths.   *)
(*                                                                         *)
(* What a snapshot says is settled when the last source has answered or    *)
(* was given up.  The invariant follows a call on its way there: a source  *)
(* is either still to be asked, or its part is settled; and what the cache *)
(* holds expires within its lifetime.                                      *)
(*                                                                         *)
(* The safety of the client needs no fairness, so it is proved of Init and *)
(* [Next]_vars first: a step of the other path is a stutter of this one.   *)
(***************************************************************************)
EXTENDS MarketData, SequenceTheorems, VendorRoutingProofs

\* What a part of the snapshot under way is, once its source was asked.
Settled(s, part, now) ==
    /\ part \in Part
    /\ part.shape \in (Shapes(s) \ ({"unlisted"} \cup BadShapes)) \cup {"failed"}
    /\ part.at = now \/ part.at + CacheTTL > now

Call == [now: Nat, left: Seq(Sources), tries: Nat, readAt: Nat,
         parts: [Sources -> Part \cup {None}]]

ToAsk(c, s) == \E i \in 1..Len(c.left) : c.left[i] = s

CallInv ==
    InCall =>
        /\ call \in Call
        /\ \A s \in Sources : ToAsk(call, s) \/ Settled(s, call.parts[s], call.now)

CacheInv ==
    \A s \in Repeated : cache[s] # None =>
        /\ cache[s].payload.shape \in Shapes(s)
        /\ cache[s].expires <= clock + CacheTTL

Inv == TypeOK /\ CallInv /\ CacheInv

-----------------------------------------------------------------------------
(* The plan asks every source.                                             *)

LEMMA SourceFacts ==
    /\ Repeated \subseteq Sources
    /\ Intervals \subseteq Sources
    /\ "funding_history" \in Sources
    /\ \A s \in Intervals : s \notin {"asset_ctx", "l2_book", "funding_history"}
  BY ClientAssumption DEF Sources, Repeated

LEMMA PlanFacts ==
    /\ Plan \in Seq(Sources)
    /\ Plan # <<>>
    /\ \A s \in Sources : \E i \in 1..Len(Plan) : Plan[i] = s
  <1>. DEFINE n == Len(CandleOrder)
              Last2 == <<"l2_book", "funding_history">>
              Most == <<"asset_ctx">> \o CandleOrder
  <1>1. CandleOrder \in Seq(Intervals) /\ n \in Nat
    <2>1. CandleOrder \in Seq(STRING)
      BY ClientAssumption
    <2>2. DOMAIN CandleOrder = 1..n /\ n \in Nat
      BY <2>1, LenProperties
    <2>3. \A i \in 1..n : CandleOrder[i] \in Intervals
      BY <2>2 DEF Intervals
    <2>4. CandleOrder \in [1..n -> Intervals]
      BY <2>1, <2>2, <2>3, LenProperties
    <2>5. QED
      BY <2>2, <2>4, SeqDef
  <1>2. CandleOrder \in Seq(Sources)
    BY <1>1, SourceFacts, SeqMonotonic
  <1>3. <<"asset_ctx">> \in Seq(Sources) /\ Len(<<"asset_ctx">>) = 1
    BY DEF Sources
  <1>4. Last2 \in Seq(Sources) /\ Len(Last2) = 2
    BY DEF Sources
  <1>5. /\ Most \in Seq(Sources) /\ Len(Most) = n + 1
        /\ Most[1] = "asset_ctx"
        /\ \A i \in 1..n : Most[i + 1] = CandleOrder[i]
    <2>1. /\ Most \in Seq(Sources) /\ Len(Most) = 1 + n
          /\ \A i \in 1..1 + n :
                Most[i] = IF i <= 1 THEN <<"asset_ctx">>[i] ELSE CandleOrder[i - 1]
      BY <1>2, <1>3, ConcatProperties
    <2>2. QED
      BY <2>1, <1>1
  <1>6. /\ Plan \in Seq(Sources) /\ Len(Plan) = n + 3
        /\ \A i \in 1..n + 3 : Plan[i] = IF i <= n + 1 THEN Most[i] ELSE Last2[i - (n + 1)]
    <2>1. /\ Most \o Last2 \in Seq(Sources)
          /\ Len(Most \o Last2) = (n + 1) + 2
          /\ \A i \in 1..(n + 1) + 2 :
                (Most \o Last2)[i] = IF i <= n + 1 THEN Most[i] ELSE Last2[i - (n + 1)]
      BY <1>4, <1>5, ConcatProperties
    <2>2. Plan = Most \o Last2
      BY <1>2, <1>3, <1>4, ConcatAssociative DEF Plan
    <2>3. QED
      BY <2>1, <2>2, <1>1
  <1>. HIDE DEF Most
  <1>7. Plan[1] = "asset_ctx"
    BY <1>1, <1>5, <1>6
  <1>8. Plan[n + 2] = "l2_book" /\ Plan[n + 3] = "funding_history"
    BY <1>1, <1>6
  <1>9. \A i \in 1..n : Plan[i + 1] = CandleOrder[i]
    BY <1>1, <1>5, <1>6
  <1>10. ASSUME NEW s \in Intervals PROVE \E i \in 1..n + 3 : Plan[i] = s
    <2>1. PICK i \in 1..n : CandleOrder[i] = s
      BY <1>1, LenProperties DEF Intervals
    <2>2. QED
      BY <2>1, <1>9, <1>1
  <1>11. QED
    BY <1>1, <1>6, <1>7, <1>8, <1>10, EmptySeq DEF Sources

-----------------------------------------------------------------------------
(* Every step keeps the invariant.                                         *)

LEMMA InitInv == Init => Inv
  <1>. SUFFICES ASSUME Init PROVE Inv
    OBVIOUS
  <1>1. TypeOK
    BY ClientAssumption DEF Init, TypeOK
  <1>2. CallInv /\ CacheInv
    BY DEF Init, CallInv, CacheInv, InCall
  <1>3. QED
    BY <1>1, <1>2 DEF Inv

LEMMA TimeFacts ==
    ASSUME TypeOK
    PROVE  /\ clock \in Nat /\ published \in Nat /\ published <= clock
           /\ clock <= MaxClock /\ CacheTTL \in Nat
  BY ClientAssumption DEF TypeOK

(* The source that is asked next. *)
LEMMA SourceIsNext ==
    ASSUME Inv, InCall, call.left # <<>>
    PROVE  /\ call \in Call
           /\ Source \in Sources
           /\ Tail(call.left) \in Seq(Sources)
           /\ \A s \in Sources :
                 ToAsk(call, s) => s = Source \/ \E i \in 1..Len(Tail(call.left)) : Tail(call.left)[i] = s
  <1>1. call \in Call
    BY DEF Inv, CallInv
  <1>2. call.left \in Seq(Sources)
    BY <1>1 DEF Call
  <1>3. /\ Source \in Sources
        /\ Tail(call.left) \in Seq(Sources)
        /\ Len(Tail(call.left)) = Len(call.left) - 1
        /\ \A i \in 1..Len(Tail(call.left)) : Tail(call.left)[i] = call.left[i + 1]
    BY <1>2, HeadTailProperties DEF Source
  <1>4. Source = call.left[1]
    BY DEF Source
  <1>5. ASSUME NEW s \in Sources, NEW i \in 1..Len(call.left), call.left[i] = s, s # Source
        PROVE  \E j \in 1..Len(Tail(call.left)) : Tail(call.left)[j] = s
    <2>1. i # 1 /\ Len(call.left) \in Nat
      BY <1>2, <1>4, <1>5, LenProperties
    <2>2. i - 1 \in 1..Len(Tail(call.left)) /\ (i - 1) + 1 = i
      BY <2>1, <1>3
    <2>3. QED
      BY <2>2, <1>3, <1>5
  <1>6. QED
    BY <1>1, <1>3, <1>5 DEF ToAsk

(* What the code makes of an answer is a settled part. *)
LEMMA AnswerSettled ==
    ASSUME Inv, InCall, call.left # <<>>,
           NEW payload \in Payload, payload.shape \in Shapes(Source),
           payload.shape \notin {"unlisted", "unreadable"},
           NEW at \in Int, at + CacheTTL > call.now \/ at >= call.now
    PROVE  Settled(Source, Answer(payload, at), call.now)
  <1>1. call.now \in Int
    BY SourceIsNext DEF Call
  <1>2. payload.seen \in 0..MaxClock /\ payload.shape \in AllShapes
    BY DEF Payload
  <1>3. Answer(payload, at) \in Part
    <2>1. Answer(payload, at).shape \in AllShapes \cup {"failed"}
      BY <1>2 DEF Answer
    <2>2. Answer(payload, at).at \in Int
      BY <1>1 DEF Answer
    <2>3. Answer(payload, at).seen \in 0..MaxClock
      BY <1>2 DEF Answer
    <2>4. QED
      BY <1>1, <1>2 DEF Answer, Part
  <1>4. Answer(payload, at).shape \in (Shapes(Source) \ ({"unlisted"} \cup BadShapes)) \cup {"failed"}
    BY DEF Answer
  <1>5. LET part == Answer(payload, at)
        IN  part.at = call.now \/ part.at + CacheTTL > call.now
    BY <1>1 DEF Answer
  <1>6. QED
    BY <1>3, <1>4, <1>5 DEF Settled

LEMMA FailureSettled ==
    ASSUME Inv, InCall, call.left # <<>>
    PROVE  Settled(Source, Failure, call.now)
  <1>1. call.now \in Int
    BY SourceIsNext DEF Call
  <1>2. Failure \in Part
    BY <1>1, ClientAssumption DEF Failure, Part
  <1>3. QED
    BY <1>2 DEF Failure, Settled

(* One source fewer to ask, one part more settled. *)
LEMMA AcceptKeeps ==
    ASSUME Inv, InCall, call.left # <<>>,
           NEW part, Settled(Source, part, call.now), Accept(part)
    PROVE  /\ call' \in Call
           /\ CallOK(call')
           /\ \A s \in Sources : ToAsk(call', s) \/ Settled(s, call'.parts[s], call'.now)
  <1>1. /\ call \in Call /\ Source \in Sources /\ Tail(call.left) \in Seq(Sources)
        /\ CallOK(call) /\ clock \in Nat /\ clock <= MaxClock
    BY SourceIsNext, TimeFacts DEF Inv, TypeOK, InCall
  <1>2. part \in Part
    BY DEF Settled
  <1>3. /\ call.now \in Nat /\ call.readAt \in Nat /\ call.left \in Seq(Sources)
        /\ call.parts \in [Sources -> Part \cup {None}]
    BY <1>1 DEF Call
  <1>4. /\ call'.now = call.now /\ call'.left = Tail(call.left) /\ call'.tries = 0
        /\ call'.readAt \in {clock, call.readAt}
        /\ call'.parts = [call.parts EXCEPT ![Source] = part]
    BY DEF Accept
  <1>5. [call.parts EXCEPT ![Source] = part] \in [Sources -> Part \cup {None}]
    BY <1>1, <1>2, <1>3
  <1>6. call' \in Call
    BY <1>1, <1>3, <1>5 DEF Accept, Call
  <1>7. CallOK(call')
    <2>1. call'.now \in 0..clock /\ call'.readAt \in call'.now..clock
      BY <1>1, <1>3, <1>4 DEF CallOK
    <2>2. call'.tries \in 0..MaxRetries
      BY <1>4, ClientAssumption
    <2>3. \E n \in 0..Len(Plan) : call'.left = SubSeq(Plan, n + 1, Len(Plan))
      <3>1. PICK n \in 0..Len(Plan) : call.left = SubSeq(Plan, n + 1, Len(Plan))
        BY <1>1 DEF CallOK
      <3>2. Plan \in Seq(Sources) /\ Len(Plan) \in Nat
        BY PlanFacts, LenProperties
      <3>3. n # Len(Plan)
        <4>1. SubSeq(Plan, Len(Plan) + 1, Len(Plan)) = <<>>
          BY <3>2, SubSeqEmpty
        <4>2. QED
          BY <4>1, <3>1
      <3>4. n + 1 \in 1..Len(Plan) /\ Len(Plan) \in (n + 1)..Len(Plan)
        BY <3>2, <3>3
      <3>5. Tail(call.left) = SubSeq(Plan, (n + 1) + 1, Len(Plan))
        BY <3>1, <3>2, <3>4, HeadTailOfSubSeq
      <3>6. QED
        BY <3>4, <3>5, <1>4
    <2>4. QED
      BY <2>1, <2>2, <2>3, <1>4, <1>5 DEF CallOK
  <1>8. ASSUME NEW s \in Sources
        PROVE  ToAsk(call', s) \/ Settled(s, call'.parts[s], call'.now)
    <2>1. CASE s = Source
      BY <2>1, <1>3, <1>4
    <2>2. CASE s # Source
      <3>1. call'.parts[s] = call.parts[s]
        BY <2>2, <1>3, <1>4
      <3>2. ToAsk(call, s) \/ Settled(s, call.parts[s], call.now)
        BY DEF Inv, CallInv
      <3>3. ToAsk(call, s) => ToAsk(call', s)
        BY <2>2, <1>4, SourceIsNext DEF ToAsk
      <3>4. QED
        BY <3>1, <3>2, <3>3, <1>4
    <2>3. QED
      BY <2>1, <2>2
  <1>9. QED
    BY <1>6, <1>7, <1>8

(* An answer is taken, or the coin is not listed and the call is over. *)
LEMMA ReceiveKeeps ==
    ASSUME Inv, InCall, call.left # <<>>,
           NEW payload \in Payload, payload.shape \in Shapes(Source),
           NEW at \in Int, at + CacheTTL > call.now \/ at >= call.now,
           Receive(payload, at)
    PROVE  call' # None =>
              /\ call' \in Call
              /\ CallOK(call')
              /\ \A s \in Sources : ToAsk(call', s) \/ Settled(s, call'.parts[s], call'.now)
  BY AnswerSettled, AcceptKeeps DEF Receive

(* A step that leaves the clock, the venue, the calls and the snapshot alone keeps *)
(* the invariant if the call and the cache keep theirs. *)
LEMMA QuietStep ==
    ASSUME Inv, UNCHANGED <<clock, published, snapshot, calls>>,
           cache' \in [Repeated -> CacheEntry \cup {None}], CacheInv',
           call' # None =>
              /\ call' \in Call
              /\ CallOK(call')
              /\ \A s \in Sources : ToAsk(call', s) \/ Settled(s, call'.parts[s], call'.now)
    PROVE  Inv'
  <1>1. TypeOK'
    BY DEF Inv, TypeOK, CallOK
  <1>2. CallInv'
    BY DEF CallInv, InCall
  <1>3. QED
    BY <1>1, <1>2 DEF Inv

LEMMA BeginKeeps == ASSUME Inv, Begin PROVE Inv'
  <1>1. clock \in Nat /\ published \in Nat /\ clock <= MaxClock
    BY TimeFacts DEF Inv
  <1>2. /\ call'.now = clock /\ call'.left = Plan /\ call'.tries = 0
        /\ call'.readAt = clock /\ call'.parts = NoParts
    BY DEF Begin
  <1>3. NoParts \in [Sources -> Part \cup {None}]
    BY DEF NoParts
  <1>4. call' \in Call
    BY <1>1, <1>3, PlanFacts DEF Begin, Call
  <1>5. \E n \in 0..Len(Plan) : Plan = SubSeq(Plan, n + 1, Len(Plan))
    <2>1. Len(Plan) \in Nat /\ SubSeq(Plan, 1, Len(Plan)) = Plan
      BY PlanFacts, LenProperties, SubSeqFull
    <2>2. 0 \in 0..Len(Plan) /\ 0 + 1 = 1
      BY <2>1
    <2>3. QED
      BY <2>1, <2>2
  <1>6. CallOK(call')
    <2>1. call'.now \in 0..clock /\ call'.readAt \in call'.now..clock
      BY <1>1, <1>2
    <2>2. call'.tries \in 0..MaxRetries
      BY <1>2, ClientAssumption
    <2>3. QED
      BY <2>1, <2>2, <1>2, <1>3, <1>5 DEF CallOK
  <1>7. TypeOK'
    <2>1. calls' \in 0..MaxCalls
      BY ClientAssumption DEF Begin, Inv, TypeOK
    <2>2. QED
      BY <2>1, <1>6 DEF Begin, Inv, TypeOK, CallOK
  <1>8. CallInv'
    BY <1>2, <1>4, PlanFacts DEF CallInv, ToAsk
  <1>9. CacheInv'
    BY DEF CacheInv, Inv, Begin
  <1>10. QED
    BY <1>7, <1>8, <1>9 DEF Inv

LEMMA ReuseKeeps == ASSUME Inv, Reuse PROVE Inv'
  <1>. DEFINE entry == cache[Source]
  <1>1. /\ InCall /\ call.left # <<>>
        /\ Source \in Repeated /\ entry # None /\ clock < entry.expires
        /\ Receive(entry.payload, entry.expires - CacheTTL)
    BY DEF Reuse, Hit, Live
  <1>2. entry \in CacheEntry
    BY <1>1 DEF Inv, TypeOK
  <1>3. /\ entry.expires \in Nat /\ entry.payload \in Payload
        /\ entry.payload.shape \in Shapes(Source)
    BY <1>1, <1>2 DEF CacheEntry, Inv, CacheInv
  <1>4. call.now \in 0..clock /\ clock \in Nat /\ CacheTTL \in Nat
    BY <1>1, TimeFacts DEF Inv, TypeOK, CallOK, InCall
  <1>5. /\ entry.expires - CacheTTL \in Int
        /\ (entry.expires - CacheTTL) + CacheTTL > call.now
    BY <1>1, <1>3, <1>4
  <1>6. call' # None =>
              /\ call' \in Call
              /\ CallOK(call')
              /\ \A s \in Sources : ToAsk(call', s) \/ Settled(s, call'.parts[s], call'.now)
    BY <1>1, <1>3, <1>5, ReceiveKeeps
  <1>7. CacheInv' /\ cache' \in [Repeated -> CacheEntry \cup {None}]
    BY DEF Reuse, Inv, CacheInv, TypeOK
  <1>8. QED
    BY <1>6, <1>7, QuietStep DEF Reuse

LEMMA RequestKeeps == ASSUME Inv, Request PROVE Inv'
  <1>1. /\ call \in Call /\ CallOK(call) /\ InCall /\ 1 \in 0..MaxRetries
        /\ cache \in [Repeated -> CacheEntry \cup {None}]
    BY ClientAssumption DEF Inv, CallInv, TypeOK, Request, InCall
  <1>2. /\ call'.now = call.now /\ call'.left = call.left /\ call'.tries = 1
        /\ call'.readAt = call.readAt /\ call'.parts = call.parts
        /\ call' \in Call
    BY <1>1 DEF Request, Call
  <1>3. CallOK(call')
    BY <1>1, <1>2 DEF CallOK
  <1>4. \A s \in Sources : ToAsk(call', s) \/ Settled(s, call'.parts[s], call'.now)
    BY <1>1, <1>2 DEF Inv, CallInv, ToAsk
  <1>5. /\ cache' \in [Repeated -> CacheEntry \cup {None}]
        /\ \A s \in Repeated : cache'[s] # None => cache'[s] = cache[s]
    BY <1>1 DEF Request, Stored
  <1>6. CacheInv'
    BY <1>5 DEF CacheInv, Inv, Request
  <1>7. QED
    BY <1>2, <1>3, <1>4, <1>5, <1>6, QuietStep DEF Request

LEMMA RespondKeeps == ASSUME Inv, Respond PROVE Inv'
  <1>1. PICK shape \in Shapes(Source) :
          LET payload == [shape |-> shape, seen |-> Seen(Source, shape)]
              entry   == [expires |-> clock + CacheTTL, payload |-> payload]
          IN  /\ cache' = Stored(Source, IF shape = "null" THEN None ELSE entry)
              /\ Receive(payload, clock)
    BY DEF Respond
  <1>. DEFINE payload == [shape |-> shape, seen |-> Seen(Source, shape)]
              entry == [expires |-> clock + CacheTTL, payload |-> payload]
              kept == IF shape = "null" THEN None ELSE entry
  <1>2. cache' = Stored(Source, kept) /\ Receive(payload, clock)
    BY <1>1
  <1>3. /\ InCall /\ call.left # <<>>
        /\ cache \in [Repeated -> CacheEntry \cup {None}] /\ CallOK(call)
        /\ clock \in Nat /\ published \in 0..MaxClock /\ CacheTTL \in Nat
    BY TimeFacts, ClientAssumption DEF Respond, Inv, TypeOK, InCall
  <1>4. Source \in Sources
    BY <1>3, SourceIsNext
  <1>5. Shapes(Source) \subseteq AllShapes
    BY <1>4, SourceFacts DEF Sources, Shapes, AllShapes
  <1>6. payload \in Payload /\ payload.shape = shape
    <2>1. call.now \in 0..clock /\ clock <= MaxClock /\ MaxClock \in Nat
      BY <1>3, TimeFacts, ClientAssumption DEF CallOK, Inv
    <2>2. Seen(Source, shape) \in 0..MaxClock
      BY <2>1, <1>3 DEF Seen
    <2>3. QED
      BY <2>2, <1>5 DEF Payload
  <1>7. entry \in CacheEntry /\ entry.expires = clock + CacheTTL /\ entry.payload = payload
    BY <1>3, <1>6 DEF CacheEntry
  <1>8. call.now \in 0..clock
    BY <1>3 DEF CallOK
  <1>. HIDE DEF payload, entry, kept
  <1>9. call' # None =>
              /\ call' \in Call
              /\ CallOK(call')
              /\ \A s \in Sources : ToAsk(call', s) \/ Settled(s, call'.parts[s], call'.now)
    <2>1. clock \in Int /\ clock >= call.now
      BY <1>3, <1>8
    <2>2. QED
      BY <1>2, <1>3, <1>6, <2>1, ReceiveKeeps
  <1>10. cache' \in [Repeated -> CacheEntry \cup {None}]
    <2>1. kept \in CacheEntry \cup {None}
      BY <1>7 DEF kept
    <2>2. QED
      BY <2>1, <1>2, <1>3 DEF Stored
  <1>11. CacheInv'
    <2>1. ASSUME NEW s \in Repeated, cache'[s] # None
          PROVE  /\ cache'[s].payload.shape \in Shapes(s)
                 /\ cache'[s].expires <= clock + CacheTTL
      <3>1. CASE s = Source
        <4>1. cache'[s] = kept
          BY <3>1, <1>2, <1>3 DEF Stored
        <4>2. cache'[s] = entry
          BY <4>1, <2>1 DEF kept
        <4>3. QED
          BY <4>2, <3>1, <1>3, <1>6, <1>7
      <3>2. CASE s # Source
        <4>1. cache'[s] = cache[s]
          BY <3>2, <1>2, <1>3 DEF Stored
        <4>2. QED
          BY <4>1, <2>1 DEF Inv, CacheInv
      <3>3. QED
        BY <3>1, <3>2
    <2>2. QED
      BY <2>1 DEF CacheInv, Respond
  <1>12. QED
    BY <1>9, <1>10, <1>11, QuietStep DEF Respond

LEMMA RetryKeeps == ASSUME Inv, Retry PROVE Inv'
  <1>1. /\ call \in Call /\ CallOK(call) /\ InCall
        /\ cache \in [Repeated -> CacheEntry \cup {None}]
    BY DEF Inv, CallInv, TypeOK, Retry, InCall
  <1>2. call.tries \in Nat /\ call.tries + 1 \in 0..MaxRetries
    BY <1>1, ClientAssumption DEF Retry, CallOK
  <1>3. /\ call'.now = call.now /\ call'.left = call.left /\ call'.tries = call.tries + 1
        /\ call'.readAt = call.readAt /\ call'.parts = call.parts
        /\ call' \in Call
    BY <1>1, <1>2 DEF Retry, Call
  <1>4. CallOK(call')
    BY <1>1, <1>2, <1>3 DEF CallOK
  <1>5. \A s \in Sources : ToAsk(call', s) \/ Settled(s, call'.parts[s], call'.now)
    BY <1>1, <1>3 DEF Inv, CallInv, ToAsk
  <1>6. CacheInv'
    BY DEF CacheInv, Inv, Retry
  <1>7. QED
    BY <1>1, <1>3, <1>4, <1>5, <1>6, QuietStep DEF Retry

LEMMA GiveUpKeeps == ASSUME Inv, GiveUp PROVE Inv'
  <1>1. CacheInv' /\ cache' \in [Repeated -> CacheEntry \cup {None}]
    BY DEF GiveUp, Inv, CacheInv, TypeOK
  <1>2. InCall /\ call.left # <<>> /\ Accept(Failure)
    BY DEF GiveUp
  <1>3. QED
    BY <1>1, <1>2, FailureSettled, AcceptKeeps, QuietStep DEF GiveUp

LEMMA ReturnSettles ==
    ASSUME Inv, Return
    PROVE  /\ call \in Call /\ CallOK(call)
           /\ \A s \in Sources : Settled(s, call.parts[s], call.now)
           /\ call.parts \in [Sources -> Part]
           /\ snapshot'.parts = call.parts /\ snapshot'.now = call.now
           /\ snapshot'.stale = IsStale(call)
  <1>1. InCall /\ call.left = <<>>
    BY DEF Return
  <1>2. call \in Call /\ CallOK(call)
    BY <1>1 DEF Inv, CallInv, TypeOK, InCall
  <1>3. Len(call.left) = 0
    BY <1>1
  <1>4. \A s \in Sources : ~ToAsk(call, s)
    BY <1>3 DEF ToAsk
  <1>5. \A s \in Sources : Settled(s, call.parts[s], call.now)
    BY <1>1, <1>4 DEF Inv, CallInv
  <1>6. call.parts \in [Sources -> Part]
    BY <1>2, <1>5 DEF Call, Settled
  <1>7. QED
    BY <1>2, <1>5, <1>6 DEF Return, Assembled

LEMMA ReturnKeeps == ASSUME Inv, Return PROVE Inv'
  <1>1. TypeOK'
    BY ReturnSettles DEF Return, Inv, TypeOK
  <1>2. CallInv' /\ CacheInv'
    BY DEF Return, Inv, CallInv, CacheInv, InCall
  <1>3. QED
    BY <1>1, <1>2 DEF Inv

LEMMA TimeKeeps ==
    ASSUME Inv, Tick \/ Publish \/ UNCHANGED vars
    PROVE  Inv'
  <1>. USE TimeFacts
  <1>1. /\ clock' \in Nat /\ clock' >= clock /\ clock' <= MaxClock
        /\ published' \in 0..clock'
        /\ UNCHANGED <<cache, call, snapshot, calls>>
    <2>1. clock \in Nat /\ published \in Nat /\ published <= clock /\ clock <= MaxClock
      BY DEF Inv
    <2>2. MaxClock \in Nat
      BY ClientAssumption
    <2>3. CASE Tick
      BY <2>1, <2>2, <2>3 DEF Tick
    <2>4. CASE Publish
      BY <2>1, <2>2, <2>4 DEF Publish
    <2>5. CASE UNCHANGED vars
      BY <2>1, <2>2, <2>5 DEF vars
    <2>6. QED
      BY <2>3, <2>4, <2>5
  <1>2. clock \in Nat /\ CacheTTL \in Nat
    BY DEF Inv
  <1>3. TypeOK'
    <2>1. ASSUME call # None
          PROVE  /\ call.now \in 0..clock' /\ call.readAt \in call.now..clock'
                 /\ call.tries \in 0..MaxRetries
                 /\ \E n \in 0..Len(Plan) : call.left = SubSeq(Plan, n + 1, Len(Plan))
                 /\ call.parts \in [Sources -> Part \cup {None}]
      <3>1. CallOK(call)
        BY <2>1 DEF Inv, TypeOK
      <3>2. call.now \in 0..clock' /\ call.readAt \in call.now..clock'
        BY <3>1, <1>1, <1>2 DEF CallOK
      <3>3. QED
        BY <3>1, <3>2 DEF CallOK
    <2>2. call' # None => CallOK(call)'
      BY <2>1, <1>1 DEF CallOK
    <2>3. QED
      BY <2>2, <1>1 DEF Inv, TypeOK
  <1>4. CallInv'
    BY <1>1 DEF Inv, CallInv, InCall, ToAsk
  <1>5. CacheInv'
    <2>1. ASSUME NEW s \in Repeated, cache[s] # None
          PROVE  /\ cache[s].payload.shape \in Shapes(s)
                 /\ cache[s].expires <= clock' + CacheTTL
      <3>1. cache[s].expires \in Nat
        BY <2>1 DEF Inv, TypeOK, CacheEntry
      <3>2. cache[s].payload.shape \in Shapes(s) /\ cache[s].expires <= clock + CacheTTL
        BY <2>1 DEF Inv, CacheInv
      <3>3. QED
        BY <3>1, <3>2, <1>1, <1>2
    <2>2. QED
      BY <2>1, <1>1 DEF CacheInv
  <1>6. QED
    BY <1>3, <1>4, <1>5 DEF Inv

LEMMA StepInv == ASSUME Inv, [Next]_vars PROVE Inv'
  BY BeginKeeps, ReuseKeeps, RequestKeeps, RespondKeeps, RetryKeeps, GiveUpKeeps,
     ReturnKeeps, TimeKeeps DEF Next, Step

-----------------------------------------------------------------------------
(* No part of a snapshot is older than the cache allows.                   *)

(* No snapshot, a new one, or the one there was. *)
LEMMA SnapshotSteps ==
    ASSUME [Next]_vars
    PROVE  Return \/ snapshot' = None \/ snapshot' = snapshot
  BY DEF Next, Step, vars, Begin, Reuse, Request, Respond, Retry, GiveUp, Tick, Publish

(* A snapshot is made of parts that are settled, and stays as it is. *)
LEMMA FreshKept == ASSUME Inv, PartsWithinTTL, [Next]_vars PROVE PartsWithinTTL'
  <1>1. CASE Return
    BY <1>1, ReturnSettles DEF PartsWithinTTL, Settled
  <1>2. CASE snapshot' = None \/ snapshot' = snapshot
    BY <1>2 DEF PartsWithinTTL
  <1>3. QED
    BY <1>1, <1>2, SnapshotSteps

-----------------------------------------------------------------------------
(* The verdict on the age of a snapshot.                                   *)

LEMMA LastOfBounded ==
    ASSUME NEW s \in Intervals \cup {"funding_history"}, NEW seen \in Nat
    PROVE  LastOf(s, seen) \in Int /\ LastOf(s, seen) <= seen
  <1>1. Period[s] \in Nat \ {0}
    BY ClientAssumption
  <1>2. seen % Period[s] \in Nat
    BY <1>1
  <1>3. QED
    BY <1>2 DEF LastOf

(* What the code makes of the forms an answer can take. *)
LEMMA SettledShape ==
    ASSUME NEW s, NEW part, NEW now, Settled(s, part, now)
    PROVE  /\ s = "asset_ctx" => part.shape \in {"good", "rateless", "failed"}
           /\ s \in Intervals \cup {"funding_history"} => part.shape # "rateless"
  <1>1. part.shape \in (Shapes(s) \ ({"unlisted"} \cup BadShapes)) \cup {"failed"}
    BY DEF Settled
  <1>2. CASE s = "asset_ctx"
    <2>1. Shapes(s) = BadShapes \cup ContextShapes
      BY <1>2, SourceFacts DEF Shapes
    <2>2. part.shape \in {"good", "rateless", "failed"}
      BY <1>1, <2>1 DEF ContextShapes
    <2>3. QED
      BY <2>2, <1>2, SourceFacts
  <1>3. CASE s \in Intervals \cup {"funding_history"}
    <2>1. s # "asset_ctx" /\ s # "l2_book"
      BY <1>3, SourceFacts
    <2>2. Shapes(s) \in {BadShapes \cup FundingShapes, BadShapes \cup CandleShapes}
      BY <1>3, <2>1, SourceFacts DEF Shapes
    <2>3. part.shape # "rateless"
      BY <1>1, <2>2 DEF FundingShapes, CandleShapes
    <2>4. QED
      BY <2>1, <2>3
  <1>4. QED
    BY <1>2, <1>3

(* What is stamped is what the venue dated and what passes for new; the first carries *)
(* the time of the venue, the second that of the snapshot or a later one. *)
LEMMA StampFacts ==
    ASSUME NEW c \in Call, c.now <= MaxClock, c.readAt >= c.now, c.readAt <= MaxClock,
           c.parts \in [Sources -> Part],
           \A s \in Sources : Settled(s, c.parts[s], c.now)
    PROVE  /\ Stamped(c.parts) = Dated(c.parts) \cup PassForNew(c.parts)
           /\ \A s \in Stamped(c.parts) :
                 LET stamp == Stamp(s, c.parts[s], c.now, c.readAt) IN
                 /\ stamp \in Int /\ stamp <= MaxClock
                 /\ s \in Dated(c.parts) => stamp = VenueTime(s, c.parts[s])
                 /\ s \in PassForNew(c.parts) => stamp >= c.now
  <1>1. c.now \in Nat /\ c.readAt \in Nat /\ MaxClock \in Nat
    BY ClientAssumption DEF Call
  <1>2. ASSUME NEW s \in Sources
        PROVE  /\ s \in Stamped(c.parts) <=> s \in Dated(c.parts) \cup PassForNew(c.parts)
               /\ s \in Stamped(c.parts) =>
                    LET stamp == Stamp(s, c.parts[s], c.now, c.readAt) IN
                    /\ stamp \in Int /\ stamp <= MaxClock
                    /\ s \in Dated(c.parts) => stamp = VenueTime(s, c.parts[s])
                    /\ s \in PassForNew(c.parts) => stamp >= c.now
    <2>. DEFINE part == c.parts[s]
                stamp == Stamp(s, part, c.now, c.readAt)
    <2>1. Settled(s, part, c.now) /\ part.seen \in 0..MaxClock
      BY DEF Part
    <2>2. CASE s = "asset_ctx"
      <3>1. stamp = c.readAt /\ s \notin Dated(c.parts)
        BY <2>2 DEF Stamp, Dated, TellsTime
      <3>2. s \in PassForNew(c.parts) <=> part.shape # "failed"
        BY <2>2, <3>1 DEF PassForNew
      <3>3. s \in Stamped(c.parts) <=> part.shape \in {"good", "rateless"}
        BY <2>2 DEF Stamped
      <3>4. part.shape \in {"good", "rateless", "failed"}
        BY <2>1, <2>2, SettledShape
      <3>5. QED
        BY <3>1, <3>2, <3>3, <3>4, <1>1
    <2>3. CASE s = "l2_book"
      <3>1. s \in Stamped(c.parts) <=> part.shape # "failed"
        BY <2>3 DEF Stamped
      <3>2. s \in Dated(c.parts) <=> part.shape \in {"good", "empty"}
        BY <2>3 DEF Dated, TellsTime
      <3>3. s \in PassForNew(c.parts) <=> part.shape # "failed" /\ s \notin Dated(c.parts)
        BY <2>3 DEF PassForNew
      <3>4. stamp = IF s \in Dated(c.parts) THEN part.seen ELSE c.now
        BY <2>3 DEF Stamp, Dated
      <3>5. VenueTime(s, part) = part.seen
        BY <2>3 DEF VenueTime
      <3>6. QED
        BY <3>1, <3>2, <3>3, <3>4, <3>5, <2>1, <1>1
    <2>4. CASE s \in Intervals \cup {"funding_history"}
      <3>1. s # "asset_ctx" /\ s # "l2_book"
        BY <2>4, SourceFacts
      <3>2. s \notin PassForNew(c.parts)
        BY <3>1 DEF PassForNew
      <3>3. s \in Dated(c.parts) <=> part.shape = "good"
        BY <3>1 DEF Dated, TellsTime
      <3>4. s \in Stamped(c.parts) <=> part.shape \in {"good", "rateless"}
        BY <3>1 DEF Stamped
      <3>5. part.shape # "rateless"
        BY <2>1, <2>4, <3>1, SettledShape
      <3>6. stamp = LastOf(s, part.seen) /\ VenueTime(s, part) = LastOf(s, part.seen)
        BY <3>1 DEF Stamp, VenueTime
      <3>7. part.seen \in Nat /\ part.seen <= MaxClock
        BY <2>1, <1>1
      <3>8. LastOf(s, part.seen) \in Int /\ LastOf(s, part.seen) <= part.seen
        BY <2>4, <3>7, LastOfBounded
      <3>9. QED
        BY <3>2, <3>3, <3>4, <3>5, <3>6, <3>7, <3>8, <1>1
    <2>5. QED
      BY <2>2, <2>3, <2>4 DEF Sources
  <1>3. /\ Stamped(c.parts) \subseteq Sources /\ Dated(c.parts) \subseteq Sources
        /\ PassForNew(c.parts) \subseteq Sources
    BY DEF Stamped, Dated, PassForNew, Sources
  <1>4. QED
    BY <1>2, <1>3

(* The age is that of the freshest stamp. *)
LEMMA AgeFacts ==
    ASSUME NEW c, c.now \in Int, Stamps(c) \subseteq Int, \A t \in Stamps(c) : t <= MaxClock
    PROVE  /\ Stamps(c) = {} => ~IsStale(c)
           /\ Stamps(c) # {} => (IsStale(c) <=> \A t \in Stamps(c) : c.now - t > MaxDataAge)
  <1>1. MaxDataAge \in Nat /\ MaxClock \in Int
    BY ClientAssumption
  <1>2. ASSUME Stamps(c) = {} PROVE ~IsStale(c)
    BY <1>1, <1>2 DEF IsStale, Age
  <1>3. ASSUME Stamps(c) # {}
        PROVE  IsStale(c) <=> \A t \in Stamps(c) : c.now - t > MaxDataAge
    <2>. DEFINE m == CHOOSE t \in Stamps(c) : \A u \in Stamps(c) : t >= u
    <2>1. \E t \in Stamps(c) : \A u \in Stamps(c) : t >= u
      BY <1>1, <1>3, Greatest
    <2>2. m \in Stamps(c) /\ \A u \in Stamps(c) : m >= u
      BY <2>1
    <2>3. Age(c) = c.now - m
      BY <1>3 DEF Age
    <2>. HIDE DEF m
    <2>4. IsStale(c) <=> c.now - m > MaxDataAge
      BY <2>3 DEF IsStale
    <2>5. c.now - m > MaxDataAge <=> \A t \in Stamps(c) : c.now - t > MaxDataAge
      BY <2>2, <1>1
    <2>6. QED
      BY <2>4, <2>5
  <1>4. QED
    BY <1>2, <1>3

LEMMA StaleAsStated ==
    ASSUME NEW c \in Call, c.now <= MaxClock, c.readAt >= c.now, c.readAt <= MaxClock,
           c.parts \in [Sources -> Part],
           \A s \in Sources : Settled(s, c.parts[s], c.now)
    PROVE  IsStale(c) <=>
              /\ Dated(c.parts) # {}
              /\ PassForNew(c.parts) = {}
              /\ \A s \in Dated(c.parts) : c.now - VenueTime(s, c.parts[s]) > MaxDataAge
  <1>. DEFINE A == Stamped(c.parts)
              D == Dated(c.parts)
              N == PassForNew(c.parts)
              St(s) == Stamp(s, c.parts[s], c.now, c.readAt)
  <1>1. /\ A = D \cup N
        /\ \A s \in A : /\ St(s) \in Int /\ St(s) <= MaxClock
                        /\ s \in D => St(s) = VenueTime(s, c.parts[s])
                        /\ s \in N => St(s) >= c.now
    BY StampFacts
  <1>2. c.now \in Int /\ MaxDataAge \in Nat
    BY ClientAssumption DEF Call
  <1>3. Stamps(c) = {St(s) : s \in A}
    BY DEF Stamps
  <1>. HIDE DEF A, D, N, St
  <1>4. Stamps(c) \subseteq Int /\ \A t \in Stamps(c) : t <= MaxClock
    BY <1>1, <1>3
  <1>5. CASE A = {}
    <2>1. ~IsStale(c)
      BY <1>2, <1>3, <1>4, <1>5, AgeFacts
    <2>2. QED
      BY <2>1, <1>1, <1>5 DEF D
  <1>6. CASE A # {}
    <2>1. IsStale(c) <=> \A t \in Stamps(c) : c.now - t > MaxDataAge
      BY <1>2, <1>3, <1>4, <1>6, AgeFacts
    <2>2. (\A t \in Stamps(c) : c.now - t > MaxDataAge) <=> \A s \in A : c.now - St(s) > MaxDataAge
      BY <1>3
    <2>3. ASSUME \A s \in A : c.now - St(s) > MaxDataAge
          PROVE  /\ D # {} /\ N = {}
                 /\ \A s \in D : c.now - VenueTime(s, c.parts[s]) > MaxDataAge
      <3>1. \A s \in A : s \notin N
        BY <2>3, <1>1, <1>2
      <3>2. QED
        BY <3>1, <2>3, <1>1, <1>6
    <2>4. ASSUME N = {}, \A s \in D : c.now - VenueTime(s, c.parts[s]) > MaxDataAge
          PROVE  \A s \in A : c.now - St(s) > MaxDataAge
      BY <2>4, <1>1
    <2>5. QED
      BY <2>1, <2>2, <2>3, <2>4 DEF D, N
  <1>7. QED
    BY <1>5, <1>6

(* The verdict is given when the call returns. *)
LEMMA VerdictKept == ASSUME Inv, StaleVerdict, [Next]_vars PROVE StaleVerdict'
  <1>1. CASE Return
    <2>1. /\ call \in Call /\ CallOK(call) /\ call.parts \in [Sources -> Part]
          /\ \A s \in Sources : Settled(s, call.parts[s], call.now)
          /\ snapshot'.parts = call.parts /\ snapshot'.now = call.now
          /\ snapshot'.stale = IsStale(call)
      BY <1>1, ReturnSettles
    <2>2. call.now <= MaxClock /\ call.readAt >= call.now /\ call.readAt <= MaxClock
      <3>1. clock \in Nat /\ clock <= MaxClock /\ MaxClock \in Nat
        BY TimeFacts, ClientAssumption DEF Inv
      <3>2. call.now \in 0..clock /\ call.readAt \in call.now..clock
        BY <2>1 DEF CallOK
      <3>3. QED
        BY <3>1, <3>2
    <2>3. IsStale(call) <=>
            /\ Dated(call.parts) # {}
            /\ PassForNew(call.parts) = {}
            /\ \A s \in Dated(call.parts) : call.now - VenueTime(s, call.parts[s]) > MaxDataAge
      BY <2>1, <2>2, StaleAsStated
    <2>4. QED
      BY <2>1, <2>3 DEF StaleVerdict
  <1>2. CASE snapshot' = None \/ snapshot' = snapshot
    BY <1>2 DEF StaleVerdict
  <1>3. QED
    BY <1>1, <1>2, SnapshotSteps

-----------------------------------------------------------------------------
(* A call runs out of steps.                                               *)

\* The steps that n sources take, at most: their attempts and what comes of them.
AttemptsAt(n) == n * (MaxRetries + 1)

\* The steps a call has left, at most: those of the sources still to be asked, the
\* attempts left at the present one, and the return.
ClientLeft ==
    IF InCall
    THEN AttemptsAt(Len(call.left)) + (MaxRetries - call.tries) + 1
    ELSE 0

\* A call that goes on has steps left.  Its own use them up, time does not change them,
\* and how many it starts with is given by the plan.
ClientRunsOut ==
    /\ InCall => ClientLeft \in Nat \ {0}
    /\ Step => InCall /\ ClientLeft' < ClientLeft
    /\ InCall /\ ~Step => ClientLeft' = ClientLeft
    /\ Begin => ClientLeft' <= AttemptsAt(Len(Plan) + 1)

LEMMA AttemptFacts ==
    ASSUME NEW n \in Nat
    PROVE  /\ AttemptsAt(n) \in Nat
           /\ AttemptsAt(n + 1) = AttemptsAt(n) + MaxRetries + 1
  <1>1. MaxRetries + 1 \in Nat
    BY ClientAssumption
  <1>2. ASSUME NEW m \in Nat
        PROVE  n * m \in Nat /\ (n + 1) * m = n * m + m
    OBVIOUS
  <1>3. QED
    BY <1>1, <1>2, ClientAssumption DEF AttemptsAt

LEMMA ClientLeftFacts ==
    ASSUME Inv, InCall
    PROVE  /\ Len(call.left) \in Nat /\ AttemptsAt(Len(call.left)) \in Nat
           /\ call.tries \in 0..MaxRetries
           /\ ClientLeft = AttemptsAt(Len(call.left)) + (MaxRetries - call.tries) + 1
           /\ ClientLeft \in Nat \ {0}
           /\ MaxRetries \in Nat
  <1>1. Len(call.left) \in Nat /\ call.tries \in 0..MaxRetries
    BY LenProperties DEF Inv, CallInv, Call, TypeOK, InCall, CallOK
  <1>2. AttemptsAt(Len(call.left)) \in Nat
    BY <1>1, AttemptFacts
  <1>3. ClientLeft = AttemptsAt(Len(call.left)) + (MaxRetries - call.tries) + 1
    BY DEF ClientLeft
  <1>4. QED
    BY <1>1, <1>2, <1>3, ClientAssumption

(* A source that is done, however it went, takes its attempts with it. *)
LEMMA AcceptRunsOut ==
    ASSUME Inv, InCall, call.left # <<>>, NEW part, call' = None \/ Accept(part)
    PROVE  ClientLeft' < ClientLeft
  <1>1. Len(call.left) \in Nat /\ Len(Tail(call.left)) = Len(call.left) - 1
        /\ Len(Tail(call.left)) \in Nat
    BY HeadTailProperties, LenProperties DEF Inv, CallInv, Call
  <1>2. CASE call' = None
    BY <1>2, ClientLeftFacts DEF ClientLeft, InCall
  <1>3. CASE Accept(part)
    <2>. DEFINE k == Len(Tail(call.left))
    <2>1. call'.left = Tail(call.left) /\ call'.tries = 0
      BY <1>3 DEF Accept
    <2>2. ClientLeft' \in {0, AttemptsAt(k) + (MaxRetries - 0) + 1}
      BY <2>1 DEF ClientLeft
    <2>3. Len(call.left) = k + 1 /\ k \in Nat
      BY <1>1
    <2>. HIDE DEF k
    <2>4. /\ AttemptsAt(k) \in Nat
          /\ AttemptsAt(Len(call.left)) = AttemptsAt(k) + MaxRetries + 1
      BY <2>3, AttemptFacts
    <2>5. QED
      BY <2>2, <2>4, ClientLeftFacts
  <1>4. QED
    BY <1>2, <1>3

LEMMA TryRunsOut ==
    ASSUME Inv, InCall, Request \/ Retry
    PROVE  ClientLeft' < ClientLeft
  <1>1. call' = [call EXCEPT !.tries = call.tries + 1]
    BY DEF Request, Retry
  <1>2. call'.left = call.left /\ call'.tries = call.tries + 1
    BY <1>1 DEF Inv, CallInv, Call
  <1>3. ClientLeft' \in {0, AttemptsAt(Len(call.left)) + (MaxRetries - (call.tries + 1)) + 1}
    BY <1>2 DEF ClientLeft
  <1>4. QED
    BY <1>3, ClientLeftFacts

LEMMA StepRunsOutOfTries ==
    ASSUME Inv, Next
    PROVE  ClientRunsOut
  <1>1. InCall => ClientLeft \in Nat \ {0}
    BY ClientLeftFacts
  <1>2. ASSUME Step PROVE InCall /\ ClientLeft' < ClientLeft
    <2>1. InCall
      BY <1>2 DEF Step, Reuse, Request, Respond, Retry, GiveUp, Return
    <2>2. CASE Reuse \/ Respond \/ GiveUp
      <3>1. call.left # <<>> /\ (call' = None \/ \E part : Accept(part))
        BY <2>2 DEF Reuse, Respond, GiveUp, Receive
      <3>2. QED
        BY <2>1, <3>1, AcceptRunsOut
    <2>3. CASE Request \/ Retry
      BY <2>1, <2>3, TryRunsOut
    <2>4. CASE Return
      BY <2>1, <2>4, ClientLeftFacts DEF Return, ClientLeft, InCall
    <2>5. QED
      BY <1>2, <2>1, <2>2, <2>3, <2>4 DEF Step
  <1>3. ASSUME InCall, ~Step PROVE ClientLeft' = ClientLeft
    BY <1>3 DEF Next, Begin, Tick, Publish, ClientLeft, InCall
  <1>4. ASSUME Begin PROVE ClientLeft' <= AttemptsAt(Len(Plan) + 1)
    <2>1. call'.left = Plan /\ call'.tries = 0
      BY <1>4 DEF Begin
    <2>2. ClientLeft' \in {0, AttemptsAt(Len(Plan)) + (MaxRetries - 0) + 1}
      BY <2>1 DEF ClientLeft
    <2>3. Len(Plan) \in Nat
      BY PlanFacts, LenProperties
    <2>4. /\ AttemptsAt(Len(Plan)) \in Nat
          /\ AttemptsAt(Len(Plan) + 1) = AttemptsAt(Len(Plan)) + MaxRetries + 1
      BY <2>3, AttemptFacts
    <2>5. QED
      BY <2>2, <2>4, ClientAssumption
  <1>5. QED
    BY <1>1, <1>2, <1>3, <1>4 DEF ClientRunsOut

-----------------------------------------------------------------------------
(* The client by itself.                                                   *)

ClientInv == Inv /\ PartsWithinTTL /\ StaleVerdict

LEMMA ClientInvHolds == Init /\ [][Next]_vars => []ClientInv
  <1>1. Init => ClientInv
    BY InitInv DEF Init, ClientInv, PartsWithinTTL, StaleVerdict
  <1>2. ClientInv /\ [Next]_vars => ClientInv'
    BY StepInv, FreshKept, VerdictKept DEF ClientInv
  <1>3. QED
    BY <1>1, <1>2, PTL

(* The clock, the cache, the call and the snapshot are what they should be, for *)
(* any sources and limits (get_market_snapshot, _post). *)
THEOREM TypeCorrect == Spec => []TypeOK
  <1>1. ClientInv => TypeOK
    BY DEF ClientInv, Inv
  <1>2. QED
    BY <1>1, ClientInvHolds, PTL DEF Spec

(* Whatever a snapshot says of a source rests on what the venue said less than the *)
(* lifetime of a cache entry before the snapshot (_TTLCache.get, _post). *)
THEOREM PartsAreFresh == Spec => []PartsWithinTTL
  <1>1. ClientInv => PartsWithinTTL
    BY DEF ClientInv
  <1>2. QED
    BY <1>1, ClientInvHolds, PTL DEF Spec

(* A snapshot is called stale exactly when the venue dated some part of it, every part *)
(* it dated is too old, and no context or book without a date passes for new, whatever *)
(* the forms of the answers (hyperliquid.py:649-652, max over source_timestamps). *)
THEOREM VerdictOnAge == Spec => []StaleVerdict
  <1>1. ClientInv => StaleVerdict
    BY DEF ClientInv
  <1>2. QED
    BY <1>1, ClientInvHolds, PTL DEF Spec

-----------------------------------------------------------------------------
(* Both paths.                                                             *)

(* A step of the program is a step of one path and none of the other. *)
LEMMA PathsApart ==
    /\ [DataNext]_allVars => [Next]_vars
    /\ [DataNext]_allVars => [StockNext]_stockVars
  BY DEF DataNext, allVars

LEMMA PathsByThemselves ==
    /\ DataSpec => Init /\ [][Next]_vars
    /\ DataSpec => StockSpec
  <1>1. DataInit => Init /\ StockInit
    BY DEF DataInit
  <1>2. QED
    BY <1>1, PathsApart, PTL DEF DataSpec, StockSpec

LEMMA PathsHold == DataSpec => []ClientInv /\ []StockInv /\ []VerdictInv
  BY PathsByThemselves, ClientInvHolds, StockInvHolds, VerdictInvHolds, PTL

(* Whatever a path does leaves its own state and that of the other what it should be, *)
(* for any sources, limits, threads, methods and configurations. *)
THEOREM DataTyped == DataSpec => []DataTypeOK
  <1>1. ClientInv => TypeOK
    BY DEF ClientInv, Inv
  <1>2. StockInv /\ VerdictInv => StockTypeOK
    BY InvTypes
  <1>3. ClientInv /\ StockInv /\ VerdictInv => DataTypeOK
    BY <1>1, <1>2 DEF DataTypeOK
  <1>4. QED
    BY <1>3, PathsHold, PTL

(* What each path promises by itself it keeps in a run that takes both: snapshots of *)
(* fresh parts and what is said of their age, frames that fit, files that only a crash *)
(* spoils, and verdicts that are warranted (setup.py, catalyst_analyst.py). *)
THEOREM PathsKeepTheirPromises ==
    DataSpec => /\ []PartsWithinTTL /\ []StaleVerdict
                /\ []ServedFits /\ []PoisonOnlyByCrash /\ []VerdictIsWarranted
  <1>1. ClientInv => PartsWithinTTL /\ StaleVerdict
    BY DEF ClientInv
  <1>2. QED
    BY <1>1, PathsByThemselves, ClientInvHolds, FramesFit, OnlyCrashesPoison,
       VerdictsAreWarranted, PTL

-----------------------------------------------------------------------------
(* No call goes on for ever by itself.                                     *)

(* A snapshot of n sources is finished, or fails, after at most (n + 1) (attempts + 1) *)
(* steps of its thread, however often the venue does not answer and whatever the cache *)
(* holds (_post, get_market_snapshot). *)
THEOREM SnapshotsRunOut == Spec => [][ClientRunsOut]_vars
  <1>1. ClientInv /\ [Next]_vars => [ClientRunsOut]_vars
    BY StepRunsOutOfTries DEF ClientInv
  <1>2. QED
    BY <1>1, ClientInvHolds, PTL DEF Spec

(* The same of a program that has both paths: a step begins a call, uses up one of the *)
(* steps that a call has left, or leaves what calls have left as it was, or ended. *)
THEOREM CallsRunOut ==
    DataSpec => /\ [][ClientRunsOut]_vars
                /\ [][\A t \in Threads : RunsOut(t)]_stockVars
  <1>1. ClientInv /\ [DataNext]_allVars => [ClientRunsOut]_vars
    BY PathsApart, StepRunsOutOfTries DEF ClientInv
  <1>2. StockInv /\ VerdictInv /\ [DataNext]_allVars
           => [\A t \in Threads : RunsOut(t)]_stockVars
    BY PathsApart, StepRunsOut
  <1>3. QED
    BY <1>1, <1>2, PathsHold, PTL DEF DataSpec
=============================================================================
