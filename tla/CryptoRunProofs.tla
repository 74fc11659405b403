-------------------------- MODULE CryptoRunProofs --------------------------
(***************************************************************************)
(* Proofs about CryptoRun, for any tickers, dates, profiles and requests,  *)
(* and for any number of runs that fail, crash and are repeated.           *)
(*                                                                         *)
(* What a run reads was written by an earlier run or by itself.  The       *)
(* invariants say which, for each place in the run: SnapshotInv for the    *)
(* store of the process, ProfileInv for its configuration, ThreadInv for   *)
(* the checkpoints.                                                        *)
(***************************************************************************)
EXTENDS CryptoRun, SequenceTheorems, TLAPS

Asked == pc # "idle"
AfterInvoke == {"SnapshotBuilder", "Analysts", "Trader", "RiskGate", "paper", "gate_done",
                "store", "clear"}
AfterBuild == AfterInvoke \ {"SnapshotBuilder"}
AfterGate == {"paper", "gate_done", "store", "clear"}

\* From the builder on, the store and the channel hold the same snapshot or neither does.
SnapshotInv ==
    /\ pc \in AfterBuild =>
         \/ store = None /\ state.snapshot = FailedFetch
         \/ store \in Snapshots /\ state.snapshot = store
    /\ Asked /\ pc \notin AfterGate => judged = None
    /\ pc \in AfterGate =>
         /\ judged \in Judgement
         /\ judged.snapshot = IF state.snapshot = FailedFetch THEN None ELSE state.snapshot

\* While a run is under way its profile is overlaid, and its channels name it.
ProfileInv ==
    /\ Asked /\ RunStrategy(request) # NoStrategy => config.limits = RunStrategy(request)
    /\ pc \in AfterInvoke => state.strategy = RunStrategy(request)
    /\ NamedStrategyGoverns

\* The channels, saved or not, hold the plan of their own ticker and date, and the thread
\* of a run under way is not a finished one.
ThreadInv ==
    /\ \A t \in Threads : saved[t] # None /\ saved[t].plan # None => saved[t].plan = <<t[1], t[2]>>
    /\ pc \in AfterInvoke => /\ state.plan # None => state.plan = <<request.ticker, request.date>>
                             /\ Thread(request) \notin finished
    /\ FinishedRunsLeaveNoCheckpoint

Inv ==
    /\ TypeOK
    /\ market \in 0..MaxMoves
    /\ Asked => request \in Requests
    /\ finished \subseteq Threads
    /\ SnapshotInv /\ ProfileInv /\ ThreadInv /\ OnePendingPerDay

-----------------------------------------------------------------------------
(* Requests, threads and channels.                                         *)

LEMMA RequestFacts ==
    ASSUME NEW r \in Requests
    PROVE  /\ r.ticker \in Tickers /\ r.date \in Dates
           /\ r.strategy \in Strategies \cup {NoStrategy}
           /\ RunStrategy(r) \in Strategies \cup {NoStrategy}
           /\ Thread(r) \in Threads
           /\ Thread(r)[1] = r.ticker /\ Thread(r)[2] = r.date
  <1>1. r \in Request
    BY RunAssumption
  <1>2. /\ r.ticker \in Tickers /\ r.date \in Dates
        /\ r.strategy \in Strategies \cup {NoStrategy}
    BY <1>1 DEF Request
  <1>3. RunStrategy(r) \in Strategies \cup {NoStrategy}
    BY <1>2, RunAssumption DEF RunStrategy
  <1>4. QED
    BY <1>2, <1>3 DEF Thread, Threads

LEMMA ChannelFields ==
    ASSUME NEW c \in Channels
    PROVE  /\ c.strategy \in Strategies \cup {NoStrategy}
           /\ c.snapshot \in Snapshots \cup {FailedFetch, None}
           /\ c.reports \in SnapshotSets
           /\ c.proposal \in {"trade", "no_trade", None}
           /\ c.messages \in SnapshotSets
           /\ c.plan \in (Tickers \X Dates) \cup {None}
  BY DEF Channels

(* What a node writes into the channels leaves them channels. *)
LEMMA ChannelEdits ==
    ASSUME NEW c \in Channels
    PROVE  /\ \A s \in Snapshots \cup {FailedFetch, None} :
                  /\ [c EXCEPT !.snapshot = s] \in Channels
                  /\ [c EXCEPT !.snapshot = s].snapshot = s
                  /\ [c EXCEPT !.snapshot = s].strategy = c.strategy
                  /\ [c EXCEPT !.snapshot = s].plan = c.plan
           /\ \A m \in SnapshotSets :
                  /\ [c EXCEPT !.messages = m] \in Channels
                  /\ [c EXCEPT !.messages = m].snapshot = c.snapshot
                  /\ [c EXCEPT !.messages = m].strategy = c.strategy
                  /\ [c EXCEPT !.messages = m].plan = c.plan
           /\ \A p \in {"trade", "no_trade", None} :
                  /\ [c EXCEPT !.proposal = p] \in Channels
                  /\ [c EXCEPT !.proposal = p].snapshot = c.snapshot
                  /\ [c EXCEPT !.proposal = p].strategy = c.strategy
                  /\ [c EXCEPT !.proposal = p].plan = c.plan
  BY DEF Channels

LEMMA NoMessages == {} \in SnapshotSets
  BY DEF SnapshotSets

LEMMA ReportedChannels ==
    ASSUME NEW c \in Channels, NEW plan \in Tickers \X Dates
    PROVE  LET d == [c EXCEPT !.reports = c.messages, !.messages = {}, !.plan = plan] IN
           /\ d \in Channels
           /\ d.snapshot = c.snapshot /\ d.strategy = c.strategy /\ d.plan = plan
  BY ChannelFields, NoMessages DEF Channels

LEMMA StartedChannels ==
    ASSUME NEW r \in Requests, NEW c \in Channels \cup {None}
    PROVE  /\ Started(c, r) \in Channels
           /\ Started(c, r).strategy = RunStrategy(r)
           /\ Started(c, r).plan = IF c = None THEN None ELSE c.plan
  <1>. DEFINE old == IF c = None THEN EmptyChannels ELSE c
              new == InitialState(r)
  <1>1. EmptyChannels \in Channels /\ EmptyChannels.plan = None
    BY NoMessages DEF EmptyChannels, Channels
  <1>2. old \in Channels /\ old.plan = IF c = None THEN None ELSE c.plan
    BY <1>1
  <1>3. /\ new.strategy = RunStrategy(r) /\ new.snapshot = None
        /\ new.reports = {} /\ new.proposal = None
    BY DEF InitialState
  <1>4. RunStrategy(r) \in Strategies \cup {NoStrategy}
    BY RequestFacts
  <1>5. Started(c, r) = [old EXCEPT !.strategy = new.strategy, !.snapshot = new.snapshot,
                                    !.reports = new.reports, !.proposal = new.proposal]
    BY DEF Started
  <1>. HIDE DEF old, new
  <1>6. QED
    BY <1>2, <1>3, <1>4, <1>5, NoMessages DEF Channels

(* A commit writes the channels of the run to its own thread and to no other. *)
LEMMA CommitFacts ==
    ASSUME saved \in [Threads -> Channels \cup {None}], request \in Requests,
           NEW c \in Channels, Commit(c)
    PROVE  /\ state' = c
           /\ saved' \in [Threads -> Channels \cup {None}]
           /\ \A t \in Threads : saved'[t] = saved[t] \/ (t = Thread(request) /\ saved'[t] = c)
  <1>1. Thread(request) \in Threads
    BY RequestFacts
  <1>2. state' = c
    BY DEF Commit
  <1>3. CASE CheckpointEnabled
    <2>1. saved' = [saved EXCEPT ![Thread(request)] = c]
      BY <1>3, Zenon DEF Commit
    <2>2. QED
      BY <1>1, <1>2, <2>1
  <1>4. CASE ~CheckpointEnabled
    <2>1. saved' = saved
      BY <1>4, Zenon DEF Commit
    <2>2. QED
      BY <1>2, <2>1
  <1>5. QED
    BY <1>3, <1>4

-----------------------------------------------------------------------------
(* The nodes: what each writes.                                            *)

LEMMA InvokeWrites ==
    ASSUME Inv, Invoke
    PROVE  \E c \in Channels :
              /\ Commit(c)
              /\ c.strategy = RunStrategy(request)
              /\ c.plan # None => c.plan = <<request.ticker, request.date>>
  <1>1. request \in Requests
    BY DEF Inv, Asked, Invoke
  <1>2. Thread(request) \in Threads /\ Thread(request)[1] = request.ticker
        /\ Thread(request)[2] = request.date
    BY <1>1, RequestFacts
  <1>. DEFINE old == saved[Thread(request)]
  <1>3. old \in Channels \cup {None}
    BY <1>2 DEF Inv, TypeOK
  <1>4. old # None /\ old.plan # None => old.plan = <<request.ticker, request.date>>
    BY <1>2 DEF Inv, ThreadInv
  <1>5. Commit(Started(old, request))
    BY DEF Invoke
  <1>. HIDE DEF old
  <1>6. QED
    BY <1>1, <1>3, <1>4, <1>5, StartedChannels

\* What the nodes between the builder and the end of the graph leave as it is.
Carried(c) ==
    /\ c.strategy = state.strategy
    /\ c.plan # None => c.plan = <<request.ticker, request.date>>

LEMMA BuilderWrites ==
    ASSUME Inv, BuildSnapshot
    PROVE  \E c \in Channels :
              /\ Commit(c) /\ Carried(c)
              /\ \/ store' = None /\ c.snapshot = FailedFetch
                 \/ store' \in Snapshots /\ c.snapshot = store'
  <1>1. request \in Requests /\ state \in Channels /\ market \in 0..MaxMoves
    BY DEF Inv, Asked, BuildSnapshot, TypeOK
  <1>2. state.plan # None => state.plan = <<request.ticker, request.date>>
    BY DEF Inv, ThreadInv, BuildSnapshot, AfterInvoke
  <1>3. [ticker |-> request.ticker, at |-> market] \in Snapshots
    BY <1>1, RequestFacts DEF Snapshots
  <1>4. \/ \E s \in Snapshots : store' = s /\ Commit([state EXCEPT !.snapshot = s])
        \/ store' = None /\ Commit([state EXCEPT !.snapshot = FailedFetch])
    BY <1>3 DEF BuildSnapshot, ClearedStore
  <1>5. \A s \in Snapshots \cup {FailedFetch, None} :
           LET c == [state EXCEPT !.snapshot = s] IN
           c \in Channels /\ Carried(c) /\ c.snapshot = s
    BY <1>1, <1>2, ChannelEdits DEF Carried
  <1>6. QED
    BY <1>4, <1>5

LEMMA AgentsWrite ==
    ASSUME Inv, CallTool \/ Report \/ Trade \/ GateDone
    PROVE  \E c \in Channels : Commit(c) /\ Carried(c) /\ c.snapshot = state.snapshot
  <1>1. request \in Requests /\ state \in Channels /\ store \in Snapshots \cup {None}
    BY DEF Inv, Asked, CallTool, Report, Trade, GateDone, TypeOK
  <1>2. state.plan # None => state.plan = <<request.ticker, request.date>>
    BY DEF Inv, ThreadInv, CallTool, Report, Trade, GateDone, AfterInvoke
  <1>3. CASE CallTool
    <2>1. state.messages \cup {store} \in SnapshotSets
      BY <1>1, <1>3, ChannelFields DEF CallTool, SnapshotSets
    <2>2. Commit([state EXCEPT !.messages = state.messages \cup {store}])
      BY <1>3 DEF CallTool
    <2>3. \A m \in SnapshotSets :
             LET c == [state EXCEPT !.messages = m] IN
             c \in Channels /\ Carried(c) /\ c.snapshot = state.snapshot
      BY <1>1, <1>2, ChannelEdits DEF Carried
    <2>4. QED
      BY <2>1, <2>2, <2>3
  <1>4. CASE Report
    <2>1. <<request.ticker, request.date>> \in Tickers \X Dates
      BY <1>1, RequestFacts
    <2>2. Commit([state EXCEPT !.reports = state.messages, !.messages = {},
                               !.plan = <<request.ticker, request.date>>])
      BY <1>4 DEF Report
    <2>3. QED
      BY <1>1, <2>1, <2>2, ReportedChannels DEF Carried
  <1>5. CASE Trade
    <2>1. \A p \in {"trade", "no_trade", None} :
             LET c == [state EXCEPT !.proposal = p] IN
             c \in Channels /\ Carried(c) /\ c.snapshot = state.snapshot
      BY <1>1, <1>2, ChannelEdits DEF Carried
    <2>2. QED
      BY <1>5, <2>1 DEF Trade
  <1>6. CASE GateDone
    BY <1>1, <1>2, <1>6 DEF Carried, GateDone
  <1>7. QED
    BY <1>3, <1>4, <1>5, <1>6

-----------------------------------------------------------------------------
(* Every step keeps the invariant.                                         *)

\* The part of TypeOK that a node of the graph leaves alone.
RestOK ==
    /\ request \in Requests \cup {None}
    /\ judged \in Judgement \cup {None}
    /\ config \in [limits: Strategies \cup {NoStrategy},
                   profile: Strategies \cup {NoStrategy}]
    /\ memory \in Seq(Entry)
    /\ book \subseteq [strategy: Strategies, snapshot: Snapshots]

LEMMA CommitThreads ==
    ASSUME Inv, Asked, NEW c \in Channels, Commit(c), UNCHANGED request,
           c.plan # None => c.plan = <<request.ticker, request.date>>,
           finished' \subseteq finished, Thread(request) \notin finished'
    PROVE  /\ state' = c
           /\ saved' \in [Threads -> Channels \cup {None}]
           /\ ThreadInv'
  <1>1. request \in Requests /\ saved \in [Threads -> Channels \cup {None}]
    BY DEF Inv, TypeOK
  <1>2. Thread(request)[1] = request.ticker /\ Thread(request)[2] = request.date
    BY <1>1, RequestFacts
  <1>3. /\ state' = c
        /\ saved' \in [Threads -> Channels \cup {None}]
        /\ \A t \in Threads : saved'[t] = saved[t] \/ (t = Thread(request) /\ saved'[t] = c)
    BY <1>1, CommitFacts
  <1>4. Thread(request)' = Thread(request)
    BY DEF Thread, RunStrategy
  <1>5. \A t \in Threads :
           saved'[t] # None /\ saved'[t].plan # None => saved'[t].plan = <<t[1], t[2]>>
    BY <1>2, <1>3 DEF Inv, ThreadInv
  <1>6. FinishedRunsLeaveNoCheckpoint'
    BY <1>3 DEF Inv, ThreadInv, FinishedRunsLeaveNoCheckpoint
  <1>7. QED
    BY <1>3, <1>4, <1>5, <1>6 DEF ThreadInv

LEMMA PendingKept ==
    ASSUME OnePendingPerDay, UNCHANGED memory
    PROVE  OnePendingPerDay'
  BY DEF OnePendingPerDay

LEMMA InitInv == Init => Inv
  <1>. SUFFICES ASSUME Init PROVE Inv
    OBVIOUS
  <1>1. EmptyChannels \in Channels
    BY NoMessages DEF EmptyChannels, Channels
  <1>2. BaseConfig \in [limits: Strategies \cup {NoStrategy},
                        profile: Strategies \cup {NoStrategy}]
    BY RunAssumption DEF BaseConfig
  <1>3. TypeOK
    BY <1>1, <1>2 DEF Init, TypeOK
  <1>4. SnapshotInv
    BY DEF Init, SnapshotInv, AfterBuild, AfterInvoke, AfterGate, Asked
  <1>5. ProfileInv
    BY DEF Init, ProfileInv, Asked, AfterInvoke, NamedStrategyGoverns
  <1>6. ThreadInv
    BY DEF Init, ThreadInv, AfterInvoke, FinishedRunsLeaveNoCheckpoint
  <1>7. OnePendingPerDay
    BY DEF Init, OnePendingPerDay
  <1>8. QED
    BY <1>3, <1>4, <1>5, <1>6, <1>7, RunAssumption DEF Inv, Init, Asked

LEMMA BeginKeeps == ASSUME Inv, Begin PROVE Inv'
  <1>1. PICK r \in Requests :
           /\ request' = r
           /\ config' = IF RunStrategy(r) # NoStrategy THEN Overlaid(RunStrategy(r)) ELSE config
    BY DEF Begin
  <1>2. /\ pc' = "resolve" /\ judged' = None
        /\ UNCHANGED <<state, store, saved, memory, book, market, finished>>
    BY DEF Begin, disk
  <1>3. RunStrategy(r) \in Strategies \cup {NoStrategy}
    BY RequestFacts
  <1>4. config' \in [limits: Strategies \cup {NoStrategy},
                     profile: Strategies \cup {NoStrategy}]
    BY <1>1, <1>3 DEF Overlaid, Inv, TypeOK
  <1>5. TypeOK'
    BY <1>1, <1>2, <1>4 DEF Inv, TypeOK, InTry
  <1>6. SnapshotInv'
    BY <1>2 DEF SnapshotInv, AfterBuild, AfterInvoke, AfterGate, Asked
  <1>7. ProfileInv'
    <2>1. RunStrategy(request)' = RunStrategy(r)
      BY <1>1 DEF RunStrategy
    <2>2. RunStrategy(r) # NoStrategy => config'.limits = RunStrategy(r)
      BY <1>1 DEF Overlaid
    <2>3. QED
      BY <1>2, <2>1, <2>2 DEF ProfileInv, AfterInvoke, NamedStrategyGoverns
  <1>8. ThreadInv'
    BY <1>2 DEF Inv, ThreadInv, AfterInvoke, FinishedRunsLeaveNoCheckpoint
  <1>9. OnePendingPerDay'
    BY <1>2, PendingKept DEF Inv
  <1>10. QED
    BY <1>1, <1>2, <1>5, <1>6, <1>7, <1>8, <1>9 DEF Inv

(* A step within a run that only moves on keeps what is said of its profile. *)
LEMMA ProfileKept ==
    ASSUME Inv, Asked, UNCHANGED <<request, config, judged>>,
           pc' \in AfterInvoke => state'.strategy = RunStrategy(request)
    PROVE  ProfileInv'
  <1>1. RunStrategy(request)' = RunStrategy(request)
    BY DEF RunStrategy
  <1>2. QED
    BY <1>1 DEF Inv, ProfileInv, NamedStrategyGoverns

LEMMA ResolveKeeps == ASSUME Inv, ResolvePending PROVE Inv'
  <1>1. /\ pc = "resolve" /\ pc' = "invoke"
        /\ UNCHANGED <<request, state, judged, config, store, saved, book, market, finished>>
    BY DEF ResolvePending, process
  <1>2. PICK known \in SUBSET {i \in 1..Len(memory) :
                                 memory[i].ticker = request.ticker /\ memory[i].pending} :
           memory' = [i \in 1..Len(memory) |->
                        IF i \in known THEN [memory[i] EXCEPT !.pending = FALSE] ELSE memory[i]]
    BY DEF ResolvePending
  <1>3. memory \in Seq(Entry) /\ Len(memory) \in Nat
    BY DEF Inv, TypeOK
  <1>4. \A i \in 1..Len(memory) :
           /\ memory'[i] \in Entry
           /\ memory'[i].ticker = memory[i].ticker
           /\ memory'[i].date = memory[i].date
           /\ memory'[i].pending => memory[i].pending
    <2>1. \A e \in Entry : [e EXCEPT !.pending = FALSE] \in Entry
      BY DEF Entry
    <2>2. \A i \in 1..Len(memory) : memory[i] \in Entry
      BY <1>3
    <2>3. QED
      BY <1>2, <2>1, <2>2 DEF Entry
  <1>5. memory' \in Seq(Entry) /\ Len(memory') = Len(memory)
    <2>1. memory' \in [1..Len(memory) -> Entry]
      BY <1>2, <1>4
    <2>2. memory' \in Seq(Entry)
      BY <1>3, <2>1, SeqDef
    <2>3. QED
      BY <1>3, <2>1, <2>2, LenProperties
  <1>6. TypeOK'
    BY <1>1, <1>5 DEF Inv, TypeOK, InTry
  <1>7. SnapshotInv'
    BY <1>1 DEF Inv, SnapshotInv, AfterBuild, AfterInvoke, AfterGate, Asked
  <1>8. ProfileInv'
    BY <1>1, ProfileKept DEF Asked, AfterInvoke
  <1>9. ThreadInv'
    BY <1>1 DEF Inv, ThreadInv, AfterInvoke, FinishedRunsLeaveNoCheckpoint
  <1>10. OnePendingPerDay'
    BY <1>4, <1>5 DEF Inv, OnePendingPerDay
  <1>11. QED
    BY <1>1, <1>6, <1>7, <1>8, <1>9, <1>10 DEF Inv, Asked

LEMMA InvokeKeeps == ASSUME Inv, Invoke PROVE Inv'
  <1>1. /\ pc = "invoke" /\ pc' = "SnapshotBuilder"
        /\ UNCHANGED <<request, judged, config, store, memory, book, market>>
        /\ finished' = finished \ {Thread(request)}
    BY DEF Invoke, process
  <1>2. PICK c \in Channels :
              /\ Commit(c)
              /\ c.strategy = RunStrategy(request)
              /\ c.plan # None => c.plan = <<request.ticker, request.date>>
    BY InvokeWrites
  <1>3. state' = c /\ saved' \in [Threads -> Channels \cup {None}] /\ ThreadInv'
    BY <1>1, <1>2, CommitThreads DEF Asked
  <1>4. TypeOK'
    BY <1>1, <1>3 DEF Inv, TypeOK, InTry
  <1>5. SnapshotInv'
    BY <1>1 DEF Inv, SnapshotInv, AfterBuild, AfterInvoke, AfterGate, Asked
  <1>6. ProfileInv'
    BY <1>1, <1>2, <1>3, ProfileKept DEF Asked
  <1>7. OnePendingPerDay'
    BY <1>1, PendingKept DEF Inv
  <1>8. QED
    BY <1>1, <1>3, <1>4, <1>5, <1>6, <1>7 DEF Inv, Asked

LEMMA BuildKeeps == ASSUME Inv, BuildSnapshot PROVE Inv'
  <1>1. /\ pc = "SnapshotBuilder" /\ pc' = "Analysts"
        /\ UNCHANGED <<request, judged, config, memory, book, market, finished>>
    BY DEF BuildSnapshot
  <1>2. PICK c \in Channels :
              /\ Commit(c) /\ Carried(c)
              /\ \/ store' = None /\ c.snapshot = FailedFetch
                 \/ store' \in Snapshots /\ c.snapshot = store'
    BY BuilderWrites
  <1>3. Thread(request) \notin finished /\ state.strategy = RunStrategy(request)
    BY <1>1 DEF Inv, ThreadInv, ProfileInv, AfterInvoke
  <1>4. state' = c /\ saved' \in [Threads -> Channels \cup {None}] /\ ThreadInv'
    BY <1>1, <1>2, <1>3, CommitThreads DEF Asked, Carried
  <1>5. TypeOK'
    BY <1>1, <1>2, <1>4 DEF Inv, TypeOK, InTry
  <1>6. SnapshotInv'
    BY <1>1, <1>2, <1>4 DEF Inv, SnapshotInv, AfterBuild, AfterInvoke, AfterGate, Asked
  <1>7. ProfileInv'
    BY <1>1, <1>2, <1>3, <1>4, ProfileKept DEF Asked, Carried
  <1>8. OnePendingPerDay'
    BY <1>1, PendingKept DEF Inv
  <1>9. QED
    BY <1>1, <1>4, <1>5, <1>6, <1>7, <1>8 DEF Inv, Asked

LEMMA AgentsKeep == ASSUME Inv, CallTool \/ Report \/ Trade \/ GateDone PROVE Inv'
  <1>1. /\ UNCHANGED <<request, judged, config, store, memory, book, market, finished>>
        /\ \/ pc \in {"Analysts", "Trader"} /\ pc' \in {"Analysts", "Trader", "RiskGate"}
           \/ pc = "gate_done" /\ pc' = "store"
    BY DEF CallTool, Report, Trade, GateDone, process
  <1>2. PICK c \in Channels : Commit(c) /\ Carried(c) /\ c.snapshot = state.snapshot
    BY AgentsWrite
  <1>3. Thread(request) \notin finished /\ state.strategy = RunStrategy(request)
    BY <1>1 DEF Inv, ThreadInv, ProfileInv, AfterInvoke
  <1>4. state' = c /\ saved' \in [Threads -> Channels \cup {None}] /\ ThreadInv'
    BY <1>1, <1>2, <1>3, CommitThreads DEF Asked, Carried
  <1>5. TypeOK'
    BY <1>1, <1>4 DEF Inv, TypeOK, InTry
  <1>6. SnapshotInv'
    BY <1>1, <1>2, <1>4 DEF Inv, SnapshotInv, AfterBuild, AfterInvoke, AfterGate, Asked
  <1>7. ProfileInv'
    BY <1>1, <1>2, <1>3, <1>4, ProfileKept DEF Asked, Carried
  <1>8. OnePendingPerDay'
    BY <1>1, PendingKept DEF Inv
  <1>9. QED
    BY <1>1, <1>4, <1>5, <1>6, <1>7, <1>8 DEF Inv, Asked

(* Steps that leave the channels and the disk of the graph alone. *)
LEMMA ThreadsKept ==
    ASSUME Inv, pc \in AfterInvoke, UNCHANGED <<request, state, saved, finished>>
    PROVE  ThreadInv'
  <1>1. Thread(request)' = Thread(request)
    BY DEF Thread, RunStrategy
  <1>2. QED
    BY <1>1 DEF Inv, ThreadInv, FinishedRunsLeaveNoCheckpoint

LEMMA JudgeKeeps == ASSUME Inv, Judge PROVE Inv'
  <1>1. /\ pc = "RiskGate" /\ pc' \in {"paper", "gate_done"}
        /\ UNCHANGED <<request, state, config, store, saved, memory, book, market, finished>>
    BY DEF Judge, process, disk
  <1>2. PICK approved \in BOOLEAN :
           judged' = [snapshot |-> LoadSnapshot, limits |-> config.limits,
                      strategy |-> PaperStrategy, trade |-> approved]
    BY DEF Judge
  <1>3. /\ state \in Channels /\ request \in Requests
        /\ config \in [limits: Strategies \cup {NoStrategy},
                       profile: Strategies \cup {NoStrategy}]
    BY <1>1 DEF Inv, TypeOK, Asked
  <1>4. \/ store = None /\ state.snapshot = FailedFetch
        \/ store \in Snapshots /\ state.snapshot = store
    BY <1>1 DEF Inv, SnapshotInv, AfterBuild, AfterInvoke
  <1>5. /\ LoadSnapshot = IF state.snapshot = FailedFetch THEN None ELSE state.snapshot
        /\ LoadSnapshot \in Snapshots \cup {None}
    BY <1>4, RunAssumption DEF LoadSnapshot
  <1>6. PaperStrategy \in Strategies
    <2>1. state.strategy \in Strategies \cup {NoStrategy}
      BY <1>3, ChannelFields
    <2>2. config.profile \in Strategies \cup {NoStrategy}
      BY <1>3
    <2>3. QED
      BY <2>1, <2>2, RunAssumption DEF PaperStrategy
  <1>7. /\ judged' \in Judgement
        /\ judged'.snapshot = LoadSnapshot /\ judged'.limits = config.limits
        /\ judged'.strategy = PaperStrategy
    BY <1>2, <1>3, <1>5, <1>6 DEF Judgement
  <1>8. TypeOK'
    BY <1>1, <1>7 DEF Inv, TypeOK, InTry
  <1>9. SnapshotInv'
    BY <1>1, <1>4, <1>5, <1>7 DEF SnapshotInv, AfterBuild, AfterInvoke, AfterGate, Asked
  <1>10. ProfileInv'
    <2>1. RunStrategy(request)' = RunStrategy(request)
      BY <1>1 DEF RunStrategy
    <2>2. /\ RunStrategy(request) # NoStrategy => config.limits = RunStrategy(request)
          /\ state.strategy = RunStrategy(request)
      BY <1>1 DEF Inv, ProfileInv, Asked, AfterInvoke
    <2>3. NamedStrategyGoverns'
      <3>1. request.strategy # NoStrategy => RunStrategy(request) = request.strategy
        BY DEF RunStrategy
      <3>2. state.strategy # NoStrategy => PaperStrategy = state.strategy
        BY DEF PaperStrategy
      <3>3. QED
        BY <1>1, <1>7, <2>2, <3>1, <3>2 DEF NamedStrategyGoverns
    <2>4. QED
      BY <1>1, <2>1, <2>2, <2>3 DEF ProfileInv
  <1>11. ThreadInv'
    BY <1>1, ThreadsKept DEF AfterInvoke
  <1>12. OnePendingPerDay'
    BY <1>1, PendingKept DEF Inv
  <1>13. QED
    BY <1>1, <1>3, <1>8, <1>9, <1>10, <1>11, <1>12 DEF Inv

LEMMA PaperKeeps == ASSUME Inv, PaperTrade PROVE Inv'
  <1>1. /\ pc = "paper" /\ pc' = "gate_done"
        /\ UNCHANGED <<request, state, judged, config, store, saved, memory, market, finished>>
    BY DEF PaperTrade, process
  <1>2. book' \subseteq [strategy: Strategies, snapshot: Snapshots]
    <2>1. judged \in Judgement
      BY <1>1 DEF Inv, SnapshotInv, AfterGate
    <2>2. judged.strategy \in Strategies /\ judged.snapshot \in Snapshots \cup {None}
      BY <2>1 DEF Judgement
    <2>3. book \subseteq [strategy: Strategies, snapshot: Snapshots]
      BY DEF Inv, TypeOK
    <2>4. QED
      BY <2>2, <2>3 DEF PaperTrade
  <1>3. TypeOK'
    BY <1>1, <1>2 DEF Inv, TypeOK, InTry
  <1>4. SnapshotInv'
    BY <1>1 DEF Inv, SnapshotInv, AfterBuild, AfterInvoke, AfterGate, Asked
  <1>5. ProfileInv'
    BY <1>1, ProfileKept DEF Inv, ProfileInv, Asked, AfterInvoke
  <1>6. ThreadInv'
    BY <1>1, ThreadsKept DEF AfterInvoke
  <1>7. OnePendingPerDay'
    BY <1>1, PendingKept DEF Inv
  <1>8. QED
    BY <1>1, <1>3, <1>4, <1>5, <1>6, <1>7 DEF Inv, Asked

LEMMA StoreKeeps == ASSUME Inv, StoreDecision PROVE Inv'
  <1>1. /\ pc = "store" /\ pc' = "clear"
        /\ UNCHANGED <<request, state, judged, config, store, saved, book, market, finished>>
    BY DEF StoreDecision, process
  <1>. DEFINE entry == [ticker |-> request.ticker, date |-> request.date, pending |-> TRUE]
  <1>2. memory \in Seq(Entry) /\ request \in Requests
    BY <1>1 DEF Inv, TypeOK, Asked
  <1>3. entry \in Entry
    BY <1>2, RequestFacts DEF Entry
  <1>4. CASE AlreadyPending(request)
    <2>1. memory' = memory
      BY <1>4 DEF StoreDecision
    <2>2. QED
      BY <1>1, <2>1, ProfileKept, ThreadsKept, PendingKept
         DEF Inv, TypeOK, InTry, SnapshotInv, ProfileInv, AfterBuild, AfterInvoke, AfterGate, Asked
  <1>5. CASE ~AlreadyPending(request)
    <2>1. memory' = Append(memory, entry)
      BY <1>5 DEF StoreDecision
    <2>. /\ entry.ticker = request.ticker /\ entry.date = request.date
      OBVIOUS
    <2>. HIDE DEF entry
    <2>2. /\ memory' \in Seq(Entry) /\ Len(memory') = Len(memory) + 1
          /\ \A i \in 1..Len(memory) : memory'[i] = memory[i]
          /\ memory'[Len(memory) + 1] = entry
          /\ Len(memory) \in Nat
      BY <1>2, <1>3, <2>1, AppendProperties
    <2>3. OnePendingPerDay'
      <3>1. \A i \in 1..Len(memory) : ~(/\ memory[i].ticker = entry.ticker
                                        /\ memory[i].date = entry.date /\ memory[i].pending)
        BY <1>5 DEF AlreadyPending
      <3>2. \A i \in 1..Len(memory') : i \in 1..Len(memory) \/ i = Len(memory) + 1
        BY <2>2
      <3>3. QED
        BY <2>2, <3>1, <3>2 DEF Inv, OnePendingPerDay
    <2>4. TypeOK'
      BY <1>1, <2>2 DEF Inv, TypeOK, InTry
    <2>5. QED
      BY <1>1, <2>3, <2>4, ProfileKept, ThreadsKept
         DEF Inv, SnapshotInv, ProfileInv, AfterBuild, AfterInvoke, AfterGate, Asked
  <1>6. QED
    BY <1>4, <1>5

(* The end of a run, however it comes: nothing is said of a run that is not. *)
LEMMA EndKeeps ==
    ASSUME Inv, pc' = "idle", UNCHANGED <<request, judged, memory, book, market>>,
           state' \in Channels, store' \in Snapshots \cup {None},
           config' \in [limits: Strategies \cup {NoStrategy},
                        profile: Strategies \cup {NoStrategy}],
           saved' \in [Threads -> Channels \cup {None}],
           \A t \in Threads : saved'[t] \in {saved[t], None},
           finished' \subseteq Threads, \A t \in finished' : saved'[t] = None
    PROVE  Inv'
  <1>1. TypeOK'
    BY DEF Inv, TypeOK
  <1>2. SnapshotInv'
    BY DEF SnapshotInv, AfterBuild, AfterInvoke, AfterGate, Asked
  <1>3. ProfileInv'
    BY DEF Inv, ProfileInv, Asked, AfterInvoke, NamedStrategyGoverns
  <1>4. ThreadInv'
    BY DEF Inv, ThreadInv, AfterInvoke, FinishedRunsLeaveNoCheckpoint
  <1>5. OnePendingPerDay'
    BY PendingKept DEF Inv
  <1>6. QED
    BY <1>1, <1>2, <1>3, <1>4, <1>5 DEF Inv, Asked

LEMMA RestoredType ==
    ASSUME Inv
    PROVE  Restored \in [limits: Strategies \cup {NoStrategy},
                         profile: Strategies \cup {NoStrategy}]
  BY RunAssumption DEF Inv, TypeOK, Restored

LEMMA ReturnKeeps == ASSUME Inv, Return PROVE Inv'
  <1>1. /\ pc = "clear" /\ pc' = "idle"
        /\ UNCHANGED <<request, state, judged, store, memory, book, market>>
        /\ saved' = [saved EXCEPT ![Thread(request)] = None]
        /\ finished' = finished \cup {Thread(request)}
        /\ config' = Restored
    BY DEF Return, ClearedThread
  <1>2. /\ request \in Requests /\ saved \in [Threads -> Channels \cup {None}]
        /\ state \in Channels /\ store \in Snapshots \cup {None} /\ finished \subseteq Threads
        /\ \A t \in finished : saved[t] = None
    BY <1>1 DEF Inv, TypeOK, Asked, ThreadInv, FinishedRunsLeaveNoCheckpoint
  <1>3. Thread(request) \in Threads
    BY <1>2, RequestFacts
  <1>4. /\ saved' \in [Threads -> Channels \cup {None}]
        /\ \A t \in Threads : saved'[t] \in {saved[t], None}
        /\ finished' \subseteq Threads /\ \A t \in finished' : saved'[t] = None
    BY <1>1, <1>2, <1>3
  <1>5. QED
    BY <1>1, <1>2, <1>4, RestoredType, EndKeeps

LEMMA BreakKeeps == ASSUME Inv, ResolveFails \/ Fail \/ Crash PROVE Inv'
  <1>1. /\ pc' = "idle"
        /\ UNCHANGED <<request, state, judged, saved, memory, book, market, finished>>
        /\ store' \in {store, None} /\ config' \in {config, Restored, BaseConfig}
    BY DEF ResolveFails, Fail, Crash, process, disk
  <1>2. BaseConfig \in [limits: Strategies \cup {NoStrategy},
                        profile: Strategies \cup {NoStrategy}]
    BY RunAssumption DEF BaseConfig
  <1>3. /\ saved \in [Threads -> Channels \cup {None}]
        /\ state \in Channels /\ store \in Snapshots \cup {None} /\ finished \subseteq Threads
        /\ config \in [limits: Strategies \cup {NoStrategy},
                       profile: Strategies \cup {NoStrategy}]
        /\ \A t \in finished : saved[t] = None
    BY DEF Inv, TypeOK, ThreadInv, FinishedRunsLeaveNoCheckpoint
  <1>4. QED
    BY <1>1, <1>2, <1>3, RestoredType, EndKeeps

LEMMA MarketKeeps == ASSUME Inv, MarketMoves PROVE Inv'
  <1>1. /\ UNCHANGED <<pc, request, state, judged, config, store, saved, memory, book, finished>>
        /\ market' \in 0..MaxMoves
    BY RunAssumption DEF Inv, MarketMoves, process, disk
  <1>2. UNCHANGED <<TypeOK, SnapshotInv, ProfileInv, ThreadInv, OnePendingPerDay, Asked>>
    BY <1>1 DEF TypeOK, SnapshotInv, ProfileInv, NamedStrategyGoverns, RunStrategy, ThreadInv,
                Thread, FinishedRunsLeaveNoCheckpoint, OnePendingPerDay, Asked
  <1>3. QED
    BY <1>1, <1>2 DEF Inv

LEMMA StepInv == ASSUME Inv, [Next]_vars PROVE Inv'
  <1>1. CASE UNCHANGED vars
    <2>1. UNCHANGED <<TypeOK, SnapshotInv, ProfileInv, ThreadInv, OnePendingPerDay, Asked>>
      BY <1>1 DEF vars, TypeOK, SnapshotInv, ProfileInv, NamedStrategyGoverns, RunStrategy,
                  ThreadInv, Thread, FinishedRunsLeaveNoCheckpoint, OnePendingPerDay, Asked
    <2>2. QED
      BY <1>1, <2>1 DEF vars, Inv
  <1>2. QED
    BY <1>1, BeginKeeps, ResolveKeeps, InvokeKeeps, BuildKeeps, AgentsKeep, JudgeKeeps,
       PaperKeeps, StoreKeeps, ReturnKeeps, BreakKeeps, MarketKeeps DEF Next

(* What runs leave behind and what they read agrees, wherever they end.          *)
THEOREM InvHolds == Spec => []Inv
  BY InitInv, StepInv, PTL DEF Spec

(* Every store and channel holds what it is for (trading_graph.py, crypto_nodes.py). *)
THEOREM TypeCorrect == Spec => []TypeOK
  <1>1. Inv => TypeOK
    BY DEF Inv
  <1>2. QED
    BY <1>1, InvHolds, PTL

(* The gate judges on the snapshot that the builder of this run took, and on none if *)
(* that failed (snapshot_builder_node, _load_snapshot).                              *)
THEOREM OwnSnapshotJudged == Spec => []GateJudgesOwnSnapshot
  <1>1. Inv => GateJudgesOwnSnapshot
    BY DEF Inv, SnapshotInv, GateJudgesOwnSnapshot, Running, Asked, AfterGate, InTry
  <1>2. QED
    BY <1>1, InvHolds, PTL

(* A run that names a profile is judged under its limits and fills its portfolio     *)
(* (propagate, apply_strategy_to_config, risk_gate_node).                            *)
THEOREM ProfileGoverns == Spec => []NamedStrategyGoverns
  <1>1. Inv => NamedStrategyGoverns
    BY DEF Inv, ProfileInv
  <1>2. QED
    BY <1>1, InvHolds, PTL

(* The log never has two pending entries of one ticker and date (store_decision).    *)
THEOREM OneEntryPending == Spec => []OnePendingPerDay
  <1>1. Inv => OnePendingPerDay
    BY DEF Inv
  <1>2. QED
    BY <1>1, InvHolds, PTL

(* What the channels keep from an earlier attempt is of the same ticker and date     *)
(* (thread_id in checkpointer.py).                                                   *)
THEOREM ThreadsAreOwn == Spec => []OwnThread
  <1>1. Inv => OwnThread
    BY DEF Inv, ThreadInv, OwnThread, Running, AfterInvoke, InTry
  <1>2. QED
    BY <1>1, InvHolds, PTL

(* A run that returned leaves no checkpoint (clear_checkpoint in _run_graph).        *)
THEOREM NoCheckpointLeft == Spec => []FinishedRunsLeaveNoCheckpoint
  <1>1. Inv => FinishedRunsLeaveNoCheckpoint
    BY DEF Inv, ThreadInv
  <1>2. QED
    BY <1>1, InvHolds, PTL

=============================================================================
