-------------------------- MODULE MemoryLogProofs --------------------------
(***************************************************************************)
(* Proofs about MemoryLog, for all tickers, caps and numbers of decisions. *)
(*                                                                         *)
(* Types hold for any processes.  The other properties hold while one      *)
(* process uses the log: two of them undo each other's rewrites.           *)
(***************************************************************************)
EXTENDS MemoryLog, DataLemmas

-----------------------------------------------------------------------------
(* Files: sets of entries that are told apart by their ids.                *)

Distinct(entries) == \A e, f \in entries : e.id = f.id => e = f
Numbered(entries) == \A e \in entries : e.id \in 1..MaxDecisions

\* Entries that are told apart by bounded ids are finitely many.
LEMMA FilesAreFinite ==
    ASSUME NEW S, Distinct(S), Numbered(S)
    PROVE  IsFiniteSet(S)
  <1> DEFINE f == [e \in S |-> e.id]
  <1>1. f \in Injection(S, 1..MaxDecisions)
    BY DEF Injection, IsInjective, Distinct, Numbered
  <1>2. IsFiniteSet(1..MaxDecisions)
    BY LogAssumption, FS_Interval
  <1> HIDE DEF f
  <1>3. QED
    BY <1>1, <1>2, FS_Injection

Later(S, i) == {f \in S : f.id > i}

LEMMA LaterFacts ==
    ASSUME NEW S, IsFiniteSet(S), Numbered(S)
    PROVE  \A e, f \in S :
             /\ Cardinality(Later(S, e.id)) \in Nat
             /\ IsFiniteSet(Later(S, e.id))
             /\ f.id <= e.id =>
                  Cardinality(Later(S, e.id)) <= Cardinality(Later(S, f.id))
  <1> SUFFICES ASSUME NEW e \in S, NEW f \in S
               PROVE  /\ Cardinality(Later(S, e.id)) \in Nat
                      /\ IsFiniteSet(Later(S, e.id))
                      /\ f.id <= e.id =>
                           Cardinality(Later(S, e.id)) <= Cardinality(Later(S, f.id))
    OBVIOUS
  <1>1. IsFiniteSet(Later(S, e.id)) /\ IsFiniteSet(Later(S, f.id))
    BY FS_Subset DEF Later
  <1>2. ASSUME f.id <= e.id PROVE Later(S, e.id) \in SUBSET Later(S, f.id)
    BY <1>2 DEF Later, Numbered
  <1>3. QED
    BY <1>1, <1>2, FS_Subset, FS_CardinalityType

(* What is left out of the newest n entries makes room for n entries, all   *)
(* of them newer (_apply_rotation, get_past_context).                      *)
LEMMA NewestFacts ==
    ASSUME NEW S, Distinct(S), Numbered(S), NEW n \in Nat
    PROVE  \A e \in S : e \notin Newest(S, n) =>
             /\ Cardinality(Newest(S, n)) = n
             /\ \A f \in Newest(S, n) : e.id < f.id
  <1> DEFINE T == Newest(S, n)
  <1> SUFFICES ASSUME NEW e \in S, e \notin T
               PROVE  Cardinality(T) = n /\ \A f \in T : e.id < f.id
    OBVIOUS
  <1>1. IsFiniteSet(S)
    BY FilesAreFinite
  <1>2. T = {f \in S : Cardinality(Later(S, f.id)) < n}
    BY DEF Newest, Later
  <1>3. \A f \in S : f.id \in 1..MaxDecisions /\ f.id \in Nat
    BY LogAssumption DEF Numbered
  <1>4. MaxDecisions \in Nat
    BY LogAssumption
  <1> HIDE DEF T
  <1>5. ASSUME NEW f \in S, f \notin T, NEW g \in T PROVE f.id < g.id
    <2>1. Cardinality(Later(S, g.id)) < n /\ ~(Cardinality(Later(S, f.id)) < n)
      BY <1>2, <1>5
    <2>2. CASE g.id <= f.id
      BY <2>1, <2>2, <1>1, <1>2, LaterFacts
    <2>3. QED
      BY <2>2, <1>2, <1>3
  <1>6. T \in SUBSET S /\ IsFiniteSet(T) /\ Cardinality(T) \in Nat
    BY <1>1, <1>2, FS_Subset, FS_CardinalityType
  \* The last entry left out: just those of T come after it.
  <1>7. n <= Cardinality(T)
    <2> DEFINE D == {f.id : f \in S \ T}
    <2>1. D \subseteq Int /\ D # {} /\ \A d \in D : d <= MaxDecisions
      BY <1>3
    <2>2. \E d \in D : \A x \in D : d >= x
      <3> MaxDecisions \in Int
        BY <1>4
      <3> HIDE DEF D
      <3> QED
        BY <2>1, Greatest
    <2>3. PICK last \in S \ T : \A f \in S \ T : last.id >= f.id
      BY <2>2
    <2>4. \A f \in S : f.id > last.id => f \in T
      BY <2>3, <1>3
    <2>5. Later(S, last.id) = T
      BY <2>4, <1>5, <1>6, <1>3, <2>3 DEF Later
    <2>6. ~(Cardinality(Later(S, last.id)) < n)
      BY <2>3, <1>2
    <2>7. QED
      BY <2>5, <2>6, <1>6
  \* The first of T: all others of T come after it.
  <1>8. Cardinality(T) <= n
    <2>1. CASE T = {}
      BY <2>1, FS_EmptySet
    <2>2. CASE T # {}
      <3> DEFINE D == {f.id : f \in T}
      <3>1. D \subseteq Nat /\ D # {}
        BY <2>2, <1>3, <1>6
      <3>2. PICK d \in D : \A x \in D : d <= x
        BY <3>1, Least
      <3>3. PICK first \in T : first.id = d
        BY <3>2
      <3>4. \A f \in T : first.id <= f.id
        BY <3>2, <3>3
      <3>5. T \ {first} \in SUBSET Later(S, first.id)
        BY <3>4, <1>6, <1>3 DEF Later, Distinct
      <3>6. IsFiniteSet(Later(S, first.id)) /\ Cardinality(Later(S, first.id)) < n
        BY <1>1, <1>2, LaterFacts, <3>3
      <3>7. Cardinality(T \ {first}) = Cardinality(T) - 1
        BY <1>6, FS_RemoveElement
      <3>8. Cardinality(T \ {first}) <= Cardinality(Later(S, first.id))
        BY <3>5, <3>6, FS_Subset
      <3>9. Cardinality(Later(S, first.id)) \in Nat
        BY <3>6, FS_CardinalityType
      <3>10. QED
        BY <3>6, <3>7, <3>8, <3>9, <1>6
    <2>3. QED
      BY <2>1, <2>2
  <1>9. QED
    BY <1>5, <1>6, <1>7, <1>8

-----------------------------------------------------------------------------
(* Hours, entries and outcomes.                                            *)

LEMMA MidnightFacts ==
    /\ \A d \in Nat : Midnight(d) \in Nat /\ Midnight(d + 1) = Midnight(d) + DayLength
    /\ \A c, d \in Nat : c <= d => Midnight(c) <= Midnight(d)
  <1> DayLength \in Nat
    BY LogAssumption
  <1>1. \A d \in Nat : d * DayLength \in Nat /\ (d + 1) * DayLength = d * DayLength + DayLength
    OBVIOUS
  <1>2. ASSUME NEW c \in Nat, NEW d \in Nat, c <= d PROVE c * DayLength <= d * DayLength
    <2>1. d * DayLength = c * DayLength + (d - c) * DayLength
      BY <1>2
    <2>2. (d - c) * DayLength \in Nat /\ c * DayLength \in Nat
      BY <1>2
    <2>3. QED
      BY <2>1, <2>2
  <1>3. QED
    BY <1>1, <1>2 DEF Midnight

LEMMA EntryFacts ==
    ASSUME NEW e \in Entry
    PROVE  /\ e.id \in 1..MaxDecisions /\ e.at \in 0..MaxHours
           /\ e.ticker \in Tickers /\ e.date \in Days
           /\ e.proposal \in {"trade", "no_trade", "none"}
           /\ e.state \in {"pending", "flat", "scored"}
           /\ e.bars \in BarSets
  <1> HIDE DEF BarSets
  <1> QED
    BY DEF Entry

Outcomes == [state: {"flat", "scored"}, bars: BarSets]

\* Scoring an entry changes its outcome and nothing else.
LEMMA ScoredFacts ==
    \A e \in Entry, o \in Outcomes :
        /\ Scored(e, o) \in Entry
        /\ Resolved(Scored(e, o))
        /\ Scored(e, o).id = e.id /\ Key(Scored(e, o)) = Key(e)
        /\ Scored(e, o).ticker = e.ticker /\ Scored(e, o).date = e.date
        /\ Scored(e, o).proposal = e.proposal
        /\ Scored(e, o).state = o.state /\ Scored(e, o).bars = o.bars
  <1> USE DEF Scored, Entry, Outcomes, Resolved, Pending, Key
  <1> HIDE DEF BarSets
  <1> QED
    OBVIOUS

LEMMA OutcomeTyped ==
    \A e \in Entry, t \in 0..MaxHours : Outcome(e, t) \in Outcomes
  <1> SUFFICES ASSUME NEW e \in Entry, NEW t \in 0..MaxHours
               PROVE  Outcome(e, t) \in Outcomes
    OBVIOUS
  <1>1. e.date \in Nat
    BY EntryFacts DEF Days
  <1>2. /\ Midnight(e.date) \in Nat
        /\ t \in Nat /\ MaxHours \in Nat /\ HoldingDays \in Nat
    <2>1. Midnight(e.date) \in Nat
      BY <1>1, MidnightFacts
    <2>2. MaxHours \in Nat /\ HoldingDays \in Nat
      BY LogAssumption
    <2>3. QED
      BY <2>1, <2>2
  <1>3. Candles(e.date, t) \in BarSets
    <2>1. Midnight(e.date + 1) \in Nat
      BY <1>1, MidnightFacts
    <2>2. QED
      BY <1>2, <2>1 DEF Candles, BarSets
  <1>4. DailyBars(e.date, t) \in BarSets
    <2>1. \A d \in e.date..(e.date + HoldingDays) : Midnight(d) \in Nat
      <3>1. \A d \in e.date..(e.date + HoldingDays) : d \in Nat
        BY <1>1, <1>2
      <3>2. QED
        BY <3>1, MidnightFacts
    <2>2. QED
      BY <1>2, <2>1 DEF DailyBars, BarSets
  <1>5. {} \in BarSets
    BY DEF BarSets
  <1> HIDE DEF BarSets
  <1>6. QED
    BY <1>3, <1>4, <1>5 DEF Outcome, Outcomes

-----------------------------------------------------------------------------
(* Files through updates and rotation.                                     *)

File(blocks, n) ==
    /\ blocks \subseteq Entry
    /\ \A e \in blocks : e.id <= n
    /\ Distinct(blocks)

UpdatesTyped(updates) == \A k \in DOMAIN updates : updates[k] \in Outcomes

LEMMA FileFacts ==
    ASSUME NEW B, NEW n, File(B, n)
    PROVE  /\ Distinct(B) /\ Numbered(B) /\ IsFiniteSet(B)
           /\ Distinct(ResolvedIn(B)) /\ Numbered(ResolvedIn(B))
  <1>1. Distinct(B) /\ Numbered(B)
    BY EntryFacts DEF File, Numbered
  <1>2. QED
    BY <1>1, FilesAreFinite DEF ResolvedIn, Distinct, Numbered

LEMMA UpdatedIsFile ==
    ASSUME NEW B, NEW n, File(B, n), NEW updates, UpdatesTyped(updates)
    PROVE  File(Updated(B, updates), n)
  <1> DEFINE New(e) == IF Key(e) \in DOMAIN updates /\ Matched(B, e)
                       THEN Scored(e, updates[Key(e)]) ELSE e
  <1>1. Updated(B, updates) = {New(e) : e \in B}
    BY DEF Updated
  <1>2. \A e \in B : New(e) \in Entry /\ New(e).id = e.id
    BY ScoredFacts DEF File, UpdatesTyped
  <1> HIDE DEF New
  <1>3. QED
    BY <1>1, <1>2 DEF File, Distinct

LEMMA RotatedFacts ==
    ASSUME NEW B
    PROVE  /\ Rotated(B) \subseteq B
           /\ \A n : File(B, n) => File(Rotated(B), n)
  <1>1. Rotated(B) \subseteq B
    BY DEF Rotated, Newest, ResolvedIn
  <1>2. QED
    BY <1>1 DEF File, Distinct

LEMMA LastOfFacts ==
    ASSUME NEW S, S \subseteq Entry, NEW k \in {Key(e) : e \in S}
    PROVE  LastOf(S, k) \in S /\ Key(LastOf(S, k)) = k
  <1> DEFINE D == {e.id : e \in {f \in S : Key(f) = k}}
  <1>1. D \subseteq Int /\ D # {} /\ \A d \in D : d <= MaxDecisions
    BY EntryFacts, LogAssumption
  <1>2. MaxDecisions \in Int
    BY LogAssumption
  <1>3. \E d \in D : \A x \in D : d >= x
    <2> HIDE DEF D
    <2> QED
      BY <1>1, <1>2, Greatest
  <1>4. \E e \in S : Key(e) = k /\ \A f \in S : Key(f) = k => f.id <= e.id
    <2>1. PICK e \in S : Key(e) = k /\ \A x \in D : e.id >= x
      BY <1>3
    <2>2. \A f \in S : Key(f) = k => f.id <= e.id
      BY <2>1, EntryFacts
    <2>3. QED
      BY <2>1, <2>2
  <1>5. QED
    BY <1>4 DEF LastOf

LEMMA UpdatesAreTyped ==
    ASSUME NEW S, S \subseteq Entry, NEW t \in 0..MaxHours
    PROVE  /\ UpdatesTyped(UpdatesFor(S, t))
           /\ DOMAIN UpdatesFor(S, t) = {Key(e) : e \in S}
  <1>1. \A k \in {Key(e) : e \in S} : Outcome(LastOf(S, k), t) \in Outcomes
    BY LastOfFacts, OutcomeTyped
  <1>2. QED
    BY <1>1 DEF UpdatesFor, UpdatesTyped

-----------------------------------------------------------------------------
(* Types, for any processes.                                               *)

RunOK(c, n) ==
    /\ c.pc \in Locations
    /\ c.pc # "idle" => c.ticker \in Tickers /\ c.date \in Days
    /\ c.pc = "evaluate" => c.found \subseteq Entry
    /\ c.pc \in {"rewrite", "write", "replace", "context"} => c.hour \in 0..MaxHours
    /\ c.pc = "rewrite" => UpdatesTyped(c.updates)
    /\ c.pc = "write" => File(c.blocks, n)

TypeInv ==
    /\ now \in 0..MaxHours
    /\ stored \in 0..MaxDecisions
    /\ File(log, stored)
    /\ tmp # None => File(tmp, stored)
    /\ call = [p \in Procs |-> call[p]]
    /\ \A p \in Procs : RunOK(call[p], stored)

LEMMA FileGrows ==
    \A B, n, m : File(B, n) /\ n \in Nat /\ m \in Nat /\ n <= m => File(B, m)
  <1> SUFFICES ASSUME NEW B, NEW n \in Nat, NEW m \in Nat, File(B, n), n <= m
               PROVE  File(B, m)
    OBVIOUS
  <1>1. \A e \in B : e.id \in Int
    BY EntryFacts DEF File
  <1>2. QED
    BY <1>1 DEF File

LEMMA OneRunMoves ==
    ASSUME call = [q \in Procs |-> call[q]], NEW p \in Procs, NEW c, Goto(p, c)
    PROVE  /\ call' = [q \in Procs |-> call'[q]]
           /\ call'[p] = c
           /\ \A q \in Procs : q # p => call'[q] = call[q]
  BY DEF Goto

LEMMA TypeStep ==
    ASSUME TypeInv, NEW p \in Procs, NEW c, Goto(p, c), RunOK(c, stored'),
           now' = now, stored' \in 0..MaxDecisions, stored <= stored',
           File(log', stored'), tmp' # None => File(tmp', stored')
    PROVE  TypeInv'
  <1>1. /\ call' = [q \in Procs |-> call'[q]]
        /\ call'[p] = c
        /\ \A q \in Procs : q # p => call'[q] = call[q]
    BY OneRunMoves DEF TypeInv
  <1>2. \A q \in Procs : RunOK(call[q], stored')
    <2>1. stored \in Nat /\ stored' \in Nat
      BY LogAssumption DEF TypeInv
    <2>2. QED
      BY <2>1, FileGrows DEF TypeInv, RunOK
  <1>3. \A q \in Procs : RunOK(call'[q], stored')
    BY <1>1, <1>2
  <1>4. QED
    BY <1>1, <1>3 DEF TypeInv

LEMMA InitTypeInv == Init => TypeInv
  <1> SUFFICES ASSUME Init PROVE TypeInv
    OBVIOUS
  <1>1. 0 \in 0..MaxHours /\ 0 \in 0..MaxDecisions
    BY LogAssumption
  <1>2. File({}, 0)
    BY DEF File, Distinct
  <1>3. RunOK(Idle, 0)
    BY DEF RunOK, Idle, Locations
  <1>4. QED
    BY <1>1, <1>2, <1>3 DEF Init, TypeInv

Step(p) ==
    \/ Begin(p) \/ LoadPending(p) \/ Evaluate(p) \/ Rewrite(p) \/ WriteTmp(p)
    \/ Replace(p) \/ ReadContext(p) \/ CheckPending(p) \/ StoreDecision(p) \/ Stop(p)

LEMMA StepTypeInv == TypeInv /\ [Next]_vars => TypeInv'
  <1> SUFFICES ASSUME TypeInv, [Next]_vars PROVE TypeInv'
    OBVIOUS
  <1>1. CASE UNCHANGED vars
    BY <1>1 DEF vars, TypeInv
  <1>2. CASE Tick
    <2>1. now' \in 0..MaxHours
      BY <1>2, LogAssumption DEF Tick, TypeInv
    <2>2. QED
      BY <1>2, <2>1 DEF Tick, TypeInv
  <1>3. ASSUME NEW p \in Procs, Step(p) PROVE TypeInv'
    <2> DEFINE c == call[p]
    <2>0. /\ File(log, stored) /\ (tmp # None => File(tmp, stored))
          /\ RunOK(c, stored) /\ now \in 0..MaxHours /\ stored \in 0..MaxDecisions
          /\ stored \in Nat /\ stored <= stored
      BY LogAssumption DEF TypeInv
    <2> HIDE DEF c
    <2>1. CASE Begin(p)
      <3>1. PICK ticker \in Tickers, date \in Days : Goto(p, Run("load", ticker, date))
        BY <2>1 DEF Begin
      <3>2. RunOK(Run("load", ticker, date), stored)
        BY DEF RunOK, Run, Locations
      <3>3. UNCHANGED <<now, log, tmp, stored>>
        BY <2>1 DEF Begin
      <3>4. QED
        BY <3>1, <3>2, <3>3, <2>0, TypeStep
    <2>2. CASE LoadPending(p)
      <3> DEFINE found == {e \in log : Pending(e) /\ e.ticker = c.ticker}
                 d == IF found = {} THEN Resolution("context", c, now, {})
                      ELSE [pc |-> "evaluate", ticker |-> c.ticker, date |-> c.date,
                            found |-> found]
      <3>1. Goto(p, d) /\ c.pc = "load" /\ UNCHANGED <<now, log, tmp, stored>>
        BY <2>2 DEF LoadPending, c
      <3>2. found \subseteq Entry
        BY <2>0 DEF File
      <3>3. RunOK(d, stored)
        <4> HIDE DEF found
        <4> QED
          BY <3>1, <3>2, <2>0 DEF RunOK, Resolution, Locations
      <3> HIDE DEF d
      <3>4. QED
        BY <3>1, <3>3, <2>0, TypeStep
    <2>3. CASE Evaluate(p)
      <3>1. PICK skipped \in SUBSET c.found :
              LET ids == {e.id : e \in skipped}
                  updates == UpdatesFor({e \in c.found \ skipped : Due(e, now)}, now)
              IN  Goto(p, IF DOMAIN updates = {} THEN Resolution("context", c, now, ids)
                          ELSE [pc |-> "rewrite", ticker |-> c.ticker, date |-> c.date,
                                hour |-> now, skipped |-> ids, updates |-> updates])
        BY <2>3 DEF Evaluate, c
      <3> DEFINE ids == {e.id : e \in skipped}
                 updates == UpdatesFor({e \in c.found \ skipped : Due(e, now)}, now)
                 d == IF DOMAIN updates = {} THEN Resolution("context", c, now, ids)
                      ELSE [pc |-> "rewrite", ticker |-> c.ticker, date |-> c.date,
                            hour |-> now, skipped |-> ids, updates |-> updates]
      <3>2. Goto(p, d)
        BY <3>1
      <3>3. c.pc = "evaluate" /\ UNCHANGED <<now, log, tmp, stored>>
        BY <2>3 DEF Evaluate, c
      <3>4. UpdatesTyped(updates)
        BY <3>3, <2>0, UpdatesAreTyped DEF RunOK
      <3>5. RunOK(d, stored)
        <4> HIDE DEF updates, ids
        <4> QED
          BY <3>3, <3>4, <2>0 DEF RunOK, Resolution, Locations
      <3> HIDE DEF d
      <3>6. QED
        BY <3>2, <3>3, <3>5, <2>0, TypeStep
    <2>4. CASE Rewrite(p)
      <3> DEFINE blocks == Rotated(Updated(log, c.updates))
                 d == [pc |-> "write", ticker |-> c.ticker, date |-> c.date, hour |-> c.hour,
                       skipped |-> c.skipped, blocks |-> blocks]
      <3>1. Goto(p, d) /\ c.pc = "rewrite" /\ UNCHANGED <<now, log, tmp, stored>>
        BY <2>4 DEF Rewrite, c
      <3>2. File(blocks, stored)
        BY <3>1, <2>0, UpdatedIsFile, RotatedFacts DEF RunOK
      <3>3. RunOK(d, stored)
        <4> HIDE DEF blocks
        <4> QED
          BY <3>1, <3>2, <2>0 DEF RunOK, Locations
      <3> HIDE DEF d
      <3>4. QED
        BY <3>1, <3>3, <2>0, TypeStep
    <2>5. CASE WriteTmp(p)
      <3> DEFINE d == Resolution("replace", c, c.hour, c.skipped)
      <3>1. Goto(p, d) /\ c.pc = "write" /\ tmp' = c.blocks /\ UNCHANGED <<now, log, stored>>
        BY <2>5 DEF WriteTmp, c
      <3>2. RunOK(d, stored) /\ File(tmp', stored)
        BY <3>1, <2>0 DEF RunOK, Resolution, Locations
      <3> HIDE DEF d
      <3>3. QED
        BY <3>1, <3>2, <2>0, TypeStep
    <2>6. CASE Replace(p)
      <3> DEFINE d == Resolution("context", c, c.hour, c.skipped)
      <3>1. /\ Goto(p, d) /\ c.pc = "replace" /\ tmp # None /\ log' = tmp /\ tmp' = None
            /\ UNCHANGED <<now, stored>>
        BY <2>6 DEF Replace, c
      <3>2. RunOK(d, stored)
        BY <3>1, <2>0 DEF RunOK, Resolution, Locations
      <3> HIDE DEF d
      <3>3. QED
        BY <3>1, <3>2, <2>0, TypeStep
    <2>7. CASE ReadContext(p)
      <3> DEFINE told == PastContext(log, c.ticker)
                 d == [pc |-> "graph", ticker |-> c.ticker, date |-> c.date, told |-> told]
      <3>1. Goto(p, d) /\ c.pc = "context" /\ UNCHANGED <<now, log, tmp, stored>>
        BY <2>7 DEF ReadContext, c
      <3>2. RunOK(d, stored)
        <4> HIDE DEF told
        <4> QED
          BY <3>1, <2>0 DEF RunOK, Locations
      <3> HIDE DEF d
      <3>3. QED
        BY <3>1, <3>2, <2>0, TypeStep
    <2>8. CASE CheckPending(p)
      <3> DEFINE d == IF AlreadyPending(c.ticker, c.date) THEN Idle
                      ELSE Run("append", c.ticker, c.date)
      <3>1. Goto(p, d) /\ c.pc = "graph" /\ UNCHANGED <<now, log, tmp, stored>>
        BY <2>8 DEF CheckPending, c
      <3>2. RunOK(d, stored)
        BY <3>1, <2>0 DEF RunOK, Run, Idle, Locations
      <3> HIDE DEF d
      <3>3. QED
        BY <3>1, <3>2, <2>0, TypeStep
    <2>9. CASE StoreDecision(p)
      <3>1. PICK proposal \in ProposalsFor(c.ticker) :
              log' = log \cup {[id |-> stored + 1, at |-> now, ticker |-> c.ticker,
                                date |-> c.date, proposal |-> proposal,
                                state |-> "pending", bars |-> {}]}
        BY <2>9 DEF StoreDecision, c
      <3> DEFINE new == [id |-> stored + 1, at |-> now, ticker |-> c.ticker,
                         date |-> c.date, proposal |-> proposal,
                         state |-> "pending", bars |-> {}]
      <3>2. /\ Goto(p, Idle) /\ c.pc = "append" /\ stored < MaxDecisions
            /\ stored' = stored + 1 /\ UNCHANGED <<now, tmp>>
        BY <2>9 DEF StoreDecision, c
      <3>3. stored + 1 \in 1..MaxDecisions /\ stored' \in 0..MaxDecisions /\ stored <= stored'
        BY <3>2, <2>0, LogAssumption
      <3>4. new \in Entry /\ new.id = stored + 1
        <4>1. proposal \in {"trade", "no_trade", "none"}
          BY <3>1 DEF ProposalsFor
        <4>2. {} \in BarSets
          BY DEF BarSets
        <4>3. c.ticker \in Tickers /\ c.date \in Days
          BY <2>0, <3>2 DEF RunOK
        <4> HIDE DEF BarSets
        <4>4. QED
          BY <4>1, <4>2, <4>3, <3>3, <2>0 DEF Entry
      <3>5. log' = log \cup {new}
        BY <3>1
      <3> HIDE DEF new
      <3>6. File(log', stored')
        <4>1. \A e \in log : e.id \in Nat /\ e.id <= stored
          BY <2>0, EntryFacts, LogAssumption DEF File
        <4>2. QED
          BY <4>1, <3>2, <3>4, <3>5, <2>0 DEF File, Distinct
      <3>7. tmp' # None => File(tmp', stored')
        <4>1. stored' \in Nat /\ stored <= stored'
          BY <3>2, <2>0
        <4>2. QED
          BY <4>1, <3>2, <2>0, FileGrows
      <3>8. RunOK(Idle, stored')
        BY DEF RunOK, Idle, Locations
      <3>9. QED
        BY <3>2, <3>3, <3>6, <3>7, <3>8, TypeStep
    <2>10. CASE Stop(p)
      <3>1. Goto(p, Idle) /\ UNCHANGED <<now, log, tmp, stored>>
        BY <2>10 DEF Stop
      <3>2. RunOK(Idle, stored)
        BY DEF RunOK, Idle, Locations
      <3>3. QED
        BY <3>1, <3>2, <2>0, TypeStep
    <2>11. QED
      BY <1>3, <2>1, <2>2, <2>3, <2>4, <2>5, <2>6, <2>7, <2>8, <2>9, <2>10 DEF Step
  <1>4. QED
    BY <1>1, <1>2, <1>3 DEF Next, Step

(* The file and the temporary file hold entries, each id once, and a run is at a     *)
(* known step, for any number of processes (store_decision,                          *)
(* batch_update_with_outcomes).                                                      *)
THEOREM TypeCorrect == Spec => []TypeOK
  <1>1. TypeInv => TypeOK
    BY DEF TypeInv, TypeOK, File, Distinct, RunOK
  <1>2. QED
    BY <1>1, InitTypeInv, StepTypeInv, PTL DEF Spec

-----------------------------------------------------------------------------
(***************************************************************************)
(* One process.  What a run has read is then still what the log holds when *)
(* it writes, and the log has one pending entry for each key: an update    *)
(* reaches the entry that it was made for.                                 *)
(***************************************************************************)
OneProcess == \A p, q \in Procs : p = q

OnePending(B) ==
    \A e, f \in B : Pending(e) /\ Pending(f) /\ Key(e) = Key(f) => e = f

ProposalsFit(B) == \A e \in B : e.proposal \in ProposalsFor(e.ticker)

OwnOutcomes(B) ==
    \A e \in ResolvedIn(B) :
        /\ e.state = "flat" <=> e.proposal = "no_trade"
        /\ e.state = "scored" => Min(e.bars) - Midnight(e.date) \in {0, 1}

LogOK(B) == OnePending(B) /\ ProposalsFit(B) /\ OwnOutcomes(B)

\* The entries of B that a run with the findings of c scores, and B with them scored.
Ripe(B, c) ==
    {e \in B : Pending(e) /\ e.ticker = c.ticker /\ e.id \notin c.skipped /\ Due(e, c.hour)}

Resolve(B, R, t) == {IF e \in R THEN Scored(e, Outcome(e, t)) ELSE e : e \in B}

\* What a run holds is what it found in the file B, and in the temporary file T.
AtWork(c, B, T) ==
    /\ c.pc = "evaluate" => c.found = {e \in B : Pending(e) /\ e.ticker = c.ticker}
    /\ c.pc = "rewrite" => c.updates = UpdatesFor(Ripe(B, c), c.hour)
    /\ c.pc = "write" => c.blocks = Rotated(Resolve(B, Ripe(B, c), c.hour))
    /\ c.pc = "replace" => T = Rotated(Resolve(B, Ripe(B, c), c.hour))
    /\ c.pc = "context" => Ripe(B, c) = {}
    /\ c.pc = "graph" => c.told = PastContext(B, c.ticker)
    /\ c.pc = "append" => \A e \in B : ~(Pending(e) /\ Key(e) = <<c.date, c.ticker>>)

SoleInv == LogOK(log) /\ \A p \in Procs : AtWork(call[p], log, tmp)

\* With one pending entry for each key, an update scores the entry it is about.
LEMMA UpdateIsResolve ==
    ASSUME NEW B, NEW n, File(B, n), OnePending(B),
           NEW R, R \subseteq {e \in B : Pending(e)}, NEW t \in 0..MaxHours
    PROVE  Updated(B, UpdatesFor(R, t)) = Resolve(B, R, t)
  <1> DEFINE keys == {Key(e) : e \in R}
             updates == UpdatesFor(R, t)
  <1>1. B \subseteq Entry /\ R \subseteq Entry
    BY DEF File
  <1>2. DOMAIN updates = keys /\ \A k \in keys : updates[k] = Outcome(LastOf(R, k), t)
    BY DEF UpdatesFor
  <1>3. \A e \in R : LastOf(R, Key(e)) = e
    <2>1. \A e \in R : LastOf(R, Key(e)) \in R /\ Key(LastOf(R, Key(e))) = Key(e)
      BY <1>1, LastOfFacts
    <2>2. QED
      BY <2>1 DEF OnePending
  <1>4. \A e \in R : Key(e) \in keys /\ updates[Key(e)] = Outcome(e, t)
    BY <1>2, <1>3
  <1>5. \A e \in B : Key(e) \in keys /\ Matched(B, e) <=> e \in R
    <2>1. ASSUME NEW e \in B, Key(e) \in keys, Pending(e) PROVE e \in R
      BY <2>1 DEF OnePending
    <2>2. ASSUME NEW e \in R PROVE Matched(B, e)
      <3>1. e \in B /\ Pending(e) /\ e.id <= e.id
        BY <1>1, EntryFacts
      <3>2. QED
        BY <3>1 DEF Matched, OnePending
    <2>3. QED
      BY <2>1, <2>2 DEF Matched
  <1> HIDE DEF updates, keys
  <1>6. \A e \in B : (IF Key(e) \in DOMAIN updates /\ Matched(B, e)
                      THEN Scored(e, updates[Key(e)]) ELSE e)
                     = IF e \in R THEN Scored(e, Outcome(e, t)) ELSE e
    BY <1>2, <1>4, <1>5
  <1>7. Updated(B, updates) = Resolve(B, R, t)
    BY <1>6 DEF Updated, Resolve
  <1>8. QED
    BY <1>7 DEF updates

LEMMA MinFacts ==
    ASSUME NEW S, S \subseteq Int, NEW x \in S, \A y \in S : x <= y
    PROVE  Min(S) = x
  <1>1. Min(S) \in S /\ \A y \in S : Min(S) <= y
    BY DEF Min
  <1> DEFINE m == Min(S)
  <1>2. m \in Int /\ x \in Int /\ m <= x /\ x <= m
    BY <1>1
  <1> HIDE DEF m
  <1>3. m = x
    BY <1>2
  <1>4. QED
    BY <1>3 DEF m

\* What an entry comes to once it is due.
LEMMA OutcomeFacts ==
    ASSUME NEW e \in Entry, e.proposal \in ProposalsFor(e.ticker), NEW t \in 0..MaxHours,
           Due(e, t)
    PROVE  /\ Outcome(e, t).state = "flat" <=> e.proposal = "no_trade"
           /\ Outcome(e, t).state = "scored" =>
                Min(Outcome(e, t).bars) - Midnight(e.date) \in {0, 1}
  <1> DEFINE M == Midnight(e.date)
  <1>1. /\ e.date \in Nat /\ t \in Nat
        /\ e.ticker \in CryptoTickers \/ e.ticker \in StockTickers
        /\ ~(e.ticker \in CryptoTickers /\ e.ticker \in StockTickers)
    BY EntryFacts, LogAssumption DEF Days, Tickers
  <1>2. M \in Nat /\ Midnight(e.date + 1) = M + DayLength
    BY <1>1, MidnightFacts
  <1>3. Outcome(e, t).state = "flat" <=> e.proposal = "no_trade"
    BY <1>1 DEF Outcome, ProposalsFor
  <1>4. ASSUME Outcome(e, t).state = "scored" PROVE Outcome(e, t).bars # {}
    BY <1>4, FS_EmptySet DEF Due
  <1>5. CASE e.ticker \in StockTickers
    <2>1. Outcome(e, t).bars = DailyBars(e.date, t) /\ Outcome(e, t).state = "scored"
      BY <1>5 DEF Outcome
    <2>2. \A d \in e.date..(e.date + HoldingDays) : Midnight(d) \in Nat /\ M <= Midnight(d)
      <3>1. \A d \in e.date..(e.date + HoldingDays) : d \in Nat /\ e.date <= d
        BY <1>1, LogAssumption
      <3>2. QED
        BY <3>1, <1>1, MidnightFacts
    <2>3. e.date \in e.date..(e.date + HoldingDays)
      BY <1>1, LogAssumption
    <2>4. M \in DailyBars(e.date, t)
      <3>1. PICK d \in e.date..(e.date + HoldingDays) : Midnight(d) <= t
        BY <1>4, <2>1 DEF DailyBars
      <3>2. M <= t
        BY <3>1, <2>2, <1>1, <1>2
      <3>3. QED
        BY <3>2, <2>3 DEF DailyBars
    <2>5. DailyBars(e.date, t) \subseteq Int /\ \A b \in DailyBars(e.date, t) : M <= b
      BY <2>2 DEF DailyBars
    <2>6. Min(DailyBars(e.date, t)) = M
      BY <2>4, <2>5, MinFacts
    <2>7. QED
      BY <2>1, <2>6, <1>2, <1>3
  <1>6. CASE e.ticker \in CryptoTickers /\ Outcome(e, t).state = "scored"
    <2>1. Outcome(e, t).bars = Candles(e.date, t)
      BY <1>6, <1>1 DEF Outcome
    <2>2. Candles(e.date, t) \subseteq Int /\ \A b \in Candles(e.date, t) : M + 1 <= b
      BY <1>2, LogAssumption DEF Candles
    <2>3. M + 1 \in Candles(e.date, t)
      <3>1. PICK b \in Candles(e.date, t) : TRUE
        BY <1>4, <1>6, <2>1
      <3>2. QED
        BY <3>1, <1>1, <1>2, LogAssumption DEF Candles
    <2>4. Min(Candles(e.date, t)) = M + 1
      BY <2>2, <2>3, MinFacts
    <2>5. QED
      BY <2>1, <2>4, <1>2, <1>3
  <1>7. QED
    BY <1>1, <1>3, <1>5, <1>6

\* Scoring and rotation leave a log as it should be, with nothing more to score.
LEMMA ResolveFacts ==
    ASSUME NEW B, NEW n, File(B, n), LogOK(B), NEW c, c.hour \in 0..MaxHours
    PROVE  LET C == Rotated(Resolve(B, Ripe(B, c), c.hour))
           IN  LogOK(C) /\ Ripe(C, c) = {}
  <1> DEFINE R == Ripe(B, c)
             t == c.hour
             New(e) == IF e \in R THEN Scored(e, Outcome(e, t)) ELSE e
             C == Rotated(Resolve(B, R, t))
  <1>1. \A f \in C : \E e \in B : f = New(e)
    BY RotatedFacts DEF Resolve
  <1>2. \A e \in B : /\ e \in Entry /\ e.proposal \in ProposalsFor(e.ticker)
                     /\ e \notin R => New(e) = e
                     /\ e \in R => New(e) = Scored(e, Outcome(e, t)) /\ Due(e, t)
    BY DEF File, LogOK, ProposalsFit, Ripe
  <1>3. \A e \in R : /\ Outcome(e, t) \in Outcomes
                     /\ Resolved(New(e)) /\ New(e).ticker = e.ticker
                     /\ New(e).proposal = e.proposal /\ New(e).date = e.date
                     /\ New(e).state = Outcome(e, t).state
                     /\ New(e).bars = Outcome(e, t).bars
    <2>1. \A e \in R : e \in B
      BY DEF Ripe
    <2>2. \A e \in R : Outcome(e, t) \in Outcomes
      BY <2>1, <1>2, OutcomeTyped
    <2> HIDE DEF New, R
    <2>3. QED
      BY <2>1, <2>2, <1>2, ScoredFacts
  <1>4. \A e \in B : Pending(New(e)) => New(e) = e /\ e \notin R
    BY <1>2, <1>3 DEF Resolved
  <1> HIDE DEF New, R, t, C
  <1>5. OnePending(C)
    BY <1>1, <1>4 DEF OnePending, LogOK
  <1>6. ProposalsFit(C)
    <2>1. \A e \in B : New(e).proposal \in ProposalsFor(New(e).ticker)
      BY <1>2, <1>3
    <2>2. QED
      BY <2>1, <1>1 DEF ProposalsFit
  <1>7. OwnOutcomes(C)
    <2> SUFFICES ASSUME NEW e \in B, Resolved(New(e))
                 PROVE  /\ New(e).state = "flat" <=> New(e).proposal = "no_trade"
                        /\ New(e).state = "scored" =>
                             Min(New(e).bars) - Midnight(New(e).date) \in {0, 1}
      BY <1>1 DEF OwnOutcomes, ResolvedIn
    <2>1. CASE e \in R
      <3>1. /\ Outcome(e, t).state = "flat" <=> e.proposal = "no_trade"
            /\ Outcome(e, t).state = "scored" =>
                 Min(Outcome(e, t).bars) - Midnight(e.date) \in {0, 1}
        BY <2>1, <1>2, OutcomeFacts DEF t
      <3>2. QED
        BY <3>1, <2>1, <1>3
    <2>2. CASE e \notin R
      BY <2>2, <1>2 DEF LogOK, OwnOutcomes, ResolvedIn
    <2>3. QED
      BY <2>1, <2>2
  <1>8. Ripe(C, c) = {}
    BY <1>1, <1>4 DEF Ripe, R
  <1>9. QED
    BY <1>5, <1>6, <1>7, <1>8 DEF LogOK, C, R, t

LEMMA SoleStep ==
    ASSUME OneProcess, TypeInv, NEW p \in Procs, NEW c, Goto(p, c),
           AtWork(c, log', tmp'), LogOK(log')
    PROVE  SoleInv'
  <1>1. call'[p] = c
    BY OneRunMoves DEF TypeInv
  <1>2. \A q \in Procs : q = p
    BY DEF OneProcess
  <1>3. \A q \in Procs : AtWork(call'[q], log', tmp')
    BY <1>1, <1>2
  <1>4. QED
    BY <1>3 DEF SoleInv

LEMMA InitSoleInv == Init => SoleInv
  <1> SUFFICES ASSUME Init PROVE SoleInv
    OBVIOUS
  <1>1. LogOK({})
    BY DEF LogOK, OnePending, ProposalsFit, OwnOutcomes, ResolvedIn
  <1>2. \A T : AtWork(Idle, {}, T)
    BY DEF AtWork, Idle
  <1>3. QED
    BY <1>1, <1>2 DEF Init, SoleInv

LEMMA StepSoleInv ==
    ASSUME OneProcess, TypeInv, SoleInv, [Next]_vars
    PROVE  SoleInv'
  <1>1. CASE UNCHANGED vars \/ Tick
    BY <1>1 DEF vars, Tick, SoleInv
  <1>2. ASSUME NEW p \in Procs, Step(p) PROVE SoleInv'
    <2> DEFINE c == call[p]
    <2>0. /\ LogOK(log) /\ AtWork(c, log, tmp) /\ File(log, stored)
          /\ RunOK(c, stored)
      BY DEF TypeInv, SoleInv
    <2> HIDE DEF c
    <2>1. CASE Begin(p)
      <3>1. PICK ticker \in Tickers, date \in Days : Goto(p, Run("load", ticker, date))
        BY <2>1 DEF Begin
      <3>2. AtWork(Run("load", ticker, date), log, tmp) /\ UNCHANGED <<log, tmp>>
        BY <2>1 DEF Begin, AtWork, Run
      <3>3. QED
        BY <3>1, <3>2, <2>0, SoleStep
    <2>2. CASE LoadPending(p)
      <3> DEFINE found == {e \in log : Pending(e) /\ e.ticker = c.ticker}
                 d == IF found = {} THEN Resolution("context", c, now, {})
                      ELSE [pc |-> "evaluate", ticker |-> c.ticker, date |-> c.date,
                            found |-> found]
      <3>1. Goto(p, d) /\ UNCHANGED <<log, tmp>>
        BY <2>2 DEF LoadPending, c
      <3>2. CASE found = {}
        <4>1. d = Resolution("context", c, now, {})
          BY <3>2
        <4>2. d.pc = "context" /\ d.ticker = c.ticker
          BY <4>1 DEF Resolution
        <4> HIDE DEF d
        <4>3. Ripe(log, d) = {}
          BY <3>2, <4>2 DEF Ripe
        <4>4. AtWork(d, log, tmp)
          BY <4>2, <4>3 DEF AtWork
        <4>5. QED
          BY <3>1, <4>4, <2>0, SoleStep
      <3>3. CASE found # {}
        <4>1. d = [pc |-> "evaluate", ticker |-> c.ticker, date |-> c.date, found |-> found]
          BY <3>3
        <4> HIDE DEF found
        <4>2. d.pc = "evaluate" /\ d.ticker = c.ticker /\ d.found = found
          BY <4>1
        <4> HIDE DEF d
        <4>3. AtWork(d, log, tmp)
          BY <4>2 DEF AtWork, found
        <4>4. QED
          BY <3>1, <4>3, <2>0, SoleStep
      <3>4. QED
        BY <3>2, <3>3
    <2>3. CASE Evaluate(p)
      <3>1. PICK skipped \in SUBSET c.found :
              LET ids == {e.id : e \in skipped}
                  updates == UpdatesFor({e \in c.found \ skipped : Due(e, now)}, now)
              IN  Goto(p, IF DOMAIN updates = {} THEN Resolution("context", c, now, ids)
                          ELSE [pc |-> "rewrite", ticker |-> c.ticker, date |-> c.date,
                                hour |-> now, skipped |-> ids, updates |-> updates])
        BY <2>3 DEF Evaluate, c
      <3> DEFINE ids == {e.id : e \in skipped}
                 S == {e \in c.found \ skipped : Due(e, now)}
                 updates == UpdatesFor(S, now)
                 d == IF DOMAIN updates = {} THEN Resolution("context", c, now, ids)
                      ELSE [pc |-> "rewrite", ticker |-> c.ticker, date |-> c.date,
                            hour |-> now, skipped |-> ids, updates |-> updates]
      <3>2. Goto(p, d)
        BY <3>1
      <3>3. c.pc = "evaluate" /\ UNCHANGED <<log, tmp>>
        BY <2>3 DEF Evaluate, c
      <3>4. c.found = {e \in log : Pending(e) /\ e.ticker = c.ticker}
        BY <3>3, <2>0 DEF AtWork
      <3>5. \A e \in c.found : e \in skipped <=> e.id \in ids
        BY <3>4, <2>0 DEF File, Distinct
      <3>6. DOMAIN updates = {Key(e) : e \in S}
        BY DEF UpdatesFor
      <3> HIDE DEF ids, updates
      <3>7. /\ d.ticker = c.ticker /\ d.hour = now /\ d.skipped = ids
            /\ IF DOMAIN updates = {} THEN d.pc = "context"
               ELSE d.pc = "rewrite" /\ d.updates = updates
        BY DEF Resolution
      <3> HIDE DEF d
      <3>8. Ripe(log, d) = S
        BY <3>4, <3>5, <3>7 DEF Ripe
      <3>9. DOMAIN updates = {} => S = {}
        BY <3>6
      <3> HIDE DEF S
      <3>10. AtWork(d, log, tmp)
        BY <3>7, <3>8, <3>9 DEF AtWork, updates
      <3>11. QED
        BY <3>2, <3>3, <3>10, <2>0, SoleStep
    <2>4. CASE Rewrite(p)
      <3> DEFINE blocks == Rotated(Updated(log, c.updates))
                 d == [pc |-> "write", ticker |-> c.ticker, date |-> c.date, hour |-> c.hour,
                       skipped |-> c.skipped, blocks |-> blocks]
      <3>1. Goto(p, d) /\ c.pc = "rewrite" /\ UNCHANGED <<log, tmp>>
        BY <2>4 DEF Rewrite, c
      <3>2. c.updates = UpdatesFor(Ripe(log, c), c.hour) /\ c.hour \in 0..MaxHours
        BY <3>1, <2>0 DEF AtWork, RunOK
      <3>3. Ripe(log, c) \subseteq {e \in log : Pending(e)}
        BY DEF Ripe
      <3>4. Updated(log, c.updates) = Resolve(log, Ripe(log, c), c.hour)
        BY <3>2, <3>3, <2>0, UpdateIsResolve DEF LogOK
      <3> HIDE DEF blocks
      <3>5. /\ d.pc = "write" /\ d.ticker = c.ticker /\ d.hour = c.hour
            /\ d.skipped = c.skipped /\ d.blocks = blocks
        OBVIOUS
      <3> HIDE DEF d
      <3>6. Ripe(log, d) = Ripe(log, c)
        BY <3>5 DEF Ripe
      <3>7. AtWork(d, log, tmp)
        BY <3>4, <3>5, <3>6 DEF AtWork, blocks
      <3>8. QED
        BY <3>1, <3>7, <2>0, SoleStep
    <2>5. CASE WriteTmp(p)
      <3> DEFINE d == Resolution("replace", c, c.hour, c.skipped)
      <3>1. Goto(p, d) /\ c.pc = "write" /\ tmp' = c.blocks /\ log' = log
        BY <2>5 DEF WriteTmp, c
      <3>2. tmp' = Rotated(Resolve(log, Ripe(log, c), c.hour))
        BY <3>1, <2>0 DEF AtWork
      <3>3. /\ d.pc = "replace" /\ d.ticker = c.ticker /\ d.hour = c.hour
            /\ d.skipped = c.skipped
        BY DEF Resolution
      <3> HIDE DEF d
      <3>4. Ripe(log, d) = Ripe(log, c)
        BY <3>3 DEF Ripe
      <3>5. AtWork(d, log, tmp')
        BY <3>2, <3>3, <3>4 DEF AtWork
      <3>6. QED
        BY <3>1, <3>5, <2>0, SoleStep
    <2>6. CASE Replace(p)
      <3> DEFINE d == Resolution("context", c, c.hour, c.skipped)
      <3>1. Goto(p, d) /\ c.pc = "replace" /\ log' = tmp
        BY <2>6 DEF Replace, c
      <3>2. log' = Rotated(Resolve(log, Ripe(log, c), c.hour)) /\ c.hour \in 0..MaxHours
        BY <3>1, <2>0 DEF AtWork, RunOK
      <3>3. LogOK(log') /\ Ripe(log', c) = {}
        BY <3>2, <2>0, ResolveFacts
      <3>4. /\ d.pc = "context" /\ d.ticker = c.ticker /\ d.hour = c.hour
            /\ d.skipped = c.skipped
        BY DEF Resolution
      <3> HIDE DEF d
      <3>5. Ripe(log', d) = {}
        BY <3>3, <3>4 DEF Ripe
      <3>6. AtWork(d, log', tmp')
        BY <3>4, <3>5 DEF AtWork
      <3>7. QED
        BY <3>1, <3>3, <3>6, SoleStep
    <2>7. CASE ReadContext(p)
      <3> DEFINE told == PastContext(log, c.ticker)
                 d == [pc |-> "graph", ticker |-> c.ticker, date |-> c.date, told |-> told]
      <3>1. Goto(p, d) /\ UNCHANGED <<log, tmp>>
        BY <2>7 DEF ReadContext, c
      <3> HIDE DEF told
      <3>2. d.pc = "graph" /\ d.ticker = c.ticker /\ d.told = told
        OBVIOUS
      <3> HIDE DEF d
      <3>3. AtWork(d, log, tmp)
        BY <3>2 DEF AtWork, told
      <3>4. QED
        BY <3>1, <3>3, <2>0, SoleStep
    <2>8. CASE CheckPending(p)
      <3> DEFINE d == IF AlreadyPending(c.ticker, c.date) THEN Idle
                      ELSE Run("append", c.ticker, c.date)
      <3>1. Goto(p, d) /\ UNCHANGED <<log, tmp>>
        BY <2>8 DEF CheckPending, c
      <3>2. \/ d.pc = "idle"
            \/ /\ d.pc = "append" /\ d.ticker = c.ticker /\ d.date = c.date
               /\ ~AlreadyPending(c.ticker, c.date)
        BY DEF Run, Idle
      <3> HIDE DEF d
      <3>3. AtWork(d, log, tmp)
        BY <3>2 DEF AtWork, AlreadyPending
      <3>4. QED
        BY <3>1, <3>3, <2>0, SoleStep
    <2>9. CASE StoreDecision(p)
      <3>1. PICK proposal \in ProposalsFor(c.ticker) :
              log' = log \cup {[id |-> stored + 1, at |-> now, ticker |-> c.ticker,
                                date |-> c.date, proposal |-> proposal,
                                state |-> "pending", bars |-> {}]}
        BY <2>9 DEF StoreDecision, c
      <3> DEFINE new == [id |-> stored + 1, at |-> now, ticker |-> c.ticker,
                         date |-> c.date, proposal |-> proposal,
                         state |-> "pending", bars |-> {}]
      <3>2. Goto(p, Idle) /\ c.pc = "append"
        BY <2>9 DEF StoreDecision, c
      <3>3. /\ Pending(new) /\ Key(new) = <<c.date, c.ticker>>
            /\ new.ticker = c.ticker /\ new.proposal = proposal
        BY DEF Pending, Key
      <3>4. log' = log \cup {new}
        BY <3>1
      <3> HIDE DEF new
      <3>5. \A e \in log : ~(Pending(e) /\ Key(e) = Key(new))
        BY <3>2, <3>3, <2>0 DEF AtWork
      <3>6. OnePending(log')
        BY <3>4, <3>5, <2>0 DEF OnePending, LogOK
      <3>7. ProposalsFit(log')
        BY <3>1, <3>3, <3>4, <2>0 DEF ProposalsFit, LogOK
      <3>8. ResolvedIn(log') = ResolvedIn(log)
        BY <3>3, <3>4 DEF ResolvedIn, Resolved
      <3>9. LogOK(log')
        BY <3>6, <3>7, <3>8, <2>0 DEF LogOK, OwnOutcomes
      <3>10. AtWork(Idle, log', tmp')
        BY DEF AtWork, Idle
      <3>11. QED
        BY <3>2, <3>9, <3>10, SoleStep
    <2>10. CASE Stop(p)
      <3>1. Goto(p, Idle) /\ UNCHANGED <<log, tmp>> /\ AtWork(Idle, log, tmp)
        BY <2>10 DEF Stop, AtWork, Idle
      <3>2. QED
        BY <3>1, <2>0, SoleStep
    <2>11. QED
      BY <1>2, <2>1, <2>2, <2>3, <2>4, <2>5, <2>6, <2>7, <2>8, <2>9, <2>10 DEF Step
  <1>3. QED
    BY <1>1, <1>2 DEF Next, Step

(* What a run has read is still what the log holds when it writes, and the log has   *)
(* one pending entry of a key (_resolve_pending_entries, store_decision).            *)
THEOREM SoleInvHolds == ASSUME OneProcess PROVE Spec => [](TypeInv /\ SoleInv)
  <1>1. Init => TypeInv /\ SoleInv
    BY InitTypeInv, InitSoleInv
  <1>2. TypeInv /\ SoleInv /\ [Next]_vars => (TypeInv /\ SoleInv)'
    BY StepTypeInv, StepSoleInv
  <1>3. QED
    BY <1>1, <1>2, PTL DEF Spec

(* An entry is scored with prices of its own day and after, whatever other entries   *)
(* its ticker has, and a proposal not to trade is not scored as a position           *)
(* (evaluate_crypto_decision, batch_update_with_outcomes).                           *)
THEOREM OutcomesAreOwn == ASSUME OneProcess PROVE Spec => []OwnOutcome
  <1>1. SoleInv => OwnOutcome
    BY DEF SoleInv, LogOK, OwnOutcomes, OwnOutcome
  <1>2. QED
    BY <1>1, SoleInvHolds, PTL

(* When a run goes on to its graph it has resolved every entry of its ticker that    *)
(* prices had come for (_resolve_pending_entries).                                   *)
THEOREM NothingDueIsLeft == ASSUME OneProcess PROVE Spec => []DueIsResolved
  <1>1. SoleInv => DueIsResolved
    BY DEF SoleInv, AtWork, Ripe, DueIsResolved
  <1>2. QED
    BY <1>1, SoleInvHolds, PTL

(* A lesson a run is not told of gave way to newer ones of its kind                  *)
(* (get_past_context).                                                               *)
THEOREM LessonsAreNewest == ASSUME OneProcess PROVE Spec => []ToldTheNewest
  <1>1. TypeInv /\ SoleInv => ToldTheNewest
    <2> SUFFICES ASSUME TypeInv, SoleInv, NEW p \in Procs, call[p].pc = "graph",
                        NEW e \in ResolvedIn(log), e.id \notin call[p].told
                 PROVE  LET own == e.ticker = call[p].ticker
                            rivals == {f \in ResolvedIn(log) :
                                         /\ f.id \in call[p].told
                                         /\ (f.ticker = call[p].ticker) = own}
                        IN  /\ Cardinality(rivals) = IF own THEN SameLessons ELSE CrossLessons
                            /\ \A f \in rivals : e.id < f.id
      BY DEF ToldTheNewest
    <2> DEFINE ticker == call[p].ticker
               told == call[p].told
               L == ResolvedIn(log)
               Own == OfTicker(L, ticker)
               Cross == OfOthers(L, ticker)
    <2>1. told = {f.id : f \in Newest(Own, SameLessons) \cup Newest(Cross, CrossLessons)}
      BY DEF SoleInv, AtWork, PastContext
    <2>2. Distinct(L) /\ Numbered(L)
      BY FileFacts DEF TypeInv
    <2>3. /\ Own = {f \in L : f.ticker = ticker} /\ Cross = {f \in L : f.ticker # ticker}
          /\ Distinct(Own) /\ Numbered(Own) /\ Distinct(Cross) /\ Numbered(Cross)
      BY <2>2 DEF OfTicker, OfOthers, Distinct, Numbered
    <2>4. SameLessons \in Nat /\ CrossLessons \in Nat
      BY LogAssumption
    <2>5. Newest(Own, SameLessons) \subseteq Own /\ Newest(Cross, CrossLessons) \subseteq Cross
      BY DEF Newest
    <2> DEFINE N == Newest(Own, SameLessons)
               M == Newest(Cross, CrossLessons)
    <2>6. \A f \in L : f.id \in told <=> f \in N \/ f \in M
      <3> HIDE DEF told, L, Own, Cross, ticker, N, M
      <3>1. told = {f.id : f \in N \cup M} /\ N \subseteq L /\ M \subseteq L
        BY <2>1, <2>3, <2>5 DEF N, M
      <3>2. \A f \in L : f.id \in told => \E g \in N \cup M : g.id = f.id
        BY <3>1
      <3>3. QED
        BY <3>1, <3>2, <2>2 DEF Distinct
    <2>7. \A f \in L : /\ f \in N => f.ticker = ticker
                       /\ f \in M => f.ticker # ticker
      BY <2>3, <2>5
    <2>8. N \subseteq L /\ M \subseteq L
      BY <2>3, <2>5
    <2> HIDE DEF told, L, Own, Cross, ticker, N, M
    <2>9. CASE e.ticker = ticker
      <3>1. {f \in L : f.id \in told /\ f.ticker = ticker} = N
        BY <2>6, <2>7, <2>8
      <3>2. e \in Own /\ e \notin N
        BY <2>3, <2>6, <2>9 DEF told, L
      <3>3. Cardinality(N) = SameLessons /\ \A f \in N : e.id < f.id
        BY <3>2, <2>3, <2>4, NewestFacts DEF N
      <3>4. {f \in L : f.id \in told /\ (f.ticker = ticker) = (e.ticker = ticker)}
              = {f \in L : f.id \in told /\ f.ticker = ticker}
        BY <2>9
      <3>5. QED
        BY <3>1, <3>3, <3>4, <2>9 DEF told, L, ticker
    <2>10. CASE e.ticker # ticker
      <3>1. {f \in L : f.id \in told /\ f.ticker # ticker} = M
        BY <2>6, <2>7, <2>8
      <3>2. e \in Cross /\ e \notin M
        BY <2>3, <2>6, <2>10 DEF told, L
      <3>3. Cardinality(M) = CrossLessons /\ \A f \in M : e.id < f.id
        BY <3>2, <2>3, <2>4, NewestFacts DEF M
      <3>4. {f \in L : f.id \in told /\ (f.ticker = ticker) = (e.ticker = ticker)}
              = {f \in L : f.id \in told /\ f.ticker # ticker}
        BY <2>10
      <3>5. QED
        BY <3>1, <3>3, <3>4, <2>10 DEF told, L, ticker
    <2>11. QED
      BY <2>9, <2>10
  <1>2. QED
    BY <1>1, SoleInvHolds, PTL

LEMMA OnlyRewritesRemove ==
    ASSUME TypeInv, SoleInv, [Next]_vars
    PROVE  \/ log \subseteq log'
           \/ \E p \in Procs :
                LET c == call[p]
                IN  /\ c.pc = "replace"
                    /\ c.hour \in 0..MaxHours
                    /\ log' = Rotated(Resolve(log, Ripe(log, c), c.hour))
  <1>1. ASSUME NEW p \in Procs, Replace(p)
        PROVE  /\ call[p].pc = "replace"
               /\ call[p].hour \in 0..MaxHours
               /\ log' = Rotated(Resolve(log, Ripe(log, call[p]), call[p].hour))
    BY <1>1 DEF Replace, TypeInv, RunOK, SoleInv, AtWork
  <1>2. CASE UNCHANGED vars \/ Tick
    BY <1>2 DEF vars, Tick
  <1>3. ASSUME NEW p \in Procs, Step(p), ~Replace(p) PROVE log \subseteq log'
    BY <1>3 DEF Step, Begin, LoadPending, Evaluate, Rewrite, WriteTmp, ReadContext,
                CheckPending, StoreDecision, Stop
  <1>4. QED
    BY <1>1, <1>2, <1>3 DEF Next, Step

(* A pending entry leaves the log only scored, by the run that rewrites the file     *)
(* (batch_update_with_outcomes, _apply_rotation: "Pending blocks are always kept").  *)
THEOREM PendingStays == ASSUME OneProcess PROVE Spec => PendingNeverPruned
  <1>1. TypeInv /\ SoleInv /\ [Next]_vars =>
          [\A e \in log : Pending(e) /\ (\A f \in log' : e.id # f.id) =>
             \E p \in Procs : /\ call[p].pc = "replace"
                              /\ call[p].ticker = e.ticker
                              /\ e.id \notin call[p].skipped
                              /\ Due(e, call[p].hour)]_vars
    <2> SUFFICES ASSUME TypeInv, SoleInv, [Next]_vars,
                        NEW e \in log, Pending(e), \A f \in log' : e.id # f.id
                 PROVE  \E p \in Procs : /\ call[p].pc = "replace"
                                         /\ call[p].ticker = e.ticker
                                         /\ e.id \notin call[p].skipped
                                         /\ Due(e, call[p].hour)
      OBVIOUS
    <2>1. ~(log \subseteq log')
      OBVIOUS
    <2>2. PICK p \in Procs :
            /\ call[p].pc = "replace"
            /\ log' = Rotated(Resolve(log, Ripe(log, call[p]), call[p].hour))
      BY <2>1, OnlyRewritesRemove
    <2> DEFINE R == Ripe(log, call[p])
               new == Resolve(log, R, call[p].hour)
    <2>3. ASSUME e \notin R PROVE FALSE
      <3>1. e \in new
        BY <2>3 DEF Resolve
      <3> HIDE DEF new
      <3>2. e \in Rotated(new)
        BY <3>1 DEF Rotated
      <3>3. QED
        BY <2>2, <3>2 DEF new
    <2>4. QED
      BY <2>2, <2>3 DEF Ripe
  <1>2. QED
    BY <1>1, SoleInvHolds, PTL DEF Spec, PendingNeverPruned

-----------------------------------------------------------------------------
(* Refinement: a rename of the rewritten file is a settlement of the       *)
(* journal, an append is a record, and no other step is seen.              *)

\* What the rename makes of the entries of the log.
LEMMA RewriteFacts ==
    ASSUME TypeInv, SoleInv, NEW p \in Procs, Replace(p)
    PROVE  /\ \A f \in log' : \E e \in log :
                /\ f.id = e.id
                /\ \/ f = e
                   \/ /\ Pending(e) /\ e.ticker = call[p].ticker
                      /\ \E o \in Outcomes : f = Scored(e, o)
           /\ \A e \in log : (\A f \in log' : f.id # e.id) =>
                /\ Resolved(e) \/ e.ticker = call[p].ticker
                /\ MaxEntries # 0
                /\ Cardinality(ResolvedIn(log')) = MaxEntries
                /\ \A f \in ResolvedIn(log') : e.id < f.id
  <1> DEFINE R == Ripe(log, call[p])
             t == call[p].hour
             New(e) == IF e \in R THEN Scored(e, Outcome(e, t)) ELSE e
             new == Resolve(log, R, t)
  <1>1. t \in 0..MaxHours /\ log' = Rotated(new)
    BY DEF Replace, TypeInv, RunOK, SoleInv, AtWork
  <1>2. new = {New(e) : e \in log}
    BY DEF Resolve
  <1>3. \A e \in log : e \in Entry /\ Outcome(e, t) \in Outcomes
    BY <1>1, OutcomeTyped DEF TypeInv, File
  <1>4. \A e \in R : Pending(e) /\ e.ticker = call[p].ticker
    BY DEF Ripe
  <1>5. File(new, stored)
    <2>1. Updated(log, UpdatesFor(R, t)) = new
      <3>1. R \subseteq {x \in log : Pending(x)}
        BY DEF Ripe
      <3>2. QED
        BY <1>1, <3>1, UpdateIsResolve DEF TypeInv, SoleInv, LogOK
    <2>2. UpdatesTyped(UpdatesFor(R, t))
      BY <1>1, UpdatesAreTyped DEF Ripe, TypeInv, File
    <2>3. QED
      BY <2>1, <2>2, UpdatedIsFile DEF TypeInv
  <1> HIDE DEF new, R, t
  <1>6. \A e \in log : New(e).id = e.id /\ (Resolved(New(e)) => Resolved(e) \/ e \in R)
    BY <1>3, ScoredFacts
  <1>7. \A e \in log : e \in R => \E o \in Outcomes : New(e) = Scored(e, o)
    BY <1>3
  <1>8. \A e \in log : e \notin R => New(e) = e
    OBVIOUS
  <1> HIDE DEF New
  <1>9. \A f \in log' : \E e \in log : f = New(e)
    BY <1>1, <1>2, RotatedFacts
  <1>10. ASSUME NEW e \in log, New(e) \notin log'
         PROVE  /\ Resolved(e) \/ e.ticker = call[p].ticker
                /\ MaxEntries # 0
                /\ Cardinality(ResolvedIn(log')) = MaxEntries
                /\ \A f \in ResolvedIn(log') : e.id < f.id
    <2> DEFINE N == Newest(ResolvedIn(new), MaxEntries)
    <2>1. MaxEntries # 0 /\ New(e) \in ResolvedIn(new) /\ New(e) \notin N
      BY <1>10, <1>1, <1>2 DEF Rotated, ResolvedIn, Resolved
    <2>2. ResolvedIn(log') = N
      BY <2>1, <1>1 DEF Rotated, ResolvedIn, Resolved, Newest
    <2>3. Distinct(ResolvedIn(new)) /\ Numbered(ResolvedIn(new)) /\ MaxEntries \in Nat
      BY <1>5, FileFacts, LogAssumption
    <2>4. Cardinality(N) = MaxEntries /\ \A g \in N : New(e).id < g.id
      BY <2>1, <2>3, NewestFacts
    <2>5. Resolved(e) \/ e \in R
      BY <2>1, <1>6 DEF ResolvedIn
    <2>6. QED
      BY <2>1, <2>2, <2>4, <2>5, <1>4, <1>6
  <1>11. QED
    BY <1>4, <1>6, <1>7, <1>8, <1>9, <1>10

\* The journal of a file has the decisions of its entries, by their ids.
LEMMA JournalFacts ==
    ASSUME NEW B, NEW n, File(B, n)
    PROVE  LET j == Decisions(B) IN
           /\ DOMAIN j = {e.id : e \in B}
           /\ \A e \in B : j[e.id] = Decision(e)
           /\ Journal!UnsettledIn(j) = {e.id : e \in {f \in B : Pending(f)}}
           /\ Journal!SettledIn(j) = {e.id : e \in ResolvedIn(B)}
           /\ j \in [{e.id : e \in B} -> Journal!Decision]
  <1> DEFINE j == Decisions(B)
  <1>1. DOMAIN j = {e.id : e \in B} /\ j = [i \in DOMAIN j |-> j[i]]
    BY DEF Decisions
  <1>2. \A e \in B : j[e.id] = Decision(e)
    <2> SUFFICES ASSUME NEW e \in B PROVE j[e.id] = Decision(e)
      OBVIOUS
    <2>1. (CHOOSE f \in B : f.id = e.id) = e
      BY DEF File, Distinct
    <2>2. QED
      BY <2>1 DEF Decisions
  <1>3. \A e \in B : Decision(e).result = <<"pending", {}>> <=> Pending(e)
    BY DEF Decision, Pending
  <1>4. \A e \in B : Decision(e) \in Journal!Decision
    <2> SUFFICES ASSUME NEW e \in B PROVE Decision(e) \in Journal!Decision
      OBVIOUS
    <2>1. e.ticker \in Tickers /\ e.date \in Days /\ e.bars \in BarSets
          /\ e.state \in {"pending", "flat", "scored"}
      BY EntryFacts DEF File
    <2>2. Decision(e).result \in ({"flat", "scored"} \X BarSets) \cup {<<"pending", {}>>}
      BY <2>1 DEF Decision, Pending
    <2>3. Decision(e) = [topic |-> e.ticker, date |-> e.date, result |-> Decision(e).result]
      BY DEF Decision
    <2>4. QED
      BY <2>1, <2>2, <2>3 DEF Journal!Decision
  <1> HIDE DEF j
  <1>5. Journal!UnsettledIn(j) = {e.id : e \in {f \in B : Pending(f)}}
    BY <1>1, <1>2, <1>3 DEF Journal!UnsettledIn
  <1>6. \A e, f \in B : e.id = f.id => e = f
    BY DEF File, Distinct
  <1>7. Journal!SettledIn(j) = {e.id : e \in ResolvedIn(B)}
    BY <1>1, <1>5, <1>6 DEF Journal!SettledIn, ResolvedIn, Resolved
  <1>8. j \in [{e.id : e \in B} -> Journal!Decision]
    BY <1>1, <1>2, <1>4
  <1>9. QED
    BY <1>1, <1>2, <1>5, <1>7, <1>8 DEF j

\* There are as many results as entries that have one.
LEMMA AsManyIds ==
    ASSUME NEW S, Distinct(S), Numbered(S)
    PROVE  Cardinality({e.id : e \in S}) = Cardinality(S)
  <1> DEFINE f == [e \in S |-> e.id]
             T == {e.id : e \in S}
  <1>1. f \in Bijection(S, T)
    BY DEF Bijection, Injection, Surjection, IsInjective, Distinct
  <1>2. IsFiniteSet(S)
    BY FilesAreFinite
  <1>3. ExistsBijection(S, T)
    BY <1>1 DEF ExistsBijection
  <1>4. QED
    BY <1>2, <1>3, FS_Bijection

\* Scoring an entry is giving a decision its result.
LEMMA ScoredIsSettled ==
    ASSUME NEW e \in Entry, NEW o \in Outcomes
    PROVE  \E r \in {"flat", "scored"} \X BarSets :
              Decision(Scored(e, o)) = [Decision(e) EXCEPT !.result = r]
  <1>1. /\ Resolved(Scored(e, o)) /\ Scored(e, o).ticker = e.ticker
        /\ Scored(e, o).date = e.date
        /\ Scored(e, o).state = o.state /\ Scored(e, o).bars = o.bars
    BY ScoredFacts
  <1>2. <<o.state, o.bars>> \in {"flat", "scored"} \X BarSets
    BY DEF Outcomes
  <1>3. Decision(Scored(e, o)) = [topic |-> e.ticker, date |-> e.date,
                                  result |-> <<o.state, o.bars>>]
    BY <1>1 DEF Decision, Resolved
  <1>4. QED
    BY <1>2, <1>3 DEF Decision

LEMMA ReplaceIsSettle ==
    ASSUME TypeInv, TypeInv', SoleInv, NEW p \in Procs, Replace(p)
    PROVE  call[p].ticker \in Tickers /\ Journal!Settle(call[p].ticker)
  <1> DEFINE topic == call[p].ticker
             j == Decisions(log)
             k == Decisions(log')
             settled == {"flat", "scored"} \X BarSets
  <1>1. topic \in Tickers /\ stored' = stored
    BY DEF Replace, TypeInv, RunOK
  <1>2. File(log, stored) /\ File(log', stored')
    BY DEF TypeInv
  <1>3. /\ DOMAIN j = {e.id : e \in log} /\ \A e \in log : j[e.id] = Decision(e)
        /\ Journal!UnsettledIn(j) = {e.id : e \in {f \in log : Pending(f)}}
        /\ Journal!SettledIn(j) = {e.id : e \in ResolvedIn(log)}
    BY <1>2, JournalFacts
  <1>4. /\ DOMAIN k = {e.id : e \in log'} /\ \A e \in log' : k[e.id] = Decision(e)
        /\ Journal!SettledIn(k) = {e.id : e \in ResolvedIn(log')}
        /\ k \in [{e.id : e \in log'} -> Journal!Decision]
    BY <1>2, JournalFacts
  <1>5. \A e \in log : Decision(e).topic = e.ticker
    BY DEF Decision
  <1>6. Cardinality(Journal!SettledIn(k)) = Cardinality(ResolvedIn(log'))
    <2>1. Distinct(ResolvedIn(log')) /\ Numbered(ResolvedIn(log'))
      BY <1>2, FileFacts
    <2>2. QED
      BY <2>1, <1>4, AsManyIds
  <1> HIDE DEF j, k, topic, settled
  <1>7. ASSUME NEW f \in log'
        PROVE  \E e \in log :
                 /\ f.id = e.id
                 /\ \/ f = e
                    \/ /\ Pending(e) /\ e.ticker = topic
                       /\ \E r \in settled : Decision(f) = [Decision(e) EXCEPT !.result = r]
    <2>1. PICK e \in log : /\ f.id = e.id
                           /\ \/ f = e
                              \/ /\ Pending(e) /\ e.ticker = topic
                                 /\ \E o \in Outcomes : f = Scored(e, o)
      BY RewriteFacts DEF topic
    <2>2. e \in Entry
      BY <1>2 DEF File
    <2>3. QED
      BY <2>1, <2>2, ScoredIsSettled DEF settled
  <1>8. DOMAIN k \in SUBSET DOMAIN j
    BY <1>3, <1>4, <1>7
  <1>9. ASSUME NEW i \in DOMAIN k
        PROVE  \/ k[i] = j[i]
               \/ /\ i \in Journal!UnsettledIn(j) /\ j[i].topic = topic
                  /\ \E r \in settled : k[i] = [j[i] EXCEPT !.result = r]
    BY <1>3, <1>4, <1>5, <1>7
  <1>10. ASSUME NEW i \in DOMAIN j \ DOMAIN k
         PROVE  /\ i \in Journal!SettledIn(j) \/ j[i].topic = topic
                /\ MaxEntries # 0
                /\ Cardinality(Journal!SettledIn(k)) = MaxEntries
                /\ \A m \in Journal!SettledIn(k) : i < m
    <2>1. PICK e \in log : i = e.id
      BY <1>3
    <2>2. \A f \in log' : f.id # e.id
      BY <2>1, <1>4
    <2>3. /\ Resolved(e) \/ e.ticker = topic
          /\ MaxEntries # 0
          /\ Cardinality(ResolvedIn(log')) = MaxEntries
          /\ \A f \in ResolvedIn(log') : e.id < f.id
      BY <2>2, RewriteFacts DEF topic
    <2>4. e \in ResolvedIn(log) <=> Resolved(e)
      BY DEF ResolvedIn
    <2>5. QED
      BY <2>1, <2>3, <2>4, <1>3, <1>4, <1>5, <1>6
  <1>11. \E kept \in SUBSET DOMAIN j : k \in [kept -> Journal!Decision]
    BY <1>4, <1>8
  <1>12. Journal!Settle(topic)
    <2>1. j = Decisions(log) /\ k = Decisions(log)'
      BY DEF j, k, Decisions
    <2>2. \A i \in DOMAIN k : Journal!Settles(i, topic)
      BY <2>1, <1>9 DEF Journal!Settles, settled
    <2>3. \A i \in DOMAIN j \ DOMAIN k : Journal!Forgets(i, topic)
      <3>1. Journal!Cardinality(Journal!SettledIn(k)) = Cardinality(Journal!SettledIn(k))
        BY DEF Journal!Cardinality, Cardinality
      <3>2. QED
        BY <2>1, <3>1, <1>10 DEF Journal!Forgets
    <2>4. QED
      BY <2>1, <2>2, <2>3, <1>1, <1>11 DEF Journal!Settle
  <1>13. QED
    BY <1>1, <1>12 DEF topic

LEMMA StoreIsRecord ==
    ASSUME TypeInv, TypeInv', SoleInv, NEW p \in Procs, StoreDecision(p)
    PROVE  /\ call[p].ticker \in Tickers /\ call[p].date \in Days
           /\ Journal!Record(call[p].ticker, call[p].date)
  <1> DEFINE topic == call[p].ticker
             day == call[p].date
             j == Decisions(log)
             k == Decisions(log')
             Added(proposal) ==
               [id |-> stored + 1, at |-> now, ticker |-> topic, date |-> day,
                proposal |-> proposal, state |-> "pending", bars |-> {}]
  <1>1. /\ topic \in Tickers /\ day \in Days /\ stored' = stored + 1 /\ stored \in Nat
        /\ \A e \in log : ~(Pending(e) /\ Key(e) = <<day, topic>>)
    BY LogAssumption DEF StoreDecision, TypeInv, RunOK, SoleInv, AtWork
  <1>2. File(log, stored) /\ File(log', stored')
    BY DEF TypeInv
  <1>3. PICK new : /\ log' = log \cup {new} /\ new.id = stored + 1 /\ Pending(new)
                   /\ new.ticker = topic /\ new.date = day
    <2>1. PICK proposal \in ProposalsFor(topic) : log' = log \cup {Added(proposal)}
      BY DEF StoreDecision
    <2>2. /\ Added(proposal).id = stored + 1 /\ Pending(Added(proposal))
          /\ Added(proposal).ticker = topic /\ Added(proposal).date = day
      BY DEF Pending
    <2> HIDE DEF Added
    <2>3. QED
      BY <2>1, <2>2
  <1>4. /\ DOMAIN j = {e.id : e \in log} /\ \A e \in log : j[e.id] = Decision(e)
        /\ Journal!UnsettledIn(j) = {e.id : e \in {f \in log : Pending(f)}}
    BY <1>2, JournalFacts
  <1>5. /\ DOMAIN k = {e.id : e \in log'} /\ \A e \in log' : k[e.id] = Decision(e)
        /\ k = [i \in DOMAIN k |-> k[i]]
    BY <1>2, JournalFacts
  <1> HIDE DEF j, k, topic, day
  <1>6. \A e \in log : e.id # stored + 1
    BY <1>1, <1>2, EntryFacts DEF File
  <1>7. Decision(new) = [topic |-> topic, date |-> day, result |-> <<"pending", {}>>]
    BY <1>3 DEF Decision
  <1>8. DOMAIN k = DOMAIN j \cup {stored + 1}
    BY <1>3, <1>4, <1>5
  <1>9. \A i \in DOMAIN k :
          k[i] = IF i = stored + 1
                 THEN [topic |-> topic, date |-> day, result |-> <<"pending", {}>>]
                 ELSE j[i]
    <2>1. k[stored + 1] = [topic |-> topic, date |-> day, result |-> <<"pending", {}>>]
      BY <1>3, <1>5, <1>7
    <2>2. \A e \in log : e.id # stored + 1 /\ k[e.id] = j[e.id]
      BY <1>3, <1>4, <1>5, <1>6
    <2>3. \A i \in DOMAIN k : i = stored + 1 \/ \E e \in log : i = e.id
      BY <1>4, <1>8
    <2>4. QED
      BY <2>1, <2>2, <2>3
  <1>10. \A i \in Journal!UnsettledIn(j) : j[i].topic # topic \/ j[i].date # day
    <2>1. \A e \in log : Pending(e) => e.ticker # topic \/ e.date # day
      BY <1>1 DEF Key
    <2>2. \A e \in log : Decision(e).topic = e.ticker /\ Decision(e).date = e.date
      BY DEF Decision
    <2>3. QED
      BY <2>1, <2>2, <1>4
  <1>11. Journal!Record(topic, day)
    <2>1. j = Decisions(log) /\ k = Decisions(log)'
      BY DEF j, k, Decisions
    <2>2. k = [i \in DOMAIN j \cup {stored + 1} |->
                IF i = stored + 1
                THEN [topic |-> topic, date |-> day, result |-> <<"pending", {}>>]
                ELSE j[i]]
      BY <1>5, <1>8, <1>9
    <2>3. QED
      BY <2>1, <2>2, <1>1, <1>10 DEF Journal!Record
  <1>12. QED
    BY <1>1, <1>11 DEF topic, day

LEMMA StepIsJournalStep ==
    ASSUME TypeInv, TypeInv', SoleInv, [Next]_vars
    PROVE  [Journal!Next]_(Journal!journalVars)
  <1>1. ASSUME log' = log, stored' = stored PROVE UNCHANGED Journal!journalVars
    BY <1>1 DEF Journal!journalVars, Decisions
  <1>2. CASE UNCHANGED vars \/ Tick
    BY <1>1, <1>2 DEF vars, Tick
  <1>3. ASSUME NEW p \in Procs, Step(p), ~Replace(p), ~StoreDecision(p)
        PROVE  log' = log /\ stored' = stored
    BY <1>3 DEF Step, Begin, LoadPending, Evaluate, Rewrite, WriteTmp, ReadContext,
                CheckPending, Stop
  <1>4. ASSUME NEW p \in Procs, Replace(p) PROVE Journal!Next
    BY <1>4, ReplaceIsSettle DEF Journal!Next
  <1>5. ASSUME NEW p \in Procs, StoreDecision(p) PROVE Journal!Next
    BY <1>5, StoreIsRecord DEF Journal!Next
  <1>6. QED
    BY <1>1, <1>2, <1>3, <1>4, <1>5 DEF Next, Step

(* A run's reads and writes of the log, with crashes between them, are seen by the   *)
(* others as one step: a decision is recorded once, gets its result once, and is     *)
(* forgotten only for newer ones (batch_update_with_outcomes, store_decision).       *)
THEOREM Refinement == ASSUME OneProcess PROVE Spec => ImplementsJournal
  <1>1. Init => Journal!Init
    <2>1. Decisions({}) = [i \in {} |-> <<"pending", {}>>]
      BY DEF Decisions
    <2>2. QED
      BY <2>1 DEF Init, Journal!Init
  <1>2. TypeInv /\ TypeInv' /\ SoleInv /\ [Next]_vars =>
          [Journal!Next]_(Journal!journalVars)
    BY StepIsJournalStep
  <1>3. QED
    BY <1>1, <1>2, SoleInvHolds, PTL DEF Spec, ImplementsJournal, Journal!Spec
=============================================================================
