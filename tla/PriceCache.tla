----------------------------- MODULE PriceCache -----------------------------
(***************************************************************************)
(* The price history of the stock path: load_ohlcv and what it calls in    *)
(* tradingagents/dataflows/stockstats_utils.py.                            *)
(*                                                                         *)
(* The tools of one turn of an analyst run in parallel threads, and runs   *)
(* of several processes share data_cache_dir.  A thread looks for the file *)
(* of its symbol and day, downloads and writes it if it is not usable, and *)
(* serves the rows up to the trade date.  Nothing locks the file, to_csv   *)
(* truncates it and writes it piece by piece, and a process may die in     *)
(* between.                                                                *)
(*                                                                         *)
(* One symbol is modelled.  Row d is that of day d, if it was a trading    *)
(* day; row 0 of a file is the line of column names.  Prices are left out. *)
(***************************************************************************)
EXTENDS Integers, FiniteSets

CONSTANTS
    Threads,      \* tool calls that may load at the same time
    MaxStale,     \* MAX_OHLCV_STALE_DAYS
    MaxTries,     \* attempts of yf_retry: max_retries + 1
    Histories,    \* days with a row, as Yahoo may have them
    FirstDay,     \* bound: the day on which the runs start
    MaxDay,       \* bound: days
    Absent        \* no file, no load, no answer

VARIABLES
    today,      \* the date
    file,       \* file[d] : the rows in the file of day d
    load,       \* load[t] : the load thread t makes or has made
    torn        \* days whose file a process died writing

priceVars == <<today, file, load, torn>>

Days == 1..MaxDay
Lines == 0..MaxDay

Done == {"served", "nothing", "failed"}
Steps == {"lookup", "download", "open", "write", "check"}

RowSets == SUBSET Lines
LoadRecord ==
    [pc: Steps \cup Done, day: Days, date: Days, tries: Nat,
     unwritten: RowSets, rows: RowSets]

ASSUME PriceCacheAssumption ==
    /\ MaxStale \in Nat
    /\ MaxTries \in Nat \ {0}
    /\ MaxDay \in Nat
    /\ FirstDay \in 1..MaxDay
    /\ Histories \subseteq SUBSET (1..MaxDay)
    /\ Absent \notin LoadRecord
    /\ \A rows \in RowSets : rows # Absent

Loading(t) == load[t] # Absent /\ load[t].pc \notin Done
At(t, pc) == load[t] # Absent /\ load[t].pc = pc

Latest(rows) == CHOOSE r \in rows : \A s \in rows : r >= s
First(lines) == CHOOSE r \in lines : \A s \in lines : r <= s

-----------------------------------------------------------------------------
(* Operators of the load.                                                  *)

\* A file is served if it has its column names and a row.
Usable(lines) == 0 \in lines /\ lines # {0}

\* Mutant: whatever was downloaded is cached.
CacheableAlways(frame) == frame \subseteq Days

\* Only real data is cached.
Cacheable(frame) == frame # {}

UpTo(rows, date) == {r \in rows : r <= date}

\* Mutant: the whole frame is judged, later rows too.
TooOldUnfiltered(rows, date) == rows # {} /\ date - Latest(rows) > MaxStale

\* _assert_ohlcv_not_stale: an empty frame passes.
TooOld(rows, date) ==
    LET kept == UpTo(rows, date) IN kept # {} /\ date - Latest(kept) > MaxStale

-----------------------------------------------------------------------------
(* The steps of a load.                                                    *)

PriceInit ==
    /\ today = FirstDay
    /\ file = [d \in Days |-> Absent]
    /\ load = [t \in Threads |-> Absent]
    /\ torn = {}

\* The name of the file is that of the day on which the load begins.
Locate(t, date) ==
    /\ ~Loading(t)
    /\ load' = [load EXCEPT ![t] =
                  [pc |-> "lookup", day |-> today, date |-> date, tries |-> 0,
                   unwritten |-> {}, rows |-> {}]]
    /\ UNCHANGED <<today, file, torn>>

\* The load goes on, or ends, with a frame.
With(t, pc, rows) ==
    load' = [load EXCEPT ![t] =
               [@ EXCEPT !.pc = pc, !.tries = 0, !.rows = rows]]
Fail(t) == With(t, "failed", {})

\* A file without a byte makes read_csv raise, one without columns or rows is a miss.
Lookup(t) ==
    /\ At(t, "lookup")
    /\ LET lines == file[load[t].day] IN
       \/ /\ lines = {}
          /\ Fail(t)
       \/ /\ lines \notin {Absent, {}}
          /\ Usable(lines)
          /\ With(t, "check", lines \ {0})
       \/ /\ lines # {}
          /\ lines # Absent => ~Usable(lines)
          /\ load' = [load EXCEPT ![t] = [@ EXCEPT !.pc = "download", !.tries = 1]]
    /\ UNCHANGED <<today, file, torn>>

\* Yahoo returns the rows it has until today, or an empty frame.
Downloaded(t) ==
    /\ At(t, "download")
    /\ \E history \in Histories :
          LET frame == history \cap 1..load[t].day IN
          With(t, IF Cacheable(frame) THEN "open" ELSE "nothing", frame)
    /\ UNCHANGED <<today, file, torn>>

\* A rate limit is tried again, as long as there is an attempt left.
Throttled(t) ==
    /\ At(t, "download")
    /\ load[t].tries < MaxTries
    /\ load' = [load EXCEPT ![t] = [@ EXCEPT !.tries = load[t].tries + 1]]
    /\ UNCHANGED <<today, file, torn>>

\* Rate limited at the last attempt, or another error at any.
DownloadFails(t) ==
    /\ At(t, "download")
    /\ Fail(t)
    /\ UNCHANGED <<today, file, torn>>

\* to_csv truncates the file ...
Open(t) ==
    /\ At(t, "open")
    /\ file' = [file EXCEPT ![load[t].day] = {}]
    /\ load' = [load EXCEPT ![t] =
                  [@ EXCEPT !.pc = "write", !.unwritten = {0} \cup load[t].rows]]
    /\ UNCHANGED <<today, torn>>

\* ... and writes it line by line, each at its own place.
WriteLine(t) ==
    /\ At(t, "write")
    /\ LET l == load[t]
           line == First(l.unwritten)
       IN /\ file' = [file EXCEPT ![l.day] = @ \cup {line}]
          /\ load' = [load EXCEPT ![t] =
                        [@ EXCEPT !.unwritten = l.unwritten \ {line},
                                  !.pc = IF l.unwritten = {line} THEN "check" ELSE l.pc]]
    /\ UNCHANGED <<today, torn>>

\* The rows up to the trade date are served unless the last of them is too old.
Check(t) ==
    /\ At(t, "check")
    /\ LET l == load[t] IN
       IF TooOld(l.rows, l.date)
       THEN With(t, "nothing", {})
       ELSE With(t, "served", UpTo(l.rows, l.date))
    /\ UNCHANGED <<today, file, torn>>

LoadStep(t) ==
    \/ Lookup(t) \/ Downloaded(t) \/ Throttled(t) \/ DownloadFails(t)
    \/ Open(t) \/ WriteLine(t) \/ Check(t)

\* The process of t dies: what is in the file stays.
Die(t) ==
    /\ Loading(t)
    /\ load' = [load EXCEPT ![t] = Absent]
    /\ torn' = IF At(t, "write") THEN torn \cup {load[t].day} ELSE torn
    /\ UNCHANGED <<today, file>>

Midnight ==
    /\ today < MaxDay
    /\ today' = today + 1
    /\ UNCHANGED <<file, load, torn>>

-----------------------------------------------------------------------------
(* Correctness.                                                            *)

LoadOK(l) ==
    /\ l \in LoadRecord
    /\ l.day \in 1..today /\ l.date \in 1..l.day
    /\ l.tries \in 0..MaxTries
    /\ l.unwritten \subseteq 0..l.day
    /\ l.rows \subseteq 1..l.day

PriceTypeOK ==
    /\ today \in Days
    /\ \A d \in Days : file[d] = Absent \/ file[d] \subseteq 0..d
    /\ \A t \in Threads : load[t] = Absent \/ LoadOK(load[t])
    /\ torn \subseteq Days

\* Whichever threads wrote the file it came from, and however far, a frame that is
\* served has no row after the trade date, and its last row is recent for that
\* date, not only for the day of the run (load_ohlcv, look-ahead and staleness).
ServedFits ==
    \A t \in Threads : At(t, "served") =>
        LET l == load[t] IN
        /\ \A r \in l.rows : r <= l.date
        /\ l.rows # {} => l.date - Latest(l.rows) <= MaxStale

\* A file nobody is writing is a hit from then on, unless a process died writing
\* it: threads that write it at the same time never leave it without its columns
\* or without a row (the poisoned cache of stockstats_utils.py:159-161).
PoisonOnlyByCrash ==
    \A d \in Days :
        \/ file[d] = Absent
        \/ d \in torn
        \/ \E t \in Threads : At(t, "write") /\ load[t].day = d
        \/ Usable(file[d])

=============================================================================
