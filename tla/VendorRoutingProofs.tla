------------------------ MODULE VendorRoutingProofs ------------------------
(***************************************************************************)
(* Proofs about VendorRouting and the price files of PriceCache, for any   *)
(* number of threads, days, attempts, histories, methods and vendor lists. *)
(*                                                                         *)
(* PoisonOnlyByCrash is not inductive: while two threads write a file, it  *)
(* may lack what the other has truncated away.  The invariant says of a    *)
(* file that is not usable who will make it so: the thread that opened it  *)
(* last has everything it wrote still in it.                               *)
(*                                                                         *)
(* VerdictIsWarranted speaks of calls that have ended.  The invariant says *)
(* of one that goes on what its loop has noted of the vendors asked so far *)
(* (Noted): none answered, no data is noted, and so is an error other than *)
(* a rate limit, of which vendors of optional data report none.            *)
(***************************************************************************)
EXTENDS VendorRouting, DataLemmas

\* A frame that is served fits the trade date.
Fits(l) ==
    /\ \A r \in l.rows : r <= l.date
    /\ l.rows # {} => l.date - Latest(l.rows) <= MaxStale

LoadGood(l) ==
    /\ LoadOK(l)
    /\ l.pc \in {"open", "write"} => l.rows # {}
    /\ l.pc = "write" => l.unwritten # {} /\ l.unwritten \subseteq {0} \cup l.rows
    /\ l.pc = "served" => Fits(l)

LoadInv ==
    /\ DOMAIN load = Threads
    /\ \A t \in Threads : load[t] = Absent \/ LoadGood(load[t])

\* t has everything it wrote still in the file of day d.
Backs(t, d) ==
    /\ At(t, "write") /\ load[t].day = d
    /\ {0} \cup load[t].rows \subseteq file[d] \cup load[t].unwritten

FileInv ==
    /\ DOMAIN file = Days
    /\ \A d \in Days :
          \/ file[d] = Absent
          \/ d \in torn
          \/ Usable(file[d])
          \/ \E t \in Threads : Backs(t, d)

FileTypes ==
    /\ \A d \in Days : file[d] = Absent \/ file[d] \subseteq 0..d
    /\ \A t \in Threads :
          At(t, "write") => file[load[t].day] \subseteq 0..load[t].day
    /\ torn \subseteq Days

\* Only a thread that asks yfinance for prices loads them.
RouteInv ==
    /\ DOMAIN route = Threads
    /\ \A t \in Threads :
          load[t] # Absent => Asking(t) /\ ThroughFiles(Vendor(route[t]), route[t].method)

StockInv ==
    /\ today \in Days
    /\ LoadInv /\ FileTypes /\ FileInv /\ RouteInv

-----------------------------------------------------------------------------
(* Sets of days.                                                           *)

LEMMA LatestFacts ==
    ASSUME NEW rows, rows \subseteq Days, rows # {}
    PROVE  Latest(rows) \in rows
  <1>1. MaxDay \in Int /\ rows \subseteq Int /\ \A r \in rows : r <= MaxDay
    BY PriceCacheAssumption DEF Days
  <1>2. \E r \in rows : \A s \in rows : r >= s
    BY <1>1, Greatest
  <1>3. QED
    BY <1>2 DEF Latest

LEMMA FirstFacts ==
    ASSUME NEW lines, lines \subseteq Lines, lines # {}
    PROVE  First(lines) \in lines
  <1>1. lines \subseteq Nat
    BY PriceCacheAssumption DEF Lines
  <1>2. \E r \in lines : \A s \in lines : r <= s
    BY <1>1, Least
  <1>3. QED
    BY <1>2 DEF First

LEMMA UpToFits ==
    ASSUME NEW rows, rows \subseteq Days, NEW date \in Days, ~TooOld(rows, date)
    PROVE  /\ UpTo(rows, date) \subseteq rows
           /\ \A r \in UpTo(rows, date) : r <= date
           /\ UpTo(rows, date) # {} => date - Latest(UpTo(rows, date)) <= MaxStale
  <1>1. UpTo(rows, date) \subseteq rows /\ \A r \in UpTo(rows, date) : r <= date
    BY DEF UpTo
  <1>2. ASSUME UpTo(rows, date) # {}
        PROVE  date - Latest(UpTo(rows, date)) <= MaxStale
    <2>1. Latest(UpTo(rows, date)) \in Days
      BY <1>1, <1>2, LatestFacts
    <2>2. ~(date - Latest(UpTo(rows, date)) > MaxStale)
      BY <1>2 DEF TooOld
    <2>3. QED
      BY <2>1, <2>2, PriceCacheAssumption DEF Days
  <1>3. QED
    BY <1>1, <1>2

(* A file that has its columns and a row keeps them when it grows. *)
LEMMA UsableGrows ==
    ASSUME NEW lines, NEW more, lines \subseteq more, Usable(lines)
    PROVE  Usable(more)
  BY DEF Usable

-----------------------------------------------------------------------------
(* What a step of one thread leaves alone.                                 *)

LEMMA OneLoad ==
    ASSUME LoadInv, NEW t \in Threads, UNCHANGED today,
           DOMAIN load' = Threads, \A u \in Threads \ {t} : load'[u] = load[u],
           load'[t] = Absent \/ LoadGood(load'[t])
    PROVE  LoadInv'
  BY DEF LoadInv, LoadGood, LoadOK, Fits

LEMMA FilesAlone ==
    ASSUME FileInv, NEW t \in Threads, UNCHANGED <<file, torn>>, ~At(t, "write"),
           \A u \in Threads \ {t} : load'[u] = load[u]
    PROVE  FileInv'
  BY DEF FileInv, Backs, At

LEMMA InitStockInv == StockInit => StockInv
  <1>. SUFFICES ASSUME StockInit PROVE StockInv
    OBVIOUS
  <1>1. today \in Days
    BY PriceCacheAssumption DEF StockInit, PriceInit, Days
  <1>2. LoadInv /\ FileInv /\ FileTypes /\ RouteInv
    BY DEF StockInit, PriceInit, LoadInv, FileInv, FileTypes, RouteInv, At
  <1>3. QED
    BY <1>1, <1>2 DEF StockInv

-----------------------------------------------------------------------------
(* The steps of a load.                                                    *)

\* What a step of thread t has to keep.
FilesKept ==
    /\ LoadInv' /\ FileTypes' /\ FileInv'
    /\ today' \in Days

LEMMA LoadOnly ==
    ASSUME StockInv, NEW t \in Threads, NEW x, load' = [load EXCEPT ![t] = x],
           UNCHANGED <<today, file, torn>>, ~At(t, "write"),
           x = Absent \/ (LoadGood(x) /\ x.pc # "write")
    PROVE  FilesKept
  <1>1. DOMAIN load = Threads
    BY DEF StockInv, LoadInv
  <1>2. /\ DOMAIN load' = Threads /\ load'[t] = x
        /\ \A u \in Threads \ {t} : load'[u] = load[u]
    BY <1>1
  <1>3. LoadInv'
    BY <1>2, OneLoad DEF StockInv
  <1>4. FileInv'
    BY <1>2, FilesAlone DEF StockInv
  <1>5. FileTypes'
    BY <1>2 DEF StockInv, FileTypes, At
  <1>6. QED
    BY <1>3, <1>4, <1>5 DEF FilesKept, StockInv

LEMMA LoadFacts ==
    ASSUME StockInv, NEW t \in Threads, load[t] # Absent
    PROVE  /\ LoadGood(load[t]) /\ load[t] \in LoadRecord
           /\ load[t].pc \in Steps \cup Done
           /\ load[t].day \in 1..today /\ load[t].date \in 1..load[t].day
           /\ load[t].day \in Days /\ load[t].date \in Days
           /\ load[t].tries \in 0..MaxTries
           /\ load[t].unwritten \in RowSets /\ load[t].rows \in RowSets
           /\ load[t].unwritten \subseteq 0..load[t].day
           /\ load[t].rows \subseteq 1..load[t].day
           /\ today \in Nat /\ today <= MaxDay /\ MaxDay \in Nat
  <1>1. LoadGood(load[t]) /\ today \in Days /\ MaxDay \in Nat
    BY PriceCacheAssumption DEF StockInv, LoadInv
  <1>2. LoadOK(load[t]) /\ load[t] \in LoadRecord
    BY <1>1 DEF LoadGood, LoadOK
  <1>3. /\ load[t].pc \in Steps \cup Done
        /\ load[t].day \in Days /\ load[t].date \in Days
        /\ load[t].unwritten \in RowSets /\ load[t].rows \in RowSets
    BY <1>2 DEF LoadRecord
  <1>4. QED
    BY <1>1, <1>2, <1>3 DEF LoadOK, Days

(* A load that is where it was but for the step it is at, its attempts, its rows and *)
(* what it has yet to write. *)
LEMMA Continued ==
    ASSUME StockInv, NEW t \in Threads, load[t] # Absent,
           NEW pc \in Steps \cup Done, NEW tries \in 0..MaxTries,
           NEW unwritten, unwritten \subseteq 0..load[t].day,
           NEW rows, rows \subseteq 1..load[t].day,
           NEW x, x \in LoadRecord,
           x.pc = pc, x.day = load[t].day, x.date = load[t].date, x.tries = tries,
           x.unwritten = unwritten, x.rows = rows,
           pc \in {"open", "write"} => rows # {},
           pc = "write" => unwritten # {} /\ unwritten \subseteq {0} \cup rows,
           pc = "served" => Fits(x)
    PROVE  LoadGood(x)
  BY LoadFacts DEF LoadGood, LoadOK

LEMMA WithKeeps ==
    ASSUME StockInv, NEW t \in Threads, load[t] # Absent, ~At(t, "write"),
           UNCHANGED <<today, file, torn>>,
           NEW pc \in Steps \cup Done, NEW rows, rows \subseteq 1..load[t].day,
           pc # "write", pc = "open" => rows # {},
           pc = "served" => /\ \A r \in rows : r <= load[t].date
                            /\ rows # {} => load[t].date - Latest(rows) <= MaxStale,
           With(t, pc, rows)
    PROVE  FilesKept
  <1>. DEFINE x == [load[t] EXCEPT !.pc = pc, !.tries = 0, !.rows = rows]
  <1>1. rows \in RowSets
    BY LoadFacts DEF RowSets, Lines
  <1>2. 0 \in 0..MaxTries /\ 0 \in Nat
    BY PriceCacheAssumption
  <1>3. x \in LoadRecord
    BY <1>1, <1>2, LoadFacts DEF LoadRecord
  <1>4. /\ x.pc = pc /\ x.day = load[t].day /\ x.date = load[t].date /\ x.tries = 0
        /\ x.unwritten = load[t].unwritten /\ x.rows = rows
    BY LoadFacts DEF LoadRecord
  <1>5. load' = [load EXCEPT ![t] = x]
    BY DEF With
  <1>. HIDE DEF x
  <1>6. pc = "served" => Fits(x)
    BY <1>4 DEF Fits
  <1>7. LoadGood(x)
    BY <1>2, <1>3, <1>4, <1>6, LoadFacts, Continued
  <1>8. QED
    BY <1>4, <1>5, <1>7, LoadOnly

LEMMA FailKeeps ==
    ASSUME StockInv, NEW t \in Threads, load[t] # Absent, ~At(t, "write"),
           UNCHANGED <<today, file, torn>>, Fail(t)
    PROVE  FilesKept
  <1>1. "failed" \in Steps \cup Done
    BY DEF Done
  <1>2. {} \subseteq 1..load[t].day
    OBVIOUS
  <1>3. QED
    BY <1>1, <1>2, WithKeeps DEF Fail

LEMMA LocateKeeps ==
    ASSUME StockInv, NEW t \in Threads, load[t] = Absent,
           NEW date \in 1..today, Locate(t, date)
    PROVE  FilesKept
  <1>. DEFINE x == [pc |-> "lookup", day |-> today, date |-> date, tries |-> 0,
                    unwritten |-> {}, rows |-> {}]
  <1>1. today \in Days /\ today \in Nat /\ date \in Days /\ MaxTries \in Nat
    BY PriceCacheAssumption DEF StockInv, Days
  <1>2. {} \in RowSets /\ "lookup" \in Steps \cup Done
    BY DEF RowSets, Steps
  <1>3. x \in LoadRecord
    BY <1>1, <1>2 DEF LoadRecord
  <1>4. LoadGood(x) /\ x.pc = "lookup"
    BY <1>1, <1>3 DEF LoadGood, LoadOK, Days
  <1>5. load' = [load EXCEPT ![t] = x] /\ UNCHANGED <<today, file, torn>>
    BY DEF Locate
  <1>. HIDE DEF x
  <1>6. QED
    BY <1>4, <1>5, LoadOnly DEF At

LEMMA LookupKeeps ==
    ASSUME StockInv, NEW t \in Threads, Lookup(t)
    PROVE  FilesKept
  <1>1. /\ load[t] # Absent /\ ~At(t, "write") /\ UNCHANGED <<today, file, torn>>
    BY DEF Lookup, At
  <1>. DEFINE lines == file[load[t].day]
  <1>2. CASE Fail(t)
    BY <1>1, <1>2, FailKeeps
  <1>3. CASE lines # Absent /\ With(t, "check", lines \ {0})
    <2>1. lines \subseteq 0..load[t].day
      BY <1>1, <1>3, LoadFacts DEF StockInv, FileTypes
    <2>2. lines \ {0} \subseteq 1..load[t].day
      BY <2>1, <1>1, LoadFacts
    <2>3. "check" \in Steps \cup Done
      BY DEF Steps
    <2>4. QED
      BY <1>1, <1>3, <2>2, <2>3, WithKeeps
  <1>4. CASE load' = [load EXCEPT ![t] = [@ EXCEPT !.pc = "download", !.tries = 1]]
    <2>. DEFINE x == [load[t] EXCEPT !.pc = "download", !.tries = 1]
    <2>1. "download" \in Steps \cup Done /\ 1 \in 0..MaxTries
      BY PriceCacheAssumption DEF Steps
    <2>2. x \in LoadRecord
      BY <1>1, <2>1, LoadFacts DEF LoadRecord
    <2>3. /\ x.pc = "download" /\ x.day = load[t].day /\ x.date = load[t].date /\ x.tries = 1
          /\ x.unwritten = load[t].unwritten /\ x.rows = load[t].rows
      BY <1>1, LoadFacts DEF LoadRecord
    <2>4. load' = [load EXCEPT ![t] = x]
      BY <1>4
    <2>. HIDE DEF x
    <2>5. LoadGood(x)
      BY <1>1, <2>1, <2>2, <2>3, LoadFacts, Continued
    <2>6. QED
      BY <1>1, <2>3, <2>4, <2>5, LoadOnly
  <1>5. QED
    BY <1>2, <1>3, <1>4 DEF Lookup

LEMMA DownloadKeeps ==
    ASSUME StockInv, NEW t \in Threads,
           Downloaded(t) \/ Throttled(t) \/ DownloadFails(t)
    PROVE  FilesKept
  <1>1. /\ load[t] # Absent /\ load[t].pc = "download" /\ ~At(t, "write")
        /\ UNCHANGED <<today, file, torn>>
    BY DEF Downloaded, Throttled, DownloadFails, At
  <1>2. CASE Downloaded(t)
    <2>1. PICK history \in Histories :
             LET frame == history \cap 1..load[t].day
             IN  With(t, IF Cacheable(frame) THEN "open" ELSE "nothing", frame)
      BY <1>2 DEF Downloaded
    <2>. DEFINE frame == history \cap 1..load[t].day
                pc == IF Cacheable(frame) THEN "open" ELSE "nothing"
    <2>2. With(t, pc, frame)
      BY <2>1
    <2>3. /\ pc \in Steps \cup Done /\ pc # "write" /\ pc # "served"
          /\ pc = "open" => frame # {}
      BY DEF Steps, Done, Cacheable
    <2>4. frame \subseteq 1..load[t].day
      OBVIOUS
    <2>. HIDE DEF frame, pc
    <2>5. QED
      BY <1>1, <2>2, <2>3, <2>4, WithKeeps
  <1>3. CASE Throttled(t)
    <2>. DEFINE x == [load[t] EXCEPT !.tries = load[t].tries + 1]
    <2>1. load[t].tries + 1 \in 0..MaxTries
      BY <1>1, <1>3, LoadFacts, PriceCacheAssumption DEF Throttled
    <2>2. load[t].tries + 1 \in Nat
      BY <1>1, LoadFacts, PriceCacheAssumption
    <2>3. x \in LoadRecord
      BY <1>1, <2>2, LoadFacts DEF LoadRecord
    <2>4. /\ x.pc = load[t].pc /\ x.day = load[t].day /\ x.date = load[t].date
          /\ x.tries = load[t].tries + 1
          /\ x.unwritten = load[t].unwritten /\ x.rows = load[t].rows
      BY <1>1, LoadFacts DEF LoadRecord
    <2>5. load' = [load EXCEPT ![t] = x]
      BY <1>3 DEF Throttled
    <2>. HIDE DEF x
    <2>6. LoadGood(x)
      BY <1>1, <2>1, <2>3, <2>4, LoadFacts, Continued
    <2>7. QED
      BY <1>1, <2>4, <2>5, <2>6, LoadOnly
  <1>4. CASE DownloadFails(t)
    BY <1>1, <1>4, FailKeeps DEF DownloadFails
  <1>5. QED
    BY <1>2, <1>3, <1>4

LEMMA CheckKeeps ==
    ASSUME StockInv, NEW t \in Threads, Check(t)
    PROVE  FilesKept
  <1>. DEFINE l == load[t]
              kept == UpTo(l.rows, l.date)
  <1>1. /\ load[t] # Absent /\ ~At(t, "write") /\ UNCHANGED <<today, file, torn>>
    BY DEF Check, At
  <1>2. "nothing" \in Steps \cup Done /\ "served" \in Steps \cup Done
    BY DEF Done
  <1>3. CASE TooOld(l.rows, l.date)
    <2>1. With(t, "nothing", {}) /\ {} \subseteq 1..l.day
      BY <1>3 DEF Check
    <2>2. QED
      BY <1>1, <1>2, <2>1, WithKeeps
  <1>4. CASE ~TooOld(l.rows, l.date)
    <2>1. With(t, "served", kept)
      BY <1>4 DEF Check
    <2>2. l.rows \subseteq Days /\ l.date \in Days /\ l.rows \subseteq 1..l.day
      BY <1>1, LoadFacts DEF Days
    <2>3. /\ kept \subseteq l.rows
          /\ \A r \in kept : r <= l.date
          /\ kept # {} => l.date - Latest(kept) <= MaxStale
      BY <1>4, <2>2, UpToFits
    <2>. HIDE DEF kept
    <2>4. QED
      BY <1>1, <1>2, <2>1, <2>2, <2>3, WithKeeps
  <1>5. QED
    BY <1>3, <1>4

(* The file is emptied: from now on t backs it. *)
LEMMA OpenKeeps ==
    ASSUME StockInv, NEW t \in Threads, Open(t)
    PROVE  FilesKept
  <1>. DEFINE day == load[t].day
              x == [load[t] EXCEPT !.pc = "write", !.unwritten = {0} \cup load[t].rows]
  <1>1. load[t] # Absent /\ load[t].pc = "open" /\ UNCHANGED <<today, torn>>
    BY DEF Open, At
  <1>2. /\ load[t].rows # {} /\ day \in Days /\ day \in Nat
        /\ load[t].rows \subseteq 1..day
    BY <1>1, LoadFacts DEF LoadGood
  <1>3. {0} \cup load[t].rows \in RowSets /\ {0} \cup load[t].rows \subseteq 0..day
    BY <1>1, <1>2, LoadFacts DEF RowSets, Lines
  <1>4. "write" \in Steps \cup Done
    BY DEF Steps
  <1>5. x \in LoadRecord
    BY <1>1, <1>3, <1>4, LoadFacts DEF LoadRecord
  <1>6. /\ x.pc = "write" /\ x.day = day /\ x.date = load[t].date
        /\ x.tries = load[t].tries
        /\ x.unwritten = {0} \cup load[t].rows /\ x.rows = load[t].rows
    BY <1>1, LoadFacts DEF LoadRecord
  <1>7. load' = [load EXCEPT ![t] = x] /\ file' = [file EXCEPT ![day] = {}]
    BY DEF Open
  <1>. HIDE DEF x
  <1>8. LoadGood(x)
    BY <1>1, <1>2, <1>3, <1>4, <1>5, <1>6, LoadFacts, Continued
  <1>9. /\ DOMAIN load' = Threads /\ load'[t] = x
        /\ \A u \in Threads \ {t} : load'[u] = load[u]
        /\ DOMAIN file' = Days /\ file'[day] = {}
        /\ \A d \in Days \ {day} : file'[d] = file[d]
    BY <1>2, <1>7 DEF StockInv, LoadInv, FileInv
  <1>10. LoadInv'
    BY <1>1, <1>8, <1>9, OneLoad DEF StockInv
  <1>11. x # Absent
    BY <1>5, PriceCacheAssumption
  <1>12. FileTypes'
    <2>1. \A d \in Days : file'[d] = Absent \/ file'[d] \subseteq 0..d
      BY <1>9 DEF StockInv, FileTypes
    <2>2. ASSUME NEW u \in Threads, load'[u] # Absent, load'[u].pc = "write"
          PROVE  file'[load'[u].day] \subseteq 0..load'[u].day
      <3>1. CASE u = t
        BY <3>1, <1>6, <1>9
      <3>2. CASE u # t
        <4>1. load'[u] = load[u] /\ At(u, "write")
          BY <2>2, <3>2, <1>9 DEF At
        <4>2. load[u].day \in Days /\ file[load[u].day] \subseteq 0..load[u].day
          BY <4>1, LoadFacts DEF StockInv, FileTypes, At
        <4>3. QED
          BY <4>1, <4>2, <1>9
      <3>3. QED
        BY <3>1, <3>2
    <2>3. QED
      BY <2>1, <2>2, <1>1 DEF FileTypes, StockInv, At
  <1>13. FileInv'
    <2>1. ASSUME NEW d \in Days
          PROVE  \/ file'[d] = Absent
                 \/ d \in torn
                 \/ Usable(file'[d])
                 \/ \E u \in Threads :
                      /\ load'[u] # Absent /\ load'[u].pc = "write" /\ load'[u].day = d
                      /\ {0} \cup load'[u].rows \subseteq file'[d] \cup load'[u].unwritten
      <3>1. CASE d = day
        BY <3>1, <1>6, <1>9, <1>11
      <3>2. CASE d # day
        <4>1. file'[d] = file[d]
          BY <3>2, <1>9
        <4>2. ASSUME NEW u \in Threads, Backs(u, d)
              PROVE  /\ load'[u] # Absent /\ load'[u].pc = "write" /\ load'[u].day = d
                     /\ {0} \cup load'[u].rows \subseteq file'[d] \cup load'[u].unwritten
          <5>1. u # t
            BY <4>2, <1>1 DEF Backs, At
          <5>2. QED
            BY <5>1, <4>1, <4>2, <1>9 DEF Backs, At
        <4>3. QED
          BY <4>1, <4>2 DEF StockInv, FileInv
      <3>3. QED
        BY <3>1, <3>2
    <2>2. QED
      BY <2>1, <1>1, <1>9 DEF FileInv, Backs, At
  <1>14. QED
    BY <1>1, <1>10, <1>12, <1>13 DEF FilesKept, StockInv

(* One line more; after the last of them the file has all that t backed it with. *)
LEMMA WriteKeeps ==
    ASSUME StockInv, NEW t \in Threads, WriteLine(t)
    PROVE  FilesKept
  <1>. DEFINE l == load[t]
              day == l.day
              line == First(l.unwritten)
              pc == IF l.unwritten = {line} THEN "check" ELSE l.pc
              x == [l EXCEPT !.unwritten = l.unwritten \ {line}, !.pc = pc]
  <1>1. /\ load[t] # Absent /\ load[t].pc = "write" /\ UNCHANGED <<today, torn>>
    BY DEF WriteLine, At
  <1>2. /\ l.rows # {} /\ l.unwritten # {} /\ l.unwritten \subseteq {0} \cup l.rows
        /\ day \in Days /\ day \in Nat
        /\ l.rows \subseteq 1..day /\ l.unwritten \subseteq 0..day
        /\ l.unwritten \in RowSets
    BY <1>1, LoadFacts DEF LoadGood
  <1>3. line \in l.unwritten
    BY <1>2, FirstFacts DEF RowSets
  <1>4. load' = [load EXCEPT ![t] = x] /\ file' = [file EXCEPT ![day] = file[day] \cup {line}]
    BY DEF WriteLine
  <1>. HIDE DEF line
  <1>5. pc \in Steps \cup Done /\ l.unwritten \ {line} \in RowSets
    BY <1>1, <1>2 DEF Steps, RowSets
  <1>6. x \in LoadRecord
    BY <1>1, <1>5, LoadFacts DEF LoadRecord
  <1>7. /\ x.pc = pc /\ x.day = day /\ x.date = l.date /\ x.tries = l.tries
        /\ x.unwritten = l.unwritten \ {line} /\ x.rows = l.rows
    BY <1>1, LoadFacts DEF LoadRecord
  <1>. HIDE DEF x
  <1>8. LoadGood(x)
    <2>1. pc \notin {"open", "served"}
      BY <1>1
    <2>2. pc = "write" => l.unwritten \ {line} # {}
      BY <1>2, <1>3
    <2>3. l.unwritten \ {line} \subseteq 0..day /\ l.unwritten \ {line} \subseteq {0} \cup l.rows
      BY <1>2
    <2>. HIDE DEF pc
    <2>4. QED
      BY <1>1, <1>2, <1>5, <1>6, <1>7, <2>1, <2>2, <2>3, LoadFacts, Continued
  <1>9. /\ DOMAIN load' = Threads /\ load'[t] = x
        /\ \A u \in Threads \ {t} : load'[u] = load[u]
        /\ DOMAIN file' = Days /\ file'[day] = file[day] \cup {line}
        /\ \A d \in Days \ {day} : file'[d] = file[d]
    BY <1>2, <1>4 DEF StockInv, LoadInv, FileInv
  <1>10. LoadInv'
    BY <1>1, <1>8, <1>9, OneLoad DEF StockInv
  <1>11. x # Absent
    BY <1>6, PriceCacheAssumption
  <1>12. file[day] \subseteq 0..day /\ file'[day] \subseteq 0..day /\ file[day] # Absent
    <2>1. file[day] \subseteq 0..day
      BY <1>1 DEF StockInv, FileTypes, At
    <2>2. line \in 0..day
      BY <1>2, <1>3
    <2>3. file[day] \in RowSets
      BY <2>1, <1>2, PriceCacheAssumption DEF RowSets, Lines, Days
    <2>4. QED
      BY <2>1, <2>2, <2>3, <1>9, PriceCacheAssumption
  <1>13. FileTypes'
    <2>1. \A d \in Days : file'[d] = Absent \/ file'[d] \subseteq 0..d
      BY <1>9, <1>12 DEF StockInv, FileTypes
    <2>2. ASSUME NEW u \in Threads, load'[u] # Absent, load'[u].pc = "write"
          PROVE  file'[load'[u].day] \subseteq 0..load'[u].day
      <3>1. CASE u = t
        BY <3>1, <1>7, <1>9, <1>12
      <3>2. CASE u # t
        <4>1. load'[u] = load[u] /\ At(u, "write")
          BY <2>2, <3>2, <1>9 DEF At
        <4>2. load[u].day \in Days /\ file[load[u].day] \subseteq 0..load[u].day
          BY <4>1, LoadFacts DEF StockInv, FileTypes, At
        <4>3. QED
          BY <4>1, <4>2, <1>9, <1>12
      <3>3. QED
        BY <3>1, <3>2
    <2>3. QED
      BY <2>1, <2>2, <1>1 DEF FileTypes, StockInv, At
  <1>14. FileInv'
    <2>1. ASSUME NEW d \in Days
          PROVE  \/ file'[d] = Absent
                 \/ d \in torn
                 \/ Usable(file'[d])
                 \/ \E u \in Threads :
                      /\ load'[u] # Absent /\ load'[u].pc = "write" /\ load'[u].day = d
                      /\ {0} \cup load'[u].rows \subseteq file'[d] \cup load'[u].unwritten
      <3>1. file[d] # Absent => file[d] \subseteq file'[d]
        BY <1>9
      <3>2. CASE file[d] = Absent
        BY <3>2, <1>9, <1>12
      <3>3. CASE d \in torn
        BY <3>3
      <3>4. CASE file[d] # Absent /\ Usable(file[d])
        BY <3>1, <3>4, UsableGrows
      <3>5. ASSUME NEW u \in Threads, Backs(u, d), u # t, file[d] # Absent
            PROVE  /\ load'[u] # Absent /\ load'[u].pc = "write" /\ load'[u].day = d
                   /\ {0} \cup load'[u].rows \subseteq file'[d] \cup load'[u].unwritten
        BY <3>1, <3>5, <1>9 DEF Backs, At
      <3>6. CASE Backs(t, d)
        <4>1. d = day /\ {0} \cup l.rows \subseteq file[day] \cup l.unwritten
          BY <3>6 DEF Backs
        <4>2. {0} \cup l.rows \subseteq file'[day] \cup (l.unwritten \ {line})
          BY <4>1, <1>9
        <4>3. CASE l.unwritten = {line}
          <5>1. {0} \cup l.rows \subseteq file'[day]
            BY <4>2, <4>3
          <5>2. PICK r \in l.rows : r # 0
            BY <1>2
          <5>3. Usable(file'[day])
            BY <5>1, <5>2 DEF Usable
          <5>4. QED
            BY <5>3, <4>1
        <4>4. CASE l.unwritten # {line}
          <5>1. x.pc = "write"
            BY <4>4, <1>1, <1>7
          <5>2. QED
            BY <5>1, <4>1, <4>2, <1>7, <1>9, <1>11
        <4>5. QED
          BY <4>3, <4>4
      <3>7. QED
        BY <3>2, <3>3, <3>4, <3>5, <3>6 DEF StockInv, FileInv
    <2>2. QED
      BY <2>1, <1>1, <1>9 DEF FileInv, Backs, At
  <1>15. QED
    BY <1>1, <1>10, <1>13, <1>14 DEF FilesKept, StockInv

(* Whoever dies writing leaves a torn file. *)
LEMMA DieKeeps ==
    ASSUME StockInv, NEW t \in Threads, Die(t)
    PROVE  FilesKept
  <1>1. /\ load[t] # Absent /\ UNCHANGED <<today, file>>
        /\ load' = [load EXCEPT ![t] = Absent]
        /\ torn' = IF At(t, "write") THEN torn \cup {load[t].day} ELSE torn
    BY DEF Die, Loading
  <1>2. /\ DOMAIN load' = Threads /\ load'[t] = Absent
        /\ \A u \in Threads \ {t} : load'[u] = load[u]
    BY <1>1 DEF StockInv, LoadInv
  <1>3. LoadInv'
    BY <1>1, <1>2, OneLoad DEF StockInv
  <1>4. load[t].day \in Days
    BY <1>1, LoadFacts
  <1>5. FileTypes'
    BY <1>1, <1>2, <1>4 DEF StockInv, FileTypes, At
  <1>6. FileInv'
    <2>1. torn \subseteq torn' /\ \A d \in Days : Backs(t, d) => d \in torn'
      BY <1>1 DEF Backs
    <2>2. ASSUME NEW d \in Days, NEW u \in Threads \ {t}, Backs(u, d)
          PROVE  /\ load'[u] # Absent /\ load'[u].pc = "write" /\ load'[u].day = d
                 /\ {0} \cup load'[u].rows \subseteq file[d] \cup load'[u].unwritten
      BY <2>2, <1>2 DEF Backs, At
    <2>3. QED
      BY <2>1, <2>2, <1>1 DEF StockInv, FileInv, Backs, At
  <1>7. QED
    BY <1>1, <1>3, <1>5, <1>6 DEF FilesKept, StockInv

-----------------------------------------------------------------------------
(* The steps of a tool call.                                               *)

(* The load of t is dropped, or there was none. *)
LEMMA ForgetKeeps ==
    ASSUME StockInv, NEW t \in Threads, ~At(t, "write"),
           load' = [load EXCEPT ![t] = Absent], UNCHANGED <<today, file, torn>>
    PROVE  FilesKept
  BY LoadOnly

LEMMA NothingLoaded ==
    ASSUME StockInv, UNCHANGED <<today, file, load, torn>>
    PROVE  FilesKept
  BY DEF StockInv, FilesKept, LoadInv, LoadGood, LoadOK, Fits, FileTypes, FileInv, Backs, At

(* A thread that calls no tool, has heard its last vendor or asks one over the wire *)
(* has no load. *)
LEMMA NoLoad ==
    ASSUME StockInv, NEW t \in Threads,
           ~InRoute(t) \/ ~Asking(t) \/ ~ThroughFiles(Vendor(route[t]), route[t].method)
    PROVE  load[t] = Absent
  BY DEF StockInv, RouteInv, Asking

LEMMA RouteOf ==
    ASSUME RouteInv, NEW t \in Threads, NEW x, route' = [route EXCEPT ![t] = x],
           \A u \in Threads \ {t} : load'[u] = load[u],
           load'[t] = Absent
    PROVE  RouteInv'
  BY DEF RouteInv, Asking, InRoute, Vendor

LEMMA RouteKept ==
    ASSUME RouteInv, UNCHANGED route, \A u \in Threads : load'[u] # Absent => load[u] # Absent
    PROVE  RouteInv'
  BY DEF RouteInv, Asking, InRoute, Vendor

LEMMA CallKeeps ==
    ASSUME StockInv, NEW t \in Threads,
           Route(t) \/ Ask(t) \/ AskUnknown(t) \/ HearFiles(t) \/ HearVerified(t) \/ Conclude(t)
    PROVE  StockInv'
  <1>0. DOMAIN load = Threads
    BY DEF StockInv, LoadInv
  <1>1. \E x : route' = [route EXCEPT ![t] = x]
    BY DEF Route, Ask, AskUnknown, HearFiles, HearVerified, Conclude
  <1>2. CASE Route(t) \/ HearFiles(t) \/ HearVerified(t)
    <2>1. load' = [load EXCEPT ![t] = Absent] /\ UNCHANGED <<today, file, torn>>
      BY <1>2 DEF Route, HearFiles, HearVerified
    <2>2. ~At(t, "write")
      <3>1. CASE Route(t)
        BY <3>1, NoLoad DEF Route, At
      <3>2. CASE HearFiles(t) \/ HearVerified(t)
        BY <3>2 DEF HearFiles, HearVerified, Loaded, Loading, Done, At
      <3>3. QED
        BY <1>2, <3>1, <3>2
    <2>3. FilesKept
      BY <2>1, <2>2, ForgetKeeps
    <2>4. RouteInv'
      BY <1>0, <1>1, <2>1, RouteOf DEF StockInv
    <2>5. QED
      BY <2>3, <2>4 DEF FilesKept, StockInv
  <1>3. CASE Ask(t) \/ AskUnknown(t) \/ Conclude(t)
    <2>1. UNCHANGED <<today, file, load, torn>>
      BY <1>3 DEF Ask, AskUnknown, Conclude
    <2>2. load[t] = Absent
      <3>1. CASE Ask(t)
        <4>1. InRoute(t) /\ Asking(t)
          BY <3>1 DEF Ask, Asking
        <4>2. \E wire \in WiresOf(Vendor(route[t]), route[t].method) : TRUE
          BY <3>1 DEF Ask
        <4>3. ~ThroughFiles(Vendor(route[t]), route[t].method)
          BY <4>2 DEF WiresOf
        <4>4. QED
          BY <4>1, <4>3, NoLoad
      <3>2. CASE AskUnknown(t)
        BY <3>2 DEF AskUnknown
      <3>3. CASE Conclude(t)
        BY <3>3, NoLoad DEF Conclude
      <3>4. QED
        BY <1>3, <3>1, <3>2, <3>3
    <2>3. FilesKept
      BY <2>1, NothingLoaded
    <2>4. RouteInv'
      BY <1>1, <2>1, <2>2, RouteOf DEF StockInv
    <2>5. QED
      BY <2>3, <2>4 DEF FilesKept, StockInv
  <1>4. QED
    BY <1>2, <1>3

LEMMA AskFilesKeeps ==
    ASSUME StockInv, NEW t \in Threads, AskFiles(t)
    PROVE  StockInv'
  <1>1. PICK date \in 1..today : Locate(t, date)
    BY DEF AskFiles
  <1>2. load[t] = Absent /\ UNCHANGED route
    BY DEF AskFiles
  <1>3. FilesKept
    BY <1>1, <1>2, LocateKeeps
  <1>4. RouteInv'
    <2>1. Asking(t) /\ ThroughFiles(Vendor(route[t]), route[t].method)
      BY DEF AskFiles
    <2>2. \A u \in Threads \ {t} : load'[u] = load[u]
      BY <1>1 DEF Locate, StockInv, LoadInv
    <2>3. QED
      BY <1>2, <2>1, <2>2 DEF StockInv, RouteInv, Asking, InRoute, Vendor
  <1>5. QED
    BY <1>3, <1>4 DEF FilesKept, StockInv

LEMMA LoadStepKeeps ==
    ASSUME StockInv, NEW t \in Threads, LoadStep(t), UNCHANGED route
    PROVE  StockInv'
  <1>1. FilesKept
    BY LookupKeeps, DownloadKeeps, OpenKeeps, WriteKeeps, CheckKeeps DEF LoadStep
  <1>2. load[t] # Absent
    BY DEF LoadStep, Lookup, Downloaded, Throttled, DownloadFails, Open, WriteLine, Check, At
  <1>3. \E x : load' = [load EXCEPT ![t] = x]
    BY DEF LoadStep, Lookup, Downloaded, Throttled, DownloadFails, Open, WriteLine, Check,
       With, Fail
  <1>4. \A u \in Threads : load'[u] # Absent => load[u] # Absent
    BY <1>2, <1>3 DEF StockInv, LoadInv
  <1>5. RouteInv'
    BY <1>4, RouteKept DEF StockInv
  <1>6. QED
    BY <1>1, <1>5 DEF FilesKept, StockInv

LEMMA KilledKeeps ==
    ASSUME StockInv, NEW t \in Threads, Killed(t)
    PROVE  StockInv'
  <1>1. FilesKept
    BY DieKeeps DEF Killed
  <1>2. /\ route' = [route EXCEPT ![t] = Absent]
        /\ load' = [load EXCEPT ![t] = Absent]
        /\ DOMAIN load = Threads
    BY DEF Killed, Die, StockInv, LoadInv
  <1>3. RouteInv'
    BY <1>2, RouteOf DEF StockInv
  <1>4. QED
    BY <1>1, <1>3 DEF FilesKept, StockInv

(* A load goes on past midnight with the file of the day before. *)
LEMMA MidnightKeeps ==
    ASSUME StockInv, Midnight, UNCHANGED route
    PROVE  StockInv'
  <1>1. /\ today \in Nat /\ today' = today + 1 /\ today' \in Days
        /\ UNCHANGED <<file, load, torn>>
    BY PriceCacheAssumption DEF StockInv, Midnight, Days
  <1>2. LoadInv'
    <2>1. ASSUME NEW t \in Threads, load[t] # Absent
          PROVE  load[t].day \in 1..today'
      BY <2>1, <1>1, LoadFacts
    <2>2. ASSUME NEW t \in Threads, load[t] # Absent
          PROVE  LoadGood(load[t])'
      <3>1. LoadGood(load[t])
        BY <2>2, LoadFacts
      <3>2. QED
        BY <3>1, <2>1, <2>2, <1>1 DEF LoadGood, LoadOK, Fits
    <2>3. QED
      BY <2>2, <1>1 DEF StockInv, LoadInv
  <1>3. FileTypes' /\ FileInv' /\ RouteInv'
    BY <1>1, RouteKept DEF StockInv, FileTypes, FileInv, Backs, At
  <1>4. QED
    BY <1>1, <1>2, <1>3 DEF StockInv

LEMMA StepStockInv == ASSUME StockInv, [StockNext]_stockVars PROVE StockInv'
  <1>1. ASSUME NEW t \in Threads, Route(t) \/ StockStep(t) \/ Killed(t)
        PROVE  StockInv'
    BY <1>1, CallKeeps, AskFilesKeeps, LoadStepKeeps, KilledKeeps DEF StockStep
  <1>2. CASE Midnight /\ UNCHANGED <<route, toolCalls>>
    BY <1>2, MidnightKeeps
  <1>3. CASE UNCHANGED stockVars
    <2>1. FilesKept /\ RouteInv'
      BY <1>3, NothingLoaded, RouteKept DEF stockVars, StockInv
    <2>2. QED
      BY <2>1 DEF FilesKept, StockInv
  <1>4. QED
    BY <1>1, <1>2, <1>3 DEF StockNext

THEOREM StockInvHolds == StockSpec => []StockInv
  BY InitStockInv, StepStockInv, PTL DEF StockSpec

(* The files, the loads and the date are what they should be (load_ohlcv). *)
THEOREM PricesTyped == StockSpec => []PriceTypeOK
  <1>1. StockInv => PriceTypeOK
    BY DEF StockInv, LoadInv, LoadGood, FileTypes, PriceTypeOK
  <1>2. QED
    BY <1>1, StockInvHolds, PTL

(* A frame that is served has no row after the trade date, and its last row is recent *)
(* for that date (load_ohlcv). *)
THEOREM FramesFit == StockSpec => []ServedFits
  <1>1. StockInv => ServedFits
    BY DEF StockInv, LoadInv, LoadGood, Fits, ServedFits, At
  <1>2. QED
    BY <1>1, StockInvHolds, PTL

(* A file that nobody is writing is a hit, unless a process died writing it, however *)
(* many threads write it at the same time (to_csv in load_ohlcv). *)
THEOREM OnlyCrashesPoison == StockSpec => []PoisonOnlyByCrash
  <1>1. StockInv => PoisonOnlyByCrash
    BY DEF StockInv, FileInv, Backs, PoisonOnlyByCrash
  <1>2. QED
    BY <1>1, StockInvHolds, PTL

-----------------------------------------------------------------------------
(* The chain of a call.                                                    *)

IsKept(f, config, S, last) ==
    f = [n \in 0..last |->
            IF n = 0 THEN <<>>
            ELSE IF config[n] \in S THEN Append(f[n - 1], config[n]) ELSE f[n - 1]]

LEMMA KeptSteps ==
    ASSUME NEW f, NEW config, NEW S, NEW last, IsKept(f, config, S, last)
    PROVE  \A n \in 0..last :
             f[n] = IF n = 0 THEN <<>>
                    ELSE IF config[n] \in S THEN Append(f[n - 1], config[n]) ELSE f[n - 1]
  <1> DEFINE step(n) == IF n = 0 THEN <<>>
                        ELSE IF config[n] \in S THEN Append(f[n - 1], config[n]) ELSE f[n - 1]
  <1>1. f = [n \in 0..last |-> step(n)]
    BY DEF IsKept
  <1> HIDE DEF step
  <1>2. \A n \in 0..last : f[n] = step(n)
    BY <1>1, Zenon
  <1>3. QED
    BY <1>2 DEF step

\* There is such a function, by the least length without one.
LEMMA KeptExists ==
    ASSUME NEW config, NEW S
    PROVE  \A k \in Nat : \E f : IsKept(f, config, S, k)
  <1> DEFINE Bad == {k \in Nat : ~\E f : IsKept(f, config, S, k)}
  <1>1. SUFFICES ASSUME Bad # {} PROVE FALSE
    OBVIOUS
  <1>2. PICK m \in Bad : \A k \in Bad : m <= k
    <2> Bad \subseteq Nat
      OBVIOUS
    <2> HIDE DEF Bad
    <2> QED
      BY <1>1, Least
  <1>3. CASE m = 0
    <2> DEFINE f == [n \in 0..0 |-> <<>>]
    <2>1. IsKept(f, config, S, 0)
      BY DEF IsKept
    <2>2. QED
      BY <1>2, <1>3, <2>1
  <1>4. CASE m # 0
    <2>1. m \in Nat /\ m - 1 \in Nat /\ ~(m <= m - 1)
      BY <1>2, <1>4
    <2>2. PICK g : IsKept(g, config, S, m - 1)
      BY <1>2, <2>1
    <2> DEFINE f == [n \in 0..m |->
                       IF n = 0 THEN <<>>
                       ELSE IF config[n] \in S THEN Append(g[n - 1], config[n]) ELSE g[n - 1]]
    <2>3. \A n \in 0..(m - 1) : f[n] = g[n]
      <3>1. \A n \in 0..(m - 1) : n \in 0..m
        BY <2>1
      <3>2. \A n \in 0..m :
              f[n] = IF n = 0 THEN <<>>
                     ELSE IF config[n] \in S THEN Append(g[n - 1], config[n]) ELSE g[n - 1]
        BY Zenon
      <3> HIDE DEF f
      <3>3. QED
        BY <2>2, <3>1, <3>2, KeptSteps
    <2>4. \A n \in 0..m : n # 0 => f[n - 1] = g[n - 1]
      <3>1. \A n \in 0..m : n # 0 => n - 1 \in 0..(m - 1)
        BY <2>1
      <3> HIDE DEF f
      <3>2. QED
        BY <2>3, <3>1
    <2>5. IsKept(f, config, S, m)
      BY <2>4 DEF IsKept
    <2>6. QED
      BY <1>2, <2>5
  <1>5. QED
    BY <1>3, <1>4

\* Whatever is kept is of S.
LEMMA KeptFacts ==
    ASSUME NEW config, Len(config) \in Nat, NEW S
    PROVE  Kept(config, S) \in Seq(S)
  <1> DEFINE f == CHOOSE f : IsKept(f, config, S, Len(config))
  <1>1. IsKept(f, config, S, Len(config))
    BY KeptExists
  <1>2. Kept(config, S) = f[Len(config)]
    BY DEF Kept, IsKept
  <1> HIDE DEF f
  <1>3. /\ f[0] = <<>>
        /\ \A n \in 1..Len(config) :
             f[n] = IF config[n] \in S THEN Append(f[n - 1], config[n]) ELSE f[n - 1]
    <2>1. 0 \in 0..Len(config) /\ \A n \in 1..Len(config) : n \in 0..Len(config) /\ n # 0
      OBVIOUS
    <2>2. QED
      BY <1>1, <2>1, KeptSteps
  <1> DEFINE Bad == {n \in 0..Len(config) : f[n] \notin Seq(S)}
  <1>4. ASSUME Bad # {} PROVE FALSE
    <2>1. PICK m \in Bad : \A n \in Bad : m <= n
      <3> Bad \subseteq Nat
        OBVIOUS
      <3> HIDE DEF Bad
      <3> QED
        BY <1>4, Least
    <2>2. m \in 1..Len(config) /\ m - 1 \in 0..Len(config) /\ ~(m <= m - 1)
      <3>1. <<>> \in Seq(S)
        OBVIOUS
      <3>2. m # 0
        BY <1>3, <2>1, <3>1
      <3>3. QED
        BY <2>1, <3>2
    <2>3. f[m - 1] \in Seq(S)
      BY <2>1, <2>2
    <2>4. f[m] \in Seq(S)
      <3>1. f[m] = IF config[m] \in S THEN Append(f[m - 1], config[m]) ELSE f[m - 1]
        BY <1>3, <2>2
      <3> DEFINE before == f[m - 1]
      <3> HIDE DEF before
      <3>2. before \in Seq(S) => \A x \in S : Append(before, x) \in Seq(S)
        OBVIOUS
      <3>3. QED
        BY <2>3, <3>1, <3>2 DEF before
    <2>5. QED
      BY <2>1, <2>4
  <1>5. QED
    BY <1>2, <1>4

Has(method) == ToSet(Available(method))

LEMMA ChainFacts ==
    ASSUME NEW method \in Methods, NEW config \in Configs
    PROVE  /\ Chain(method, config) \in Seq(Vendors)
           /\ method # Verified => Chain(method, config) \in Seq(Has(method))
           /\ method = Verified => Chain(method, config) = <<"yfinance">>
  <1>1. Available(method) \in Seq(Vendors) /\ Available(method) \in Seq(Has(method))
    <2>1. \A a, b \in Vendors : <<a>> \in Seq(Vendors) /\ <<a, b>> \in Seq(Vendors)
      OBVIOUS
    <2>2. {"fred", "polymarket", "yfinance", "alpha_vantage"} \subseteq Vendors
      BY DEF Vendors
    <2>3. Available(method) \in {<<"fred">>, <<"polymarket">>, <<"yfinance", "alpha_vantage">>,
                                 <<"alpha_vantage", "yfinance">>}
      BY DEF Available
    <2>4. Available(method) \in Seq(Vendors)
      BY <2>1, <2>2, <2>3
    <2>5. \A s \in Seq(Vendors) : s \in Seq(ToSet(s))
      <3>1. ASSUME NEW s \in Seq(Vendors) PROVE s \in Seq(ToSet(s))
        <4>1. s \in [1..Len(s) -> ToSet(s)] /\ Len(s) \in Nat
          BY DEF ToSet
        <4>2. QED
          BY <4>1
      <3>2. QED
        BY <3>1
    <2>6. QED
      BY <2>4, <2>5 DEF Has
  <1>2. Has(method) \subseteq Vendors
    BY <1>1 DEF Has, ToSet
  <1>3. Len(config) \in Nat
    BY RoutingAssumption
  <1>4. Kept(config, Has(method)) \in Seq(Has(method))
    BY <1>3, KeptFacts
  <1>5. \A s \in Seq(Has(method)) : s \in Seq(Vendors)
    BY <1>2
  <1>6. CASE method = Verified
    <2>1. <<"yfinance">> \in Seq(Vendors)
      BY DEF Vendors
    <2>2. QED
      BY <1>6, <2>1 DEF Chain
  <1>7. CASE method # Verified
    <2>1. Chain(method, config) \in {Available(method), Kept(config, Has(method))}
      BY <1>7 DEF Chain, Has
    <2>2. QED
      BY <1>1, <1>4, <1>5, <1>7, <2>1
  <1>8. QED
    BY <1>6, <1>7

-----------------------------------------------------------------------------
(* What a call has heard, and what it makes of it.                         *)

ToolCalls ==
    [method: Methods, chain: Seq(Vendors), said: Seq(Outcomes), noData: BOOLEAN,
     error: (Failures \ {"throttled"}) \cup {Absent}, again: BOOLEAN,
     result: Results \cup {Absent}]

\* What the loop has noted of the vendors that it asked in vain.
Noted(r) ==
    \A i \in 1..Len(r.said) :
        /\ r.said[i] \in Failures \cup {"nothing"}
        /\ r.said[i] = "nothing" => r.noData
        /\ r.said[i] \in Failures \ {"throttled"} => r.error # Absent
        /\ r.said[i] = "throttled" => ~Optional(r.method)

Warranted(r) ==
    /\ r.result \in Answers =>
          /\ r.result = Last(r.said)
          /\ \A i \in DOMAIN r.said : r.said[i] \in Answers => i = Len(r.said)
    /\ r.result \in {"no_data", "raised", "told", "unavailable"} =>
          /\ Len(r.said) = Len(r.chain)
          /\ ToSet(r.said) \subseteq Failures \cup {"nothing"}
          /\ r.result = "no_data" <=> "nothing" \in ToSet(r.said)
          /\ Optional(r.method) => r.result \in {"no_data", "unavailable"}

Routed(r) ==
    /\ r \in ToolCalls
    /\ Len(r.said) <= Len(r.chain)
    /\ r.method # Verified => r.chain \in Seq(Has(r.method))
    /\ r.method = Verified => r.chain = <<"yfinance">>
    /\ r.noData => "nothing" \in ToSet(r.said)
    /\ r.result = Absent => Noted(r)
    /\ r.result # Absent /\ r.method # Verified /\ r.chain # <<>> => Warranted(r)

VerdictInv ==
    /\ DOMAIN route = Threads
    /\ \A t \in Threads : route[t] # Absent => Routed(route[t])
    /\ toolCalls \in 0..MaxToolCalls

\* A vendor that has the method answers it with one of the outcomes, and vendors of
\* optional data are never rate-limited.
LEMMA ReplyFacts ==
    ASSUME NEW method \in Methods, method # Verified, NEW vendor \in Has(method),
           NEW wire \in WiresOf(vendor, method)
    PROVE  /\ Reply(vendor, method, wire) \in Outcomes
           /\ Optional(method) => Reply(vendor, method, wire) # "throttled"
  <1>1. wire \in Wires /\ ~ThroughFiles(vendor, method) /\ method \in AllMethods
    BY RoutingAssumption DEF WiresOf
  <1>2. /\ method = Macro => vendor = "fred"
        /\ method = Markets => vendor = "polymarket"
        /\ method \notin {Macro, Markets} => vendor \in {"yfinance", "alpha_vantage"}
    BY DEF Has, Available, ToSet, Macro, Markets
  <1>3. Fred(wire) \in Outcomes \ {"throttled"}
    BY <1>1 DEF Fred, FredRequest, Outcomes, Answers, Failures, Wires
  <1>4. Polymarket(wire) \in Outcomes \ {"throttled"}
    BY <1>1 DEF Polymarket, Outcomes, Answers, Failures, Wires
  <1>5. AlphaVantageBody(wire) \in Outcomes
    BY <1>1 DEF AlphaVantageBody, Outcomes, Answers, Failures, Wires
  <1>6. AlphaVantageIndicator(wire) \in Outcomes
    BY <1>1 DEF AlphaVantageIndicator, Outcomes, Answers, Failures, Wires
  <1>7. /\ YahooPrices(wire) \in Outcomes /\ YahooFundamentals(wire) \in Outcomes
        /\ YahooNews(wire) \in Outcomes /\ YahooInsiders(wire) \in Outcomes
    BY <1>1 DEF YahooPrices, YahooFundamentals, YahooNews, YahooInsiders, Outcomes, Answers,
                Failures, Wires
  <1>8. CASE vendor = "yfinance"
    <2>1. method \notin {Macro, Markets, Indicators, Verified}
      BY <1>1, <1>2, <1>8 DEF ThroughFiles
    <2>2. Yahoo(method, wire) \in Outcomes
      BY <1>1, <1>7, <2>1 DEF Yahoo, YahooStatements, YahooGlobalNews, AllMethods, Statements, Articles
    <2>3. QED
      BY <1>8, <2>1, <2>2 DEF Reply, Optional
  <1>9. CASE vendor # "yfinance"
    BY <1>2, <1>3, <1>4, <1>5, <1>6, <1>9 DEF Reply, Optional
  <1>10. QED
    BY <1>8, <1>9

\* The loop goes on with what it heard, or ends with an answer.
LEMMA HeardFacts ==
    ASSUME NEW r, Routed(r), r.result = Absent, r.method # Verified,
           Len(r.said) < Len(r.chain),
           NEW outcome \in Outcomes, Optional(r.method) => outcome # "throttled"
    PROVE  Routed(Heard(r, outcome))
  <1> DEFINE h == Heard(r, outcome)
             said == Append(r.said, outcome)
             result == IF outcome \in Answers THEN outcome ELSE Absent
             noData == r.noData \/ outcome = "nothing"
             error == IF r.error = Absent /\ outcome \in Failures \ {"throttled"}
                      THEN outcome ELSE r.error
  <1>0. r \in ToolCalls
    BY DEF Routed
  <1>1. /\ said \in Seq(Outcomes) /\ result \in Results \cup {Absent}
        /\ noData \in BOOLEAN /\ error \in (Failures \ {"throttled"}) \cup {Absent}
    BY <1>0 DEF ToolCalls, Results
  <1>2. h = [r EXCEPT !.said = said, !.again = FALSE, !.result = result, !.noData = noData,
                      !.error = error]
    BY <1>0 DEF Heard, ToolCalls
  <1> HIDE DEF h, said, result, noData, error
  <1>3. /\ h \in ToolCalls
        /\ h.said = said /\ h.result = result /\ h.noData = noData /\ h.error = error
        /\ h.method = r.method /\ h.chain = r.chain
    BY <1>0, <1>1, <1>2 DEF ToolCalls
  <1>4. /\ Len(said) = Len(r.said) + 1 /\ said[Len(said)] = outcome
        /\ \A i \in 1..Len(r.said) : said[i] = r.said[i]
        /\ Len(r.said) \in Nat /\ Len(r.chain) \in Nat
    BY <1>0 DEF said, ToolCalls
  <1>5. noData => "nothing" \in ToSet(said)
    <2>1. CASE outcome = "nothing"
      BY <2>1, <1>1, <1>4 DEF ToSet
    <2>2. CASE r.noData
      <3>1. PICK i \in 1..Len(r.said) : r.said[i] = "nothing"
        BY <2>2, <1>0 DEF Routed, ToSet, ToolCalls
      <3>2. QED
        BY <3>1, <1>1, <1>4 DEF ToSet
    <2>3. QED
      BY <2>1, <2>2 DEF noData
  <1>6. ASSUME result = Absent PROVE Noted(h)
    <2>1. outcome \in Failures \cup {"nothing"}
      BY <1>6, RoutingAssumption DEF result, Results, Outcomes
    <2>2. Noted(r)
      BY DEF Routed
    <2>3. ASSUME NEW i \in 1..Len(said)
          PROVE  /\ said[i] \in Failures \cup {"nothing"}
                 /\ said[i] = "nothing" => noData
                 /\ said[i] \in Failures \ {"throttled"} => error # Absent
                 /\ said[i] = "throttled" => ~Optional(r.method)
      <3>1. CASE i = Len(said)
        <4>1. said[i] = outcome
          BY <3>1, <1>4
        <4>2. outcome \in Failures \ {"throttled"} => error # Absent
          BY RoutingAssumption DEF error
        <4>3. QED
          BY <4>1, <4>2, <2>1 DEF noData
      <3>2. CASE i # Len(said)
        <4>1. i \in 1..Len(r.said) /\ said[i] = r.said[i]
          BY <3>2, <1>4
        <4>2. r.error # Absent => error # Absent
          BY DEF error
        <4>3. QED
          BY <4>1, <4>2, <2>2 DEF Noted, noData
      <3>3. QED
        BY <3>1, <3>2
    <2>4. QED
      BY <1>3, <2>3 DEF Noted
  <1>7. ASSUME result # Absent PROVE Warranted(h)
    <2>1. outcome \in Answers /\ result = outcome
      BY <1>7 DEF result
    <2>2. outcome \notin {"no_data", "raised", "told", "unavailable"}
      BY <2>1 DEF Answers
    <2>3. \A i \in DOMAIN said : said[i] \in Answers => i = Len(said)
      <3>1. Noted(r) /\ \A x \in Failures \cup {"nothing"} : x \notin Answers
        BY DEF Routed, Answers, Failures
      <3>2. \A i \in 1..Len(r.said) : said[i] \notin Answers
        BY <3>1, <1>4 DEF Noted
      <3>3. DOMAIN said = 1..(Len(r.said) + 1)
        BY <1>1, <1>4
      <3>4. QED
        BY <3>2, <3>3, <1>4
    <2>4. QED
      BY <1>3, <1>4, <2>1, <2>2, <2>3 DEF Warranted, Last
  <1>8. Routed(h)
    BY <1>3, <1>4, <1>5, <1>6, <1>7 DEF Routed
  <1>9. QED
    BY <1>8 DEF h

-----------------------------------------------------------------------------
(* Each step leaves a call that was routed and heard as it should be.      *)

LEMMA RoutedAs ==
    ASSUME VerdictInv, NEW t \in Threads, NEW x, x # Absent => Routed(x),
           route' = [route EXCEPT ![t] = x], toolCalls' \in 0..MaxToolCalls
    PROVE  VerdictInv'
  BY DEF VerdictInv

(* What a change of some fields leaves alone. *)
LEMMA ResultSet ==
    ASSUME NEW r, Routed(r), NEW result \in Results,
           r.method # Verified /\ r.chain # <<>> => Warranted([r EXCEPT !.result = result])
    PROVE  Routed([r EXCEPT !.result = result])
  <1> DEFINE h == [r EXCEPT !.result = result]
  <1>1. r \in ToolCalls
    BY DEF Routed
  <1>2. /\ h \in ToolCalls
        /\ h.method = r.method /\ h.chain = r.chain /\ h.said = r.said
        /\ h.noData = r.noData /\ h.error = r.error /\ h.result = result
    BY <1>1 DEF ToolCalls
  <1>3. result # Absent
    BY RoutingAssumption
  <1>4. r.method # Verified /\ r.chain # <<>> => Warranted(h)
    OBVIOUS
  <1> HIDE DEF h
  <1>5. Routed(h)
    BY <1>2, <1>3, <1>4 DEF Routed
  <1>6. QED
    BY <1>5 DEF h

LEMMA AgainSet ==
    ASSUME NEW r, Routed(r)
    PROVE  Routed([r EXCEPT !.again = TRUE])
  <1> DEFINE h == [r EXCEPT !.again = TRUE]
  <1>1. r \in ToolCalls
    BY DEF Routed
  <1>2. /\ h \in ToolCalls
        /\ h.method = r.method /\ h.chain = r.chain /\ h.said = r.said
        /\ h.noData = r.noData /\ h.error = r.error /\ h.result = r.result
    BY <1>1 DEF ToolCalls
  <1> HIDE DEF h
  <1>3. Routed(h)
    BY <1>2 DEF Routed, Noted, Warranted
  <1>4. QED
    BY <1>3 DEF h

LEMMA CallFacts ==
    ASSUME VerdictInv, NEW t \in Threads, InRoute(t)
    PROVE  /\ Routed(route[t]) /\ route[t].result = Absent
           /\ route[t] \in ToolCalls
           /\ Len(route[t].said) \in Nat /\ Len(route[t].chain) \in Nat
           /\ Len(route[t].said) <= Len(route[t].chain)
  <1>1. Routed(route[t]) /\ route[t].result = Absent
    BY DEF VerdictInv, InRoute
  <1>2. route[t] \in ToolCalls /\ Len(route[t].said) <= Len(route[t].chain)
    BY <1>1 DEF Routed
  <1>3. Len(route[t].said) \in Nat /\ Len(route[t].chain) \in Nat
    BY <1>2 DEF ToolCalls
  <1>4. QED
    BY <1>1, <1>2, <1>3

LEMMA RouteWarrants ==
    ASSUME VerdictInv, NEW t \in Threads, Route(t)
    PROVE  VerdictInv'
  <1>1. PICK method \in Methods, config \in Configs :
           route' = [route EXCEPT ![t] =
                       [method |-> method, chain |-> Chain(method, config), said |-> <<>>,
                        noData |-> FALSE, error |-> Absent, again |-> FALSE,
                        result |-> IF Chain(method, config) = <<>>
                                   THEN Told(method, "raised", "bad_argument")
                                   ELSE Absent]]
    BY DEF Route
  <1> DEFINE chain == Chain(method, config)
             result == IF chain = <<>> THEN Told(method, "raised", "bad_argument") ELSE Absent
             x == [method |-> method, chain |-> chain, said |-> <<>>, noData |-> FALSE,
                   error |-> Absent, again |-> FALSE, result |-> result]
  <1>2. result \in Results \cup {Absent} /\ (chain # <<>> => result = Absent)
    BY DEF Told, Results
  <1>3. /\ chain \in Seq(Vendors)
        /\ method # Verified => chain \in Seq(Has(method))
        /\ method = Verified => chain = <<"yfinance">>
    BY ChainFacts
  <1>4. route' = [route EXCEPT ![t] = x]
    BY <1>1
  <1>5. toolCalls' \in 0..MaxToolCalls
    BY RoutingAssumption DEF Route, VerdictInv
  <1> HIDE DEF chain, result
  <1>6. x \in ToolCalls
    <2>1. <<>> \in Seq(Outcomes)
      OBVIOUS
    <2>2. QED
      BY <1>2, <1>3, <2>1 DEF ToolCalls
  <1>7. /\ x.method = method /\ x.chain = chain /\ x.said = <<>> /\ ~x.noData
        /\ x.result = result /\ Len(x.said) = 0 /\ Len(x.chain) \in Nat
    BY <1>3
  <1> HIDE DEF x
  <1>8. Routed(x)
    BY <1>2, <1>3, <1>6, <1>7 DEF Routed, Noted
  <1>9. QED
    BY <1>4, <1>5, <1>8, RoutedAs

LEMMA AskWarrants ==
    ASSUME VerdictInv, NEW t \in Threads, Ask(t) \/ AskUnknown(t)
    PROVE  VerdictInv'
  <1> DEFINE r == route[t]
  <1>0. InRoute(t) /\ Len(r.said) < Len(r.chain)
    BY DEF Ask, AskUnknown, Asking
  <1>1. /\ Routed(r) /\ r.result = Absent /\ r \in ToolCalls
        /\ Len(r.said) \in Nat /\ Len(r.chain) \in Nat
    BY <1>0, CallFacts
  <1>2. toolCalls' \in 0..MaxToolCalls
    BY DEF VerdictInv, Ask, AskUnknown
  <1>3. ASSUME NEW outcome \in Outcomes, r.method # Verified,
               Optional(r.method) => outcome # "throttled",
               route' = [route EXCEPT ![t] = Heard(r, outcome)]
        PROVE  VerdictInv'
    <2>1. Routed(Heard(r, outcome))
      BY <1>0, <1>1, <1>3, HeardFacts
    <2>2. QED
      BY <1>2, <1>3, <2>1, RoutedAs
  <1>4. CASE Ask(t)
    <2>1. PICK wire \in WiresOf(Vendor(r), r.method) :
             route' = [route EXCEPT ![t] = Heard(r, Reply(Vendor(r), r.method, wire))]
      BY <1>4 DEF Ask
    <2>2. r.method # Verified
      <3>1. ~ThroughFiles(Vendor(r), r.method)
        BY <2>1 DEF WiresOf
      <3>2. ASSUME r.method = Verified PROVE FALSE
        <4>1. r.chain = <<"yfinance">>
          BY <1>1, <3>2 DEF Routed
        <4>2. Len(r.said) = 0
          BY <1>0, <1>1, <4>1
        <4>3. QED
          BY <3>1, <3>2, <4>1, <4>2 DEF Vendor, ThroughFiles
      <3>3. QED
        BY <3>2
    <2>3. Vendor(r) \in Has(r.method)
      <3>1. r.chain \in Seq(Has(r.method))
        BY <1>1, <2>2 DEF Routed
      <3>2. Len(r.said) + 1 \in 1..Len(r.chain)
        BY <1>0, <1>1
      <3>3. QED
        BY <3>1, <3>2 DEF Vendor
    <2>4. r.method \in Methods
      BY <1>1 DEF ToolCalls
    <2>5. /\ Reply(Vendor(r), r.method, wire) \in Outcomes
          /\ Optional(r.method) => Reply(Vendor(r), r.method, wire) # "throttled"
      BY <2>2, <2>3, <2>4, ReplyFacts
    <2>6. QED
      BY <1>3, <2>1, <2>2, <2>5
  <1>5. CASE AskUnknown(t)
    <2>1. r.method # Verified /\ ~Optional(r.method)
      BY <1>5 DEF AskUnknown, Indicators, Verified, Optional, Macro, Markets
    <2>2. "bad_argument" \in Outcomes
      BY DEF Outcomes, Failures
    <2>3. route' = [route EXCEPT ![t] = Heard(r, "bad_argument")]
      BY <1>5 DEF AskUnknown
    <2>4. QED
      BY <1>3, <2>1, <2>2, <2>3
  <1>6. QED
    BY <1>4, <1>5

LEMMA HearWarrants ==
    ASSUME StockInv, VerdictInv, NEW t \in Threads, HearFiles(t) \/ HearVerified(t)
    PROVE  VerdictInv'
  <1> DEFINE r == route[t]
  <1>0. Loaded(t)
    BY DEF HearFiles, HearVerified
  <1>1. load[t].pc \in Done
    BY <1>0 DEF Loaded, Loading
  <1>2. InRoute(t) /\ Len(r.said) < Len(r.chain)
    BY <1>0 DEF StockInv, RouteInv, Loaded, Asking
  <1>3. /\ Routed(r) /\ r.result = Absent /\ r \in ToolCalls
        /\ Len(r.said) \in Nat /\ Len(r.chain) \in Nat
    BY <1>2, CallFacts
  <1>4. toolCalls' \in 0..MaxToolCalls
    BY DEF VerdictInv, HearFiles, HearVerified
  <1>5. CASE HearFiles(t)
    <2>1. r.method # Verified /\ ~Optional(r.method)
      BY <1>5 DEF HearFiles, Indicators, Verified, Optional, Macro, Markets
    <2>2. \A outcome \in Outcomes : Routed(Heard(r, outcome))
      BY <1>2, <1>3, <2>1, HeardFacts
    <2>3. Routed([r EXCEPT !.again = TRUE])
      BY <1>3, AgainSet
    <2>4. "apology" \in Outcomes /\ (load[t].pc # "failed" => load[t].pc \in Outcomes)
      BY <1>1 DEF Done, Outcomes, Answers
    <2> DEFINE x == CASE load[t].pc # "failed"            -> Heard(r, load[t].pc)
                      [] load[t].pc = "failed" /\ r.again -> Heard(r, "apology")
                      [] OTHER                            -> [r EXCEPT !.again = TRUE]
    <2>5. Routed(x)
      BY <2>2, <2>3, <2>4
    <2>6. route' = [route EXCEPT ![t] = x]
      BY <1>5 DEF HearFiles
    <2> HIDE DEF x
    <2>7. QED
      BY <1>4, <2>5, <2>6, RoutedAs
  <1>6. CASE HearVerified(t)
    <2> DEFINE result == IF At(t, "served") /\ load[t].rows # {} THEN "served" ELSE "raised"
    <2>1. r.method = Verified
      BY <1>6 DEF HearVerified
    <2>2. result \in Results
      BY DEF Results, Answers
    <2>3. route' = [route EXCEPT ![t] = [r EXCEPT !.result = result]]
      BY <1>6 DEF HearVerified
    <2> HIDE DEF result
    <2>4. Routed([r EXCEPT !.result = result])
      BY <1>3, <2>1, <2>2, ResultSet
    <2>5. QED
      BY <1>4, <2>3, <2>4, RoutedAs
  <1>7. QED
    BY <1>5, <1>6

(* No data takes precedence; without it every vendor failed, and the first that was *)
(* not only rate-limited left its error. *)
LEMMA ConcludeWarrants ==
    ASSUME VerdictInv, NEW t \in Threads, Conclude(t)
    PROVE  VerdictInv'
  <1> DEFINE r == route[t]
             result == Told(r.method, Verdict(r), r.error)
  <1>0. InRoute(t) /\ ~(Len(r.said) < Len(r.chain))
    BY DEF Conclude, Asking
  <1>1. /\ Routed(r) /\ r.result = Absent /\ r \in ToolCalls
        /\ Len(r.said) \in Nat /\ Len(r.chain) \in Nat /\ Len(r.said) <= Len(r.chain)
    BY <1>0, CallFacts
  <1>2. Noted(r) /\ Len(r.said) = Len(r.chain)
    BY <1>0, <1>1 DEF Routed
  <1>3. /\ r.noData => result = "no_data"
        /\ ~r.noData => result \in {"raised", "told", "unavailable"}
        /\ ~r.noData /\ r.error # Absent /\ Optional(r.method) => result = "unavailable"
    BY DEF Told, Verdict
  <1>4. result \in Results
    BY <1>3 DEF Results
  <1> HIDE DEF result
  <1>5. ASSUME r.chain # <<>> PROVE Warranted([r EXCEPT !.result = result])
    <2> DEFINE h == [r EXCEPT !.result = result]
    <2>1. /\ h.method = r.method /\ h.chain = r.chain /\ h.said = r.said /\ h.result = result
      BY <1>1 DEF ToolCalls
    <2>2. result \notin Answers
      BY <1>3 DEF Answers
    <2>3. result = "no_data" => "nothing" \in ToSet(r.said)
      BY <1>1, <1>3 DEF Routed
    <2>4. /\ ToSet(r.said) \subseteq Failures \cup {"nothing"}
          /\ "nothing" \in ToSet(r.said) => r.noData
      <3>1. DOMAIN r.said = 1..Len(r.said)
        BY <1>1 DEF ToolCalls
      <3>2. QED
        BY <3>1, <1>2 DEF Noted, ToSet
    <2>5. ~r.noData /\ Optional(r.method) => result = "unavailable"
      <3>1. SUFFICES ASSUME ~r.noData, Optional(r.method) PROVE r.error # Absent
        BY <1>3
      <3>2. 1 \in 1..Len(r.said)
        BY <1>1, <1>2, <1>5 DEF ToolCalls
      <3>3. r.said[1] \in Failures \ {"throttled"}
        BY <1>2, <3>1, <3>2 DEF Noted
      <3>4. QED
        BY <1>2, <3>2, <3>3 DEF Noted
    <2> HIDE DEF h
    <2>6. Warranted(h)
      BY <1>2, <1>3, <2>1, <2>2, <2>3, <2>4, <2>5 DEF Warranted
    <2>7. QED
      BY <2>6 DEF h
  <1>6. Routed([r EXCEPT !.result = result])
    BY <1>1, <1>4, <1>5, ResultSet
  <1>7. route' = [route EXCEPT ![t] = [r EXCEPT !.result = result]]
    BY DEF Conclude, result
  <1>8. toolCalls' \in 0..MaxToolCalls
    BY DEF VerdictInv, Conclude
  <1>9. QED
    BY <1>6, <1>7, <1>8, RoutedAs

LEMMA CallsAlone ==
    ASSUME VerdictInv, UNCHANGED <<route, toolCalls>>
    PROVE  VerdictInv'
  BY DEF VerdictInv

LEMMA StepVerdictInv ==
    ASSUME StockInv, VerdictInv, [StockNext]_stockVars
    PROVE  VerdictInv'
  <1>1. ASSUME NEW t \in Threads, Killed(t)
        PROVE  VerdictInv'
    <2>1. route' = [route EXCEPT ![t] = Absent] /\ toolCalls' = toolCalls
      BY <1>1 DEF Killed
    <2>2. QED
      BY <2>1 DEF VerdictInv
  <1>2. ASSUME NEW t \in Threads, AskFiles(t)
        PROVE  VerdictInv'
    BY <1>2, CallsAlone DEF AskFiles
  <1>3. ASSUME NEW t \in Threads, Route(t) \/ StockStep(t)
        PROVE  VerdictInv'
    BY <1>2, <1>3, RouteWarrants, AskWarrants, HearWarrants, ConcludeWarrants, CallsAlone
       DEF StockStep
  <1>4. CASE UNCHANGED stockVars
    BY <1>4, CallsAlone DEF stockVars
  <1>5. QED
    BY <1>1, <1>3, <1>4, CallsAlone DEF StockNext

LEMMA VerdictInvHolds == StockSpec => []VerdictInv
  <1>1. StockInit => VerdictInv
    BY RoutingAssumption DEF StockInit, VerdictInv
  <1>2. QED
    BY <1>1, StockInvHolds, StepVerdictInv, PTL DEF StockSpec

LEMMA InvTypes == ASSUME StockInv, VerdictInv PROVE StockTypeOK
  <1>1. \A t \in Threads : route[t] = Absent \/ RouteOK(route[t])
    <2>1. ASSUME NEW r, Routed(r) PROVE RouteOK(r)
      BY <2>1 DEF Routed, RouteOK, ToolCalls, ToSet
    <2>2. QED
      BY <2>1 DEF VerdictInv
  <1>2. PriceTypeOK
    BY DEF StockInv, LoadInv, LoadGood, FileTypes, PriceTypeOK
  <1>3. QED
    BY <1>1, <1>2 DEF VerdictInv, StockTypeOK

(* The calls, the prices they load and how they end are what they should be. *)
THEOREM StockTyped == StockSpec => []StockTypeOK
  <1>1. StockInv /\ VerdictInv => StockTypeOK
    BY InvTypes
  <1>2. QED
    BY <1>1, StockInvHolds, VerdictInvHolds, PTL

(* However many vendors a chain has and whatever happens at each of them, a routed *)
(* call ends with the only answer there was, that of the vendor asked last, or with none *)
(* after every vendor was asked; it says that there is no data exactly if a vendor said *)
(* so, and fails otherwise; optional data never fails (route_to_vendor). *)
THEOREM VerdictsAreWarranted == StockSpec => []VerdictIsWarranted
  <1>1. ASSUME VerdictInv, NEW t \in Threads, route[t] # Absent,
               route[t].method # Verified, route[t].chain # <<>>
        PROVE  Warranted(route[t])
    <2>1. Routed(route[t])
      BY <1>1 DEF VerdictInv
    <2>2. CASE route[t].result # Absent
      BY <1>1, <2>1, <2>2 DEF Routed
    <2>3. CASE route[t].result = Absent
      BY <2>3, RoutingAssumption DEF Warranted, Results
    <2>4. QED
      BY <2>2, <2>3
  <1>2. VerdictInv => VerdictIsWarranted
    BY <1>1 DEF VerdictIsWarranted, Warranted
  <1>3. QED
    BY <1>2, VerdictInvHolds, PTL
-----------------------------------------------------------------------------
(* A call runs out of steps.                                               *)

\* The steps a load has left, at most: attempts and lines are counted.
LoadLeft(l) ==
    CASE l.pc = "lookup"   -> MaxDay + MaxTries + 4
      [] l.pc = "download" -> MaxDay + 4 + (MaxTries - l.tries)
      [] l.pc = "open"     -> MaxDay + 3
      [] l.pc = "write"    -> 1 + Cardinality(l.unwritten)
      [] l.pc = "check"    -> 1
      [] OTHER             -> 0

\* The steps of asking for a load, making it and hearing of it.
Round == MaxDay + MaxTries + 6
RoundLeft(l) == IF l = Absent THEN Round ELSE 1 + LoadLeft(l)

\* The steps a call has left, at most two rounds for each vendor.
CallLeft(r, l) ==
    (Len(r.chain) - Len(r.said)) * (2 * Round) + (IF r.again THEN 0 ELSE Round) + RoundLeft(l)

StepsLeft(t) == IF InRoute(t) THEN CallLeft(route[t], load[t]) ELSE 0

LEMMA RoundFacts ==
    /\ MaxDay \in Nat /\ MaxTries \in Nat /\ Round \in Nat /\ 2 * Round \in Nat
    /\ Round = MaxDay + MaxTries + 6
  BY PriceCacheAssumption DEF Round

LEMMA ProductFacts ==
    ASSUME NEW k \in Nat, NEW p \in Nat
    PROVE  k * p \in Nat /\ (k - 1) * p = k * p - p
  OBVIOUS

(* There are at most as many lines to write as a file has. *)
LEMMA LinesToWrite ==
    ASSUME NEW lines, lines \subseteq 0..MaxDay
    PROVE  /\ IsFiniteSet(lines) /\ Cardinality(lines) \in Nat
           /\ Cardinality(lines) <= MaxDay + 1
  <1>1. IsFiniteSet(0..MaxDay) /\ Cardinality(0..MaxDay) = MaxDay + 1
    BY RoundFacts, FS_Interval
  <1>2. IsFiniteSet(lines) /\ Cardinality(lines) <= Cardinality(0..MaxDay)
    BY <1>1, FS_Subset
  <1>3. QED
    BY <1>1, <1>2, FS_CardinalityType

LEMMA LoadLeftFacts ==
    ASSUME StockInv, NEW t \in Threads, load[t] # Absent
    PROVE  /\ LoadLeft(load[t]) \in Nat
           /\ Cardinality(load[t].unwritten) \in Nat
  <1>1. load[t].unwritten \subseteq 0..MaxDay
    BY LoadFacts
  <1>2. /\ Cardinality(load[t].unwritten) \in Nat
        /\ load[t].tries \in 0..MaxTries
    BY <1>1, LinesToWrite, LoadFacts
  <1>3. QED
    BY <1>2, RoundFacts DEF LoadLeft

(* Each step of a load leaves it one less, whatever it finds. *)
LEMMA LoadRunsOut ==
    ASSUME StockInv, NEW t \in Threads, LoadStep(t)
    PROVE  \E x : /\ load' = [load EXCEPT ![t] = x]
                  /\ x # Absent
                  /\ LoadLeft(x) \in Nat
                  /\ LoadLeft(x) < LoadLeft(load[t])
  <1>1. load[t] # Absent
    BY DEF LoadStep, Lookup, Downloaded, Throttled, DownloadFails, Open, WriteLine, Check, At
  <1>2. /\ load[t] \in LoadRecord /\ load[t].tries \in 0..MaxTries
        /\ load[t].unwritten \subseteq 0..load[t].day
        /\ load[t].rows \subseteq 1..load[t].day
        /\ load[t].day \in 1..MaxDay
        /\ LoadLeft(load[t]) \in Nat
    BY <1>1, LoadFacts, LoadLeftFacts
  <1>. DEFINE Less(x) == /\ load' = [load EXCEPT ![t] = x]
                         /\ x # Absent
                         /\ LoadLeft(x) \in Nat
                         /\ LoadLeft(x) < LoadLeft(load[t])
  <1>3. ASSUME NEW x \in LoadRecord, load' = [load EXCEPT ![t] = x], LoadLeft(x) \in Nat,
               LoadLeft(x) < LoadLeft(load[t])
        PROVE  \E y : Less(y)
    <2>1. Less(x)
      BY <1>3, PriceCacheAssumption
    <2>2. QED
      BY <2>1
  <1>4. ASSUME NEW pc \in Done \cup {"check", "open"}, NEW rows, With(t, pc, rows),
               rows \subseteq 1..load[t].day,
               \/ load[t].pc \in {"lookup", "download"}
               \/ load[t].pc = "check" /\ pc \in Done
        PROVE  \E x : Less(x)
    <2>. DEFINE x == [load[t] EXCEPT !.pc = pc, !.tries = 0, !.rows = rows]
    <2>1. load' = [load EXCEPT ![t] = x]
      BY <1>4 DEF With
    <2>2. x.pc = pc /\ x \in LoadRecord
      <3>1. rows \in RowSets /\ pc \in Steps \cup Done
        BY <1>2, <1>4, RoundFacts DEF RowSets, Lines, Steps
      <3>2. QED
        BY <1>2, <3>1 DEF LoadRecord
    <2>. HIDE DEF x
    <2>3. LoadLeft(x) = CASE pc = "check" -> 1 [] pc = "open" -> MaxDay + 3 [] OTHER -> 0
      BY <2>2 DEF LoadLeft, Done
    <2>4. LoadLeft(load[t]) > LoadLeft(x) /\ LoadLeft(x) \in Nat
      BY <1>2, <1>4, <2>3, RoundFacts DEF LoadLeft, Done
    <2>5. QED
      BY <1>3, <2>1, <2>2, <2>4
  <1>5. CASE Lookup(t)
    <2>1. CASE load' = [load EXCEPT ![t] = [@ EXCEPT !.pc = "download", !.tries = 1]]
      <3>. DEFINE x == [load[t] EXCEPT !.pc = "download", !.tries = 1]
      <3>1. x.pc = "download" /\ x.tries = 1 /\ x \in LoadRecord
        BY <1>2 DEF LoadRecord, Steps
      <3>2. load' = [load EXCEPT ![t] = x]
        BY <2>1
      <3>. HIDE DEF x
      <3>3. load[t].pc = "lookup"
        BY <1>5 DEF Lookup, At
      <3>4. LoadLeft(x) = MaxDay + 4 + (MaxTries - 1) /\ LoadLeft(load[t]) = MaxDay + MaxTries + 4
        BY <3>1, <3>3 DEF LoadLeft
      <3>5. LoadLeft(x) \in Nat /\ LoadLeft(x) < LoadLeft(load[t])
        BY <3>4, RoundFacts, PriceCacheAssumption
      <3>6. QED
        BY <1>3, <3>1, <3>2, <3>5
    <2>2. CASE \E rows : rows \subseteq 1..load[t].day
                           /\ (With(t, "check", rows) \/ With(t, "failed", rows))
      <3>1. load[t].pc = "lookup"
        BY <1>5 DEF Lookup, At
      <3>2. \E pc \in {"check", "failed"} : \E rows :
               rows \subseteq 1..load[t].day /\ With(t, pc, rows)
        BY <2>2
      <3>3. {"check", "failed"} \subseteq Done \cup {"check", "open"}
        BY DEF Done
      <3>4. QED
        BY <1>4, <3>1, <3>2, <3>3
    <2>3. CASE file[load[t].day] # Absent /\ With(t, "check", file[load[t].day] \ {0})
      <3>1. file[load[t].day] \subseteq 0..load[t].day
        BY <1>1, <2>3, LoadFacts DEF StockInv, FileTypes
      <3>2. file[load[t].day] \ {0} \subseteq 1..load[t].day
        BY <1>2, <3>1, RoundFacts
      <3>3. QED
        BY <2>2, <2>3, <3>2
    <2>4. CASE Fail(t)
      BY <2>2, <2>4 DEF Fail
    <2>5. QED
      BY <1>5, <2>1, <2>3, <2>4 DEF Lookup
  <1>6. CASE Downloaded(t) \/ DownloadFails(t)
    <2>1. load[t].pc = "download"
      BY <1>6 DEF Downloaded, DownloadFails, At
    <2>2. \E pc \in {"open", "nothing", "failed"} : \E rows :
             rows \subseteq 1..load[t].day /\ With(t, pc, rows)
      <3>1. CASE Downloaded(t)
        <4>1. PICK history \in Histories :
                 LET frame == history \cap 1..load[t].day
                 IN  With(t, IF Cacheable(frame) THEN "open" ELSE "nothing", frame)
          BY <3>1 DEF Downloaded
        <4>2. QED
          BY <4>1
      <3>2. CASE DownloadFails(t)
        BY <3>2 DEF DownloadFails, Fail
      <3>3. QED
        BY <1>6, <3>1, <3>2
    <2>3. QED
      BY <1>4, <2>1, <2>2 DEF Done
  <1>7. CASE Throttled(t)
    <2>. DEFINE x == [load[t] EXCEPT !.tries = load[t].tries + 1]
    <2>1. load[t].pc = "download" /\ load[t].tries < MaxTries
      BY <1>7 DEF Throttled, At
    <2>2. x.pc = "download" /\ x.tries = load[t].tries + 1 /\ x \in LoadRecord
      BY <1>2, <2>1, RoundFacts DEF LoadRecord
    <2>3. load' = [load EXCEPT ![t] = x]
      BY <1>7 DEF Throttled
    <2>. HIDE DEF x
    <2>4. /\ LoadLeft(x) = MaxDay + 4 + (MaxTries - (load[t].tries + 1))
          /\ LoadLeft(load[t]) = MaxDay + 4 + (MaxTries - load[t].tries)
      BY <2>1, <2>2 DEF LoadLeft
    <2>5. LoadLeft(x) \in Nat /\ LoadLeft(x) < LoadLeft(load[t])
      BY <1>2, <2>1, <2>4, RoundFacts
    <2>6. QED
      BY <1>3, <2>2, <2>3, <2>5
  <1>8. CASE Open(t)
    <2>. DEFINE lines == {0} \cup load[t].rows
                x == [load[t] EXCEPT !.pc = "write", !.unwritten = lines]
    <2>1. load[t].pc = "open" /\ load' = [load EXCEPT ![t] = x]
      BY <1>8 DEF Open, At
    <2>2. lines \subseteq 0..MaxDay
      BY <1>2, RoundFacts
    <2>3. x.pc = "write" /\ x.unwritten = lines /\ x \in LoadRecord
      BY <1>2, <2>2 DEF LoadRecord, Steps, RowSets, Lines
    <2>. HIDE DEF lines, x
    <2>4. Cardinality(lines) \in Nat /\ Cardinality(lines) <= MaxDay + 1
      BY <2>2, LinesToWrite
    <2>5. LoadLeft(x) = 1 + Cardinality(lines) /\ LoadLeft(load[t]) = MaxDay + 3
      BY <2>1, <2>3 DEF LoadLeft
    <2>6. LoadLeft(x) \in Nat /\ LoadLeft(x) < LoadLeft(load[t])
      BY <2>4, <2>5, RoundFacts
    <2>7. QED
      BY <1>3, <2>1, <2>3, <2>6
  <1>9. CASE WriteLine(t)
    <2>. DEFINE l == load[t]
                line == First(l.unwritten)
                rest == l.unwritten \ {line}
                pc == IF l.unwritten = {line} THEN "check" ELSE l.pc
                x == [l EXCEPT !.unwritten = rest, !.pc = pc]
    <2>1. l.pc = "write" /\ load' = [load EXCEPT ![t] = x]
      BY <1>9 DEF WriteLine, At
    <2>2. line \in l.unwritten
      <3>1. l.unwritten # {} /\ l.unwritten \subseteq Lines
        BY <1>1, <1>2, <2>1, LoadFacts, RoundFacts DEF LoadGood, Lines
      <3>2. QED
        BY <3>1, FirstFacts
    <2>3. x.pc = pc /\ x.unwritten = rest /\ x \in LoadRecord
      <3>1. rest \in RowSets /\ pc \in Steps \cup Done
        BY <1>2 DEF LoadRecord, RowSets, Steps
      <3>2. QED
        BY <1>2, <3>1 DEF LoadRecord
    <2>4. l.unwritten \subseteq 0..MaxDay
      BY <1>2, RoundFacts
    <2>5. IsFiniteSet(l.unwritten) /\ Cardinality(l.unwritten) \in Nat
      BY <2>4, LinesToWrite
    <2>6. Cardinality(rest) = Cardinality(l.unwritten) - 1 /\ Cardinality(rest) \in Nat
      <3>1. IsFiniteSet(rest) /\ Cardinality(rest) = Cardinality(l.unwritten) - 1
        BY <2>2, <2>5, FS_RemoveElement
      <3>2. QED
        BY <3>1, FS_CardinalityType
    <2>7. LoadLeft(l) = 1 + Cardinality(l.unwritten)
      BY <2>1 DEF LoadLeft
    <2>. HIDE DEF x, rest
    <2>8. CASE l.unwritten = {line}
      <3>1. Cardinality(l.unwritten) = 1
        BY <2>8, FS_Singleton
      <3>2. x.pc = "check"
        BY <2>3, <2>8
      <3>3. LoadLeft(x) = 1
        BY <3>2 DEF LoadLeft
      <3>4. LoadLeft(x) \in Nat /\ LoadLeft(x) < LoadLeft(l)
        BY <2>7, <3>1, <3>3
      <3>5. QED
        BY <1>3, <2>1, <2>3, <3>4
    <2>9. CASE l.unwritten # {line}
      <3>1. LoadLeft(x) = 1 + Cardinality(rest)
        BY <2>1, <2>3, <2>9 DEF LoadLeft
      <3>2. LoadLeft(x) \in Nat /\ LoadLeft(x) < LoadLeft(l)
        BY <2>5, <2>6, <2>7, <3>1
      <3>3. QED
        BY <1>3, <2>1, <2>3, <3>2
    <2>10. QED
      BY <2>8, <2>9
  <1>10. CASE Check(t)
    <2>1. /\ load[t].pc = "check"
          /\ \E pc \in {"nothing", "served"} : \E rows :
                rows \subseteq 1..load[t].day /\ With(t, pc, rows)
      BY <1>2, <1>10 DEF Check, At, UpTo
    <2>2. QED
      BY <1>4, <2>1 DEF Done
  <1>11. QED
    BY <1>5, <1>6, <1>7, <1>8, <1>9, <1>10 DEF LoadStep

\* A thread has steps left as long as its call goes on.  Its own use them up, other
\* steps leave them or end the call, and how many it starts with is given by the chain.
RunsOut(t) ==
    /\ InRoute(t) => StepsLeft(t) \in Nat \ {0}
    /\ StockStep(t) => InRoute(t) /\ StepsLeft(t)' < StepsLeft(t)
    /\ InRoute(t) /\ ~StockStep(t) => StepsLeft(t)' \in {StepsLeft(t), 0}
    /\ Route(t) => StepsLeft(t)' <= (Len(route'[t].chain) + 1) * (2 * Round)

VendorsLeft(r) == (Len(r.chain) - Len(r.said)) * (2 * Round)

LEMMA CallLeftFacts ==
    ASSUME StockInv, VerdictInv, NEW t \in Threads, InRoute(t)
    PROVE  /\ route[t] \in ToolCalls
           /\ VendorsLeft(route[t]) \in Nat
           /\ RoundLeft(load[t]) \in Nat /\ RoundLeft(load[t]) > 0
           /\ StepsLeft(t) = VendorsLeft(route[t]) + (IF route[t].again THEN 0 ELSE Round)
                             + RoundLeft(load[t])
           /\ StepsLeft(t) \in Nat /\ StepsLeft(t) > VendorsLeft(route[t])
  <1>. DEFINE r == route[t]
              k == Len(r.chain) - Len(r.said)
  <1>1. r \in ToolCalls /\ k \in Nat
    BY CallFacts
  <1>2. k * (2 * Round) \in Nat
    BY <1>1, RoundFacts, ProductFacts
  <1>3. VendorsLeft(r) \in Nat
    BY <1>2 DEF VendorsLeft
  <1>4. RoundLeft(load[t]) \in Nat /\ RoundLeft(load[t]) > 0
    BY LoadLeftFacts, RoundFacts DEF RoundLeft
  <1>5. StepsLeft(t) = VendorsLeft(r) + (IF r.again THEN 0 ELSE Round) + RoundLeft(load[t])
    BY DEF StepsLeft, CallLeft, VendorsLeft
  <1>. HIDE DEF r
  <1>6. QED
    BY <1>1, <1>3, <1>4, <1>5, RoundFacts DEF r

(* What is heard of one vendor costs two rounds, whatever it is. *)
LEMMA HeardLeft ==
    ASSUME NEW r \in ToolCalls, Len(r.said) < Len(r.chain), NEW outcome
    PROVE  CallLeft(Heard(r, outcome), Absent) = VendorsLeft(r)
  <1>. DEFINE h == Heard(r, outcome)
              k == Len(r.chain) - Len(r.said)
  <1>1. k \in Nat /\ Len(r.said) \in Nat /\ Len(r.chain) \in Nat
    BY DEF ToolCalls
  <1>2. Len(Append(r.said, outcome)) = Len(r.said) + 1
    BY DEF ToolCalls
  <1>3. h.chain = r.chain /\ h.said = Append(r.said, outcome) /\ h.again = FALSE
    BY DEF Heard, ToolCalls
  <1>. HIDE DEF h
  <1>4. Len(h.chain) - Len(h.said) = k - 1
    <2>1. Len(h.said) = Len(r.said) + 1 /\ Len(h.chain) = Len(r.chain)
      BY <1>2, <1>3
    <2>2. QED
      BY <1>1, <2>1
  <1>5. VendorsLeft(r) = k * (2 * Round)
    BY DEF VendorsLeft
  <1>. HIDE DEF k
  <1>6. CallLeft(h, Absent) = (k - 1) * (2 * Round) + Round + Round
    BY <1>3, <1>4 DEF CallLeft, RoundLeft
  <1>7. (k - 1) * (2 * Round) = VendorsLeft(r) - 2 * Round /\ VendorsLeft(r) \in Nat
    BY <1>1, <1>5, RoundFacts, ProductFacts
  <1>8. CallLeft(h, Absent) = VendorsLeft(r)
    BY <1>6, <1>7, RoundFacts
  <1>9. QED
    BY <1>8 DEF h

LEMMA HeardRunsOut ==
    ASSUME StockInv, VerdictInv, NEW t \in Threads, Asking(t), NEW outcome,
           route' = [route EXCEPT ![t] = Heard(route[t], outcome)], load'[t] = Absent
    PROVE  StepsLeft(t)' < StepsLeft(t)
  <1>1. InRoute(t) /\ Len(route[t].said) < Len(route[t].chain)
    BY DEF Asking
  <1>2. CallLeft(Heard(route[t], outcome), Absent) = VendorsLeft(route[t])
    BY <1>1, CallLeftFacts, HeardLeft
  <1>3. route'[t] = Heard(route[t], outcome)
    BY DEF VerdictInv
  <1>4. StepsLeft(t)' \in {0, VendorsLeft(route[t])}
    BY <1>2, <1>3 DEF StepsLeft
  <1>5. QED
    BY <1>1, <1>4, CallLeftFacts

(* A call that has ended needs no more steps. *)
LEMMA EndRunsOut ==
    ASSUME StockInv, VerdictInv, NEW t \in Threads, InRoute(t), NEW result \in Results,
           route' = [route EXCEPT ![t].result = result]
    PROVE  StepsLeft(t)' < StepsLeft(t)
  <1>1. route[t] \in ToolCalls
    BY CallLeftFacts
  <1>2. route'[t].result = result
    BY <1>1 DEF VerdictInv, ToolCalls
  <1>3. StepsLeft(t)' = 0
    BY <1>2, RoutingAssumption DEF StepsLeft, InRoute
  <1>4. QED
    BY <1>3, CallLeftFacts

LEMMA AskRunsOut ==
    ASSUME StockInv, VerdictInv, NEW t \in Threads, Ask(t) \/ AskUnknown(t)
    PROVE  InRoute(t) /\ StepsLeft(t)' < StepsLeft(t)
  <1>1. Asking(t) /\ InRoute(t) /\ load' = load
    BY DEF Ask, AskUnknown, Asking
  <1>2. load[t] = Absent
    <2>1. CASE Ask(t)
      <3>1. ~ThroughFiles(Vendor(route[t]), route[t].method)
        BY <2>1 DEF Ask, WiresOf
      <3>2. QED
        BY <3>1, NoLoad
    <2>2. CASE AskUnknown(t)
      BY <2>2 DEF AskUnknown
    <2>3. QED
      BY <2>1, <2>2
  <1>3. \E outcome : route' = [route EXCEPT ![t] = Heard(route[t], outcome)]
    BY DEF Ask, AskUnknown
  <1>4. QED
    BY <1>1, <1>2, <1>3, HeardRunsOut

LEMMA AskFilesRunsOut ==
    ASSUME StockInv, VerdictInv, NEW t \in Threads, AskFiles(t)
    PROVE  InRoute(t) /\ StepsLeft(t)' < StepsLeft(t)
  <1>1. InRoute(t) /\ load[t] = Absent /\ route' = route
    BY DEF AskFiles, Asking
  <1>2. PICK date \in 1..today : Locate(t, date)
    BY DEF AskFiles
  <1>. DEFINE x == [pc |-> "lookup", day |-> today, date |-> date, tries |-> 0,
                    unwritten |-> {}, rows |-> {}]
  <1>3. today \in Days /\ date \in Days /\ "lookup" \in Steps \cup Done
    BY PriceCacheAssumption DEF StockInv, Days, Steps
  <1>4. x \in LoadRecord
    BY <1>3 DEF LoadRecord, RowSets
  <1>5. load'[t] = x /\ x # Absent
    BY <1>2, <1>4, PriceCacheAssumption DEF Locate, StockInv, LoadInv
  <1>6. x.pc = "lookup"
    OBVIOUS
  <1>. HIDE DEF x
  <1>7. RoundLeft(load'[t]) = 1 + (MaxDay + MaxTries + 4)
    BY <1>5, <1>6 DEF RoundLeft, LoadLeft
  <1>8. RoundLeft(load[t]) = Round
    BY <1>1 DEF RoundLeft
  <1>9. StepsLeft(t)' = VendorsLeft(route[t]) + (IF route[t].again THEN 0 ELSE Round)
                        + RoundLeft(load'[t])
    BY <1>1 DEF StepsLeft, CallLeft, VendorsLeft, InRoute
  <1>10. QED
    BY <1>1, <1>7, <1>8, <1>9, CallLeftFacts, RoundFacts

LEMMA HearRunsOut ==
    ASSUME StockInv, VerdictInv, NEW t \in Threads, HearFiles(t) \/ HearVerified(t)
    PROVE  InRoute(t) /\ StepsLeft(t)' < StepsLeft(t)
  <1>1. /\ load[t] # Absent /\ InRoute(t) /\ Asking(t)
        /\ load' = [load EXCEPT ![t] = Absent]
    BY DEF HearFiles, HearVerified, Loaded, StockInv, RouteInv
  <1>2. load'[t] = Absent
    BY <1>1 DEF StockInv, LoadInv
  <1>3. ASSUME ~route[t].again, route' = [route EXCEPT ![t] = [route[t] EXCEPT !.again = TRUE]]
        PROVE  StepsLeft(t)' < StepsLeft(t)
    <2>. DEFINE h == [route[t] EXCEPT !.again = TRUE]
    <2>1. route'[t] = h
      BY <1>3 DEF VerdictInv
    <2>2. h.chain = route[t].chain /\ h.said = route[t].said /\ h.again
      BY <1>1, CallLeftFacts DEF ToolCalls
    <2>. HIDE DEF h
    <2>3. CallLeft(h, Absent) = VendorsLeft(route[t]) + 0 + Round
      BY <2>2 DEF CallLeft, VendorsLeft, RoundLeft
    <2>4. StepsLeft(t)' \in {0, VendorsLeft(route[t]) + Round}
      BY <1>1, <1>2, <2>1, <2>3, CallLeftFacts, RoundFacts DEF StepsLeft
    <2>5. StepsLeft(t) = VendorsLeft(route[t]) + Round + RoundLeft(load[t])
      BY <1>1, <1>3, CallLeftFacts
    <2>6. QED
      BY <1>1, <2>4, <2>5, CallLeftFacts, RoundFacts
  <1>4. CASE HearFiles(t)
    <2>1. CASE \E outcome : route' = [route EXCEPT ![t] = Heard(route[t], outcome)]
      BY <1>1, <1>2, <2>1, HeardRunsOut
    <2>2. CASE ~route[t].again /\ route' = [route EXCEPT ![t] = [route[t] EXCEPT !.again = TRUE]]
      BY <1>1, <1>3, <2>2
    <2>3. QED
      <3>1. route[t].again \in BOOLEAN
        BY <1>1, CallLeftFacts DEF ToolCalls
      <3>2. CASE load[t].pc # "failed"
        BY <1>4, <2>1, <3>2 DEF HearFiles
      <3>3. CASE load[t].pc = "failed" /\ route[t].again
        BY <1>4, <2>1, <3>3 DEF HearFiles
      <3>4. CASE load[t].pc = "failed" /\ ~route[t].again
        BY <1>4, <2>2, <3>4 DEF HearFiles
      <3>5. QED
        BY <3>2, <3>3, <3>4
  <1>5. CASE HearVerified(t)
    <2>. DEFINE result == IF At(t, "served") /\ load[t].rows # {} THEN "served" ELSE "raised"
    <2>1. result \in Results /\ route' = [route EXCEPT ![t].result = result]
      BY <1>5 DEF HearVerified, Results, Answers
    <2>. HIDE DEF result
    <2>2. QED
      BY <1>1, <2>1, EndRunsOut
  <1>6. QED
    BY <1>1, <1>4, <1>5

LEMMA ConcludeRunsOut ==
    ASSUME StockInv, VerdictInv, NEW t \in Threads, Conclude(t)
    PROVE  InRoute(t) /\ StepsLeft(t)' < StepsLeft(t)
  <1>. DEFINE result == Told(route[t].method, Verdict(route[t]), route[t].error)
  <1>1. InRoute(t) /\ route' = [route EXCEPT ![t].result = result]
    BY DEF Conclude
  <1>2. result \in Results
    BY DEF Told, Verdict, Results
  <1>. HIDE DEF result
  <1>3. QED
    BY <1>1, <1>2, EndRunsOut

LEMMA LoadStepRunsOut ==
    ASSUME StockInv, VerdictInv, NEW t \in Threads, LoadStep(t), UNCHANGED route
    PROVE  InRoute(t) /\ StepsLeft(t)' < StepsLeft(t)
  <1>1. PICK x : /\ load' = [load EXCEPT ![t] = x] /\ x # Absent
                 /\ LoadLeft(x) \in Nat /\ LoadLeft(x) < LoadLeft(load[t])
    BY LoadRunsOut
  <1>2. load[t] # Absent
    BY DEF LoadStep, Lookup, Downloaded, Throttled, DownloadFails, Open, WriteLine, Check, At
  <1>3. InRoute(t) /\ load'[t] = x
    BY <1>1, <1>2 DEF StockInv, RouteInv, Asking, LoadInv
  <1>4. RoundLeft(load'[t]) = 1 + LoadLeft(x) /\ RoundLeft(load[t]) = 1 + LoadLeft(load[t])
    BY <1>1, <1>2, <1>3 DEF RoundLeft
  <1>5. StepsLeft(t)' = VendorsLeft(route[t]) + (IF route[t].again THEN 0 ELSE Round)
                        + RoundLeft(load'[t])
    BY <1>3 DEF StepsLeft, CallLeft, VendorsLeft, InRoute
  <1>6. LoadLeft(load[t]) \in Nat
    BY <1>2, LoadLeftFacts
  <1>7. QED
    BY <1>1, <1>3, <1>4, <1>5, <1>6, CallLeftFacts, RoundFacts

LEMMA RouteStarts ==
    ASSUME StockInv, VerdictInv, NEW t \in Threads, Route(t)
    PROVE  StepsLeft(t)' <= (Len(route'[t].chain) + 1) * (2 * Round)
  <1>1. PICK method \in Methods, config \in Configs :
           route' = [route EXCEPT ![t] =
                       [method |-> method, chain |-> Chain(method, config), said |-> <<>>,
                        noData |-> FALSE, error |-> Absent, again |-> FALSE,
                        result |-> IF Chain(method, config) = <<>>
                                   THEN Told(method, "raised", "bad_argument")
                                   ELSE Absent]]
    BY DEF Route
  <1>2. /\ route'[t].chain = Chain(method, config) /\ route'[t].said = <<>>
        /\ route'[t].again = FALSE
    BY <1>1 DEF VerdictInv
  <1>3. Len(route'[t].chain) \in Nat /\ Len(route'[t].said) = 0 /\ load'[t] = Absent
    BY <1>2, ChainFacts DEF Route, StockInv, LoadInv
  <1>. DEFINE k == Len(route'[t].chain)
  <1>4. CallLeft(route'[t], load'[t]) = k * (2 * Round) + Round + Round
    BY <1>2, <1>3 DEF CallLeft, RoundLeft
  <1>5. k \in Nat /\ k + 1 \in Nat /\ (k + 1) - 1 = k
    BY <1>3
  <1>6. /\ (k + 1) * (2 * Round) \in Nat
        /\ ((k + 1) - 1) * (2 * Round) = (k + 1) * (2 * Round) - 2 * Round
    BY <1>5, RoundFacts, ProductFacts
  <1>7. StepsLeft(t)' \in {0, CallLeft(route'[t], load'[t])}
    BY DEF StepsLeft
  <1>. HIDE DEF k
  <1>8. StepsLeft(t)' <= (k + 1) * (2 * Round)
    BY <1>4, <1>5, <1>6, <1>7, RoundFacts
  <1>9. QED
    BY <1>8 DEF k

LEMMA OthersAlone ==
    ASSUME StockInv, VerdictInv, NEW t \in Threads, NEW u \in Threads \ {t},
           Route(u) \/ StockStep(u) \/ Killed(u)
    PROVE  route'[t] = route[t] /\ load'[t] = load[t]
  <1>1. \E x : route' = [route EXCEPT ![u] = x] \/ route' = route
    BY DEF Route, StockStep, Ask, AskUnknown, AskFiles, HearFiles, HearVerified, Conclude, Killed
  <1>2. \E x : load' = [load EXCEPT ![u] = x] \/ load' = load
    BY LoadRunsOut DEF Route, StockStep, Ask, AskUnknown, AskFiles, Locate, HearFiles,
       HearVerified, Conclude, Killed, Die
  <1>3. QED
    BY <1>1, <1>2 DEF StockInv, LoadInv, VerdictInv

LEMMA StepRunsOut ==
    ASSUME StockInv, VerdictInv, StockNext, NEW t \in Threads
    PROVE  RunsOut(t)
  <1>1. StockStep(t) => InRoute(t) /\ StepsLeft(t)' < StepsLeft(t)
    BY AskRunsOut, AskFilesRunsOut, HearRunsOut, ConcludeRunsOut, LoadStepRunsOut DEF StockStep
  <1>2. InRoute(t) => StepsLeft(t) \in Nat \ {0}
    BY CallLeftFacts
  <1>3. ASSUME InRoute(t), ~StockStep(t)
        PROVE  StepsLeft(t)' \in {StepsLeft(t), 0}
    <2>1. CASE Killed(t)
      BY <2>1 DEF Killed, VerdictInv, StepsLeft, InRoute
    <2>2. CASE \/ \E u \in Threads \ {t} : Route(u) \/ StockStep(u) \/ Killed(u)
               \/ Midnight /\ UNCHANGED <<route, toolCalls>>
      <3>1. route'[t] = route[t] /\ load'[t] = load[t]
        BY <2>2, OthersAlone DEF Midnight
      <3>2. QED
        BY <3>1 DEF StepsLeft, InRoute
    <2>3. ~Route(t)
      BY <1>3 DEF Route
    <2>4. QED
      BY <1>3, <2>1, <2>2, <2>3 DEF StockNext
  <1>4. QED
    BY <1>1, <1>2, <1>3, RouteStarts DEF RunsOut

(* A tool call of n vendors ends after at most 2 (n + 1) rounds of its thread's own *)
(* steps, whatever the vendors do and the other threads do to the files: no step of *)
(* another thread, and no midnight, gives it more to do (route_to_vendor, yf_retry, *)
(* load_ohlcv). *)
THEOREM ToolCallsRunOut == StockSpec => [][\A t \in Threads : RunsOut(t)]_stockVars
  <1>1. StockInv /\ VerdictInv /\ [StockNext]_stockVars
           => [\A t \in Threads : RunsOut(t)]_stockVars
    BY StepRunsOut
  <1>2. QED
    BY <1>1, StockInvHolds, VerdictInvHolds, PTL DEF StockSpec
=============================================================================
