------------------------------- MODULE Stats --------------------------------
(***************************************************************************)
(* Traffic statistics (stats.rs).  The proxy path adds to sharded counters *)
(* without any lock.  A flush, under the history mutex, moves what the     *)
(* counters gained since the last flush into the day it was called on and  *)
(* writes the file; a report, under the same mutex, adds what is not       *)
(* flushed yet to the stored days.  Both read the shards one by one while  *)
(* traffic goes on, and both take the date before they wait for the mutex. *)
(*                                                                         *)
(* A cell is one route and kind.  The three fields of Totals are treated   *)
(* alike by the code, so one number stands for them.                       *)
(***************************************************************************)
EXTENDS Integers, FiniteSets, Functions

CONSTANTS
  NCells,      \* routes times kinds, in the order a flush visits them
  NShards,     \* SHARDS
  KeepDays,    \* KEEP_DAYS
  Flushers,    \* the minute flush and the flush on exit
  Readers,     \* connections of the admin listener
  MaxTraffic,  \* bound on the traffic of a cell
  MaxStreams,  \* bound on the streams a cell starts in one process
  MaxDay,      \* bound on the calendar
  Nobody       \* the mutex is free

ASSUME StatsAssumption ==
  /\ {NCells, NShards, KeepDays, MaxDay} \subseteq Nat \ {0}
  /\ {MaxTraffic, MaxStreams} \subseteq Nat
  /\ Nobody \notin Flushers \cup Readers
  /\ Flushers \cap Readers = {}

Cells == 1 .. NCells
Shards == 1 .. NShards
Dates == 1 .. MaxDay
Actors == Flushers \cup Readers

VARIABLES
  count,      \* per cell and shard, traffic since the start
  active,     \* per cell and shard, streams started minus finished
  date,       \* the local calendar
  lock,       \* holder of the history mutex
  days,       \* history in memory: date -> cell -> traffic
  flushed,    \* per cell, the counter value already added to days
  disk,       \* the stats file
  task,       \* where each flush or read is
  \* History, read by properties only.
  base,       \* per cell, traffic recorded by earlier processes
  dropped,    \* per cell, traffic of days pruned from memory
  diskDropped,\* the same as of the last write
  covered,    \* per cell, traffic when the last written flush took the lock
  gone,       \* dates that have left the file
  started,    \* per cell, streams started
  ended       \* per cell, streams finished

state == <<count, active, date, lock, days, flushed, disk, task>>
history == <<base, dropped, diskDropped, covered, gone, started, ended>>
vars == <<state, history>>

Zero == [c \in Cells |-> 0]
NoShards == [c \in Cells |-> [s \in Shards |-> 0]]
Rest == [pc |-> "idle", today |-> 0, cell |-> 1, shard |-> 1, sum |-> 0,
         low |-> Zero, s0 |-> 0, e0 |-> 0]

\* Traffic of a cell since the start, and the recorded traffic of a history.
Counted(c) == SumFunction(count[c])
Served(c) == base[c] + Counted(c)
Recorded(hist, c) == SumFunction([d \in DOMAIN hist |-> hist[d][c]])

\* Days: traffic by date.
IsHistory(hist) == DOMAIN hist \subseteq Dates /\ \A d \in DOMAIN hist : hist[d] \in [Cells -> Nat]

\* The type of every variable (Counters, History, StatsFile).
TypeOK ==
  /\ count \in [Cells -> [Shards -> 0 .. MaxTraffic]]
  /\ active \in [Cells -> [Shards -> Int]]
  /\ date \in Dates
  /\ lock \in Actors \cup {Nobody}
  /\ IsHistory(days) /\ IsHistory(disk)
  /\ flushed \in [Cells -> Nat]
  /\ \A a \in Actors : task[a].pc \in
       {"idle", "waiting", "scan", "scanned", "credit", "write", "gauge", "gauged"}

Init ==
  /\ count = NoShards
  /\ active = NoShards
  /\ date = 1
  /\ lock = Nobody
  /\ days = << >>
  /\ flushed = Zero
  /\ disk = << >>
  /\ task = [a \in Actors |-> Rest]
  /\ base = Zero /\ dropped = Zero /\ diskDropped = Zero /\ covered = Zero
  /\ gone = {}
  /\ started = Zero /\ ended = Zero

-----------------------------------------------------------------------------
(* The proxy path. *)

\* add_request, add_bytes_in and add_bytes_out, on the shard of whatever
\* thread runs the handler or polls the body.
Count(c, s) ==
  /\ Served(c) < MaxTraffic
  /\ count' = [count EXCEPT ![c][s] = @ + 1]
  /\ UNCHANGED <<active, date, lock, days, flushed, disk, task, history>>

\* Meter::response starts a stream, dropping the meter ends it, possibly on
\* another thread.
StreamStarted(c, s) ==
  /\ started[c] < MaxStreams
  /\ active' = [active EXCEPT ![c][s] = @ + 1]
  /\ started' = [started EXCEPT ![c] = @ + 1]
  /\ UNCHANGED <<count, date, lock, days, flushed, disk, task,
                 base, dropped, diskDropped, covered, gone, ended>>

StreamFinishedFloored(c, s) ==
  /\ ended[c] < started[c]
  /\ active' = [active EXCEPT ![c][s] = IF @ > 0 THEN @ - 1 ELSE 0]
  /\ ended' = [ended EXCEPT ![c] = @ + 1]
  /\ UNCHANGED <<count, date, lock, days, flushed, disk, task,
                 base, dropped, diskDropped, covered, gone, started>>

StreamFinished(c, s) ==
  /\ ended[c] < started[c]
  /\ active' = [active EXCEPT ![c][s] = @ - 1]
  /\ ended' = [ended EXCEPT ![c] = @ + 1]
  /\ UNCHANGED <<count, date, lock, days, flushed, disk, task,
                 base, dropped, diskDropped, covered, gone, started>>

Midnight ==
  /\ date < MaxDay
  /\ date' = date + 1
  /\ UNCHANGED <<count, active, lock, days, flushed, disk, task, history>>

-----------------------------------------------------------------------------
(* Steps shared by flush_on and report_on. *)

\* flush and report read the clock before they ask for the mutex.
Call(a) ==
  /\ task[a].pc = "idle"
  /\ task' = [task EXCEPT ![a] = [Rest EXCEPT !.pc = "waiting", !.today = date]]
  /\ UNCHANGED <<count, active, date, lock, days, flushed, disk, history>>

\* low remembers the counters when the shards are first read.
LockIgnored(a, c) ==
  /\ task[a].pc = "waiting"
  /\ lock' = a
  /\ task' = [task EXCEPT ![a] = [@ EXCEPT !.pc = "scan", !.cell = c,
                                           !.low = [k \in Cells |-> Counted(k)]]]
  /\ UNCHANGED <<count, active, date, days, flushed, disk, history>>

Lock(a, c) ==
  /\ task[a].pc = "waiting"
  /\ lock = Nobody
  /\ lock' = a
  /\ task' = [task EXCEPT ![a] = [@ EXCEPT !.pc = "scan", !.cell = c,
                                           !.low = [k \in Cells |-> Counted(k)]]]
  /\ UNCHANGED <<count, active, date, days, flushed, disk, history>>

\* Counters::totals reads one shard after the other.
ScanShortOfLast(a) ==
  /\ task[a].pc = "scan"
  /\ LET t == task[a] IN
       task' = [task EXCEPT ![a] =
                  [t EXCEPT !.sum = t.sum + (IF t.shard < NShards THEN count[t.cell][t.shard] ELSE 0),
                            !.shard = IF t.shard < NShards THEN t.shard + 1 ELSE 1,
                            !.pc = IF t.shard < NShards THEN "scan" ELSE "scanned"]]
  /\ UNCHANGED <<count, active, date, lock, days, flushed, disk, history>>

ScanShard(a) ==
  /\ task[a].pc = "scan"
  /\ LET t == task[a] IN
       task' = [task EXCEPT ![a] =
                  [t EXCEPT !.sum = t.sum + count[t.cell][t.shard],
                            !.shard = IF t.shard < NShards THEN t.shard + 1 ELSE 1,
                            !.pc = IF t.shard < NShards THEN "scan" ELSE "scanned"]]
  /\ UNCHANGED <<count, active, date, lock, days, flushed, disk, history>>

\* Totals::minus saturates at zero.
MinusSwapped(a, b) == b - a

Minus(a, b) == IF a > b THEN a - b ELSE 0

-----------------------------------------------------------------------------
(* flush_on, after the scan of a cell. *)

\* The delta replaces the sum, and the sum becomes the flushed value.
AdvanceNothing(f) ==
  /\ task[f].pc = "scanned"
  /\ LET t == task[f] IN
       task' = [task EXCEPT ![f] = [t EXCEPT !.pc = "credit",
                                             !.sum = Minus(t.sum, flushed[t.cell])]]
  /\ UNCHANGED <<count, active, date, lock, days, flushed, disk, history>>

Advance(f) ==
  /\ task[f].pc = "scanned"
  /\ LET t == task[f] IN
       /\ flushed' = [flushed EXCEPT ![t.cell] = t.sum]
       /\ task' = [task EXCEPT ![f] = [t EXCEPT !.pc = "credit",
                                                !.sum = Minus(t.sum, flushed[t.cell])]]
  /\ UNCHANGED <<count, active, date, lock, days, disk, history>>

\* The delta joins today's entry; a zero delta makes no entry.
SetTo(hist, d, c, n) ==
  [k \in DOMAIN hist \cup {d} |->
     [x \in Cells |-> IF k = d /\ x = c THEN n
                      ELSE IF k \in DOMAIN hist THEN hist[k][x] ELSE 0]]

AddTo(hist, d, c, n) ==
  IF n = 0 THEN hist
  ELSE [k \in DOMAIN hist \cup {d} |->
          [x \in Cells |-> (IF k \in DOMAIN hist THEN hist[k][x] ELSE 0)
                           + (IF k = d /\ x = c THEN n ELSE 0)]]

Credit(f) ==
  /\ task[f].pc = "credit"
  /\ LET t == task[f] IN
       /\ days' = AddTo(days, t.today, t.cell, t.sum)
       /\ task' = [task EXCEPT ![f] =
                     [t EXCEPT !.sum = 0,
                               !.cell = IF t.cell < NCells THEN t.cell + 1 ELSE 1,
                               !.pc = IF t.cell < NCells THEN "scan" ELSE "write"]]
  /\ UNCHANGED <<count, active, date, lock, flushed, disk, history>>

\* The oldest days go until KEEP_DAYS are left.
KeptOneMore(dates) == {d \in dates : Cardinality({e \in dates : e > d}) <= KeepDays}

Kept(dates) == {d \in dates : Cardinality({e \in dates : e > d}) < KeepDays}

\* Prune, write the file, or fail to or have no path to, and release the mutex.
Write(f, ok) ==
  /\ task[f].pc = "write"
  /\ LET kept == Kept(DOMAIN days)
         cut == DOMAIN days \ kept
     IN  /\ days' = Restrict(days, kept)
         /\ disk' = IF ok THEN days' ELSE disk
         /\ gone' = IF ok THEN gone \cup (DOMAIN disk \ kept) ELSE gone
         /\ dropped' = [c \in Cells |-> dropped[c] + Recorded(Restrict(days, cut), c)]
         /\ diskDropped' = IF ok THEN dropped' ELSE diskDropped
         /\ covered' = IF ok THEN [c \in Cells |-> base[c] + task[f].low[c]] ELSE covered
  /\ lock' = Nobody
  /\ task' = [task EXCEPT ![f] = Rest]
  /\ UNCHANGED <<count, active, date, flushed, base, started, ended>>

-----------------------------------------------------------------------------
(* report_on and prometheus, for one cell. *)

\* What report_on adds to the stored days.
Pending(r) == Minus(task[r].sum, flushed[task[r].cell])

\* prometheus reads the same counters without the mutex.
Scrape(r, c) ==
  /\ task[r].pc = "idle"
  /\ task' = [task EXCEPT ![r] = [Rest EXCEPT !.pc = "scan", !.cell = c,
                                              !.low = [k \in Cells |-> Counted(k)]]]
  /\ UNCHANGED <<count, active, date, lock, days, flushed, disk, history>>

\* The totals are read; the gauge of the same cell is next.
ReadGauge(r) ==
  /\ task[r].pc = "scanned"
  /\ LET c == task[r].cell IN
       task' = [task EXCEPT ![r] = [Rest EXCEPT !.pc = "gauge", !.cell = c,
                                                !.s0 = started[c], !.e0 = ended[c]]]
  /\ UNCHANGED <<count, active, date, lock, days, flushed, disk, history>>

\* Counters::active adds up the shards one after the other.
GaugeShard(r) ==
  /\ task[r].pc = "gauge"
  /\ LET t == task[r] IN
       task' = [task EXCEPT ![r] =
                  [t EXCEPT !.sum = t.sum + active[t.cell][t.shard],
                            !.shard = IF t.shard < NShards THEN t.shard + 1 ELSE 1,
                            !.pc = IF t.shard < NShards THEN "gauge" ELSE "gauged"]]
  /\ UNCHANGED <<count, active, date, lock, days, flushed, disk, history>>

\* A negative sum is reported as zero; a report releases the mutex.
Gauge(r) == IF task[r].sum > 0 THEN task[r].sum ELSE 0

Answer(r) ==
  /\ task[r].pc = "gauged"
  /\ task' = [task EXCEPT ![r] = Rest]
  /\ lock' = IF lock = r THEN Nobody ELSE lock
  /\ UNCHANGED <<count, active, date, days, flushed, disk, history>>

-----------------------------------------------------------------------------
\* The process ends and Stats::open loads the file in the next one: counters
\* start from zero and what was not written is lost.
Restart ==
  /\ count' = NoShards /\ active' = NoShards /\ flushed' = Zero
  /\ days' = disk
  /\ lock' = Nobody
  /\ task' = [a \in Actors |-> Rest]
  /\ dropped' = diskDropped
  /\ base' = [c \in Cells |-> Recorded(disk, c) + diskDropped[c]]
  /\ started' = Zero /\ ended' = Zero
  /\ UNCHANGED <<date, disk, diskDropped, covered, gone>>

Next ==
  \/ \E c \in Cells, s \in Shards : Count(c, s) \/ StreamStarted(c, s) \/ StreamFinished(c, s)
  \/ Midnight
  \/ \E a \in Actors : Call(a) \/ ScanShard(a)
  \/ \E f \in Flushers :
       Lock(f, 1) \/ Advance(f) \/ Credit(f) \/ \E ok \in BOOLEAN : Write(f, ok)
  \/ \E r \in Readers :
       \/ \E c \in Cells : Lock(r, c) \/ Scrape(r, c)
       \/ ReadGauge(r) \/ GaugeShard(r) \/ Answer(r)
  \/ Restart

Spec == Init /\ [][Next]_vars

-----------------------------------------------------------------------------
(* Properties *)

\* A total read shard by shard while traffic goes on lies between the true
\* totals at the first and after the last read (Counters::totals), so two
\* scrapes in a row never go backwards.
ScanBounds ==
  \A a \in Actors : task[a].pc = "scanned" =>
    /\ task[a].low[task[a].cell] <= task[a].sum
    /\ task[a].sum <= Counted(task[a].cell)

\* No byte is recorded twice: the file, with the days pruned from it, never
\* holds more than was served, whichever flushes overlap or fail to write and
\* whenever the process stops (flush_on, Stats::open).
NeverOvercounts ==
  \A c \in Cells : Recorded(disk, c) + diskDropped[c] <= Served(c)

\* The account the file keeps: its days and the days pruned from it.
Account == INSTANCE Ledger
  WITH served <- [c \in Cells |-> Served(c)],
       filed <- [c \in Cells |-> Recorded(disk, c) + diskDropped[c]]

\* The statistics keep their books whichever flushes overlap or fail to write
\* and whenever the process stops: what is on file only grows, never passes
\* what was served, and is all that a restart starts from (flush_on,
\* Stats::open).
ImplementsLedger == Account!Spec

\* A flush that wrote the file has put there everything counted before it took
\* the mutex, including what earlier flushes failed to write (flush_on).
FlushCovers ==
  \A c \in Cells : Recorded(disk, c) + diskDropped[c] >= covered[c]

\* A report neither misses nor doubles traffic: stored days and pending
\* traffic together are exactly the total it read, whatever flush ran just
\* before (report_on holds the mutex a flush holds).
ReportConsistent ==
  \A r \in Readers : task[r].pc = "scanned" /\ lock = r =>
    LET c == task[r].cell IN
      Recorded(days, c) + dropped[c] + Pending(r) = base[c] + task[r].sum

\* The file holds at most KEEP_DAYS days, and every day that has left it is
\* older than every day in it, over failed writes and restarts and also when
\* a flush called before midnight gets the mutex after it (flush_on).
KeptDays ==
  /\ Cardinality(DOMAIN disk) <= KeepDays
  /\ \A g \in gone, d \in DOMAIN disk : g < d

\* The reported number of active streams is off by no more than the streams
\* that start or finish while the shards are read (Counters::active, streams
\* that end on another thread than they started on).
GaugeBounds ==
  \A r \in Readers : task[r].pc = "gauged" =>
    LET c == task[r].cell IN
      /\ Gauge(r) <= started[c] - task[r].e0
      /\ Gauge(r) >= task[r].s0 - ended[c]
=============================================================================
