---------------------------- MODULE StatsProofs -----------------------------
(***************************************************************************)
(* The statistics for any number of cells, shards and days, any flushers   *)
(* and readers, and any traffic.                                           *)
(***************************************************************************)
EXTENDS Stats, SumTheorems, TLAPS

\* What a scan of one cell has still to read, of the counters or the gauges.
Unread(counters, t) == SumFunctionOnSet(counters[t.cell], t.shard .. NShards)

Above(dates, d) == {e \in dates : e > d}

Holding == {"scan", "scanned", "credit", "write"}
Reading == {"scan", "scanned", "gauge", "gauged"}

Tasks == [pc : {"idle", "waiting", "gauge", "gauged"} \cup Holding,
          today : Nat, cell : Cells, shard : Shards, sum : Int,
          low : [Cells -> Nat], s0 : Nat, e0 : Nat]

\* The types of all variables, without the bound on the traffic.
Types ==
  /\ count \in [Cells -> [Shards -> Nat]]
  /\ active \in [Cells -> [Shards -> Int]]
  /\ date \in Dates
  /\ lock \in Actors \cup {Nobody}
  /\ IsHistory(days) /\ IsHistory(disk)
  /\ flushed \in [Cells -> Nat]
  /\ task \in [Actors -> Tasks]
  /\ base \in [Cells -> Nat] /\ dropped \in [Cells -> Nat] /\ diskDropped \in [Cells -> Nat]
  /\ covered \in [Cells -> Nat] /\ started \in [Cells -> Nat] /\ ended \in [Cells -> Nat]
  /\ gone \subseteq Dates

\* Who is where: a flush past its wait holds the mutex, and a holder is past
\* its wait.
Placed(a) ==
  LET t == task[a] IN
    /\ a \in Flushers => t.pc \in {"idle", "waiting"} \cup Holding
    /\ a \in Readers => t.pc \in {"idle", "waiting"} \cup Reading
    /\ a \in Flushers /\ t.pc \in Holding => lock = a
    /\ lock = a => t.pc \notin {"idle", "waiting"}
    /\ t.pc # "idle" /\ a \in Flushers => t.today \in Dates

\* A scan in progress: what it has read and what it has still to read lie
\* between the total at its start and the total now.
Scanning(a) ==
  LET t == task[a] IN
    /\ t.pc \in {"waiting", "scanned", "credit"} => t.shard = 1
    /\ t.pc = "waiting" => t.sum = 0
    /\ t.pc \in {"scan", "scanned", "credit"} => t.sum \in Nat
    /\ t.pc \in Holding => \A c \in Cells : t.low[c] <= Counted(c)
    /\ t.pc = "scan" => /\ t.low[t.cell] <= t.sum + Unread(count, t)
                        /\ t.sum + Unread(count, t) <= Counted(t.cell)
    /\ t.pc = "scanned" => /\ t.low[t.cell] <= t.sum
                           /\ t.sum <= Counted(t.cell)

\* The same of a gauge, up to the streams that started or ended meanwhile.
Gauging(a) ==
  LET t == task[a] IN
    /\ t.pc \in {"gauge", "gauged"} => t.e0 <= ended[t.cell] /\ t.s0 <= started[t.cell]
    /\ t.pc = "gauge" => /\ t.s0 - ended[t.cell] <= t.sum + Unread(active, t)
                         /\ t.sum + Unread(active, t) <= started[t.cell] - t.e0
    /\ t.pc = "gauged" => /\ t.s0 - ended[t.cell] <= t.sum
                          /\ t.sum <= started[t.cell] - t.e0

\* The cells that the flush f has advanced.
Advanced(f, c) ==
  /\ f \in Flushers
  /\ \/ task[f].pc = "write"
     \/ c < task[f].cell
     \/ c = task[f].cell /\ task[f].pc = "credit"

\* What the holder of the mutex saw when it took it: a cell was flushed up to
\* then at most, and a flush takes it at least as far.
Watermark(a) ==
  lock = a /\ task[a].pc \in Holding =>
    \A c \in Cells : IF Advanced(a, c) THEN task[a].low[c] <= flushed[c]
                                        ELSE flushed[c] <= task[a].low[c]

ActorInv(a) == Placed(a) /\ Scanning(a) /\ Gauging(a) /\ Watermark(a)

\* The delta that a flush has taken from the counters and not yet recorded.
InFlight(c) ==
  IF lock \in Flushers /\ task[lock].pc = "credit" /\ task[lock].cell = c
    THEN task[lock].sum ELSE 0

\* The books of each cell: what is recorded is what is flushed, no more is
\* flushed than was counted, and the streams on all shards are those running.
Books(c) ==
  /\ Recorded(days, c) + dropped[c] + InFlight(c) = base[c] + flushed[c]
  /\ flushed[c] <= Counted(c)
  /\ Served(c) <= MaxTraffic
  /\ SumFunctionOnSet(active[c], 1 .. NShards) = started[c] - ended[c]
  /\ ended[c] <= started[c]
  /\ Recorded(disk, c) + diskDropped[c] <= Served(c)
  /\ Recorded(disk, c) + diskDropped[c] >= covered[c]

\* What is gone, or pruned from memory only, lies below KEEP_DAYS kept days.
Pruned ==
  /\ Cardinality(DOMAIN disk) <= KeepDays
  /\ \A g \in gone : /\ Cardinality(Above(DOMAIN days, g)) >= KeepDays
                     /\ Cardinality(Above(DOMAIN disk, g)) >= KeepDays
  /\ \A d \in DOMAIN disk \ DOMAIN days : Cardinality(Above(DOMAIN days, d)) >= KeepDays

\* The inductive invariant.
StatsInv ==
  /\ Types
  /\ \A a \in Actors : ActorInv(a)
  /\ \A c \in Cells : Books(c)
  /\ Pruned

-----------------------------------------------------------------------------
(* Shards *)

\* The constants, one by one.
LEMMA Constants ==
  /\ NCells \in Nat \ {0} /\ NShards \in Nat \ {0} /\ KeepDays \in Nat \ {0}
  /\ MaxDay \in Nat \ {0} /\ MaxTraffic \in Nat /\ MaxStreams \in Nat
  /\ Nobody \notin Actors /\ \A a \in Flushers : a \notin Readers
BY StatsAssumption DEF Actors

\* The shards are finite, and so are those from any one on.
LEMMA ShardsFinite ==
  ASSUME NEW i \in Shards
  PROVE  /\ i .. NShards \subseteq Shards
         /\ IsFiniteSet(i .. NShards) /\ IsFiniteSet(Shards)
         /\ 1 \in Shards /\ 1 .. NShards = Shards
<1>1. NShards \in Nat \ {0} /\ i \in Int
  BY Constants DEF Shards
<1>2. IsFiniteSet(i .. NShards) /\ IsFiniteSet(1 .. NShards)
  BY <1>1, FS_Interval
<1> QED  BY <1>1, <1>2 DEF Shards

\* Shard s of cell c has changed by v.
ShardMoved(f, g, c, s, v) == g = [f EXCEPT ![c][s] = @ + v]

\* One shard of one cell changes: the sums that hold it change as much.
LEMMA ShardChange ==
  ASSUME NEW f \in [Cells -> [Shards -> Int]], NEW v \in Int,
         NEW c \in Cells, NEW s \in Shards, NEW k \in Cells, NEW i \in Shards,
         NEW g, ShardMoved(f, g, c, s, v)
  PROVE  /\ SumFunctionOnSet(f[k], i .. NShards) \in Int
         /\ SumFunctionOnSet(g[k], i .. NShards) =
              SumFunctionOnSet(f[k], i .. NShards) + (IF k = c /\ i <= s THEN v ELSE 0)
<1> DEFINE T == i .. NShards
<1>1. IsFiniteSet(T) /\ T \subseteq Shards
  BY ShardsFinite
<1>2. /\ \A y \in T : f[k][y] \in Int
      /\ \A y \in T : ~(k = c /\ y = s) => g[k][y] = f[k][y]
      /\ g[c][s] = f[c][s] + v
  BY <1>1 DEF ShardMoved
<1>3. s \in T <=> i <= s
  BY Constants DEF Shards
<1> HIDE DEF T
<1>4. SumFunctionOnSet(f[k], T) \in Int
  BY <1>1, <1>2, SumInt
<1>5. CASE k = c /\ s \in T
  <2>1. /\ g[k][s] \in Int /\ f[k][s] \in Int /\ g[k][s] = f[k][s] + v
        /\ \A y \in T \ {s} : g[k][y] = f[k][y]
    BY <1>2, <1>5
  <2>2. SumFunctionOnSet(g[k], T) = SumFunctionOnSet(f[k], T) + (g[k][s] - f[k][s])
    <3>1. \A y \in T : f[k][y] \in Int /\ g[k][y] \in Int /\ (y # s => g[k][y] = f[k][y])
      BY <1>2, <1>5
    <3> DEFINE fk == f[k]
               gk == g[k]
    <3>2. \A y \in T : fk[y] \in Int /\ gk[y] \in Int /\ (y # s => gk[y] = fk[y])
      BY <3>1
    <3> HIDE DEF fk, gk
    <3>3. SumFunctionOnSet(gk, T) = SumFunctionOnSet(fk, T) + (gk[s] - fk[s])
      BY <1>1, <1>5, <3>2, SumChange
    <3> QED  BY <3>3 DEF fk, gk
  <2> QED  BY <1>3, <1>4, <1>5, <2>1, <2>2 DEF T
<1>6. CASE ~(k = c /\ s \in T)
  <2>1. \A y \in T : f[k][y] \in Int /\ g[k][y] = f[k][y]
    BY <1>2, <1>6
  <2>2. SumFunctionOnSet(g[k], T) = SumFunctionOnSet(f[k], T)
    BY <1>1, <2>1, SumSame
  <2> QED  BY <1>3, <1>4, <1>6, <2>2 DEF T
<1> QED  BY <1>5, <1>6

\* Reading shard i leaves the shards after it, and none after the last.
LEMMA ShardRead ==
  ASSUME NEW h \in [Shards -> Int], NEW i \in Shards
  PROVE  SumFunctionOnSet(h, i .. NShards) =
           h[i] + (IF i < NShards THEN SumFunctionOnSet(h, (i + 1) .. NShards) ELSE 0)
<1>1. IsFiniteSet(i .. NShards) /\ (\A x \in i .. NShards : h[x] \in Int) /\ i \in i .. NShards
  BY ShardsFinite, Constants DEF Shards
<1>2. SumFunctionOnSet(h, i .. NShards) = h[i] + SumFunctionOnSet(h, (i .. NShards) \ {i})
  BY <1>1, SumTake
<1>3. (i .. NShards) \ {i} = IF i < NShards THEN (i + 1) .. NShards ELSE {}
  BY Constants DEF Shards
<1> QED  BY <1>2, <1>3, SumEmpty

\* The total of a cell is what a scan at the first shard has still to read.
LEMMA CountedIsUnread ==
  ASSUME count \in [Cells -> [Shards -> Nat]], NEW c \in Cells
  PROVE  /\ Counted(c) = SumFunctionOnSet(count[c], 1 .. NShards)
         /\ Counted(c) \in Nat
         /\ \A s \in Shards : count[c][s] <= Counted(c)
<1>1. DOMAIN count[c] = Shards /\ \A x \in Shards : count[c][x] \in Nat
  OBVIOUS
<1>2. 1 \in Shards
  BY Constants DEF Shards
<1>3. Counted(c) = SumFunctionOnSet(count[c], Shards) /\ 1 .. NShards = Shards
  BY <1>1 DEF Counted, SumFunction, Shards
<1>4. IsFiniteSet(Shards)
  BY <1>2, ShardsFinite
<1> QED  BY <1>1, <1>3, <1>4, SumNat

-----------------------------------------------------------------------------
(* Histories *)

\* The days of a history are finite many.
LEMMA HistoryFinite ==
  ASSUME NEW h, IsHistory(h)
  PROVE  IsFiniteSet(DOMAIN h) /\ DOMAIN h \subseteq Nat
<1>1. IsFiniteSet(Dates) /\ Dates \subseteq Nat
  BY Constants, FS_Interval DEF Dates
<1> QED  BY <1>1, FS_Subset DEF IsHistory

\* The traffic of a history.
LEMMA RecordedSum ==
  ASSUME NEW h, IsHistory(h), NEW c \in Cells
  PROVE  /\ Recorded(h, c) = SumFunctionOnSet([d \in DOMAIN h |-> h[d][c]], DOMAIN h)
         /\ Recorded(h, c) \in Nat
<1> DEFINE f == [d \in DOMAIN h |-> h[d][c]]
<1>1. DOMAIN f = DOMAIN h /\ \A d \in DOMAIN h : f[d] \in Nat
  BY DEF IsHistory
<1>2. Recorded(h, c) = SumFunctionOnSet(f, DOMAIN f)
  BY DEF Recorded, SumFunction
<1>3. IsFiniteSet(DOMAIN h)
  BY HistoryFinite
<1> HIDE DEF f
<1>4. SumFunctionOnSet(f, DOMAIN h) \in Nat
  BY <1>1, <1>3, SumNat
<1> QED  BY <1>1, <1>2, <1>4 DEF f

\* Credit adds the delta to one cell, whether or not the day is new.
LEMMA RecordedAdd ==
  ASSUME NEW h, IsHistory(h), NEW d \in Dates, NEW c \in Cells, NEW n \in Nat
  PROVE  LET g == AddTo(h, d, c, n) IN
         /\ IsHistory(g)
         /\ DOMAIN h \subseteq DOMAIN g
         /\ \A k \in Cells : Recorded(g, k) = Recorded(h, k) + (IF k = c THEN n ELSE 0)
<1> DEFINE g == AddTo(h, d, c, n)
<1>1. CASE n = 0
  <2>1. g = h
    BY <1>1 DEF AddTo
  <2>2. \A k \in Cells : Recorded(h, k) \in Nat
    BY RecordedSum
  <2> QED  BY <1>1, <2>1, <2>2
<1>2. CASE n # 0
  <2>1. /\ DOMAIN g = DOMAIN h \cup {d}
        /\ \A e \in DOMAIN g, x \in Cells :
             g[e][x] = (IF e \in DOMAIN h THEN h[e][x] ELSE 0) + (IF e = d /\ x = c THEN n ELSE 0)
        /\ \A e \in DOMAIN g : g[e] = [x \in Cells |-> g[e][x]]
    BY <1>2 DEF AddTo
  <2> HIDE DEF g
  <2>2. \A e \in DOMAIN h, x \in Cells : h[e][x] \in Nat
    BY DEF IsHistory
  <2>3. IsHistory(g)
    <3>1. DOMAIN g \subseteq Dates
      BY <2>1 DEF IsHistory
    <3>2. \A e \in DOMAIN g, x \in Cells : g[e][x] \in Nat
      BY <2>1, <2>2
    <3>3. \A e \in DOMAIN g : g[e] \in [Cells -> Nat]
      BY <2>1, <3>2
    <3> QED  BY <3>1, <3>3 DEF IsHistory
  <2>4. ASSUME NEW k \in Cells
        PROVE  Recorded(g, k) = Recorded(h, k) + (IF k = c THEN n ELSE 0)
    <3> DEFINE hk == [e \in DOMAIN h |-> h[e][k]]
               gk == [e \in DOMAIN g |-> g[e][k]]
               v == IF k = c THEN n ELSE 0
    <3>1. /\ Recorded(h, k) = SumFunctionOnSet(hk, DOMAIN h) /\ Recorded(h, k) \in Nat
          /\ Recorded(g, k) = SumFunctionOnSet(gk, DOMAIN g)
      BY <2>3, RecordedSum
    <3>2. IsFiniteSet(DOMAIN h) /\ IsFiniteSet(DOMAIN g) /\ d \in DOMAIN g
      BY <2>1, <2>3, HistoryFinite
    <3>3. v \in Nat
      OBVIOUS
    <3>4. /\ \A e \in DOMAIN h : hk[e] \in Nat
          /\ \A e \in DOMAIN h \ {d} : gk[e] = hk[e]
          /\ gk[d] = (IF d \in DOMAIN h THEN hk[d] ELSE 0) + v
          /\ \A e \in DOMAIN g : gk[e] \in Nat
      BY <2>1, <2>2
    <3> HIDE DEF hk, gk, v
    <3>5. CASE d \in DOMAIN h
      <4>1. DOMAIN g = DOMAIN h
        BY <2>1, <3>5
      <4>2. \A e \in DOMAIN h : hk[e] \in Int /\ gk[e] \in Int /\ (e # d => gk[e] = hk[e])
        BY <3>4, <4>1
      <4>3. SumFunctionOnSet(gk, DOMAIN h) = SumFunctionOnSet(hk, DOMAIN h) + (gk[d] - hk[d])
        BY <3>2, <3>5, <4>2, SumChange
      <4>4. gk[d] - hk[d] = v
        BY <3>3, <3>4, <3>5
      <4> QED  BY <3>1, <4>1, <4>3, <4>4 DEF v
    <3>6. CASE d \notin DOMAIN h
      <4>1. DOMAIN g \ {d} = DOMAIN h
        BY <2>1, <3>6
      <4>2. \A e \in DOMAIN g : gk[e] \in Int
        BY <3>4
      <4>3. SumFunctionOnSet(gk, DOMAIN g) = gk[d] + SumFunctionOnSet(gk, DOMAIN h)
        BY <3>2, <4>1, <4>2, SumTake
      <4>4. \A e \in DOMAIN h : hk[e] \in Int /\ gk[e] = hk[e]
        BY <3>4, <3>6
      <4>5. SumFunctionOnSet(gk, DOMAIN h) = SumFunctionOnSet(hk, DOMAIN h)
        BY <3>2, <4>4, SumSame
      <4>6. gk[d] = v
        BY <3>3, <3>4, <3>6
      <4> QED  BY <3>1, <3>3, <4>3, <4>5, <4>6 DEF v
    <3> QED  BY <3>5, <3>6
  <2> QED  BY <2>1, <2>3, <2>4 DEF g
<1> QED  BY <1>1, <1>2

\* Pruning splits the traffic of a history.
LEMMA RecordedCut ==
  ASSUME NEW h, IsHistory(h), NEW T \in SUBSET DOMAIN h, NEW c \in Cells
  PROVE  /\ IsHistory(Restrict(h, T))
         /\ Recorded(h, c) = Recorded(Restrict(h, T), c)
                               + Recorded(Restrict(h, DOMAIN h \ T), c)
<1> DEFINE f == [d \in DOMAIN h |-> h[d][c]]
           Part(U) == [d \in U |-> h[d][c]]
<1>1. ASSUME NEW U \in SUBSET DOMAIN h
      PROVE  /\ IsHistory(Restrict(h, U))
             /\ Recorded(Restrict(h, U), c) = SumFunctionOnSet(f, U)
  <2>1. DOMAIN Restrict(h, U) = U /\ \A d \in U : Restrict(h, U)[d] = h[d]
    BY DEF Restrict
  <2>2. IsHistory(Restrict(h, U))
    BY <2>1 DEF IsHistory
  <2>3. Recorded(Restrict(h, U), c) = SumFunctionOnSet([d \in U |-> Restrict(h, U)[d][c]], U)
    BY <2>1, <2>2, RecordedSum
  <2>4. [d \in U |-> Restrict(h, U)[d][c]] = Part(U)
    BY <2>1
  <2>5. \A d \in U : Part(U)[d] \in Int /\ f[d] = Part(U)[d]
    BY DEF IsHistory
  <2>6. IsFiniteSet(U)
    BY HistoryFinite, FS_Subset
  <2> HIDE DEF f, Part
  <2>7. SumFunctionOnSet(f, U) = SumFunctionOnSet(Part(U), U)
    BY <2>5, <2>6, SumSame
  <2> QED  BY <2>2, <2>3, <2>4, <2>7
<1>2. Recorded(h, c) = SumFunctionOnSet(f, DOMAIN h)
  BY RecordedSum
<1>3. IsFiniteSet(DOMAIN h) /\ \A d \in DOMAIN h : f[d] \in Int
  BY HistoryFinite DEF IsHistory
<1> HIDE DEF f
<1>4. SumFunctionOnSet(f, DOMAIN h) = SumFunctionOnSet(f, T) + SumFunctionOnSet(f, DOMAIN h \ T)
  BY <1>3, SumSplit
<1> QED  BY <1>1, <1>2, <1>4

-----------------------------------------------------------------------------
(* Pruning *)

\* A set of dates has a last one.
LEMMA LatestOf ==
  ASSUME NEW T \in SUBSET Dates, T # {}
  PROVE  \E m \in T : \A n \in T : n <= m
<1> DEFINE R == {MaxDay - d : d \in T}
<1>0. \A d \in T : d \in Nat /\ MaxDay - d \in Nat
  BY Constants DEF Dates
<1>1. R \in SUBSET Nat /\ R # {} /\ \A d \in T : d \in Nat /\ MaxDay - d \in R
  BY <1>0, Zenon
<1>2. PICK r \in R : \A q \in R : r <= q
  BY <1>1, LeastOf
<1>3. PICK m \in T : r = MaxDay - m
  OBVIOUS
<1>4. ASSUME NEW n \in T PROVE n <= m
  <2>1. MaxDay - m <= MaxDay - n
    BY <1>1, <1>2, <1>3
  <2> QED  BY <1>1, <2>1, Constants
<1> QED  BY <1>4

\* Dates and the dates above one are finite sets.
LEMMA AboveFinite ==
  ASSUME NEW T \in SUBSET Dates, NEW d \in Dates
  PROVE  /\ IsFiniteSet(T) /\ Cardinality(T) \in Nat
         /\ IsFiniteSet(Above(T, d)) /\ Cardinality(Above(T, d)) \in Nat
<1>1. IsFiniteSet(Dates)
  BY Constants, FS_Interval DEF Dates
<1>2. Above(T, d) \in SUBSET Dates
  BY DEF Above
<1>3. IsFiniteSet(T) /\ IsFiniteSet(Above(T, d))
  BY <1>1, <1>2, FS_Subset
<1> QED  BY <1>3, FS_CardinalityType

\* More dates, more of them above one.
LEMMA AboveGrows ==
  ASSUME NEW T \in SUBSET Dates, NEW U \in SUBSET T, NEW d \in Dates
  PROVE  Cardinality(Above(U, d)) <= Cardinality(Above(T, d))
<1>1. Above(U, d) \in SUBSET Above(T, d)
  BY DEF Above
<1>2. IsFiniteSet(Above(T, d))
  BY AboveFinite
<1> QED  BY <1>1, <1>2, FS_Subset

\* Pruning keeps KEEP_DAYS days at most, and a day goes only when there are
\* KEEP_DAYS later ones.
LEMMA KeptFew ==
  ASSUME NEW T \in SUBSET Dates
  PROVE  /\ Kept(T) \subseteq T
         /\ Cardinality(Kept(T)) <= KeepDays
         /\ \A d \in T \ Kept(T) : Cardinality(Above(T, d)) >= KeepDays
<1>1. Kept(T) \subseteq T /\ \A d \in T : d \in Kept(T) <=> Cardinality(Above(T, d)) < KeepDays
  BY DEF Kept, Above
<1>2. \A d \in T \ Kept(T) : Cardinality(Above(T, d)) >= KeepDays
  <2> SUFFICES ASSUME NEW d \in T \ Kept(T) PROVE Cardinality(Above(T, d)) >= KeepDays
    OBVIOUS
  <2>1. Cardinality(Above(T, d)) \in Nat
    BY AboveFinite
  <2> QED  BY <1>1, <2>1, Constants
<1>3. Cardinality(Kept(T)) <= KeepDays
  <2> DEFINE K == Kept(T)
  <2>1. K \in SUBSET Dates /\ IsFiniteSet(K) /\ Cardinality(K) \in Nat
    <3>1. K \in SUBSET Dates
      BY <1>1
    <3>2. IsFiniteSet(Dates)
      BY Constants, FS_Interval DEF Dates
    <3> HIDE DEF K
    <3> QED  BY <3>1, <3>2, FS_Subset, FS_CardinalityType
  <2>2. CASE K = {}
    BY <2>2, FS_EmptySet, Constants
  <2>3. CASE K # {}
    <3>1. K \in SUBSET Nat
      BY <2>1 DEF Dates
    <3> HIDE DEF K
    <3>2. PICK m \in K : \A n \in K : m <= n
      BY <2>3, <3>1, LeastOf
    <3>3. K \ {m} \in SUBSET Above(T, m)
      <4>1. \A n \in K \ {m} : n \in T /\ n > m
        BY <1>1, <3>1, <3>2 DEF K
      <4> QED  BY <4>1 DEF Above
    <3>4. m \in T /\ m \in Dates /\ Cardinality(Above(T, m)) < KeepDays
      BY <1>1 DEF K
    <3>5. Cardinality(K \ {m}) <= Cardinality(Above(T, m)) /\ Cardinality(Above(T, m)) \in Nat
      BY <3>3, <3>4, AboveFinite, FS_Subset
    <3>6. Cardinality(K \ {m}) = Cardinality(K) - 1
      BY <2>1, FS_RemoveElement
    <3> QED  BY <2>1, <3>4, <3>5, <3>6, Constants DEF K
  <2> QED  BY <2>2, <2>3
<1> QED  BY <1>1, <1>2, <1>3

\* Pruning keeps the latest days: KEEP_DAYS of them above a date remain.
LEMMA KeptLatest ==
  ASSUME NEW T \in SUBSET Dates, NEW x \in Dates, Cardinality(Above(T, x)) >= KeepDays
  PROVE  Cardinality(Above(Kept(T), x)) >= KeepDays
<1> DEFINE lost == Above(T, x) \ Kept(T)
<1>1. Kept(T) \in SUBSET T /\ T \in SUBSET Nat /\ x \in Nat
  BY KeptFew DEF Dates
<1>2. CASE lost = {}
  <2>1. Above(Kept(T), x) = Above(T, x)
    BY <1>1, <1>2 DEF Above
  <2> QED  BY <2>1
<1>3. CASE lost # {}
  <2>1. lost \in SUBSET Dates /\ lost \in SUBSET T
    BY DEF Above
  <2>2. PICK m \in lost : \A n \in lost : n <= m
    BY <1>3, <2>1, LatestOf
  <2>3. m \in T /\ m \in Dates /\ m > x /\ m \in Nat
    BY <1>1, <2>2 DEF Above
  <2>4. Above(T, m) \in SUBSET Above(Kept(T), x)
    <3> SUFFICES ASSUME NEW e \in T, e > m PROVE e \in Kept(T) /\ e > x
      BY DEF Above
    <3>1. e > x
      BY <1>1, <2>3
    <3>2. e \in Above(T, x) /\ e \notin lost
      BY <1>1, <2>2, <2>3, <3>1 DEF Above
    <3> QED  BY <3>1, <3>2
  <2>5. Cardinality(Above(T, m)) >= KeepDays /\ Cardinality(Above(T, m)) \in Nat
    BY <2>2, <2>3, KeptFew, AboveFinite
  <2>6. Kept(T) \in SUBSET Dates
    BY <1>1
  <2>7. IsFiniteSet(Above(Kept(T), x)) /\ Cardinality(Above(Kept(T), x)) \in Nat
    BY <2>6, AboveFinite
  <2>8. Cardinality(Above(T, m)) <= Cardinality(Above(Kept(T), x))
    BY <2>4, <2>7, FS_Subset
  <2> QED  BY <2>5, <2>7, <2>8, Constants
<1> QED  BY <1>2, <1>3

-----------------------------------------------------------------------------
(* Steps of one flush or reader that record nothing *)

\* The lock as a step of actor a leaves it: as it was, taken or released by a.
LockMove(a) ==
  \/ lock' = lock
  \/ lock = Nobody /\ lock' = a
  \/ lock = a /\ lock' = Nobody

\* A task at rest is a task.
LEMMA RestTask == Rest \in Tasks /\ Zero \in [Cells -> Nat] /\ 1 \in Cells /\ 1 \in Shards
<1>1. 1 \in Cells /\ 1 \in Shards
  BY Constants DEF Cells, Shards
<1> QED  BY <1>1 DEF Rest, Tasks, Zero, Holding

\* A step of one actor leaves the others where they were.
LEMMA OtherActor ==
  ASSUME Types, NEW a \in Actors, NEW b \in Actors, b # a, ActorInv(b),
         task'[b] = task[b], LockMove(a), flushed' = flushed \/ lock = a,
         UNCHANGED <<count, active, started, ended>>
  PROVE  ActorInv(b)'
<1>1. b # Nobody
  BY Constants
<1>2. lock' = b <=> lock = b
  BY <1>1 DEF LockMove
<1>3. Placed(b)'
  BY <1>2 DEF ActorInv, Placed
<1>4. Scanning(b)'
  BY DEF ActorInv, Scanning, Unread, Counted
<1>5. Gauging(b)'
  BY DEF ActorInv, Gauging, Unread
<1>6. Watermark(b)'
  BY <1>2 DEF ActorInv, Watermark, Advanced
<1> QED  BY <1>3, <1>4, <1>5, <1>6 DEF ActorInv

\* A step of one actor that neither takes nor records a delta, and leaves the
\* counters and the history alone, has only its own invariant to keep.
LEMMA QuietStep ==
  ASSUME StatsInv, NEW a \in Actors, NEW t \in Tasks,
         task' = [task EXCEPT ![a] = t],
         task[a].pc # "credit", t.pc # "credit", LockMove(a),
         UNCHANGED <<count, active, date, days, flushed, disk, history>>,
         ActorInv(a)'
  PROVE  StatsInv'
<1> USE DEF StatsInv
<1>1. task'[a] = t /\ \A b \in Actors : b # a => task'[b] = task[b]
  BY DEF Types
<1>2. Types'
  BY DEF Types, LockMove, history, IsHistory
<1>3. \A b \in Actors : ActorInv(b)'
  BY <1>1, OtherActor DEF history
<1>4. \A c \in Cells : InFlight(c)' = InFlight(c)
  <2>1. CASE lock' = lock
    <3>1. CASE lock = a
      BY <1>1, <2>1, <3>1 DEF InFlight
    <3>2. CASE lock # a
      BY <1>1, <2>1, <3>2 DEF InFlight, Actors
    <3> QED  BY <3>1, <3>2
  <2>2. CASE lock = Nobody /\ lock' = a
    BY <1>1, <2>2, Constants DEF InFlight, Actors
  <2>3. CASE lock = a /\ lock' = Nobody
    BY <1>1, <2>3, Constants DEF InFlight, Actors
  <2> QED  BY <2>1, <2>2, <2>3 DEF LockMove
<1>5. \A c \in Cells : Books(c)'
  BY <1>4 DEF Books, Counted, Served, Recorded, history
<1>6. Pruned'
  BY DEF Pruned, history
<1> QED  BY <1>2, <1>3, <1>5, <1>6

\* A call takes the date and waits.
LEMMA CallInv == ASSUME StatsInv, NEW a \in Actors, Call(a) PROVE StatsInv'
<1> DEFINE t == [Rest EXCEPT !.pc = "waiting", !.today = date]
<1>1. /\ t \in Tasks /\ t.pc = "waiting" /\ t.today = date /\ t.shard = 1 /\ t.sum = 0
  <2>1. date \in Nat
    BY DEF StatsInv, Types, Dates
  <2> QED  BY <2>1, RestTask DEF Rest, Tasks
<1>2. task' = [task EXCEPT ![a] = t] /\ task[a].pc = "idle"
  BY DEF Call
<1> HIDE DEF t
<1>3. task'[a] = t /\ lock # a /\ lock' = lock /\ LockMove(a)
  BY <1>2 DEF StatsInv, Types, ActorInv, Placed, Call, LockMove
<1>4. ActorInv(a)'
  BY <1>1, <1>3 DEF ActorInv, Placed, Scanning, Gauging, Watermark, Holding, StatsInv, Types, Reading
<1> QED  BY <1>1, <1>2, <1>3, <1>4, QuietStep DEF Call

\* The start of a scan, of any cell, by an actor that has the mutex or goes
\* without: everything is still to be read.
LEMMA ScanStarts ==
  ASSUME StatsInv, NEW t \in Tasks, t.shard = 1, t.sum = 0,
         \A c \in Cells : t.low[c] = Counted(c)
  PROVE  /\ t.low[t.cell] <= t.sum + Unread(count, t)
         /\ t.sum + Unread(count, t) <= Counted(t.cell)
         /\ \A c \in Cells : t.low[c] <= Counted(c) /\ flushed[c] <= t.low[c]
<1>1. \A c \in Cells : Counted(c) \in Nat /\ Counted(c) = SumFunctionOnSet(count[c], 1 .. NShards)
  BY CountedIsUnread DEF StatsInv, Types
<1>2. t.cell \in Cells
  BY DEF Tasks
<1>3. \A c \in Cells : flushed[c] <= Counted(c)
  BY DEF StatsInv, Books
<1> QED  BY <1>1, <1>2, <1>3 DEF Unread

\* Taking the mutex: the waiting actor starts to scan.
LEMMA LockInv ==
  ASSUME StatsInv, NEW a \in Actors, NEW c \in Cells, Lock(a, c), a \in Flushers => c = 1
  PROVE  StatsInv'
<1> DEFINE t == [task[a] EXCEPT !.pc = "scan", !.cell = c, !.low = [k \in Cells |-> Counted(k)]]
<1>1. \A k \in Cells : Counted(k) \in Nat
  BY CountedIsUnread DEF StatsInv, Types
<1>2. task[a] \in Tasks /\ task[a].pc = "waiting" /\ lock = Nobody /\ lock' = a
  BY DEF Lock, StatsInv, Types
<1>3. /\ task[a].shard = 1 /\ task[a].sum = 0 /\ (a \in Flushers => task[a].today \in Dates)
  BY <1>2 DEF StatsInv, ActorInv, Scanning, Placed
<1>4. /\ t \in Tasks /\ t.pc = "scan" /\ t.shard = 1 /\ t.sum = 0 /\ t.cell = c
      /\ t.today = task[a].today /\ \A k \in Cells : t.low[k] = Counted(k)
  BY <1>1, <1>2, <1>3 DEF Tasks, Holding
<1>5. task' = [task EXCEPT ![a] = t] /\ UNCHANGED <<count, flushed>>
  BY DEF Lock
<1> HIDE DEF t
<1>6. task'[a] = t /\ LockMove(a)
  BY <1>2, <1>5 DEF StatsInv, Types, LockMove
<1>7. ActorInv(a)'
  <2>1. Placed(a)'
    BY <1>2, <1>3, <1>4, <1>6 DEF Placed, Holding, Reading
  <2>2. Scanning(a)'
    BY <1>4, <1>5, <1>6, ScanStarts DEF Scanning, Unread, Counted, Holding
  <2>3. Gauging(a)'
    BY <1>4, <1>6 DEF Gauging
  <2>4. Watermark(a)'
    <3>1. \A k \in Cells : ~Advanced(a, k)'
      BY <1>4, <1>6, Constants DEF Advanced, Cells
    <3> QED  BY <1>4, <1>5, <1>6, <3>1, ScanStarts DEF Watermark
  <2> QED  BY <2>1, <2>2, <2>3, <2>4 DEF ActorInv
<1> QED  BY <1>2, <1>4, <1>5, <1>6, <1>7, QuietStep DEF Lock

\* A scrape starts to scan without the mutex.
LEMMA ScrapeInv ==
  ASSUME StatsInv, NEW r \in Readers, NEW c \in Cells, Scrape(r, c)
  PROVE  StatsInv'
<1> DEFINE t == [Rest EXCEPT !.pc = "scan", !.cell = c, !.low = [k \in Cells |-> Counted(k)]]
<1>1. \A k \in Cells : Counted(k) \in Nat
  BY CountedIsUnread DEF StatsInv, Types
<1>2. r \in Actors /\ r \notin Flushers /\ task[r].pc = "idle" /\ lock # r /\ lock' = lock
  BY Constants DEF Scrape, Actors, StatsInv, ActorInv, Placed
<1>3. /\ t \in Tasks /\ t.pc = "scan" /\ t.shard = 1 /\ t.sum = 0 /\ t.cell = c
      /\ \A k \in Cells : t.low[k] = Counted(k)
  BY <1>1, RestTask DEF Rest, Tasks, Holding
<1>4. task' = [task EXCEPT ![r] = t] /\ UNCHANGED <<count, flushed>>
  BY DEF Scrape
<1> HIDE DEF t
<1>5. task'[r] = t /\ LockMove(r)
  BY <1>2, <1>4 DEF StatsInv, Types, LockMove
<1>6. ActorInv(r)'
  <2>1. Placed(r)' /\ Watermark(r)' /\ Gauging(r)'
    BY <1>2, <1>3, <1>5 DEF Placed, Holding, Reading, Watermark, Gauging
  <2>2. Scanning(r)'
    BY <1>3, <1>4, <1>5, ScanStarts DEF Scanning, Unread, Counted, Holding
  <2> QED  BY <2>1, <2>2 DEF ActorInv
<1> QED  BY <1>2, <1>3, <1>4, <1>5, <1>6, QuietStep DEF Scrape

\* Reading one shard moves its traffic from what is unread to the sum.
LEMMA ScanShardInv == ASSUME StatsInv, NEW a \in Actors, ScanShard(a) PROVE StatsInv'
<1> DEFINE u == task[a]
           t == [u EXCEPT !.sum = u.sum + count[u.cell][u.shard],
                          !.shard = IF u.shard < NShards THEN u.shard + 1 ELSE 1,
                          !.pc = IF u.shard < NShards THEN "scan" ELSE "scanned"]
<1>1. u \in Tasks /\ u.pc = "scan" /\ task' = [task EXCEPT ![a] = t] /\ lock' = lock
  BY DEF ScanShard, StatsInv, Types
<1>2. u.cell \in Cells /\ u.shard \in Shards /\ NShards \in Nat \ {0}
  BY <1>1, Constants DEF Tasks
<1>3. /\ count[u.cell] \in [Shards -> Int] /\ count[u.cell][u.shard] \in Nat
      /\ \A k \in Cells : Counted(k) \in Nat
  BY <1>2, CountedIsUnread DEF StatsInv, Types
<1>4. /\ ActorInv(a) /\ UNCHANGED <<count, flushed>>
      /\ u.sum \in Nat /\ u.low[u.cell] <= u.sum + Unread(count, u)
      /\ u.sum + Unread(count, u) <= Counted(u.cell)
      /\ \A k \in Cells : u.low[k] <= Counted(k)
  BY <1>1 DEF StatsInv, ActorInv, Scanning, ScanShard, Holding
<1>5. /\ t \in Tasks
      /\ t.sum = u.sum + count[u.cell][u.shard]
      /\ t.shard = (IF u.shard < NShards THEN u.shard + 1 ELSE 1)
      /\ t.pc = (IF u.shard < NShards THEN "scan" ELSE "scanned")
      /\ t.cell = u.cell /\ t.low = u.low /\ t.today = u.today
  <2> DEFINE n == u.sum + count[u.cell][u.shard]
             i == IF u.shard < NShards THEN u.shard + 1 ELSE 1
             p == IF u.shard < NShards THEN "scan" ELSE "scanned"
  <2>0. t = [u EXCEPT !.sum = n, !.shard = i, !.pc = p]
    OBVIOUS
  <2> HIDE DEF t, u
  <2>1. n \in Int /\ i \in Shards /\ p \in {"scan", "scanned", "gauge", "gauged"}
    <3>1. n \in Int
      BY <1>2, <1>3, <1>4
    <3>2. i \in Shards
      BY <1>2 DEF Shards
    <3>3. p \in {"scan", "scanned", "gauge", "gauged"}
      OBVIOUS
    <3> QED  BY <3>1, <3>2, <3>3
  <2>2. u \in Tasks
    BY <1>1
  <2> HIDE DEF n, i, p
  <2>3. /\ t \in Tasks /\ t.sum = n /\ t.shard = i /\ t.pc = p
        /\ t.cell = u.cell /\ t.low = u.low /\ t.today = u.today /\ t.s0 = u.s0 /\ t.e0 = u.e0
    BY <2>0, <2>1, <2>2 DEF Tasks, Holding
  <2> QED  BY <2>3 DEF n, i, p
<1>6. Unread(count, u) = count[u.cell][u.shard] + (IF u.shard < NShards THEN Unread(count, t) ELSE 0)
  BY <1>2, <1>3, <1>5, ShardRead DEF Unread
<1>7. u.shard < NShards => Unread(count, t) \in Int
  <2>1. ASSUME u.shard < NShards PROVE t.shard \in Shards /\ t.cell \in Cells
    BY <1>2, <1>5, <2>1 DEF Shards
  <2>2. ASSUME NEW i \in Shards PROVE SumFunctionOnSet(count[u.cell], i .. NShards) \in Int
    BY <1>3, ShardsFinite, SumInt
  <2> QED  BY <1>5, <2>1, <2>2 DEF Unread
<1> HIDE DEF t, u
<1>8. task'[a] = t /\ LockMove(a) /\ task[a] = u
  BY <1>1 DEF StatsInv, Types, LockMove, u
<1>9. ActorInv(a)'
  <2>1. Placed(a)'
    BY <1>1, <1>4, <1>5, <1>8 DEF ActorInv, Placed, Holding, Reading
  <2>2. Scanning(a)'
    <3>1. t.sum \in Nat
      BY <1>3, <1>4, <1>5
    <3>2. (\A k \in Cells : Counted(k)' = Counted(k)) /\ Unread(count', t) = Unread(count, t)
      BY <1>4 DEF Counted, Unread
    <3>3. CASE u.shard < NShards
      <4>1. t.sum + Unread(count, t) = u.sum + Unread(count, u)
        BY <1>3, <1>4, <1>5, <1>6, <1>7, <3>3
      <4> QED  BY <1>2, <1>4, <1>5, <1>8, <3>1, <3>2, <3>3, <4>1 DEF Scanning
    <3>4. CASE ~(u.shard < NShards)
      <4>1. t.sum = u.sum + Unread(count, u)
        BY <1>3, <1>4, <1>5, <1>6, <3>4
      <4> QED  BY <1>2, <1>4, <1>5, <1>8, <3>1, <3>2, <3>4, <4>1 DEF Scanning
    <3> QED  BY <3>3, <3>4
  <2>3. Gauging(a)'
    BY <1>5, <1>8 DEF Gauging
  <2>4. Watermark(a)'
    BY <1>1, <1>4, <1>5, <1>8 DEF ActorInv, Watermark, Advanced, Holding
  <2> QED  BY <2>1, <2>2, <2>3, <2>4 DEF ActorInv
<1> QED  BY <1>1, <1>5, <1>8, <1>9, QuietStep DEF ScanShard, u

\* The gauge of a cell: all shards are still to be read.
LEMMA ReadGaugeInv == ASSUME StatsInv, NEW r \in Readers, ReadGauge(r) PROVE StatsInv'
<1> DEFINE c == task[r].cell
           t == [Rest EXCEPT !.pc = "gauge", !.cell = c, !.s0 = started[c], !.e0 = ended[c]]
<1>1. /\ r \in Actors /\ r \notin Flushers
      /\ task[r].pc = "scanned" /\ task[r] \in Tasks /\ c \in Cells
      /\ task' = [task EXCEPT ![r] = t] /\ lock' = lock
      /\ started[c] \in Nat /\ ended[c] \in Nat /\ UNCHANGED <<active, started, ended>>
  BY Constants DEF ReadGauge, StatsInv, Types, Actors, Tasks, history
<1>2. /\ t \in Tasks /\ t.pc = "gauge" /\ t.cell = c /\ t.shard = 1 /\ t.sum = 0
      /\ t.s0 = started[c] /\ t.e0 = ended[c]
  BY <1>1, RestTask DEF Rest, Tasks
<1>3. Unread(active, t) = started[c] - ended[c] /\ ended[c] <= started[c]
  BY <1>1, <1>2 DEF StatsInv, Books, Unread
<1> HIDE DEF t, c
<1>4. task'[r] = t /\ LockMove(r)
  BY <1>1 DEF StatsInv, Types, LockMove
<1>5. ActorInv(r)'
  <2>1. Placed(r)' /\ Scanning(r)' /\ Watermark(r)'
    BY <1>1, <1>2, <1>4 DEF Placed, Holding, Reading, Scanning, Watermark
  <2>2. Unread(active', t) = Unread(active, t)
    BY <1>1
  <2>3. Gauging(r)'
    BY <1>1, <1>2, <1>3, <1>4, <2>2 DEF Gauging
  <2> QED  BY <2>1, <2>3 DEF ActorInv
<1> QED  BY <1>1, <1>2, <1>4, <1>5, QuietStep DEF ReadGauge

\* Reading the gauge of one shard.
LEMMA GaugeShardInv == ASSUME StatsInv, NEW r \in Readers, GaugeShard(r) PROVE StatsInv'
<1> DEFINE u == task[r]
           t == [u EXCEPT !.sum = u.sum + active[u.cell][u.shard],
                          !.shard = IF u.shard < NShards THEN u.shard + 1 ELSE 1,
                          !.pc = IF u.shard < NShards THEN "gauge" ELSE "gauged"]
<1>1. /\ r \in Actors /\ r \notin Flushers /\ u \in Tasks /\ u.pc = "gauge"
      /\ task' = [task EXCEPT ![r] = t] /\ lock' = lock
  BY Constants DEF GaugeShard, StatsInv, Types, Actors
<1>2. /\ u.cell \in Cells /\ u.shard \in Shards /\ u.sum \in Int /\ u.s0 \in Nat /\ u.e0 \in Nat
      /\ NShards \in Nat \ {0}
  BY <1>1, Constants DEF Tasks
<1>3. /\ active[u.cell] \in [Shards -> Int] /\ active[u.cell][u.shard] \in Int
      /\ started[u.cell] \in Nat /\ ended[u.cell] \in Nat
      /\ UNCHANGED <<active, started, ended>>
  BY <1>2 DEF StatsInv, Types, GaugeShard, history
<1>4. /\ ActorInv(r)
      /\ u.s0 - ended[u.cell] <= u.sum + Unread(active, u)
      /\ u.sum + Unread(active, u) <= started[u.cell] - u.e0
      /\ u.e0 <= ended[u.cell] /\ u.s0 <= started[u.cell]
  BY <1>1 DEF StatsInv, ActorInv, Gauging
<1>5. /\ t \in Tasks
      /\ t.sum = u.sum + active[u.cell][u.shard]
      /\ t.shard = (IF u.shard < NShards THEN u.shard + 1 ELSE 1)
      /\ t.pc = (IF u.shard < NShards THEN "gauge" ELSE "gauged")
      /\ t.cell = u.cell /\ t.s0 = u.s0 /\ t.e0 = u.e0
  <2> DEFINE n == u.sum + active[u.cell][u.shard]
             i == IF u.shard < NShards THEN u.shard + 1 ELSE 1
             p == IF u.shard < NShards THEN "gauge" ELSE "gauged"
  <2>0. t = [u EXCEPT !.sum = n, !.shard = i, !.pc = p]
    OBVIOUS
  <2> HIDE DEF t, u
  <2>1. n \in Int /\ i \in Shards /\ p \in {"scan", "scanned", "gauge", "gauged"}
    <3>1. n \in Int
      BY <1>2, <1>3, <1>4
    <3>2. i \in Shards
      BY <1>2 DEF Shards
    <3>3. p \in {"scan", "scanned", "gauge", "gauged"}
      OBVIOUS
    <3> QED  BY <3>1, <3>2, <3>3
  <2>2. u \in Tasks
    BY <1>1
  <2> HIDE DEF n, i, p
  <2>3. /\ t \in Tasks /\ t.sum = n /\ t.shard = i /\ t.pc = p
        /\ t.cell = u.cell /\ t.low = u.low /\ t.today = u.today /\ t.s0 = u.s0 /\ t.e0 = u.e0
    BY <2>0, <2>1, <2>2 DEF Tasks, Holding
  <2> QED  BY <2>3 DEF n, i, p
<1>6. Unread(active, u) = active[u.cell][u.shard] + (IF u.shard < NShards THEN Unread(active, t) ELSE 0)
  BY <1>2, <1>3, <1>5, ShardRead DEF Unread
<1>7. u.shard < NShards => Unread(active, t) \in Int
  <2>1. ASSUME u.shard < NShards PROVE t.shard \in Shards /\ t.cell \in Cells
    BY <1>2, <1>5, <2>1 DEF Shards
  <2>2. ASSUME NEW i \in Shards PROVE SumFunctionOnSet(active[u.cell], i .. NShards) \in Int
    BY <1>3, ShardsFinite, SumInt
  <2> QED  BY <1>5, <2>1, <2>2 DEF Unread
<1> HIDE DEF t, u
<1>8. task'[r] = t /\ LockMove(r) /\ task[r] = u
  BY <1>1 DEF StatsInv, Types, LockMove, u
<1>9. ActorInv(r)'
  <2>1. Placed(r)' /\ Scanning(r)' /\ Watermark(r)'
    BY <1>1, <1>5, <1>8 DEF Placed, Holding, Reading, Scanning, Watermark
  <2>2. Gauging(r)'
    <3>1. Unread(active', t) = Unread(active, t)
      BY <1>3
    <3>2. CASE u.shard < NShards
      <4>1. t.sum + Unread(active, t) = u.sum + Unread(active, u)
        BY <1>2, <1>3, <1>5, <1>6, <1>7, <3>2
      <4> QED  BY <1>2, <1>3, <1>4, <1>5, <1>8, <3>1, <3>2, <4>1 DEF Gauging
    <3>3. CASE ~(u.shard < NShards)
      <4>1. t.sum = u.sum + Unread(active, u)
        BY <1>2, <1>3, <1>5, <1>6, <3>3
      <4> QED  BY <1>2, <1>3, <1>4, <1>5, <1>8, <3>3, <4>1 DEF Gauging
    <3> QED  BY <3>2, <3>3
  <2> QED  BY <2>1, <2>2 DEF ActorInv
<1> QED  BY <1>1, <1>5, <1>8, <1>9, QuietStep DEF GaugeShard, u

\* The answer is given, and the mutex free if the reader had it.
LEMMA AnswerInv == ASSUME StatsInv, NEW r \in Readers, Answer(r) PROVE StatsInv'
<1>1. /\ r \in Actors /\ r \notin Flushers /\ r # Nobody /\ task[r].pc = "gauged"
      /\ task' = [task EXCEPT ![r] = Rest] /\ lock' # r /\ LockMove(r)
  BY Constants DEF Answer, Actors, LockMove
<1>2. task'[r] = Rest /\ Rest.pc = "idle" /\ Rest \in Tasks
  BY <1>1, RestTask DEF StatsInv, Types, Rest
<1>3. ActorInv(r)'
  BY <1>1, <1>2 DEF ActorInv, Placed, Scanning, Gauging, Watermark, Holding
<1> QED  BY <1>1, <1>2, <1>3, QuietStep DEF Answer

-----------------------------------------------------------------------------
(* The flush *)

\* The flush that holds the mutex takes the delta of its cell: the watermark
\* says it is what the counters gained, with nothing cut off at zero.
LEMMA AdvanceInv == ASSUME StatsInv, NEW f \in Flushers, Advance(f) PROVE StatsInv'
<1> DEFINE u == task[f]
           c == u.cell
           n == Minus(u.sum, flushed[c])
           t == [u EXCEPT !.pc = "credit", !.sum = n]
<1>1. /\ f \in Actors /\ u \in Tasks /\ u.pc = "scanned" /\ c \in Cells
      /\ task' = [task EXCEPT ![f] = t] /\ flushed' = [flushed EXCEPT ![c] = u.sum]
      /\ UNCHANGED <<count, active, date, lock, days, disk, history>>
  BY DEF Advance, StatsInv, Types, Tasks, Actors
<1> HIDE DEF u, c, n, t
<1>2. ActorInv(f) /\ u = task[f] /\ c = u.cell
  BY <1>1 DEF StatsInv, u, c
<1>3. lock = f /\ u.today \in Dates /\ u.shard = 1
  BY <1>1, <1>2 DEF ActorInv, Placed, Scanning, Holding
<1>4. /\ u.sum \in Nat /\ u.low[c] <= u.sum /\ u.sum <= Counted(c)
      /\ \A k \in Cells : u.low[k] <= Counted(k)
  BY <1>1, <1>2 DEF ActorInv, Scanning, Holding
<1>5. ~Advanced(f, c)
  BY <1>1, <1>2 DEF Advanced, Cells
<1>6. /\ \A k \in Cells : flushed[k] \in Nat /\ u.low[k] \in Nat /\ Counted(k) \in Nat
  BY <1>1, CountedIsUnread DEF StatsInv, Types, Tasks
<1>7. flushed[c] <= u.low[c]
  BY <1>1, <1>2, <1>3, <1>5 DEF ActorInv, Watermark, Holding
<1>8. n = u.sum - flushed[c] /\ n \in Nat
  BY <1>1, <1>4, <1>6, <1>7 DEF Minus, n
<1>9. /\ t \in Tasks /\ t.pc = "credit" /\ t.sum = n /\ t.cell = c /\ t.shard = u.shard
      /\ t.low = u.low /\ t.today = u.today
  <2>1. u \in Tasks /\ c = u.cell /\ n \in Int
    BY <1>1, <1>2, <1>8
  <2> QED  BY <2>1 DEF t, Tasks, Holding
<1>10. /\ task'[f] = t /\ \A b \in Actors : b # f => task'[b] = task[b]
       /\ flushed'[c] = u.sum /\ \A k \in Cells : k # c => flushed'[k] = flushed[k]
  BY <1>1 DEF StatsInv, Types
<1>11. Types'
  BY <1>1, <1>4, <1>9 DEF StatsInv, Types, history, IsHistory
<1>12. \A k \in Cells : Counted(k)' = Counted(k)
  BY <1>1 DEF Counted
<1>13. ActorInv(f)'
  <2>1. Placed(f)'
    BY <1>1, <1>3, <1>9, <1>10, Constants DEF Placed, Holding
  <2>2. Scanning(f)'
    BY <1>3, <1>4, <1>8, <1>9, <1>10, <1>12 DEF Scanning
  <2>3. Gauging(f)'
    BY <1>9, <1>10 DEF Gauging
  <2>4. Watermark(f)'
    <3>1. \A k \in Cells : Advanced(f, k)' <=> Advanced(f, k) \/ k = c
      BY <1>1, <1>2, <1>9, <1>10 DEF Advanced
    <3>2. \A k \in Cells : IF Advanced(f, k) THEN u.low[k] <= flushed[k] ELSE flushed[k] <= u.low[k]
      BY <1>1, <1>2, <1>3 DEF ActorInv, Watermark, Holding
    <3> QED  BY <1>4, <1>9, <1>10, <3>1, <3>2 DEF Watermark
  <2> QED  BY <2>1, <2>2, <2>3, <2>4 DEF ActorInv
<1>14. ASSUME NEW b \in Actors PROVE ActorInv(b)'
  <2>1. CASE b = f
    BY <1>13, <2>1
  <2>2. CASE b # f
    <3>1. LockMove(f) /\ Types /\ ActorInv(b)
      BY <1>1 DEF LockMove, StatsInv
    <3> QED  BY <1>1, <1>3, <1>10, <2>2, <3>1, OtherActor DEF history
  <2> QED  BY <2>1, <2>2
<1>15. ASSUME NEW k \in Cells PROVE Books(k)'
  <2>1. Books(k) /\ base[k] \in Nat /\ dropped[k] \in Nat /\ Recorded(days, k) \in Nat
    BY RecordedSum DEF StatsInv, Types
  <2>2. InFlight(k) = 0 /\ InFlight(k)' = (IF k = c THEN n ELSE 0)
    BY <1>1, <1>2, <1>3, <1>9, <1>10 DEF InFlight
  <2>3. Recorded(days, k)' = Recorded(days, k) /\ Recorded(disk, k)' = Recorded(disk, k)
    BY <1>1
  <2>4. (Recorded(days, k) + dropped[k] + InFlight(k) = base[k] + flushed[k])'
    <3>1. dropped' = dropped /\ base' = base
      BY <1>1 DEF history
    <3>2. Recorded(days, k) + dropped[k] = base[k] + flushed[k]
      BY <2>1, <2>2 DEF Books
    <3>3. flushed'[k] = flushed[k] + InFlight(k)'
      BY <1>4, <1>6, <1>8, <1>10, <2>2
    <3>4. flushed[k] \in Nat /\ InFlight(k)' \in Nat
      BY <1>6, <1>8, <2>2
    <3> QED  BY <2>1, <2>3, <3>1, <3>2, <3>3, <3>4
  <2>5. (flushed[k] <= Counted(k))'
    BY <1>4, <1>10, <1>12, <2>1 DEF Books
  <2> QED  BY <1>1, <1>12, <2>1, <2>3, <2>4, <2>5 DEF Books, Served, history
<1>16. Pruned'
  BY <1>1 DEF StatsInv, Pruned, history
<1> QED  BY <1>11, <1>14, <1>15, <1>16 DEF StatsInv

\* The delta is recorded, and the flush goes to its next cell.
LEMMA CreditInv == ASSUME StatsInv, NEW f \in Flushers, Credit(f) PROVE StatsInv'
<1> DEFINE u == task[f]
           c == u.cell
           n == u.sum
           next == IF c < NCells THEN c + 1 ELSE 1
           p == IF c < NCells THEN "scan" ELSE "write"
           t == [u EXCEPT !.sum = 0, !.cell = next, !.pc = p]
<1>1. /\ f \in Actors /\ u \in Tasks /\ u.pc = "credit"
      /\ task' = [task EXCEPT ![f] = t] /\ days' = AddTo(days, u.today, c, n)
      /\ UNCHANGED <<count, active, date, lock, flushed, disk, history>>
  BY DEF Credit, StatsInv, Types, Actors
<1> HIDE DEF u, t
<1>2. ActorInv(f) /\ u = task[f] /\ c \in Cells /\ c \in Nat /\ NCells \in Nat \ {0}
  BY <1>1, Constants DEF StatsInv, u, Tasks, Cells
<1>3. next \in Cells /\ p \in {"scan", "write"}
  BY <1>2 DEF Cells
<1>4. lock = f /\ u.today \in Dates /\ u.shard = 1 /\ n \in Nat
  BY <1>1, <1>2 DEF ActorInv, Placed, Scanning, Holding
<1>5. \A k \in Cells : /\ flushed[k] \in Nat /\ u.low[k] \in Nat /\ u.low[k] <= Counted(k)
                       /\ Counted(k) \in Nat /\ Counted(k) = SumFunctionOnSet(count[k], 1 .. NShards)
  <2>1. \A k \in Cells : u.low[k] <= Counted(k)
    BY <1>1, <1>2 DEF ActorInv, Scanning, Holding
  <2> QED  BY <1>1, <2>1, CountedIsUnread DEF StatsInv, Types, Tasks
<1>6. /\ t \in Tasks /\ t.pc = p /\ t.sum = 0 /\ t.cell = next /\ t.shard = 1
      /\ t.low = u.low /\ t.today = u.today
  <2>1. u \in Tasks /\ u.shard = 1 /\ 0 \in Int
    BY <1>1, <1>4
  <2> HIDE DEF next, p
  <2> QED  BY <1>3, <2>1 DEF t, Tasks, Holding
<1>7. task'[f] = t /\ \A b \in Actors : b # f => task'[b] = task[b]
  BY <1>1 DEF StatsInv, Types
<1>8. /\ IsHistory(days') /\ DOMAIN days \subseteq DOMAIN days'
      /\ \A k \in Cells : Recorded(days', k) = Recorded(days, k) + (IF k = c THEN n ELSE 0)
  <2>1. IsHistory(days)
    BY DEF StatsInv, Types
  <2> HIDE DEF c, n
  <2> QED  BY <1>1, <1>2, <1>4, <2>1, RecordedAdd
<1>9. Types'
  <2>1. task' \in [Actors -> Tasks]
    BY <1>1, <1>6 DEF StatsInv, Types
  <2> QED  BY <1>1, <1>8, <2>1 DEF StatsInv, Types, history, IsHistory
<1>10. \A k \in Cells : Counted(k)' = Counted(k)
  BY <1>1 DEF Counted
<1>11. ActorInv(f)'
  <2>1. Placed(f)'
    BY <1>1, <1>3, <1>4, <1>6, <1>7, Constants DEF Placed, Holding
  <2>2. Scanning(f)'
    <3>1. Unread(count', t) = Counted(next)
      BY <1>1, <1>3, <1>5, <1>6 DEF Unread
    <3> HIDE DEF next, p
    <3>2. /\ u.low[next] <= 0 + Counted(next) /\ 0 + Counted(next) <= Counted(next)
      BY <1>3, <1>5
    <3> QED  BY <1>3, <1>5, <1>6, <1>7, <1>10, <3>1, <3>2 DEF Scanning
  <2>3. Gauging(f)'
    BY <1>3, <1>6, <1>7 DEF Gauging
  <2>4. Watermark(f)'
    <3>1. \A k \in Cells : Advanced(f, k)' <=> Advanced(f, k)
      BY <1>1, <1>2, <1>6, <1>7 DEF Advanced, Cells
    <3>2. \A k \in Cells : IF Advanced(f, k) THEN u.low[k] <= flushed[k] ELSE flushed[k] <= u.low[k]
      BY <1>1, <1>2, <1>4 DEF ActorInv, Watermark, Holding
    <3> QED  BY <1>1, <1>6, <1>7, <3>1, <3>2 DEF Watermark
  <2> QED  BY <2>1, <2>2, <2>3, <2>4 DEF ActorInv
<1>12. ASSUME NEW b \in Actors PROVE ActorInv(b)'
  <2>1. CASE b = f
    BY <1>11, <2>1
  <2>2. CASE b # f
    <3>1. LockMove(f) /\ Types /\ ActorInv(b)
      BY <1>1 DEF LockMove, StatsInv
    <3> QED  BY <1>1, <1>7, <2>2, <3>1, OtherActor DEF history
  <2> QED  BY <2>1, <2>2
<1>13. ASSUME NEW k \in Cells PROVE Books(k)'
  <2>1. Books(k) /\ base[k] \in Nat /\ dropped[k] \in Nat /\ Recorded(days, k) \in Nat
    BY RecordedSum DEF StatsInv, Types
  <2>2. InFlight(k)' = 0 /\ InFlight(k) = (IF k = c THEN n ELSE 0)
    BY <1>1, <1>2, <1>3, <1>4, <1>6, <1>7 DEF InFlight
  <2>3. Recorded(days, k)' = Recorded(days, k) + InFlight(k) /\ InFlight(k) \in Nat
    BY <1>4, <1>8, <2>2
  <2>4. (Recorded(days, k) + dropped[k] + InFlight(k) = base[k] + flushed[k])'
    <3>1. dropped' = dropped /\ base' = base /\ flushed' = flushed
      BY <1>1 DEF history
    <3>2. Recorded(days, k) + dropped[k] + InFlight(k) = base[k] + flushed[k]
      BY <2>1 DEF Books
    <3> QED  BY <2>1, <2>2, <2>3, <3>1, <3>2
  <2> QED  BY <1>1, <1>10, <2>1, <2>4 DEF Books, Served, history
<1>14. Pruned'
  <2>1. ASSUME NEW d \in Dates, Cardinality(Above(DOMAIN days, d)) >= KeepDays
        PROVE  Cardinality(Above(DOMAIN days', d)) >= KeepDays
    <3>1. DOMAIN days' \in SUBSET Dates /\ DOMAIN days \in SUBSET DOMAIN days'
      BY <1>8 DEF IsHistory
    <3>2. /\ Cardinality(Above(DOMAIN days, d)) <= Cardinality(Above(DOMAIN days', d))
          /\ Cardinality(Above(DOMAIN days', d)) \in Nat
      BY <3>1, AboveGrows, AboveFinite
    <3>3. Cardinality(Above(DOMAIN days, d)) \in Nat
      <4>1. DOMAIN days \in SUBSET Dates
        BY <3>1
      <4> QED  BY <4>1, AboveFinite
    <3> QED  BY <2>1, <3>2, <3>3, Constants
  <2>2. gone \subseteq Dates /\ DOMAIN disk \subseteq Dates /\ gone' = gone /\ disk' = disk
    BY <1>1 DEF StatsInv, Types, IsHistory, history
  <2> QED  BY <1>8, <2>1, <2>2 DEF StatsInv, Pruned
<1> QED  BY <1>9, <1>12, <1>13, <1>14 DEF StatsInv

\* A flush prunes, writes or fails to, and lets the mutex go.  It has advanced
\* every cell past what the counters were when it took the mutex.
LEMMA WriteInv ==
  ASSUME StatsInv, NEW f \in Flushers, NEW ok \in BOOLEAN, Write(f, ok)
  PROVE  StatsInv'
<1> DEFINE u == task[f]
           T == DOMAIN days
           K == Kept(T)
           Cut(c) == Recorded(Restrict(days, T \ K), c)
<1>1. /\ f \in Actors /\ f # Nobody /\ u \in Tasks /\ u.pc = "write"
      /\ task' = [task EXCEPT ![f] = Rest] /\ lock' = Nobody
      /\ days' = Restrict(days, K)
      /\ UNCHANGED <<count, active, date, flushed, base, started, ended>>
  BY Constants DEF Write, StatsInv, Types, Actors
<1>2. /\ disk' = IF ok THEN days' ELSE disk
      /\ gone' = IF ok THEN gone \cup (DOMAIN disk \ K) ELSE gone
      /\ dropped' = [c \in Cells |-> dropped[c] + Cut(c)]
      /\ diskDropped' = IF ok THEN dropped' ELSE diskDropped
      /\ covered' = IF ok THEN [c \in Cells |-> base[c] + u.low[c]] ELSE covered
  BY DEF Write
<1>3. T \in SUBSET Dates /\ IsHistory(days) /\ IsHistory(disk) /\ DOMAIN disk \in SUBSET Dates
  BY DEF StatsInv, Types, IsHistory
<1>4. K \in SUBSET T /\ Cardinality(K) <= KeepDays
  BY <1>3, KeptFew
<1> HIDE DEF u, T, K
<1>5. ActorInv(f) /\ u = task[f] /\ T = DOMAIN days
  BY <1>1 DEF StatsInv, u, T
<1>6. lock = f
  BY <1>1, <1>5 DEF ActorInv, Placed, Holding
<1>7. \A k \in Cells : u.low[k] <= flushed[k]
  <2>1. \A k \in Cells : Advanced(f, k)
    BY <1>1, <1>5 DEF Advanced
  <2> QED  BY <1>1, <1>5, <1>6, <2>1 DEF ActorInv, Watermark, Holding
<1>8. \A k \in Cells : /\ Recorded(days, k) = Recorded(days', k) + Cut(k)
                       /\ Recorded(days, k) \in Nat /\ Recorded(days', k) \in Nat /\ Cut(k) \in Nat
                       /\ IsHistory(days')
  <2> SUFFICES ASSUME NEW k \in Cells
               PROVE  /\ Recorded(days, k) = Recorded(days', k) + Cut(k)
                      /\ Recorded(days, k) \in Nat /\ Recorded(days', k) \in Nat /\ Cut(k) \in Nat
                      /\ IsHistory(days')
    OBVIOUS
  <2>1. K \in SUBSET DOMAIN days /\ DOMAIN days \ K \in SUBSET DOMAIN days
    BY <1>4, <1>5
  <2>2. /\ IsHistory(Restrict(days, K))
        /\ Recorded(days, k) = Recorded(Restrict(days, K), k) + Recorded(Restrict(days, DOMAIN days \ K), k)
    BY <1>3, <2>1, RecordedCut
  <2>3. IsHistory(Restrict(days, DOMAIN days \ K))
    BY <1>3, <2>1, RecordedCut
  <2>4. /\ Recorded(days, k) \in Nat /\ Recorded(Restrict(days, K), k) \in Nat
        /\ Recorded(Restrict(days, DOMAIN days \ K), k) \in Nat
    BY <1>3, <2>2, <2>3, RecordedSum
  <2> QED  BY <1>1, <1>5, <2>2, <2>4
<1> HIDE DEF Cut
<1>9. /\ IsHistory(days') /\ DOMAIN days' = K
  <2>1. 1 \in Cells
    BY RestTask
  <2> QED  BY <1>1, <1>8, <2>1 DEF Restrict
<1>10. /\ task'[f] = Rest /\ \A b \in Actors : b # f => task'[b] = task[b]
       /\ Rest \in Tasks /\ Rest.pc = "idle"
  BY <1>1, RestTask DEF StatsInv, Types, Rest
<1>11. \A k \in Cells : /\ flushed[k] \in Nat /\ u.low[k] \in Nat /\ Counted(k) \in Nat
                        /\ base[k] \in Nat /\ dropped[k] \in Nat
                        /\ dropped'[k] = dropped[k] + Cut(k)
  BY <1>1, <1>2, CountedIsUnread DEF StatsInv, Types, Tasks
<1>12. Types'
  <2>1. task' \in [Actors -> Tasks]
    BY <1>1, <1>10 DEF StatsInv, Types
  <2>2. dropped' \in [Cells -> Nat]
    BY <1>2, <1>8, <1>11
  <2>3. covered' \in [Cells -> Nat] /\ diskDropped' \in [Cells -> Nat]
    <3>1. [c \in Cells |-> base[c] + u.low[c]] \in [Cells -> Nat]
      BY <1>11
    <3> QED  BY <1>2, <2>2, <3>1 DEF StatsInv, Types
  <2>4. IsHistory(disk') /\ gone' \subseteq Dates
    BY <1>2, <1>3, <1>9 DEF StatsInv, Types
  <2> QED  BY <1>1, <1>9, <2>1, <2>2, <2>3, <2>4 DEF StatsInv, Types
<1>13. ASSUME NEW b \in Actors PROVE ActorInv(b)'
  <2>1. CASE b = f
    BY <1>1, <1>10, <2>1 DEF ActorInv, Placed, Scanning, Gauging, Watermark, Holding
  <2>2. CASE b # f
    <3>1. LockMove(f) /\ Types /\ ActorInv(b)
      BY <1>1, <1>6 DEF LockMove, StatsInv
    <3> QED  BY <1>1, <1>10, <2>2, <3>1, OtherActor
  <2> QED  BY <2>1, <2>2
<1>14. ASSUME NEW k \in Cells PROVE Books(k)'
  <2>1. Books(k)
    BY DEF StatsInv
  <2>2. InFlight(k) = 0 /\ InFlight(k)' = 0
    BY <1>1, <1>5, <1>6, Constants DEF InFlight, Actors
  <2>3. Recorded(days, k)' + dropped'[k] = base[k] + flushed[k]
    <3>1. Recorded(days, k) + dropped[k] + 0 = base[k] + flushed[k]
      BY <2>1, <2>2 DEF Books
    <3> QED  BY <1>8, <1>11, <3>1
  <2>4. (Recorded(days, k) + dropped[k] + InFlight(k) = base[k] + flushed[k])'
    BY <1>1, <1>8, <1>11, <2>2, <2>3
  <2>5. Counted(k)' = Counted(k) /\ Served(k)' = Served(k) /\ base' = base
    BY <1>1 DEF Counted, Served
  <2>6. /\ (Recorded(disk, k) + diskDropped[k] <= Served(k))'
        /\ (Recorded(disk, k) + diskDropped[k] >= covered[k])'
    <3>1. CASE ok
      <4>1. /\ Recorded(disk, k)' + diskDropped'[k] = base[k] + flushed[k]
            /\ covered'[k] = base[k] + u.low[k]
        BY <1>2, <2>3, <3>1
      <4>2. flushed[k] <= Counted(k) /\ u.low[k] <= flushed[k]
        BY <1>7, <2>1 DEF Books
      <4> QED  BY <1>11, <2>5, <4>1, <4>2 DEF Served
    <3>2. CASE ~ok
      BY <1>2, <2>1, <2>5, <3>2 DEF Books
    <3> QED  BY <3>1, <3>2
  <2> QED  BY <1>1, <2>1, <2>4, <2>5, <2>6 DEF Books
<1>15. Pruned'
  <2>1. \A g \in gone : g \in Dates /\ Cardinality(Above(T, g)) >= KeepDays
    BY <1>5 DEF StatsInv, Types, Pruned
  <2>2. \A d \in DOMAIN disk \ K : d \in Dates /\ Cardinality(Above(T, d)) >= KeepDays
    <3>1. \A d \in T \ K : Cardinality(Above(T, d)) >= KeepDays
      BY <1>3, KeptFew DEF T, K
    <3>2. \A d \in DOMAIN disk \ T : Cardinality(Above(T, d)) >= KeepDays
      BY <1>5 DEF StatsInv, Pruned
    <3> QED  BY <1>3, <3>1, <3>2
  <2>3. ASSUME NEW d \in Dates, Cardinality(Above(T, d)) >= KeepDays
        PROVE  Cardinality(Above(K, d)) >= KeepDays
    BY <1>3, <2>3, KeptLatest DEF T, K
  <2>4. CASE ok
    BY <1>2, <1>4, <1>9, <2>1, <2>2, <2>3, <2>4 DEF Pruned
  <2>5. CASE ~ok
    BY <1>2, <1>9, <2>1, <2>2, <2>3, <2>5 DEF Pruned, StatsInv
  <2> QED  BY <2>4, <2>5
<1> QED  BY <1>12, <1>13, <1>14, <1>15 DEF StatsInv

-----------------------------------------------------------------------------
(* The proxy path, the calendar and restarts *)

\* Counters that are all zero add up to nothing.
LEMMA NoTraffic ==
  ASSUME NEW k \in Cells
  PROVE  /\ SumFunctionOnSet(NoShards[k], 1 .. NShards) = 0
         /\ SumFunction(NoShards[k]) = 0
<1>1. /\ IsFiniteSet(1 .. NShards) /\ 1 .. NShards = Shards
      /\ NoShards[k] = [s \in Shards |-> 0]
  BY RestTask, ShardsFinite DEF NoShards
<1>2. DOMAIN NoShards[k] = Shards /\ \A s \in 1 .. NShards : NoShards[k][s] = 0
  BY <1>1
<1> DEFINE z == NoShards[k]
<1> HIDE DEF z
<1>3. SumFunctionOnSet(z, 1 .. NShards) = 0
  BY <1>1, <1>2, SumZeros DEF z
<1> QED  BY <1>1, <1>2, <1>3 DEF SumFunction, z

\* A process starts: nothing is counted and everyone is at rest.
LEMMA StartInv ==
  ASSUME count' = NoShards, active' = NoShards, flushed' = Zero, lock' = Nobody,
         task' = [a \in Actors |-> Rest], started' = Zero, ended' = Zero,
         date' \in Dates, IsHistory(days'), IsHistory(disk'), gone' \subseteq Dates,
         base' \in [Cells -> Nat], dropped' \in [Cells -> Nat],
         diskDropped' \in [Cells -> Nat], covered' \in [Cells -> Nat],
         \A c \in Cells : /\ Recorded(days', c) + dropped'[c] = base'[c]
                          /\ base'[c] <= MaxTraffic
                          /\ Recorded(disk', c) + diskDropped'[c] <= base'[c]
                          /\ Recorded(disk', c) + diskDropped'[c] >= covered'[c],
         Pruned'
  PROVE  StatsInv'
<1>1. NoShards \in [Cells -> [Shards -> Nat]] /\ NoShards \in [Cells -> [Shards -> Int]]
  BY DEF NoShards
<1>2. Types'
  BY <1>1, RestTask DEF Types
<1>3. ASSUME NEW a \in Actors PROVE ActorInv(a)'
  <2>1. task'[a] = Rest /\ Rest.pc = "idle" /\ a # Nobody
    BY Constants DEF Rest
  <2> QED  BY <2>1 DEF ActorInv, Placed, Scanning, Gauging, Watermark, Holding
<1>4. ASSUME NEW c \in Cells PROVE Books(c)'
  <2>1. InFlight(c)' = 0
    BY Constants DEF InFlight, Actors
  <2>2. Counted(c)' = 0 /\ SumFunctionOnSet(active'[c], 1 .. NShards) = 0
    BY NoTraffic DEF Counted
  <2>3. flushed'[c] = 0 /\ started'[c] = 0 /\ ended'[c] = 0
    BY DEF Zero
  <2>4. base'[c] \in Nat /\ dropped'[c] \in Nat /\ Recorded(days', c) \in Nat
    BY RecordedSum
  <2>5. Served(c)' = base'[c]
    BY <2>2, <2>4 DEF Served
  <2> QED  BY <2>1, <2>2, <2>3, <2>4, <2>5 DEF Books
<1> QED  BY <1>2, <1>3, <1>4 DEF StatsInv

\* The next process has recorded what the file held, and no more.
LEMMA RestartInv == ASSUME StatsInv, Restart PROVE StatsInv'
<1>1. \A c \in Cells : /\ Recorded(disk, c) \in Nat /\ diskDropped[c] \in Nat
                       /\ base[c] \in Nat /\ Counted(c) \in Nat /\ covered[c] \in Nat
                       /\ base'[c] = Recorded(disk, c) + diskDropped[c]
  BY RecordedSum, CountedIsUnread DEF StatsInv, Types, Restart
<1>2. \A c \in Cells : Books(c) /\ Served(c) \in Nat
  BY <1>1 DEF StatsInv, Served
<1>3. \A c \in Cells : base'[c] \in Nat /\ base'[c] <= MaxTraffic /\ base'[c] >= covered[c]
  BY <1>1, <1>2, Constants DEF Books
<1>4. base' \in [Cells -> Nat]
  BY <1>1 DEF Restart
<1>5. Pruned'
  BY DEF StatsInv, Restart, Pruned
<1>6. \A c \in Cells : /\ Recorded(days', c) + dropped'[c] = base'[c]
                       /\ base'[c] <= MaxTraffic
                       /\ Recorded(disk', c) + diskDropped'[c] <= base'[c]
                       /\ Recorded(disk', c) + diskDropped'[c] >= covered'[c]
  BY <1>1, <1>3 DEF Restart
<1> QED  BY <1>4, <1>5, <1>6, StartInv DEF Restart, StatsInv, Types

\* Traffic on one shard: the sums over its cell that reach the shard grow.
LEMMA CountServes ==
  ASSUME StatsInv, NEW c \in Cells, NEW s \in Shards, Count(c, s), NEW k \in Cells
  PROVE  /\ \A i \in Shards :
              /\ SumFunctionOnSet(count[k], i .. NShards) \in Int
              /\ SumFunctionOnSet(count'[k], i .. NShards) =
                   SumFunctionOnSet(count[k], i .. NShards) + (IF k = c /\ i <= s THEN 1 ELSE 0)
         /\ Counted(k)' = Counted(k) + (IF k = c THEN 1 ELSE 0) /\ Counted(k) \in Nat
<1>1. /\ count \in [Cells -> [Shards -> Nat]] /\ count \in [Cells -> [Shards -> Int]]
      /\ count' = [count EXCEPT ![c][s] = @ + 1]
  BY DEF Count, StatsInv, Types
<1>2. count' \in [Cells -> [Shards -> Nat]]
  BY <1>1
<1>3. ASSUME NEW i \in Shards
      PROVE  /\ SumFunctionOnSet(count[k], i .. NShards) \in Int
             /\ SumFunctionOnSet(count'[k], i .. NShards) =
                  SumFunctionOnSet(count[k], i .. NShards) + (IF k = c /\ i <= s THEN 1 ELSE 0)
  <2>1. PICK v \in Int : v = 1
    OBVIOUS
  <2>2. ShardMoved(count, count', c, s, v) /\ count \in [Cells -> [Shards -> Int]]
    BY <1>1, <2>1 DEF ShardMoved
  <2>3. /\ SumFunctionOnSet(count[k], i .. NShards) \in Int
        /\ SumFunctionOnSet(count'[k], i .. NShards) =
             SumFunctionOnSet(count[k], i .. NShards) + (IF k = c /\ i <= s THEN v ELSE 0)
    BY <2>2, ShardChange
  <2> QED  BY <2>1, <2>3
<1>4. Counted(k)' = Counted(k) + (IF k = c THEN 1 ELSE 0) /\ Counted(k) \in Nat
  <2>1. /\ Counted(k) = SumFunctionOnSet(count[k], 1 .. NShards) /\ Counted(k) \in Nat
    BY <1>1, CountedIsUnread
  <2>2. Counted(k)' = SumFunctionOnSet(count'[k], 1 .. NShards)
    <3>1. DOMAIN count'[k] = 1 .. NShards
      BY <1>2 DEF Shards
    <3> QED  BY <3>1 DEF Counted, SumFunction
  <2>3. 1 \in Shards /\ 1 <= s
    BY RestTask DEF Shards
  <2> QED  BY <1>3, <2>1, <2>2, <2>3
<1> QED  BY <1>3, <1>4

\* Every scan still lies between its bounds.
LEMMA CountInv ==
  ASSUME StatsInv, NEW c \in Cells, NEW s \in Shards, Count(c, s)
  PROVE  StatsInv'
<1>1. /\ count \in [Cells -> [Shards -> Nat]]
      /\ count' = [count EXCEPT ![c][s] = @ + 1] /\ Served(c) < MaxTraffic
      /\ UNCHANGED <<active, date, lock, days, flushed, disk, task, history>>
  BY DEF Count, StatsInv, Types
<1>2. count' \in [Cells -> [Shards -> Nat]]
  BY <1>1
<1>3. ASSUME NEW k \in Cells, NEW i \in Shards
      PROVE  /\ SumFunctionOnSet(count[k], i .. NShards) \in Int
             /\ SumFunctionOnSet(count'[k], i .. NShards) =
                  SumFunctionOnSet(count[k], i .. NShards) + (IF k = c /\ i <= s THEN 1 ELSE 0)
  BY CountServes
<1>4. ASSUME NEW k \in Cells
      PROVE  Counted(k)' = Counted(k) + (IF k = c THEN 1 ELSE 0) /\ Counted(k) \in Nat
  BY CountServes
<1>5. Types'
  BY <1>1, <1>2 DEF StatsInv, Types, history, IsHistory
<1>6. ASSUME NEW a \in Actors PROVE ActorInv(a)'
  <2> SUFFICES ASSUME NEW t \in Tasks, t = task[a] PROVE ActorInv(a)'
    BY DEF StatsInv, Types
  <2>1. t \in Tasks /\ t.cell \in Cells /\ t.shard \in Shards /\ t.sum \in Int /\ ActorInv(a)
    BY DEF StatsInv, Types, Tasks
  <2>2. \A k \in Cells : t.low[k] \in Nat
    BY <2>1 DEF Tasks
  <2>3. /\ Unread(count, t) \in Int
        /\ Unread(count', t) = Unread(count, t) + (IF t.cell = c /\ t.shard <= s THEN 1 ELSE 0)
    BY <1>3, <2>1 DEF Unread
  <2>4. /\ task' = task /\ task[a] = t /\ lock' = lock /\ flushed' = flushed
        /\ active' = active /\ started' = started /\ ended' = ended
    BY <1>1 DEF history
  <2>5. Scanning(a)'
    <3>1. Scanning(a)
      BY <2>1 DEF ActorInv
    <3>2. t.pc \in Holding => \A k \in Cells : t.low[k] <= Counted(k)'
      BY <1>4, <2>2, <2>4, <3>1 DEF Scanning
    <3>3. t.pc = "scan" => /\ t.low[t.cell] <= t.sum + Unread(count', t)
                           /\ t.sum + Unread(count', t) <= Counted(t.cell)'
      <4>1. Counted(t.cell)' = Counted(t.cell) + (IF t.cell = c THEN 1 ELSE 0) /\ Counted(t.cell) \in Nat
        BY <1>4, <2>1
      <4>2. t.pc = "scan" => /\ t.low[t.cell] <= t.sum + Unread(count, t)
                             /\ t.sum + Unread(count, t) <= Counted(t.cell)
        BY <2>4, <3>1 DEF Scanning
      <4> QED  BY <2>1, <2>2, <2>3, <4>1, <4>2
    <3>4. t.pc = "scanned" => t.low[t.cell] <= t.sum /\ t.sum <= Counted(t.cell)'
      <4>1. Counted(t.cell)' = Counted(t.cell) + (IF t.cell = c THEN 1 ELSE 0) /\ Counted(t.cell) \in Nat
        BY <1>4, <2>1
      <4>2. t.pc = "scanned" => t.low[t.cell] <= t.sum /\ t.sum <= Counted(t.cell)
        BY <2>4, <3>1 DEF Scanning
      <4> QED  BY <2>1, <4>1, <4>2
    <3>5. /\ t.pc \in {"waiting", "scanned", "credit"} => t.shard = 1
          /\ t.pc = "waiting" => t.sum = 0
          /\ t.pc \in {"scan", "scanned", "credit"} => t.sum \in Nat
      BY <2>4, <3>1 DEF Scanning
    <3> QED  BY <2>4, <3>2, <3>3, <3>4, <3>5 DEF Scanning
  <2>6. Placed(a)' /\ Gauging(a)' /\ Watermark(a)'
    BY <2>1, <2>4 DEF ActorInv, Placed, Gauging, Watermark, Advanced, Unread
  <2> QED  BY <2>5, <2>6 DEF ActorInv
<1>7. ASSUME NEW k \in Cells PROVE Books(k)'
  <2>1. Books(k) /\ flushed[k] \in Nat /\ base[k] \in Nat /\ diskDropped[k] \in Nat /\ Recorded(disk, k) \in Nat
    BY RecordedSum DEF StatsInv, Types
  <2>2. InFlight(k)' = InFlight(k)
    BY <1>1 DEF InFlight
  <2>3. Served(k)' = Served(k) + (IF k = c THEN 1 ELSE 0) /\ Served(k) \in Nat /\ base' = base
    <3>1. base' = base
      BY <1>1 DEF history
    <3>2. Counted(k)' = Counted(k) + (IF k = c THEN 1 ELSE 0) /\ Counted(k) \in Nat
      BY <1>4
    <3> QED  BY <2>1, <3>1, <3>2 DEF Served
  <2>4. (flushed[k] <= Counted(k))' /\ (Served(k) <= MaxTraffic)'
    BY <1>1, <1>4, <2>1, <2>3, Constants DEF Books
  <2>5. (Recorded(disk, k) + diskDropped[k] <= Served(k))'
    BY <1>1, <2>1, <2>3 DEF Books, history
  <2> QED  BY <1>1, <2>1, <2>2, <2>4, <2>5 DEF Books, history
<1>8. Pruned'
  BY <1>1 DEF StatsInv, Pruned, history
<1> QED  BY <1>5, <1>6, <1>7, <1>8 DEF StatsInv

\* A stream starts (m = 1) or ends (n = 1) on some shard: every gauge still
\* lies between its bounds.
LEMMA StreamInv ==
  ASSUME StatsInv, NEW c \in Cells, NEW s \in Shards, NEW v \in Int,
         NEW m \in {0, 1}, NEW n \in {0, 1}, v = m - n,
         ShardMoved(active, active', c, s, v),
         started' = [started EXCEPT ![c] = @ + m], ended' = [ended EXCEPT ![c] = @ + n],
         ended'[c] <= started'[c],
         UNCHANGED <<count, date, lock, days, flushed, disk, task,
                     base, dropped, diskDropped, covered, gone>>
  PROVE  StatsInv'
<1>1. active \in [Cells -> [Shards -> Int]]
  BY DEF StatsInv, Types
<1>2. ASSUME NEW k \in Cells, NEW i \in Shards
      PROVE  /\ SumFunctionOnSet(active[k], i .. NShards) \in Int
             /\ SumFunctionOnSet(active'[k], i .. NShards) =
                  SumFunctionOnSet(active[k], i .. NShards) + (IF k = c /\ i <= s THEN v ELSE 0)
  BY <1>1, ShardChange
<1>3. \A k \in Cells : /\ started[k] \in Nat /\ started'[k] = started[k] + (IF k = c THEN m ELSE 0)
                       /\ ended[k] \in Nat /\ ended'[k] = ended[k] + (IF k = c THEN n ELSE 0)
  BY DEF StatsInv, Types
<1>4. Types'
  <2>1. active' \in [Cells -> [Shards -> Int]]
    BY <1>1 DEF ShardMoved
  <2>2. started' \in [Cells -> Nat] /\ ended' \in [Cells -> Nat]
    BY DEF StatsInv, Types
  <2> QED  BY <2>1, <2>2 DEF StatsInv, Types, IsHistory
<1>5. ASSUME NEW a \in Actors PROVE ActorInv(a)'
  <2> SUFFICES ASSUME NEW t \in Tasks, t = task[a] PROVE ActorInv(a)'
    BY DEF StatsInv, Types
  <2>1. /\ t.cell \in Cells /\ t.shard \in Shards /\ t.sum \in Int /\ t.s0 \in Nat /\ t.e0 \in Nat
        /\ ActorInv(a)
    BY DEF StatsInv, Tasks
  <2>2. /\ Unread(active, t) \in Int
        /\ Unread(active', t) = Unread(active, t) + (IF t.cell = c /\ t.shard <= s THEN v ELSE 0)
    BY <1>2, <2>1 DEF Unread
  <2>3. Gauging(a)'
    <3>1. Gauging(a)
      BY <2>1 DEF ActorInv
    <3>2. t.pc \in {"gauge", "gauged"} => t.e0 <= ended'[t.cell] /\ t.s0 <= started'[t.cell]
      BY <1>3, <2>1, <3>1 DEF Gauging
    <3>3. t.pc = "gauge" => /\ t.s0 - ended'[t.cell] <= t.sum + Unread(active', t)
                            /\ t.sum + Unread(active', t) <= started'[t.cell] - t.e0
      <4>1. t.pc = "gauge" => /\ t.s0 - ended[t.cell] <= t.sum + Unread(active, t)
                              /\ t.sum + Unread(active, t) <= started[t.cell] - t.e0
        BY <3>1 DEF Gauging
      <4> QED  BY <1>3, <2>1, <2>2, <4>1
    <3>4. t.pc = "gauged" => /\ t.s0 - ended'[t.cell] <= t.sum
                             /\ t.sum <= started'[t.cell] - t.e0
      <4>1. t.pc = "gauged" => /\ t.s0 - ended[t.cell] <= t.sum
                               /\ t.sum <= started[t.cell] - t.e0
        BY <3>1 DEF Gauging
      <4> QED  BY <1>3, <2>1, <4>1
    <3> QED  BY <3>2, <3>3, <3>4 DEF Gauging
  <2>4. Placed(a)' /\ Scanning(a)' /\ Watermark(a)'
    BY <2>1 DEF ActorInv, Placed, Scanning, Watermark, Advanced, Unread, Counted
  <2> QED  BY <2>3, <2>4 DEF ActorInv
<1>6. ASSUME NEW k \in Cells PROVE Books(k)'
  <2>1. Books(k)
    BY DEF StatsInv
  <2>2. InFlight(k)' = InFlight(k) /\ Counted(k)' = Counted(k) /\ Served(k)' = Served(k)
    BY DEF InFlight, Counted, Served
  <2>3. SumFunctionOnSet(active'[k], 1 .. NShards) = started'[k] - ended'[k]
    <3>1. 1 \in Shards /\ 1 <= s
      BY RestTask DEF Shards
    <3>2. /\ SumFunctionOnSet(active[k], 1 .. NShards) \in Int
          /\ SumFunctionOnSet(active'[k], 1 .. NShards) =
               SumFunctionOnSet(active[k], 1 .. NShards) + (IF k = c THEN v ELSE 0)
      BY <1>2, <3>1
    <3>3. SumFunctionOnSet(active[k], 1 .. NShards) = started[k] - ended[k]
      BY <2>1 DEF Books
    <3> QED  BY <1>3, <3>2, <3>3
  <2>4. ended'[k] <= started'[k]
    BY <1>3, <2>1 DEF Books
  <2> QED  BY <2>1, <2>2, <2>3, <2>4 DEF Books
<1>7. Pruned'
  BY DEF StatsInv, Pruned
<1> QED  BY <1>4, <1>5, <1>6, <1>7 DEF StatsInv

\* A stream starts.
LEMMA StreamStartedInv ==
  ASSUME StatsInv, NEW c \in Cells, NEW s \in Shards, StreamStarted(c, s)
  PROVE  StatsInv'
<1>1. PICK v \in Int, m \in {0, 1}, n \in {0, 1} : v = 1 /\ m = 1 /\ n = 0
  OBVIOUS
<1>2. ended \in [Cells -> Nat] /\ started \in [Cells -> Nat] /\ ended[c] <= started[c]
  BY DEF StatsInv, Types, Books
<1>3. ShardMoved(active, active', c, s, v) /\ v = m - n
  BY <1>1 DEF StreamStarted, ShardMoved
<1>4. started' = [started EXCEPT ![c] = @ + m] /\ ended' = [ended EXCEPT ![c] = @ + n]
  BY <1>1, <1>2 DEF StreamStarted
<1>5. ended'[c] <= started'[c]
  BY <1>1, <1>2, <1>4
<1> QED  BY <1>3, <1>4, <1>5, StreamInv DEF StreamStarted

\* A stream ends, on whatever shard.
LEMMA StreamFinishedInv ==
  ASSUME StatsInv, NEW c \in Cells, NEW s \in Shards, StreamFinished(c, s)
  PROVE  StatsInv'
<1>1. PICK v \in Int, m \in {0, 1}, n \in {0, 1} : v = -1 /\ m = 0 /\ n = 1
  OBVIOUS
<1>2. ended \in [Cells -> Nat] /\ started \in [Cells -> Nat] /\ ended[c] < started[c]
  BY DEF StatsInv, Types, StreamFinished
<1>3. ShardMoved(active, active', c, s, v) /\ v = m - n
  <2>1. active[c][s] \in Int
    BY DEF StatsInv, Types
  <2>2. active[c][s] - 1 = active[c][s] + v
    BY <1>1, <2>1
  <2>3. active' = [active EXCEPT ![c][s] = active[c][s] - 1]
    BY DEF StreamFinished
  <2>4. v = m - n
    BY <1>1
  <2> QED  BY <2>2, <2>3, <2>4, Zenon DEF ShardMoved
<1>4. started' = [started EXCEPT ![c] = @ + m] /\ ended' = [ended EXCEPT ![c] = @ + n]
  BY <1>1, <1>2 DEF StreamFinished
<1>5. ended'[c] <= started'[c]
  BY <1>1, <1>2, <1>4
<1> QED  BY <1>3, <1>4, <1>5, StreamInv DEF StreamFinished

\* The calendar moves on; no task's date does.
LEMMA MidnightInv == ASSUME StatsInv, Midnight PROVE StatsInv'
<1>1. date' \in Dates
  BY Constants DEF Midnight, StatsInv, Types, Dates
<1>2. Types'
  BY <1>1 DEF Midnight, StatsInv, Types, IsHistory, history
<1>3. ASSUME NEW a \in Actors PROVE ActorInv(a)'
  BY DEF Midnight, StatsInv, ActorInv, Placed, Scanning, Gauging, Watermark, Advanced,
         Unread, Counted, history
<1>4. ASSUME NEW c \in Cells PROVE Books(c)'
  BY DEF Midnight, StatsInv, Books, InFlight, Counted, Served, history
<1>5. Pruned'
  BY DEF Midnight, StatsInv, Pruned, history
<1> QED  BY <1>2, <1>3, <1>4, <1>5 DEF StatsInv

-----------------------------------------------------------------------------
(* The invariant, and what it says *)

\* Nothing is recorded at first.
LEMMA NoHistory ==
  /\ IsHistory(<< >>) /\ DOMAIN << >> = {}
  /\ \A c \in Cells : Recorded(<< >>, c) = 0
<1>1. DOMAIN << >> = {} /\ IsHistory(<< >>)
  BY DEF IsHistory
<1>2. ASSUME NEW c \in Cells PROVE Recorded(<< >>, c) = 0
  <2>1. DOMAIN [d \in DOMAIN << >> |-> << >>[d][c]] = {}
    BY <1>1
  <2> QED  BY <2>1, SumEmpty DEF Recorded, SumFunction
<1> QED  BY <1>1, <1>2

\* It holds at the start.
LEMMA StatsInit == Init => StatsInv
<1> SUFFICES ASSUME Init PROVE StatsInv
  OBVIOUS
<1>1. NoShards \in [Cells -> [Shards -> Nat]] /\ NoShards \in [Cells -> [Shards -> Int]]
  BY DEF NoShards
<1>2. Types
  BY <1>1, RestTask, NoHistory, Constants DEF Init, Types, Dates
<1>3. ASSUME NEW a \in Actors PROVE ActorInv(a)
  <2>1. task[a] = Rest /\ Rest.pc = "idle" /\ a # Nobody /\ lock = Nobody
    BY Constants DEF Rest, Init
  <2> QED  BY <2>1 DEF ActorInv, Placed, Scanning, Gauging, Watermark, Holding
<1>4. ASSUME NEW c \in Cells PROVE Books(c)
  <2>1. InFlight(c) = 0
    BY Constants DEF InFlight, Actors, Init
  <2>2. Counted(c) = 0 /\ SumFunctionOnSet(active[c], 1 .. NShards) = 0
    BY NoTraffic DEF Counted, Init
  <2>3. /\ flushed[c] = 0 /\ started[c] = 0 /\ ended[c] = 0 /\ base[c] = 0 /\ dropped[c] = 0
        /\ diskDropped[c] = 0 /\ covered[c] = 0
    BY DEF Init, Zero
  <2>4. Recorded(days, c) = 0 /\ Recorded(disk, c) = 0
    BY NoHistory DEF Init
  <2> QED  BY <2>1, <2>2, <2>3, <2>4, Constants DEF Books, Served
<1>5. Pruned
  <2>1. DOMAIN disk = {} /\ DOMAIN days = {} /\ gone = {}
    BY NoHistory DEF Init
  <2> QED  BY <2>1, FS_EmptySet, Constants DEF Pruned
<1> QED  BY <1>2, <1>3, <1>4, <1>5 DEF StatsInv

\* Every step keeps it.
LEMMA StatsStep == StatsInv /\ [Next]_vars => StatsInv'
<1> SUFFICES ASSUME StatsInv, [Next]_vars PROVE StatsInv'
  OBVIOUS
<1>1. ASSUME NEW c \in Cells, NEW s \in Shards,
             Count(c, s) \/ StreamStarted(c, s) \/ StreamFinished(c, s)
      PROVE  StatsInv'
  BY <1>1, CountInv, StreamStartedInv, StreamFinishedInv
<1>2. CASE Midnight
  BY <1>2, MidnightInv
<1>3. ASSUME NEW a \in Actors, Call(a) \/ ScanShard(a) PROVE StatsInv'
  BY <1>3, CallInv, ScanShardInv
<1>4. ASSUME NEW f \in Flushers,
             Lock(f, 1) \/ Advance(f) \/ Credit(f) \/ \E ok \in BOOLEAN : Write(f, ok)
      PROVE  StatsInv'
  <2>1. f \in Actors /\ 1 \in Cells
    BY RestTask DEF Actors
  <2> QED  BY <1>4, <2>1, LockInv, AdvanceInv, CreditInv, WriteInv
<1>5. ASSUME NEW r \in Readers,
             \/ \E c \in Cells : Lock(r, c) \/ Scrape(r, c)
             \/ ReadGauge(r) \/ GaugeShard(r) \/ Answer(r)
      PROVE  StatsInv'
  <2>1. r \in Actors /\ r \notin Flushers
    BY Constants DEF Actors
  <2> QED  BY <1>5, <2>1, LockInv, ScrapeInv, ReadGaugeInv, GaugeShardInv, AnswerInv
<1>6. CASE Restart
  BY <1>6, RestartInv
<1>7. CASE UNCHANGED vars
  BY <1>7 DEF vars, state, history, StatsInv, Types, ActorInv, Placed, Scanning, Gauging,
              Watermark, Advanced, Books, InFlight, Pruned, Unread, Counted, Served
<1> QED  BY <1>1, <1>2, <1>3, <1>4, <1>5, <1>6, <1>7 DEF Next

\* The invariant holds for any number of cells, shards, days, flushes and
\* readers (stats.rs).
THEOREM StatsInvariant == Spec => []StatsInv
BY StatsInit, StatsStep, PTL DEF Spec

\* Every variable keeps its type, and no counter overflows what was served
\* (Counters, History, StatsFile).
THEOREM StatsTypeCorrect == Spec => []TypeOK
<1>1. StatsInv => TypeOK
  <2> SUFFICES ASSUME StatsInv PROVE TypeOK
    OBVIOUS
  <2>1. ASSUME NEW c \in Cells, NEW s \in Shards PROVE count[c][s] \in 0 .. MaxTraffic
    <3>1. Counted(c) \in Nat /\ count[c][s] \in Nat /\ count[c][s] <= Counted(c) /\ base[c] \in Nat
      BY CountedIsUnread DEF StatsInv, Types
    <3>2. base[c] + Counted(c) <= MaxTraffic
      BY DEF StatsInv, Books, Served
    <3> QED  BY <3>1, <3>2, Constants
  <2>2. count \in [Cells -> [Shards -> 0 .. MaxTraffic]]
    BY <2>1 DEF StatsInv, Types
  <2>3. ASSUME NEW a \in Actors
        PROVE  task[a].pc \in {"idle", "waiting", "scan", "scanned", "credit", "write", "gauge", "gauged"}
    BY DEF StatsInv, Types, Tasks, Holding
  <2> QED  BY <2>2, <2>3 DEF TypeOK, StatsInv, Types
<1> QED  BY <1>1, StatsInvariant, PTL

\* A total read shard by shard lies between the totals at its start and now
\* (Counters::totals).
THEOREM StatsScanBounds == Spec => []ScanBounds
<1>1. StatsInv => ScanBounds
  BY DEF StatsInv, ActorInv, Scanning, ScanBounds
<1> QED  BY <1>1, StatsInvariant, PTL

\* The file never holds more than was served, over overlapping flushes, failed
\* writes and restarts (flush_on, Stats::open).
THEOREM StatsNeverOvercounts == Spec => []NeverOvercounts
<1>1. StatsInv => NeverOvercounts
  BY DEF StatsInv, Books, NeverOvercounts
<1> QED  BY <1>1, StatsInvariant, PTL

\* A written flush holds all that was counted before it took the mutex
\* (flush_on).
THEOREM StatsFlushCovers == Spec => []FlushCovers
<1>1. StatsInv => FlushCovers
  BY DEF StatsInv, Books, FlushCovers
<1> QED  BY <1>1, StatsInvariant, PTL

\* Stored days and pending traffic add up to the total that a report read
\* (report_on): nobody else is in a flush while it holds the mutex.
THEOREM StatsReportConsistent == Spec => []ReportConsistent
<1>1. StatsInv => ReportConsistent
  <2> SUFFICES ASSUME StatsInv, NEW r \in Readers, task[r].pc = "scanned", lock = r
               PROVE  Recorded(days, task[r].cell) + dropped[task[r].cell] + Pending(r)
                        = base[task[r].cell] + task[r].sum
    BY DEF ReportConsistent
  <2> DEFINE c == task[r].cell
  <2>1. r \in Actors /\ r \notin Flushers /\ task[r] \in Tasks /\ c \in Cells
    BY Constants DEF Actors, StatsInv, Types, Tasks
  <2>2. ActorInv(r) /\ ~Advanced(r, c)
    BY <2>1 DEF StatsInv, Advanced
  <2>3. task[r].sum \in Nat /\ task[r].low[c] <= task[r].sum
    BY <2>2 DEF ActorInv, Scanning
  <2>4. flushed[c] <= task[r].low[c]
    BY <2>1, <2>2 DEF ActorInv, Watermark, Holding
  <2>5. /\ flushed[c] \in Nat /\ task[r].low[c] \in Nat /\ Recorded(days, c) \in Nat
        /\ base[c] \in Nat /\ dropped[c] \in Nat
    BY <2>1, RecordedSum DEF StatsInv, Types, Tasks
  <2>6. Recorded(days, c) + dropped[c] + 0 = base[c] + flushed[c]
    <3>1. InFlight(c) = 0
      BY <2>1 DEF InFlight
    <3> QED  BY <2>1, <3>1 DEF StatsInv, Books
  <2>7. Pending(r) = task[r].sum - flushed[c]
    BY <2>3, <2>4, <2>5 DEF Pending, Minus
  <2> QED  BY <2>3, <2>5, <2>6, <2>7
<1> QED  BY <1>1, StatsInvariant, PTL

\* The file keeps KEEP_DAYS days, and they are the latest (flush_on).
THEOREM StatsKeptDays == Spec => []KeptDays
<1>1. StatsInv => KeptDays
  <2> SUFFICES ASSUME StatsInv, NEW g \in gone, NEW d \in DOMAIN disk PROVE g < d
    BY DEF KeptDays, StatsInv, Pruned
  <2> DEFINE D == DOMAIN disk
  <2>1. D \in SUBSET Dates /\ g \in Dates
    BY DEF StatsInv, Types, IsHistory
  <2>2. Cardinality(D) <= KeepDays /\ Cardinality(Above(D, g)) >= KeepDays
    BY DEF StatsInv, Pruned
  <2> HIDE DEF D
  <2>3. /\ IsFiniteSet(D) /\ Cardinality(D) \in Nat
        /\ IsFiniteSet(Above(D, g)) /\ Cardinality(Above(D, g)) \in Nat
    BY <2>1, AboveFinite
  <2>4. Above(D, g) \in SUBSET D
    BY DEF Above
  <2>5. Cardinality(Above(D, g)) <= Cardinality(D)
    BY <2>3, <2>4, FS_Subset
  <2>6. Cardinality(Above(D, g)) = Cardinality(D)
    BY <2>2, <2>3, <2>5, Constants
  <2>7. Above(D, g) = D
    BY <2>3, <2>4, <2>6, FS_Subset
  <2>8. d > g /\ d \in Dates
    BY <2>1, <2>7 DEF Above, D
  <2> QED  BY <2>1, <2>8 DEF Dates
<1> QED  BY <1>1, StatsInvariant, PTL

\* The gauge is off by no more than the streams that start or finish while it
\* is read (Counters::active).
THEOREM StatsGaugeBounds == Spec => []GaugeBounds
<1>1. StatsInv => GaugeBounds
  <2> SUFFICES ASSUME StatsInv, NEW r \in Readers, task[r].pc = "gauged"
               PROVE  /\ Gauge(r) <= started[task[r].cell] - task[r].e0
                      /\ Gauge(r) >= task[r].s0 - ended[task[r].cell]
    BY DEF GaugeBounds
  <2> DEFINE c == task[r].cell
  <2>1. /\ r \in Actors /\ task[r] \in Tasks /\ c \in Cells /\ task[r].sum \in Int
        /\ task[r].s0 \in Nat /\ task[r].e0 \in Nat
    BY DEF Actors, StatsInv, Types, Tasks
  <2>2. started[c] \in Nat /\ ended[c] \in Nat /\ ended[c] <= started[c] /\ Gauging(r)
    BY <2>1 DEF StatsInv, Types, Books, ActorInv
  <2>3. /\ task[r].e0 <= ended[c] /\ task[r].s0 <= started[c]
        /\ task[r].s0 - ended[c] <= task[r].sum /\ task[r].sum <= started[c] - task[r].e0
    BY <2>2 DEF Gauging
  <2> QED  BY <2>1, <2>2, <2>3 DEF Gauge
<1> QED  BY <1>1, StatsInvariant, PTL
-----------------------------------------------------------------------------
(* The ledger *)

Filed(c) == Recorded(disk, c) + diskDropped[c]

\* The file lags behind the memory, whose days are pruned by themselves when a
\* write fails.
DiskBehind == \A c \in Cells : Filed(c) <= Recorded(days, c) + dropped[c]

LedgerInv == StatsInv /\ DiskBehind

\* The numbers of the account.
LEMMA AccountTypes ==
  ASSUME StatsInv, NEW c \in Cells
  PROVE  /\ Filed(c) \in Nat /\ Served(c) \in Nat /\ Counted(c) \in Nat
         /\ Recorded(days, c) \in Nat /\ dropped[c] \in Nat
         /\ base[c] \in Nat /\ flushed[c] \in Nat
<1>1. /\ Recorded(disk, c) \in Nat /\ diskDropped[c] \in Nat
      /\ Recorded(days, c) \in Nat /\ dropped[c] \in Nat
      /\ base[c] \in Nat /\ flushed[c] \in Nat /\ Counted(c) \in Nat
  BY RecordedSum, CountedIsUnread DEF StatsInv, Types
<1> QED  BY <1>1 DEF Filed, Served

\* A written flush files all that is flushed; a failed one files nothing.
\* Either way the memory, with what is pruned from it, keeps its account.
LEMMA WriteAccount ==
  ASSUME StatsInv, NEW f \in Flushers, NEW ok \in BOOLEAN, Write(f, ok), NEW c \in Cells
  PROVE  /\ Recorded(days, c)' + dropped'[c] = Recorded(days, c) + dropped[c]
         /\ Recorded(days, c) + dropped[c] <= Served(c)
         /\ Filed(c)' = IF ok THEN Recorded(days, c) + dropped[c] ELSE Filed(c)
         /\ Served(c)' = Served(c)
<1> DEFINE K == Kept(DOMAIN days)
           Rest1 == Restrict(days, DOMAIN days \ K)
<1>1. /\ days' = Restrict(days, K)
      /\ dropped'[c] = dropped[c] + Recorded(Rest1, c)
      /\ disk' = IF ok THEN days' ELSE disk
      /\ diskDropped' = IF ok THEN dropped' ELSE diskDropped
      /\ UNCHANGED <<count, base>> /\ task[f].pc = "write"
  BY DEF Write
<1>2. /\ K \in SUBSET DOMAIN days /\ DOMAIN days \ K \in SUBSET DOMAIN days
      /\ IsHistory(days)
  BY DEF Kept, StatsInv, Types
<1> HIDE DEF K
<1>3. /\ IsHistory(Restrict(days, K)) /\ IsHistory(Rest1)
      /\ Recorded(days, c) = Recorded(Restrict(days, K), c) + Recorded(Rest1, c)
  BY <1>2, RecordedCut
<1> HIDE DEF Rest1
<1>4. Recorded(Restrict(days, K), c) \in Nat /\ Recorded(Rest1, c) \in Nat
  BY <1>3, RecordedSum
<1>5. Recorded(days, c)' + dropped'[c] = Recorded(days, c) + dropped[c]
  BY <1>1, <1>3, <1>4, AccountTypes
<1>6. Filed(c)' = IF ok THEN Recorded(days, c) + dropped[c] ELSE Filed(c)
  <2>1. CASE ok
    <3>1. Filed(c)' = Recorded(days, c)' + dropped'[c]
      BY <1>1, <2>1 DEF Filed
    <3> QED  BY <1>5, <2>1, <3>1
  <2>2. CASE ~ok
    BY <1>1, <2>2 DEF Filed
  <2> QED  BY <2>1, <2>2
<1>7. Recorded(days, c) + dropped[c] <= Served(c)
  <2>1. /\ Recorded(days, c) + dropped[c] + InFlight(c) = base[c] + flushed[c]
        /\ flushed[c] <= Counted(c)
    BY DEF StatsInv, Books
  <2>2. lock = f
    BY <1>1 DEF StatsInv, ActorInv, Placed, Holding, Actors
  <2>3. InFlight(c) = 0
    BY <1>1, <2>2 DEF InFlight
  <2> QED  BY <2>1, <2>3, AccountTypes DEF Served
<1>8. Served(c)' = Served(c)
  BY <1>1 DEF Served, Counted
<1> QED  BY <1>5, <1>6, <1>7, <1>8

\* Steps that leave the account alone.
LEMMA AccountSame ==
  ASSUME UNCHANGED <<count, base, disk, diskDropped>>
  PROVE  \A c \in Cells : Filed(c)' = Filed(c) /\ Served(c)' = Served(c)
BY DEF Filed, Served, Counted

\* Every step keeps the file behind the memory.
LEMMA BehindStep == LedgerInv /\ [Next]_vars => DiskBehind'
<1> SUFFICES ASSUME StatsInv, DiskBehind, [Next]_vars, NEW c \in Cells
             PROVE  Filed(c)' <= Recorded(days, c)' + dropped'[c]
  BY DEF LedgerInv, DiskBehind
<1>1. /\ Filed(c) <= Recorded(days, c) + dropped[c] /\ Filed(c) \in Nat
      /\ Recorded(days, c) \in Nat /\ dropped[c] \in Nat
  BY AccountTypes DEF DiskBehind
<1>2. ASSUME UNCHANGED <<days, disk, dropped, diskDropped>>
      PROVE  Filed(c)' <= Recorded(days, c)' + dropped'[c]
  BY <1>1, <1>2 DEF Filed
<1>3. ASSUME NEW f \in Flushers, Credit(f) PROVE Filed(c)' <= Recorded(days, c)' + dropped'[c]
  <2> DEFINE d == task[f].today
             k == task[f].cell
             n == task[f].sum
  <2>1. /\ days' = AddTo(days, d, k, n) /\ task[f].pc = "credit"
        /\ UNCHANGED <<disk, dropped, diskDropped>>
    BY <1>3 DEF Credit, history
  <2>2. f \in Actors /\ ActorInv(f) /\ k \in Cells
    BY DEF StatsInv, Actors, Types, Tasks
  <2>3. d \in Dates /\ n \in Nat /\ IsHistory(days)
    BY <2>1, <2>2 DEF ActorInv, Placed, Scanning, StatsInv, Types
  <2> HIDE DEF d, k, n
  <2>4. Recorded(days', c) = Recorded(days, c) + (IF c = k THEN n ELSE 0)
    BY <2>1, <2>2, <2>3, RecordedAdd
  <2>5. Filed(c)' = Filed(c) /\ dropped' = dropped
    BY <2>1 DEF Filed
  <2> QED  BY <1>1, <2>3, <2>4, <2>5
<1>4. ASSUME NEW f \in Flushers, NEW ok \in BOOLEAN, Write(f, ok)
      PROVE  Filed(c)' <= Recorded(days, c)' + dropped'[c]
  <2>1. /\ Recorded(days, c)' + dropped'[c] = Recorded(days, c) + dropped[c]
        /\ Filed(c)' = IF ok THEN Recorded(days, c) + dropped[c] ELSE Filed(c)
    BY <1>4, WriteAccount
  <2> QED  BY <1>1, <2>1
<1>5. CASE Restart
  <2>1. Filed(c)' = Filed(c) /\ Recorded(days, c)' + dropped'[c] = Filed(c)
    BY <1>5 DEF Restart, Filed
  <2> QED  BY <1>1, <2>1
<1>6. ASSUME NEW k \in Cells, NEW s \in Shards,
             Count(k, s) \/ StreamStarted(k, s) \/ StreamFinished(k, s)
      PROVE  UNCHANGED <<days, disk, dropped, diskDropped>>
  BY <1>6 DEF Count, StreamStarted, StreamFinished, history
<1>7. ASSUME NEW a \in Actors, Call(a) \/ ScanShard(a) \/ \E k \in Cells : Lock(a, k)
      PROVE  UNCHANGED <<days, disk, dropped, diskDropped>>
  BY <1>7 DEF Call, ScanShard, Lock, history
<1>8. ASSUME NEW f \in Flushers, Advance(f)
      PROVE  UNCHANGED <<days, disk, dropped, diskDropped>>
  BY <1>8 DEF Advance, history
<1>9. ASSUME NEW r \in Readers,
             (\E k \in Cells : Scrape(r, k)) \/ ReadGauge(r) \/ GaugeShard(r) \/ Answer(r)
      PROVE  UNCHANGED <<days, disk, dropped, diskDropped>>
  BY <1>9 DEF Scrape, ReadGauge, GaugeShard, Answer, history
<1>10. CASE Midnight \/ UNCHANGED vars
  BY <1>2, <1>10 DEF Midnight, vars, state, history
<1>11. 1 \in Cells /\ Actors = Flushers \cup Readers
  BY RestTask DEF Actors
<1> QED  BY <1>2, <1>3, <1>4, <1>5, <1>6, <1>7, <1>8, <1>9, <1>10, <1>11 DEF Next

\* Each step is one of the ledger, or leaves it alone: traffic is served, a
\* written flush files, a restart is a crash.
LEMMA LedgerStep == LedgerInv /\ [Next]_vars => [Account!Next]_(Account!ledgerVars)
<1> SUFFICES ASSUME StatsInv, DiskBehind, [Next]_vars
             PROVE  Account!Next \/ UNCHANGED Account!ledgerVars
  BY DEF LedgerInv
<1> DEFINE sv == [c \in Cells |-> Served(c)]
           fd == [c \in Cells |-> Filed(c)]
<1>1. ASSUME \A c \in Cells : Filed(c)' = Filed(c) /\ Served(c)' = Served(c)
      PROVE  UNCHANGED Account!ledgerVars
  BY <1>1 DEF Account!ledgerVars, Filed
<1>2. ASSUME UNCHANGED <<count, base, disk, diskDropped>> PROVE UNCHANGED Account!ledgerVars
  BY <1>1, <1>2, AccountSame
<1>3. ASSUME NEW k \in Cells, NEW s \in Shards, Count(k, s) PROVE Account!Next
  <2>1. \A c \in Cells : Served(c)' = Served(c) + (IF c = k THEN 1 ELSE 0) /\ Served(c) \in Nat
    <3> SUFFICES ASSUME NEW c \in Cells
                 PROVE  Served(c)' = Served(c) + (IF c = k THEN 1 ELSE 0) /\ Served(c) \in Nat
      OBVIOUS
    <3>1. Counted(c)' = Counted(c) + (IF c = k THEN 1 ELSE 0) /\ Counted(c) \in Nat
      BY <1>3, CountServes
    <3>2. base' = base /\ base[c] \in Nat
      BY <1>3, AccountTypes DEF Count, history
    <3> QED  BY <3>1, <3>2 DEF Served
  <2>2. \A c \in Cells : Filed(c)' = Filed(c)
    BY <1>3 DEF Count, Filed, history
  <2>3. sv' = [sv EXCEPT ![k] = @ + 1]
    <3>1. \A c \in Cells : Served(c)' = IF c = k THEN Served(k) + 1 ELSE Served(c)
      BY <2>1
    <3>2. sv' = [c \in Cells |-> IF c = k THEN Served(k) + 1 ELSE Served(c)]
      BY <3>1
    <3>3. [sv EXCEPT ![k] = @ + 1] = [c \in Cells |-> IF c = k THEN Served(k) + 1 ELSE Served(c)]
      OBVIOUS
    <3> QED  BY <3>2, <3>3
  <2>4. fd' = fd
    BY <2>2
  <2>5. Account!Serve(k)
    BY <2>3, <2>4 DEF Account!Serve, Filed
  <2> QED  BY <2>5 DEF Account!Next
<1>4. ASSUME NEW f \in Flushers, NEW ok \in BOOLEAN, Write(f, ok)
      PROVE  Account!Next \/ UNCHANGED Account!ledgerVars
  <2>1. \A c \in Cells : /\ Filed(c)' = IF ok THEN Recorded(days, c) + dropped[c] ELSE Filed(c)
                         /\ Recorded(days, c) + dropped[c] <= Served(c)
                         /\ Served(c)' = Served(c)
    BY <1>4, WriteAccount
  <2>2. CASE ok
    <3>1. \A c \in Cells : Filed(c)' \in Nat /\ Filed(c) <= Filed(c)' /\ Filed(c)' <= Served(c)
      BY <2>1, <2>2, AccountTypes DEF DiskBehind
    <3>2. sv' = sv /\ fd' \in [Cells -> Nat]
      BY <2>1, <3>1
    <3>3. \A c \in Cells : fd[c] <= fd'[c] /\ fd'[c] <= sv[c]
      BY <3>1
    <3>4. Account!File
      BY <3>2, <3>3 DEF Account!File, Filed
    <3> QED  BY <3>4 DEF Account!Next
  <2>3. CASE ~ok
    BY <1>1, <2>1, <2>3
  <2> QED  BY <2>2, <2>3
<1>5. CASE Restart
  <2>1. ASSUME NEW c \in Cells PROVE Filed(c)' = Filed(c) /\ Served(c)' = Filed(c)
    <3>1. Counted(c)' = 0
      BY <1>5, NoTraffic DEF Restart, Counted
    <3>2. base'[c] = Filed(c) /\ Filed(c)' = Filed(c) /\ Filed(c) \in Nat
      BY <1>5, AccountTypes DEF Restart, Filed
    <3> QED  BY <3>1, <3>2 DEF Served
  <2>2. sv' = fd /\ fd' = fd
    BY <2>1
  <2>3. Account!Crash
    BY <2>2 DEF Account!Crash, Filed
  <2> QED  BY <2>3 DEF Account!Next
<1>6. ASSUME NEW k \in Cells, NEW s \in Shards, StreamStarted(k, s) \/ StreamFinished(k, s)
      PROVE  UNCHANGED <<count, base, disk, diskDropped>>
  BY <1>6 DEF StreamStarted, StreamFinished
<1>7. ASSUME NEW a \in Actors, Call(a) \/ ScanShard(a) \/ \E k \in Cells : Lock(a, k)
      PROVE  UNCHANGED <<count, base, disk, diskDropped>>
  BY <1>7 DEF Call, ScanShard, Lock, history
<1>8. ASSUME NEW f \in Flushers, Advance(f) \/ Credit(f)
      PROVE  UNCHANGED <<count, base, disk, diskDropped>>
  BY <1>8 DEF Advance, Credit, history
<1>9. ASSUME NEW r \in Readers,
             (\E k \in Cells : Scrape(r, k)) \/ ReadGauge(r) \/ GaugeShard(r) \/ Answer(r)
      PROVE  UNCHANGED <<count, base, disk, diskDropped>>
  BY <1>9 DEF Scrape, ReadGauge, GaugeShard, Answer, history
<1>10. CASE Midnight \/ UNCHANGED vars
  BY <1>2, <1>10 DEF Midnight, vars, state, history
<1>11. 1 \in Cells /\ Actors = Flushers \cup Readers
  BY RestTask DEF Actors
<1> QED  BY <1>2, <1>3, <1>4, <1>5, <1>6, <1>7, <1>8, <1>9, <1>10, <1>11 DEF Next

\* The statistics implement the ledger, for any number of cells, shards and
\* days, whichever flushes overlap or fail to write and whenever the process
\* stops (flush_on, Stats::open).
THEOREM StatsImplementsLedger == Spec => ImplementsLedger
<1>1. Init => Account!Init /\ DiskBehind
  <2> SUFFICES ASSUME Init PROVE Account!Init /\ DiskBehind
    OBVIOUS
  <2>1. ASSUME NEW c \in Cells
        PROVE  /\ Recorded(disk, c) + diskDropped[c] = 0 /\ Served(c) = 0
               /\ Recorded(days, c) + dropped[c] = 0
    <3>1. Counted(c) = 0 /\ base[c] = 0 /\ diskDropped[c] = 0 /\ dropped[c] = 0
      BY NoTraffic DEF Counted, Init, Zero
    <3>2. Recorded(disk, c) = 0 /\ Recorded(days, c) = 0
      BY NoHistory DEF Init
    <3> QED  BY <3>1, <3>2 DEF Served
  <2> QED  BY <2>1 DEF Account!Init, DiskBehind, Filed
<1>2. Spec => []LedgerInv
  BY <1>1, StatsInit, StatsStep, BehindStep, PTL DEF Spec, LedgerInv
<1> QED  BY <1>1, <1>2, LedgerStep, PTL DEF Spec, ImplementsLedger, Account!Spec
=============================================================================
