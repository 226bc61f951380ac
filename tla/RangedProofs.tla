----------------------------- MODULE RangedProofs -----------------------------
(***************************************************************************)
(* Proofs about Ranged: its safety invariants, and that it implements      *)
(* Filling, for any file, any segment and block sizes, any number of       *)
(* segment tasks, permits and runs.                                        *)
(***************************************************************************)
EXTENDS Ranged, SegmentsProofs

(***************************************************************************)
(* The inductive invariant.                                                *)
(***************************************************************************)

\* Between runs there is no table; within one its indices have been given
\* out by the counter, and it is left by the last check only when finished.
Held == pc \in {"idle", "ended"}

Control ==
    /\ result # "none" => pc = "ended"
    /\ Held => table = <<>>
    /\ \A i \in DOMAIN table : i < next
    /\ pc = "complete" => \A i \in DOMAIN table : Finished(table[i])

\* A task that runs and has not been aborted.
Alive(t) == tasks[t].at \in {"start", "body"} /\ ~tasks[t].killed

\* A task of this run has the segment of its index, as it is or as it was
\* before splits; one that has been aborted has it no more.
OwnSegment(t) ==
    /\ tasks[t].index = Gone => tasks[t].killed
    /\ tasks[t].index # Gone =>
          /\ tasks[t].index \in DOMAIN table
          /\ table[tasks[t].index].start = tasks[t].start
          /\ table[tasks[t].index].end <= tasks[t].end
          /\ tasks[t].killed => table[tasks[t].index].end < tasks[t].end
          /\ Alive(t) => table[tasks[t].index].end = tasks[t].end

\* A body is written where the counter of its segment stands.
Position(t) ==
    tasks[t].at = "body" =>
        /\ tasks[t].start <= tasks[t].pos /\ tasks[t].pos <= tasks[t].end + 1
        /\ ~tasks[t].killed =>
              tasks[t].pos = tasks[t].start + table[tasks[t].index].downloaded

\* Unless the run is degraded, every task that runs or has succeeded is the
\* one its index has a handle of.
Outcome(t) ==
    /\ tasks[t].at = "aborted" => tasks[t].killed
    /\ tasks[t].at = "cancelled" /\ tasks[t].index # Gone => cancelled
    /\ tasks[t].at = "ok" /\ tasks[t].index # Gone /\ ~degraded =>
          /\ tasks[t].index \in DOMAIN handles /\ handles[tasks[t].index] = t
          /\ Finished(table[tasks[t].index])
    /\ Alive(t) /\ ~degraded =>
          tasks[t].index \in DOMAIN handles /\ handles[tasks[t].index] = t

TasksOK == \A t \in DOMAIN tasks : OwnSegment(t) /\ Position(t) /\ Outcome(t)

OneAlive ==
    \A t, u \in DOMAIN tasks :
        Alive(t) /\ Alive(u) /\ tasks[t].index = tasks[u].index => t = u

\* A task of a run writes to the .part, unless that was removed under it.
OnPart ==
    Running /\ ~dropped =>
        \A t \in DOMAIN tasks : tasks[t].lost => tasks[t].index = Gone

\* Until the first crash, or the first removal of the .part under tasks, the
\* bitmap that a run may find marks only blocks that are in the file: also
\* when there is no .part yet but a task that may still create one.  While a
\* run is on, it need not (the .part may have been removed before it).
BitsTrue ==
    /\ pc = "streaming" => meta = {}
    /\ ~crashes /\ ~dropped /\ Held /\ (exists \/ Live # {}) =>
          \A bits \in meta : \A b \in bits : UnitsOf(b) \subseteq Written

IInv ==
    /\ TypeOK /\ Control /\ SegmentsTile
    /\ TasksOK /\ OneAlive /\ HandlesAreJoined /\ OnPart
    /\ CountedIsWritten /\ CompleteHasNoHole /\ BitsTrue /\ ResumesAreSound

(***************************************************************************)
(* Functions and sets.                                                     *)
(***************************************************************************)

\* Adding a pair to a function, as the tables of segments and tasks grow.
LEMMA WithIs ==
    ASSUME NEW f, NEW x, NEW v
    PROVE  /\ DOMAIN With(f, x, v) = DOMAIN f \cup {x}
           /\ With(f, x, v)[x] = v
           /\ \A y \in DOMAIN f \ {x} : With(f, x, v)[y] = f[y]
BY DEF With

\* Taking a pair out of a function.
LEMMA WithoutIs ==
    ASSUME NEW f, NEW x
    PROVE  /\ DOMAIN Without(f, x) = DOMAIN f \ {x}
           /\ \A y \in DOMAIN f \ {x} : Without(f, x)[y] = f[y]
BY DEF Without, Restrict

\* The tasks go on as before when the .part is unlinked.
LEMMA UnlinkedIs ==
    ASSUME NEW ts, \A t \in DOMAIN ts : ts[t] \in Task
    PROVE  /\ DOMAIN Unlinked(ts) = DOMAIN ts
           /\ \A t \in DOMAIN ts :
                 /\ Unlinked(ts)[t] \in Task
                 /\ Unlinked(ts)[t].index = ts[t].index
                 /\ Unlinked(ts)[t].start = ts[t].start
                 /\ Unlinked(ts)[t].end = ts[t].end
                 /\ Unlinked(ts)[t].pos = ts[t].pos
                 /\ Unlinked(ts)[t].killed = ts[t].killed
                 /\ Unlinked(ts)[t].at = ts[t].at
<1>1. DOMAIN Unlinked(ts) = DOMAIN ts
  BY DEF Unlinked
<1>2. ASSUME NEW t \in DOMAIN ts
      PROVE  /\ Unlinked(ts)[t] \in Task
             /\ Unlinked(ts)[t].index = ts[t].index
             /\ Unlinked(ts)[t].start = ts[t].start
             /\ Unlinked(ts)[t].end = ts[t].end
             /\ Unlinked(ts)[t].pos = ts[t].pos
             /\ Unlinked(ts)[t].killed = ts[t].killed
             /\ Unlinked(ts)[t].at = ts[t].at
  <2>1. CASE ts[t].at = "body"
    <3>1. Unlinked(ts)[t] = [ts[t] EXCEPT !.lost = TRUE]
      BY <2>1 DEF Unlinked
    <3>2. PICK k \in Task : k = ts[t]
      OBVIOUS
    <3>3. /\ [k EXCEPT !.lost = TRUE] \in Task
          /\ [k EXCEPT !.lost = TRUE].index = k.index
          /\ [k EXCEPT !.lost = TRUE].start = k.start
          /\ [k EXCEPT !.lost = TRUE].end = k.end
          /\ [k EXCEPT !.lost = TRUE].pos = k.pos
          /\ [k EXCEPT !.lost = TRUE].killed = k.killed
          /\ [k EXCEPT !.lost = TRUE].at = k.at
      BY DEF Task
    <3> QED
      BY <3>1, <3>2, <3>3
  <2>2. CASE ts[t].at # "body"
    <3>1. Unlinked(ts)[t] = ts[t]
      BY <2>2 DEF Unlinked
    <3> QED
      BY <3>1
  <2> QED
    BY <2>1, <2>2
<1> QED
  BY <1>1, <1>2

\* Of the tasks of a run that is over, those still running are left, aborted.
LEMMA AbandonedIs ==
    ASSUME NEW ts, \A t \in DOMAIN ts : ts[t] \in Task
    PROVE  /\ DOMAIN Abandoned(ts) = {t \in DOMAIN ts : ts[t].at \in {"start", "body"}}
           /\ \A t \in DOMAIN Abandoned(ts) :
                 /\ Abandoned(ts)[t] \in Task
                 /\ Abandoned(ts)[t].index = Gone /\ Abandoned(ts)[t].killed
                 /\ Abandoned(ts)[t].start = ts[t].start
                 /\ Abandoned(ts)[t].end = ts[t].end
                 /\ Abandoned(ts)[t].pos = ts[t].pos
                 /\ Abandoned(ts)[t].at = ts[t].at
<1>1. DOMAIN Abandoned(ts) = {t \in DOMAIN ts : ts[t].at \in {"start", "body"}}
  BY DEF Abandoned
<1>2. ASSUME NEW t \in DOMAIN Abandoned(ts)
      PROVE  Abandoned(ts)[t] = [ts[t] EXCEPT !.index = Gone, !.killed = TRUE]
  BY DEF Abandoned
<1>3. ASSUME NEW k \in Task
      PROVE  LET a == [k EXCEPT !.index = Gone, !.killed = TRUE] IN
             /\ a \in Task /\ a.index = Gone /\ a.killed
             /\ a.start = k.start /\ a.end = k.end /\ a.pos = k.pos /\ a.at = k.at
  BY DEF Task
<1>4. ASSUME NEW t \in DOMAIN Abandoned(ts)
      PROVE  /\ Abandoned(ts)[t] \in Task
             /\ Abandoned(ts)[t].index = Gone /\ Abandoned(ts)[t].killed
             /\ Abandoned(ts)[t].start = ts[t].start
             /\ Abandoned(ts)[t].end = ts[t].end
             /\ Abandoned(ts)[t].pos = ts[t].pos
             /\ Abandoned(ts)[t].at = ts[t].at
  <2>1. ts[t] \in Task
    BY <1>1
  <2>2. PICK k \in Task : k = ts[t]
    BY <2>1
  <2>3. PICK a : a = [k EXCEPT !.index = Gone, !.killed = TRUE]
    OBVIOUS
  <2>4. /\ a \in Task /\ a.index = Gone /\ a.killed
        /\ a.start = k.start /\ a.end = k.end /\ a.pos = k.pos /\ a.at = k.at
    BY <1>3, <2>3
  <2>5. Abandoned(ts)[t] = a
    BY <1>2, <2>2, <2>3
  <2> QED
    BY <2>2, <2>4, <2>5
<1> QED
  BY <1>1, <1>4

\* A task that ends.
LEMMA EndsIs ==
    ASSUME \A u \in DOMAIN tasks : tasks[u] \in Task,
           NEW t \in DOMAIN tasks,
           NEW how \in {"ok", "exhausted", "cancelled", "aborted"}, Ends(t, how)
    PROVE  /\ DOMAIN tasks' = DOMAIN tasks
           /\ tasks'[t] \in Task /\ tasks'[t].at = how
           /\ tasks'[t].index = tasks[t].index /\ tasks'[t].killed = tasks[t].killed
           /\ tasks'[t].start = tasks[t].start /\ tasks'[t].end = tasks[t].end
           /\ ~tasks'[t].lost
           /\ \A u \in DOMAIN tasks \ {t} : tasks'[u] = tasks[u]
BY DEF Ends, Task

\* Fewer running tasks need no more permits.
LEMMA FewerLive ==
    ASSUME TypeOK, Live' \subseteq Live
    PROVE  Cardinality(Live') <= Permits
<1>1. IsFiniteSet(Live)
  <2>1. Live \in SUBSET Slot /\ IsFiniteSet(Slot)
    BY RangedAssumption DEF TypeOK, Live
  <2> QED
    BY <2>1, FS_Subset
<1>2. /\ IsFiniteSet(Live') /\ Cardinality(Live') <= Cardinality(Live)
      /\ Cardinality(Live) \in Nat /\ Cardinality(Live') \in Nat
  BY <1>1, FS_Subset, FS_CardinalityType
<1>3. Cardinality(Live) <= Permits /\ Permits \in Nat
  BY RangedAssumption DEF TypeOK
<1> QED
  BY <1>2, <1>3

(***************************************************************************)
(* Tables of segments.                                                     *)
(***************************************************************************)

TableTyped(tb) ==
    /\ DOMAIN tb \subseteq Index
    /\ \A i \in DOMAIN tb : /\ tb[i] \in Segment
                            /\ tb[i].downloaded <= SegmentLen(tb[i])

\* Tiling depends on where the segments are, not on their counters.
LEMMA SameSpans ==
    ASSUME NEW tb, NEW tc, DOMAIN tc = DOMAIN tb,
           \A i \in DOMAIN tb : Span(tc[i]) = Span(tb[i]), Tiles(tb)
    PROVE  Tiles(tc)
BY DEF Tiles

\* What is counted, unit by unit.
LEMMA CountedIs ==
    ASSUME NEW tb, NEW u
    PROVE  u \in Counted(tb) <=> \E i \in DOMAIN tb : u \in Received(tb[i])
BY DEF Counted

\* Only units of the file are counted.
LEMMA CountedInFile ==
    ASSUME NEW tb, TableTyped(tb)
    PROVE  Counted(tb) \subseteq Unit
<1> SUFFICES ASSUME NEW i \in DOMAIN tb, NEW u \in Received(tb[i]) PROVE u \in Unit
  BY CountedIs
<1>1. tb[i] \in Segment /\ tb[i].downloaded <= SegmentLen(tb[i])
  BY DEF TableTyped
<1> QED
  BY <1>1, SizesAssumption DEF Segment, SegmentLen, Received, Unit

\* When all segments of a tiling are finished, everything is counted.
LEMMA FinishedIsAll ==
    ASSUME NEW tb, TableTyped(tb), Tiles(tb), \A i \in DOMAIN tb : Finished(tb[i])
    PROVE  Counted(tb) = Unit
<1>1. ASSUME NEW u \in Unit PROVE u \in Counted(tb)
  <2>1. PICK i \in DOMAIN tb : u \in Span(tb[i])
    BY DEF Tiles
  <2>2. /\ tb[i] \in Segment /\ tb[i].downloaded >= tb[i].end - tb[i].start + 1
    BY DEF TableTyped, Finished, SegmentLen
  <2>3. u \in Received(tb[i])
    BY <2>1, <2>2, SizesAssumption DEF Segment, Span, Received, Unit
  <2> QED
    BY <2>3, CountedIs
<1> QED
  BY <1>1, CountedInFile

\* The table a run starts with: the pieces, nothing counted.
LEMMA BuildIs ==
    /\ TableTyped(BuildSegments) /\ Tiles(BuildSegments)
    /\ Pieces \in Nat /\ \A i \in DOMAIN BuildSegments : i < Pieces
    /\ Counted(BuildSegments) = {}
<1>1. /\ DOMAIN BuildSegments = 0..Pieces - 1 /\ Pieces \in Nat
      /\ \A i \in 0..Pieces - 1 : BuildSegments[i] = Piece(i)
  BY PiecesRange DEF BuildSegments
<1>2. ASSUME NEW i \in 0..Pieces - 1
      PROVE  /\ BuildSegments[i] \in Segment
             /\ BuildSegments[i].downloaded = 0
             /\ SegmentLen(BuildSegments[i]) \in Nat
  BY <1>1, PieceIsSegment
<1>3. ASSUME NEW i \in 0..Pieces - 1
      PROVE  Received(BuildSegments[i]) = {}
  <2>1. BuildSegments[i].start \in Int /\ BuildSegments[i].downloaded = 0
    BY <1>2 DEF Segment, Unit
  <2> QED
    BY <2>1 DEF Received
<1>4. TableTyped(BuildSegments)
  BY <1>1, <1>2 DEF TableTyped, Index
<1>5. Counted(BuildSegments) = {}
  BY <1>1, <1>3, CountedIs
<1> QED
  BY <1>1, <1>4, <1>5, BuildTiles

\* Or the pieces with the counters the bitmap allows.
LEMMA ResumableIs ==
    ASSUME NEW bits \in SUBSET Block
    PROVE  /\ TableTyped(Resumable(bits)) /\ Tiles(Resumable(bits))
           /\ \A i \in DOMAIN Resumable(bits) : i < Pieces
           /\ \A u \in Counted(Resumable(bits)) : \E b \in bits : u \in UnitsOf(b)
<1> DEFINE tb == Resumable(bits)
<1>1. /\ DOMAIN tb = 0..Pieces - 1 /\ Pieces \in Nat
      /\ DOMAIN BuildSegments = 0..Pieces - 1
      /\ \A i \in 0..Pieces - 1 : BuildSegments[i] = Piece(i)
      /\ \A i \in 0..Pieces - 1 :
            tb[i] = [Piece(i) EXCEPT !.downloaded = ResumableBytes(Piece(i), bits)]
  BY PiecesRange DEF BuildSegments, Resumable
<1> HIDE DEF tb
<1>2. ASSUME NEW i \in 0..Pieces - 1
      PROVE  /\ tb[i] \in Segment /\ tb[i].downloaded <= SegmentLen(tb[i])
             /\ Span(tb[i]) = Span(BuildSegments[i])
             /\ \A u \in Received(tb[i]) : \E b \in bits : u \in UnitsOf(b)
  <2>1. PICK s \in Segment : s = Piece(i)
    BY PieceIsSegment
  <2>2. PICK n \in 0..SegmentLen(s) : n = ResumableBytes(s, bits)
    BY <2>1, PieceIsSegment, ResumableInRange
  <2>3. tb[i] = [s EXCEPT !.downloaded = n] /\ BuildSegments[i] = s
    BY <1>1, <2>1, <2>2
  <2>4. SegmentLen(s) \in Nat
    BY <2>1, PieceIsSegment
  <2>5. /\ tb[i] \in Segment /\ tb[i].downloaded = n
        /\ tb[i].start = s.start /\ tb[i].end = s.end
    BY <2>2, <2>3, <2>4 DEF Segment
  <2>6. \A u \in Received([s EXCEPT !.downloaded = ResumableBytes(s, bits)]) :
            \E b \in bits : u \in UnitsOf(b)
    BY ResumeOnlyComplete
  <2> QED
    BY <2>2, <2>3, <2>4, <2>5, <2>6 DEF Span, SegmentLen
<1>3. TableTyped(tb)
  BY <1>1, <1>2 DEF TableTyped, Index
<1>4. Tiles(tb)
  BY <1>1, <1>2, BuildTiles, SameSpans
<1>5. \A u \in Counted(tb) : \E b \in bits : u \in UnitsOf(b)
  BY <1>1, <1>2, CountedIs
<1> QED
  BY <1>1, <1>3, <1>4, <1>5 DEF tb

\* A split: two halves for one segment, with what it has counted.
LEMMA SplitIs ==
    ASSUME TableTyped(table), next \in Nat, \A i \in DOMAIN table : i < next,
           NEW i \in DOMAIN table, Remaining(table[i]) >= MinSplit
    PROVE  /\ DOMAIN SplitTable(i) = DOMAIN table \cup {next} /\ next \notin DOMAIN table
           /\ SplitTable(i)[i] = LowerHalf(table[i])
           /\ SplitTable(i)[next] = UpperHalf(table[i])
           /\ \A j \in DOMAIN table \ {i} : SplitTable(i)[j] = table[j]
           /\ LowerHalf(table[i]).start = table[i].start
           /\ LowerHalf(table[i]).end < table[i].end
           /\ ~Finished(table[i])
           /\ TableTyped(SplitTable(i))
           /\ Tiles(table) => Tiles(SplitTable(i))
           /\ Counted(SplitTable(i)) = Counted(table)
<1> DEFINE tb == SplitTable(i)
           low == [table EXCEPT ![i] = LowerHalf(table[i])]
<1>1. next \notin DOMAIN table
  BY DEF TableTyped, Index
<1>2. /\ DOMAIN low = DOMAIN table /\ low[i] = LowerHalf(table[i])
      /\ \A j \in DOMAIN table \ {i} : low[j] = table[j]
  OBVIOUS
<1>3. tb = With(low, next, UpperHalf(table[i]))
  BY DEF SplitTable
<1> HIDE DEF low, tb
<1>4. /\ DOMAIN tb = DOMAIN table \cup {next}
      /\ tb[i] = LowerHalf(table[i]) /\ tb[next] = UpperHalf(table[i])
      /\ \A j \in DOMAIN table \ {i} : tb[j] = table[j]
  <2>1. PICK v : v = UpperHalf(table[i])
    OBVIOUS
  <2>2. /\ DOMAIN With(low, next, v) = DOMAIN low \cup {next}
        /\ With(low, next, v)[next] = v
        /\ \A y \in DOMAIN low \ {next} : With(low, next, v)[y] = low[y]
    BY DEF With
  <2> QED
    BY <1>1, <1>2, <1>3, <2>1, <2>2
<1>5. /\ table[i].start \in Nat /\ table[i].end \in Nat /\ table[i].downloaded \in Nat
      /\ table[i] \in Segment /\ table[i].downloaded <= SegmentLen(table[i])
  BY SizesAssumption DEF TableTyped, Segment, Unit
<1>6. SegmentLen(table[i]) >= 2 /\ ~Finished(table[i])
  BY <1>5, RangedAssumption DEF Remaining, Minus, AtLeast, SegmentLen, Finished
<1>7. Splittable(table[i])
  BY <1>5, <1>6 DEF Splittable
<1>8. LowerHalf(table[i]).start = table[i].start /\ LowerHalf(table[i]).end < table[i].end
  <2>1. Half(table[i]) \in Nat /\ Half(table[i]) < SegmentLen(table[i])
    BY <1>7, HalfInside
  <2> QED
    BY <1>5, <2>1 DEF LowerHalf, SegmentLen
<1>9. TableTyped(tb)
  BY <1>4, <1>7, HalvesAreSegments DEF TableTyped, Index
<1>10. Tiles(table) => Tiles(tb)
  BY <1>1, <1>4, <1>7, SplitKeepsTiling
<1>11. Counted(tb) = Counted(table)
  <2>1. Received(tb[i]) \cup Received(tb[next]) = Received(table[i])
    BY <1>4, <1>7, SplitKeepsProgress
  <2>2. ASSUME NEW u PROVE u \in Counted(tb) <=> u \in Counted(table)
    BY <1>4, <2>1, CountedIs
  <2> QED
    BY <2>2
<1> QED
  BY <1>1, <1>4, <1>6, <1>8, <1>9, <1>10, <1>11 DEF tb

(***************************************************************************)
(* Types.                                                                  *)
(***************************************************************************)

\* The parts of TypeOK.
ControlTyped ==
    /\ pc \in {"idle", "launch", "select", "sampled", "complete",
               "fallback", "streaming", "ended"}
    /\ result \in {"none", "ok", "cancelled", "incomplete", "degraded"}
    /\ cancelled \in BOOLEAN /\ degraded \in BOOLEAN
    /\ sound \in BOOLEAN /\ crashes \in BOOLEAN /\ dropped \in BOOLEAN
    /\ runs \in 0..MaxRuns

LoopTyped ==
    /\ TableTyped(table) /\ next \in Nat
    /\ DOMAIN handles \subseteq DOMAIN table
    /\ \A i \in DOMAIN handles : handles[i] \in DOMAIN tasks

TasksTyped ==
    /\ DOMAIN tasks \subseteq Slot
    /\ \A t \in DOMAIN tasks : tasks[t] \in Task
    /\ Cardinality(Live) <= Permits

FilesTyped ==
    /\ exists \in BOOLEAN
    /\ disk \subseteq Unit /\ behind \subseteq Unit
    /\ meta \in SUBSET SUBSET Block

\* The type invariant in four parts, by what changes them.
LEMMA TypeParts == TypeOK <=> ControlTyped /\ LoopTyped /\ TasksTyped /\ FilesTyped
BY DEF TypeOK, ControlTyped, LoopTyped, TableTyped, TasksTyped, FilesTyped

\* No step of a segment task, or of the loop's end, makes a task run that
\* did not.
LEMMA SameTasks ==
    ASSUME TypeOK, DOMAIN tasks' \subseteq DOMAIN tasks,
           \A t \in DOMAIN tasks' :
              /\ tasks'[t] \in Task
              /\ tasks'[t].at \in {"start", "body"} => tasks[t].at \in {"start", "body"}
    PROVE  TasksTyped'
<1>1. Live' \subseteq Live
  BY DEF Live
<1>2. Cardinality(Live') <= Permits
  BY <1>1, FewerLive
<1> QED
  BY <1>2 DEF TypeOK, TasksTyped

\* No chunk lies outside the file, nor does a counter leave its segment.
LEMMA ChunkRange ==
    ASSUME TypeOK, TasksOK, NEW t \in DOMAIN tasks, Chunk(t)
    PROVE  /\ tasks[t].pos \in Unit
           /\ Attached(t) =>
                /\ table[tasks[t].index].downloaded < SegmentLen(table[tasks[t].index])
                /\ ~tasks[t].killed /\ tasks[t].index # Gone
                /\ tasks[t].pos = table[tasks[t].index].start
                                    + table[tasks[t].index].downloaded
<1>1. /\ tasks[t] \in Task
      /\ tasks[t].start \in Nat /\ tasks[t].end \in Nat /\ tasks[t].end < Total
      /\ tasks[t].pos \in Nat
  BY SizesAssumption DEF TypeOK, Task, Unit
<1>2. OwnSegment(t) /\ Position(t)
  BY DEF TasksOK
<1>3. tasks[t].at = "body" /\ Counter(t) < tasks[t].end - tasks[t].start + 1
  BY DEF Chunk
<1>4. CASE Attached(t)
  <2>1. /\ tasks[t].index \in DOMAIN table /\ tasks[t].index # Gone
        /\ table[tasks[t].index].start = tasks[t].start
        /\ table[tasks[t].index].end = tasks[t].end
    BY <1>4, RangedAssumption DEF Attached, TypeOK, Index
  <2>2. /\ table[tasks[t].index].downloaded \in Nat
        /\ table[tasks[t].index].end \in Nat
    BY <2>1, SizesAssumption DEF TypeOK, Segment, Unit
  <2>3. ~tasks[t].killed
    BY <1>2, <2>1, <2>2, <1>1 DEF OwnSegment
  <2>4. tasks[t].pos = tasks[t].start + table[tasks[t].index].downloaded
    BY <1>2, <1>3, <2>3 DEF Position
  <2>5. table[tasks[t].index].downloaded < tasks[t].end - tasks[t].start + 1
    BY <1>3, <1>4 DEF Counter
  <2> QED
    BY <1>1, <1>4, <2>1, <2>2, <2>3, <2>4, <2>5, SizesAssumption DEF SegmentLen, Unit
<1>5. CASE ~Attached(t)
  <2>1. tasks[t].pos - tasks[t].start < tasks[t].end - tasks[t].start + 1
    BY <1>3, <1>5 DEF Counter
  <2> QED
    BY <1>1, <1>5, <2>1, SizesAssumption DEF Unit
<1> QED
  BY <1>4, <1>5

\* Chunk and Finish: the file after a write.
LEMMA WriteIs ==
    ASSUME NEW t, disk' = disk \cup Synced(t)
    PROVE  /\ behind' = (behind \ Synced(t)) \cup Handed(t) => Written' = Written \cup Handed(t)
           /\ behind' = behind \ Synced(t) => Written' = Written
<1>1. Synced(t) \subseteq behind
  BY DEF Synced
<1> QED
  BY <1>1 DEF Written

\* What a chunk does: one more unit handed over, and counted by the segment
\* the task is attached to.
LEMMA ChunkIs ==
    ASSUME TypeOK, TasksOK, NEW t \in DOMAIN tasks, Chunk(t)
    PROVE  /\ DOMAIN tasks' = DOMAIN tasks
           /\ \A u \in DOMAIN tasks \ {t} : tasks'[u] = tasks[u]
           /\ tasks'[t] \in Task
           /\ tasks'[t].index = tasks[t].index /\ tasks'[t].killed = tasks[t].killed
           /\ tasks'[t].start = tasks[t].start /\ tasks'[t].end = tasks[t].end
           /\ tasks[t].killed => tasks'[t].at = "aborted"
           /\ ~tasks[t].killed => tasks'[t].at = "body" /\ tasks'[t].pos = tasks[t].pos + 1
           /\ tasks'[t].lost => tasks[t].lost
<1>1. PICK k \in Task : k = tasks[t]
  BY DEF TypeOK
<1>2. CASE k.killed
  <2>1. Ends(t, "aborted")
    BY <1>1, <1>2 DEF Chunk
  <2> QED
    BY <1>1, <1>2, <2>1, EndsIs DEF TypeOK
<1>3. CASE ~k.killed
  <2>1. tasks' = [tasks EXCEPT ![t].pos = @ + 1]
    BY <1>1, <1>3 DEF Chunk
  <2>2. tasks'[t] = [k EXCEPT !.pos = k.pos + 1]
    BY <1>1, <2>1
  <2>3. PICK l : l = [k EXCEPT !.pos = k.pos + 1]
    OBVIOUS
  <2>4. /\ l \in Task /\ l.index = k.index /\ l.killed = k.killed
        /\ l.start = k.start /\ l.end = k.end /\ l.at = k.at /\ l.pos = k.pos + 1
        /\ l.lost = k.lost
    BY <2>3 DEF Task
  <2>5. /\ DOMAIN tasks' = DOMAIN tasks
        /\ \A u \in DOMAIN tasks \ {t} : tasks'[u] = tasks[u]
    BY <2>1
  <2>6. k.at = "body"
    BY <1>1 DEF Chunk
  <2> QED
    BY <1>1, <1>3, <2>2, <2>3, <2>4, <2>5, <2>6
<1> QED
  BY <1>2, <1>3

\* A chunk advances the counter of an attached task by the unit it writes,
\* and no other counter.
LEMMA ChunkCounts ==
    ASSUME TypeOK, TasksOK, NEW t \in DOMAIN tasks, Chunk(t)
    PROVE  /\ TableTyped(table') /\ DOMAIN table' = DOMAIN table
           /\ ~Attached(t) => table' = table
           /\ \A i \in DOMAIN table :
                 /\ table'[i].start = table[i].start /\ table'[i].end = table[i].end
                 /\ Finished(table[i]) => Finished(table'[i])
                 /\ table'[i].downloaded =
                       table[i].downloaded
                         + (IF Attached(t) /\ i = tasks[t].index THEN 1 ELSE 0)
           /\ Written' = Written \cup Handed(t)
           /\ Counted(table') =
                 IF Attached(t) THEN Counted(table) \cup {tasks[t].pos}
                 ELSE Counted(table)
<1>1. /\ tasks[t].pos \in Unit
      /\ Attached(t) =>
           /\ table[tasks[t].index].downloaded < SegmentLen(table[tasks[t].index])
           /\ tasks[t].pos = table[tasks[t].index].start
                               + table[tasks[t].index].downloaded
  BY ChunkRange
<1>2. Written' = Written \cup Handed(t)
  BY WriteIs DEF Chunk
<1>3. TableTyped(table)
  BY TypeParts DEF LoopTyped
<1>4. CASE ~Attached(t)
  <2>1. table' = table
    BY <1>4 DEF Chunk
  <2>2. \A i \in DOMAIN table : table[i].downloaded \in Nat
    BY <1>3 DEF TableTyped, Segment
  <2> QED
    BY <1>2, <1>3, <1>4, <2>1, <2>2
<1>5. CASE Attached(t)
  <2>1. PICK i \in DOMAIN table : i = tasks[t].index
    BY <1>5 DEF Attached
  <2>2. PICK s \in Segment : s = table[i] /\ s.downloaded < SegmentLen(s)
    BY <1>1, <1>3, <1>5, <2>1 DEF TableTyped
  <2>3. table' = [table EXCEPT ![i].downloaded = @ + 1]
    BY <1>5, <2>1 DEF Chunk
  <2>4. /\ DOMAIN table' = DOMAIN table
        /\ \A j \in DOMAIN table \ {i} : table'[j] = table[j]
        /\ table'[i] = [s EXCEPT !.downloaded = s.downloaded + 1]
    BY <2>2, <2>3
  <2>5. PICK r : r = [s EXCEPT !.downloaded = s.downloaded + 1]
    OBVIOUS
  <2>6. /\ s.start \in Nat /\ s.end \in Nat /\ s.downloaded \in Nat
        /\ r \in Segment /\ r.start = s.start /\ r.end = s.end
        /\ r.downloaded = s.downloaded + 1
    BY <2>5, SizesAssumption DEF Segment, Unit
  <2>7. SegmentLen(r) = SegmentLen(s) /\ SegmentLen(s) \in Int
    BY <2>6 DEF SegmentLen
  <2>8. TableTyped(table')
    <3>1. r.downloaded <= SegmentLen(r)
      BY <2>2, <2>6, <2>7
    <3>2. table'[i] = r
      BY <2>4, <2>5
    <3>3. ASSUME NEW j \in DOMAIN table'
          PROVE  table'[j] \in Segment /\ table'[j].downloaded <= SegmentLen(table'[j])
      <4>1. CASE j = i
        BY <2>6, <3>1, <3>2, <4>1
      <4>2. CASE j # i
        <5>1. j \in DOMAIN table /\ table'[j] = table[j]
          BY <2>4, <4>2
        <5> QED
          BY <1>3, <5>1 DEF TableTyped
      <4> QED
        BY <4>1, <4>2
    <3> QED
      BY <1>3, <2>4, <3>3 DEF TableTyped
  <2>9. Received(r) = Received(s) \cup {tasks[t].pos}
    <3>1. tasks[t].pos = s.start + s.downloaded
      BY <1>1, <1>5, <2>1, <2>2
    <3> QED
      BY <2>6, <3>1 DEF Received
  <2>10. Counted(table') = Counted(table) \cup {tasks[t].pos}
    <3>1. ASSUME NEW u
          PROVE  u \in Counted(table') <=> u \in Counted(table) \/ u = tasks[t].pos
      BY <2>2, <2>4, <2>5, <2>9 DEF Counted
    <3> QED
      BY <3>1
  <2>11. \A j \in DOMAIN table : table[j].downloaded \in Nat
    BY <1>3 DEF TableTyped, Segment
  <2>12. ASSUME NEW j \in DOMAIN table
         PROVE  /\ table'[j].start = table[j].start /\ table'[j].end = table[j].end
                /\ Finished(table[j]) => Finished(table'[j])
                /\ table'[j].downloaded =
                      table[j].downloaded
                        + (IF Attached(t) /\ j = tasks[t].index THEN 1 ELSE 0)
    <3>1. CASE j = i
      <4>1. table[j] = s /\ table'[j] = r
        BY <2>2, <2>4, <2>5, <3>1
      <4>2. ~Finished(s)
        BY <2>2, <2>6, <2>7 DEF Finished
      <4> QED
        BY <1>5, <2>1, <2>6, <3>1, <4>1, <4>2
    <3>2. CASE j # i
      BY <2>1, <2>4, <2>11, <3>2
    <3> QED
      BY <3>1, <3>2
  <2> QED
    BY <1>2, <1>5, <2>4, <2>8, <2>10, <2>12
<1> QED
  BY <1>4, <1>5

(***************************************************************************)
(* What the steps do to the tasks.                                         *)
(***************************************************************************)

\* One task is changed, and keeps its segment.
Moves(t) ==
    /\ DOMAIN tasks' = DOMAIN tasks
    /\ \A u \in DOMAIN tasks \ {t} : tasks'[u] = tasks[u]
    /\ tasks'[t] \in Task
    /\ tasks'[t].index = tasks[t].index /\ tasks'[t].killed = tasks[t].killed
    /\ tasks'[t].start = tasks[t].start /\ tasks'[t].end = tasks[t].end
    /\ tasks'[t].lost => tasks[t].lost

\* Request, with where the body begins.
LEMMA RequestIs ==
    ASSUME TypeOK, TasksOK, NEW t \in DOMAIN tasks, Request(t)
    PROVE  /\ Moves(t) /\ ~tasks[t].killed /\ tasks[t].at = "start"
           /\ tasks[t].index \in DOMAIN table
           /\ \/ /\ tasks'[t].at = "ok" /\ Finished(table[tasks[t].index])
                 /\ UNCHANGED exists
              \/ /\ tasks'[t].at = "body"
                 /\ tasks'[t].pos = tasks[t].start + table[tasks[t].index].downloaded
                 /\ tasks'[t].pos <= tasks[t].end
                 /\ exists' = TRUE
<1>1. PICK k \in Task : k = tasks[t]
  BY DEF TypeOK
<1>2. k.at = "start" /\ ~k.killed
  BY <1>1 DEF Request
<1>3. /\ k.index \in DOMAIN table
      /\ table[k.index].start = k.start /\ table[k.index].end = k.end
  BY <1>1, <1>2 DEF TasksOK, OwnSegment, Alive
<1>4. PICK s \in Segment : s = table[k.index]
  BY <1>3 DEF TypeOK
<1>5. /\ s.start \in Nat /\ s.end \in Nat /\ s.downloaded \in Nat
      /\ s.start = k.start /\ s.end = k.end
  BY <1>3, <1>4, SizesAssumption DEF Segment, Unit
<1>6. Counter(t) = s.downloaded
  BY <1>1, <1>3, <1>4 DEF Counter, Attached
<1>7. CASE k.start + s.downloaded > k.end
  <2>1. Ends(t, "ok") /\ UNCHANGED exists
    BY <1>1, <1>6, <1>7 DEF Request
  <2>2. Finished(s)
    BY <1>5, <1>7 DEF Finished, SegmentLen
  <2> QED
    BY <1>1, <1>2, <1>3, <1>4, <2>1, <2>2, EndsIs DEF Moves, TypeOK
<1>8. CASE ~(k.start + s.downloaded > k.end)
  <2>1. PICK from \in Nat : from = k.start + s.downloaded
    BY <1>5
  <2>2. tasks' = [tasks EXCEPT ![t].at = "body", ![t].pos = from] /\ exists' = TRUE
    BY <1>1, <1>6, <1>8, <2>1 DEF Request
  <2>3. /\ DOMAIN tasks' = DOMAIN tasks
        /\ \A u \in DOMAIN tasks \ {t} : tasks'[u] = tasks[u]
        /\ tasks'[t] = [k EXCEPT !.at = "body", !.pos = from]
    BY <1>1, <2>2
  <2>4. PICK l : l = [k EXCEPT !.at = "body", !.pos = from]
    OBVIOUS
  <2>5. /\ l \in Task /\ l.index = k.index /\ l.killed = k.killed
        /\ l.start = k.start /\ l.end = k.end /\ l.at = "body" /\ l.pos = from
        /\ l.lost = k.lost
    BY <2>4 DEF Task
  <2>6. from <= k.end
    BY <1>5, <1>8, <2>1
  <2>7. Moves(t)
    BY <1>1, <2>3, <2>4, <2>5 DEF Moves
  <2>8. tasks'[t].at = "body" /\ tasks'[t].pos = k.start + s.downloaded
    BY <2>1, <2>3, <2>4, <2>5
  <2>9. tasks'[t].pos <= k.end
    BY <2>1, <2>6, <2>8
  <2> QED
    BY <1>1, <1>2, <1>3, <1>4, <2>2, <2>7, <2>8, <2>9
<1> QED
  BY <1>7, <1>8

\* Retry, Finish, Exhaust, SeeCancel and, within its run, Die.
LEMMA RetryIs ==
    ASSUME TypeOK, NEW t \in DOMAIN tasks, Retry(t)
    PROVE  Moves(t) /\ tasks'[t].at = "start" /\ tasks[t].at = "body"
<1>1. PICK k \in Task : k = tasks[t]
  BY DEF TypeOK
<1>2. PICK l : l = [k EXCEPT !.at = "start", !.pos = 0, !.lost = FALSE]
  OBVIOUS
<1>3. /\ l \in Task /\ l.index = k.index /\ l.killed = k.killed
      /\ l.start = k.start /\ l.end = k.end /\ l.at = "start" /\ ~l.lost
  BY <1>2 DEF Task
<1>4. /\ DOMAIN tasks' = DOMAIN tasks
      /\ \A u \in DOMAIN tasks \ {t} : tasks'[u] = tasks[u]
      /\ tasks'[t] = l
  BY <1>1, <1>2 DEF Retry
<1> QED
  BY <1>1, <1>3, <1>4 DEF Moves, Retry

\* A task whose range is written ends as ok.
LEMMA FinishIs ==
    ASSUME TypeOK, TasksOK, NEW t \in DOMAIN tasks, Finish(t)
    PROVE  /\ Moves(t) /\ tasks'[t].at = "ok" /\ Alive(t)
           /\ tasks[t].index \in DOMAIN table /\ Finished(table[tasks[t].index])
           /\ Written' = Written
<1>1. PICK k \in Task : k = tasks[t]
  BY DEF TypeOK
<1>2. Ends(t, "ok") /\ k.at = "body" /\ ~k.killed
  BY <1>1 DEF Finish
<1>3. Moves(t) /\ tasks'[t].at = "ok"
  BY <1>2, EndsIs DEF Moves, TypeOK
<1>4. /\ k.index \in DOMAIN table
      /\ table[k.index].start = k.start /\ table[k.index].end = k.end
  BY <1>1, <1>2 DEF TasksOK, OwnSegment, Alive
<1>5. Counter(t) = table[k.index].downloaded
  BY <1>1, <1>4 DEF Counter, Attached
<1>6. Finished(table[k.index])
  BY <1>1, <1>4, <1>5 DEF Finish, Finished, SegmentLen
<1>7. Written' = Written
  BY WriteIs DEF Finish
<1> QED
  BY <1>1, <1>2, <1>3, <1>4, <1>6, <1>7 DEF Alive

\* A task that has no retries left, sees the token or is aborted ends so.
LEMMA GiveUpIs ==
    ASSUME TypeOK, NEW t \in DOMAIN tasks,
           Exhaust(t) \/ SeeCancel(t) \/ (Die(t) /\ tasks[t].index # Gone)
    PROVE  /\ Moves(t)
           /\ \/ tasks'[t].at = "exhausted"
              \/ tasks'[t].at = "cancelled" /\ cancelled
              \/ tasks'[t].at = "aborted" /\ tasks[t].killed
<1>1. CASE Exhaust(t)
  <2>1. Ends(t, "exhausted")
    BY <1>1 DEF Exhaust
  <2> QED
    BY <2>1, EndsIs DEF Moves, TypeOK
<1>2. CASE SeeCancel(t)
  <2>1. Ends(t, "cancelled") /\ cancelled
    BY <1>2 DEF SeeCancel
  <2> QED
    BY <2>1, EndsIs DEF Moves, TypeOK
<1>3. CASE Die(t) /\ tasks[t].index # Gone
  <2>1. Ends(t, "aborted") /\ tasks[t].killed
    BY <1>3 DEF Die
  <2> QED
    BY <2>1, EndsIs DEF Moves, TypeOK
<1> QED
  BY <1>1, <1>2, <1>3

\* Starting a segment: a free slot, and a segment without a handle.
LEMMA StartIs ==
    ASSUME TypeOK, StartSegment
    PROVE  \E i \in DOMAIN table \ DOMAIN handles, t \in Slot \ DOMAIN tasks :
              /\ ~Finished(table[i]) /\ ~degraded
              /\ DOMAIN tasks' = DOMAIN tasks \cup {t}
              /\ \A u \in DOMAIN tasks : tasks'[u] = tasks[u]
              /\ tasks'[t] \in Task
              /\ tasks'[t].index = i /\ ~tasks'[t].killed /\ tasks'[t].at = "start"
              /\ ~tasks'[t].lost
              /\ tasks'[t].start = table[i].start /\ tasks'[t].end = table[i].end
              /\ DOMAIN handles' = DOMAIN handles \cup {i} /\ handles'[i] = t
              /\ \A j \in DOMAIN handles : handles'[j] = handles[j]
<1>1. Pending \in SUBSET Nat /\ Pending # {} /\ (Slot \ DOMAIN tasks) \in SUBSET Nat
      /\ Slot \ DOMAIN tasks # {}
  BY RangedAssumption DEF StartSegment, Pending, TypeOK, Index
<1>2. PICK i \in Pending : i = Min(Pending)
  BY <1>1, NatMin
<1>3. PICK t \in Slot \ DOMAIN tasks : t = Min(Slot \ DOMAIN tasks)
  BY <1>1, NatMin
<1>4. i \in DOMAIN table \ DOMAIN handles /\ ~Finished(table[i])
  BY DEF Pending
<1>5. PICK k : k = [index |-> i, start |-> table[i].start, end |-> table[i].end,
                    pos |-> 0, killed |-> FALSE, lost |-> FALSE, at |-> "start"]
  OBVIOUS
<1>6. /\ k \in Task /\ k.index = i /\ k.start = table[i].start /\ k.end = table[i].end
      /\ ~k.killed /\ ~k.lost /\ k.at = "start"
  <2>1. i \in Index /\ table[i].start \in Unit /\ table[i].end \in Unit
    BY <1>4 DEF TypeOK, Segment
  <2> QED
    BY <1>5, <2>1 DEF Task
<1>7. tasks' = With(tasks, t, k) /\ handles' = With(handles, i, t) /\ ~degraded
  BY <1>2, <1>3, <1>5 DEF StartSegment
<1>8. /\ DOMAIN tasks' = DOMAIN tasks \cup {t} /\ tasks'[t] = k
      /\ \A u \in DOMAIN tasks : tasks'[u] = tasks[u]
  BY <1>3, <1>7 DEF With
<1>9. /\ DOMAIN handles' = DOMAIN handles \cup {i} /\ handles'[i] = t
      /\ \A j \in DOMAIN handles : handles'[j] = handles[j]
  BY <1>4, <1>7 DEF With
<1> QED
  BY <1>4, <1>6, <1>7, <1>8, <1>9

\* The running tasks after the start of one more.
LEMMA StartTasks ==
    ASSUME TypeOK, StartSegment
    PROVE  TasksTyped'
<1>1. PICK t \in Slot \ DOMAIN tasks :
         /\ DOMAIN tasks' = DOMAIN tasks \cup {t}
         /\ \A u \in DOMAIN tasks : tasks'[u] = tasks[u]
         /\ tasks'[t] \in Task
  BY StartIs
<1>2. Live' \subseteq Live \cup {t}
  BY <1>1 DEF Live
<1>3. /\ Cardinality(Live) < Permits /\ Permits \in Nat
      /\ Live \in SUBSET Slot /\ IsFiniteSet(Slot)
  BY RangedAssumption DEF StartSegment, PermitLeft, TypeOK, Live
<1>4. IsFiniteSet(Live) /\ Cardinality(Live) \in Nat
  BY <1>3, FS_Subset, FS_CardinalityType
<1>5. /\ IsFiniteSet(Live \cup {t}) /\ Cardinality(Live \cup {t}) <= Cardinality(Live) + 1
      /\ Cardinality(Live \cup {t}) \in Nat
  <2>1. PICK live : live = Live
    OBVIOUS
  <2>2. /\ IsFiniteSet(live \cup {t})
        /\ Cardinality(live \cup {t}) = IF t \in live THEN Cardinality(live)
                                        ELSE Cardinality(live) + 1
    BY <1>4, <2>1, FS_AddElement
  <2>3. Cardinality(live) \in Nat
    BY <1>4, <2>1
  <2>4. Cardinality(live \cup {t}) \in Nat /\ Cardinality(live \cup {t}) <= Cardinality(live) + 1
    BY <2>2, <2>3
  <2> QED
    BY <2>1, <2>2, <2>4
<1>6. PICK more : more = Live'
  OBVIOUS
<1>7. /\ Cardinality(more) <= Cardinality(Live \cup {t})
      /\ Cardinality(more) \in Nat
  <2>1. more \in SUBSET (Live \cup {t})
    BY <1>2, <1>6
  <2> QED
    BY <1>5, <2>1, FS_Subset, FS_CardinalityType
<1>8. Cardinality(Live') <= Permits
  BY <1>3, <1>4, <1>5, <1>6, <1>7
<1> QED
  BY <1>1, <1>8 DEF TasksTyped, TypeOK

\* Joining a task: its handle, or whichever its index has by now, goes.
LEMMA JoinIs ==
    ASSUME TypeOK, TasksOK, JoinArm
    PROVE  \E t \in DOMAIN tasks :
              /\ tasks[t].at \notin {"start", "body"} /\ tasks[t].index # Gone
              /\ tasks[t].index \in DOMAIN table /\ ~cancelled
              /\ DOMAIN tasks' = DOMAIN tasks \ {t}
              /\ \A u \in DOMAIN tasks \ {t} : tasks'[u] = tasks[u]
              /\ \/ tasks[t].at = "aborted" /\ UNCHANGED <<handles, degraded>>
                 \/ /\ tasks[t].at # "aborted"
                    /\ DOMAIN handles' = DOMAIN handles \ {tasks[t].index}
                    /\ \A j \in DOMAIN handles \ {tasks[t].index} : handles'[j] = handles[j]
                    /\ degraded' = (degraded \/ tasks[t].at = "exhausted")
<1>1. PICK t \in Joinable :
         /\ tasks' = Without(tasks, t)
         /\ IF tasks[t].at = "aborted"
              THEN UNCHANGED <<handles, degraded>>
              ELSE /\ handles' = Without(handles, tasks[t].index)
                   /\ degraded' = (degraded \/ tasks[t].at = "exhausted")
  BY DEF JoinArm
<1>2. /\ t \in DOMAIN tasks /\ tasks[t].at \notin {"start", "body"}
      /\ tasks[t].index # Gone
  BY DEF Joinable, Live
<1>3. tasks[t].index \in DOMAIN table
  BY <1>2 DEF TasksOK, OwnSegment
<1>4. /\ DOMAIN tasks' = DOMAIN tasks \ {t}
      /\ \A u \in DOMAIN tasks \ {t} : tasks'[u] = tasks[u]
  BY <1>1 DEF Without, Restrict
<1>5. CASE tasks[t].at = "aborted"
  BY <1>1, <1>2, <1>3, <1>4, <1>5 DEF JoinArm
<1>6. CASE tasks[t].at # "aborted"
  <2>1. handles' = Without(handles, tasks[t].index)
    BY <1>1, <1>6
  <2>2. /\ DOMAIN handles' = DOMAIN handles \ {tasks[t].index}
        /\ \A j \in DOMAIN handles \ {tasks[t].index} : handles'[j] = handles[j]
    BY <2>1 DEF Without, Restrict
  <2>3. degraded' = (degraded \/ tasks[t].at = "exhausted")
    BY <1>1, <1>6
  <2> QED
    BY <1>2, <1>3, <1>4, <1>6, <2>2, <2>3 DEF JoinArm
<1> QED
  BY <1>5, <1>6

\* A split: the task of the segment is aborted if it still runs, and its
\* handle goes.
LEMMA TrySplitIs ==
    ASSUME TypeOK, HandlesAreJoined, TrySplit
    PROVE  \/ UNCHANGED <<tasks, handles, table, next>>
           \/ \E i \in DOMAIN handles, t \in DOMAIN tasks :
                 /\ ~degraded /\ handles[i] = t /\ tasks[t].index = i
                 /\ i \in DOMAIN table /\ Remaining(table[i]) >= MinSplit
                 /\ DOMAIN tasks' = DOMAIN tasks
                 /\ \A u \in DOMAIN tasks \ {t} : tasks'[u] = tasks[u]
                 /\ tasks'[t] \in Task
                 /\ tasks'[t].index = i /\ tasks'[t].at = tasks[t].at
                 /\ tasks'[t].pos = tasks[t].pos
                 /\ tasks'[t].start = tasks[t].start /\ tasks'[t].end = tasks[t].end
                 /\ tasks'[t].killed <=> tasks[t].at \in {"start", "body"}
                 /\ tasks'[t].lost = tasks[t].lost
                 /\ DOMAIN handles' = DOMAIN handles \ {i}
                 /\ \A j \in DOMAIN handles \ {i} : handles'[j] = handles[j]
                 /\ table' = SplitTable(i) /\ next' = next + 1
<1>1. CASE UNCHANGED <<tasks, handles, table, next>>
  BY <1>1
<1>2. CASE ~ UNCHANGED <<tasks, handles, table, next>>
  <2>1. PICK i \in Target :
           /\ CanSplit
           /\ tasks' = [tasks EXCEPT ![handles[i]].killed = handles[i] \in Live]
           /\ handles' = Without(handles, i)
           /\ table' = SplitTable(i)
           /\ next' = next + 1
    BY <1>2 DEF TrySplit
  <2>2. i \in DOMAIN handles /\ i \in DOMAIN table /\ Remaining(table[i]) >= MinSplit
    BY DEF Target, TypeOK
  <2>3. PICK t \in DOMAIN tasks : t = handles[i]
    BY <2>2 DEF TypeOK
  <2>4. tasks[t].index = i
    BY <2>2, <2>3 DEF HandlesAreJoined
  <2>5. PICK k \in Task : k = tasks[t]
    BY DEF TypeOK
  <2>6. PICK dead \in BOOLEAN : dead <=> t \in Live
    OBVIOUS
  <2>7. PICK l : l = [k EXCEPT !.killed = dead]
    OBVIOUS
  <2>8. /\ l \in Task /\ l.index = k.index /\ l.at = k.at /\ l.pos = k.pos
        /\ l.start = k.start /\ l.end = k.end /\ l.killed = dead /\ l.lost = k.lost
    BY <2>7 DEF Task
  <2>9. /\ DOMAIN tasks' = DOMAIN tasks
        /\ \A u \in DOMAIN tasks \ {t} : tasks'[u] = tasks[u]
    BY <2>1, <2>3
  <2>10. tasks'[t] = l
    <3>1. (t \in Live) = dead
      BY <2>6
    <3>2. tasks' = [tasks EXCEPT ![t].killed = t \in Live]
      BY <2>1, <2>3
    <3> QED
      BY <2>5, <2>7, <3>1, <3>2
  <2>11. tasks'[t].killed <=> tasks[t].at \in {"start", "body"}
    BY <2>6, <2>8, <2>10 DEF Live
  <2>12. /\ DOMAIN handles' = DOMAIN handles \ {i}
         /\ \A j \in DOMAIN handles \ {i} : handles'[j] = handles[j]
    BY <2>1 DEF Without, Restrict
  <2>13. ~degraded
    BY <2>1 DEF CanSplit
  <2> QED
    BY <2>1, <2>2, <2>3, <2>4, <2>5, <2>8, <2>9, <2>10, <2>11, <2>12, <2>13
<1> QED
  BY <1>1, <1>2

\* The start of a run.
LEMMA OpenIs ==
    ASSUME TypeOK, Open
    PROVE  /\ TableTyped(table') /\ Tiles(table')
           /\ next' \in Nat /\ \A i \in DOMAIN table' : i < next'
           /\ \/ /\ table' = Resumable(UNION meta) /\ exists /\ UNION meta \in SUBSET Block
                 /\ UNCHANGED <<files, tasks>>
              \/ /\ Counted(table') = {} /\ sound' = sound /\ UNCHANGED <<files, tasks>>
              \/ /\ Counted(table') = {} /\ sound' = sound
                 /\ Unlink /\ meta' = {{}} /\ tasks' = Unlinked(tasks)
<1>1. next' = Pieces
  BY DEF Open
<1>2. UNION meta \in SUBSET Block
  BY DEF TypeOK
<1>3. CASE table' = BuildSegments
  <2>1. Counted(table') = {}
    BY <1>3, BuildIs
  <2>2. TableTyped(table') /\ Tiles(table') /\ next' \in Nat
        /\ \A i \in DOMAIN table' : i < next'
    BY <1>1, <1>3, BuildIs
  <2>3. \/ sound' = (sound /\ Counted(table') \subseteq Written) /\ UNCHANGED <<files, tasks>>
        \/ sound' = sound /\ Unlink /\ meta' = {{}} /\ tasks' = Unlinked(tasks)
    BY DEF Open
  <2>4. (sound' = (sound /\ Counted(table') \subseteq Written)) => sound' = sound
    BY <2>1 DEF TypeOK
  <2> QED
    BY <2>1, <2>2, <2>3, <2>4
<1>4. CASE table' # BuildSegments
  <2>1. table' = Resumable(UNION meta) /\ exists /\ UNCHANGED <<files, tasks>>
    BY <1>4 DEF Open
  <2>2. TableTyped(table') /\ Tiles(table') /\ \A i \in DOMAIN table' : i < Pieces
    BY <1>2, <2>1, ResumableIs
  <2> QED
    BY <1>1, <1>2, <2>1, <2>2, BuildIs
<1> QED
  BY <1>3, <1>4

\* The end of a run.
Ending == CancelArm \/ Complete \/ Streamed

\* The three ends of a run leave by the same assignments.
LEMMA EndingIs ==
    ASSUME TypeOK, Ending
    PROVE  /\ pc' = "ended" /\ table' = <<>> /\ handles' = <<>> /\ next' = 0
           /\ degraded' = FALSE /\ tasks' = Abandoned(tasks)
           /\ UNCHANGED <<cancelled, history, exists, disk, behind>>
           /\ result' \in {"ok", "cancelled", "incomplete", "degraded"}
           /\ meta' \in {meta, {}, {RefreshBitmap(table)}}
BY DEF Ending, CancelArm, Complete, Streamed, End, files

\* Every step keeps the types of the control, ...
LEMMA ControlTypedStep ==
    ASSUME TypeOK, [Next]_vars
    PROVE  ControlTyped'
<1> USE TypeParts DEF ControlTyped, history, loop
<1>1. CASE Open
  <2>1. runs' \in 0..MaxRuns
    BY <1>1, RangedAssumption DEF Open
  <2>2. sound' \in BOOLEAN
    BY <1>1 DEF Open
  <2>3. pc' = "launch" /\ result' = "none" /\ cancelled' = FALSE /\ degraded' = FALSE
    BY <1>1 DEF Open
  <2>4. crashes' = crashes /\ dropped' = dropped
    BY <1>1 DEF Open
  <2> QED
    BY <2>1, <2>2, <2>3, <2>4
<1>2. CASE StartSegment
  BY <1>2 DEF StartSegment
<1>3. CASE Launched
  <2>1. degraded' \in BOOLEAN
    BY <1>3 DEF Launched
  <2> QED
    BY <1>3, <2>1 DEF Launched
<1>4. CASE Ending
  BY <1>4, EndingIs
<1>5. CASE JoinArm
  <2>1. degraded' \in BOOLEAN
    BY <1>5 DEF JoinArm
  <2> QED
    BY <1>5, <2>1 DEF JoinArm
<1>6. CASE SampleArm
  BY <1>6 DEF SampleArm
<1>7. CASE TrySplit
  BY <1>7 DEF TrySplit
<1>8. CASE Fallback
  BY <1>8 DEF Fallback
<1>9. CASE TaskStep
  BY <1>9 DEF TaskStep, TaskKept, Request, Chunk, Retry, Finish, Exhaust, SeeCancel, Die
<1>10. CASE Cancel
  BY <1>10 DEF Cancel
<1>11. CASE DropPart
  <2>1. dropped' \in BOOLEAN
    BY <1>11 DEF DropPart
  <2> QED
    BY <1>11, <2>1 DEF DropPart
<1>12. CASE Crash
  BY <1>12 DEF Crash
<1>13. CASE UNCHANGED vars
  BY <1>13 DEF vars
<1> QED
  BY <1>1, <1>2, <1>3, <1>4, <1>5, <1>6, <1>7, <1>8, <1>9, <1>10, <1>11, <1>12,
     <1>13 DEF Next, Loop, Ending

\* An empty table, and its empty handles.
LEMMA EmptyTyped == TableTyped(<<>>) /\ DOMAIN <<>> = {} /\ Counted(<<>>) = {}
<1>1. DOMAIN <<>> = {}
  OBVIOUS
<1> QED
  BY <1>1 DEF TableTyped, Counted

\* ... of the table and the handles, ...
LEMMA LoopTypedStep ==
    ASSUME TypeOK, Control, TasksOK, HandlesAreJoined, [Next]_vars
    PROVE  LoopTyped'
<1> USE TypeParts DEF LoopTyped, loop
<1>1. CASE Open
  BY <1>1, OpenIs, EmptyTyped DEF Open
<1>2. CASE StartSegment
  <2>1. UNCHANGED <<table, next>>
    BY <1>2 DEF StartSegment
  <2> QED
    BY <1>2, <2>1, StartIs
<1>3. CASE Launched
  BY <1>3 DEF Launched
<1>4. CASE Ending
  BY <1>4, EndingIs, EmptyTyped
<1>5. CASE JoinArm
  <2>1. UNCHANGED <<table, next>>
    BY <1>5 DEF JoinArm
  <2>2. PICK t \in DOMAIN tasks :
              /\ tasks[t].at \notin {"start", "body"} /\ tasks[t].index # Gone
              /\ DOMAIN tasks' = DOMAIN tasks \ {t}
              /\ \/ tasks[t].at = "aborted" /\ UNCHANGED handles
                 \/ /\ tasks[t].at # "aborted"
                    /\ DOMAIN handles' = DOMAIN handles \ {tasks[t].index}
                    /\ \A j \in DOMAIN handles \ {tasks[t].index} : handles'[j] = handles[j]
    BY <1>5, JoinIs
  <2>3. \A j \in DOMAIN handles : handles[j] = t => tasks[t].index = j /\ tasks[t].at # "aborted"
    BY DEF HandlesAreJoined, TasksOK, Outcome
  <2> QED
    BY <2>1, <2>2, <2>3
<1>6. CASE SampleArm
  BY <1>6 DEF SampleArm
<1>7. CASE TrySplit
  <2>1. CASE UNCHANGED <<tasks, handles, table, next>>
    BY <2>1
  <2>2. CASE ~ UNCHANGED <<tasks, handles, table, next>>
    <3>1. PICK i \in DOMAIN handles :
             /\ i \in DOMAIN table /\ Remaining(table[i]) >= MinSplit
             /\ DOMAIN tasks' = DOMAIN tasks
             /\ DOMAIN handles' = DOMAIN handles \ {i}
             /\ \A j \in DOMAIN handles \ {i} : handles'[j] = handles[j]
             /\ table' = SplitTable(i) /\ next' = next + 1
      BY <1>7, <2>2, TrySplitIs
    <3>2. TableTyped(SplitTable(i)) /\ DOMAIN SplitTable(i) = DOMAIN table \cup {next}
      BY <3>1, SplitIs DEF Control
    <3> QED
      BY <3>1, <3>2
  <2> QED
    BY <2>1, <2>2
<1>8. CASE Fallback
  BY <1>8, UnlinkedIs DEF Fallback, TasksTyped
<1>9. ASSUME NEW t \in DOMAIN tasks, Request(t) \/ Retry(t) \/ Finish(t)
              \/ Exhaust(t) \/ SeeCancel(t) \/ (Die(t) /\ tasks[t].index # Gone)
      PROVE  LoopTyped'
  <2>1. DOMAIN tasks' = DOMAIN tasks
    BY <1>9, RequestIs, RetryIs, FinishIs, GiveUpIs DEF Moves
  <2>2. UNCHANGED <<table, handles, next>>
    BY <1>9 DEF TaskKept, Request, Retry, Finish, Exhaust, SeeCancel, Die
  <2> QED
    BY <2>1, <2>2
<1>10. ASSUME NEW t \in DOMAIN tasks, Chunk(t) PROVE LoopTyped'
  <2>1. DOMAIN tasks' = DOMAIN tasks /\ TableTyped(table') /\ DOMAIN table' = DOMAIN table
    BY <1>10, ChunkIs, ChunkCounts
  <2>2. UNCHANGED <<handles, next>>
    BY <1>10 DEF TaskKept, Chunk
  <2> QED
    BY <2>1, <2>2
<1>11. ASSUME NEW t \in DOMAIN tasks, Die(t), tasks[t].index = Gone PROVE LoopTyped'
  <2>1. DOMAIN tasks' = DOMAIN tasks \ {t} /\ UNCHANGED <<table, handles, next>>
    BY <1>11 DEF Die, TaskKept, Without, Restrict
  <2>2. \A i \in DOMAIN handles : handles[i] # t
    BY <1>11, RangedAssumption DEF HandlesAreJoined, TableTyped, Index
  <2> QED
    BY <2>1, <2>2
<1>12. CASE Cancel
  BY <1>12 DEF Cancel
<1>13. CASE DropPart
  BY <1>13, UnlinkedIs DEF DropPart, TasksTyped
<1>14. CASE Crash
  BY <1>14, EmptyTyped DEF Crash
<1>15. CASE UNCHANGED vars
  BY <1>15 DEF vars
<1> QED
  BY <1>1, <1>2, <1>3, <1>4, <1>5, <1>6, <1>7, <1>8, <1>9, <1>10, <1>11, <1>12,
     <1>13, <1>14, <1>15 DEF Next, Loop, TaskStep, Ending

\* ... of the tasks, ...
LEMMA TasksTypedStep ==
    ASSUME TypeOK, Control, TasksOK, HandlesAreJoined, [Next]_vars
    PROVE  TasksTyped'
<1> USE DEF TasksTyped
<1>1. TasksTyped
  BY TypeParts
<1>2. ASSUME NEW ts, ts = tasks, tasks' = Unlinked(ts) PROVE TasksTyped'
  <2>1. /\ DOMAIN tasks' = DOMAIN tasks
        /\ \A t \in DOMAIN tasks' :
              /\ tasks'[t] \in Task
              /\ tasks'[t].at \in {"start", "body"} => tasks[t].at \in {"start", "body"}
    BY <1>1, <1>2, UnlinkedIs
  <2> QED
    BY <2>1, SameTasks
<1>3. ASSUME UNCHANGED tasks PROVE TasksTyped'
  BY <1>1, <1>3 DEF Live
<1>4. CASE Open
  BY <1>2, <1>3, <1>4, OpenIs
<1>5. CASE StartSegment
  BY <1>5, StartTasks
<1>6. CASE Launched \/ SampleArm \/ Cancel
  BY <1>3, <1>6 DEF Launched, SampleArm, Cancel
<1>7. CASE Ending
  <2>1. PICK ts : ts = tasks /\ tasks' = Abandoned(ts)
    BY <1>7, EndingIs
  <2>2. /\ DOMAIN tasks' \subseteq DOMAIN tasks
        /\ \A t \in DOMAIN tasks' :
              /\ tasks'[t] \in Task
              /\ tasks'[t].at \in {"start", "body"} => tasks[t].at \in {"start", "body"}
    BY <1>1, <2>1, AbandonedIs
  <2> QED
    BY <2>2, SameTasks
<1>8. CASE JoinArm
  <2>1. /\ DOMAIN tasks' \subseteq DOMAIN tasks
        /\ \A t \in DOMAIN tasks' : tasks'[t] = tasks[t]
    BY <1>8, JoinIs
  <2> QED
    BY <1>1, <2>1, SameTasks
<1>9. CASE TrySplit
  <2>1. CASE UNCHANGED <<tasks, handles, table, next>>
    BY <1>3, <2>1
  <2>2. CASE ~ UNCHANGED <<tasks, handles, table, next>>
    <3>1. PICK t \in DOMAIN tasks :
                 /\ DOMAIN tasks' = DOMAIN tasks
                 /\ \A u \in DOMAIN tasks \ {t} : tasks'[u] = tasks[u]
                 /\ tasks'[t] \in Task /\ tasks'[t].at = tasks[t].at
      BY <1>9, <2>2, TrySplitIs
    <3> QED
      BY <1>1, <3>1, SameTasks
  <2> QED
    BY <2>1, <2>2
<1>10. CASE Fallback
  BY <1>2, <1>10 DEF Fallback
<1>11. ASSUME NEW t \in DOMAIN tasks, Moves(t), tasks[t].at \in {"start", "body"}
       PROVE  TasksTyped'
  BY <1>1, <1>11, SameTasks DEF Moves
<1>12. ASSUME NEW t \in DOMAIN tasks, Request(t) \/ Retry(t) \/ Finish(t)
              \/ Exhaust(t) \/ SeeCancel(t) \/ (Die(t) /\ tasks[t].index # Gone)
       PROVE  TasksTyped'
  <2>1. Moves(t)
    BY <1>12, RequestIs, RetryIs, FinishIs, GiveUpIs
  <2>2. tasks[t].at \in {"start", "body"}
    BY <1>12 DEF Request, Retry, Finish, Exhaust, SeeCancel, Die, Live
  <2> QED
    BY <1>11, <2>1, <2>2
<1>13. ASSUME NEW t \in DOMAIN tasks, Chunk(t) PROVE TasksTyped'
  <2>1. Moves(t) /\ tasks[t].at \in {"start", "body"}
    BY <1>13, ChunkIs DEF Moves, Chunk
  <2> QED
    BY <1>11, <2>1
<1>14. ASSUME NEW t \in DOMAIN tasks, Die(t), tasks[t].index = Gone PROVE TasksTyped'
  <2>1. /\ DOMAIN tasks' \subseteq DOMAIN tasks
        /\ \A u \in DOMAIN tasks' : tasks'[u] = tasks[u]
    BY <1>14 DEF Die, Without, Restrict
  <2> QED
    BY <1>1, <2>1, SameTasks
<1>15. CASE DropPart
  BY <1>2, <1>15 DEF DropPart
<1>16. CASE Crash
  <2>1. DOMAIN tasks' = {}
    BY <1>16, EmptyTyped DEF Crash
  <2> QED
    BY <2>1, SameTasks
<1>17. CASE UNCHANGED vars
  BY <1>3, <1>17 DEF vars
<1> QED
  BY <1>4, <1>5, <1>6, <1>7, <1>8, <1>9, <1>10, <1>12, <1>13, <1>14, <1>15, <1>16,
     <1>17 DEF Next, Loop, TaskStep, Ending

\* ... and of what is on disk.
LEMMA FilesTypedStep ==
    ASSUME TypeOK, TasksOK, [Next]_vars
    PROVE  FilesTyped'
<1> USE DEF FilesTyped
<1>1. FilesTyped
  BY TypeParts
<1>2. ASSUME UNCHANGED files PROVE FilesTyped'
  BY <1>1, <1>2 DEF files
<1>3. ASSUME Unlink, meta' \in SUBSET SUBSET Block PROVE FilesTyped'
  BY <1>3 DEF Unlink
<1>4. RefreshBitmap(table) \subseteq Block
  BY DEF RefreshBitmap
<1>5. CASE Open
  <2>1. CASE UNCHANGED files
    BY <1>2, <2>1
  <2>2. CASE Unlink /\ meta' = {{}}
    BY <1>3, <2>2
  <2> QED
    BY <1>5, <2>1, <2>2 DEF Open
<1>6. CASE StartSegment \/ Launched \/ JoinArm \/ TrySplit \/ Cancel
  BY <1>2, <1>6 DEF StartSegment, Launched, JoinArm, TrySplit, Cancel
<1>7. CASE Ending
  BY <1>1, <1>4, <1>7, EndingIs
<1>8. CASE SampleArm
  BY <1>1, <1>4, <1>8 DEF SampleArm
<1>9. CASE Fallback
  BY <1>3, <1>9 DEF Fallback
<1>10. ASSUME NEW t \in DOMAIN tasks, Request(t) PROVE FilesTyped'
  <2>1. exists' = exists \/ exists' = TRUE
    BY <1>10, RequestIs
  <2>2. exists' \in BOOLEAN
    BY <1>1, <2>1, Zenon
  <2> QED
    BY <1>1, <1>10, <2>2 DEF Request, TaskKept
<1>11. ASSUME NEW t \in DOMAIN tasks, Chunk(t) PROVE FilesTyped'
  <2>1. tasks[t].pos \in Unit
    BY <1>11, ChunkRange
  <2>2. Synced(t) \subseteq behind /\ Handed(t) \subseteq Unit
    BY <2>1 DEF Synced, Handed
  <2> QED
    BY <1>1, <1>11, <2>2 DEF Chunk, TaskKept
<1>12. ASSUME NEW t \in DOMAIN tasks, Finish(t) PROVE FilesTyped'
  <2>1. Synced(t) \subseteq behind
    BY DEF Synced
  <2> QED
    BY <1>1, <1>12, <2>1 DEF Finish, TaskKept
<1>13. ASSUME NEW t \in DOMAIN tasks, Retry(t) \/ Exhaust(t) \/ SeeCancel(t) \/ Die(t)
       PROVE  FilesTyped'
  <2>1. exists' \in BOOLEAN
    <3>1. (exists \/ tasks[t].at = "start") \in BOOLEAN
      OBVIOUS
    <3> QED
      BY <1>1, <1>13, <3>1, Zenon DEF Retry, Exhaust, SeeCancel, Die
  <2>2. UNCHANGED <<disk, behind, meta>>
    BY <1>13 DEF Retry, Exhaust, SeeCancel, Die, TaskKept
  <2> QED
    BY <1>1, <2>1, <2>2
<1>14. CASE DropPart
  BY <1>1, <1>3, <1>14 DEF DropPart
<1>15. CASE Crash
  <2>1. disk' \subseteq disk \cup behind /\ behind' = {} /\ UNCHANGED <<exists, meta>>
    BY <1>15 DEF Crash
  <2> QED
    BY <1>1, <2>1
<1>16. CASE UNCHANGED vars
  BY <1>2, <1>16 DEF vars
<1> QED
  BY <1>5, <1>6, <1>7, <1>8, <1>9, <1>10, <1>11, <1>12, <1>13, <1>14, <1>15, <1>16
     DEF Next, Loop, TaskStep, Ending

\* Every step keeps the types.
LEMMA TypeStep ==
    ASSUME TypeOK, Control, TasksOK, HandlesAreJoined, [Next]_vars
    PROVE  TypeOK'
BY ControlTypedStep, LoopTypedStep, TasksTypedStep, FilesTypedStep, TypeParts
   DEF TypeOK, ControlTyped, LoopTyped, TableTyped, TasksTyped, FilesTyped

(***************************************************************************)
(* The table.                                                              *)
(***************************************************************************)

\* Every step keeps Control.
LEMMA ControlStep ==
    ASSUME TypeOK, Control, TasksOK, HandlesAreJoined, [Next]_vars
    PROVE  Control'
<1> USE DEF Control, Held, loop
<1>1. CASE Open
  BY <1>1, OpenIs DEF Open
<1>2. CASE StartSegment
  BY <1>2 DEF StartSegment
<1>3. CASE Launched
  <2>1. UNCHANGED <<table, next, result>> /\ result = "none"
    BY <1>3 DEF Launched
  <2>2. pc' \in {"select", "fallback", "complete"}
    BY <1>3 DEF Launched
  <2>3. pc' = "complete" => \A i \in DOMAIN table : Finished(table[i])
    BY <1>3 DEF Launched
  <2> QED
    BY <2>1, <2>2, <2>3
<1>4. CASE Ending
  BY <1>4, EndingIs, EmptyTyped
<1>5. CASE JoinArm
  BY <1>5 DEF JoinArm
<1>6. CASE SampleArm
  BY <1>6 DEF SampleArm
<1>7. CASE TrySplit
  <2>1. pc' = "launch" /\ UNCHANGED result /\ result = "none"
    BY <1>7 DEF TrySplit
  <2>2. CASE UNCHANGED <<tasks, handles, table, next>>
    BY <2>1, <2>2
  <2>3. CASE ~ UNCHANGED <<tasks, handles, table, next>>
    <3>1. PICK i \in DOMAIN table :
             /\ Remaining(table[i]) >= MinSplit
             /\ table' = SplitTable(i) /\ next' = next + 1
      BY <1>7, <2>3, TrySplitIs
    <3>2. DOMAIN table' = DOMAIN table \cup {next}
      BY <3>1, TypeParts, SplitIs DEF LoopTyped
    <3>3. next \in Nat /\ DOMAIN table \subseteq Nat
      BY DEF TypeOK, Index
    <3> QED
      BY <2>1, <3>1, <3>2, <3>3
  <2> QED
    BY <2>2, <2>3
<1>8. CASE Fallback
  BY <1>8 DEF Fallback
<1>9. ASSUME NEW t \in DOMAIN tasks, Chunk(t) PROVE Control'
  <2>1. UNCHANGED <<pc, result, next>>
    BY <1>9 DEF Chunk, TaskKept
  <2>2. DOMAIN table' = DOMAIN table
        /\ \A i \in DOMAIN table : Finished(table[i]) => Finished(table'[i])
    BY <1>9, ChunkCounts
  <2>3. Held => table' = table
    <3>1. Held => ~Attached(t)
      BY EmptyTyped DEF Attached
    <3> QED
      BY <1>9, <3>1, ChunkCounts
  <2> QED
    BY <2>1, <2>2, <2>3
<1>10. ASSUME NEW t \in DOMAIN tasks, Request(t) \/ Retry(t) \/ Finish(t)
              \/ Exhaust(t) \/ SeeCancel(t) \/ Die(t)
       PROVE  Control'
  BY <1>10 DEF Request, Retry, Finish, Exhaust, SeeCancel, Die, TaskKept
<1>11. CASE Cancel
  BY <1>11 DEF Cancel
<1>12. CASE DropPart
  BY <1>12 DEF DropPart
<1>13. CASE Crash
  BY <1>13, EmptyTyped DEF Crash
<1>14. CASE UNCHANGED vars
  BY <1>14 DEF vars
<1> QED
  BY <1>1, <1>2, <1>3, <1>4, <1>5, <1>6, <1>7, <1>8, <1>9, <1>10, <1>11, <1>12,
     <1>13, <1>14 DEF Next, Loop, TaskStep, Ending

\* Cutting, splitting and counting keep the tiling.
LEMMA TilesStep ==
    ASSUME TypeOK, Control, TasksOK, HandlesAreJoined, SegmentsTile, [Next]_vars
    PROVE  SegmentsTile'
<1> USE DEF SegmentsTile, Running, loop
<1>1. CASE Open
  BY <1>1, OpenIs
<1>2. CASE StartSegment
  BY <1>2 DEF StartSegment
<1>3. CASE Launched
  <2>1. UNCHANGED table /\ Running
    BY <1>3 DEF Launched
  <2> QED
    BY <2>1
<1>4. CASE Ending
  BY <1>4, EndingIs
<1>5. CASE JoinArm
  BY <1>5 DEF JoinArm
<1>6. CASE SampleArm
  BY <1>6 DEF SampleArm
<1>7. CASE TrySplit
  <2>1. Tiles(table)
    BY <1>7 DEF TrySplit
  <2>2. CASE UNCHANGED <<tasks, handles, table, next>>
    BY <2>1, <2>2
  <2>3. CASE ~ UNCHANGED <<tasks, handles, table, next>>
    <3>1. PICK i \in DOMAIN table :
             Remaining(table[i]) >= MinSplit /\ table' = SplitTable(i)
      BY <1>7, <2>3, TrySplitIs
    <3>2. Tiles(SplitTable(i))
      BY <2>1, <3>1, TypeParts, SplitIs DEF LoopTyped, Control
    <3> QED
      BY <3>1, <3>2
  <2> QED
    BY <2>2, <2>3
<1>8. CASE Fallback
  BY <1>8 DEF Fallback
<1>9. ASSUME NEW t \in DOMAIN tasks, Chunk(t) PROVE SegmentsTile'
  <2>1. DOMAIN table' = DOMAIN table
        /\ \A i \in DOMAIN table : Span(table'[i]) = Span(table[i])
    BY <1>9, ChunkCounts DEF Span
  <2>2. Tiles(table) => Tiles(table')
    BY <2>1, SameSpans
  <2> QED
    BY <1>9, <2>2 DEF Chunk, TaskKept
<1>10. ASSUME NEW t \in DOMAIN tasks, Request(t) \/ Retry(t) \/ Finish(t)
              \/ Exhaust(t) \/ SeeCancel(t) \/ Die(t)
       PROVE  SegmentsTile'
  BY <1>10 DEF Request, Retry, Finish, Exhaust, SeeCancel, Die, TaskKept
<1>11. CASE Cancel
  BY <1>11 DEF Cancel
<1>12. CASE DropPart
  BY <1>12 DEF DropPart
<1>13. CASE Crash
  BY <1>13 DEF Crash
<1>14. CASE UNCHANGED vars
  BY <1>14 DEF vars
<1> QED
  BY <1>1, <1>2, <1>3, <1>4, <1>5, <1>6, <1>7, <1>8, <1>9, <1>10, <1>11, <1>12,
     <1>13, <1>14 DEF Next, Loop, TaskStep, Ending

(***************************************************************************)
(* The tasks.                                                              *)
(***************************************************************************)

\* What the steps keep of the tasks: their segments, where they write, how
\* they ended, that no two run for one index, and the handles.
TasksKept == TasksOK' /\ OneAlive' /\ HandlesAreJoined'

\* A task that moves on within its run.
LEMMA MovesKeep ==
    ASSUME TypeOK, TasksOK, OneAlive, HandlesAreJoined,
           NEW t \in DOMAIN tasks, Moves(t),
           UNCHANGED <<table, handles, degraded, cancelled>>,
           tasks'[t].at \in {"start", "body"} => tasks[t].at \in {"start", "body"},
           Position(t)', Outcome(t)'
    PROVE  TasksKept
<1> USE DEF Moves
<1>1. ASSUME NEW u \in DOMAIN tasks
      PROVE  /\ tasks'[u].index = tasks[u].index /\ tasks'[u].killed = tasks[u].killed
             /\ tasks'[u].start = tasks[u].start /\ tasks'[u].end = tasks[u].end
             /\ Alive(u)' => Alive(u)
  BY DEF Alive
<1>3. ASSUME NEW u \in DOMAIN tasks' PROVE OwnSegment(u)'
  <2>1. OwnSegment(u) /\ u \in DOMAIN tasks
    BY DEF TasksOK
  <2> QED
    BY <1>1, <2>1 DEF OwnSegment
<1>4. ASSUME NEW u \in DOMAIN tasks' PROVE Position(u)' /\ Outcome(u)'
  <2>1. CASE u = t
    BY <2>1
  <2>2. CASE u # t
    <3>1. Position(u) /\ Outcome(u) /\ tasks'[u] = tasks[u]
      BY <2>2 DEF TasksOK
    <3> QED
      BY <3>1 DEF Position, Outcome, Alive
  <2> QED
    BY <2>1, <2>2
<1>5. TasksOK'
  BY <1>3, <1>4 DEF TasksOK
<1>6. OneAlive'
  BY <1>1 DEF OneAlive
<1>7. HandlesAreJoined'
  BY <1>1 DEF HandlesAreJoined
<1> QED
  BY <1>5, <1>6, <1>7 DEF TasksKept

\* Request, Retry, Finish and the ways to give up.
LEMMA MoveStep ==
    ASSUME TypeOK, TasksOK, OneAlive, HandlesAreJoined,
           NEW t \in DOMAIN tasks,
           \/ Request(t) \/ Retry(t) \/ Finish(t) \/ Exhaust(t) \/ SeeCancel(t)
           \/ (Die(t) /\ tasks[t].index # Gone)
    PROVE  TasksKept
<1>1. UNCHANGED <<table, handles, degraded, cancelled>>
  BY DEF TaskKept, Request, Retry, Finish, Exhaust, SeeCancel, Die
<1>2. OwnSegment(t) /\ Position(t) /\ Outcome(t)
  BY DEF TasksOK
<1>3. CASE Request(t)
  <2>1. /\ Moves(t) /\ ~tasks[t].killed /\ tasks[t].at = "start"
        /\ tasks[t].index \in DOMAIN table
    BY <1>3, RequestIs
  <2>2. Alive(t)
    BY <2>1 DEF Alive
  <2>3. CASE tasks'[t].at = "ok" /\ Finished(table[tasks[t].index])
    <3>1. Position(t)'
      BY <2>3 DEF Position
    <3>2. Outcome(t)'
      BY <1>1, <1>2, <2>1, <2>2, <2>3 DEF Outcome, Moves, Alive
    <3> QED
      BY <1>1, <2>1, <2>3, <3>1, <3>2, MovesKeep
  <2>4. CASE /\ tasks'[t].at = "body"
             /\ tasks'[t].pos = tasks[t].start + table[tasks[t].index].downloaded
             /\ tasks'[t].pos <= tasks[t].end
    <3>1. Position(t)'
      <4>1. /\ table[tasks[t].index].downloaded \in Nat
            /\ tasks[t].start \in Nat /\ tasks[t].end \in Nat
        BY <2>1 DEF TypeOK, Task, Unit, Segment
      <4> QED
        BY <1>1, <2>1, <2>4, <4>1 DEF Position, Moves
    <3>2. Outcome(t)'
      BY <1>1, <1>2, <2>1, <2>2, <2>4 DEF Outcome, Moves, Alive
    <3> QED
      BY <1>1, <2>1, <2>4, <3>1, <3>2, MovesKeep
  <2> QED
    BY <1>3, <2>3, <2>4, RequestIs
<1>4. CASE Retry(t)
  <2>1. Moves(t) /\ tasks'[t].at = "start" /\ tasks[t].at = "body"
    BY <1>4, RetryIs
  <2>2. Position(t)'
    BY <2>1 DEF Position
  <2>3. Outcome(t)'
    BY <1>1, <1>2, <2>1 DEF Outcome, Moves, Alive
  <2> QED
    BY <1>1, <2>1, <2>2, <2>3, MovesKeep
<1>5. CASE Finish(t)
  <2>1. /\ Moves(t) /\ tasks'[t].at = "ok" /\ Alive(t)
        /\ tasks[t].index \in DOMAIN table /\ Finished(table[tasks[t].index])
    BY <1>5, FinishIs
  <2>2. Position(t)'
    BY <2>1 DEF Position
  <2>3. Outcome(t)'
    BY <1>1, <1>2, <2>1 DEF Outcome, Moves, Alive
  <2> QED
    BY <1>1, <2>1, <2>2, <2>3, MovesKeep
<1>6. CASE Exhaust(t) \/ SeeCancel(t) \/ (Die(t) /\ tasks[t].index # Gone)
  <2>1. /\ Moves(t)
        /\ \/ tasks'[t].at = "exhausted"
           \/ tasks'[t].at = "cancelled" /\ cancelled
           \/ tasks'[t].at = "aborted" /\ tasks[t].killed
    BY <1>6, GiveUpIs
  <2>2. Position(t)'
    BY <2>1 DEF Position
  <2>3. Outcome(t)'
    BY <1>1, <1>2, <2>1 DEF Outcome, Moves, Alive
  <2> QED
    BY <1>1, <2>1, <2>2, <2>3, MovesKeep
<1> QED
  BY <1>3, <1>4, <1>5, <1>6

\* A chunk moves the counter and the task that is attached to it together.
LEMMA ChunkStep ==
    ASSUME TypeOK, TasksOK, OneAlive, HandlesAreJoined,
           NEW t \in DOMAIN tasks, Chunk(t)
    PROVE  TasksKept
<1>1. UNCHANGED <<handles, degraded, cancelled>> /\ tasks[t].at = "body"
  BY DEF Chunk, TaskKept
<1>2. /\ DOMAIN tasks' = DOMAIN tasks
      /\ \A u \in DOMAIN tasks \ {t} : tasks'[u] = tasks[u]
      /\ tasks'[t] \in Task
      /\ tasks'[t].index = tasks[t].index /\ tasks'[t].killed = tasks[t].killed
      /\ tasks'[t].start = tasks[t].start /\ tasks'[t].end = tasks[t].end
      /\ tasks[t].killed => tasks'[t].at = "aborted"
      /\ ~tasks[t].killed => tasks'[t].at = "body" /\ tasks'[t].pos = tasks[t].pos + 1
  BY ChunkIs
<1>3. /\ DOMAIN table' = DOMAIN table
      /\ \A i \in DOMAIN table :
            /\ table'[i].start = table[i].start /\ table'[i].end = table[i].end
            /\ Finished(table[i]) => Finished(table'[i])
            /\ Attached(t) /\ i = tasks[t].index =>
                  table'[i].downloaded = table[i].downloaded + 1
            /\ ~Attached(t) \/ i # tasks[t].index =>
                  table'[i].downloaded = table[i].downloaded
  <2>1. \A i \in DOMAIN table :
            /\ table'[i].start = table[i].start /\ table'[i].end = table[i].end
            /\ Finished(table[i]) => Finished(table'[i])
            /\ table[i].downloaded \in Nat
            /\ table'[i].downloaded =
                  table[i].downloaded
                     + (IF Attached(t) /\ i = tasks[t].index THEN 1 ELSE 0)
    BY ChunkCounts DEF TypeOK, Segment
  <2> QED
    BY <2>1, ChunkCounts
<1>4. OwnSegment(t) /\ Position(t) /\ Outcome(t)
  BY DEF TasksOK
<1>5. Attached(t) <=> ~tasks[t].killed
  <2>1. Attached(t) => ~tasks[t].killed
    BY ChunkRange
  <2>2. ~tasks[t].killed => Attached(t)
    BY <1>1, <1>4 DEF OwnSegment, Alive, Attached
  <2> QED
    BY <2>1, <2>2
<1>6. ASSUME NEW u \in DOMAIN tasks
      PROVE  /\ tasks'[u].index = tasks[u].index /\ tasks'[u].killed = tasks[u].killed
             /\ tasks'[u].start = tasks[u].start /\ tasks'[u].end = tasks[u].end
             /\ Alive(u)' <=> Alive(u)
  BY <1>1, <1>2 DEF Alive
<1>7. ASSUME NEW u \in DOMAIN tasks' PROVE OwnSegment(u)'
  <2>1. OwnSegment(u) /\ u \in DOMAIN tasks
    BY <1>2 DEF TasksOK
  <2> QED
    BY <1>3, <1>6, <2>1 DEF OwnSegment
<1>8. ASSUME NEW u \in DOMAIN tasks' PROVE Position(u)'
  <2>1. CASE u = t
    <3>1. CASE tasks[t].killed
      BY <1>2, <2>1, <3>1 DEF Position
    <3>2. CASE ~tasks[t].killed
      <4>1. /\ tasks[t].index \in DOMAIN table
            /\ tasks[t].pos = tasks[t].start + table[tasks[t].index].downloaded
            /\ table'[tasks[t].index].downloaded = table[tasks[t].index].downloaded + 1
        BY <1>1, <1>3, <1>4, <1>5, <3>2 DEF Position, Attached
      <4>2. /\ table[tasks[t].index].downloaded \in Nat
            /\ tasks[t].start \in Nat /\ tasks[t].end \in Nat
        BY <4>1 DEF TypeOK, Task, Unit, Segment
      <4>3. tasks[t].pos <= tasks[t].end
        BY <1>5, <3>2, <4>1, <4>2 DEF Chunk, Counter
      <4>4. /\ tasks'[t].pos = tasks[t].pos + 1
            /\ tasks'[t].start = tasks[t].start /\ tasks'[t].end = tasks[t].end
            /\ tasks'[t].index = tasks[t].index
        BY <1>2, <3>2
      <4> QED
        BY <2>1, <4>1, <4>2, <4>3, <4>4 DEF Position
    <3> QED
      BY <3>1, <3>2
  <2>2. CASE u # t
    <3>1. Position(u) /\ OwnSegment(u) /\ u \in DOMAIN tasks /\ tasks'[u] = tasks[u]
      BY <1>2, <2>2 DEF TasksOK
    <3>2. ASSUME tasks[u].at = "body", ~tasks[u].killed
          PROVE  /\ tasks[u].index \in DOMAIN table
                 /\ table'[tasks[u].index].downloaded = table[tasks[u].index].downloaded
      <4>1. Alive(u) /\ tasks[u].index \in DOMAIN table
        BY <3>1, <3>2 DEF Alive, OwnSegment
      <4>2. CASE Attached(t)
        <5>1. Alive(t)
          BY <1>1, <1>5, <4>2 DEF Alive
        <5>2. tasks[u].index # tasks[t].index
          BY <2>2, <3>1, <4>1, <5>1 DEF OneAlive
        <5> QED
          BY <1>3, <4>1, <5>2
      <4>3. CASE ~Attached(t)
        BY <1>3, <4>1, <4>3
      <4> QED
        BY <4>2, <4>3
    <3> QED
      BY <3>1, <3>2 DEF Position
  <2> QED
    BY <2>1, <2>2
<1>9. ASSUME NEW u \in DOMAIN tasks' PROVE Outcome(u)'
  <2>1. Outcome(u) /\ OwnSegment(u) /\ u \in DOMAIN tasks
    BY <1>2 DEF TasksOK
  <2>2. tasks'[u].at = tasks[u].at \/ (u = t /\ tasks[u].killed /\ tasks'[u].at = "aborted")
    BY <1>1, <1>2
  <2> QED
    BY <1>1, <1>3, <1>6, <2>1, <2>2 DEF Outcome, OwnSegment
<1>10. TasksOK'
  BY <1>7, <1>8, <1>9 DEF TasksOK
<1>11. OneAlive'
  BY <1>2, <1>6 DEF OneAlive
<1>12. HandlesAreJoined'
  BY <1>1, <1>2, <1>6 DEF HandlesAreJoined
<1> QED
  BY <1>10, <1>11, <1>12 DEF TasksKept

\* A table of aborted tasks: nothing else is required of them.
LEMMA GoneKeep ==
    ASSUME \A u \in DOMAIN tasks' : /\ tasks'[u].index = Gone /\ tasks'[u].killed
                                    /\ tasks'[u].at \in {"start", "body"},
           \A u \in DOMAIN tasks' : Position(u)',
           DOMAIN handles' = {}
    PROVE  TasksKept
<1>1. ASSUME NEW u \in DOMAIN tasks' PROVE ~Alive(u)'
  BY <1>1 DEF Alive
<1>2. ASSUME NEW u \in DOMAIN tasks' PROVE OwnSegment(u)' /\ Outcome(u)'
  BY <1>1, <1>2 DEF OwnSegment, Outcome
<1>3. TasksOK'
  BY <1>2 DEF TasksOK
<1>4. OneAlive'
  BY <1>1 DEF OneAlive
<1>5. HandlesAreJoined'
  BY DEF HandlesAreJoined
<1> QED
  BY <1>3, <1>4, <1>5 DEF TasksKept

\* The .part goes: what is known of the tasks stays.
LEMMA UnlinkedKeep ==
    ASSUME TypeOK, TasksOK, OneAlive, HandlesAreJoined,
           tasks' = Unlinked(tasks), UNCHANGED <<table, handles, degraded, cancelled>>
    PROVE  TasksKept
<1>1. /\ DOMAIN tasks' = DOMAIN tasks
      /\ \A u \in DOMAIN tasks :
            /\ tasks'[u].index = tasks[u].index
            /\ tasks'[u].start = tasks[u].start
            /\ tasks'[u].end = tasks[u].end
            /\ tasks'[u].pos = tasks[u].pos
            /\ tasks'[u].killed = tasks[u].killed
            /\ tasks'[u].at = tasks[u].at
  BY UnlinkedIs DEF TypeOK
<1>2. ASSUME NEW u \in DOMAIN tasks PROVE Alive(u)' <=> Alive(u)
  BY <1>1, <1>2 DEF Alive
<1>3. ASSUME NEW u \in DOMAIN tasks'
      PROVE  OwnSegment(u)' /\ Position(u)' /\ Outcome(u)'
  <2>1. u \in DOMAIN tasks /\ OwnSegment(u) /\ Position(u) /\ Outcome(u)
    BY <1>1 DEF TasksOK
  <2>2. OwnSegment(u)'
    BY <1>1, <1>2, <2>1 DEF OwnSegment
  <2>3. Position(u)'
    BY <1>1, <2>1 DEF Position
  <2>4. Outcome(u)'
    BY <1>1, <1>2, <2>1 DEF Outcome
  <2> QED
    BY <2>2, <2>3, <2>4
<1>4. TasksOK'
  BY <1>3 DEF TasksOK
<1>5. OneAlive'
  BY <1>1, <1>2 DEF OneAlive
<1>6. HandlesAreJoined'
  BY <1>1 DEF HandlesAreJoined
<1> QED
  BY <1>4, <1>5, <1>6 DEF TasksKept

\* A run that ends or begins finds only tasks of runs that are over.
LEMMA OnlyGone ==
    ASSUME TypeOK, TasksOK, Control, Held, NEW u \in DOMAIN tasks
    PROVE  tasks[u].index = Gone /\ tasks[u].killed
<1>1. OwnSegment(u)
  BY DEF TasksOK
<1>2. DOMAIN table = {}
  BY EmptyTyped DEF Control
<1> QED
  BY <1>1, <1>2 DEF OwnSegment

\* A run begins with no tasks but those an earlier one has left behind.
LEMMA OpenTasks ==
    ASSUME TypeOK, Control, TasksOK, OneAlive, HandlesAreJoined, Open
    PROVE  TasksKept
<1>1. DOMAIN handles' = {} /\ Held
  BY EmptyTyped DEF Open, Held, Control
<1>2. /\ DOMAIN tasks' = DOMAIN tasks
      /\ \A u \in DOMAIN tasks :
            /\ tasks'[u].index = tasks[u].index /\ tasks'[u].killed = tasks[u].killed
            /\ tasks'[u].at = tasks[u].at /\ tasks'[u].pos = tasks[u].pos
            /\ tasks'[u].start = tasks[u].start /\ tasks'[u].end = tasks[u].end
  <2>1. CASE UNCHANGED tasks
    BY <2>1
  <2>2. CASE tasks' = Unlinked(tasks)
    BY <2>2, UnlinkedIs DEF TypeOK
  <2> QED
    BY <2>1, <2>2, OpenIs
<1>3. ASSUME NEW u \in DOMAIN tasks
      PROVE  /\ tasks'[u].index = Gone /\ tasks'[u].killed
             /\ tasks'[u].at = tasks[u].at
             /\ Position(u)'
  <2>1. tasks[u].index = Gone /\ tasks[u].killed /\ Position(u)
    BY <1>1, OnlyGone DEF TasksOK
  <2>2. Position(u)'
    BY <1>2, <2>1 DEF Position
  <2> QED
    BY <1>2, <2>1, <2>2
<1>4. ASSUME NEW u \in DOMAIN tasks' PROVE ~Alive(u)' /\ OwnSegment(u)' /\ Outcome(u)'
  <2>1. u \in DOMAIN tasks /\ tasks[u].killed /\ Outcome(u)
    BY <1>1, <1>2, OnlyGone DEF TasksOK
  <2> QED
    BY <1>3, <2>1 DEF Alive, OwnSegment, Outcome
<1>5. TasksOK'
  BY <1>2, <1>3, <1>4 DEF TasksOK
<1>6. OneAlive'
  BY <1>4 DEF OneAlive
<1>7. HandlesAreJoined'
  BY <1>1 DEF HandlesAreJoined
<1> QED
  BY <1>5, <1>6, <1>7 DEF TasksKept

\* The JoinSet is dropped: what still runs is aborted.
LEMMA EndTasks ==
    ASSUME TypeOK, TasksOK, Ending
    PROVE  TasksKept
<1>1. DOMAIN handles' = {} /\ tasks' = Abandoned(tasks)
  BY EndingIs, EmptyTyped
<1>2. /\ DOMAIN tasks' = {t \in DOMAIN tasks : tasks[t].at \in {"start", "body"}}
      /\ \A u \in DOMAIN tasks' :
            /\ tasks'[u].index = Gone /\ tasks'[u].killed
            /\ tasks'[u].start = tasks[u].start /\ tasks'[u].end = tasks[u].end
            /\ tasks'[u].pos = tasks[u].pos /\ tasks'[u].at = tasks[u].at
  <2>1. \A t \in DOMAIN tasks : tasks[t] \in Task
    BY DEF TypeOK
  <2>2. DOMAIN Abandoned(tasks) = {t \in DOMAIN tasks : tasks[t].at \in {"start", "body"}}
    BY <2>1, AbandonedIs
  <2>3. \A u \in DOMAIN Abandoned(tasks) :
            /\ Abandoned(tasks)[u].index = Gone /\ Abandoned(tasks)[u].killed
            /\ Abandoned(tasks)[u].start = tasks[u].start
            /\ Abandoned(tasks)[u].end = tasks[u].end
            /\ Abandoned(tasks)[u].pos = tasks[u].pos
            /\ Abandoned(tasks)[u].at = tasks[u].at
    BY <2>1, AbandonedIs
  <2> QED
    BY <1>1, <2>2, <2>3
<1>3. ASSUME NEW u \in DOMAIN tasks' PROVE Position(u)'
  <2>1. Position(u)
    BY <1>2 DEF TasksOK
  <2> QED
    BY <1>2, <2>1 DEF Position
<1>4. \A u \in DOMAIN tasks' : tasks'[u].at \in {"start", "body"}
  BY <1>2
<1> QED
  BY <1>1, <1>2, <1>3, <1>4, GoneKeep

\* A segment is started when there is no handle under its index: no task
\* that counts for it is left.
LEMMA StartStep ==
    ASSUME TypeOK, TasksOK, OneAlive, HandlesAreJoined, StartSegment
    PROVE  TasksKept
<1>1. UNCHANGED <<table, degraded, cancelled>>
  BY DEF StartSegment
<1>2. PICK i \in DOMAIN table \ DOMAIN handles, t \in Slot \ DOMAIN tasks :
              /\ ~Finished(table[i]) /\ ~degraded
              /\ DOMAIN tasks' = DOMAIN tasks \cup {t}
              /\ \A u \in DOMAIN tasks : tasks'[u] = tasks[u]
              /\ tasks'[t] \in Task
              /\ tasks'[t].index = i /\ ~tasks'[t].killed /\ tasks'[t].at = "start"
              /\ ~tasks'[t].lost
              /\ tasks'[t].start = table[i].start /\ tasks'[t].end = table[i].end
              /\ DOMAIN handles' = DOMAIN handles \cup {i} /\ handles'[i] = t
              /\ \A j \in DOMAIN handles : handles'[j] = handles[j]
  BY StartIs
<1>3. i \in Nat /\ table[i].end \in Nat /\ i # Gone
  BY RangedAssumption DEF TypeOK, Segment, Unit, Index
<1>4. ASSUME NEW u \in DOMAIN tasks
      PROVE  /\ OwnSegment(u)' /\ Position(u)' /\ Outcome(u)'
             /\ Alive(u)' <=> Alive(u)
  <2>1. OwnSegment(u) /\ Position(u) /\ Outcome(u) /\ tasks'[u] = tasks[u]
    BY <1>2 DEF TasksOK
  <2>2. Alive(u)' <=> Alive(u)
    BY <2>1 DEF Alive
  <2>3. OwnSegment(u)' /\ Position(u)'
    BY <1>1, <2>1, <2>2 DEF OwnSegment, Position
  <2>4. Outcome(u)'
    BY <1>1, <1>2, <2>1, <2>2 DEF Outcome
  <2> QED
    BY <2>2, <2>3, <2>4
<1>5. OwnSegment(t)' /\ Position(t)' /\ Outcome(t)'
  BY <1>1, <1>2, <1>3 DEF OwnSegment, Position, Outcome
<1>6. ASSUME NEW u \in DOMAIN tasks, Alive(u) PROVE tasks[u].index # i
  BY <1>2, <1>6 DEF TasksOK, Outcome
<1>7. TasksOK'
  BY <1>2, <1>4, <1>5 DEF TasksOK
<1>8. OneAlive'
  <2> SUFFICES ASSUME NEW u \in DOMAIN tasks', NEW v \in DOMAIN tasks',
                      Alive(u)', Alive(v)', tasks'[u].index = tasks'[v].index
               PROVE  u = v
    BY DEF OneAlive
  <2>1. CASE u \in DOMAIN tasks /\ v \in DOMAIN tasks
    BY <1>2, <1>4, <2>1 DEF OneAlive
  <2>2. CASE u = t /\ v \in DOMAIN tasks
    BY <1>2, <1>4, <1>6, <2>2
  <2>3. CASE v = t /\ u \in DOMAIN tasks
    BY <1>2, <1>4, <1>6, <2>3
  <2> QED
    BY <1>2, <2>1, <2>2, <2>3
<1>9. HandlesAreJoined'
  <2> SUFFICES ASSUME NEW j \in DOMAIN handles'
               PROVE  /\ handles'[j] \in DOMAIN tasks'
                      /\ tasks'[handles'[j]].index = j /\ ~tasks'[handles'[j]].killed
    BY DEF HandlesAreJoined
  <2>1. CASE j = i
    BY <1>2, <2>1
  <2>2. CASE j \in DOMAIN handles
    BY <1>2, <2>2 DEF HandlesAreJoined
  <2> QED
    BY <1>2, <2>1, <2>2
<1> QED
  BY <1>7, <1>8, <1>9 DEF TasksKept

\* A task that is joined takes no handle but its own with it, unless it
\* degrades the run.
LEMMA JoinStep ==
    ASSUME TypeOK, TasksOK, OneAlive, HandlesAreJoined, JoinArm
    PROVE  TasksKept
<1>1. UNCHANGED <<table, cancelled>>
  BY DEF JoinArm
<1>2. PICK t \in DOMAIN tasks :
              /\ tasks[t].at \notin {"start", "body"} /\ tasks[t].index # Gone
              /\ tasks[t].index \in DOMAIN table /\ ~cancelled
              /\ DOMAIN tasks' = DOMAIN tasks \ {t}
              /\ \A u \in DOMAIN tasks \ {t} : tasks'[u] = tasks[u]
              /\ \/ tasks[t].at = "aborted" /\ UNCHANGED <<handles, degraded>>
                 \/ /\ tasks[t].at # "aborted"
                    /\ DOMAIN handles' = DOMAIN handles \ {tasks[t].index}
                    /\ \A j \in DOMAIN handles \ {tasks[t].index} : handles'[j] = handles[j]
                    /\ degraded' = (degraded \/ tasks[t].at = "exhausted")
  BY JoinIs
<1>3. OwnSegment(t) /\ Outcome(t)
  BY DEF TasksOK
\* The handles that remain are those of other tasks.
<1>4. /\ DOMAIN handles' \subseteq DOMAIN handles
      /\ \A j \in DOMAIN handles' : handles'[j] = handles[j] /\ handles[j] # t
  <2>1. \A j \in DOMAIN handles : handles[j] = t => j = tasks[t].index /\ ~tasks[t].killed
    BY DEF HandlesAreJoined
  <2> QED
    BY <1>2, <1>3, <2>1 DEF Outcome
\* Unless the run is degraded, no other task loses its handle.
<1>5. ASSUME NEW u \in DOMAIN tasks', ~degraded',
             tasks[u].index \in DOMAIN handles, handles[tasks[u].index] = u
      PROVE  ~degraded /\ tasks[u].index \in DOMAIN handles'
  <2>1. CASE tasks[t].at = "aborted"
    BY <1>2, <1>5, <2>1
  <2>2. CASE tasks[t].at # "aborted"
    <3>1. ~degraded /\ tasks[t].at # "exhausted"
      BY <1>2, <1>5, <2>2
    <3>2. tasks[t].at = "ok"
      <4>1. tasks[t] \in Task
        BY DEF TypeOK
      <4>2. tasks[t].at \in {"start", "body", "ok", "exhausted", "cancelled", "aborted"}
        BY <4>1 DEF Task
      <4> QED
        BY <1>2, <1>3, <2>2, <3>1, <4>2 DEF Outcome
    <3>3. handles[tasks[t].index] = t
      BY <1>2, <1>3, <3>1, <3>2 DEF Outcome
    <3>4. u # t
      BY <1>2, <1>5
    <3> QED
      BY <1>2, <1>5, <2>2, <3>1, <3>3, <3>4
  <2> QED
    BY <2>1, <2>2
<1>6. ASSUME NEW u \in DOMAIN tasks'
      PROVE  /\ OwnSegment(u)' /\ Position(u)' /\ Outcome(u)'
             /\ Alive(u)' <=> Alive(u)
             /\ u \in DOMAIN tasks /\ tasks'[u] = tasks[u]
  <2>1. /\ OwnSegment(u) /\ Position(u) /\ Outcome(u)
        /\ u \in DOMAIN tasks /\ tasks'[u] = tasks[u]
    BY <1>2 DEF TasksOK
  <2>2. Alive(u)' <=> Alive(u)
    BY <2>1 DEF Alive
  <2>3. OwnSegment(u)' /\ Position(u)'
    BY <1>1, <2>1, <2>2 DEF OwnSegment, Position
  <2>4. ~degraded' => ~degraded
    BY <1>2
  <2>5. Outcome(u)'
    BY <1>1, <1>4, <1>5, <2>1, <2>2, <2>4 DEF Outcome
  <2> QED
    BY <2>1, <2>2, <2>3, <2>5
<1>7. TasksOK'
  BY <1>6 DEF TasksOK
<1>8. OneAlive'
  BY <1>6 DEF OneAlive
<1>9. HandlesAreJoined'
  BY <1>2, <1>4 DEF HandlesAreJoined
<1> QED
  BY <1>7, <1>8, <1>9 DEF TasksKept

\* A split leaves the aborted task with the segment as it was.
LEMMA SplitStep ==
    ASSUME TypeOK, Control, TasksOK, OneAlive, HandlesAreJoined, TrySplit
    PROVE  TasksKept
<1>1. UNCHANGED <<degraded, cancelled>>
  BY DEF TrySplit
<1>2. CASE UNCHANGED <<tasks, handles, table, next>>
  <2>1. \A u : /\ OwnSegment(u)' <=> OwnSegment(u)
               /\ Position(u)' <=> Position(u)
               /\ Outcome(u)' <=> Outcome(u)
               /\ Alive(u)' <=> Alive(u)
    BY <1>1, <1>2 DEF OwnSegment, Position, Outcome, Alive
  <2> QED
    BY <1>2, <2>1 DEF TasksKept, TasksOK, OneAlive, HandlesAreJoined
<1>3. CASE ~ UNCHANGED <<tasks, handles, table, next>>
  <2>1. PICK i \in DOMAIN handles, t \in DOMAIN tasks :
                 /\ ~degraded /\ handles[i] = t /\ tasks[t].index = i
                 /\ i \in DOMAIN table /\ Remaining(table[i]) >= MinSplit
                 /\ DOMAIN tasks' = DOMAIN tasks
                 /\ \A u \in DOMAIN tasks \ {t} : tasks'[u] = tasks[u]
                 /\ tasks'[t] \in Task
                 /\ tasks'[t].index = i /\ tasks'[t].at = tasks[t].at
                 /\ tasks'[t].pos = tasks[t].pos
                 /\ tasks'[t].start = tasks[t].start /\ tasks'[t].end = tasks[t].end
                 /\ tasks'[t].killed <=> tasks[t].at \in {"start", "body"}
                 /\ tasks'[t].lost = tasks[t].lost
                 /\ DOMAIN handles' = DOMAIN handles \ {i}
                 /\ \A j \in DOMAIN handles \ {i} : handles'[j] = handles[j]
                 /\ table' = SplitTable(i) /\ next' = next + 1
    BY <1>3, TrySplitIs
  <2>2. /\ DOMAIN table' = DOMAIN table \cup {next} /\ next \notin DOMAIN table
        /\ table'[i].start = table[i].start /\ table'[i].end < table[i].end
        /\ \A j \in DOMAIN table \ {i} : table'[j] = table[j]
        /\ ~Finished(table[i])
    BY <2>1, TypeParts, SplitIs DEF LoopTyped, Control
  <2>3. table[i].end \in Nat /\ table'[i].end \in Nat /\ i # Gone
    <3>1. TableTyped(SplitTable(i)) /\ i \in DOMAIN SplitTable(i)
      BY <2>1, TypeParts, SplitIs DEF LoopTyped, Control
    <3> QED
      BY <2>1, <3>1, RangedAssumption DEF TypeOK, TableTyped, Segment, Unit, Index
  <2>4. OwnSegment(t) /\ Position(t) /\ Outcome(t) /\ ~tasks[t].killed
    BY <2>1 DEF TasksOK, HandlesAreJoined
  <2>5. tasks[t].start \in Nat /\ tasks[t].end \in Nat
    BY DEF TypeOK, Task, Unit
  <2>6. tasks[t].at # "ok" /\ tasks[t].at # "aborted"
    BY <2>1, <2>2, <2>3, <2>4 DEF Outcome
  <2>7. ~Alive(t)'
    BY <2>1 DEF Alive
  <2>8. OwnSegment(t)'
    <3>1. /\ tasks'[t].index = i /\ i \in DOMAIN table'
          /\ table'[i].start = tasks'[t].start /\ table'[i].end < tasks'[t].end
      BY <2>1, <2>2, <2>3, <2>4, <2>5 DEF OwnSegment
    <3>2. tasks'[t].end \in Nat
      BY <2>1, <2>5
    <3>3. table'[i].end <= tasks'[t].end
      BY <2>3, <3>1, <3>2
    <3> QED
      BY <2>3, <2>7, <3>1, <3>3 DEF OwnSegment
  <2>9. Position(t)'
    BY <2>1, <2>4, <2>5 DEF Position
  <2>10. Outcome(t)'
    BY <1>1, <2>1, <2>3, <2>4, <2>6, <2>7 DEF Outcome
  \* Another task has another index, or has been aborted for this one.
  <2>11. ASSUME NEW u \in DOMAIN tasks \ {t}
         PROVE  /\ OwnSegment(u)' /\ Position(u)' /\ Outcome(u)'
                /\ Alive(u)' <=> Alive(u)
    <3>1. OwnSegment(u) /\ Position(u) /\ Outcome(u) /\ tasks'[u] = tasks[u]
      BY <2>1 DEF TasksOK
    <3>2. Alive(u)' <=> Alive(u)
      BY <3>1 DEF Alive
    <3>3. Alive(u) => tasks[u].index # i /\ tasks[u].index \in DOMAIN handles
      BY <2>1, <3>1 DEF Outcome
    <3>4. CASE tasks[u].index = i
      <4>1. ~Alive(u)
        BY <3>3, <3>4
      <4>2. /\ table[i].end \in Nat /\ table'[i].end \in Nat /\ tasks[u].end \in Nat
            /\ table[i].start = tasks[u].start /\ table[i].end <= tasks[u].end
        BY <2>3, <3>1, <3>4 DEF OwnSegment, TypeOK, Task, Unit
      <4>3. table'[i].end < tasks[u].end /\ table'[i].end <= tasks[u].end
        BY <2>2, <4>2
      <4>4. OwnSegment(u)'
        BY <2>1, <2>2, <2>3, <3>1, <3>2, <3>4, <4>1, <4>2, <4>3 DEF OwnSegment
      <4>5. Position(u)'
        BY <3>1, <4>1 DEF Position, Alive
      <4>6. tasks[u].at # "ok"
        BY <2>1, <2>2, <2>3, <3>1, <3>4 DEF Outcome
      <4>7. Outcome(u)'
        BY <1>1, <3>1, <3>2, <4>1, <4>6 DEF Outcome
      <4> QED
        BY <3>2, <4>4, <4>5, <4>7
    <3>5. CASE tasks[u].index # i /\ tasks[u].index # Gone
      <4>1. tasks[u].index \in DOMAIN table /\ table'[tasks[u].index] = table[tasks[u].index]
        BY <2>2, <3>1, <3>5 DEF OwnSegment
      <4>2. OwnSegment(u)' /\ Position(u)'
        BY <2>2, <3>1, <3>2, <4>1 DEF OwnSegment, Position
      <4>3. Outcome(u)'
        BY <1>1, <2>1, <3>1, <3>2, <3>5, <4>1 DEF Outcome
      <4> QED
        BY <3>2, <4>2, <4>3
    <3>6. CASE tasks[u].index = Gone
      <4>1. tasks[u].killed /\ ~Alive(u)
        BY <3>1, <3>6 DEF OwnSegment, Alive
      <4> QED
        BY <1>1, <3>1, <3>2, <3>6, <4>1 DEF OwnSegment, Position, Outcome
    <3> QED
      BY <3>4, <3>5, <3>6
  <2>12. TasksOK'
    BY <2>1, <2>8, <2>9, <2>10, <2>11 DEF TasksOK
  <2>13. OneAlive'
    BY <2>1, <2>7, <2>11 DEF OneAlive
  <2>14. HandlesAreJoined'
    <3> SUFFICES ASSUME NEW j \in DOMAIN handles'
                 PROVE  /\ handles'[j] \in DOMAIN tasks'
                        /\ tasks'[handles'[j]].index = j /\ ~tasks'[handles'[j]].killed
      BY DEF HandlesAreJoined
    <3>1. /\ j \in DOMAIN handles /\ j # i /\ handles'[j] = handles[j]
          /\ handles[j] \in DOMAIN tasks /\ tasks[handles[j]].index = j
          /\ ~tasks[handles[j]].killed
      BY <2>1 DEF HandlesAreJoined
    <3>2. handles[j] # t
      BY <2>1, <3>1
    <3> QED
      BY <2>1, <3>1, <3>2
  <2> QED
    BY <2>12, <2>13, <2>14 DEF TasksKept
<1> QED
  BY <1>2, <1>3

\* Every step keeps what is known of the tasks.
LEMMA TasksStep ==
    ASSUME TypeOK, Control, TasksOK, OneAlive, HandlesAreJoined, [Next]_vars
    PROVE  TasksKept
<1> USE DEF loop
<1>1. ASSUME UNCHANGED <<table, handles, tasks>>,
             degraded => degraded', cancelled => cancelled'
      PROVE  TasksKept
  <2>1. \A u : /\ OwnSegment(u)' <=> OwnSegment(u)
               /\ Position(u)' <=> Position(u)
               /\ Outcome(u) => Outcome(u)'
               /\ Alive(u)' <=> Alive(u)
    BY <1>1 DEF OwnSegment, Position, Outcome, Alive
  <2> QED
    BY <1>1, <2>1 DEF TasksKept, TasksOK, OneAlive, HandlesAreJoined
<1>2. CASE Open
  BY <1>2, OpenTasks
<1>3. CASE StartSegment
  BY <1>3, StartStep
<1>4. CASE Launched
  BY <1>1, <1>4 DEF Launched
<1>5. CASE Ending
  BY <1>5, EndTasks
<1>6. CASE JoinArm
  BY <1>6, JoinStep
<1>7. CASE SampleArm
  BY <1>1, <1>7 DEF SampleArm
<1>8. CASE TrySplit
  BY <1>8, SplitStep
<1>9. CASE Fallback
  BY <1>9, UnlinkedKeep DEF Fallback
<1>10. ASSUME NEW t \in DOMAIN tasks, Chunk(t) PROVE TasksKept
  BY <1>10, ChunkStep
<1>11. ASSUME NEW t \in DOMAIN tasks, Request(t) \/ Retry(t) \/ Finish(t)
              \/ Exhaust(t) \/ SeeCancel(t) \/ (Die(t) /\ tasks[t].index # Gone)
       PROVE  TasksKept
  BY <1>11, MoveStep
<1>12. ASSUME NEW t \in DOMAIN tasks, Die(t), tasks[t].index = Gone PROVE TasksKept
  <2>1. /\ tasks' = Without(tasks, t)
        /\ UNCHANGED <<table, handles, degraded, cancelled>>
    BY <1>12 DEF Die, TaskKept
  <2>2. DOMAIN tasks' = DOMAIN tasks \ {t} /\ \A u \in DOMAIN tasks' : tasks'[u] = tasks[u]
    BY <2>1, WithoutIs
  <2>3. ASSUME NEW u \in DOMAIN tasks'
        PROVE  /\ OwnSegment(u)' <=> OwnSegment(u)
               /\ Position(u)' <=> Position(u)
               /\ Outcome(u)' <=> Outcome(u)
               /\ Alive(u)' <=> Alive(u)
    <3>1. tasks'[u] = tasks[u]
      BY <2>2
    <3> QED
      BY <2>1, <3>1 DEF OwnSegment, Position, Outcome, Alive
  <2>4. \A j \in DOMAIN handles : handles[j] # t
    <3>1. DOMAIN handles \subseteq Nat
      BY DEF TypeOK, Index
    <3> QED
      BY <1>12, <3>1, RangedAssumption DEF HandlesAreJoined
  <2>5. TasksOK'
    BY <2>2, <2>3 DEF TasksOK
  <2>6. OneAlive'
    BY <2>2, <2>3 DEF OneAlive
  <2>7. HandlesAreJoined'
    BY <2>1, <2>2, <2>4 DEF HandlesAreJoined
  <2> QED
    BY <2>5, <2>6, <2>7 DEF TasksKept
<1>13. CASE Cancel
  BY <1>1, <1>13 DEF Cancel
<1>14. CASE DropPart
  BY <1>14, UnlinkedKeep DEF DropPart
<1>15. CASE Crash
  <2>1. DOMAIN tasks' = {} /\ DOMAIN handles' = {}
    BY <1>15, EmptyTyped DEF Crash
  <2> QED
    BY <2>1 DEF TasksKept, TasksOK, OneAlive, HandlesAreJoined
<1>16. CASE UNCHANGED vars
  BY <1>1, <1>16 DEF vars
<1> QED
  BY <1>2, <1>3, <1>4, <1>5, <1>6, <1>7, <1>8, <1>9, <1>10, <1>11, <1>12,
     <1>13, <1>14, <1>15, <1>16 DEF Next, Loop, TaskStep, Ending

\* Every step keeps the tasks of a run on the .part, or is its removal.
LEMMA OnPartStep ==
    ASSUME TypeOK, Control, TasksOK, HandlesAreJoined, OnPart, [Next]_vars
    PROVE  OnPart'
<1> USE DEF OnPart
<1>1. ASSUME DOMAIN tasks' \subseteq DOMAIN tasks,
             \A u \in DOMAIN tasks' : /\ tasks'[u].index = tasks[u].index
                                      /\ tasks'[u].lost => tasks[u].lost,
             Running' /\ ~dropped' => Running /\ ~dropped
      PROVE  OnPart'
  <2> SUFFICES ASSUME Running', ~dropped', NEW u \in DOMAIN tasks', tasks'[u].lost
               PROVE  tasks'[u].index = Gone
    OBVIOUS
  <2>1. Running /\ ~dropped
    BY <1>1
  <2>2. u \in DOMAIN tasks /\ tasks'[u].index = tasks[u].index
    BY <1>1
  <2>3. tasks'[u].lost => tasks[u].lost
    BY <1>1
  <2>4. tasks[u].index = Gone
    BY <2>1, <2>2, <2>3, Zenon
  <2> QED
    BY <2>2, <2>4
<1>2. CASE Open
  <2>1. Held
    BY <1>2 DEF Open, Held, Control
  <2>2. /\ DOMAIN tasks' = DOMAIN tasks
        /\ \A u \in DOMAIN tasks : tasks'[u].index = tasks[u].index
    <3>1. CASE UNCHANGED tasks
      BY <3>1
    <3>2. CASE tasks' = Unlinked(tasks)
      BY <3>2, UnlinkedIs DEF TypeOK
    <3> QED
      BY <1>2, <3>1, <3>2, OpenIs
  <2>3. \A u \in DOMAIN tasks : tasks[u].index = Gone
    BY <2>1, OnlyGone
  <2> QED
    BY <2>2, <2>3
<1>3. CASE StartSegment
  <2>1. PICK t \in Slot \ DOMAIN tasks :
              /\ DOMAIN tasks' = DOMAIN tasks \cup {t}
              /\ \A u \in DOMAIN tasks : tasks'[u] = tasks[u]
              /\ ~tasks'[t].lost
    BY <1>3, StartIs
  <2>2. UNCHANGED <<pc, dropped>>
    BY <1>3 DEF StartSegment, history
  <2> QED
    BY <2>1, <2>2 DEF Running
<1>4. CASE Launched \/ SampleArm \/ Cancel \/ UNCHANGED vars
  <2>1. UNCHANGED <<tasks, dropped>> /\ (Running' => Running)
    BY <1>4 DEF Launched, SampleArm, Cancel, vars, loop, history, Running
  <2> QED
    BY <1>1, <2>1
<1>5. CASE Ending \/ Fallback \/ Crash
  <2>1. ~Running'
    <3>1. CASE Ending
      BY <3>1, EndingIs DEF Running
    <3>2. CASE Fallback \/ Crash
      BY <3>2 DEF Fallback, Crash, Running
    <3> QED
      BY <1>5, <3>1, <3>2
  <2> QED
    BY <2>1
<1>6. CASE JoinArm
  <2>1. /\ DOMAIN tasks' \subseteq DOMAIN tasks
        /\ \A u \in DOMAIN tasks' : tasks'[u] = tasks[u]
    BY <1>6, JoinIs
  <2>2. UNCHANGED dropped /\ Running
    BY <1>6 DEF JoinArm, history, Running
  <2> QED
    BY <1>1, <2>1, <2>2
<1>7. CASE TrySplit
  <2>1. UNCHANGED dropped /\ Running
    BY <1>7 DEF TrySplit, history, Running
  <2>2. CASE UNCHANGED <<tasks, handles, table, next>>
    BY <1>1, <2>1, <2>2
  <2>3. CASE ~ UNCHANGED <<tasks, handles, table, next>>
    <3>1. PICK i \in DOMAIN handles, t \in DOMAIN tasks :
                 /\ tasks[t].index = i
                 /\ DOMAIN tasks' = DOMAIN tasks
                 /\ \A u \in DOMAIN tasks \ {t} : tasks'[u] = tasks[u]
                 /\ tasks'[t].index = i /\ tasks'[t].lost = tasks[t].lost
      BY <1>7, <2>3, TrySplitIs
    <3>2. ASSUME NEW u \in DOMAIN tasks
          PROVE  /\ tasks'[u].index = tasks[u].index
                 /\ tasks'[u].lost => tasks[u].lost
      <4>1. CASE u = t
        BY <3>1, <4>1
      <4>2. CASE u # t
        <5>1. tasks'[u] = tasks[u]
          BY <3>1, <4>2
        <5> QED
          BY <5>1
      <4> QED
        BY <4>1, <4>2
    <3> QED
      BY <1>1, <2>1, <3>1, <3>2
  <2> QED
    BY <2>2, <2>3
<1>8. ASSUME NEW t \in DOMAIN tasks,
             \/ Chunk(t) \/ Request(t) \/ Retry(t) \/ Finish(t)
             \/ Exhaust(t) \/ SeeCancel(t) \/ Die(t)
      PROVE  OnPart'
  <2>1. UNCHANGED <<pc, dropped>>
    BY <1>8 DEF Chunk, Request, Retry, Finish, Exhaust, SeeCancel, Die, TaskKept, history
  <2>2. CASE Die(t) /\ tasks[t].index = Gone
    <3>0. tasks' = Without(tasks, t)
      BY <2>2 DEF Die
    <3>1. DOMAIN tasks' = DOMAIN tasks \ {t} /\ \A u \in DOMAIN tasks' : tasks'[u] = tasks[u]
      BY <3>0, WithoutIs
    <3> QED
      BY <1>1, <2>1, <3>1 DEF Running
  <2>3. CASE ~(Die(t) /\ tasks[t].index = Gone)
    <3>1. /\ DOMAIN tasks' = DOMAIN tasks
          /\ \A u \in DOMAIN tasks \ {t} : tasks'[u] = tasks[u]
          /\ tasks'[t].index = tasks[t].index
          /\ tasks'[t].lost => tasks[t].lost
      <4>1. CASE Chunk(t)
        BY <4>1, ChunkIs
      <4>2. CASE Request(t)
        BY <4>2, RequestIs DEF Moves
      <4>3. CASE Retry(t)
        BY <4>3, RetryIs DEF Moves
      <4>4. CASE Finish(t)
        BY <4>4, FinishIs DEF Moves
      <4>5. CASE Exhaust(t) \/ SeeCancel(t) \/ (Die(t) /\ tasks[t].index # Gone)
        BY <4>5, GiveUpIs DEF Moves
      <4> QED
        BY <1>8, <2>3, <4>1, <4>2, <4>3, <4>4, <4>5
    <3> QED
      BY <1>1, <2>1, <3>1 DEF Running
  <2> QED
    BY <2>2, <2>3
<1>9. CASE DropPart
  <2>1. Running' => dropped'
    BY <1>9 DEF DropPart, Running
  <2> QED
    BY <2>1
<1> QED
  BY <1>2, <1>3, <1>4, <1>5, <1>6, <1>7, <1>8, <1>9 DEF Next, Loop, TaskStep, Ending

(***************************************************************************)
(* The bytes.                                                              *)
(***************************************************************************)

\* A task takes nothing out of the file, and counts only what it writes.
LEMMA TaskWrites ==
    ASSUME TypeOK, TasksOK, OnPart, NEW t \in DOMAIN tasks,
           \/ Chunk(t) \/ Request(t) \/ Retry(t) \/ Finish(t)
           \/ Exhaust(t) \/ SeeCancel(t) \/ Die(t)
    PROVE  /\ UNCHANGED <<pc, result, cancelled, meta, history>>
           /\ Written \subseteq Written'
           /\ Running /\ ~dropped => Counted(table') \subseteq Counted(table) \cup Written'
           /\ t \in Live
<1>1. UNCHANGED <<pc, result, cancelled, meta, history>>
  BY DEF Chunk, Request, Retry, Finish, Exhaust, SeeCancel, Die, TaskKept
<1>2. t \in Live
  BY DEF Chunk, Request, Retry, Finish, Exhaust, SeeCancel, Die, Live
<1>3. CASE Chunk(t)
  <2>1. Written' = Written \cup Handed(t)
    BY <1>3, ChunkCounts
  <2>2. CASE Attached(t)
    <3>1. Counted(table') = Counted(table) \cup {tasks[t].pos} /\ tasks[t].index # Gone
      BY <1>3, <2>2, ChunkCounts, ChunkRange
    <3>2. Running /\ ~dropped => ~tasks[t].lost
      BY <3>1 DEF OnPart
    <3>3. ~tasks[t].lost => Handed(t) = {tasks[t].pos}
      BY DEF Handed
    <3> QED
      BY <1>1, <1>2, <2>1, <3>1, <3>2, <3>3
  <2>3. CASE ~Attached(t)
    <3>1. Counted(table') = Counted(table)
      BY <1>3, <2>3, ChunkCounts
    <3> QED
      BY <1>1, <1>2, <2>1, <3>1
  <2> QED
    BY <2>2, <2>3
<1>4. CASE Finish(t)
  BY <1>1, <1>2, <1>4, FinishIs DEF Finish
<1>5. CASE Request(t) \/ Retry(t) \/ Exhaust(t) \/ SeeCancel(t) \/ Die(t)
  <2>1. UNCHANGED <<table, disk, behind>>
    BY <1>5 DEF Request, Retry, Exhaust, SeeCancel, Die
  <2> QED
    BY <1>1, <1>2, <2>1 DEF Written
<1> QED
  BY <1>3, <1>4, <1>5

\* With no crash before it, a run that resumes skips only what is there.
LEMMA ResumeStep ==
    ASSUME TypeOK, Control, BitsTrue, ResumesAreSound, Open
    PROVE  /\ CountedIsWritten' /\ ResumesAreSound' /\ BitsTrue' /\ CompleteHasNoHole'
<1>1. pc' = "launch" /\ result' = "none" /\ UNCHANGED <<crashes, dropped>> /\ Held
  BY DEF Open, Control, Held
<1>2. /\ sound' => Counted(table') \subseteq Written'
      /\ ~crashes /\ ~dropped => sound'
  <2>1. CASE Counted(table') = {} /\ sound' = sound
    BY <2>1 DEF ResumesAreSound
  <2>2. CASE /\ table' = Resumable(UNION meta) /\ exists /\ UNION meta \in SUBSET Block
             /\ UNCHANGED <<files, tasks>>
    <3>1. Written' = Written
      BY <2>2 DEF Written, files
    <3>2. \/ sound' = (sound /\ Counted(table') \subseteq Written)
          \/ sound' = sound /\ table' = BuildSegments
      BY DEF Open
    <3>3. Counted(BuildSegments) = {}
      BY BuildIs
    <3>4. ~crashes /\ ~dropped => Counted(table') \subseteq Written
      <4> SUFFICES ASSUME ~crashes, ~dropped, NEW u \in Counted(table') PROVE u \in Written
        OBVIOUS
      <4>1. PICK b \in UNION meta : u \in UnitsOf(b)
        BY <2>2, ResumableIs
      <4> QED
        BY <1>1, <2>2, <4>1 DEF BitsTrue
    <3> QED
      BY <3>1, <3>2, <3>3, <3>4 DEF ResumesAreSound
  <2> QED
    BY <2>1, <2>2, OpenIs
<1>3. CountedIsWritten'
  BY <1>2 DEF CountedIsWritten
<1>4. ResumesAreSound'
  BY <1>1, <1>2 DEF ResumesAreSound
<1>5. BitsTrue'
  BY <1>1 DEF BitsTrue, Held
<1>6. CompleteHasNoHole'
  BY <1>1 DEF CompleteHasNoHole
<1> QED
  BY <1>3, <1>4, <1>5, <1>6

\* A table of finished segments stands for the whole file.
LEMMA AllIsWritten ==
    ASSUME TypeOK, Control, SegmentsTile, CountedIsWritten, pc = "complete"
    PROVE  Counted(table) = Unit /\ (sound /\ ~dropped => Written = Unit)
<1>1. TableTyped(table) /\ Tiles(table) /\ \A i \in DOMAIN table : Finished(table[i])
  BY TypeParts DEF LoopTyped, SegmentsTile, Running, Control
<1>2. Counted(table) = Unit
  BY <1>1, FinishedIsAll
<1>3. sound /\ ~dropped => Unit \subseteq Written
  BY <1>2 DEF CountedIsWritten, Running
<1>4. Written \subseteq Unit
  BY DEF TypeOK, Written
<1> QED
  BY <1>2, <1>3, <1>4

\* The bitmap that is saved marks what is in the file.
LEMMA BitmapIsTrue ==
    ASSUME TypeOK, SegmentsTile, CountedIsWritten, Running, sound, ~dropped,
           NEW b \in RefreshBitmap(table)
    PROVE  UnitsOf(b) \subseteq Written
<1>1. TableTyped(table) /\ Tiles(table)
  BY TypeParts DEF LoopTyped, SegmentsTile
<1>2. b \in Block
  BY DEF RefreshBitmap
<1>3. UnitsOf(b) \subseteq Counted(table)
  BY <1>1, <1>2, BitmapIsCounted DEF TableTyped, Index, Counted
<1> QED
  BY <1>3 DEF CountedIsWritten

\* A run ends with a true bitmap, or with none; and with the whole file, if
\* it says so.
LEMMA EndStep ==
    ASSUME TypeOK, Control, SegmentsTile, CountedIsWritten, CompleteHasNoHole,
           BitsTrue, ResumesAreSound, Ending
    PROVE  CountedIsWritten' /\ ResumesAreSound' /\ BitsTrue' /\ CompleteHasNoHole'
<1>1. /\ pc' = "ended" /\ UNCHANGED <<crashes, dropped, sound>>
      /\ Written' = Written
  BY EndingIs DEF history, Written
<1>2. CountedIsWritten' /\ ResumesAreSound'
  BY <1>1 DEF CountedIsWritten, Running, ResumesAreSound
<1>3. ASSUME ~crashes, ~dropped, NEW bits \in meta', NEW b \in bits
      PROVE  UnitsOf(b) \subseteq Written
  <2>1. sound
    BY <1>3 DEF ResumesAreSound
  <2>2. CASE CancelArm
    <3>1. Running /\ bits = RefreshBitmap(table)
      BY <2>2, <1>3 DEF CancelArm, Running
    <3>2. b \in RefreshBitmap(table)
      BY <1>3, <3>1
    <3>3. ~dropped
      BY <1>3
    <3> QED
      BY <2>1, <3>1, <3>2, <3>3, BitmapIsTrue
  <2>3. CASE Complete
    <3>1. pc = "complete" /\ meta' \subseteq meta
      BY <2>3 DEF Complete, End
    <3>2. Written = Unit
      BY <1>3, <2>1, <3>1, AllIsWritten
    <3>3. b \in Block
      BY <1>3, <3>1 DEF TypeOK
    <3>4. \A c \in Block : UnitsOf(c) \subseteq Unit
      BY BlockRange
    <3> QED
      BY <3>2, <3>3, <3>4
  <2>4. CASE Streamed
    BY <1>3, <2>4 DEF Streamed, files, BitsTrue
  <2> QED
    BY <2>2, <2>3, <2>4 DEF Ending
<1>4. BitsTrue'
  BY <1>1, <1>3 DEF BitsTrue
<1>5. CompleteHasNoHole'
  <2>1. result' = "ok" => pc = "complete"
    BY DEF Ending, CancelArm, Complete, Streamed, End
  <2> QED
    BY <1>1, <2>1, AllIsWritten DEF CompleteHasNoHole
<1> QED
  BY <1>2, <1>4, <1>5

\* Every step keeps what is known of the units in the file.
LEMMA BytesStep ==
    ASSUME IInv, [Next]_vars, TypeOK'
    PROVE  CountedIsWritten' /\ ResumesAreSound' /\ BitsTrue' /\ CompleteHasNoHole'
<1> USE DEF IInv, loop, history, files
<1>1. ASSUME UNCHANGED <<sound, crashes, dropped, result, exists, table, disk, behind>>,
             Running' => Running, Held' => Held /\ UNCHANGED <<meta, tasks>>,
             pc' = "streaming" => pc = "streaming" /\ UNCHANGED meta
      PROVE  CountedIsWritten' /\ ResumesAreSound' /\ BitsTrue' /\ CompleteHasNoHole'
  <2>1. Written' = Written
    BY <1>1 DEF Written
  <2>2. CountedIsWritten'
    BY <1>1, <2>1 DEF CountedIsWritten
  <2>3. BitsTrue'
    BY <1>1, <2>1 DEF BitsTrue, Live
  <2>4. ResumesAreSound' /\ CompleteHasNoHole'
    BY <1>1, <2>1 DEF ResumesAreSound, CompleteHasNoHole
  <2> QED
    BY <2>2, <2>3, <2>4
<1>2. CASE Open
  BY <1>2, ResumeStep
<1>3. CASE StartSegment \/ Launched \/ JoinArm \/ SampleArm \/ Cancel \/ UNCHANGED vars
  <2>1. UNCHANGED <<sound, crashes, dropped, result, exists, table, disk, behind>>
    BY <1>3 DEF StartSegment, Launched, JoinArm, SampleArm, Cancel, vars
  <2>2. /\ Running' => Running
        /\ Held' => Held /\ UNCHANGED <<meta, tasks>>
        /\ pc' = "streaming" => pc = "streaming" /\ UNCHANGED meta
    BY <1>3 DEF StartSegment, Launched, JoinArm, SampleArm, Cancel, vars, Running, Held
  <2> QED
    BY <1>1, <2>1, <2>2
<1>4. CASE Ending
  BY <1>4, EndStep
<1>5. CASE TrySplit
  <2>1. /\ UNCHANGED <<sound, crashes, dropped, result, exists, disk, behind, meta>>
        /\ pc = "sampled" /\ pc' = "launch" /\ result = "none"
    BY <1>5 DEF TrySplit, Control
  <2>2. Counted(table') = Counted(table)
    <3>1. CASE ~ UNCHANGED <<tasks, handles, table, next>>
      <4>1. PICK i \in DOMAIN table :
             Remaining(table[i]) >= MinSplit /\ table' = SplitTable(i)
        BY <1>5, <3>1, TrySplitIs
      <4> QED
        BY <4>1, TypeParts, SplitIs DEF LoopTyped, Control
    <3> QED
      BY <3>1
  <2>3. Written' = Written
    BY <2>1 DEF Written
  <2> QED
    BY <2>1, <2>2, <2>3 DEF CountedIsWritten, Running, ResumesAreSound, BitsTrue, Held,
                            CompleteHasNoHole
<1>6. CASE Fallback
  <2>1. /\ UNCHANGED <<sound, crashes, dropped, result>> /\ pc = "fallback" /\ pc' = "streaming"
        /\ result = "none" /\ meta' = {}
    BY <1>6 DEF Fallback, Control
  <2> QED
    BY <2>1 DEF CountedIsWritten, Running, ResumesAreSound, BitsTrue, Held,
                CompleteHasNoHole
<1>7. ASSUME NEW t \in DOMAIN tasks,
             \/ Chunk(t) \/ Request(t) \/ Retry(t) \/ Finish(t)
             \/ Exhaust(t) \/ SeeCancel(t) \/ Die(t)
      PROVE  CountedIsWritten' /\ ResumesAreSound' /\ BitsTrue' /\ CompleteHasNoHole'
  <2>1. /\ UNCHANGED <<pc, result, meta, sound, crashes, dropped>>
        /\ Written \subseteq Written'
        /\ Running /\ ~dropped => Counted(table') \subseteq Counted(table) \cup Written'
        /\ t \in Live
    BY <1>7, TaskWrites
  <2>2. CountedIsWritten'
    BY <2>1 DEF CountedIsWritten, Running
  <2>3. ResumesAreSound'
    BY <2>1 DEF ResumesAreSound
  <2>4. BitsTrue'
    <3>1. Held' <=> Held
      BY <2>1 DEF Held
    <3> QED
      BY <2>1, <3>1 DEF BitsTrue
  <2>5. CompleteHasNoHole'
    <3>1. Written' \subseteq Unit
      BY DEF TypeOK, Written
    <3> QED
      BY <2>1, <3>1 DEF CompleteHasNoHole
  <2> QED
    BY <2>2, <2>3, <2>4, <2>5
<1>8. CASE DropPart
  <2>1. /\ UNCHANGED <<pc, result, meta, sound, crashes>> /\ ~exists'
        /\ result # "ok" /\ tasks' = Unlinked(tasks)
        /\ dropped' = (dropped \/ pc \notin {"idle", "ended"} \/ Live # {})
    BY <1>8 DEF DropPart, Unlink
  <2>2. Live' = Live
    <3>1. /\ DOMAIN tasks' = DOMAIN tasks
          /\ \A u \in DOMAIN tasks : tasks'[u].at = tasks[u].at
      BY <2>1, UnlinkedIs DEF TypeOK
    <3> QED
      BY <3>1 DEF Live
  <2>3. Running' => dropped'
    BY <2>1 DEF Running
  <2>4. ~dropped' => Live' = {} /\ ~dropped
    BY <2>1, <2>2
  <2> QED
    BY <2>1, <2>3, <2>4 DEF CountedIsWritten, ResumesAreSound, BitsTrue, CompleteHasNoHole
<1>9. CASE Crash
  <2>1. pc' = "idle" /\ result' = "none" /\ crashes'
    BY <1>9 DEF Crash
  <2> QED
    BY <2>1 DEF CountedIsWritten, Running, ResumesAreSound, BitsTrue, CompleteHasNoHole
<1> QED
  BY <1>2, <1>3, <1>4, <1>5, <1>6, <1>7, <1>8, <1>9 DEF Next, Loop, TaskStep, Ending

(***************************************************************************)
(* The invariants.                                                         *)
(***************************************************************************)

LEMMA InitEstablishes == Init => IInv
<1> SUFFICES ASSUME Init PROVE IInv
  OBVIOUS
<1> USE DEF Init
<1>1. TypeOK
  <2>1. 0 \in Unit /\ 0 \in 0..MaxRuns
    BY SizesAssumption, RangedAssumption DEF Unit
  <2>2. ControlTyped
    BY <2>1, Zenon DEF ControlTyped
  <2>3. LoopTyped
    BY EmptyTyped DEF LoopTyped
  <2>4. Live = {}
    BY EmptyTyped DEF Live
  <2>5. TasksTyped
    BY <2>4, EmptyTyped, RangedAssumption, FS_EmptySet DEF TasksTyped
  <2>6. FilesTyped
    BY <2>1 DEF FilesTyped
  <2> QED
    BY <2>2, <2>3, <2>5, <2>6, TypeParts
<1>2. Control
  BY EmptyTyped DEF Control, Held
<1>3. SegmentsTile /\ CountedIsWritten
  BY DEF SegmentsTile, CountedIsWritten, Running
<1>4. TasksOK /\ OneAlive /\ HandlesAreJoined /\ OnPart
  BY EmptyTyped DEF TasksOK, OneAlive, HandlesAreJoined, OnPart
<1>5. CompleteHasNoHole /\ BitsTrue /\ ResumesAreSound
  BY DEF CompleteHasNoHole, BitsTrue, ResumesAreSound
<1> QED
  BY <1>1, <1>2, <1>3, <1>4, <1>5 DEF IInv

\* The invariant is inductive.
LEMMA StepPreserves == IInv /\ [Next]_vars => IInv'
<1> SUFFICES ASSUME IInv, [Next]_vars PROVE IInv'
  OBVIOUS
<1>1. /\ TypeOK /\ Control /\ SegmentsTile
      /\ TasksOK /\ OneAlive /\ HandlesAreJoined /\ OnPart
  BY DEF IInv
<1>2. TypeOK'
  BY <1>1, TypeStep
<1>3. Control' /\ SegmentsTile'
  BY <1>1, ControlStep, TilesStep
<1>4. TasksOK' /\ OneAlive' /\ HandlesAreJoined'
  BY <1>1, TasksStep DEF TasksKept
<1>6. OnPart'
  BY <1>1, OnPartStep
<1>5. CountedIsWritten' /\ ResumesAreSound' /\ BitsTrue' /\ CompleteHasNoHole'
  BY <1>2, BytesStep
<1> QED
  BY <1>2, <1>3, <1>4, <1>5, <1>6 DEF IInv

\* It holds in every reachable state.
LEMMA Invariance == Spec => []IInv
BY InitEstablishes, StepPreserves, PTL DEF Spec

\* The types, the counters within their segments, the live tasks within the
\* permits of segment_sem, and no handle of a task that is not there.
THEOREM Typed == Spec => []TypeOK
<1>1. IInv => TypeOK
  BY DEF IInv
<1> QED
  BY <1>1, Invariance, PTL

\* build_segments and every split (SegmentState::split), wherever the abort
\* catches the task, leave segments that cover the file without an overlap.
THEOREM AlwaysTiled == Spec => []SegmentsTile
<1>1. IInv => SegmentsTile
  BY DEF IInv
<1> QED
  BY <1>1, Invariance, PTL

\* A counter never runs ahead of the writes: what run_ranged counts has been
\* handed to the file, though a counter outlives tasks and splits.
THEOREM CountersAreTrue == Spec => []CountedIsWritten
<1>1. IInv => CountedIsWritten
  BY DEF IInv
<1> QED
  BY <1>1, Invariance, PTL

\* The counter of a segment is advanced by one task at most, the one that
\* run_ranged has started last for it.
THEOREM OneWriter == Spec => []OneTaskPerSegment
<1>1. IInv => OneTaskPerSegment
  <2> SUFFICES ASSUME IInv, NEW t \in Live, NEW u \in Live,
                      Attached(t), Attached(u), tasks[t].index = tasks[u].index
               PROVE  t = u
    BY DEF OneTaskPerSegment
  <2>1. ASSUME NEW v \in Live, Attached(v)
        PROVE  Alive(v) /\ v \in DOMAIN tasks
    <3>1. v \in DOMAIN tasks /\ tasks[v].at \in {"start", "body"}
      BY DEF Live
    <3>2. OwnSegment(v) /\ tasks[v] \in Task
      BY <3>1 DEF IInv, TasksOK, TypeOK
    <3>3. /\ tasks[v].index \in DOMAIN table /\ table[tasks[v].index].end = tasks[v].end
          /\ tasks[v].end \in Nat
      BY <2>1, <3>2 DEF Attached, Task, Unit
    <3>4. ~tasks[v].killed
      <4>1. tasks[v].index # Gone
        BY <3>3, RangedAssumption DEF IInv, TypeOK, Index
      <4> QED
        BY <3>2, <3>3, <4>1 DEF OwnSegment
    <3> QED
      BY <3>1, <3>4 DEF Alive
  <2> QED
    BY <2>1 DEF IInv, OneAlive
<1> QED
  BY <1>1, Invariance, PTL

\* The main loop waits only for tasks whose results it will still be given:
\* an aborted task has no handle, and a handle is taken away with its result.
THEOREM NoLostJoin == Spec => []HandlesAreJoined
<1>1. IInv => HandlesAreJoined
  BY DEF IInv
<1> QED
  BY <1>1, Invariance, PTL

\* run_ranged reports success only with every byte handed to the file.
THEOREM WholeFile == Spec => []CompleteHasNoHole
<1>1. IInv => CompleteHasNoHole
  BY DEF IInv
<1> QED
  BY <1>1, Invariance, PTL

\* Without a crash, and unless cancel has removed the .part under tasks that
\* were alive, no run skips data that is not in the file: the bitmaps of
\* refresh_bitmap and the counters of resumable_bytes fit each other.  In
\* particular a .part removed between two runs, its bitmap left behind, does
\* not come back as a file to resume.
THEOREM SoundResumes == Spec => []ResumesAreSound
<1>1. IInv => ResumesAreSound
  BY DEF IInv
<1> QED
  BY <1>1, Invariance, PTL

(***************************************************************************)
(* The refinement of Filling.                                              *)
(***************************************************************************)

\* What the run counts as received.
Credit == IF Running THEN Counted(table) ELSE {}

\* No bitmap was false, and no .part taken away.
Trusted == sound /\ ~dropped

Stutter == UNCHANGED <<Phase, Credit, Written, Trusted>>

\* What Filling sees of a state are the phase, the credit and the file.
LEMMA StutterIs == Stutter <=> UNCHANGED Promise!vars
BY DEF Stutter, Promise!vars, Credit, Trusted

\* Every initial state of Ranged is one of Filling.
LEMMA InitRefines == Init => Promise!Init
<1> SUFFICES ASSUME Init PROVE Promise!Init
  OBVIOUS
<1>1. Written \in SUBSET Unit
  BY SizesAssumption DEF Init, Written, Unit
<1>2. Phase = "waiting" /\ ~Running /\ sound = TRUE /\ dropped = FALSE
  BY DEF Init, Phase, Running
<1> QED
  BY <1>1, <1>2 DEF Promise!Init

\* The phase that Filling sees, by the state of the main loop.
LEMMA PhaseIs ==
    ASSUME Control
    PROVE  /\ Running => result = "none" /\ Phase = "filling"
           /\ pc = "streaming" => result = "none" /\ Phase = "streaming"
BY DEF Control, Running, Phase

\* A run starts with what the file holds, or is found not to.
LEMMA OpenRefines ==
    ASSUME IInv, TypeOK', Open
    PROVE  Promise!Start
<1>1. Phase = "waiting" /\ Phase' = "filling" /\ Running'
  BY DEF Open, Phase, Running, IInv, Control
<1>2. Counted(table') \in SUBSET Unit
  BY OpenIs, CountedInFile DEF IInv
<1>3. /\ sound \in BOOLEAN /\ dropped \in BOOLEAN
      /\ dropped' = dropped
  BY DEF IInv, TypeOK, Open
<1>4. /\ Written' \in {Written, {}}
      /\ sound' = (sound /\ Counted(table') \subseteq Written')
  <2>1. CASE /\ Counted(table') = {} /\ sound' = sound
    <3>1. Written' \in {Written, {}}
      <4>1. UNCHANGED files \/ Unlink
        BY DEF Open
      <4> QED
        BY <4>1 DEF files, Unlink, Written
    <3> QED
      BY <1>3, <2>1, <3>1
  <2>2. CASE table' = Resumable(UNION meta) /\ UNCHANGED <<files, tasks>>
    <3>1. Written' = Written
      BY <2>2 DEF Written, files
    <3>2. \/ sound' = (sound /\ Counted(table') \subseteq Written)
          \/ sound' = sound /\ table' = BuildSegments
      BY DEF Open
    <3>3. Counted(BuildSegments) = {}
      BY BuildIs
    <3> QED
      BY <1>3, <3>1, <3>2, <3>3
  <2> QED
    BY <2>1, <2>2, OpenIs DEF IInv
<1>5. Trusted' = (Trusted /\ Counted(table') \subseteq Written')
  BY <1>3, <1>4 DEF Trusted
<1> QED
  BY <1>1, <1>2, <1>4, <1>5 DEF Promise!Start, Trusted

\* A chunk of the task that counts for its segment, or of one that does not.
LEMMA ChunkRefines ==
    ASSUME IInv, NEW t \in DOMAIN tasks, Chunk(t)
    PROVE  Promise!Next \/ Stutter
<1>1. tasks[t].pos \in Unit /\ TypeOK /\ TasksOK
  BY ChunkRange DEF IInv
<1>2. /\ UNCHANGED <<Phase, Running, Trusted>>
      /\ Written' = Written \cup Handed(t)
  <2>1. UNCHANGED <<pc, result, sound, dropped>>
    BY DEF Chunk, TaskKept, history
  <2> QED
    BY <1>1, <2>1, ChunkCounts DEF Phase, Running, Trusted
<1>3. CASE Running /\ Attached(t)
  <2>1. Counted(table') = Counted(table) \cup {tasks[t].pos}
    BY <1>1, <1>3, ChunkCounts
  <2>2. Phase = "filling"
    BY <1>3, PhaseIs DEF IInv
  <2>3. CASE tasks[t].lost
    <3>1. ~Trusted
      <4>1. tasks[t].index # Gone
        BY <1>1, <1>3, RangedAssumption DEF Attached, TypeOK, Index
      <4> QED
        BY <1>3, <2>3, <4>1 DEF OnPart, IInv, Trusted
    <3>2. Written' = Written
      BY <1>2, <2>3 DEF Handed
    <3>3. Promise!Receive(tasks[t].pos)
      BY <1>2, <1>3, <2>1, <2>2, <3>1, <3>2 DEF Promise!Receive, Trusted
    <3> QED
      BY <1>1, <3>3 DEF Promise!Next
  <2>4. CASE ~tasks[t].lost
    <3>1. Written' = Written \cup {tasks[t].pos}
      BY <1>2, <2>4 DEF Handed
    <3>2. Promise!Receive(tasks[t].pos)
      BY <1>2, <1>3, <2>1, <2>2, <3>1 DEF Promise!Receive, Trusted
    <3> QED
      BY <1>1, <3>2 DEF Promise!Next
  <2> QED
    BY <2>3, <2>4
<1>4. CASE ~(Running /\ Attached(t))
  <2>1. Running => Counted(table') = Counted(table)
    BY <1>1, <1>4, ChunkCounts
  <2>2. CASE tasks[t].lost
    <3>1. Written' = Written
      BY <1>2, <2>2 DEF Handed
    <3> QED
      BY <1>2, <2>1, <3>1 DEF Stutter, Credit
  <2>3. CASE ~tasks[t].lost
    <3>1. Written' = Written \cup {tasks[t].pos}
      BY <1>2, <2>3 DEF Handed
    <3>2. Promise!Stray(tasks[t].pos)
      BY <1>2, <2>1, <3>1 DEF Promise!Stray, Trusted
    <3> QED
      BY <1>1, <3>2 DEF Promise!Next
  <2> QED
    BY <2>2, <2>3
<1> QED
  BY <1>3, <1>4

\* The ends of a run.
LEMMA EndRefines ==
    ASSUME IInv, Ending
    PROVE  Promise!Next \/ Stutter
<1>1. pc' = "ended" /\ UNCHANGED <<sound, dropped, disk, behind>>
  BY EndingIs DEF IInv, history
<1>2. ~Running' /\ Written' = Written
  BY <1>1 DEF Running, Written
<1>3. CASE CancelArm
  <2>0. Running /\ result' = "cancelled"
    BY <1>3 DEF CancelArm, End, Running
  <2>1. Phase = "filling" /\ Phase' = "waiting"
    <3>1. Phase = "filling"
      BY <2>0, PhaseIs DEF IInv
    <3>2. Phase' = "waiting"
      BY <1>1, <2>0 DEF Phase, Running
    <3> QED
      BY <3>1, <3>2
  <2> QED
    BY <1>1, <1>2, <2>1 DEF Promise!Next, Promise!Stop, Trusted
<1>4. CASE Complete
  <2>1. pc = "complete" /\ result' \in {"ok", "incomplete"}
    BY <1>4 DEF Complete, End
  <2>2. Phase = "filling" /\ Running
    BY <2>1, PhaseIs DEF Running, IInv
  <2>3. CASE result' = "ok"
    <3>1. Counted(table) = Unit
      BY <2>1, AllIsWritten DEF IInv
    <3>2. Phase' = "done"
      BY <1>1, <2>3 DEF Phase, Running
    <3>3. Promise!Finish
      BY <1>1, <1>2, <2>2, <3>1, <3>2 DEF Promise!Finish, Trusted
    <3> QED
      BY <3>3 DEF Promise!Next
  <2>4. CASE result' = "incomplete"
    <3>1. Phase' = "waiting"
      BY <1>1, <2>4 DEF Phase, Running
    <3> QED
      BY <1>1, <1>2, <2>2, <3>1 DEF Promise!Next, Promise!Stop, Trusted
  <2> QED
    BY <2>1, <2>3, <2>4
<1>5. CASE Streamed
  <2>0. pc = "streaming" /\ result' = "degraded" /\ ~Running
    BY <1>5 DEF Streamed, End, Running
  <2>1. Phase = "streaming" /\ Phase' = "streaming" /\ ~Running
    <3>1. Phase = "streaming"
      BY <2>0, PhaseIs DEF IInv
    <3>2. Phase' = "streaming"
      BY <1>1, <2>0 DEF Phase, Running
    <3> QED
      BY <2>0, <3>1, <3>2
  <2> QED
    BY <1>1, <1>2, <2>1 DEF Stutter, Credit, Trusted
<1> QED
  BY <1>3, <1>4, <1>5 DEF Ending

\* Every step of Ranged is one of Filling, or a stutter.
LEMMA StepRefines ==
    ASSUME IInv, TypeOK', [Next]_vars
    PROVE  [Promise!Next]_(Promise!vars)
<1> USE DEF loop, history, files
<1>1. Control
  BY DEF IInv
<1>2. ASSUME UNCHANGED <<sound, dropped, result, disk, behind>>,
             Counted(table') = Counted(table),
             pc' = pc \/ (Running /\ Running')
      PROVE  Stutter
  <2>1. Running' <=> Running
    BY <1>2 DEF Running
  <2>2. Phase' = Phase
    <3>1. CASE Running
      <4>1. result' = "none" /\ Running' /\ Phase = "filling"
        BY <1>1, <1>2, <2>1, <3>1, PhaseIs
      <4>2. Phase' = "filling"
        BY <4>1 DEF Phase, Running
      <4> QED
        BY <4>1, <4>2
    <3>2. CASE ~Running
      <4>1. pc' = pc /\ result' = result
        BY <1>2, <3>2
      <4> QED
        BY <4>1 DEF Phase, Running
    <3> QED
      BY <3>1, <3>2
  <2> QED
    BY <1>2, <2>1, <2>2 DEF Stutter, Credit, Written, Trusted
<1>3. CASE Open
  BY <1>3, OpenRefines DEF Promise!Next
<1>4. CASE StartSegment \/ Launched \/ JoinArm \/ SampleArm \/ Cancel \/ UNCHANGED vars
  <2>1. UNCHANGED <<sound, dropped, result, table, disk, behind>>
    BY <1>4 DEF StartSegment, Launched, JoinArm, SampleArm, Cancel, vars
  <2>2. pc' = pc \/ (Running /\ Running')
    BY <1>4 DEF StartSegment, Launched, JoinArm, SampleArm, Cancel, vars, Running
  <2> QED
    BY <1>2, <2>1, <2>2, StutterIs
<1>5. CASE Ending
  BY <1>5, EndRefines, StutterIs
<1>6. CASE TrySplit
  <2>1. UNCHANGED <<sound, dropped, result, disk, behind>> /\ Running /\ Running'
    BY <1>6 DEF TrySplit, Running
  <2>2. Counted(table') = Counted(table)
    <3>1. CASE ~ UNCHANGED <<tasks, handles, table, next>>
      <4>1. PICK i \in DOMAIN table :
             Remaining(table[i]) >= MinSplit /\ table' = SplitTable(i)
        BY <1>6, <3>1, TrySplitIs DEF IInv
      <4> QED
        BY <4>1, TypeParts, SplitIs DEF LoopTyped, Control, IInv
    <3> QED
      BY <3>1
  <2> QED
    BY <1>2, <2>1, <2>2, StutterIs
<1>7. CASE Fallback
  <2>1. /\ Running /\ pc' = "streaming" /\ ~Running' /\ Written' = {}
        /\ UNCHANGED <<result, sound, dropped>>
    BY <1>7 DEF Fallback, Running, Unlink, Written
  <2>2. Phase = "filling" /\ result = "none"
    BY <1>1, <2>1, PhaseIs
  <2>3. Phase' = "streaming"
    BY <2>1, <2>2 DEF Phase, Running
  <2> QED
    BY <2>1, <2>2, <2>3 DEF Promise!Next, Promise!GiveUp
<1>8. ASSUME NEW t \in DOMAIN tasks, Chunk(t)
      PROVE  [Promise!Next]_(Promise!vars)
  BY <1>8, ChunkRefines, StutterIs
<1>9. ASSUME NEW t \in DOMAIN tasks,
             \/ Request(t) \/ Retry(t) \/ Finish(t)
             \/ Exhaust(t) \/ SeeCancel(t) \/ Die(t)
      PROVE  Stutter
  <2>1. UNCHANGED <<pc, result, sound, dropped, table>>
    BY <1>9 DEF TaskKept, Request, Retry, Finish, Exhaust, SeeCancel, Die
  <2>2. Written' = Written
    <3>1. CASE Finish(t)
      BY <3>1, FinishIs DEF IInv
    <3>2. CASE ~Finish(t)
      BY <1>9, <3>2 DEF Request, Retry, Exhaust, SeeCancel, Die, Written
    <3> QED
      BY <3>1, <3>2
  <2> QED
    BY <2>1, <2>2 DEF Stutter, Phase, Credit, Running, Trusted
<1>10. CASE DropPart
  <2>1. /\ UNCHANGED <<pc, result, sound, table>> /\ Written' = {}
        /\ result # "ok"
        /\ dropped' = (dropped \/ pc \notin {"idle", "ended"} \/ Live # {})
    BY <1>10 DEF DropPart, Unlink, Written
  <2>2. /\ UNCHANGED <<Phase, Credit>> /\ (Running' <=> Running)
        /\ Phase # "done"
    BY <2>1 DEF Phase, Credit, Running
  <2>3. Trusted' \in {FALSE, Trusted /\ Phase = "waiting"}
    <3>1. CASE pc \in {"idle", "ended"} /\ Live = {} /\ Phase = "waiting"
      <4>1. dropped' = dropped /\ dropped \in BOOLEAN /\ sound \in BOOLEAN
        BY <2>1, <3>1 DEF IInv, TypeOK
      <4> QED
        BY <2>1, <3>1, <4>1 DEF Trusted
    <3>2. CASE pc \notin {"idle", "ended"} \/ Live # {}
      BY <2>1, <3>2 DEF Trusted
    <3>3. CASE pc \in {"idle", "ended"} /\ Phase # "waiting"
      <4>1. result \in {"ok", "degraded"}
        BY <3>3 DEF Phase, Running
      <4> QED
        BY <1>10, <4>1 DEF DropPart
    <3> QED
      BY <3>1, <3>2, <3>3
  <2> QED
    BY <2>1, <2>2, <2>3 DEF Promise!Next, Promise!Drop, Credit, Trusted
<1>11. CASE Crash
  <2>1. /\ pc' = "idle" /\ result' = "none" /\ UNCHANGED <<sound, dropped>>
        /\ result \notin {"ok", "degraded"} /\ Written' \in SUBSET Written
    BY <1>11 DEF Crash, Written
  <2>2. Phase' = "waiting" /\ Phase \in {"waiting", "filling", "streaming"} /\ ~Running'
    BY <2>1 DEF Phase, Running
  <2> QED
    BY <2>1, <2>2 DEF Promise!Next, Promise!Crash, Trusted
<1> QED
  BY <1>3, <1>4, <1>5, <1>6, <1>7, <1>8, <1>9, <1>10, <1>11, StutterIs
     DEF Next, Loop, TaskStep, Ending

\* Every step of run_ranged and of its tasks is one that Filling allows, or
\* changes nothing that Filling sees.
THEOREM RangedFillsUp == Spec => FillsUp
<1>1. IInv => TypeOK
  BY DEF IInv
<1>2. IInv /\ TypeOK' /\ [Next]_vars => [Promise!Next]_(Promise!vars)
  BY StepRefines
<1> QED
  BY <1>1, <1>2, InitRefines, Invariance, PTL DEF Spec, FillsUp, Promise!Spec
=============================================================================
