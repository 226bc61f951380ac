-------------------------------- MODULE Ranged --------------------------------
(***************************************************************************)
(* The segmented download of one file (engine.rs: run_ranged, run_segment, *)
(* try_segment_once, try_split), with the pauses, restarts and crashes     *)
(* between its runs.                                                       *)
(*                                                                         *)
(* The main loop keeps a table of segments by index and the abort handles  *)
(* of the running ones, by index too; the segment tasks run beside it and  *)
(* share each segment's counter with the table; a task whose segment has   *)
(* been split is left with a counter that nothing else reads.  A chunk is  *)
(* one unit; it is counted when the write is handed over, and on disk for  *)
(* certain when the task's next operation on the file has waited for it    *)
(* (tokio::fs::File writes behind).                                        *)
(***************************************************************************)
EXTENDS Segments

CONSTANTS
    MinSplit,     \* MIN_SPLIT_REMAINING
    Permits,      \* size of the global segment_sem
    Slot,         \* bound: segment tasks alive or unjoined at a time
    MaxRuns,      \* bound: times run_ranged is entered
    Gone          \* index of a task whose run has ended

ASSUME RangedAssumption ==
    /\ MinSplit \in Nat /\ MinSplit >= 2
    /\ Permits \in Nat \ {0}
    /\ Slot \subseteq Nat /\ IsFiniteSet(Slot)
    /\ MaxRuns \in Nat
    /\ Gone \notin Nat

VARIABLES
    pc, result,
    cancelled,   \* ctx.cancel
    runs,        \* bound: runs so far
    table,       \* segments: index -> segment
    handles,     \* seg_handles: index -> task
    next,        \* seg_counter
    degraded,
    tasks,       \* the segment tasks, in the JoinSet or still ending
    exists,      \* is there a .part?
    disk,        \* the units on disk in it
    behind,      \* units handed over, perhaps not on disk yet
    meta,        \* the saved bitmap: {} for none, else {bits}
    crashes,     \* observed: did the process crash?
    dropped,     \* observed: was the .part removed while tasks were alive?
    sound        \* observed: has every run resumed from true bits only?

loop == <<table, handles, next, degraded>>
files == <<exists, disk, behind, meta>>
history == <<runs, crashes, dropped, sound>>
vars == <<pc, result, cancelled, loop, tasks, files, history>>

Index == Nat

\* `killed' is set by abort() and takes effect at the next await; `lost': the
\* file the task has open is the .part no more.
Task == [index : Index \cup {Gone}, start : Unit, end : Unit, pos : Nat,
         killed : BOOLEAN, lost : BOOLEAN,
         at : {"start", "body", "ok", "exhausted", "cancelled", "aborted"}]

Live == {t \in DOMAIN tasks : tasks[t].at \in {"start", "body"}}
Joinable == {t \in DOMAIN tasks \ Live : tasks[t].index # Gone}

TypeOK ==
    /\ pc \in {"idle", "launch", "select", "sampled", "complete",
               "fallback", "streaming", "ended"}
    /\ result \in {"none", "ok", "cancelled", "incomplete", "degraded"}
    /\ cancelled \in BOOLEAN /\ degraded \in BOOLEAN
    /\ exists \in BOOLEAN
    /\ sound \in BOOLEAN /\ crashes \in BOOLEAN /\ dropped \in BOOLEAN
    /\ runs \in 0..MaxRuns
    /\ DOMAIN table \subseteq Index
    /\ \A i \in DOMAIN table : /\ table[i] \in Segment
                               /\ table[i].downloaded <= SegmentLen(table[i])
    /\ DOMAIN handles \subseteq DOMAIN table
    /\ \A i \in DOMAIN handles : handles[i] \in DOMAIN tasks
    /\ next \in Nat
    /\ DOMAIN tasks \subseteq Slot
    /\ \A t \in DOMAIN tasks : tasks[t] \in Task
    /\ Cardinality(Live) <= Permits
    /\ disk \subseteq Unit /\ behind \subseteq Unit
    /\ meta \in SUBSET SUBSET Block

\* A .part may be left from a streamed attempt; it has no bitmap.
Init ==
    /\ pc = "idle" /\ result = "none" /\ cancelled = FALSE
    /\ table = <<>> /\ handles = <<>> /\ next = 0 /\ degraded = FALSE
    /\ tasks = <<>>
    /\ exists \in BOOLEAN
    /\ disk = IF exists THEN {0} ELSE {}
    /\ behind = {} /\ meta = {}
    /\ runs = 0 /\ crashes = FALSE /\ dropped = FALSE /\ sound = TRUE

Without(f, x) == Restrict(f, DOMAIN f \ {x})
With(f, x, v) == [y \in DOMAIN f \cup {x} |-> IF y = x THEN v ELSE f[y]]

\* Dropping the JoinSet aborts what is left in it; the tasks end on their own.
Abandoned(ts) ==
    [t \in {u \in DOMAIN ts : ts[u].at \in {"start", "body"}} |->
        [ts[t] EXCEPT !.index = Gone, !.killed = TRUE]]

\* The file is unlinked: who has it open writes on, but not to the .part.
Unlinked(ts) ==
    [t \in DOMAIN ts |-> IF ts[t].at = "body"
                           THEN [ts[t] EXCEPT !.lost = TRUE] ELSE ts[t]]

Unlink == exists' = FALSE /\ disk' = {} /\ behind' = {}

Written == disk \cup behind

-----------------------------------------------------------------------------
(* run_ranged: the start                                                   *)

\* Without a bitmap of this very download both files are dropped; with one,
\* the counters start from it if there is a .part.  The bitmap is saved again
\* in either case.
Resumable(bits) ==
    [i \in DOMAIN BuildSegments |->
        [Piece(i) EXCEPT !.downloaded = ResumableBytes(Piece(i), bits)]]

Counted(tb) == UNION {Received(tb[i]) : i \in DOMAIN tb}

Open ==
    /\ pc = "idle" \/ result \in {"cancelled", "incomplete"}
    /\ runs < MaxRuns
    /\ runs' = runs + 1
    /\ pc' = "launch" /\ result' = "none" /\ cancelled' = FALSE
    /\ handles' = <<>> /\ next' = Pieces /\ degraded' = FALSE
    /\ \E same \in BOOLEAN :
         IF same /\ meta # {}
           THEN /\ table' = IF exists THEN Resumable(UNION meta) ELSE BuildSegments
                /\ sound' = (sound /\ Counted(table') \subseteq Written)
                /\ UNCHANGED <<files, tasks>>
           ELSE /\ table' = BuildSegments
                /\ Unlink /\ tasks' = Unlinked(tasks)
                /\ meta' = {{}}
                /\ UNCHANGED sound
    /\ UNCHANGED <<crashes, dropped>>

-----------------------------------------------------------------------------
(* run_ranged: the loop                                                    *)

Pending == {i \in DOMAIN table \ DOMAIN handles : ~Finished(table[i])}

\* Other downloads hold any number of the permits that this one does not,
\* so that try_acquire may fail whenever it is called.
PermitLeft == Cardinality(Live) < Permits

\* One turn of the loop that starts pending segments.
StartSegment ==
    /\ pc = "launch" /\ ~degraded /\ Pending # {}
    /\ Cardinality(DOMAIN handles) < MaxSegments
    /\ PermitLeft
    /\ Slot \ DOMAIN tasks # {}
    /\ LET i == Min(Pending)
           t == Min(Slot \ DOMAIN tasks)
       IN  /\ tasks' = With(tasks, t,
                 [index |-> i, start |-> table[i].start, end |-> table[i].end,
                  pos |-> 0, killed |-> FALSE, lost |-> FALSE, at |-> "start"])
           /\ handles' = With(handles, i, t)
    /\ UNCHANGED <<pc, result, cancelled, table, next, degraded, files,
                   history>>

\* No segment is pending, or there is no permit for it.  With no task
\* running, the loop is over: the file is complete, or else a segment is
\* taken to have failed.
Launched ==
    /\ pc = "launch"
    /\ LET finished == \A i \in DOMAIN table : Finished(table[i]) IN
         /\ degraded' = (degraded \/ (DOMAIN handles = {} /\ ~finished))
         /\ pc' = IF DOMAIN handles # {} THEN "select"
                  ELSE IF degraded' THEN "fallback" ELSE "complete"
    /\ UNCHANGED <<result, cancelled, table, handles, next, tasks, files,
                   history>>

\* run_ranged returns, and its JoinSet is dropped.
End(r) ==
    /\ pc' = "ended" /\ result' = r
    /\ tasks' = Abandoned(tasks)
    /\ table' = <<>> /\ handles' = <<>> /\ next' = 0 /\ degraded' = FALSE
    /\ UNCHANGED <<cancelled, history>>

\* The select is biased: the token first, then the tasks that have ended, the
\* sampling last.
CancelArm ==
    /\ pc = "select" /\ cancelled
    /\ meta' = {RefreshBitmap(table)}
    /\ End("cancelled")
    /\ UNCHANGED <<exists, disk, behind>>

\* Mutant: a segment that fails does not degrade the download at once.
JoinArm_Lenient ==
    /\ pc = "select" /\ ~cancelled
    /\ \E t \in Joinable :
         /\ tasks' = Without(tasks, t)
         /\ handles' = IF tasks[t].at = "aborted" THEN handles
                       ELSE Without(handles, tasks[t].index)
    /\ pc' = "launch"
    /\ UNCHANGED <<result, cancelled, table, next, degraded, files, history>>

\* The result carries the index of its segment, and the handle under that
\* index is removed.  An aborted task is skipped.
JoinArm ==
    /\ pc = "select" /\ ~cancelled
    /\ \E t \in Joinable :
         /\ tasks' = Without(tasks, t)
         /\ IF tasks[t].at = "aborted"
              THEN UNCHANGED <<handles, degraded>>
              ELSE /\ handles' = Without(handles, tasks[t].index)
                   /\ degraded' = (degraded \/ tasks[t].at = "exhausted")
    /\ pc' = "launch"
    /\ UNCHANGED <<result, cancelled, table, next, files, history>>

\* join_next of an empty JoinSet answers at once, so that the loop spins and
\* never samples: hence the last guard.
SampleArm ==
    /\ pc = "select" /\ ~cancelled /\ Joinable = {}
    /\ \E t \in DOMAIN tasks : tasks[t].index # Gone
    /\ meta' = {RefreshBitmap(table)}
    /\ pc' = "sampled"
    /\ UNCHANGED <<result, cancelled, loop, tasks, exists, disk, behind,
                   history>>

\* try_split, after the await of the save: the running segment with the most
\* left to receive.
Target == {i \in DOMAIN handles :
             /\ Remaining(table[i]) >= MinSplit
             /\ \A j \in DOMAIN handles : Remaining(table[j]) <= Remaining(table[i])}

CanSplit ==
    /\ ~degraded
    /\ Cardinality(DOMAIN handles) < MaxSegments
    /\ PermitLeft
    /\ Target # {}

SplitTable(i) == With([table EXCEPT ![i] = LowerHalf(table[i])],
                      next, UpperHalf(table[i]))

\* Mutant: the handle of the aborted task stays.
TrySplit_KeepsHandle ==
    /\ pc = "sampled"
    /\ pc' = "launch"
    /\ \/ /\ CanSplit
          /\ \E i \in Target :
                /\ tasks' = [tasks EXCEPT ![handles[i]].killed = handles[i] \in Live]
                /\ table' = SplitTable(i)
                /\ next' = next + 1
       \/ UNCHANGED <<tasks, table, next>>
    /\ UNCHANGED <<result, cancelled, handles, degraded, files, history>>

TrySplit ==
    /\ pc = "sampled"
    /\ pc' = "launch"
    /\ \/ /\ CanSplit
          /\ \E i \in Target :
                /\ tasks' = [tasks EXCEPT ![handles[i]].killed = handles[i] \in Live]
                /\ handles' = Without(handles, i)
                /\ table' = SplitTable(i)
                /\ next' = next + 1
       \/ UNCHANGED <<tasks, handles, table, next>>
    /\ UNCHANGED <<result, cancelled, degraded, files, history>>

\* Every block must be complete, and the file as long as announced.
FileLen(units) == IF units = {} THEN 0 ELSE Max(units) + 1

Complete ==
    /\ pc = "complete"
    /\ \E late \in SUBSET behind :
         IF FileLen(disk \cup (behind \ late)) = Total /\ AllComplete(RefreshBitmap(table))
           THEN End("ok") /\ meta' = {}
           ELSE End("incomplete") /\ UNCHANGED meta
    /\ UNCHANGED <<exists, disk, behind>>

\* download_full_fallback; the stream itself is Transfer's.
Fallback ==
    /\ pc = "fallback"
    /\ pc' = "streaming"
    /\ Unlink /\ meta' = {}
    /\ tasks' = Unlinked(tasks)
    /\ UNCHANGED <<result, cancelled, loop, history>>

Streamed ==
    /\ pc = "streaming"
    /\ End("degraded")
    /\ UNCHANGED files

-----------------------------------------------------------------------------
(* A segment task                                                          *)

Attached(t) ==
    LET task == tasks[t] IN
    /\ task.index \in DOMAIN table
    /\ table[task.index].start = task.start
    /\ table[task.index].end = task.end

Counter(t) == IF Attached(t) THEN table[tasks[t].index].downloaded
              ELSE tasks[t].pos - tasks[t].start

TaskKept == UNCHANGED <<pc, result, cancelled, handles, next, degraded, meta,
                        history>>

\* A task that ends returns its permit.
Ends(t, how) ==
    tasks' = [tasks EXCEPT ![t].at = how, ![t].pos = 0, ![t].lost = FALSE]

\* What the task has handed over before its position is on disk.
Synced(t) == IF tasks[t].lost THEN {} ELSE behind \cap {tasks[t].pos - 1}
Handed(t) == IF tasks[t].lost THEN {} ELSE {tasks[t].pos}

\* The request is answered with the range asked for, and the .part opened; a
\* segment that needs nothing more is done.
Request(t) ==
    /\ tasks[t].at = "start" /\ ~tasks[t].killed
    /\ LET from == tasks[t].start + Counter(t) IN
         IF from > tasks[t].end
           THEN Ends(t, "ok") /\ UNCHANGED exists
           ELSE /\ tasks' = [tasks EXCEPT ![t].at = "body", ![t].pos = from]
                /\ exists' = TRUE
    /\ UNCHANGED <<table, disk, behind>> /\ TaskKept

\* Mutant: a body longer than the segment is written out.
Chunk_Uncut(t) ==
    /\ tasks[t].at = "body" /\ tasks[t].pos \in Unit
    /\ behind' = (behind \ Synced(t)) \cup Handed(t)
    /\ disk' = disk \cup Synced(t)
    /\ table' = IF Attached(t)
                  THEN [table EXCEPT ![tasks[t].index].downloaded = @ + 1]
                  ELSE table
    /\ IF tasks[t].killed
         THEN Ends(t, "aborted")
         ELSE tasks' = [tasks EXCEPT ![t].pos = @ + 1]
    /\ UNCHANGED exists /\ TaskKept

\* A chunk is cut to what is left of the segment.  The file takes it when
\* the chunk before is on disk.  An aborted task may do this once more.
Chunk(t) ==
    /\ tasks[t].at = "body"
    /\ Counter(t) < tasks[t].end - tasks[t].start + 1
    /\ behind' = (behind \ Synced(t)) \cup Handed(t)
    /\ disk' = disk \cup Synced(t)
    /\ table' = IF Attached(t)
                  THEN [table EXCEPT ![tasks[t].index].downloaded = @ + 1]
                  ELSE table
    /\ IF tasks[t].killed
         THEN Ends(t, "aborted")
         ELSE tasks' = [tasks EXCEPT ![t].pos = @ + 1]
    /\ UNCHANGED exists /\ TaskKept

\* A network error, the watchdog, a body too short or too long: the task
\* tries again.
Retry(t) ==
    /\ tasks[t].at = "body" /\ ~tasks[t].killed
    /\ tasks' = [tasks EXCEPT ![t].at = "start", ![t].pos = 0, ![t].lost = FALSE]
    /\ UNCHANGED <<table, exists, disk, behind>> /\ TaskKept

\* The end of the body, with everything received and synced.
Finish(t) ==
    /\ tasks[t].at = "body" /\ ~tasks[t].killed
    /\ Counter(t) >= tasks[t].end - tasks[t].start + 1
    /\ Ends(t, "ok")
    /\ behind' = behind \ Synced(t)
    /\ disk' = disk \cup Synced(t)
    /\ UNCHANGED <<table, exists>> /\ TaskKept

\* Retries and mirrors used up, or a server that ignores the range.
Exhaust(t) ==
    /\ t \in Live /\ tasks[t].index # Gone
    /\ Ends(t, "exhausted")
    /\ UNCHANGED <<table, exists, disk, behind>> /\ TaskKept

SeeCancel(t) ==
    /\ t \in Live /\ cancelled /\ ~tasks[t].killed
    /\ Ends(t, "cancelled")
    /\ UNCHANGED <<table, exists, disk, behind>> /\ TaskKept

\* The next await of an aborted task; no one joins it once its run is over.
\* If it was opening the .part, the open goes through, and creates the file.
Die(t) ==
    /\ t \in Live /\ tasks[t].killed
    /\ exists' \in {exists, exists \/ tasks[t].at = "start"}
    /\ IF tasks[t].index = Gone
         THEN tasks' = Without(tasks, t)
         ELSE Ends(t, "aborted")
    /\ UNCHANGED <<table, disk, behind>> /\ TaskKept

-----------------------------------------------------------------------------
(* Around the run                                                          *)

Cancel ==
    /\ pc \notin {"idle", "ended"} /\ ~cancelled
    /\ cancelled' = TRUE
    /\ UNCHANGED <<pc, result, loop, tasks, files, history>>

\* Manager::cancel removes the .part, and only that, once the worker it has
\* found has returned: an older worker may be in the middle of a run, and
\* tasks of one that is over may still be ending.
DropPart ==
    /\ exists /\ result \notin {"ok", "degraded"}
    /\ Unlink /\ tasks' = Unlinked(tasks)
    /\ dropped' = (dropped \/ pc \notin {"idle", "ended"} \/ Live # {})
    /\ UNCHANGED <<pc, result, cancelled, loop, meta, runs, crashes, sound>>

\* The process is killed, and any of the writes under way is lost.
Crash ==
    /\ pc # "idle" /\ result \notin {"ok", "degraded"}
    /\ pc' = "idle" /\ result' = "none" /\ cancelled' = FALSE
    /\ table' = <<>> /\ handles' = <<>> /\ next' = 0 /\ degraded' = FALSE
    /\ tasks' = <<>>
    /\ \E lost \in SUBSET behind : disk' = disk \cup (behind \ lost)
    /\ behind' = {}
    /\ crashes' = TRUE
    /\ UNCHANGED <<exists, meta, runs, dropped, sound>>

-----------------------------------------------------------------------------

Loop == StartSegment \/ Launched \/ CancelArm \/ JoinArm \/ SampleArm
        \/ TrySplit \/ Complete \/ Fallback \/ Streamed

TaskStep ==
    \E t \in DOMAIN tasks :
        \/ Request(t) \/ Chunk(t) \/ Retry(t) \/ Finish(t)
        \/ Exhaust(t) \/ SeeCancel(t) \/ Die(t)

Next == Open \/ Loop \/ TaskStep \/ Cancel \/ DropPart \/ Crash

Spec == Init /\ [][Next]_vars

-----------------------------------------------------------------------------
(* Properties                                                              *)

Running == pc \in {"launch", "select", "sampled", "complete", "fallback"}

\* Through every split, at whatever counter the abort catches the task, the
\* segments of the table cover the file without an overlap: refresh_bitmap
\* adds their parts of a block up on that account.
SegmentsTile == Running => Tiles(table)

\* A unit is counted only if it is written or on its way to the file, though
\* counters are inherited, shared with tasks and set from the bitmap.  (A run
\* that has resumed from a false bitmap, or whose .part was removed, is
\* excepted.)
CountedIsWritten == Running /\ sound /\ ~dropped => Counted(table) \subseteq Written

\* No two tasks write one segment and count into one counter (run_ranged
\* starts a segment when there is no handle under its index).
OneTaskPerSegment ==
    \A t, u \in Live :
        Attached(t) /\ Attached(u) /\ tasks[t].index = tasks[u].index => t = u

\* Every handle is that of a task the JoinSet will still yield: the loop
\* never waits for a result that does not come.
HandlesAreJoined ==
    \A i \in DOMAIN handles :
        /\ handles[i] \in DOMAIN tasks
        /\ tasks[handles[i]].index = i
        /\ ~tasks[handles[i]].killed

\* A file declared complete has every unit (run_ranged's last check).
CompleteHasNoHole == result = "ok" /\ sound /\ ~dropped => Written = Unit

\* Pauses, cancellations and retries alone never make a run skip data that is
\* not in the file, also when a cancellation between two runs has removed the
\* .part and left the bitmap (resumable_bytes).  It does happen when the .part
\* is removed while tasks are alive: one that is ending can create it anew.
ResumesAreSound == ~crashes /\ ~dropped => sound

Phase ==
    CASE Running -> "filling"
      [] pc = "streaming" \/ result = "degraded" -> "streaming"
      [] result = "ok" -> "done"
      [] OTHER -> "waiting"

Promise == INSTANCE Filling WITH
    phase <- Phase,
    credit <- IF Running THEN Counted(table) ELSE {},
    file <- Written,
    trusted <- sound /\ ~dropped

\* Through splits, aborts, late writes and joins, a run does nothing but hand
\* over unit after unit, count the one it has just handed over, never lose
\* one again, and end with all, some or none (run_ranged implements Filling).
FillsUp == Promise!Spec

-----------------------------------------------------------------------------
(* What the source says, and the code does not do                          *)

\* engine.rs, run_ranged: "绝不跳过未确认的数据"; also after a crash.
NothingIsSkipped == ~dropped => sound

\* engine.rs, run_ranged: "拿不到就本轮不启动，等下轮".  A download is only
\* degraded because a segment has failed, not because of missing permits.
DegradedBySegment ==
    [][degraded' /\ ~degraded => \E t \in DOMAIN tasks : tasks[t].at = "exhausted"]_vars

\* engine.rs, run_ranged: "某段永久失败且无活跃段 → 降级整文件重试".  The stream
\* that rewrites the .part is alone on it.
FallbackIsAlone == pc = "streaming" => \A t \in Live : tasks[t].killed
=============================================================================
