------------------------------- MODULE Transfer -------------------------------
(***************************************************************************)
(* One run of the engine for one task (engine.rs: run, run_once,           *)
(* run_streamed, try_streamed_once, run_segment, finalize_verified): the   *)
(* sniffing request, the retries, the rotation of mirrors by the stream    *)
(* and by the segments, the hand-over to the segmented path and back, the  *)
(* verification and its one repetition.                                    *)
(*                                                                         *)
(* A source has a fixed way of answering.  Bytes are reduced to whose they *)
(* are: `part' is the set of origins the .part has bytes of.  How segments *)
(* are cut, split and joined is the module Ranged; one thing it shows is   *)
(* taken from there: a segment task may outlive the loop that has started  *)
(* it, and go on beside the stream or the verification.                    *)
(***************************************************************************)
EXTENDS Integers, Sequences

CONSTANTS
    Source,       \* the task's URL and its mirrors
    Orders,       \* the lists of sources the worker may start with
    Worlds,       \* the ways the sources may answer
    MaxRetries,   \* max_retries
    Seg           \* the segments of the segmented path

ASSUME OrdersAssumption == Orders \subseteq Seq(Source) \ {<<>>}

\* How a source answers: good bytes, bytes that fail the verification, no
\* byte at all, a 4xx, a body that breaks off, a body that stalls.
Kind == {"good", "bad", "dead", "gone", "cuts", "stalls"}

ASSUME WorldsAssumption == Worlds \subseteq [Source -> Kind]
ASSUME RetriesAssumption == MaxRetries \in Nat
ASSUME SourceAssumption == Source \cap {"file", "stale", "new", "done", "out"} = {}
ASSUME SegAssumption == Seg # {}

VARIABLES
    kind,       \* kind[s]: how source s answers
    cancelled,  \* ctx.cancel
    urls,       \* ctx.urls, shared by the stream and the segments
    url,        \* the source the stream is asking
    part,       \* origins the .part has bytes of
    final,      \* origins the renamed file has bytes of
    ranged,     \* ctx.ranged_attempted
    attempt,    \* retries on the current source
    got,        \* did this attempt receive bytes?
    redone,     \* run has repeated the download after a failed verification
    at,         \* at[i]: the source segment i asks, or how far it is
    strays,     \* the segment task that nobody waits for, if there is one
    beside,     \* observed: has there been one since run_once began?
    handovers,  \* observed: times the segmented path was entered since redone
    pc, result

list == <<urls, url>>
files == <<part, final>>
counts == <<ranged, attempt, got, redone, handovers>>
segments == <<at, strays, beside>>
vars == <<kind, cancelled, list, files, counts, segments, pc, result>>

Step == {"reuse", "loop", "request", "body", "backoff", "reuse_sized",
         "ranged_open", "ranged", "verify_stream", "verify_ranged",
         "verify_copy", "rename", "renamed", "mismatch", "ended"}

\* Beside the sources, a local file, with the bytes of its digest or others.
Local == {"file", "stale"}
Origin == Source \cup Local

\* The file a stray task has open: none, the .part, or what was the .part
\* and is the destination now.  An aborted one is not live.
Stray == [asks : Source, file : {"none", "part", "final"}, live : BOOLEAN]

TypeOK ==
    /\ kind \in [Source -> Kind]
    /\ cancelled \in BOOLEAN
    /\ urls \in Seq(Source) /\ urls # <<>>
    /\ url \in Source
    /\ part \subseteq Origin /\ final \subseteq Origin
    /\ ranged \in BOOLEAN /\ got \in BOOLEAN /\ redone \in BOOLEAN
    /\ attempt \in 0..MaxRetries
    /\ at \in [Seg -> Source \cup {"new", "done", "out"}]
    /\ strays \subseteq Stray /\ beside \in BOOLEAN
    /\ handovers \in 0..2
    /\ pc \in Step
    /\ result \in {"none", "ok", "cancelled", "failed", "refused"}

Listed == {urls[i] : i \in DOMAIN urls}

\* The .part may be left from an earlier run of the task.
Init ==
    /\ urls \in Orders /\ url = urls[1]
    /\ kind \in Worlds
    /\ cancelled = FALSE
    /\ part \in {{}} \cup {{s} : s \in Listed}
    /\ final = {}
    /\ ranged = FALSE /\ attempt = 0 /\ got = FALSE /\ redone = FALSE
    /\ at = [i \in Seg |-> "new"] /\ strays = {} /\ beside = FALSE
    /\ handovers = 0
    /\ pc = "reuse" /\ result = "none"

HasOther == Len(urls) > 1

\* Mutant: the current source changes places with the next.
Rotate_Swaps == urls' = <<urls[2], urls[1]>> \o SubSeq(urls, 3, Len(urls))

\* mirror_url: the first source goes to the end of the list; who has called
\* it asks the new first one.
Rotate == urls' = Tail(urls) \o <<Head(urls)>>

\* How the world takes a request.
Answers(s) == kind[s] \notin {"dead", "gone"}
Delivers(s) == kind[s] \in {"good", "bad"}

Goto(from, to) == pc = from /\ pc' = to

Ended(r) == pc' = "ended" /\ result' = r

Kept == UNCHANGED <<kind, cancelled>>

-----------------------------------------------------------------------------
(* run_once                                                                *)

\* try_local_reuse: no file, or none looked for as the size is not known; or
\* a hit, by a digest that may be out of date.  The file is copied over the
\* .part and goes to the verification.
Reuse(to) ==
    \/ pc' = to /\ UNCHANGED part
    \/ pc' = "verify_copy" /\ part' \in {{f} : f \in Local}

\* Every run_once starts with no segmented attempt made.
ReuseFirst ==
    /\ pc = "reuse" /\ Reuse("loop")
    /\ ranged' = FALSE /\ attempt' = 0 /\ url' = urls[1]
    /\ UNCHANGED <<urls, final, got, redone, handovers, segments, result>>
    /\ Kept

\* Mutant: the segmented attempt is not remembered.
ReuseSized_Forgets ==
    /\ pc = "reuse_sized" /\ Reuse("ranged_open")
    /\ UNCHANGED <<list, final, counts, segments, result>> /\ Kept

\* After NeedsRanged, now that the size is known.
ReuseSized ==
    /\ pc = "reuse_sized" /\ Reuse("ranged_open")
    /\ ranged' = TRUE
    /\ UNCHANGED <<list, final, attempt, got, redone, handovers, segments, result>>
    /\ Kept

-----------------------------------------------------------------------------
(* run_streamed                                                            *)

\* Mutant: the loop does not look at the token.
LoopHead_Blind ==
    /\ Goto("loop", "request")
    /\ got' = FALSE
    /\ UNCHANGED <<list, files, ranged, attempt, redone, handovers, segments,
                   result>>
    /\ Kept

LoopHead ==
    /\ pc = "loop"
    /\ IF cancelled
         THEN Ended("cancelled")
         ELSE pc' = "request" /\ UNCHANGED result
    /\ got' = FALSE
    /\ UNCHANGED <<list, files, ranged, attempt, redone, handovers, segments>>
    /\ Kept

\* A failed attempt: which source is next, and whether to give up.  A 4xx or
\* a stall leaves the source at once if there is another, and so does an
\* attempt without a byte; otherwise the source gets max_retries retries.
LeaveSource(fatal, stalled) == HasOther /\ (fatal \/ stalled \/ ~got)

NextSource ==
    /\ Rotate /\ url' = urls'[1]
    /\ attempt' = 0 /\ pc' = "loop" /\ UNCHANGED result

Again ==
    /\ attempt' = attempt + 1 /\ pc' = "backoff"
    /\ UNCHANGED <<list, result>>

\* Mutant: one retry more than max_retries.
Failed_OneMore(fatal, stalled) ==
    \/ LeaveSource(fatal, stalled) /\ NextSource
    \/ ~LeaveSource(fatal, stalled) /\ attempt <= MaxRetries /\ Again
    \/ /\ ~LeaveSource(fatal, stalled) /\ attempt > MaxRetries
       /\ IF HasOther THEN NextSource
                      ELSE Ended("failed") /\ UNCHANGED <<list, attempt>>

\* Mutant: with the retries used up the download fails, mirrors or not.
Failed_GivesUp(fatal, stalled) ==
    \/ LeaveSource(fatal, stalled) /\ NextSource
    \/ ~LeaveSource(fatal, stalled) /\ attempt < MaxRetries /\ Again
    \/ /\ ~LeaveSource(fatal, stalled) /\ attempt = MaxRetries
       /\ Ended("failed") /\ UNCHANGED <<list, attempt>>

Failed(fatal, stalled) ==
    \/ LeaveSource(fatal, stalled) /\ NextSource
    \/ ~LeaveSource(fatal, stalled) /\ attempt < MaxRetries /\ Again
    \/ /\ ~LeaveSource(fatal, stalled) /\ attempt = MaxRetries
       /\ IF HasOther THEN NextSource
                      ELSE Ended("failed") /\ UNCHANGED <<list, attempt>>

\* What a failed attempt leaves alone.
FailedKept == UNCHANGED <<files, ranged, got, redone, handovers, segments>> /\ Kept

\* No response: a timeout waiting for the headers counts as stalled, a
\* refused connection or a 5xx does not.
NoAnswer ==
    /\ pc = "request" /\ kind[url] = "dead"
    /\ \E stalled \in BOOLEAN : Failed(FALSE, stalled)
    /\ FailedKept

Refused ==
    /\ pc = "request" /\ kind[url] = "gone"
    /\ Failed(TRUE, FALSE)
    /\ FailedKept

\* The headers tell of a large file and of Range support: this stream is
\* dropped, the .part kept for the segmented path.
NeedsRanged ==
    /\ ~ranged /\ kind[url] # "gone"
    /\ Goto("request", "reuse_sized")
    /\ handovers' = handovers + 1
    /\ UNCHANGED <<list, files, ranged, attempt, got, redone, segments, result>>
    /\ Kept

\* The .part is gone: a task that has it open goes on writing to no file.
Detached == {IF x.file = "part" THEN [x EXCEPT !.file = "none"] ELSE x : x \in strays}

\* Mutant: the .part is opened without being removed first.
Accept_Appends ==
    /\ kind[url] # "gone"
    /\ Goto("request", "body")
    /\ UNCHANGED <<list, files, counts, segments, result>> /\ Kept

\* The body is written from the start: what the .part held is removed first.
Accept ==
    /\ kind[url] # "gone"
    /\ Goto("request", "body")
    /\ part' = {} /\ strays' = Detached
    /\ UNCHANGED <<list, final, counts, at, beside, result>> /\ Kept

Chunk ==
    /\ pc = "body" /\ kind[url] # "dead" /\ url \notin part
    /\ got' = TRUE
    /\ part' = part \cup {url}
    /\ UNCHANGED <<list, final, ranged, attempt, redone, handovers, segments,
                   pc, result>>
    /\ Kept

\* A network error, a body shorter than announced, or an empty one.  The
\* bytes are counted together with those of a stray task.
BreakOff ==
    /\ pc = "body" /\ (kind[url] \in {"cuts", "dead"} \/ strays # {})
    /\ Failed(FALSE, FALSE)
    /\ FailedKept

\* The watchdog: no byte for idle_timeout.
Stall ==
    /\ pc = "body" /\ kind[url] \in {"stalls", "dead"}
    /\ Failed(FALSE, TRUE)
    /\ FailedKept

EndOfBody ==
    /\ url \in part /\ Delivers(url)
    /\ Goto("body", "verify_stream")
    /\ UNCHANGED <<list, files, counts, segments, result>> /\ Kept

\* The select loops of the body and of the backoff watch the token.
CancelSeen ==
    /\ cancelled /\ pc \in {"body", "backoff"}
    /\ Ended("cancelled")
    /\ UNCHANGED <<list, files, counts, segments>> /\ Kept

Backoff ==
    /\ Goto("backoff", "loop")
    /\ UNCHANGED <<list, files, counts, segments, result>> /\ Kept

-----------------------------------------------------------------------------
(* The segmented path, as run_once sees it                                 *)

\* Too little space ends the run.  A .part whose bitmap does not match is
\* dropped; with one that does, segments may be done already.
RangedOpen ==
    /\ pc = "ranged_open"
    /\ \/ /\ pc' = "ranged" /\ UNCHANGED result
          /\ \/ part' = {} /\ UNCHANGED at
             \/ /\ part # {} /\ UNCHANGED part
                /\ at' \in [Seg -> {"new", "done"}]
       \/ Ended("refused") /\ UNCHANGED <<part, at>>
    /\ UNCHANGED <<list, final, counts, strays, beside>> /\ Kept

Running == {i \in Seg : at[i] \in Source}
AllDone == \A i \in Seg : at[i] = "done"
GivenUp == \E i \in Seg : at[i] = "out"

\* What the steps of one segment task leave alone.
SegmentKept ==
    UNCHANGED <<url, final, counts, strays, beside, pc, result>> /\ Kept

\* With a slot and a permit; after a failed segment no other is started.
SegStart(i) ==
    /\ pc = "ranged" /\ at[i] = "new" /\ ~GivenUp
    /\ at' = [at EXCEPT ![i] = urls[1]]
    /\ UNCHANGED <<urls, part>> /\ SegmentKept

SegGot(i) ==
    /\ pc = "ranged" /\ i \in Running /\ Answers(at[i])
    /\ part' = part \cup {at[i]}
    /\ at' = [at EXCEPT ![i] = "done"]
    /\ UNCHANGED urls /\ SegmentKept

\* The list is the one of all segments: whoever turns it asks its new head,
\* the others go on with the source they have.
SegFails(i) ==
    /\ pc = "ranged" /\ i \in Running /\ ~Delivers(at[i]) /\ HasOther
    /\ part' \in {part} \cup (IF Answers(at[i]) THEN {part \cup {at[i]}} ELSE {})
    /\ Rotate /\ at' = [at EXCEPT ![i] = urls'[1]]
    /\ SegmentKept

\* The only source fails, or a source ignores the range.
SegOut(i) ==
    /\ pc = "ranged" /\ i \in Running
    /\ IF HasOther THEN Answers(at[i]) ELSE TRUE
    /\ at' = [at EXCEPT ![i] = "out"]
    /\ UNCHANGED <<urls, part>> /\ SegmentKept

SegTask(i) == SegGot(i) \/ SegFails(i) \/ SegOut(i)

\* The loop of run_ranged is left.
SegmentsLeft == at' = [i \in Seg |-> "new"]

\* A task that was aborted within a write may have that write to do.
RangedComplete ==
    /\ AllDone
    /\ Goto("ranged", "verify_ranged")
    /\ \/ strays' = {}
       \/ \E s \in part \cap Source :
              strays' = {[asks |-> s, file |-> "part", live |-> FALSE]}
    /\ beside' = (beside \/ strays' # {})
    /\ SegmentsLeft
    /\ UNCHANGED <<list, files, counts, result>> /\ Kept

\* The file is shorter than it should be, or cannot be read: no retry.
RangedIncomplete ==
    /\ pc = "ranged" /\ AllDone /\ Ended("refused")
    /\ SegmentsLeft
    /\ UNCHANGED <<list, files, counts, strays, beside>> /\ Kept

\* download_full_fallback: the .part goes, and the whole file is streamed.
\* The tasks are aborted only when that is over, so one whose handle was
\* lost when another segment failed goes on.
RangedDegrade ==
    /\ Running = {} /\ ~AllDone
    /\ Goto("ranged", "loop")
    /\ part' = {} /\ attempt' = 0 /\ url' = urls[1]
    /\ \/ strays' = {}
       \/ \E s \in Listed : /\ GivenUp
                            /\ strays' = {[asks |-> s, file |-> "none", live |-> TRUE]}
    /\ beside' = (beside \/ strays' # {})
    /\ SegmentsLeft
    /\ UNCHANGED <<urls, final, ranged, got, redone, handovers, result>> /\ Kept

RangedCancelled ==
    /\ pc = "ranged" /\ cancelled /\ Ended("cancelled")
    /\ SegmentsLeft
    /\ UNCHANGED <<list, files, counts, strays, beside>> /\ Kept

RangedEnd == RangedComplete \/ RangedIncomplete \/ RangedDegrade \/ RangedCancelled

-----------------------------------------------------------------------------
(* A segment task that nobody waits for                                    *)

StrayKept == UNCHANGED <<url, ranged, attempt, redone, handovers, at, beside, pc, result>> /\ Kept

\* It opens the .part with create and without truncate.
StrayOpens ==
    /\ \E x \in strays :
         /\ pc # "ended" /\ x.live /\ x.file = "none" /\ Answers(x.asks)
         /\ strays' = {[x EXCEPT !.file = "part"]}
    /\ UNCHANGED <<urls, files, got>> /\ StrayKept

\* What it has open may be the destination meanwhile.  Its bytes are counted
\* like the stream's.
StrayWrites ==
    /\ \E x \in strays :
         /\ pc # "ended" /\ x.file # "none"
         /\ IF x.file = "part"
              THEN part' = part \cup {x.asks} /\ UNCHANGED final
              ELSE final' = final \cup {x.asks} /\ UNCHANGED part
         /\ got' = (got \/ x.live)
    /\ UNCHANGED <<urls, strays>> /\ StrayKept

StrayFails ==
    /\ HasOther
    /\ \E x \in strays :
         /\ pc # "ended" /\ x.live /\ ~Delivers(x.asks)
         /\ Rotate /\ strays' = {[x EXCEPT !.asks = urls'[1], !.file = "none"]}
    /\ UNCHANGED <<files, got>> /\ StrayKept

StrayEnds ==
    /\ strays # {} /\ pc # "ended" /\ strays' = {}
    /\ UNCHANGED <<urls, files, got>> /\ StrayKept

-----------------------------------------------------------------------------
(* finalize_verified and the repetition in run                             *)

Spoilt(b) == IF b \in Local THEN b = "stale" ELSE kind[b] = "bad"

\* Mutant: the digest of a local hit is not computed again.
Hash_TrustsCopy ==
    /\ pc \in {"verify_stream", "verify_ranged", "verify_copy"}
    /\ pc' = IF pc # "verify_copy" /\ (\E b \in part : Spoilt(b)) THEN "mismatch" ELSE "rename"
    /\ UNCHANGED <<list, files, counts, segments, result>> /\ Kept

Hash ==
    /\ pc \in {"verify_stream", "verify_ranged", "verify_copy"}
    /\ pc' = IF \E b \in part : Spoilt(b) THEN "mismatch" ELSE "rename"
    /\ UNCHANGED <<list, files, counts, segments, result>> /\ Kept

\* finalize_part, after the digest and an fsync.
Rename ==
    /\ Goto("rename", "renamed")
    /\ final' = part /\ part' = {}
    /\ strays' = {IF x.file = "part" THEN [x EXCEPT !.file = "final"] ELSE x : x \in strays}
    /\ UNCHANGED <<list, counts, at, beside, result>> /\ Kept

Return ==
    /\ pc = "renamed" /\ Ended("ok")
    /\ UNCHANGED <<list, files, counts, segments>> /\ Kept

\* Mutant: the download starts over on the same source.
Mismatch_Stays ==
    /\ pc = "mismatch"
    /\ part' = {} /\ strays' = {} /\ beside' = FALSE
    /\ IF redone
         THEN Ended("failed") /\ UNCHANGED <<redone, handovers>>
         ELSE /\ redone' = TRUE /\ handovers' = 0
              /\ pc' = "reuse" /\ UNCHANGED result
    /\ UNCHANGED <<list, final, ranged, attempt, got, at>> /\ Kept

\* The first ChecksumMismatch starts over on the next source.  The tasks of
\* run_ranged are aborted before the .part is removed.
Mismatch ==
    /\ pc = "mismatch"
    /\ part' = {} /\ strays' = {} /\ beside' = FALSE
    /\ IF redone
         THEN Ended("failed") /\ UNCHANGED <<urls, redone, handovers>>
         ELSE /\ redone' = TRUE /\ handovers' = 0
              /\ pc' = "reuse" /\ UNCHANGED result
              /\ IF HasOther THEN Rotate ELSE UNCHANGED urls
    /\ UNCHANGED <<url, final, ranged, attempt, got, at>> /\ Kept

-----------------------------------------------------------------------------

Cancel ==
    /\ ~cancelled /\ pc # "ended"
    /\ cancelled' = TRUE
    /\ UNCHANGED <<kind, list, files, counts, segments, pc, result>>

\* The steps of the engine's own task outside the loop of run_ranged.
Engine ==
    \/ ReuseFirst \/ ReuseSized
    \/ LoopHead \/ NoAnswer \/ Refused \/ NeedsRanged \/ Accept
    \/ Chunk \/ BreakOff \/ Stall \/ EndOfBody \/ CancelSeen \/ Backoff
    \/ RangedOpen \/ Hash \/ Rename \/ Return \/ Mismatch

StrayTask == StrayOpens \/ StrayWrites \/ StrayFails \/ StrayEnds

Next ==
    \/ Engine \/ RangedEnd \/ StrayTask \/ Cancel
    \/ \E i \in Seg : SegStart(i) \/ SegTask(i)

\* Every wait of the engine and of a segment has a timeout.  That a segment
\* is started is not asked: the permits are everybody's.
Spec ==
    /\ Init /\ [][Next]_vars
    /\ WF_vars(Engine) /\ WF_vars(RangedEnd)
    /\ \A i \in Seg : WF_vars(SegTask(i))

-----------------------------------------------------------------------------
(* Properties                                                              *)

\* With no lost task beside it, whatever becomes the destination file has
\* been verified and not been written since, on any way from the first byte
\* to the rename: copied, streamed, segmented, degraded or resumed
\* (finalize_verified, finalize_part).
CompletedIsVerified == ~beside => \A b \in final : ~Spoilt(b)

\* With no lost task beside it, a streamed body that is verified is one
\* attempt's: no earlier attempt, mirror, copy or segment has left bytes
\* behind it (try_streamed_once opens the .part without truncating it).
NoResidue == pc = "verify_stream" /\ ~beside => part = {url}

\* The two paths do not bounce: one download hands over to the segmented
\* path once at most, also when that degrades (ranged_attempted).
NoBounce == handovers <= 1

\* The segments rotate one list, each for itself.  Still, with a good source
\* among the others somebody gets to it, as often as it takes: the segmented
\* path is left (run_segment, mirror_url).
SegmentsArrive ==
    (\E i \in DOMAIN urls : kind[urls[i]] = "good")
    => (pc = "ranged" ~> pc # "ranged")

\* The download succeeds whatever the other sources do, while one is good,
\* none sends corrupt data, no local file is stale, no space or file error
\* ends the run and no lost task is beside the stream (run_streamed).
GoodSourceWins ==
    (/\ \E i \in DOMAIN urls : kind[urls[i]] = "good"
     /\ \A s \in Source : kind[s] # "bad"
     /\ []("stale" \notin part))
    => <>(cancelled \/ beside \/ result \in {"ok", "refused"})

\* One repetition is enough and all there is.  A single corrupt source does
\* not fail a streamed download that has a good one; with none but corrupt
\* sources the download ends (run).
OneRepetition ==
    /\ (/\ \E i \in DOMAIN urls : kind[urls[i]] = "good"
        /\ \A s, t \in Source : kind[s] = "bad" /\ kind[t] = "bad" => s = t
        /\ []("stale" \notin part) /\ [](handovers = 0))
       => <>(cancelled \/ result = "ok")
    /\ (\A s \in Source : kind[s] = "bad") => <>(beside \/ pc = "ended")

\* A cancelled token ends the run wherever it is.
CancelEnds == cancelled ~> pc = "ended"

\* task.rs, TaskState::Failed: "失败（重试/镜像耗尽）".  A download whose
\* sources all fail, and that finds no local file, comes to an end.
MirrorsRunOut ==
    (\A s \in Source : kind[s] \in {"dead", "gone"}) /\ [](part \cap Local = {})
    => <>(pc = "ended")
=============================================================================
