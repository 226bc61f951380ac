---------------------------- MODULE TransferProofs ----------------------------
(***************************************************************************)
(* Proofs about Transfer: the safety invariants of one engine run, for any *)
(* sources, lists of them, ways of answering, segments and retries.        *)
(***************************************************************************)
EXTENDS Transfer, TLAPS

(***************************************************************************)
(* The inductive invariant.                                                *)
(***************************************************************************)

\* A stray task is noticed.
Noticed == strays # {} => beside

\* With no stray, the .part has the bytes of the attempt under way only.
OneAttempt ==
    ~beside => /\ pc = "body" => part \subseteq {url}
               /\ NoResidue

\* A hand-over is remembered in `ranged' until run starts over.
HandedOver ==
    /\ NoBounce
    /\ handovers = 1 => ranged \/ pc = "reuse_sized"
    /\ pc = "reuse" => handovers = 0

\* Before the rename there is no destination file and nobody has it open.
NotRenamed ==
    pc \notin {"renamed", "ended"} =>
        final = {} /\ \A x \in strays : x.file # "final"

\* Between the digest and the rename the .part does not change for the worse.
Digested ==
    /\ pc = "rename" /\ ~beside => \A b \in part : ~Spoilt(b)
    /\ CompletedIsVerified

IInv == TypeOK /\ Noticed /\ OneAttempt /\ HandedOver /\ NotRenamed /\ Digested

\* mirror_url keeps the length; each source but the first comes one place
\* forward, and the first is now the last.
LEMMA RotatedList ==
    ASSUME NEW sources \in Seq(Source), sources # <<>>
    PROVE  LET next == Tail(sources) \o <<Head(sources)>>
           IN  /\ next \in Seq(Source) /\ Len(next) = Len(sources)
               /\ \A i \in 1..Len(sources) :
                      next[i] = sources[IF i < Len(sources) THEN i + 1 ELSE 1]
<1>1. PICK n \in Nat \ {0} : n = Len(sources)
  OBVIOUS
<1>2. /\ Tail(sources) \in Seq(Source) /\ Len(Tail(sources)) = n - 1
      /\ \A i \in 1..n-1 : Tail(sources)[i] = sources[i + 1]
  BY <1>1
<1>3. Head(sources) \in Source /\ Head(sources) = sources[1]
  OBVIOUS
<1>4. PICK rest \in Seq(Source) : rest = Tail(sources)
  BY <1>2
<1>5. <<Head(sources)>> \in Seq(Source) /\ Len(<<Head(sources)>>) = 1
  BY <1>3
<1>6. (rest \o <<Head(sources)>>) \in Seq(Source) /\ Len(rest \o <<Head(sources)>>) = n
  BY <1>1, <1>2, <1>4, <1>5
<1>7. ASSUME NEW i \in 1..n
      PROVE  (rest \o <<Head(sources)>>)[i] = sources[IF i < n THEN i + 1 ELSE 1]
  <2>1. CASE i < n
    BY <1>1, <1>2, <1>3, <1>4, <2>1
  <2>2. CASE ~(i < n)
    BY <1>1, <1>2, <1>3, <1>4, <2>2
  <2> QED
    BY <2>1, <2>2
<1> QED
  BY <1>1, <1>4, <1>6, <1>7

\* What the types need of a rotation, from any state.
LEMMA RotateKeeps ==
    ASSUME TypeOK, Rotate
    PROVE  urls' \in Seq(Source) /\ urls' # <<>> /\ urls'[1] \in Source
<1>1. urls \in Seq(Source) /\ urls # <<>>
  BY DEF TypeOK
<1>2. /\ (Tail(urls) \o <<Head(urls)>>) \in Seq(Source)
      /\ Len(Tail(urls) \o <<Head(urls)>>) = Len(urls)
  BY <1>1, RotatedList
<1>3. urls' \in Seq(Source) /\ Len(urls') = Len(urls)
  BY <1>2 DEF Rotate
<1>4. PICK n \in Nat : n = Len(urls')
  BY <1>3
<1>5. n # 0
  BY <1>1, <1>3, <1>4
<1> QED
  BY <1>3, <1>4, <1>5

(***************************************************************************)
(* The parts of the invariant, action by action.                           *)
(***************************************************************************)

\* The types.
LEMMA TypeStep ==
    ASSUME TypeOK, HandedOver, [Next]_vars
    PROVE  TypeOK'
<1> USE RetriesAssumption DEF TypeOK, HandedOver, NoBounce, Step, Origin, Local,
        Stray, list, files, counts, segments
<1>1. ASSUME ReuseFirst PROVE TypeOK'
  <2>1. attempt' \in 0..MaxRetries
    BY <1>1 DEF ReuseFirst
  <2>2. part' \subseteq Origin /\ pc' \in Step
    BY <1>1 DEF ReuseFirst, Reuse
  <2>3. ranged' \in BOOLEAN
    BY <1>1, Zenon DEF ReuseFirst
  <2>4. url' \in Source
    BY <1>1 DEF ReuseFirst
  <2> QED
    BY <1>1, <2>1, <2>2, <2>3, <2>4 DEF ReuseFirst, Kept
<1>2. ASSUME ReuseSized PROVE TypeOK'
  BY <1>2 DEF ReuseSized, Reuse, Kept
<1>3. ASSUME LoopHead PROVE TypeOK'
  BY <1>3 DEF LoopHead, Ended, Kept
<1>4. ASSUME NoAnswer PROVE TypeOK'
  BY <1>4, RotateKeeps DEF NoAnswer, Failed, LeaveSource, NextSource, Again, Ended, FailedKept, Rotate, Kept
<1>5. ASSUME Refused PROVE TypeOK'
  BY <1>5, RotateKeeps DEF Refused, Failed, LeaveSource, NextSource, Again, Ended, FailedKept, Rotate, Kept
<1>6. ASSUME NeedsRanged PROVE TypeOK'
  BY <1>6 DEF NeedsRanged, Goto, Kept
<1>7. ASSUME Accept PROVE TypeOK'
  BY <1>7 DEF Accept, Goto, Detached, Kept
<1>8. ASSUME Chunk PROVE TypeOK'
  BY <1>8 DEF Chunk, Kept
<1>9. ASSUME BreakOff PROVE TypeOK'
  BY <1>9, RotateKeeps DEF BreakOff, Failed, LeaveSource, NextSource, Again, Ended, FailedKept, Rotate, Kept
<1>10. ASSUME Stall PROVE TypeOK'
  BY <1>10, RotateKeeps DEF Stall, Failed, LeaveSource, NextSource, Again, Ended, FailedKept, Rotate, Kept
<1>11. ASSUME EndOfBody PROVE TypeOK'
  BY <1>11 DEF EndOfBody, Goto, Kept
<1>12. ASSUME CancelSeen PROVE TypeOK'
  BY <1>12 DEF CancelSeen, Ended, Kept
<1>13. ASSUME Backoff PROVE TypeOK'
  BY <1>13 DEF Backoff, Goto, Kept
<1>14. ASSUME RangedOpen PROVE TypeOK'
  BY <1>14 DEF RangedOpen, Ended, Kept
<1>15. ASSUME Hash PROVE TypeOK'
  BY <1>15 DEF Hash, Spoilt, Kept
<1>16. ASSUME Rename PROVE TypeOK'
  BY <1>16 DEF Rename, Goto, Kept
<1>17. ASSUME Return PROVE TypeOK'
  BY <1>17 DEF Return, Ended, Kept
<1>18. ASSUME Mismatch PROVE TypeOK'
  <2>1. urls' \in Seq(Source) /\ urls' # <<>>
    BY <1>18, RotateKeeps DEF Mismatch
  <2>2. redone' \in BOOLEAN /\ beside' \in BOOLEAN
    <3>1. redone' = redone \/ redone' = TRUE
      BY <1>18 DEF Mismatch
    <3> QED
      BY <1>18, <3>1, Zenon DEF Mismatch
  <2>3. handovers' \in 0..2
    BY <1>18 DEF Mismatch
  <2>4. pc' \in Step /\ result' \in {"none", "ok", "cancelled", "failed", "refused"}
    BY <1>18 DEF Mismatch, Ended
  <2> QED
    BY <1>18, <2>1, <2>2, <2>3, <2>4 DEF Mismatch, Kept
<1>19. ASSUME RangedComplete PROVE TypeOK'
  <2>1. strays' \subseteq Stray
    <3>2. strays' = {} \/ \E s \in Source : strays' = {[asks |-> s, file |-> "part", live |-> FALSE]}
      BY <1>19 DEF RangedComplete
    <3>3. \A s \in Source : [asks |-> s, file |-> "part", live |-> FALSE] \in Stray
      OBVIOUS
    <3>4. CASE strays' = {}
      BY <3>4
    <3>5. ASSUME NEW s \in Source, strays' = {[asks |-> s, file |-> "part", live |-> FALSE]} PROVE strays' \subseteq Stray
      <4>1. PICK x \in Stray : x = [asks |-> s, file |-> "part", live |-> FALSE]
        BY <3>3
      <4> QED
        BY <3>5, <4>1
    <3> QED
      BY <3>2, <3>4, <3>5
  <2>2. beside' \in BOOLEAN
    <3>1. beside' = (beside \/ strays' # {})
      BY <1>19 DEF RangedComplete
    <3> QED
      BY <3>1, Zenon
  <2>3. at' \in [Seg -> Source \cup {"new", "done", "out"}] /\ pc' \in Step
    BY <1>19 DEF RangedComplete, SegmentsLeft, Goto
  <2> QED
    BY <1>19, <2>1, <2>2, <2>3 DEF RangedComplete, Kept
<1>20. ASSUME RangedIncomplete PROVE TypeOK'
  BY <1>20 DEF RangedIncomplete, Ended, SegmentsLeft, Kept
<1>21. ASSUME RangedDegrade PROVE TypeOK'
  <2>1. strays' \subseteq Stray
    <3>1. Listed \subseteq Source
      BY DEF Listed
    <3>2. strays' = {} \/ \E s \in Source : strays' = {[asks |-> s, file |-> "none", live |-> TRUE]}
      BY <1>21, <3>1 DEF RangedDegrade
    <3>3. \A s \in Source : [asks |-> s, file |-> "none", live |-> TRUE] \in Stray
      OBVIOUS
    <3>4. CASE strays' = {}
      BY <3>4
    <3>5. ASSUME NEW s \in Source, strays' = {[asks |-> s, file |-> "none", live |-> TRUE]} PROVE strays' \subseteq Stray
      <4>1. PICK x \in Stray : x = [asks |-> s, file |-> "none", live |-> TRUE]
        BY <3>3
      <4> QED
        BY <3>5, <4>1
    <3> QED
      BY <3>2, <3>4, <3>5
  <2>2. beside' \in BOOLEAN
    <3>1. beside' = (beside \/ strays' # {})
      BY <1>21 DEF RangedDegrade
    <3> QED
      BY <3>1, Zenon
  <2>3. at' \in [Seg -> Source \cup {"new", "done", "out"}] /\ pc' \in Step
    BY <1>21 DEF RangedDegrade, SegmentsLeft, Goto
  <2>4. attempt' \in 0..MaxRetries /\ url' \in Source
    BY <1>21 DEF RangedDegrade
  <2> QED
    BY <1>21, <2>1, <2>2, <2>3, <2>4 DEF RangedDegrade, Kept
<1>22. ASSUME RangedCancelled PROVE TypeOK'
  BY <1>22 DEF RangedCancelled, Ended, SegmentsLeft, Kept
<1>23. ASSUME StrayOpens PROVE TypeOK'
  BY <1>23 DEF StrayOpens, StrayKept, Kept
<1>24. ASSUME StrayWrites PROVE TypeOK'
  BY <1>24 DEF StrayWrites, StrayKept, Kept
<1>25. ASSUME StrayFails PROVE TypeOK'
  <2>1. PICK x \in strays :
          Rotate /\ strays' = {[x EXCEPT !.asks = urls'[1], !.file = "none"]}
    BY <1>25 DEF StrayFails
  <2>2. urls' \in Seq(Source) /\ urls' # <<>> /\ urls'[1] \in Source
    BY <2>1, RotateKeeps
  <2>3. PICK a \in Source : a = urls'[1]
    BY <2>2
  <2>4. strays' = {[x EXCEPT !.asks = a, !.file = "none"]}
    BY <2>1, <2>3
  <2>5. strays' \subseteq Stray
    BY <2>1, <2>4
  <2> QED
    BY <1>25, <2>2, <2>5 DEF StrayFails, StrayKept, Kept
<1>26. ASSUME StrayEnds PROVE TypeOK'
  BY <1>26 DEF StrayEnds, StrayKept, Kept
<1>27. ASSUME Cancel PROVE TypeOK'
  BY <1>27 DEF Cancel
<1>28. ASSUME NEW i \in Seg, SegStart(i) PROVE TypeOK'
  BY <1>28 DEF SegStart, SegmentKept, Kept
<1>29. ASSUME NEW i \in Seg, SegGot(i) PROVE TypeOK'
  <2>1. i \in Seg /\ at[i] \in Source
    BY <1>29 DEF SegGot, Running
  <2>2. part' \subseteq Origin
    BY <1>29, <2>1 DEF SegGot
  <2>3. at' \in [Seg -> Source \cup {"new", "done", "out"}]
    BY <1>29 DEF SegGot
  <2> QED
    BY <1>29, <2>2, <2>3 DEF SegGot, SegmentKept, Kept
<1>30. ASSUME NEW i \in Seg, SegFails(i) PROVE TypeOK'
  <2>1. at[i] \in Source
    BY <1>30 DEF SegFails, Running
  <2>2. part' \subseteq Origin
    BY <1>30, <2>1 DEF SegFails
  <2>3. urls' \in Seq(Source) /\ urls' # <<>> /\ urls'[1] \in Source
    BY <1>30, RotateKeeps DEF SegFails
  <2>4. at' \in [Seg -> Source \cup {"new", "done", "out"}]
    BY <1>30, <2>3 DEF SegFails
  <2> QED
    BY <1>30, <2>2, <2>3, <2>4 DEF SegFails, SegmentKept, Kept
<1>31. ASSUME NEW i \in Seg, SegOut(i) PROVE TypeOK'
  BY <1>31 DEF SegOut, SegmentKept, Kept
<1>32. CASE UNCHANGED vars
  BY <1>32 DEF vars
<1> QED
  BY <1>1, <1>2, <1>3, <1>4, <1>5, <1>6, <1>7, <1>8, <1>9, <1>10, <1>11,
     <1>12, <1>13, <1>14, <1>15, <1>16, <1>17, <1>18, <1>19, <1>20,
     <1>21, <1>22, <1>23, <1>24, <1>25, <1>26, <1>27, <1>28, <1>29,
     <1>30, <1>31, <1>32
  DEF Next, Engine, RangedEnd, StrayTask, SegTask

\* A stray task is noticed when it comes to be.
LEMMA NoticedStep ==
    ASSUME TypeOK, Noticed, [Next]_vars
    PROVE  Noticed'
<1> USE DEF Noticed, list, files, counts, segments
<1>1. ASSUME ReuseFirst PROVE Noticed'
  BY <1>1 DEF ReuseFirst, Reuse, Kept
<1>2. ASSUME ReuseSized PROVE Noticed'
  BY <1>2 DEF ReuseSized, Reuse, Kept
<1>3. ASSUME LoopHead PROVE Noticed'
  BY <1>3 DEF LoopHead, Ended, Kept
<1>4. ASSUME NoAnswer PROVE Noticed'
  BY <1>4 DEF NoAnswer, Failed, LeaveSource, NextSource, Again, Ended, FailedKept, Rotate, Kept
<1>5. ASSUME Refused PROVE Noticed'
  BY <1>5 DEF Refused, Failed, LeaveSource, NextSource, Again, Ended, FailedKept, Rotate, Kept
<1>6. ASSUME NeedsRanged PROVE Noticed'
  BY <1>6 DEF NeedsRanged, Goto, Kept
<1>7. ASSUME Accept PROVE Noticed'
  BY <1>7 DEF Accept, Goto, Detached, Kept
<1>8. ASSUME Chunk PROVE Noticed'
  BY <1>8 DEF Chunk, Kept
<1>9. ASSUME BreakOff PROVE Noticed'
  BY <1>9 DEF BreakOff, Failed, LeaveSource, NextSource, Again, Ended, FailedKept, Rotate, Kept
<1>10. ASSUME Stall PROVE Noticed'
  BY <1>10 DEF Stall, Failed, LeaveSource, NextSource, Again, Ended, FailedKept, Rotate, Kept
<1>11. ASSUME EndOfBody PROVE Noticed'
  BY <1>11 DEF EndOfBody, Goto, Kept
<1>12. ASSUME CancelSeen PROVE Noticed'
  BY <1>12 DEF CancelSeen, Ended, Kept
<1>13. ASSUME Backoff PROVE Noticed'
  BY <1>13 DEF Backoff, Goto, Kept
<1>14. ASSUME RangedOpen PROVE Noticed'
  BY <1>14 DEF RangedOpen, Ended, Kept
<1>15. ASSUME Hash PROVE Noticed'
  BY <1>15 DEF Hash, Spoilt, Kept
<1>16. ASSUME Rename PROVE Noticed'
  BY <1>16 DEF Rename, Goto, Kept
<1>17. ASSUME Return PROVE Noticed'
  BY <1>17 DEF Return, Ended, Kept
<1>18. ASSUME Mismatch PROVE Noticed'
  BY <1>18 DEF Mismatch, Ended, Kept
<1>19. ASSUME RangedComplete PROVE Noticed'
  BY <1>19 DEF RangedComplete, Goto, SegmentsLeft, Kept
<1>20. ASSUME RangedIncomplete PROVE Noticed'
  BY <1>20 DEF RangedIncomplete, Ended, SegmentsLeft, Kept
<1>21. ASSUME RangedDegrade PROVE Noticed'
  BY <1>21 DEF RangedDegrade, Goto, SegmentsLeft, Kept
<1>22. ASSUME RangedCancelled PROVE Noticed'
  BY <1>22 DEF RangedCancelled, Ended, SegmentsLeft, Kept
<1>23. ASSUME StrayOpens PROVE Noticed'
  BY <1>23 DEF StrayOpens, StrayKept, Kept
<1>24. ASSUME StrayWrites PROVE Noticed'
  BY <1>24 DEF StrayWrites, StrayKept, Kept
<1>25. ASSUME StrayFails PROVE Noticed'
  BY <1>25 DEF StrayFails, StrayKept, Kept
<1>26. ASSUME StrayEnds PROVE Noticed'
  BY <1>26 DEF StrayEnds, StrayKept, Kept
<1>27. ASSUME Cancel PROVE Noticed'
  BY <1>27 DEF Cancel
<1>28. ASSUME NEW i \in Seg, SegStart(i) PROVE Noticed'
  BY <1>28 DEF SegStart, SegmentKept, Kept
<1>29. ASSUME NEW i \in Seg, SegGot(i) PROVE Noticed'
  BY <1>29 DEF SegGot, SegmentKept, Kept
<1>30. ASSUME NEW i \in Seg, SegFails(i) PROVE Noticed'
  BY <1>30 DEF SegFails, SegmentKept, Kept
<1>31. ASSUME NEW i \in Seg, SegOut(i) PROVE Noticed'
  BY <1>31 DEF SegOut, SegmentKept, Kept
<1>32. CASE UNCHANGED vars
  BY <1>32 DEF vars
<1> QED
  BY <1>1, <1>2, <1>3, <1>4, <1>5, <1>6, <1>7, <1>8, <1>9, <1>10, <1>11,
     <1>12, <1>13, <1>14, <1>15, <1>16, <1>17, <1>18, <1>19, <1>20,
     <1>21, <1>22, <1>23, <1>24, <1>25, <1>26, <1>27, <1>28, <1>29,
     <1>30, <1>31, <1>32
  DEF Next, Engine, RangedEnd, StrayTask, SegTask

\* One attempt's bytes in the .part, from the response to the verification.
LEMMA AttemptStep ==
    ASSUME TypeOK, Noticed, OneAttempt, [Next]_vars
    PROVE  OneAttempt'
<1> USE DEF TypeOK, Noticed, OneAttempt, NoResidue, list, files, counts, segments
<1>1. ASSUME ReuseFirst PROVE OneAttempt'
  BY <1>1 DEF ReuseFirst, Reuse, Kept
<1>2. ASSUME ReuseSized PROVE OneAttempt'
  BY <1>2 DEF ReuseSized, Reuse, Kept
<1>3. ASSUME LoopHead PROVE OneAttempt'
  BY <1>3 DEF LoopHead, Ended, Kept
<1>4. ASSUME NoAnswer PROVE OneAttempt'
  BY <1>4 DEF NoAnswer, Failed, LeaveSource, NextSource, Again, Ended, FailedKept, Rotate, Kept
<1>5. ASSUME Refused PROVE OneAttempt'
  BY <1>5 DEF Refused, Failed, LeaveSource, NextSource, Again, Ended, FailedKept, Rotate, Kept
<1>6. ASSUME NeedsRanged PROVE OneAttempt'
  BY <1>6 DEF NeedsRanged, Goto, Kept
<1>7. ASSUME Accept PROVE OneAttempt'
  BY <1>7 DEF Accept, Goto, Detached, Kept
<1>8. ASSUME Chunk PROVE OneAttempt'
  BY <1>8 DEF Chunk, Kept
<1>9. ASSUME BreakOff PROVE OneAttempt'
  BY <1>9 DEF BreakOff, Failed, LeaveSource, NextSource, Again, Ended, FailedKept, Rotate, Kept
<1>10. ASSUME Stall PROVE OneAttempt'
  BY <1>10 DEF Stall, Failed, LeaveSource, NextSource, Again, Ended, FailedKept, Rotate, Kept
<1>11. ASSUME EndOfBody PROVE OneAttempt'
  BY <1>11 DEF EndOfBody, Goto, Kept
<1>12. ASSUME CancelSeen PROVE OneAttempt'
  BY <1>12 DEF CancelSeen, Ended, Kept
<1>13. ASSUME Backoff PROVE OneAttempt'
  BY <1>13 DEF Backoff, Goto, Kept
<1>14. ASSUME RangedOpen PROVE OneAttempt'
  BY <1>14 DEF RangedOpen, Ended, Kept
<1>15. ASSUME Hash PROVE OneAttempt'
  BY <1>15 DEF Hash, Spoilt, Kept
<1>16. ASSUME Rename PROVE OneAttempt'
  BY <1>16 DEF Rename, Goto, Kept
<1>17. ASSUME Return PROVE OneAttempt'
  BY <1>17 DEF Return, Ended, Kept
<1>18. ASSUME Mismatch PROVE OneAttempt'
  BY <1>18 DEF Mismatch, Ended, Kept
<1>19. ASSUME RangedComplete PROVE OneAttempt'
  BY <1>19 DEF RangedComplete, Goto, SegmentsLeft, Kept
<1>20. ASSUME RangedIncomplete PROVE OneAttempt'
  BY <1>20 DEF RangedIncomplete, Ended, SegmentsLeft, Kept
<1>21. ASSUME RangedDegrade PROVE OneAttempt'
  BY <1>21 DEF RangedDegrade, Goto, SegmentsLeft, Kept
<1>22. ASSUME RangedCancelled PROVE OneAttempt'
  BY <1>22 DEF RangedCancelled, Ended, SegmentsLeft, Kept
<1>23. ASSUME StrayOpens PROVE OneAttempt'
  BY <1>23 DEF StrayOpens, StrayKept, Kept
<1>24. ASSUME StrayWrites PROVE OneAttempt'
  BY <1>24 DEF StrayWrites, StrayKept, Kept
<1>25. ASSUME StrayFails PROVE OneAttempt'
  BY <1>25 DEF StrayFails, StrayKept, Kept
<1>26. ASSUME StrayEnds PROVE OneAttempt'
  BY <1>26 DEF StrayEnds, StrayKept, Kept
<1>27. ASSUME Cancel PROVE OneAttempt'
  BY <1>27 DEF Cancel
<1>28. ASSUME NEW i \in Seg, SegStart(i) PROVE OneAttempt'
  BY <1>28 DEF SegStart, SegmentKept, Kept
<1>29. ASSUME NEW i \in Seg, SegGot(i) PROVE OneAttempt'
  BY <1>29 DEF SegGot, SegmentKept, Kept
<1>30. ASSUME NEW i \in Seg, SegFails(i) PROVE OneAttempt'
  BY <1>30 DEF SegFails, SegmentKept, Kept
<1>31. ASSUME NEW i \in Seg, SegOut(i) PROVE OneAttempt'
  BY <1>31 DEF SegOut, SegmentKept, Kept
<1>32. CASE UNCHANGED vars
  BY <1>32 DEF vars
<1> QED
  BY <1>1, <1>2, <1>3, <1>4, <1>5, <1>6, <1>7, <1>8, <1>9, <1>10, <1>11,
     <1>12, <1>13, <1>14, <1>15, <1>16, <1>17, <1>18, <1>19, <1>20,
     <1>21, <1>22, <1>23, <1>24, <1>25, <1>26, <1>27, <1>28, <1>29,
     <1>30, <1>31, <1>32
  DEF Next, Engine, RangedEnd, StrayTask, SegTask

\* A hand-over is remembered, and the next one refused.
LEMMA HandStep ==
    ASSUME TypeOK, HandedOver, [Next]_vars
    PROVE  HandedOver'
<1> USE DEF TypeOK, HandedOver, NoBounce, list, files, counts, segments
<1>1. ASSUME ReuseFirst PROVE HandedOver'
  BY <1>1 DEF ReuseFirst, Reuse, Kept
<1>2. ASSUME ReuseSized PROVE HandedOver'
  BY <1>2 DEF ReuseSized, Reuse, Kept
<1>3. ASSUME LoopHead PROVE HandedOver'
  BY <1>3 DEF LoopHead, Ended, Kept
<1>4. ASSUME NoAnswer PROVE HandedOver'
  BY <1>4 DEF NoAnswer, Failed, LeaveSource, NextSource, Again, Ended, FailedKept, Rotate, Kept
<1>5. ASSUME Refused PROVE HandedOver'
  BY <1>5 DEF Refused, Failed, LeaveSource, NextSource, Again, Ended, FailedKept, Rotate, Kept
<1>6. ASSUME NeedsRanged PROVE HandedOver'
  BY <1>6 DEF NeedsRanged, Goto, Kept
<1>7. ASSUME Accept PROVE HandedOver'
  BY <1>7 DEF Accept, Goto, Detached, Kept
<1>8. ASSUME Chunk PROVE HandedOver'
  BY <1>8 DEF Chunk, Kept
<1>9. ASSUME BreakOff PROVE HandedOver'
  BY <1>9 DEF BreakOff, Failed, LeaveSource, NextSource, Again, Ended, FailedKept, Rotate, Kept
<1>10. ASSUME Stall PROVE HandedOver'
  BY <1>10 DEF Stall, Failed, LeaveSource, NextSource, Again, Ended, FailedKept, Rotate, Kept
<1>11. ASSUME EndOfBody PROVE HandedOver'
  BY <1>11 DEF EndOfBody, Goto, Kept
<1>12. ASSUME CancelSeen PROVE HandedOver'
  BY <1>12 DEF CancelSeen, Ended, Kept
<1>13. ASSUME Backoff PROVE HandedOver'
  BY <1>13 DEF Backoff, Goto, Kept
<1>14. ASSUME RangedOpen PROVE HandedOver'
  BY <1>14 DEF RangedOpen, Ended, Kept
<1>15. ASSUME Hash PROVE HandedOver'
  BY <1>15 DEF Hash, Spoilt, Kept
<1>16. ASSUME Rename PROVE HandedOver'
  BY <1>16 DEF Rename, Goto, Kept
<1>17. ASSUME Return PROVE HandedOver'
  BY <1>17 DEF Return, Ended, Kept
<1>18. ASSUME Mismatch PROVE HandedOver'
  BY <1>18 DEF Mismatch, Ended, Kept
<1>19. ASSUME RangedComplete PROVE HandedOver'
  BY <1>19 DEF RangedComplete, Goto, SegmentsLeft, Kept
<1>20. ASSUME RangedIncomplete PROVE HandedOver'
  BY <1>20 DEF RangedIncomplete, Ended, SegmentsLeft, Kept
<1>21. ASSUME RangedDegrade PROVE HandedOver'
  BY <1>21 DEF RangedDegrade, Goto, SegmentsLeft, Kept
<1>22. ASSUME RangedCancelled PROVE HandedOver'
  BY <1>22 DEF RangedCancelled, Ended, SegmentsLeft, Kept
<1>23. ASSUME StrayOpens PROVE HandedOver'
  BY <1>23 DEF StrayOpens, StrayKept, Kept
<1>24. ASSUME StrayWrites PROVE HandedOver'
  BY <1>24 DEF StrayWrites, StrayKept, Kept
<1>25. ASSUME StrayFails PROVE HandedOver'
  BY <1>25 DEF StrayFails, StrayKept, Kept
<1>26. ASSUME StrayEnds PROVE HandedOver'
  BY <1>26 DEF StrayEnds, StrayKept, Kept
<1>27. ASSUME Cancel PROVE HandedOver'
  BY <1>27 DEF Cancel
<1>28. ASSUME NEW i \in Seg, SegStart(i) PROVE HandedOver'
  BY <1>28 DEF SegStart, SegmentKept, Kept
<1>29. ASSUME NEW i \in Seg, SegGot(i) PROVE HandedOver'
  BY <1>29 DEF SegGot, SegmentKept, Kept
<1>30. ASSUME NEW i \in Seg, SegFails(i) PROVE HandedOver'
  BY <1>30 DEF SegFails, SegmentKept, Kept
<1>31. ASSUME NEW i \in Seg, SegOut(i) PROVE HandedOver'
  BY <1>31 DEF SegOut, SegmentKept, Kept
<1>32. CASE UNCHANGED vars
  BY <1>32 DEF vars
<1> QED
  BY <1>1, <1>2, <1>3, <1>4, <1>5, <1>6, <1>7, <1>8, <1>9, <1>10, <1>11,
     <1>12, <1>13, <1>14, <1>15, <1>16, <1>17, <1>18, <1>19, <1>20,
     <1>21, <1>22, <1>23, <1>24, <1>25, <1>26, <1>27, <1>28, <1>29,
     <1>30, <1>31, <1>32
  DEF Next, Engine, RangedEnd, StrayTask, SegTask

\* Only the rename makes the destination file.
LEMMA RenameStep ==
    ASSUME TypeOK, NotRenamed, [Next]_vars
    PROVE  NotRenamed'
<1> USE DEF TypeOK, NotRenamed, Stray, list, files, counts, segments
<1>1. ASSUME ReuseFirst PROVE NotRenamed'
  BY <1>1 DEF ReuseFirst, Reuse, Kept
<1>2. ASSUME ReuseSized PROVE NotRenamed'
  BY <1>2 DEF ReuseSized, Reuse, Kept
<1>3. ASSUME LoopHead PROVE NotRenamed'
  BY <1>3 DEF LoopHead, Ended, Kept
<1>4. ASSUME NoAnswer PROVE NotRenamed'
  BY <1>4 DEF NoAnswer, Failed, LeaveSource, NextSource, Again, Ended, FailedKept, Rotate, Kept
<1>5. ASSUME Refused PROVE NotRenamed'
  BY <1>5 DEF Refused, Failed, LeaveSource, NextSource, Again, Ended, FailedKept, Rotate, Kept
<1>6. ASSUME NeedsRanged PROVE NotRenamed'
  BY <1>6 DEF NeedsRanged, Goto, Kept
<1>7. ASSUME Accept PROVE NotRenamed'
  BY <1>7 DEF Accept, Goto, Detached, Kept
<1>8. ASSUME Chunk PROVE NotRenamed'
  BY <1>8 DEF Chunk, Kept
<1>9. ASSUME BreakOff PROVE NotRenamed'
  BY <1>9 DEF BreakOff, Failed, LeaveSource, NextSource, Again, Ended, FailedKept, Rotate, Kept
<1>10. ASSUME Stall PROVE NotRenamed'
  BY <1>10 DEF Stall, Failed, LeaveSource, NextSource, Again, Ended, FailedKept, Rotate, Kept
<1>11. ASSUME EndOfBody PROVE NotRenamed'
  BY <1>11 DEF EndOfBody, Goto, Kept
<1>12. ASSUME CancelSeen PROVE NotRenamed'
  BY <1>12 DEF CancelSeen, Ended, Kept
<1>13. ASSUME Backoff PROVE NotRenamed'
  BY <1>13 DEF Backoff, Goto, Kept
<1>14. ASSUME RangedOpen PROVE NotRenamed'
  BY <1>14 DEF RangedOpen, Ended, Kept
<1>15. ASSUME Hash PROVE NotRenamed'
  BY <1>15 DEF Hash, Spoilt, Kept
<1>16. ASSUME Rename PROVE NotRenamed'
  BY <1>16 DEF Rename, Goto, Kept
<1>17. ASSUME Return PROVE NotRenamed'
  BY <1>17 DEF Return, Ended, Kept
<1>18. ASSUME Mismatch PROVE NotRenamed'
  BY <1>18 DEF Mismatch, Ended, Kept
<1>19. ASSUME RangedComplete PROVE NotRenamed'
  BY <1>19 DEF RangedComplete, Goto, SegmentsLeft, Kept
<1>20. ASSUME RangedIncomplete PROVE NotRenamed'
  BY <1>20 DEF RangedIncomplete, Ended, SegmentsLeft, Kept
<1>21. ASSUME RangedDegrade PROVE NotRenamed'
  BY <1>21 DEF RangedDegrade, Goto, SegmentsLeft, Kept
<1>22. ASSUME RangedCancelled PROVE NotRenamed'
  BY <1>22 DEF RangedCancelled, Ended, SegmentsLeft, Kept
<1>23. ASSUME StrayOpens PROVE NotRenamed'
  BY <1>23 DEF StrayOpens, StrayKept, Kept
<1>24. ASSUME StrayWrites PROVE NotRenamed'
  BY <1>24 DEF StrayWrites, StrayKept, Kept
<1>25. ASSUME StrayFails PROVE NotRenamed'
  BY <1>25 DEF StrayFails, StrayKept, Kept
<1>26. ASSUME StrayEnds PROVE NotRenamed'
  BY <1>26 DEF StrayEnds, StrayKept, Kept
<1>27. ASSUME Cancel PROVE NotRenamed'
  BY <1>27 DEF Cancel
<1>28. ASSUME NEW i \in Seg, SegStart(i) PROVE NotRenamed'
  BY <1>28 DEF SegStart, SegmentKept, Kept
<1>29. ASSUME NEW i \in Seg, SegGot(i) PROVE NotRenamed'
  BY <1>29 DEF SegGot, SegmentKept, Kept
<1>30. ASSUME NEW i \in Seg, SegFails(i) PROVE NotRenamed'
  BY <1>30 DEF SegFails, SegmentKept, Kept
<1>31. ASSUME NEW i \in Seg, SegOut(i) PROVE NotRenamed'
  BY <1>31 DEF SegOut, SegmentKept, Kept
<1>32. CASE UNCHANGED vars
  BY <1>32 DEF vars
<1> QED
  BY <1>1, <1>2, <1>3, <1>4, <1>5, <1>6, <1>7, <1>8, <1>9, <1>10, <1>11,
     <1>12, <1>13, <1>14, <1>15, <1>16, <1>17, <1>18, <1>19, <1>20,
     <1>21, <1>22, <1>23, <1>24, <1>25, <1>26, <1>27, <1>28, <1>29,
     <1>30, <1>31, <1>32
  DEF Next, Engine, RangedEnd, StrayTask, SegTask

\* Only what the digest has passed is renamed.
LEMMA DigestStep ==
    ASSUME TypeOK, Noticed, NotRenamed, Digested, [Next]_vars
    PROVE  Digested'
<1> USE DEF TypeOK, Noticed, NotRenamed, Digested, CompletedIsVerified, Spoilt, list, files, counts, segments
<1>1. ASSUME ReuseFirst PROVE Digested'
  BY <1>1 DEF ReuseFirst, Reuse, Kept
<1>2. ASSUME ReuseSized PROVE Digested'
  BY <1>2 DEF ReuseSized, Reuse, Kept
<1>3. ASSUME LoopHead PROVE Digested'
  BY <1>3 DEF LoopHead, Ended, Kept
<1>4. ASSUME NoAnswer PROVE Digested'
  BY <1>4 DEF NoAnswer, Failed, LeaveSource, NextSource, Again, Ended, FailedKept, Rotate, Kept
<1>5. ASSUME Refused PROVE Digested'
  BY <1>5 DEF Refused, Failed, LeaveSource, NextSource, Again, Ended, FailedKept, Rotate, Kept
<1>6. ASSUME NeedsRanged PROVE Digested'
  BY <1>6 DEF NeedsRanged, Goto, Kept
<1>7. ASSUME Accept PROVE Digested'
  BY <1>7 DEF Accept, Goto, Detached, Kept
<1>8. ASSUME Chunk PROVE Digested'
  BY <1>8 DEF Chunk, Kept
<1>9. ASSUME BreakOff PROVE Digested'
  BY <1>9 DEF BreakOff, Failed, LeaveSource, NextSource, Again, Ended, FailedKept, Rotate, Kept
<1>10. ASSUME Stall PROVE Digested'
  BY <1>10 DEF Stall, Failed, LeaveSource, NextSource, Again, Ended, FailedKept, Rotate, Kept
<1>11. ASSUME EndOfBody PROVE Digested'
  BY <1>11 DEF EndOfBody, Goto, Kept
<1>12. ASSUME CancelSeen PROVE Digested'
  BY <1>12 DEF CancelSeen, Ended, Kept
<1>13. ASSUME Backoff PROVE Digested'
  BY <1>13 DEF Backoff, Goto, Kept
<1>14. ASSUME RangedOpen PROVE Digested'
  BY <1>14 DEF RangedOpen, Ended, Kept
<1>15. ASSUME Hash PROVE Digested'
  BY <1>15 DEF Hash, Spoilt, Kept
<1>16. ASSUME Rename PROVE Digested'
  BY <1>16 DEF Rename, Goto, Kept
<1>17. ASSUME Return PROVE Digested'
  BY <1>17 DEF Return, Ended, Kept
<1>18. ASSUME Mismatch PROVE Digested'
  BY <1>18 DEF Mismatch, Ended, Kept
<1>19. ASSUME RangedComplete PROVE Digested'
  BY <1>19 DEF RangedComplete, Goto, SegmentsLeft, Kept
<1>20. ASSUME RangedIncomplete PROVE Digested'
  BY <1>20 DEF RangedIncomplete, Ended, SegmentsLeft, Kept
<1>21. ASSUME RangedDegrade PROVE Digested'
  BY <1>21 DEF RangedDegrade, Goto, SegmentsLeft, Kept
<1>22. ASSUME RangedCancelled PROVE Digested'
  BY <1>22 DEF RangedCancelled, Ended, SegmentsLeft, Kept
<1>23. ASSUME StrayOpens PROVE Digested'
  BY <1>23 DEF StrayOpens, StrayKept, Kept
<1>24. ASSUME StrayWrites PROVE Digested'
  BY <1>24 DEF StrayWrites, StrayKept, Kept
<1>25. ASSUME StrayFails PROVE Digested'
  BY <1>25 DEF StrayFails, StrayKept, Kept
<1>26. ASSUME StrayEnds PROVE Digested'
  BY <1>26 DEF StrayEnds, StrayKept, Kept
<1>27. ASSUME Cancel PROVE Digested'
  BY <1>27 DEF Cancel
<1>28. ASSUME NEW i \in Seg, SegStart(i) PROVE Digested'
  BY <1>28 DEF SegStart, SegmentKept, Kept
<1>29. ASSUME NEW i \in Seg, SegGot(i) PROVE Digested'
  BY <1>29 DEF SegGot, SegmentKept, Kept
<1>30. ASSUME NEW i \in Seg, SegFails(i) PROVE Digested'
  BY <1>30 DEF SegFails, SegmentKept, Kept
<1>31. ASSUME NEW i \in Seg, SegOut(i) PROVE Digested'
  BY <1>31 DEF SegOut, SegmentKept, Kept
<1>32. CASE UNCHANGED vars
  BY <1>32 DEF vars
<1> QED
  BY <1>1, <1>2, <1>3, <1>4, <1>5, <1>6, <1>7, <1>8, <1>9, <1>10, <1>11,
     <1>12, <1>13, <1>14, <1>15, <1>16, <1>17, <1>18, <1>19, <1>20,
     <1>21, <1>22, <1>23, <1>24, <1>25, <1>26, <1>27, <1>28, <1>29,
     <1>30, <1>31, <1>32
  DEF Next, Engine, RangedEnd, StrayTask, SegTask

(***************************************************************************)
(* Theorems.                                                               *)
(***************************************************************************)

LEMMA InitEstablishes == Init => IInv
<1> SUFFICES ASSUME Init PROVE IInv
  OBVIOUS
<1>1. urls \in Seq(Source) /\ urls # <<>> /\ url \in Source
  BY OrdersAssumption DEF Init
<1>2. TypeOK
  <2>1. part \subseteq Origin /\ final \subseteq Origin
    BY <1>1 DEF Init, Listed, Origin
  <2>2. attempt \in 0..MaxRetries /\ handovers \in 0..2
    BY RetriesAssumption DEF Init
  <2>3. pc \in Step /\ result \in {"none", "ok", "cancelled", "failed", "refused"}
    BY DEF Init, Step
  <2>4. /\ cancelled \in BOOLEAN /\ ranged \in BOOLEAN /\ got \in BOOLEAN
        /\ redone \in BOOLEAN /\ beside \in BOOLEAN
    BY DEF Init
  <2>5. /\ kind \in [Source -> Kind]
        /\ at \in [Seg -> Source \cup {"new", "done", "out"}]
        /\ strays \subseteq Stray
    BY WorldsAssumption DEF Init
  <2> QED
    BY <1>1, <2>1, <2>2, <2>3, <2>4, <2>5 DEF TypeOK
<1>3. /\ Noticed /\ OneAttempt /\ HandedOver /\ NotRenamed /\ Digested
  BY DEF Init, Noticed, OneAttempt, NoResidue, HandedOver, NoBounce, NotRenamed,
         Digested, CompletedIsVerified
<1> QED
  BY <1>2, <1>3 DEF IInv

\* The invariant is inductive.
LEMMA Inductive == IInv /\ [Next]_vars => IInv'
BY TypeStep, NoticedStep, AttemptStep, HandStep, RenameStep, DigestStep DEF IInv

\* It holds in every reachable state.
LEMMA Invariance == Spec => []IInv
<1> QED
  BY InitEstablishes, Inductive, PTL DEF Spec

\* Types: the list keeps its sources, the retries of a source stay within
\* max_retries, wherever the run is interrupted (engine.rs, run).
THEOREM Typed == Spec => []TypeOK
<1>1. IInv => TypeOK
  BY DEF IInv
<1> QED
  BY <1>1, Invariance, PTL

\* As long as no lost segment task is beside it, what a download renames to
\* the destination has passed the digest in the very state in which it is
\* renamed, whether copied, streamed or put together of segments
\* (finalize_verified, finalize_part).
THEOREM VerifiedBeforeRename == Spec => []CompletedIsVerified
<1>1. IInv => CompletedIsVerified
  BY DEF IInv, Digested
<1> QED
  BY <1>1, Invariance, PTL

\* As long as no lost segment task is beside it, a streamed body that is
\* verified is one attempt's, whatever attempts, mirrors, copies and segments
\* came before it (try_streamed_once).
THEOREM StreamIsOneAttempt == Spec => []NoResidue
<1>1. IInv => NoResidue
  BY DEF IInv, OneAttempt, NoResidue
<1> QED
  BY <1>1, Invariance, PTL

\* One download hands over to the segmented path at most once
\* (ranged_attempted).
THEOREM OneHandover == Spec => []NoBounce
<1>1. IInv => NoBounce
  BY DEF IInv, HandedOver
<1> QED
  BY <1>1, Invariance, PTL
=============================================================================
