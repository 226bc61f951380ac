------------------------------- MODULE Segments -------------------------------
(***************************************************************************)
(* The arithmetic of a segmented download (segment.rs, part_meta.rs and    *)
(* refresh_bitmap in engine.rs).  A file is `Total' units long; a segment  *)
(* is a closed range of units with the number of those received from its   *)
(* start on; a block is the granularity of the saved completion bitmap,    *)
(* which is the set of complete blocks here.                               *)
(***************************************************************************)
EXTENDS Integers, FiniteSetsExt

CONSTANTS
    Total,           \* size of the file
    SegmentSize,     \* options.segment_size
    MaxSegments,     \* options.max_segments
    SplitThreshold,  \* options.split_threshold
    BlockSize        \* DEFAULT_BLOCK_SIZE

ASSUME SizesAssumption ==
    /\ Total \in Nat \ {0}
    /\ SegmentSize \in Nat \ {0}
    /\ MaxSegments \in Nat \ {0}
    /\ SplitThreshold \in Nat
    /\ BlockSize \in Nat \ {0}

AtMost(a, b) == IF a <= b THEN a ELSE b
AtLeast(a, b) == IF a >= b THEN a ELSE b
Minus(a, b) == AtLeast(a - b, 0)           \* saturating_sub
DivCeil(a, b) == (a + b - 1) \div b

Unit == 0..Total - 1

Segment == [start : Unit, end : Unit, downloaded : Nat]

SegmentLen(s) == s.end - s.start + 1
Finished(s) == s.downloaded >= SegmentLen(s)
Remaining(s) == Minus(SegmentLen(s), s.downloaded)

\* The units of a segment, and those it counts as received.
Span(s) == s.start..s.end
Received(s) == s.start..s.start + s.downloaded - 1

\* split: the lower half keeps the index, both get a counter of their own.
Half(s) == SegmentLen(s) \div 2
LowerHalf_Overlaps(s) == [start |-> s.start, end |-> s.start + Half(s),
                          downloaded |-> AtMost(s.downloaded, Half(s))]   \* mutant
LowerHalf_Restarts(s) == [start |-> s.start, end |-> s.start + Half(s) - 1,
                          downloaded |-> 0]                               \* mutant
LowerHalf(s) == [start |-> s.start, end |-> s.start + Half(s) - 1,
                 downloaded |-> AtMost(s.downloaded, Half(s))]
UpperHalf_Inherits(s) == [start |-> s.start + Half(s), end |-> s.end,
                          downloaded |-> s.downloaded]                    \* mutant
UpperHalf(s) == [start |-> s.start + Half(s), end |-> s.end,
                 downloaded |-> Minus(s.downloaded, Half(s))]

\* build_segments, by index.
Pieces == IF Total <= SplitThreshold
            THEN 1
            ELSE AtLeast(AtMost(DivCeil(Total, SegmentSize), MaxSegments), 1)

Piece(i) ==
    LET base  == Total \div Pieces
        rest  == Total % Pieces
        start == i * base + AtMost(i, rest)
        len   == base + (IF i < rest THEN 1 ELSE 0)
    IN  [start |-> start, end |-> start + len - 1, downloaded |-> 0]

BuildSegments == [i \in 0..Pieces - 1 |-> Piece(i)]

-----------------------------------------------------------------------------
(* The bitmap                                                              *)

Block == 0..DivCeil(Total, BlockSize) - 1      \* used_blocks

BlockStart(b) == b * BlockSize
BlockEnd(b) == AtMost(BlockStart(b) + BlockSize, Total)    \* exclusive
UnitsOf(b) == BlockStart(b)..BlockEnd(b) - 1

\* Mutant: complete blocks behind a gap count as well.
ResumableBytes_OverGaps(s, bits) ==
    IF s.start % BlockSize # 0
      THEN 0
      ELSE AtMost(Cardinality(UNION {UnitsOf(b) : b \in bits} \cap Span(s)), SegmentLen(s))

\* resumable_bytes: up to the first incomplete block; a segment that starts
\* inside a block starts over.
ResumableBytes(s, bits) ==
    LET gaps == {b \in Block \ bits : BlockEnd(b) > s.start}
        stop == IF gaps = {} THEN Total ELSE BlockStart(Min(gaps))
    IN  IF s.start % BlockSize # 0
          THEN 0
          ELSE AtMost(stop - s.start, SegmentLen(s))

\* The units of a block that a segment counts as received.
Overlap(s, b) ==
    UnitsOf(b) \cap (s.start..AtMost(s.start + s.downloaded, s.end + 1) - 1)

\* refresh_bitmap: a block is complete when the lengths of its overlaps with
\* the segments add up to its own; a unit adds one for each of the segments.
RefreshBitmap(table) ==
    {b \in Block :
        Cardinality({p \in (DOMAIN table) \X UnitsOf(b) : p[2] \in Overlap(table[p[1]], b)})
            = BlockEnd(b) - BlockStart(b)}

AllComplete(bits) == bits = Block

-----------------------------------------------------------------------------

\* The segments tile the file: every unit is in exactly one of them.
Tiles(table) ==
    \A u \in Unit : \E i \in DOMAIN table :
        \A j \in DOMAIN table : u \in Span(table[j]) <=> i = j
=============================================================================
