---------------------------- MODULE SegmentsProofs ----------------------------
(***************************************************************************)
(* Theorems about the arithmetic of Segments, for any sizes: cutting the   *)
(* file, splitting a segment and resuming from a bitmap.                   *)
(***************************************************************************)
EXTENDS Segments, TLAPS, WellFoundedInduction, FiniteSetTheorems

\* A segment that is not over-full, with room for a split (try_split only
\* splits segments with MIN_SPLIT_REMAINING left).
Splittable(s) ==
    s \in Segment /\ s.downloaded <= SegmentLen(s) /\ SegmentLen(s) >= 2

-----------------------------------------------------------------------------
(* split                                                                   *)

\* The cut lies inside the segment.
LEMMA HalfInside ==
    ASSUME NEW s, Splittable(s)
    PROVE  /\ Half(s) \in Nat /\ 1 <= Half(s) /\ Half(s) < SegmentLen(s)
           /\ SegmentLen(s) \in Nat
BY SizesAssumption DEF Splittable, Segment, SegmentLen, Half, Unit

\* Both halves are segments of the file and count no more than they hold.
LEMMA HalvesAreSegments ==
    ASSUME NEW s, Splittable(s)
    PROVE  /\ LowerHalf(s) \in Segment
           /\ LowerHalf(s).downloaded <= SegmentLen(LowerHalf(s))
           /\ UpperHalf(s) \in Segment
           /\ UpperHalf(s).downloaded <= SegmentLen(UpperHalf(s))
<1>1. /\ s.start \in Unit /\ s.end \in Unit /\ s.downloaded \in Nat
      /\ s.downloaded <= SegmentLen(s)
  BY DEF Splittable, Segment
<1>2. Half(s) \in Nat /\ 1 <= Half(s) /\ Half(s) < SegmentLen(s)
  BY HalfInside
<1> QED
  BY <1>1, <1>2, SizesAssumption
     DEF LowerHalf, UpperHalf, Segment, SegmentLen, AtMost, Minus, AtLeast, Unit

\* A split divides a segment's units between its halves (Segment::split).
THEOREM SplitTiles ==
    ASSUME NEW s, Splittable(s)
    PROVE  /\ Span(LowerHalf(s)) \cup Span(UpperHalf(s)) = Span(s)
           /\ Span(LowerHalf(s)) \cap Span(UpperHalf(s)) = {}
           /\ Span(LowerHalf(s)) # {} /\ Span(UpperHalf(s)) # {}
<1>1. s.start \in Int /\ s.end \in Int
  BY SizesAssumption DEF Splittable, Segment, Unit
<1>2. Half(s) \in Nat /\ 1 <= Half(s) /\ Half(s) < SegmentLen(s)
  BY HalfInside
<1>3. /\ Span(LowerHalf(s)) = s.start..s.start + Half(s) - 1
      /\ Span(UpperHalf(s)) = s.start + Half(s)..s.end
      /\ Span(s) = s.start..s.end
  BY DEF Span, LowerHalf, UpperHalf
<1>4. s.start \in Span(LowerHalf(s)) /\ s.end \in Span(UpperHalf(s))
  BY <1>1, <1>2, <1>3 DEF SegmentLen
<1> QED
  BY <1>1, <1>2, <1>3, <1>4 DEF SegmentLen

\* A split neither loses nor invents progress: its halves count the very
\* units that the segment counted (Segment::split).
THEOREM SplitKeepsProgress ==
    ASSUME NEW s, Splittable(s)
    PROVE  Received(LowerHalf(s)) \cup Received(UpperHalf(s)) = Received(s)
<1>1. s.start \in Int /\ s.downloaded \in Nat
  BY SizesAssumption DEF Splittable, Segment, Unit
<1>2. Half(s) \in Nat
  BY HalfInside
<1>3. /\ Received(LowerHalf(s)) = s.start..s.start + AtMost(s.downloaded, Half(s)) - 1
      /\ Received(UpperHalf(s)) =
            s.start + Half(s)..s.start + Half(s) + Minus(s.downloaded, Half(s)) - 1
      /\ Received(s) = s.start..s.start + s.downloaded - 1
  BY DEF Received, LowerHalf, UpperHalf
<1>4. CASE s.downloaded <= Half(s)
  BY <1>1, <1>2, <1>3, <1>4 DEF AtMost, Minus, AtLeast
<1>5. CASE s.downloaded > Half(s)
  BY <1>1, <1>2, <1>3, <1>5 DEF AtMost, Minus, AtLeast
<1> QED
  BY <1>1, <1>2, <1>4, <1>5

\* A table that tiles the file still does when one of its segments is
\* replaced by the lower half, and the upper half gets a new index.
THEOREM SplitKeepsTiling ==
    ASSUME NEW table, NEW i \in DOMAIN table, NEW n, n \notin DOMAIN table,
           Splittable(table[i]), Tiles(table),
           NEW cut, DOMAIN cut = DOMAIN table \cup {n},
           cut[i] = LowerHalf(table[i]), cut[n] = UpperHalf(table[i]),
           \A j \in DOMAIN table \ {i} : cut[j] = table[j]
    PROVE  Tiles(cut)
<1>1. /\ Span(cut[i]) \cup Span(cut[n]) = Span(table[i])
      /\ Span(cut[i]) \cap Span(cut[n]) = {}
  BY SplitTiles
<1>2. SUFFICES ASSUME NEW u \in Unit
               PROVE \E k \in DOMAIN cut :
                        \A j \in DOMAIN cut : u \in Span(cut[j]) <=> k = j
  BY DEF Tiles
<1>3. PICK k \in DOMAIN table : \A j \in DOMAIN table : u \in Span(table[j]) <=> k = j
  BY DEF Tiles
<1>4. CASE k # i
  <2>1. u \notin Span(table[i])
    BY <1>3, <1>4
  <2>2. u \notin Span(cut[i]) /\ u \notin Span(cut[n])
    BY <1>1, <2>1
  <2>3. \A j \in DOMAIN cut : u \in Span(cut[j]) <=> k = j
    BY <1>3, <1>4, <2>2
  <2> QED
    BY <2>3
<1>5. CASE k = i
  <2>1. u \in Span(cut[i]) \cup Span(cut[n])
    BY <1>1, <1>3, <1>5
  <2>2. \A j \in DOMAIN table \ {i} : u \notin Span(cut[j])
    BY <1>3, <1>5
  <2>3. CASE u \in Span(cut[i])
    <3>1. \A j \in DOMAIN cut : u \in Span(cut[j]) <=> i = j
      BY <1>1, <2>2, <2>3
    <3> QED
      BY <3>1
  <2>4. CASE u \in Span(cut[n])
    <3>1. \A j \in DOMAIN cut : u \in Span(cut[j]) <=> n = j
      BY <1>1, <2>2, <2>4
    <3> QED
      BY <3>1
  <2> QED
    BY <2>1, <2>3, <2>4
<1> QED
  BY <1>4, <1>5
-----------------------------------------------------------------------------
(* Arithmetic                                                              *)

LEMMA LessRel ==
    ASSUME NEW x \in Nat, NEW y \in Nat, x < y
    PROVE  <<x, y>> \in OpToRel(<, Nat)
<1>1. <<x, y>> \in Nat \X Nat /\ <<x, y>>[1] < <<x, y>>[2]
  OBVIOUS
<1> QED
  BY <1>1, Zenon DEF OpToRel

\* A set of naturals has a least element.
LEMMA NatMin ==
    ASSUME NEW S \in SUBSET Nat, S # {}
    PROVE  Min(S) \in S /\ \A y \in S : Min(S) <= y
<1>1. PICK x \in S : \A y \in S : <<y, x>> \notin OpToRel(<, Nat)
  BY NatLessThanWellFounded, WFMin, Zenon
<1>2. \A y \in S : ~(y < x)
  BY <1>1, LessRel, Zenon
<1>3. \A y \in S : x <= y
  BY <1>2
<1> QED
  BY <1>3 DEF Min

\* Division with remainder.
LEMMA DivMod ==
    ASSUME NEW a \in Nat, NEW b \in Nat \ {0}
    PROVE  /\ a \div b \in Nat /\ a % b \in 0..b - 1
           /\ a = (a \div b) * b + (a % b)
OBVIOUS

LEMMA Monotone ==
    ASSUME NEW a \in Int, NEW b \in Int, NEW c \in Nat, a <= b
    PROVE  a * c <= b * c
OBVIOUS

LEMMA CancelFactor ==
    ASSUME NEW a \in Int, NEW b \in Int, NEW c \in Nat \ {0}, a * c < b * c
    PROVE  a < b
<1>1. CASE b <= a
  BY <1>1, Monotone
<1> QED
  BY <1>1

-----------------------------------------------------------------------------
(* The bitmap                                                              *)

\* Every unit is in the block it falls into, and in no other.
LEMMA BlockOfUnit ==
    ASSUME NEW u \in Unit
    PROVE  /\ u \div BlockSize \in Block
           /\ u \in UnitsOf(u \div BlockSize)
<1> DEFINE b == u \div BlockSize
           n == DivCeil(Total, BlockSize)
<1>1. Total \in Nat /\ BlockSize \in Nat \ {0} /\ u \in Nat /\ u < Total
  BY SizesAssumption DEF Unit
<1>2. b \in Nat /\ b * BlockSize <= u /\ u < b * BlockSize + BlockSize
  <2>1. b \in Nat /\ u % BlockSize \in 0..BlockSize - 1
        /\ u = b * BlockSize + (u % BlockSize)
    BY <1>1, DivMod
  <2> HIDE DEF b
  <2>2. b * BlockSize \in Nat
    BY <1>1, <2>1
  <2> QED
    BY <1>1, <2>1, <2>2
<1>3. n \in Nat /\ Total <= n * BlockSize
  <2>1. Total + BlockSize - 1 \in Nat
    BY <1>1
  <2>2. /\ n \in Nat
        /\ Total + BlockSize - 1 = n * BlockSize + ((Total + BlockSize - 1) % BlockSize)
        /\ (Total + BlockSize - 1) % BlockSize \in 0..BlockSize - 1
    BY <1>1, <2>1, DivMod DEF DivCeil
  <2>3. n * BlockSize \in Nat
    BY <1>1, <2>2
  <2> HIDE DEF n
  <2> QED
    BY <1>1, <2>2, <2>3
<1> HIDE DEF n
<1>4. b < n
  <2>1. b * BlockSize < n * BlockSize
    BY <1>1, <1>2, <1>3
  <2> HIDE DEF b
  <2> QED
    BY <1>1, <1>2, <1>3, <2>1, CancelFactor
<1>5. b \in Block
  BY <1>2, <1>3, <1>4 DEF Block, n
<1>6. u \in UnitsOf(b)
  <2> HIDE DEF b
  <2>1. b * BlockSize \in Nat
    BY <1>1, <1>2
  <2> QED
    BY <1>1, <1>2, <2>1 DEF UnitsOf, BlockStart, BlockEnd, AtMost
<1> QED
  BY <1>5, <1>6

\* A resumed segment never counts a unit of an incomplete block
\* (resumable_bytes): the blocks before the first gap are all complete.
THEOREM ResumeOnlyComplete ==
    ASSUME NEW s \in Segment, NEW bits \in SUBSET Block,
           NEW u \in Received([s EXCEPT !.downloaded = ResumableBytes(s, bits)])
    PROVE  \E b \in bits : u \in UnitsOf(b)
<1> DEFINE gaps == {b \in Block \ bits : BlockEnd(b) > s.start}
           stop == IF gaps = {} THEN Total ELSE BlockStart(Min(gaps))
           b == u \div BlockSize
<1>1. /\ Total \in Nat /\ BlockSize \in Nat \ {0}
      /\ s.start \in Nat /\ s.end \in Nat /\ s.end < Total /\ s.downloaded \in Nat
  BY SizesAssumption DEF Segment, Unit
<1>2. gaps \in SUBSET Nat
  BY DEF Block
<1>3. gaps # {} => /\ Min(gaps) \in gaps /\ \A g \in gaps : Min(gaps) <= g
  BY <1>2, NatMin
<1>4. stop \in Int
  <2> HIDE DEF gaps
  <2>1. CASE gaps = {}
    BY <1>1, <2>1
  <2>2. CASE gaps # {}
    <3>1. Min(gaps) \in Nat
      BY <1>2, <1>3, <2>2
    <3> QED
      BY <1>1, <2>2, <3>1 DEF BlockStart
  <2> QED
    BY <2>1, <2>2
<1>5. /\ u \in Int /\ s.start <= u
      /\ u < stop /\ u <= s.end
  <2>1. u \in s.start..s.start + ResumableBytes(s, bits) - 1
    BY DEF Received, Segment
  <2>2. ResumableBytes(s, bits) = IF s.start % BlockSize # 0 THEN 0
                                  ELSE AtMost(stop - s.start, SegmentLen(s))
    BY DEF ResumableBytes
  <2> HIDE DEF stop
  <2>3. SegmentLen(s) = s.end - s.start + 1
    BY DEF SegmentLen
  <2> QED
    BY <1>1, <1>4, <2>1, <2>2, <2>3 DEF AtMost
<1>6. u \in Unit
  BY <1>1, <1>5 DEF Unit
<1>7. b \in Block /\ u \in UnitsOf(b)
  BY <1>6, BlockOfUnit
<1>8. b \in bits
  <2>1. SUFFICES ASSUME b \notin bits PROVE FALSE
    OBVIOUS
  <2> HIDE DEF b
  <2>2. b \in Nat /\ BlockStart(b) <= u /\ u < BlockEnd(b)
    BY <1>1, <1>5, <1>7 DEF UnitsOf, Block, BlockStart, BlockEnd, AtMost
  <2>3. b \in gaps
    BY <1>1, <1>5, <1>7, <2>1, <2>2 DEF BlockEnd, AtMost, BlockStart
  <2>4. Min(gaps) \in Nat /\ Min(gaps) <= b
    BY <1>2, <1>3, <2>3
  <2>5. stop <= BlockStart(b)
    BY <1>1, <2>2, <2>3, <2>4, Monotone DEF BlockStart
  <2> HIDE DEF stop
  <2> QED
    BY <1>1, <1>4, <1>5, <2>2, <2>5 DEF BlockStart
<1> QED
  BY <1>7, <1>8

-----------------------------------------------------------------------------
(* build_segments                                                          *)

Base == Total \div Pieces
Rest == Total % Pieces

\* There is at least one piece, and at most one per unit.
LEMMA PiecesRange == Pieces \in Nat /\ 1 <= Pieces /\ Pieces <= Total
<1> DEFINE q == DivCeil(Total, SegmentSize)
<1>1. Total \in Nat \ {0} /\ SegmentSize \in Nat \ {0} /\ MaxSegments \in Nat \ {0}
  BY SizesAssumption
<1>2. q \in Nat /\ q * SegmentSize <= Total + SegmentSize - 1
  <2>1. Total + SegmentSize - 1 \in Nat
    BY <1>1
  <2>2. /\ q \in Nat /\ (Total + SegmentSize - 1) % SegmentSize \in 0..SegmentSize - 1
        /\ Total + SegmentSize - 1 =
              q * SegmentSize + ((Total + SegmentSize - 1) % SegmentSize)
    BY <1>1, <2>1, DivMod DEF DivCeil
  <2> HIDE DEF q
  <2>3. q * SegmentSize \in Nat
    BY <1>1, <2>2
  <2> QED
    BY <1>1, <2>2, <2>3
<1> HIDE DEF q
<1>3. q <= Total
  <2>1. SUFFICES ASSUME Total + 1 <= q PROVE FALSE
    BY <1>1, <1>2
  <2>2. (Total + 1) * SegmentSize <= q * SegmentSize
    BY <1>1, <1>2, <2>1, Monotone
  <2>3. Total <= Total * SegmentSize /\ Total * SegmentSize \in Nat
    BY <1>1
  <2>4. (Total + 1) * SegmentSize = Total * SegmentSize + SegmentSize
    BY <1>1
  <2>5. q * SegmentSize \in Nat
    BY <1>1, <1>2
  <2> QED
    BY <1>1, <1>2, <2>2, <2>3, <2>4, <2>5
<1> QED
  BY <1>1, <1>2, <1>3 DEF Pieces, q, AtLeast, AtMost

\* What the pieces have in common, and the rest spread over the first of them.
LEMMA BaseAndRest ==
    /\ Base \in Nat /\ 1 <= Base
    /\ Rest \in Nat /\ Rest < Pieces
    /\ Total = Pieces * Base + Rest
<1>1. Total \in Nat \ {0} /\ Pieces \in Nat \ {0} /\ Pieces <= Total
  BY PiecesRange, SizesAssumption
<1>2. Base \in Nat /\ Rest \in 0..Pieces - 1 /\ Total = Base * Pieces + Rest
  BY <1>1, DivMod DEF Base, Rest
<1>3. Base # 0
  BY <1>1, <1>2
<1>4. Base * Pieces = Pieces * Base
  BY <1>1, <1>2
<1> QED
  BY <1>1, <1>2, <1>3, <1>4

PieceStart(i) == i * Base + AtMost(i, Rest)
PieceLen(i) == Base + (IF i < Rest THEN 1 ELSE 0)

\* No piece is empty, and its span is its length from its start on.
LEMMA PieceRange ==
    ASSUME NEW i \in Nat
    PROVE  /\ PieceStart(i) \in Nat /\ PieceLen(i) \in Nat /\ 1 <= PieceLen(i)
           /\ Span(Piece(i)) = PieceStart(i)..PieceStart(i) + PieceLen(i) - 1
<1>1. i * Base \in Nat /\ Base \in Nat /\ 1 <= Base /\ Rest \in Nat
  BY BaseAndRest
<1>2. Span(Piece(i)) = PieceStart(i)..PieceStart(i) + PieceLen(i) - 1
  BY DEF Span, Piece, PieceStart, PieceLen, Base, Rest
<1> QED
  BY <1>1, <1>2 DEF PieceStart, PieceLen, AtMost

\* A later piece starts behind an earlier one.
LEMMA PiecesOrdered ==
    ASSUME NEW i \in Nat, NEW j \in Nat, i < j
    PROVE  PieceStart(i) + PieceLen(i) <= PieceStart(j)
<1>1. Base \in Nat /\ Rest \in Nat
  BY BaseAndRest
<1>2. (i + 1) * Base <= j * Base
  BY <1>1, Monotone
<1>3. (i + 1) * Base = i * Base + Base /\ i * Base \in Nat /\ j * Base \in Nat
  BY <1>1
<1> QED
  BY <1>1, <1>2, <1>3 DEF PieceStart, PieceLen, AtMost

\* Every unit is in the piece that a division finds.
LEMMA PieceOfUnit ==
    ASSUME NEW u \in Unit
    PROVE  \E i \in 0..Pieces - 1 : PieceStart(i) <= u /\ u < PieceStart(i) + PieceLen(i)
<1>1. /\ Base \in Nat \ {0} /\ Rest \in Nat /\ Pieces \in Nat /\ Rest < Pieces
      /\ u \in Nat /\ u < Total /\ Total \in Nat /\ Total = Pieces * Base + Rest
  BY BaseAndRest, PiecesRange, SizesAssumption DEF Unit
<1> DEFINE c == Rest * (Base + 1)
<1>2. c \in Nat /\ c = Rest * Base + Rest /\ Rest * Base \in Nat
  BY <1>1
<1> HIDE DEF c
<1>3. CASE u < c
  <2> DEFINE d == Base + 1
             i == u \div d
  <2>1. d \in Nat \ {0} /\ d = Base + 1
    BY <1>1
  <2> HIDE DEF d
  <2>2. i \in Nat /\ u % d \in 0..d - 1 /\ u = i * d + (u % d)
    BY <1>1, <2>1, DivMod
  <2> HIDE DEF i
  <2>3. i * d = i * Base + i /\ i * Base \in Nat
    BY <1>1, <2>1, <2>2
  <2>4. i < Rest
    <3>1. i * d < Rest * d
      BY <1>1, <1>2, <1>3, <2>1, <2>2, <2>3
    <3> QED
      BY <1>1, <2>1, <2>2, <3>1, CancelFactor
  <2>5. PieceStart(i) <= u /\ u < PieceStart(i) + PieceLen(i)
    BY <1>1, <2>1, <2>2, <2>3, <2>4 DEF PieceStart, PieceLen, AtMost
  <2> QED
    BY <1>1, <2>2, <2>4, <2>5
<1>4. CASE c <= u
  <2> DEFINE k == (u - c) \div Base
             i == Rest + k
  <2>1. u - c \in Nat
    BY <1>1, <1>2, <1>4
  <2>2. /\ k \in Nat /\ (u - c) % Base \in 0..Base - 1
        /\ u - c = k * Base + ((u - c) % Base)
    BY <1>1, <2>1, DivMod
  <2> HIDE DEF k
  <2>3. i * Base = Rest * Base + k * Base /\ k * Base \in Nat
    BY <1>1, <2>2
  <2>4. i < Pieces
    <3>1. i * Base < Pieces * Base
      <4>1. Pieces * Base \in Nat
        BY <1>1
      <4> QED
        BY <1>1, <1>2, <2>1, <2>2, <2>3, <4>1
    <3> QED
      BY <1>1, <2>2, <3>1, CancelFactor
  <2>5. PieceStart(i) <= u /\ u < PieceStart(i) + PieceLen(i)
    BY <1>1, <1>2, <2>1, <2>2, <2>3 DEF PieceStart, PieceLen, AtMost
  <2> QED
    BY <1>1, <2>2, <2>4, <2>5
<1> QED
  BY <1>1, <1>2, <1>3, <1>4

\* The segments cut at the start tile the file, for any size of the file and
\* of the segments (build_segments).
THEOREM BuildTiles == Tiles(BuildSegments)
<1>1. SUFFICES ASSUME NEW u \in Unit
               PROVE \E i \in DOMAIN BuildSegments :
                        \A j \in DOMAIN BuildSegments :
                            u \in Span(BuildSegments[j]) <=> i = j
  BY DEF Tiles
<1>2. PICK i \in 0..Pieces - 1 : PieceStart(i) <= u /\ u < PieceStart(i) + PieceLen(i)
  BY PieceOfUnit
<1>3. Pieces \in Nat /\ u \in Int
  BY PiecesRange, SizesAssumption DEF Unit
<1>4. ASSUME NEW j \in 0..Pieces - 1
      PROVE  u \in Span(Piece(j)) <=> i = j
  <2>1. i \in Nat /\ j \in Nat
    BY <1>3
  <2>2. /\ PieceStart(i) \in Nat /\ PieceLen(i) \in Nat
        /\ PieceStart(j) \in Nat /\ PieceLen(j) \in Nat
        /\ Span(Piece(j)) = PieceStart(j)..PieceStart(j) + PieceLen(j) - 1
    BY <2>1, PieceRange
  <2>3. CASE i = j
    BY <1>2, <1>3, <2>2, <2>3
  <2>4. CASE i < j
    <3>1. PieceStart(i) + PieceLen(i) <= PieceStart(j)
      BY <2>1, <2>4, PiecesOrdered
    <3> QED
      BY <1>2, <1>3, <2>1, <2>2, <2>4, <3>1
  <2>5. CASE j < i
    <3>1. PieceStart(j) + PieceLen(j) <= PieceStart(i)
      BY <2>1, <2>5, PiecesOrdered
    <3> QED
      BY <1>2, <1>3, <2>1, <2>2, <2>5, <3>1
  <2> QED
    BY <2>1, <2>3, <2>4, <2>5
<1>5. /\ DOMAIN BuildSegments = 0..Pieces - 1
      /\ \A j \in 0..Pieces - 1 : BuildSegments[j] = Piece(j)
  BY DEF BuildSegments
<1> QED
  BY <1>4, <1>5

\* Every piece is a segment of the file that nothing is counted in.
LEMMA PieceIsSegment ==
    ASSUME NEW i \in 0..Pieces - 1
    PROVE  /\ Piece(i) \in Segment /\ Piece(i).downloaded = 0
           /\ SegmentLen(Piece(i)) \in Nat
<1>1. /\ Pieces \in Nat /\ i \in Nat /\ i < Pieces
      /\ Base \in Nat /\ Rest \in Nat /\ Rest < Pieces /\ Total = Pieces * Base + Rest
  BY PiecesRange, BaseAndRest
<1>2. /\ PieceStart(i) \in Nat /\ PieceLen(i) \in Nat /\ 1 <= PieceLen(i)
      /\ PieceStart(i) + PieceLen(i) <= PieceStart(Pieces)
  BY <1>1, PieceRange, PiecesOrdered
<1>3. PieceStart(Pieces) = Total /\ Total \in Nat
  BY <1>1, SizesAssumption DEF PieceStart, AtMost
<1>4. Piece(i) = [start |-> PieceStart(i), end |-> PieceStart(i) + PieceLen(i) - 1,
                  downloaded |-> 0]
  BY DEF Piece, PieceStart, PieceLen, Base, Rest
<1>5. PieceStart(i) \in Unit /\ PieceStart(i) + PieceLen(i) - 1 \in Unit
  BY <1>2, <1>3 DEF Unit
<1> QED
  BY <1>2, <1>4, <1>5 DEF Segment, SegmentLen

-----------------------------------------------------------------------------
(* The bitmap                                                              *)

\* A segment is resumed with a counter inside it.
LEMMA ResumableInRange ==
    ASSUME NEW s \in Segment, SegmentLen(s) \in Nat, NEW bits \in SUBSET Block
    PROVE  ResumableBytes(s, bits) \in 0..SegmentLen(s)
<1> DEFINE gaps == {b \in Block \ bits : BlockEnd(b) > s.start}
           stop == IF gaps = {} THEN Total ELSE BlockStart(Min(gaps))
<1>1. /\ Total \in Nat /\ BlockSize \in Nat \ {0}
      /\ s.start \in Nat /\ s.start < Total
  BY SizesAssumption DEF Segment, Unit
<1>2. ResumableBytes(s, bits) = IF s.start % BlockSize # 0 THEN 0
                                ELSE AtMost(stop - s.start, SegmentLen(s))
  BY DEF ResumableBytes
<1>3. gaps \in SUBSET Nat
  BY DEF Block
<1>4. CASE s.start % BlockSize # 0
  BY <1>2, <1>4
<1>5. CASE s.start % BlockSize = 0
  <2>1. stop \in Nat /\ s.start <= stop
    <3>1. CASE gaps = {}
      BY <1>1, <3>1
    <3>2. CASE gaps # {}
      <4>1. PICK g \in Nat : g = Min(gaps) /\ BlockEnd(g) > s.start
        <5>1. Min(gaps) \in gaps
          BY <1>3, <3>2, NatMin
        <5> QED
          BY <1>3, <5>1
      <4>2. PICK q \in Nat : s.start = q * BlockSize
        <5> DEFINE d == s.start \div BlockSize
        <5>1. d \in Nat /\ s.start = d * BlockSize + (s.start % BlockSize)
          BY <1>1, DivMod
        <5> HIDE DEF d
        <5>2. d * BlockSize \in Nat
          BY <1>1, <5>1
        <5>3. s.start = d * BlockSize
          BY <1>5, <5>1, <5>2
        <5> QED
          BY <5>1, <5>3
      <4>3. g * BlockSize \in Nat /\ (g + 1) * BlockSize = g * BlockSize + BlockSize
        BY <1>1
      <4>4. s.start < g * BlockSize + BlockSize
        BY <1>1, <4>1, <4>3 DEF BlockEnd, BlockStart, AtMost
      <4>5. q < g + 1
        BY <1>1, <4>2, <4>3, <4>4, CancelFactor
      <4>6. q * BlockSize <= g * BlockSize
        BY <1>1, <4>5, Monotone
      <4> HIDE DEF gaps
      <4> QED
        BY <1>1, <3>2, <4>1, <4>2, <4>3, <4>6 DEF BlockStart
    <3> QED
      BY <3>1, <3>2
  <2> HIDE DEF stop
  <2> QED
    BY <1>1, <1>2, <1>5, <2>1 DEF AtMost
<1> QED
  BY <1>4, <1>5

\* A block is not empty, and lies in the file.
LEMMA BlockRange ==
    ASSUME NEW b \in Block
    PROVE  /\ b \in Nat /\ BlockStart(b) \in Nat /\ BlockEnd(b) \in Nat
           /\ BlockStart(b) < BlockEnd(b) /\ UnitsOf(b) \subseteq Unit
<1>1. /\ Total \in Nat \ {0} /\ BlockSize \in Nat \ {0} /\ b \in Nat
      /\ b <= DivCeil(Total, BlockSize) - 1
  BY SizesAssumption DEF Block
<1>2. PICK x \in Nat : x = b * BlockSize
  BY <1>1
<1>3. x < Total
  <2>1. PICK q \in Nat, r \in 0..BlockSize - 1 :
           /\ q = DivCeil(Total, BlockSize)
           /\ Total + BlockSize - 1 = q * BlockSize + r
    BY <1>1, DivMod DEF DivCeil
  <2>2. b + 1 <= q /\ (b + 1) * BlockSize = x + BlockSize
    BY <1>1, <1>2, <2>1
  <2>3. (b + 1) * BlockSize <= q * BlockSize
    BY <1>1, <2>1, <2>2, Monotone
  <2>4. PICK y \in Nat : y = q * BlockSize
    BY <1>1, <2>1
  <2> QED
    BY <1>1, <1>2, <2>1, <2>2, <2>3, <2>4
<1> QED
  BY <1>1, <1>2, <1>3 DEF BlockStart, BlockEnd, UnitsOf, Unit, AtMost

\* refresh_bitmap's comment: since the segments do not overlap, the lengths
\* add up to the block's exactly if all of the block has been received.
THEOREM BitmapIsCounted ==
    ASSUME NEW table, Tiles(table),
           \A i \in DOMAIN table : /\ table[i] \in Segment
                                   /\ table[i].downloaded <= SegmentLen(table[i]),
           NEW b \in Block
    PROVE  b \in RefreshBitmap(table) <=>
               UnitsOf(b) \subseteq UNION {Received(table[i]) : i \in DOMAIN table}
<1> DEFINE P == {p \in (DOMAIN table) \X UnitsOf(b) : p[2] \in Overlap(table[p[1]], b)}
           f == [p \in P |-> p[2]]
<1>1. /\ b \in Nat /\ BlockStart(b) \in Nat /\ BlockEnd(b) \in Nat
      /\ BlockStart(b) < BlockEnd(b) /\ UnitsOf(b) \subseteq Unit
  BY BlockRange
<1>2. /\ IsFiniteSet(UnitsOf(b))
      /\ Cardinality(UnitsOf(b)) = BlockEnd(b) - BlockStart(b)
  <2>1. PICK lo \in Int, hi \in Int : lo = BlockStart(b) /\ hi = BlockEnd(b) - 1
    BY <1>1
  <2>2. IsFiniteSet(lo..hi) /\ Cardinality(lo..hi) = IF lo > hi THEN 0 ELSE hi - lo + 1
    BY FS_Interval
  <2>3. UnitsOf(b) = lo..hi /\ ~(lo > hi) /\ hi - lo + 1 = BlockEnd(b) - BlockStart(b)
    BY <1>1, <2>1 DEF UnitsOf
  <2> QED
    BY <2>2, <2>3
<1>3. ASSUME NEW i \in DOMAIN table, NEW u \in UnitsOf(b)
      PROVE  /\ u \in Overlap(table[i], b) <=> u \in Received(table[i])
             /\ u \in Received(table[i]) => u \in Span(table[i])
  <2>1. u \in Int /\ table[i].start \in Nat /\ table[i].end \in Nat /\ table[i].downloaded \in Nat
    BY <1>1, SizesAssumption DEF Segment, Unit
  <2>2. table[i].downloaded <= table[i].end - table[i].start + 1
    BY DEF SegmentLen
  <2> QED
    BY <2>1, <2>2 DEF Overlap, Received, Span, AtMost
<1>4. f \in Injection(P, UnitsOf(b))
  <2>1. ASSUME NEW p \in P, NEW q \in P, f[p] = f[q]
        PROVE  p = q
    <3>1. PICK i \in DOMAIN table, u \in UnitsOf(b) : p = <<i, u>> /\ u \in Overlap(table[i], b)
      OBVIOUS
    <3>2. PICK j \in DOMAIN table, v \in UnitsOf(b) : q = <<j, v>> /\ v \in Overlap(table[j], b)
      OBVIOUS
    <3>3. u = v
      BY <2>1, <3>1, <3>2
    <3>4. u \in Span(table[i]) /\ u \in Span(table[j])
      BY <1>3, <3>1, <3>2, <3>3
    <3>5. i = j
      BY <1>1, <3>4 DEF Tiles
    <3> QED
      BY <3>1, <3>2, <3>3, <3>5
  <2>2. f \in [P -> UnitsOf(b)]
    OBVIOUS
  <2> HIDE DEF P, f
  <2> QED
    BY <2>1, <2>2 DEF Injection, IsInjective
<1>5. b \in RefreshBitmap(table) <=> f \in Surjection(P, UnitsOf(b))
  <2>1. b \in RefreshBitmap(table) <=> Cardinality(P) = Cardinality(UnitsOf(b))
    BY <1>2 DEF RefreshBitmap
  <2> HIDE DEF P, f
  <2> QED
    BY <1>2, <1>4, <2>1, FS_Injection
<1>6. f \in Surjection(P, UnitsOf(b)) <=> \A u \in UnitsOf(b) : \E p \in P : f[p] = u
  <2>1. f \in [P -> UnitsOf(b)]
    OBVIOUS
  <2> HIDE DEF P, f
  <2> QED
    BY <2>1 DEF Surjection
<1>7. ASSUME NEW u \in UnitsOf(b)
      PROVE  (\E p \in P : f[p] = u) <=> \E i \in DOMAIN table : u \in Received(table[i])
  <2>1. ASSUME NEW p \in P, f[p] = u
        PROVE  \E i \in DOMAIN table : u \in Overlap(table[i], b)
    BY <2>1
  <2>2. ASSUME NEW i \in DOMAIN table, u \in Overlap(table[i], b)
        PROVE  \E p \in P : f[p] = u
    <3>1. <<i, u>> \in P /\ f[<<i, u>>] = u
      BY <2>2
    <3> QED
      BY <3>1
  <2> QED
    BY <1>3, <2>1, <2>2
<1> QED
  BY <1>5, <1>6, <1>7
=============================================================================
