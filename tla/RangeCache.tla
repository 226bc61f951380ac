------------------------------ MODULE RangeCache ------------------------------
(***************************************************************************)
(* The verdicts `does this host honour Range requests?' that the downloads *)
(* of a manager share (engine.rs: RangeHealth, cached_range_ok,            *)
(* record_range_ok, record_range_miss; manager.rs: the removal after a     *)
(* failed task), and how a download uses them: it sniffs the headers of a  *)
(* whole-file request, changes to segments if the verdict allows it, meets *)
(* segments answered with the whole file, and degrades.                    *)
(*                                                                         *)
(* Every method takes the lock of the table once and is one action; the    *)
(* sniffing download reads and records in two.  Ages are kept as in         *)
(* SourceHealth: up to the TTL.                                            *)
(***************************************************************************)
EXTENDS Integers

CONSTANTS
    Key,        \* cache keys: scheme, host and port
    NoKey,      \* no key
    Download,   \* slots for the downloads under way at one time
    ProbeTtl,   \* HOST_PROBE_TTL, in ticks
    Misses,     \* RANGE_PROBE_MISSES
    MissMax     \* the largest value of RangeHealth.misses (u8::MAX)

ASSUME ProbeAssumption ==
    /\ ProbeTtl \in Nat \ {0}
    /\ Misses \in Nat \ {0} /\ MissMax \in Nat /\ Misses <= MissMax
ASSUME KeyAssumption == NoKey \notin Key

VARIABLES
    probe,   \* host_probe, one entry per key
    pc,      \* pc[d]: the step of download d
    home,    \* home[d]: the key of its first URL (task.url)
    asked,   \* asked[d]: the key of the URL it requests, after redirections
             \* for segments (resolved_url)
    seen,    \* seen[d]: the verdict it has read
    tried    \* tried[d]: ranged_attempted

vars == <<probe, pc, home, asked, seen, tried>>

\* An entry that says yes, without misses and expired, answers and changes
\* like no entry at all, and stands for it.
Entry == [ok : BOOLEAN, misses : 0..MissMax, age : 0..ProbeTtl]
Absent == [ok |-> TRUE, misses |-> 0, age |-> ProbeTtl]

Verdict == {"yes", "no", "none"}
DownloadStep == {"idle", "sniff", "judge", "body", "ranged"}

TypeOK ==
    /\ probe \in [Key -> Entry]
    /\ pc \in [Download -> DownloadStep]
    /\ home \in [Download -> Key \cup {NoKey}]
    /\ asked \in [Download -> Key \cup {NoKey}]
    /\ seen \in [Download -> Verdict]
    /\ tried \in [Download -> BOOLEAN]

Init ==
    /\ probe = [k \in Key |-> Absent]
    /\ pc = [d \in Download |-> "idle"]
    /\ home = [d \in Download |-> NoKey]
    /\ asked = [d \in Download |-> NoKey]
    /\ seen = [d \in Download |-> "none"]
    /\ tried = [d \in Download |-> FALSE]

-----------------------------------------------------------------------------
(* RunContext's methods on the table                                       *)

\* cached_range_ok
Cached(k) ==
    IF probe[k].age = ProbeTtl THEN "none"
    ELSE IF probe[k].ok THEN "yes" ELSE "no"

\* Mutant: the answer at hand is written over what others have found out.
RecordOk_Overwrites(k, ok) ==
    [probe EXCEPT ![k] = [ok |-> ok, misses |-> 0, age |-> 0]]

\* record_range_ok: an entry that says no stays, expired or not.
RecordOk(k, ok) ==
    IF probe[k].ok
      THEN [probe EXCEPT ![k] = [ok |-> ok, misses |-> 0, age |-> 0]]
      ELSE probe

\* Mutant: the counter is incremented without saturating.
RecordMiss_Wraps(k) ==
    LET m == probe[k].misses + 1
    IN  [probe EXCEPT ![k] = [ok |-> @.ok /\ m < Misses, misses |-> m, age |-> 0]]

\* record_range_miss: whatever the age of the entry it adds to.
RecordMiss(k) ==
    LET m == IF probe[k].misses < MissMax THEN probe[k].misses + 1 ELSE MissMax
    IN  [probe EXCEPT ![k] = [ok |-> @.ok /\ m < Misses, misses |-> m, age |-> 0]]

-----------------------------------------------------------------------------
(* A download                                                              *)

Go(d, from, to) == pc[d] \in from /\ pc' = [pc EXCEPT ![d] = to]

\* run_once; starting over after a checksum mismatch is, here, another one.
Begin(d, k) ==
    /\ Go(d, {"idle"}, "sniff")
    /\ home' = [home EXCEPT ![d] = k]
    /\ asked' = [asked EXCEPT ![d] = k]
    /\ UNCHANGED <<probe, seen, tried>>

\* try_streamed_once, when good headers have come: the cache is read.
Sniff(d) ==
    /\ Go(d, {"sniff"}, "judge")
    /\ seen' = [seen EXCEPT ![d] = Cached(asked[d])]
    /\ UNCHANGED <<probe, home, asked, tried>>

\* The header is recorded if nothing was cached when the download looked,
\* under the key of the URL requested, and decides in that case.  Segments
\* ask the URL that answered (key k).
Judge(d, header, big, k) ==
    LET rangeOk == seen[d] = "yes" \/ (seen[d] = "none" /\ header)
        segments == rangeOk /\ big /\ ~tried[d]
    IN  /\ Go(d, {"judge"}, IF segments THEN "ranged" ELSE "body")
        /\ probe' = IF seen[d] = "none" THEN RecordOk(asked[d], header) ELSE probe
        /\ seen' = [seen EXCEPT ![d] = "none"]
        /\ asked' = [asked EXCEPT ![d] = IF segments THEN k ELSE @]
        /\ tried' = [tried EXCEPT ![d] = @ \/ segments]
        /\ UNCHANGED home

\* run_streamed, run_segment: the same source once more or the next mirror.
Retry(d, k) ==
    /\ \/ Go(d, {"sniff", "body"}, "sniff")
       \/ Go(d, {"ranged"}, "ranged")
    /\ asked' = [asked EXCEPT ![d] = k]
    /\ UNCHANGED <<probe, home, seen, tried>>

\* try_segment_once: a segment is answered with the whole file.  Each of the
\* segments under way may be.
Ignored(d) ==
    /\ pc[d] = "ranged"
    /\ probe' = RecordMiss(asked[d])
    /\ UNCHANGED <<pc, home, asked, seen, tried>>

\* download_full_fallback: run_streamed from the URL the segments had.
Degrade(d) ==
    /\ Go(d, {"ranged"}, "sniff")
    /\ UNCHANGED <<probe, home, asked, seen, tried>>

Forgotten(d) ==
    /\ home' = [home EXCEPT ![d] = NoKey]
    /\ asked' = [asked EXCEPT ![d] = NoKey]
    /\ tried' = [tried EXCEPT ![d] = FALSE]

Done(d) ==
    /\ Go(d, {"body", "ranged"}, "idle")
    /\ Forgotten(d)
    /\ UNCHANGED <<probe, seen>>

\* The worker removes the entry of the task's own URL after every error, a
\* cancellation included.
Failed(d) ==
    /\ Go(d, {"sniff", "body", "ranged"}, "idle")
    /\ probe' = [probe EXCEPT ![home[d]] = Absent]
    /\ Forgotten(d)
    /\ UNCHANGED seen

\* Mutant: entries do not age.
Aged_Never(age) == age

Aged(age) == IF age < ProbeTtl THEN age + 1 ELSE ProbeTtl

Tick ==
    /\ probe' = [k \in Key |-> [probe[k] EXCEPT !.age = Aged(@)]]
    /\ UNCHANGED <<pc, home, asked, seen, tried>>

Next ==
    \/ Tick
    \/ \E d \in Download :
          \/ \E k \in Key :
                \/ Begin(d, k) \/ Retry(d, k)
                \/ \E header, big \in BOOLEAN : Judge(d, header, big, k)
          \/ Sniff(d) \/ Ignored(d) \/ Degrade(d) \/ Done(d) \/ Failed(d)

\* Time passes.
Spec == Init /\ [][Next]_vars /\ WF_vars(Tick)

-----------------------------------------------------------------------------
(* Properties                                                              *)

\* A host that is known to lie about Range is not called good again by the
\* headers of another download, not even of one that looked before the lie
\* was noticed and writes after it (record_range_ok).  (Once a task that has
\* failed has removed the entry, nothing is known of the host, and such a
\* header is recorded.)
NegativeStands ==
    [][\A k \in Key : Cached(k) = "no" => Cached(k)' # "yes"]_vars

Lying == \E d \in Download : Ignored(d)

\* A verdict against a host ends when the lies end, even if the headers of
\* every download go on saying no (HOST_PROBE_TTL).
HostIsRejudged ==
    <>[][~Lying]_vars => \A k \in Key : []<>(Cached(k) # "no")
=============================================================================
