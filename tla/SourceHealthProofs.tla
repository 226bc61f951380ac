-------------------------- MODULE SourceHealthProofs --------------------------
(***************************************************************************)
(* Proofs about SourceHealth: its types, and that an attempt is served an  *)
(* address of its list, for any addresses, answers, attempts and TTLs.     *)
(***************************************************************************)
EXTENDS SourceHealth, TLAPS, WellFoundedInduction

\* A remainder and its quotient.
LEMMA Remainder ==
    ASSUME NEW c \in Nat, NEW n \in Nat \ {0}
    PROVE  /\ c % n \in 0..n-1
           /\ c \div n \in Nat
           /\ c = n * (c \div n) + (c % n)
OBVIOUS

\* A remainder is known by its range.
LEMMA RemainderIs ==
    ASSUME NEW n \in Nat \ {0}, NEW q \in Nat, NEW b \in 0..n-1
    PROVE  (n * q + b) % n = b
OBVIOUS

\* From the cursor on, wherever it is, the places cover the list.
LEMMA PlacesCover ==
    ASSUME NEW n \in Nat \ {0}, NEW c \in Nat, NEW i \in 1..n
    PROVE  \E off \in 0..n-1 : ((c + off) % n) + 1 = i
<1>1. PICK q \in Nat, k \in 0..n-1 : c = n * q + k
  <2>1. /\ c % n \in 0..n-1 /\ c \div n \in Nat
        /\ c = n * (c \div n) + (c % n)
    BY Remainder
  <2> QED
    BY <2>1
<1>2. PICK b \in 0..n-1 : i = b + 1
  <2>1. i - 1 \in 0..n-1 /\ i = (i - 1) + 1
    OBVIOUS
  <2> QED
    BY <2>1
<1>3. PICK x \in Nat : x = n * q
  <2>1. n * q \in Nat
    BY <1>1
  <2> QED
    BY <2>1
<1>4. CASE b >= k
  <2>1. b - k \in 0..n-1 /\ c + (b - k) = n * q + b
    BY <1>1, <1>2, <1>3, <1>4
  <2>2. (c + (b - k)) % n = b
    BY <1>1, <1>2, <2>1, RemainderIs
  <2> QED
    BY <1>2, <2>1, <2>2
<1>5. CASE b < k
  <2>1. n * (q + 1) = x + n /\ q + 1 \in Nat
    BY <1>1, <1>3
  <2>2. ((b - k) + n) \in 0..n-1 /\ c + ((b - k) + n) = n * (q + 1) + b
    BY <1>1, <1>2, <1>3, <1>5, <2>1
  <2>3. (c + ((b - k) + n)) % n = b
    BY <1>2, <2>1, <2>2, RemainderIs
  <2> QED
    BY <1>2, <2>2, <2>3
<1> QED
  BY <1>1, <1>2, <1>4, <1>5

\* Places are places of the list, and none of the list is left out.
LEMMA PlaceIsIndex ==
    ASSUME NEW list \in Seq(Ip), list # <<>>, cursor \in Nat
    PROVE  /\ Len(list) \in Nat \ {0} /\ DOMAIN list = 1..Len(list)
           /\ \A off \in 0..Len(list)-1 : Place(list, off) \in DOMAIN list
           /\ \A i \in DOMAIN list : \E off \in 0..Len(list)-1 : Place(list, off) = i
<1>1. Len(list) \in Nat \ {0} /\ DOMAIN list = 1..Len(list)
  OBVIOUS
<1>2. ASSUME NEW off \in 0..Len(list)-1 PROVE Place(list, off) \in DOMAIN list
  <2>1. cursor + off \in Nat
    BY <1>1, <1>2
  <2>2. (cursor + off) % Len(list) \in 0..Len(list)-1
    BY <1>1, <2>1, Remainder
  <2> QED
    BY <1>1, <2>2 DEF Place
<1>3. ASSUME NEW i \in DOMAIN list
      PROVE  \E off \in 0..Len(list)-1 : Place(list, off) = i
  BY <1>1, PlacesCover DEF Place
<1> QED
  BY <1>1, <1>2, <1>3

\* Being less, as a pair of the relation that is well-founded.
LEMMA LessRel ==
    ASSUME NEW x \in Nat, NEW y \in Nat, x < y
    PROVE  <<x, y>> \in OpToRel(<, Nat)
<1>1. <<x, y>> \in Nat \X Nat /\ <<x, y>>[1] < <<x, y>>[2]
  OBVIOUS
<1> QED
  BY <1>1, Zenon DEF OpToRel

\* A set of natural numbers that is not empty has a least one.
LEMMA LeastChosen ==
    ASSUME NEW S \in SUBSET Nat, S # {}
    PROVE  LET least == CHOOSE o \in S : \A p \in S : o <= p IN
           least \in S /\ \A p \in S : least <= p
<1>1. PICK x \in S : \A y \in S : <<y, x>> \notin OpToRel(<, Nat)
  BY NatLessThanWellFounded, WFMin, Zenon
<1>2. \A y \in S : ~(y < x)
  BY <1>1, LessRel, Zenon
<1>3. \A y \in S : x <= y
  BY <1>2
<1> QED
  BY <1>3

\* A list and the blacklist after healing.
LEMMA HealedType ==
    ASSUME TypeOK, NEW list \in Seq(Ip)
    PROVE  Healed(list) \in [Ip -> 0..IpTtl]
BY TtlAssumption DEF TypeOK, Healed

\* Healing leaves an address of the list to be picked.
LEMMA HealedIsUsable ==
    ASSUME TypeOK, NEW list \in Seq(Ip), list # <<>>
    PROVE  Usable(list, Healed(list)) # {}
<1>1. /\ Len(list) \in Nat \ {0} /\ DOMAIN list = 1..Len(list)
      /\ \A off \in 0..Len(list)-1 : Place(list, off) \in DOMAIN list
      /\ \A i \in DOMAIN list : \E off \in 0..Len(list)-1 : Place(list, off) = i
  BY PlaceIsIndex DEF TypeOK
<1>2. \A i \in DOMAIN list : list[i] \in Ip
  BY <1>1
<1>3. CASE \A i \in DOMAIN list : IsDead(dead[list[i]])
  <2>1. 0 \in 0..Len(list)-1 /\ list[Place(list, 0)] \in Ip
    BY <1>1, <1>2
  <2>2. Healed(list)[list[Place(list, 0)]] = IpTtl
    BY <1>3, <2>1 DEF Healed
  <2>3. ~IsDead(IpTtl)
    BY TtlAssumption DEF IsDead
  <2> QED
    BY <2>1, <2>2, <2>3 DEF Usable
<1>4. CASE ~ \A i \in DOMAIN list : IsDead(dead[list[i]])
  <2>1. PICK i \in DOMAIN list : ~IsDead(dead[list[i]])
    BY <1>4
  <2>2. PICK off \in 0..Len(list)-1 : Place(list, off) = i
    BY <1>1
  <2>3. Healed(list) = dead
    BY <1>4 DEF Healed
  <2> QED
    BY <2>1, <2>2, <2>3 DEF Usable
<1> QED
  BY <1>3, <1>4

\* What a resolution has got is a list of addresses.
LEMMA GotIsList ==
    ASSUME TypeOK, NEW c \in Attempt
    PROVE  got[c] \in Seq(Ip)
<1>1. got[c] \in Answers \/ got[c] = <<>>
  BY DEF TypeOK
<1>2. <<>> \in Seq(Ip)
  OBVIOUS
<1> QED
  BY <1>1, <1>2, AnswersAssumption

\* A pick from a list with addresses serves one of them, and moves the
\* cursor and the tables accordingly.
LEMMA PickServes ==
    ASSUME TypeOK, NEW c \in Attempt, Pick(c), got[c] # <<>>
    PROVE  \E at \in DOMAIN got[c] :
              /\ \E off \in 0..Len(got[c])-1 :
                    /\ at = Place(got[c], off)
                    /\ \A o \in Usable(got[c], Healed(got[c])) : off <= o
              /\ got[c][at] \in Ip
              /\ pc' = [pc EXCEPT ![c] = "open"]
              /\ peer' = [peer EXCEPT ![c] = got[c][at]]
              /\ lastServed' = got[c][at]
              /\ cursor' = NextCursor(got[c], at)
              /\ cursor' \in Nat /\ cursor' < Len(got[c])
              /\ addrs' = got[c] /\ resolved' = 0
              /\ dead' \in [Ip -> 0..IpTtl]
<1> DEFINE list == got[c]
           usable == Usable(list, Healed(list))
           off == CHOOSE o \in usable : \A p \in usable : o <= p
           at == Place(list, off)
<1>1. list \in Seq(Ip) /\ list # <<>> /\ cursor \in Nat
  BY GotIsList DEF TypeOK
<1>2. /\ Len(list) \in Nat \ {0} /\ DOMAIN list = 1..Len(list)
      /\ \A o \in 0..Len(list)-1 : Place(list, o) \in DOMAIN list
  BY <1>1, PlaceIsIndex
<1>3. usable # {} /\ usable \subseteq 0..Len(list)-1
  <2>1. usable # {}
    BY <1>1, HealedIsUsable
  <2> QED
    BY <2>1 DEF Usable
<1>4. off \in usable /\ \A o \in usable : off <= o
  <2>1. usable \in SUBSET Nat
    BY <1>2, <1>3
  <2> HIDE DEF usable
  <2> QED
    BY <1>3, <2>1, LeastChosen
<1>5. at \in DOMAIN list /\ list[at] \in Ip
  <2>1. off \in 0..Len(list)-1
    BY <1>3, <1>4
  <2>2. at \in DOMAIN list
    BY <1>2, <2>1
  <2>3. \A i \in DOMAIN list : list[i] \in Ip
    BY <1>1, <1>2
  <2> QED
    BY <2>2, <2>3, Zenon
<1>6. /\ Go(c, {"pick"}, "open")
      /\ addrs' = list /\ resolved' = 0
      /\ dead' = Healed(list)
      /\ cursor' = NextCursor(list, at)
      /\ lastServed' = list[at]
      /\ peer' = [peer EXCEPT ![c] = list[at]]
  BY <1>3, Zenon DEF Pick
<1>7. cursor' \in Nat /\ cursor' < Len(list)
  <2>1. at \in Nat
    BY <1>2, <1>5
  <2> HIDE DEF at
  <2>2. at % Len(list) \in 0..Len(list)-1
    BY <1>2, <2>1, Remainder
  <2> QED
    BY <1>2, <1>6, <2>2 DEF NextCursor
<1>8. dead' \in [Ip -> 0..IpTtl]
  BY <1>1, <1>6, HealedType
<1>9. pc' = [pc EXCEPT ![c] = "open"]
  BY <1>6 DEF Go
<1>10. PICK k \in 0..Len(list)-1 : at = Place(list, k) /\ \A o \in usable : k <= o
  BY <1>3, <1>4
<1> HIDE DEF list, at
<1> QED
  BY <1>5, <1>6, <1>7, <1>8, <1>9, <1>10 DEF list

-----------------------------------------------------------------------------

LEMMA TypeInit == Init => TypeOK
BY TtlAssumption DEF Init, TypeOK, AttemptStep

\* Picking keeps the types, whether the list is empty or not.
LEMMA PickTypes ==
    ASSUME TypeOK, NEW c \in Attempt, Pick(c)
    PROVE  TypeOK'
<1>1. /\ got' = [got EXCEPT ![c] = <<>>]
      /\ UNCHANGED <<ipLevel, hostDead>>
  BY DEF Pick
<1>2. CASE got[c] = <<>>
  <2>1. Usable(got[c], Healed(got[c])) = {}
    BY <1>2 DEF Usable
  <2>2. Go(c, {"pick"}, "failed") /\ UNCHANGED <<tableVars, peer>>
    BY <2>1, Zenon DEF Pick
  <2> QED
    BY <1>1, <2>2 DEF Go, tableVars, TypeOK, AttemptStep
<1>3. CASE got[c] # <<>>
  <2>1. PICK at \in DOMAIN got[c] :
              /\ got[c][at] \in Ip
              /\ pc' = [pc EXCEPT ![c] = "open"]
              /\ peer' = [peer EXCEPT ![c] = got[c][at]]
              /\ lastServed' = got[c][at]
              /\ cursor' \in Nat /\ cursor' < Len(got[c])
              /\ addrs' = got[c] /\ resolved' = 0
              /\ dead' \in [Ip -> 0..IpTtl]
    BY <1>3, PickServes
  <2>2. 0 \in 0..DnsTtl
    BY TtlAssumption
  <2> QED
    BY <1>1, <2>1, <2>2 DEF TypeOK, AttemptStep
<1> QED
  BY <1>2, <1>3

\* Ages stay within their TTLs.
LEMMA TickTypes == TypeOK /\ Tick => TypeOK'
<1> SUFFICES ASSUME TypeOK, Tick PROVE TypeOK'
  OBVIOUS
<1>1. \A ttl \in Nat : \A age \in 0..ttl : Aged(age, ttl) \in 0..ttl
  BY DEF Aged
<1>2. resolved' \in 0..DnsTtl /\ hostDead' \in 0..HostTtl
  BY <1>1, TtlAssumption DEF Tick, TypeOK
<1>3. dead' \in [Ip -> 0..IpTtl]
  BY <1>1, TtlAssumption DEF Tick, TypeOK
<1> QED
  BY <1>2, <1>3 DEF Tick, TypeOK

LEMMA TypeStep == TypeOK /\ [Next]_vars => TypeOK'
<1> SUFFICES ASSUME TypeOK, [Next]_vars PROVE TypeOK'
  OBVIOUS
<1>0. 0 \in 0..IpTtl /\ IpTtl \in 0..IpTtl /\ 0 \in 0..HostTtl /\ HostTtl \in 0..HostTtl
  BY TtlAssumption
<1> USE DEF Go, AttemptStep, tableVars, Fresh
<1>9. ASSUME NEW c \in Attempt, NEW listedFirst \in BOOLEAN, Start(c, listedFirst)
      PROVE  TypeOK'
  <2>1. PICK to \in {"due", "spare"} : Go(c, {"idle"}, to)
    BY <1>9, Zenon DEF Start
  <2> QED
    BY <1>9, <2>1 DEF Start, TypeOK
<1>1. ASSUME NEW c \in Attempt, Resolve(c) PROVE TypeOK'
  BY <1>1 DEF Resolve, TypeOK
<1>2. ASSUME NEW c \in Attempt, LookedUp(c) PROVE TypeOK'
  BY <1>2 DEF LookedUp, TypeOK
<1>3. ASSUME NEW c \in Attempt, Connect(c) \/ Reuse(c) PROVE TypeOK'
  BY <1>3 DEF Connect, Reuse, TypeOK
<1>4. ASSUME NEW c \in Attempt, Answered(c) PROVE TypeOK'
  <2>1. \A a \in Ip : [dead EXCEPT ![a] = IpTtl] \in [Ip -> 0..IpTtl]
    BY <1>0 DEF TypeOK
  <2>2. dead' \in [Ip -> 0..IpTtl]
    BY <1>4, <2>1 DEF Answered, TypeOK
  <2> QED
    BY <1>4, <2>2 DEF Answered, TypeOK
<1>5. ASSUME NEW c \in Attempt, Delivered(c) PROVE TypeOK'
  BY <1>0, <1>5 DEF Delivered, TypeOK
<1>6. ASSUME NEW c \in Attempt, Fails(c) \/ Abandon(c) PROVE TypeOK'
  BY <1>6 DEF Fails, Abandon, TypeOK
<1>7. ASSUME NEW c \in Attempt, Blame(c) PROVE TypeOK'
  BY <1>0, <1>7 DEF Blame, TypeOK
<1>8. CASE UNCHANGED vars
  BY <1>8 DEF vars, TypeOK
<1> QED
  BY <1>1, <1>2, <1>3, <1>4, <1>5, <1>6, <1>7, <1>8, <1>9, PickTypes, TickTypes DEF Next

\* dns.rs: whatever is looked up, picked, blamed and healed, the tables hold
\* addresses of the host, and the cursor survives a list that has shrunk.
THEOREM TypesHold == Spec => []TypeOK
BY TypeInit, TypeStep, PTL DEF Spec

-----------------------------------------------------------------------------

\* Only picking ends the step of picking.
LEMMA OthersDoNotPick ==
    ASSUME TypeOK, [Next]_vars, NEW c \in Attempt, pc[c] = "pick", pc'[c] # "pick"
    PROVE  Pick(c)
<1>2. ASSUME NEW d \in Attempt, NEW from, NEW to, Go(d, from, to)
      PROVE  d = c /\ "pick" \in from
  <2>1. pc' = [pc EXCEPT ![d] = to] /\ pc[d] \in from
    BY <1>2 DEF Go
  <2>2. d = c
    BY <2>1 DEF TypeOK
  <2> QED
    BY <2>1, <2>2
<1>3. ~Tick /\ ~UNCHANGED vars
  BY DEF Tick, vars
<1>4. PICK d \in Attempt :
          \/ \E listedFirst \in BOOLEAN : Start(d, listedFirst)
          \/ Resolve(d) \/ LookedUp(d) \/ Pick(d) \/ Connect(d) \/ Reuse(d)
          \/ Answered(d) \/ Delivered(d) \/ Fails(d) \/ Blame(d) \/ Abandon(d)
  BY <1>3, Zenon DEF Next
<1>5. CASE Pick(d)
  <2>1. Go(d, {"pick"}, "failed") \/ Go(d, {"pick"}, "open")
    BY <1>5, Zenon DEF Pick
  <2> QED
    BY <1>2, <1>5, <2>1
<1>6. CASE Resolve(d) \/ Connect(d) \/ Reuse(d)
  <2>1. \E to \in {"pick", "lookup", "open"} : Go(d, Fresh, to)
    BY <1>6 DEF Resolve, Connect, Reuse
  <2> QED
    BY <1>2, <2>1 DEF Fresh
<1>8. CASE \E listedFirst \in BOOLEAN : Start(d, listedFirst)
  <2>1. \E to \in {"due", "spare"} : Go(d, {"idle"}, to)
    BY <1>8, Zenon DEF Start
  <2> QED
    BY <1>2, <2>1
<1>7. CASE LookedUp(d) \/ Answered(d) \/ Delivered(d) \/ Fails(d) \/ Blame(d) \/ Abandon(d)
  <2>1. \E to \in {"pick", "body", "idle", "failed"} :
            \E from \in SUBSET (AttemptStep \ {"pick"}) : Go(d, from, to)
    <3>1. /\ {"lookup"} \subseteq AttemptStep \ {"pick"}
          /\ {"open"} \subseteq AttemptStep \ {"pick"}
          /\ {"body"} \subseteq AttemptStep \ {"pick"}
          /\ {"failed"} \subseteq AttemptStep \ {"pick"}
          /\ {"lookup", "open", "body"} \subseteq AttemptStep \ {"pick"}
          /\ {"due", "spare", "lookup", "open", "body", "failed"} \subseteq AttemptStep \ {"pick"}
      BY DEF AttemptStep
    <3> QED
      BY <1>7, <3>1, Zenon DEF LookedUp, Answered, Delivered, Fails, Blame, Abandon
  <2> QED
    BY <1>2, <2>1
<1> QED
  BY <1>4, <1>5, <1>6, <1>7, <1>8

\* A step that leaves an attempt at connecting has given it an address of
\* its list.
LEMMA StepServes ==
    TypeOK /\ [Next]_vars =>
      [\A c \in Attempt : pc[c] = "pick" /\ pc'[c] # "pick" =>
          \/ got[c] = <<>>
          \/ pc'[c] = "open" /\ \E i \in DOMAIN got[c] : peer'[c] = got[c][i]]_vars
<1> SUFFICES ASSUME TypeOK, [Next]_vars, NEW c \in Attempt,
                    pc[c] = "pick", pc'[c] # "pick", got[c] # <<>>
             PROVE  pc'[c] = "open" /\ \E i \in DOMAIN got[c] : peer'[c] = got[c][i]
  OBVIOUS
<1>1. Pick(c)
  BY OthersDoNotPick
<1>2. PICK at \in DOMAIN got[c] :
          /\ pc' = [pc EXCEPT ![c] = "open"]
          /\ peer' = [peer EXCEPT ![c] = got[c][at]]
  BY <1>1, PickServes
<1> QED
  BY <1>2 DEF TypeOK

\* Whatever has been blamed, by whom and how long ago, and however lists
\* shrink and grow under the cursor: a list with an address in it serves one
\* of its own (IpHealth::pick).
THEOREM ServedHolds == Spec => AlwaysServed
BY TypeInit, TypeStep, StepServes, PTL DEF Spec, AlwaysServed

-----------------------------------------------------------------------------

\* The cursor is one place behind the address served last.
CursorFollows ==
    addrs # <<>> =>
        \E at \in DOMAIN addrs : lastServed = addrs[at] /\ cursor = NextCursor(addrs, at)

\* Only picking moves the cursor.
LEMMA CursorStep == TypeOK /\ CursorFollows /\ [Next]_vars => CursorFollows'
<1> SUFFICES ASSUME TypeOK, CursorFollows, [Next]_vars PROVE CursorFollows'
  OBVIOUS
<1>1. CASE UNCHANGED <<addrs, lastServed, cursor>>
  BY <1>1 DEF CursorFollows, NextCursor
<1>2. ASSUME NEW c \in Attempt, Pick(c) PROVE CursorFollows'
  <2>1. CASE got[c] = <<>>
    <3>1. Usable(got[c], Healed(got[c])) = {}
      BY <2>1 DEF Usable
    <3>2. UNCHANGED tableVars
      BY <1>2, <3>1, Zenon DEF Pick
    <3> QED
      BY <1>1, <3>2 DEF tableVars
  <2>2. CASE got[c] # <<>>
    <3>1. PICK at \in DOMAIN got[c] :
              /\ lastServed' = got[c][at]
              /\ cursor' = NextCursor(got[c], at)
              /\ addrs' = got[c]
      BY <1>2, <2>2, PickServes
    <3> QED
      BY <3>1, Zenon DEF CursorFollows, NextCursor
  <2> QED
    BY <2>1, <2>2
<1>3. ASSUME NEW c \in Attempt,
             \/ \E listedFirst \in BOOLEAN : Start(c, listedFirst)
             \/ Resolve(c) \/ LookedUp(c) \/ Connect(c) \/ Reuse(c)
             \/ Answered(c) \/ Delivered(c) \/ Fails(c) \/ Blame(c) \/ Abandon(c)
      PROVE  UNCHANGED <<addrs, lastServed, cursor>>
  BY <1>3 DEF Start, Resolve, LookedUp, Connect, Reuse, Answered, Delivered, Fails, Blame,
              Abandon, tableVars
<1>4. Tick => UNCHANGED <<addrs, lastServed, cursor>>
  BY DEF Tick
<1>5. CASE UNCHANGED vars
  BY <1>1, <1>5 DEF vars, tableVars
<1> QED
  BY <1>1, <1>2, <1>3, <1>4, <1>5, Zenon DEF Next

\* The place served last comes last from the cursor on.
LEMMA LastIsFarthest ==
    ASSUME NEW n \in Nat \ {0}, NEW at \in 1..n, NEW off \in 0..n-1
    PROVE  (((at % n) + off) % n) + 1 = at <=> off = n - 1
<1>1. CASE at = n
  <2>1. at % n = 0 /\ (0 + off) % n = off
    BY <1>1
  <2> QED
    BY <1>1, <2>1
<1>2. CASE at < n
  <2>1. at % n = at
    BY <1>2
  <2>2. CASE at + off < n
    <3>1. (at + off) % n = at + off
      BY <1>2, <2>2
    <3> QED
      BY <1>2, <2>1, <2>2, <3>1
  <2>3. CASE at + off >= n
    <3>1. PICK r \in 0..n-1 : r = at + off - n
      BY <1>2, <2>3
    <3>2. at + off = n * 1 + r
      BY <3>1
    <3>3. (at + off) % n = r
      BY <3>2, RemainderIs
    <3> QED
      BY <1>2, <2>1, <2>3, <3>1, <3>3
  <2> QED
    BY <2>2, <2>3
<1> QED
  BY <1>1, <1>2

\* A pick from the list served last moves on from the address served last,
\* if it can.
LEMMA StepMovesOn ==
    ASSUME TypeOK, CursorFollows, [Next]_vars,
           NEW c \in Attempt, pc[c] = "pick", pc'[c] = "open", got[c] = addrs,
           NEW i \in DOMAIN addrs, addrs[i] # lastServed, ~IsDead(dead[addrs[i]])
    PROVE  lastServed' # lastServed
<1>1. Pick(c) /\ addrs # <<>>
  BY OthersDoNotPick
<1>2. /\ addrs \in Seq(Ip) /\ Len(addrs) \in Nat \ {0} /\ DOMAIN addrs = 1..Len(addrs)
      /\ \A k \in DOMAIN addrs : \E off \in 0..Len(addrs)-1 : Place(addrs, off) = k
  <2>1. addrs \in Seq(Ip) /\ cursor \in Nat
    BY GotIsList DEF TypeOK
  <2> QED
    BY <1>1, <2>1, PlaceIsIndex
<1>3. \A j, k \in DOMAIN addrs : addrs[j] = addrs[k] => j = k
  BY <1>1, DistinctAssumption DEF TypeOK
<1>4. PICK old \in DOMAIN addrs : lastServed = addrs[old] /\ cursor = NextCursor(addrs, old)
  BY <1>1 DEF CursorFollows
<1>5. Healed(addrs) = dead
  BY DEF Healed
<1>6. PICK at \in DOMAIN addrs, off \in 0..Len(addrs)-1 :
          /\ at = Place(addrs, off) /\ lastServed' = addrs[at]
          /\ \A o \in Usable(addrs, dead) : off <= o
  BY <1>1, <1>5, PickServes
<1>7. PICK o \in 0..Len(addrs)-1 : Place(addrs, o) = i
  BY <1>2
<1>8. o \in Usable(addrs, dead)
  BY <1>7 DEF Usable
<1>9. \A k \in 0..Len(addrs)-1 : Place(addrs, k) = old <=> k = Len(addrs) - 1
  <2>1. PICK n \in Nat \ {0} : n = Len(addrs)
    BY <1>2
  <2>2. old \in 1..n /\ cursor = old % n
    BY <1>2, <1>4, <2>1 DEF NextCursor
  <2> SUFFICES ASSUME NEW k \in 0..n-1
               PROVE  Place(addrs, k) = old <=> k = n - 1
    BY <2>1
  <2>3. Place(addrs, k) = ((cursor + k) % n) + 1
    BY <2>1 DEF Place
  <2>4. (((old % n) + k) % n) + 1 = old <=> k = n - 1
    BY <2>2, LastIsFarthest
  <2> QED
    BY <2>2, <2>3, <2>4
<1>10. o # Len(addrs) - 1
  BY <1>4, <1>7, <1>9
<1>11. off # Len(addrs) - 1
  <2>1. PICK n \in Nat \ {0} : n = Len(addrs)
    BY <1>2
  <2>2. off <= o
    BY <1>6, <1>8
  <2>3. o \in 0..n-1 /\ off \in 0..n-1 /\ o # n - 1
    BY <2>1, <1>6, <1>7, <1>10
  <2> QED
    BY <2>1, <2>2, <2>3
<1>12. at # old
  BY <1>6, <1>9, <1>11
<1> QED
  BY <1>3, <1>4, <1>6, <1>12

\* Two picks in a row from one list serve two addresses, whatever happens
\* in between, if another one is usable (IpHealth::pick's cursor; a list has
\* no address twice, as TrackingResolver::resolve leaves repetitions out).
THEOREM NextHolds == Spec => NextIsAnother
<1>1. Init => CursorFollows
  BY DEF Init, CursorFollows
<1>2. TypeOK /\ CursorFollows /\ [Next]_vars =>
        [\A c \in Attempt :
          /\ pc[c] = "pick" /\ pc'[c] = "open" /\ got[c] = addrs
          /\ \E i \in DOMAIN addrs :
                addrs[i] # lastServed /\ ~IsDead(dead[addrs[i]])
          => lastServed' # lastServed]_vars
  BY StepMovesOn
<1> QED
  BY <1>1, <1>2, TypeInit, TypeStep, CursorStep, PTL DEF Spec, NextIsAnother
=============================================================================
