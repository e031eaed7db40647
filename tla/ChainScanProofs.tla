-------------------------- MODULE ChainScanProofs --------------------------
(***************************************************************************)
(* Proofs about ChainScan for every text: its loops find the groups they   *)
(* look for, and no statement is said to have a longer chain than it has   *)
(* infix operators.  And, for the texts that ChainDepth writes, that none  *)
(* is said to have a shorter chain than its tree is deep.                  *)
(***************************************************************************)
EXTENDS ChainDepth, SequenceTheorems, FiniteSetTheorems, TLAPS

-----------------------------------------------------------------------------
\* The inductive invariant.

\* What a group holds is the operators of all its segments.
Weight(g) == g.finished + g.current

\* The weights of gs add up to at most total; w are the sums up to each group.
Sums(gs, w) ==
    /\ w \in [0..Len(gs) -> Nat]
    /\ w[0] = 0
    /\ \A i \in 1..Len(gs) : w[i] = w[i - 1] + Weight(gs[i])

Weighed(gs, total) == \E w : Sums(gs, w) /\ w[Len(gs)] <= total

Sound(gs) == \A i \in 1..Len(gs) : gs[i].longest <= Weight(gs[i])

Members(gs, kind) == {i \in 1..Len(gs) : gs[i].kind = kind}

\* A stack of open groups, how many of each kind, and what they hold at most.
Stacked(gs, open, total) ==
    /\ gs \in Seq(Group) /\ Len(gs) >= 1
    /\ \A i \in 1..Len(gs) : gs[i].kind = "Statement" <=> i = 1
    /\ open \in [GroupKinds -> Nat]
    /\ \A k \in GroupKinds : open[k] = Cardinality(Members(gs, k))
    /\ Weighed(gs, total) /\ Sound(gs)

\* The loops find what they look for.
Aimed ==
    /\ closing \in GroupKinds \ {"Statement"} =>
          \E i \in 2..Len(groups) : groups[i].kind = closing
    /\ closing = "Angles" => Len(groups) > 1 /\ Top.kind = "Angle"

Deserved ==
    /\ Len(counts) = Len(totals)
    /\ \A i \in DOMAIN counts : counts[i].infix_chain <= totals[i]
    /\ result.outcome = "infix limit" =>
          /\ result.statement \in DOMAIN counts
          /\ counts[result.statement].infix_chain > MaxInfix

ScanInv ==
    /\ ScanTypeOK
    /\ Stacked(groups, open_by_kind, operators)
    /\ Aimed
    /\ Deserved

-----------------------------------------------------------------------------
\* Groups.

LEMMA SequenceOf ==
    ASSUME NEW S, NEW n \in Nat, NEW s \in [1..n -> S]
    PROVE  s \in Seq(S) /\ Len(s) = n
  <1>1. s \in Seq(S)
    BY SeqDef
  <1>2. Len(s) \in Nat /\ DOMAIN s = 1..Len(s) /\ DOMAIN s = 1..n
    BY <1>1, LenProperties
  <1> QED BY <1>1, <1>2

LEMMA GroupTypes ==
    /\ \A k \in GroupKinds : NewGroup(k) \in Group
    /\ \A g \in Group : EndSegment(g) \in Group /\ MergeSegments(g) \in Group
    /\ \A g \in Group : Chain(g) \in Nat /\ Weight(g) \in Nat
    /\ \A g \in Group, d \in Nat : [g EXCEPT !.current = @ + d] \in Group
  <1>1. \A k \in GroupKinds : NewGroup(k) \in Group
    BY DEF NewGroup, Group
  <1>2. ASSUME NEW g \in Group
        PROVE  EndSegment(g) \in Group /\ MergeSegments(g) \in Group
    <2>1. /\ g.kind \in GroupKinds /\ g.splits \in BOOLEAN
          /\ g.current \in Nat /\ g.longest \in Nat /\ g.finished \in Nat
          /\ g \in [{"kind", "current", "longest", "finished", "splits"} ->
                        GroupKinds \cup Nat \cup BOOLEAN]
      BY <1>2 DEF Group
    <2>2. /\ g.current + g.finished \in Nat
          /\ Larger(g.longest, g.current) \in Nat
      BY <2>1 DEF Larger
    <2>3. MergeSegments(g) \in Group
      BY <1>2, <2>1, <2>2 DEF MergeSegments, Group
    <2>4. CASE g.splits
      <3> DEFINE a == [g EXCEPT !.longest = Larger(@, g.current)]
                 b == [a EXCEPT !.finished = @ + g.current]
                 c == [b EXCEPT !.current = 0]
      <3>1. EndSegment(g) = c
        BY <2>4, <1>2 DEF EndSegment, Group
      <3>2. a \in Group /\ a.finished = g.finished
        <4> HIDE DEF Larger
        <4> QED BY <1>2, <2>2 DEF Group
      <3>3. b \in Group
        <4> HIDE DEF a
        <4> QED BY <3>2, <2>1 DEF Group
      <3>4. c \in Group
        <4> HIDE DEF b
        <4> QED BY <3>3 DEF Group
      <3> HIDE DEF c
      <3> QED BY <3>1, <3>4, <2>3
    <2>5. CASE ~g.splits
      BY <1>2, <2>3, <2>5 DEF EndSegment
    <2> QED BY <2>4, <2>5
  <1>3. ASSUME NEW g \in Group PROVE Chain(g) \in Nat /\ Weight(g) \in Nat
    BY <1>3 DEF Chain, Larger, Group, Weight
  <1>4. ASSUME NEW g \in Group, NEW d \in Nat
        PROVE  [g EXCEPT !.current = @ + d] \in Group
    BY <1>4 DEF Group
  <1> QED BY <1>1, <1>2, <1>3, <1>4

\* What happens to a group does not change its kind, and changes its weight
\* by what was counted.
LEMMA GroupSteps ==
    ASSUME NEW g \in Group, g.longest <= Weight(g)
    PROVE  /\ Chain(g) <= Weight(g)
           /\ EndSegment(g).kind = g.kind
           /\ Weight(EndSegment(g)) = Weight(g)
           /\ EndSegment(g).longest <= Weight(g)
           /\ MergeSegments(g).kind = g.kind
           /\ Weight(MergeSegments(g)) = Weight(g)
           /\ MergeSegments(g).longest <= Weight(g)
           /\ \A d \in Nat : LET h == [g EXCEPT !.current = @ + d] IN
                /\ h.kind = g.kind
                /\ Weight(h) = Weight(g) + d
                /\ h.longest <= Weight(h)
  BY DEF Group, Weight, Chain, Larger, EndSegment, MergeSegments

-----------------------------------------------------------------------------
\* Stacks.

\* One group changes, and weighs d more.
LEMMA Changed ==
    ASSUME NEW gs \in Seq(Group), Len(gs) >= 1,
           NEW h \in Group, NEW d \in Nat, NEW total \in Nat,
           h.kind = gs[Len(gs)].kind, Weight(h) = Weight(gs[Len(gs)]) + d,
           h.longest <= Weight(h),
           Weighed(gs, total), Sound(gs)
    PROVE  LET new == [gs EXCEPT ![Len(gs)] = h] IN
           /\ new \in Seq(Group) /\ Len(new) = Len(gs)
           /\ \A i \in 1..Len(gs) : new[i].kind = gs[i].kind
           /\ Weighed(new, total + d) /\ Sound(new)
  <1> DEFINE n == Len(gs)
             new == [gs EXCEPT ![n] = h]
  <1>1. new \in Seq(Group) /\ Len(new) = n
    BY ExceptSeq
  <1>2. \A i \in 1..n : new[i] = IF i = n THEN h ELSE gs[i]
    OBVIOUS
  <1>3. \A i \in 1..n : new[i].kind = gs[i].kind
    BY <1>2
  <1>4. Sound(new)
    BY <1>1, <1>2 DEF Sound
  <1>5. Weighed(new, total + d)
    <2>1. PICK w : Sums(gs, w) /\ w[Len(gs)] <= total
      BY DEF Weighed
    <2> DEFINE v == [i \in 0..n |-> IF i = n THEN w[n] + d ELSE w[i]]
    <2>2. n \in Nat /\ n >= 1
      OBVIOUS
    <2>3. w[n] \in Nat /\ w[0] = 0 /\ w \in [0..n -> Nat]
      BY <2>1, <2>2 DEF Sums
    <2>4. v \in [0..n -> Nat] /\ v[0] = 0
      BY <2>2, <2>3
    <2>5. ASSUME NEW i \in 1..n PROVE v[i] = v[i - 1] + Weight(new[i])
      <3>1. w[i] = w[i - 1] + Weight(gs[i])
        BY <2>1 DEF Sums
      <3>2. v[i - 1] = w[i - 1] /\ w[i - 1] \in Nat
        <4>1. i - 1 \in 0..n /\ i - 1 # n
          BY <2>2
        <4> HIDE DEF n
        <4> QED BY <4>1, <2>3
      <3>3. gs[i] \in Group
        BY ElementOfSeq
      <3>4. Weight(gs[i]) \in Nat
        BY <3>3, GroupTypes
      <3>5. CASE i = n
        BY <3>1, <3>2, <3>4, <3>5, <1>2
      <3>6. CASE i # n
        BY <3>1, <3>2, <3>6, <1>2
      <3> QED BY <3>5, <3>6
    <2>6. v[n] <= total + d
      BY <2>1, <2>2, <2>3
    <2>7. Sums(new, v)
      <3> HIDE DEF v, new
      <3> QED BY <1>1, <2>4, <2>5 DEF Sums
    <2> HIDE DEF v, new
    <2> QED BY <1>1, <2>6, <2>7 DEF Weighed
  <1> HIDE DEF new
  <1>6. QED
    BY <1>1, <1>3, <1>4, <1>5 DEF new

LEMMA Pushed ==
    ASSUME NEW gs \in Seq(Group), NEW kind \in GroupKinds, NEW total \in Nat,
           Weighed(gs, total), Sound(gs)
    PROVE  LET new == Append(gs, NewGroup(kind)) IN
           /\ new \in Seq(Group) /\ Len(new) = Len(gs) + 1
           /\ \A i \in 1..Len(gs) : new[i].kind = gs[i].kind
           /\ new[Len(gs) + 1].kind = kind
           /\ Weighed(new, total) /\ Sound(new)
  <1> DEFINE n == Len(gs)
             g == NewGroup(kind)
             new == Append(gs, g)
  <1>1. g \in Group /\ g.kind = kind /\ Weight(g) = 0 /\ g.longest = 0
    BY GroupTypes DEF NewGroup, Weight
  <1>2. n \in Nat
    BY LenProperties
  <1> HIDE DEF g
  <1>3. new \in Seq(Group) /\ Len(new) = n + 1
    BY <1>1, AppendProperties
  <1>4. /\ \A i \in 1..n : new[i] = gs[i]
        /\ new[n + 1] = g
    BY <1>1, AppendProperties
  <1> HIDE DEF new
  <1>5. Sound(new)
    <2> SUFFICES ASSUME NEW i \in 1..Len(new)
                 PROVE  new[i].longest <= Weight(new[i])
      BY DEF Sound
    <2>1. CASE i = n + 1
      BY <2>1, <1>4, <1>1
    <2>2. CASE i # n + 1
      <3>1. i \in 1..n
        BY <2>2, <1>2, <1>3
      <3> QED BY <3>1, <1>4 DEF Sound, n
    <2> QED BY <2>1, <2>2
  <1>6. Weighed(new, total)
    <2>1. PICK w : Sums(gs, w) /\ w[n] <= total
      BY DEF Weighed, n
    <2> DEFINE v == [i \in 0..(n + 1) |-> IF i = n + 1 THEN w[n] ELSE w[i]]
    <2>2. w \in [0..n -> Nat] /\ w[0] = 0
      BY <2>1 DEF Sums, n
    <2>3. v \in [0..(n + 1) -> Nat] /\ v[0] = 0 /\ v[n + 1] <= total
      BY <2>1, <2>2, <1>2
    <2>4. ASSUME NEW i \in 1..(n + 1) PROVE v[i] = v[i - 1] + Weight(new[i])
      <3>1. CASE i = n + 1
        <4>1. v[i] = w[n] /\ v[i - 1] = w[n] /\ w[n] \in Nat
          BY <3>1, <2>2, <1>2
        <4> HIDE DEF v
        <4> QED BY <4>1, <3>1, <1>1, <1>4
      <3>2. CASE i # n + 1
        <4>1. i \in 1..n
          BY <3>2, <1>2
        <4>2. v[i] = w[i] /\ v[i - 1] = w[i - 1]
          BY <4>1, <1>2
        <4>3. w[i] = w[i - 1] + Weight(gs[i])
          BY <4>1, <2>1 DEF Sums, n
        <4> HIDE DEF v
        <4> QED BY <4>1, <4>2, <4>3, <1>4
      <3> QED BY <3>1, <3>2
    <2> HIDE DEF v
    <2>5. Sums(new, v)
      BY <1>3, <2>3, <2>4 DEF Sums
    <2> QED BY <1>3, <2>3, <2>5 DEF Weighed
  <1> QED BY <1>1, <1>3, <1>4, <1>5, <1>6 DEF new, g, n

\* What is left when the top group closes.
Popped(gs) ==
    [i \in 1..(Len(gs) - 1) |->
        IF i = Len(gs) - 1
          THEN [gs[i] EXCEPT !.current = @ + Chain(gs[Len(gs)])]
          ELSE gs[i]]

LEMMA PoppedStack ==
    ASSUME NEW gs \in Seq(Group), Len(gs) > 1, NEW total \in Nat,
           Weighed(gs, total), Sound(gs)
    PROVE  LET new == Popped(gs) IN
           /\ new \in Seq(Group) /\ Len(new) = Len(gs) - 1
           /\ \A i \in 1..Len(new) : new[i].kind = gs[i].kind
           /\ Weighed(new, total) /\ Sound(new)
  <1> DEFINE n == Len(gs)
             m == n - 1
             c == Chain(gs[n])
             h == [gs[m] EXCEPT !.current = @ + c]
             new == Popped(gs)
  <1>1. n \in Nat /\ m \in Nat /\ m >= 1 /\ n = m + 1 /\ m \in 1..n /\ n \in 1..n
    BY LenProperties
  <1>2. \A i \in 1..n : gs[i] \in Group /\ gs[i].longest <= Weight(gs[i])
    BY ElementOfSeq DEF Sound
  <1>3. c \in Nat /\ c <= Weight(gs[n]) /\ Weight(gs[n]) \in Nat
    BY <1>1, <1>2, GroupTypes, GroupSteps
  <1> HIDE DEF c
  <1>4. /\ h \in Group /\ h.kind = gs[m].kind
        /\ Weight(h) = Weight(gs[m]) + c /\ h.longest <= Weight(h)
    BY <1>1, <1>2, <1>3, GroupTypes, GroupSteps
  <1> HIDE DEF h
  <1>5. new = [i \in 1..m |-> IF i = m THEN h ELSE gs[i]]
    BY DEF Popped, h, c
  <1> HIDE DEF new
  <1>6. new \in Seq(Group) /\ Len(new) = m
    <2>1. \A i \in 1..m : i \in 1..n
      BY <1>1
    <2>2. new \in [1..m -> Group]
      BY <1>2, <1>4, <1>5, <2>1
    <2> QED BY <1>1, <2>2, SequenceOf
  <1> HIDE DEF m
  <1>7. \A i \in 1..m : i \in 1..n /\ new[i] = IF i = m THEN h ELSE gs[i]
    BY <1>1, <1>5
  <1>8. \A i \in 1..m : new[i].kind = gs[i].kind
    BY <1>4, <1>7
  <1>9. Sound(new)
    BY <1>2, <1>4, <1>6, <1>7 DEF Sound
  <1>10. Weighed(new, total)
    <2>1. PICK w : Sums(gs, w) /\ w[n] <= total
      BY DEF Weighed
    <2> DEFINE v == [i \in 0..m |-> IF i = m THEN w[m] + c ELSE w[i]]
    <2>2. w \in [0..n -> Nat] /\ w[0] = 0
      BY <2>1 DEF Sums
    <2>3. w[m] \in Nat /\ w[n] = w[m] + Weight(gs[n])
      <3>1. w[n] = w[n - 1] + Weight(gs[n]) /\ n - 1 = m
        BY <1>1, <2>1 DEF Sums
      <3> QED BY <3>1, <1>1, <2>2
    <2>4. v \in [0..m -> Nat] /\ v[0] = 0 /\ v[m] <= total
      <3>1. w[m] + c <= total
        BY <1>3, <2>1, <2>3, <2>2, <1>1
      <3>2. v[m] = w[m] + c /\ v[0] = 0
        BY <1>1, <2>2
      <3>3. \A i \in 0..m : i \in 0..n
        BY <1>1
      <3>4. \A i \in 0..m : v[i] \in Nat
        BY <1>3, <2>2, <2>3, <3>3
      <3> QED BY <3>1, <3>2, <3>4
    <2>5. ASSUME NEW i \in 1..m PROVE v[i] = v[i - 1] + Weight(new[i])
      <3>1. i \in 1..n /\ w[i] = w[i - 1] + Weight(gs[i])
        BY <1>7, <2>1 DEF Sums
      <3>2. v[i - 1] = w[i - 1] /\ w[i - 1] \in Nat
        BY <1>1, <2>2
      <3>3. Weight(gs[i]) \in Nat
        BY <3>1, <1>2, GroupTypes
      <3>4. CASE i = m
        <4>1. v[i] = w[i] + c /\ Weight(new[i]) = Weight(gs[i]) + c
          BY <3>4, <1>1, <1>4, <1>7
        <4> HIDE DEF v
        <4> QED BY <4>1, <3>1, <3>2, <3>3, <1>3
      <3>5. CASE i # m
        <4>1. v[i] = w[i] /\ Weight(new[i]) = Weight(gs[i])
          BY <3>5, <1>1, <1>7
        <4> HIDE DEF v
        <4> QED BY <4>1, <3>1, <3>2
      <3> QED BY <3>4, <3>5
    <2> HIDE DEF v
    <2>6. Sums(new, v)
      BY <1>6, <2>4, <2>5 DEF Sums
    <2> QED BY <1>6, <2>4, <2>6 DEF Weighed
  <1> QED BY <1>6, <1>8, <1>9, <1>10 DEF new, m

\* Segments are merged or not: what was counted stays.
LEMMA Reshaped ==
    ASSUME NEW gs \in Seq(Group), NEW new, NEW total \in Nat,
           new = [i \in 1..Len(gs) |-> new[i]],
           \A i \in 1..Len(gs) : new[i] \in {gs[i], MergeSegments(gs[i])},
           Weighed(gs, total), Sound(gs)
    PROVE  /\ new \in Seq(Group) /\ Len(new) = Len(gs)
           /\ \A i \in 1..Len(gs) : new[i].kind = gs[i].kind
           /\ Weighed(new, total) /\ Sound(new)
  <1> DEFINE n == Len(gs)
  <1>1. n \in Nat
    BY LenProperties
  <1>2. ASSUME NEW i \in 1..n
        PROVE  /\ new[i] \in Group /\ new[i].kind = gs[i].kind
               /\ Weight(new[i]) = Weight(gs[i])
               /\ new[i].longest <= Weight(new[i])
    <2>1. gs[i] \in Group /\ gs[i].longest <= Weight(gs[i])
      BY ElementOfSeq DEF Sound
    <2> QED BY <2>1, GroupTypes, GroupSteps
  <1>3. new \in Seq(Group) /\ Len(new) = n
    <2>1. new \in [1..n -> Group]
      BY <1>2
    <2> QED BY <1>1, <2>1, SequenceOf
  <1>4. Sound(new)
    BY <1>2, <1>3 DEF Sound
  <1>5. PICK w : Sums(gs, w) /\ w[n] <= total
    BY DEF Weighed
  <1>6. Sums(new, w)
    BY <1>2, <1>3, <1>5 DEF Sums
  <1> QED BY <1>2, <1>3, <1>4, <1>5, <1>6 DEF Weighed

-----------------------------------------------------------------------------
\* How many groups of a kind there are.

LEMMA MembersFinite ==
    ASSUME NEW gs \in Seq(Group), NEW k
    PROVE  /\ IsFiniteSet(Members(gs, k))
           /\ Cardinality(Members(gs, k)) \in Nat
           /\ Cardinality(Members(gs, k)) = 0 <=> Members(gs, k) = {}
  <1>1. IsFiniteSet(1..Len(gs))
    BY FS_Interval, LenProperties
  <1>2. IsFiniteSet(Members(gs, k))
    BY <1>1, FS_Subset DEF Members
  <1> QED BY <1>2, FS_CardinalityType, FS_EmptySet

LEMMA MembersSame ==
    ASSUME NEW gs, NEW new, Len(new) = Len(gs),
           \A i \in 1..Len(gs) : new[i].kind = gs[i].kind, NEW k
    PROVE  Members(new, k) = Members(gs, k)
  BY DEF Members

LEMMA MembersPushed ==
    ASSUME NEW gs \in Seq(Group), NEW new \in Seq(Group), NEW kind, NEW k,
           Len(new) = Len(gs) + 1,
           \A i \in 1..Len(gs) : new[i].kind = gs[i].kind,
           new[Len(gs) + 1].kind = kind
    PROVE  Cardinality(Members(new, k)) =
             IF k = kind THEN Cardinality(Members(gs, k)) + 1
                         ELSE Cardinality(Members(gs, k))
  <1> DEFINE n == Len(gs)
  <1>1. n \in Nat /\ n + 1 \notin Members(gs, k)
    BY LenProperties DEF Members
  <1>2. \A i \in 1..(n + 1) : i = n + 1 \/ i \in 1..n
    BY <1>1
  <1>3. CASE k = kind
    <2>1. Members(new, k) = Members(gs, k) \cup {n + 1}
      BY <1>1, <1>2, <1>3 DEF Members
    <2>2. IsFiniteSet(Members(gs, k))
      BY MembersFinite
    <2> DEFINE M == Members(gs, k)
    <2>3. Cardinality(M \cup {n + 1}) = Cardinality(M) + 1
      <3> HIDE DEF M, n
      <3>1. IsFiniteSet(M) /\ n + 1 \notin M
        BY <1>1, <2>2 DEF M
      <3> QED BY <3>1, FS_AddElement
    <2> QED BY <1>3, <2>1, <2>3
  <1>4. CASE k # kind
    <2>1. Members(new, k) = Members(gs, k)
      BY <1>1, <1>2, <1>4 DEF Members
    <2> QED BY <1>4, <2>1
  <1> QED BY <1>3, <1>4

LEMMA MembersPopped ==
    ASSUME NEW gs \in Seq(Group), NEW new \in Seq(Group), NEW k,
           Len(gs) > 1, Len(new) = Len(gs) - 1,
           \A i \in 1..Len(new) : new[i].kind = gs[i].kind
    PROVE  Cardinality(Members(new, k)) =
             IF k = gs[Len(gs)].kind THEN Cardinality(Members(gs, k)) - 1
                                     ELSE Cardinality(Members(gs, k))
  <1> DEFINE n == Len(gs)
  <1>1. n \in Nat /\ Len(new) = n - 1
    BY LenProperties
  <1>2. \A i \in 1..n : i = n \/ i \in 1..(n - 1)
    BY <1>1
  <1>3. \A i \in 1..(n - 1) : i \in 1..n /\ i # n
    BY <1>1
  <1>4. n \in 1..n
    BY <1>1
  <1>5. CASE k = gs[n].kind
    <2>1. n \in Members(gs, k) /\ Members(new, k) = Members(gs, k) \ {n}
      BY <1>1, <1>2, <1>3, <1>4, <1>5 DEF Members
    <2> QED BY <1>5, <2>1, MembersFinite, FS_RemoveElement
  <1>6. CASE k # gs[n].kind
    <2>1. Members(new, k) = Members(gs, k)
      BY <1>1, <1>2, <1>3, <1>4, <1>6 DEF Members
    <2> QED BY <1>6, <2>1
  <1> QED BY <1>5, <1>6

-----------------------------------------------------------------------------
\* Stacks of open groups.

LEMMA StackKept ==
    ASSUME NEW gs, NEW open, NEW total, Stacked(gs, open, total),
           NEW new, NEW more,
           new \in Seq(Group), Len(new) = Len(gs),
           \A i \in 1..Len(gs) : new[i].kind = gs[i].kind,
           Weighed(new, more), Sound(new)
    PROVE  Stacked(new, open, more)
  <1>1. \A k : Members(new, k) = Members(gs, k)
    BY MembersSame
  <1> QED BY <1>1 DEF Stacked

LEMMA StackPushed ==
    ASSUME NEW gs, NEW open, NEW total \in Nat, Stacked(gs, open, total),
           NEW kind \in GroupKinds \ {"Statement"}
    PROVE  LET new == Append(gs, NewGroup(kind)) IN
           /\ Stacked(new, [open EXCEPT ![kind] = @ + 1], total)
           /\ Len(new) = Len(gs) + 1
  <1> DEFINE new == Append(gs, NewGroup(kind))
             more == [open EXCEPT ![kind] = @ + 1]
             n == Len(gs)
  <1>1. /\ gs \in Seq(Group) /\ n \in Nat /\ n >= 1
        /\ open \in [GroupKinds -> Nat]
        /\ Weighed(gs, total) /\ Sound(gs)
    BY LenProperties DEF Stacked
  <1>2. /\ new \in Seq(Group) /\ Len(new) = n + 1
        /\ \A i \in 1..n : new[i].kind = gs[i].kind
        /\ new[n + 1].kind = kind
        /\ Weighed(new, total) /\ Sound(new)
    BY <1>1, Pushed
  <1> HIDE DEF new
  <1>3. \A i \in 1..Len(new) : new[i].kind = "Statement" <=> i = 1
    <2> SUFFICES ASSUME NEW i \in 1..Len(new)
                 PROVE  new[i].kind = "Statement" <=> i = 1
      OBVIOUS
    <2>1. CASE i = n + 1
      BY <2>1, <1>1, <1>2
    <2>2. CASE i \in 1..n
      BY <2>2, <1>2 DEF Stacked
    <2> QED BY <2>1, <2>2, <1>1, <1>2
  <1>4. more \in [GroupKinds -> Nat]
    BY <1>1
  <1>5. ASSUME NEW k \in GroupKinds
        PROVE  more[k] = Cardinality(Members(new, k))
    <2>1. Cardinality(Members(new, k)) =
             IF k = kind THEN Cardinality(Members(gs, k)) + 1
                         ELSE Cardinality(Members(gs, k))
      BY <1>1, <1>2, MembersPushed
    <2>2. open[k] = Cardinality(Members(gs, k))
      BY DEF Stacked
    <2> QED BY <2>1, <2>2, <1>1
  <1> HIDE DEF more
  <1>6. Stacked(new, more, total)
    BY <1>1, <1>2, <1>3, <1>4, <1>5 DEF Stacked
  <1> QED BY <1>2, <1>6 DEF new, more

LEMMA StackPopped ==
    ASSUME NEW gs, NEW open, NEW total \in Nat, Stacked(gs, open, total),
           Len(gs) > 1
    PROVE  LET new == Popped(gs)
               kind == gs[Len(gs)].kind
           IN  /\ Stacked(new, [open EXCEPT ![kind] = @ - 1], total)
               /\ Len(new) = Len(gs) - 1
               /\ \A i \in 1..Len(new) : new[i].kind = gs[i].kind
  <1> DEFINE new == Popped(gs)
             kind == gs[Len(gs)].kind
             less == [open EXCEPT ![kind] = @ - 1]
             n == Len(gs)
  <1>1. /\ gs \in Seq(Group) /\ n \in Nat /\ n > 1
        /\ open \in [GroupKinds -> Nat]
        /\ Weighed(gs, total) /\ Sound(gs)
    BY LenProperties DEF Stacked
  <1>2. /\ new \in Seq(Group) /\ Len(new) = n - 1
        /\ \A i \in 1..Len(new) : new[i].kind = gs[i].kind
        /\ Weighed(new, total) /\ Sound(new)
    BY <1>1, PoppedStack
  <1> HIDE DEF new
  <1>3. \A i \in 1..Len(new) : new[i].kind = "Statement" <=> i = 1
    <2>1. \A i \in 1..Len(new) : i \in 1..n
      BY <1>1, <1>2
    <2> QED BY <1>2, <2>1 DEF Stacked
  <1>4. kind \in GroupKinds /\ n \in Members(gs, kind)
    <2>1. n \in 1..n
      BY <1>1
    <2>2. gs[n] \in Group
      BY <1>1, <2>1, ElementOfSeq
    <2> QED BY <2>1, <2>2 DEF Group, Members
  <1>5. \A k \in GroupKinds : open[k] = Cardinality(Members(gs, k))
    BY DEF Stacked
  <1>6. open[kind] \in Nat /\ open[kind] # 0
    BY <1>1, <1>4, <1>5, MembersFinite
  <1> HIDE DEF kind
  <1>7. less \in [GroupKinds -> Nat]
    BY <1>1, <1>4, <1>6
  <1>8. ASSUME NEW k \in GroupKinds
        PROVE  less[k] = Cardinality(Members(new, k))
    <2>1. Cardinality(Members(new, k)) =
             IF k = kind THEN Cardinality(Members(gs, k)) - 1
                         ELSE Cardinality(Members(gs, k))
      BY <1>1, <1>2, MembersPopped DEF kind
    <2> QED BY <2>1, <1>1, <1>4, <1>5
  <1> HIDE DEF less
  <1>9. Stacked(new, less, total)
    BY <1>1, <1>2, <1>3, <1>7, <1>8 DEF Stacked
  <1> QED BY <1>2, <1>9 DEF new, less, kind

\* After t is counted.
Plus(t) == IF IsInfix(t) THEN operators + 1 ELSE operators

LEMMA StackCounted ==
    ASSUME NEW t, operators \in Nat,
           Stacked(groups, open_by_kind, operators)
    PROVE  /\ Stacked(Counted(t), open_by_kind, Plus(t))
           /\ Plus(t) \in Nat
           /\ Len(Counted(t)) = Len(groups)
           /\ \A i \in 1..Len(groups) : Counted(t)[i].kind = groups[i].kind
  <1> DEFINE n == Len(groups)
  <1>1. CASE IsInfix(t)
    <2> DEFINE h == [groups[n] EXCEPT !.current = @ + 1]
    <2>1. /\ groups \in Seq(Group) /\ n \in 1..n
          /\ Weighed(groups, operators) /\ Sound(groups)
      BY LenProperties DEF Stacked
    <2>2. groups[n] \in Group /\ groups[n].longest <= Weight(groups[n])
      BY <2>1, ElementOfSeq DEF Sound
    <2>3. /\ h \in Group /\ h.kind = groups[n].kind
          /\ Weight(h) = Weight(groups[n]) + 1 /\ h.longest <= Weight(h)
      BY <2>2, GroupTypes, GroupSteps
    <2>4. Counted(t) = [groups EXCEPT ![n] = h] /\ Plus(t) = operators + 1
      BY <1>1 DEF Counted, Plus
    <2> DEFINE new == [groups EXCEPT ![n] = h]
    <2> HIDE DEF h
    <2>6. /\ new \in Seq(Group) /\ Len(new) = n
          /\ \A i \in 1..n : new[i].kind = groups[i].kind
          /\ Weighed(new, operators + 1) /\ Sound(new)
      <3>1. n >= 1 /\ 1 \in Nat
        BY <2>1
      <3> QED BY <2>1, <2>3, <3>1, Changed
    <2> HIDE DEF new
    <2>7. Stacked(new, open_by_kind, operators + 1)
      BY <2>6, StackKept
    <2>8. Counted(t) = new
      BY <2>4 DEF new
    <2>9. Plus(t) = operators + 1 /\ Plus(t) \in Nat
      BY <2>4
    <2> QED BY <2>6, <2>7, <2>8, <2>9, Zenon
  <1>2. CASE ~IsInfix(t)
    BY <1>2 DEF Counted, Plus
  <1> QED BY <1>1, <1>2

-----------------------------------------------------------------------------
\* The steps of the scan.

LEMMA FreshStack == Stacked(NoGroups, NoneOpen, 0)
  <1> DEFINE g == NewGroup("Statement")
  <1>1. g \in Group /\ g.kind = "Statement" /\ Weight(g) = 0 /\ g.longest = 0
    BY GroupTypes DEF NewGroup, Weight, GroupKinds
  <1> HIDE DEF g
  <1>2. NoGroups = <<g>> /\ NoGroups \in Seq(Group) /\ Len(NoGroups) = 1
    BY <1>1 DEF NoGroups, g
  <1>3. Sound(NoGroups)
    BY <1>1, <1>2 DEF Sound
  <1>4. Weighed(NoGroups, 0)
    <2> DEFINE w == [i \in 0..1 |-> 0]
    <2>1. Sums(NoGroups, w)
      BY <1>1, <1>2 DEF Sums
    <2> QED BY <1>2, <2>1 DEF Weighed
  <1>5. NoneOpen \in [GroupKinds -> Nat]
    BY DEF NoneOpen
  <1>6. ASSUME NEW k \in GroupKinds
        PROVE  NoneOpen[k] = Cardinality(Members(NoGroups, k))
    <2>1. CASE k = "Statement"
      <3>1. Members(NoGroups, k) = {1}
        BY <2>1, <1>1, <1>2 DEF Members
      <3> QED BY <2>1, <3>1, FS_Singleton DEF NoneOpen
    <2>2. CASE k # "Statement"
      <3>1. Members(NoGroups, k) = {}
        BY <2>2, <1>1, <1>2 DEF Members
      <3> QED BY <2>2, <3>1, FS_EmptySet DEF NoneOpen
    <2> QED BY <2>1, <2>2
  <1> QED BY <1>1, <1>2, <1>3, <1>4, <1>5, <1>6 DEF Stacked

LEMMA Begins == ScanInit => ScanInv
  <1> SUFFICES ASSUME ScanInit PROVE ScanInv
    OBVIOUS
  <1>1. Stacked(NoGroups, NoneOpen, 0)
    BY FreshStack
  <1>2. ScanTypeOK
    <2>1. groups \in Seq(Group) /\ open_by_kind \in [GroupKinds -> Nat]
      BY <1>1 DEF Stacked, ScanInit
    <2>2. counts = <<>> /\ totals = <<>> /\ closing = "none"
      BY DEF ScanInit
    <2>3. /\ counts \in Seq([set_operators : Nat, infix_chain : Nat])
          /\ totals \in Seq(Nat)
      BY <2>2
    <2>4. /\ set_operators \in Nat /\ operators \in Nat
          /\ after_operand \in BOOLEAN
          /\ operand \in {"Complete", "Expected", "Unknown"}
          /\ previous \in {"Other", "Period", "DoubleColon",
                           "TypeConstructor", "CaseStart"}
          /\ closing \in GroupKinds \cup {"none", "Angles", "Text", "checked"}
      BY DEF ScanInit
    <2>5. result \in [outcome : {"none", "not tokenized", "set limit",
                                "infix limit", "parsed", "syntax error",
                                "trailing tokens"}, statement : Nat]
      <3>1. PICK outcome \in {"none", "not tokenized"} :
                result = [outcome |-> outcome, statement |-> 0]
        BY DEF ScanInit
      <3> QED BY <3>1
    <2>6. text \in Texts
      BY DEF ScanInit
    <2> QED BY <2>1, <2>3, <2>4, <2>5, <2>6 DEF ScanTypeOK
  <1>3. Aimed
    BY DEF ScanInit, Aimed, GroupKinds
  <1>4. Deserved
    <2>1. /\ counts = <<>> /\ totals = <<>>
          /\ result.outcome # "infix limit"
      <3>1. PICK outcome \in {"none", "not tokenized"} :
                result = [outcome |-> outcome, statement |-> 0]
        BY DEF ScanInit
      <3> QED BY <3>1 DEF ScanInit
    <2>2. DOMAIN counts = {} /\ Len(counts) = Len(totals)
      <3>1. << >> \in Seq(Nat) /\ Len(<< >>) = 0
        BY EmptySeq
      <3>2. DOMAIN << >> = 1..0
        BY <3>1, LenProperties
      <3>3. 1..0 = {}
        OBVIOUS
      <3>4. counts = totals /\ counts = << >>
        BY <2>1
      <3> QED BY <3>2, <3>3, <3>4, Zenon
    <2> QED BY <2>1, <2>2 DEF Deserved
  <1> QED BY <1>1, <1>2, <1>3, <1>4 DEF ScanInv, ScanInit

LEMMA PlaceType == \A t : PlaceAfter(t) \in {"Complete", "Expected", "Unknown"}
  BY DEF PlaceAfter

\* What a step does besides the groups and the place.
LEMMA SeenKeeps ==
    ASSUME ScanTypeOK, Deserved, NEW t \in Tokens, Seen(t)
    PROVE  /\ text' \in Texts
           /\ set_operators' \in Nat /\ operators' = Plus(t)
           /\ after_operand' \in BOOLEAN
           /\ previous' \in {"Other", "Period", "DoubleColon",
                             "TypeConstructor", "CaseStart"}
           /\ closing = "none"
           /\ counts' \in Seq([set_operators : Nat, infix_chain : Nat])
           /\ totals' \in Seq(Nat)
           /\ result' \in [outcome : {"none", "not tokenized", "set limit",
                                      "infix limit", "parsed", "syntax error",
                                      "trailing tokens"}, statement : Nat]
           /\ Deserved'
  <1>1. Deserved'
    BY DEF Seen, Deserved
  <1>2. /\ text' = text /\ counts' = counts /\ totals' = totals
        /\ result' = result /\ closing = "none"
        /\ after_operand' \in BOOLEAN
        /\ operators' = Plus(t)
    BY DEF Seen, EndsOperand, Plus
  <1>3. set_operators' \in Nat
    <2>1. set_operators \in Nat
      BY DEF ScanTypeOK
    <2>2. set_operators' \in {set_operators, set_operators + 1}
      BY DEF Seen
    <2> QED BY <2>1, <2>2
  <1>4. previous' \in {"Other", "Period", "DoubleColon", "TypeConstructor",
                       "CaseStart"}
    BY DEF Seen, PreviousOf
  <1> QED BY <1>1, <1>2, <1>3, <1>4 DEF ScanTypeOK

LEMMA TopKind ==
    ASSUME NEW gs, NEW open, NEW total, Stacked(gs, open, total)
    PROVE  /\ Len(gs) \in Nat /\ Len(gs) \in 1..Len(gs)
           /\ gs[Len(gs)] \in Group
           /\ gs[Len(gs)].longest <= Weight(gs[Len(gs)])
           /\ gs[Len(gs)].kind # "Statement" => Len(gs) > 1
  <1>1. gs \in Seq(Group) /\ Len(gs) \in Nat /\ Len(gs) \in 1..Len(gs)
    BY LenProperties DEF Stacked
  <1>2. gs[Len(gs)].kind = "Statement" <=> Len(gs) = 1
    BY <1>1 DEF Stacked
  <1> QED BY <1>1, <1>2, ElementOfSeq DEF Stacked, Sound

LEMMA OpenKeeps ==
    ASSUME ScanInv, NEW t \in Tokens, Open(t)
    PROVE  ScanInv'
  <1>1. ScanTypeOK /\ Deserved /\ Stacked(groups, open_by_kind, operators)
    BY DEF ScanInv
  <1>2. operators \in Nat
    BY <1>1 DEF ScanTypeOK
  <1>3. Seen(t) /\ closing' = "none"
    BY DEF Open, Seen
  <1> DEFINE kind == GroupOf(t)
  <1>4. kind \in GroupKinds \ {"Statement"}
    BY DEF Open, Opens, GroupOf, GroupKinds
  <1>5. Stacked(Counted(t), open_by_kind, Plus(t)) /\ Plus(t) \in Nat
    BY <1>1, <1>2, StackCounted
  <1> HIDE DEF kind
  <1>6. Stacked(Append(Counted(t), NewGroup(kind)),
                [open_by_kind EXCEPT ![kind] = @ + 1], Plus(t))
    BY <1>4, <1>5, StackPushed
  <1>7. /\ groups' = Append(Counted(t), NewGroup(kind))
        /\ open_by_kind' = [open_by_kind EXCEPT ![kind] = @ + 1]
        /\ operand' \in {"Complete", "Expected", "Unknown"}
    BY PlaceType DEF Open, kind
  <1>8. operators' = Plus(t)
    BY <1>1, <1>3, SeenKeeps
  <1>9. Stacked(groups', open_by_kind', operators')
    BY <1>6, <1>7, <1>8
  <1>10. groups' \in Seq(Group) /\ open_by_kind' \in [GroupKinds -> Nat]
    BY <1>9 DEF Stacked
  <1>11. ScanTypeOK'
    BY <1>1, <1>3, <1>5, <1>7, <1>10, SeenKeeps DEF ScanTypeOK
  <1>12. Aimed'
    BY <1>3 DEF Aimed, GroupKinds
  <1>13. Deserved'
    BY <1>1, <1>3, SeenKeeps
  <1> QED BY <1>9, <1>11, <1>12, <1>13 DEF ScanInv

\* A step after which no loop runs keeps the invariant if it keeps the stack.
LEMMA QuietKeeps ==
    ASSUME ScanInv, NEW t \in Tokens, Seen(t),
           closing' = "none",
           Stacked(groups', open_by_kind', Plus(t)),
           operand' \in {"Complete", "Expected", "Unknown"}
    PROVE  ScanInv'
  <1>1. ScanTypeOK /\ Deserved
    BY DEF ScanInv
  <1>2. operators' = Plus(t)
    BY <1>1, SeenKeeps
  <1>3. Plus(t) \in Nat
    <2>1. operators \in Nat
      BY <1>1 DEF ScanTypeOK
    <2> QED BY <2>1 DEF Plus
  <1>4. Stacked(groups', open_by_kind', operators')
    BY <1>2
  <1>5. groups' \in Seq(Group) /\ open_by_kind' \in [GroupKinds -> Nat]
    BY <1>4 DEF Stacked
  <1>6. ScanTypeOK'
    BY <1>1, <1>2, <1>3, <1>5, SeenKeeps DEF ScanTypeOK
  <1>7. Aimed'
    BY DEF Aimed, GroupKinds
  <1>8. Deserved'
    BY <1>1, SeenKeeps
  <1> QED BY <1>4, <1>6, <1>7, <1>8 DEF ScanInv

LEMMA SplitKeeps ==
    ASSUME ScanInv, NEW t \in Tokens, Split(t)
    PROVE  ScanInv'
  <1>1. Stacked(groups, open_by_kind, operators) /\ operators \in Nat
    BY DEF ScanInv, ScanTypeOK
  <1>2. Seen(t) /\ closing' = "none" /\ open_by_kind' = open_by_kind
    BY DEF Split, Seen
  <1>3. Plus(t) = operators
    BY DEF Split, EndsSegment, Plus, IsInfix, OperatorSymbols, CaseWords
  <1> DEFINE n == Len(groups)
             h == EndSegment(groups[n])
             new == [groups EXCEPT ![n] = h]
  <1>4. groups' = new
    BY DEF Split
  <1>5. /\ groups \in Seq(Group) /\ n >= 1
        /\ Weighed(groups, operators) /\ Sound(groups)
    BY <1>1 DEF Stacked
  <1>6. groups[n] \in Group /\ groups[n].longest <= Weight(groups[n])
    BY <1>1, TopKind
  <1>7. Weight(groups[n]) \in Nat
    BY <1>6, GroupTypes
  <1>8. /\ h \in Group /\ h.kind = groups[n].kind
        /\ Weight(h) = Weight(groups[n]) + 0 /\ h.longest <= Weight(h)
    BY <1>6, <1>7, GroupTypes, GroupSteps
  <1> HIDE DEF h
  <1>9. /\ new \in Seq(Group) /\ Len(new) = n
        /\ \A i \in 1..n : new[i].kind = groups[i].kind
        /\ Weighed(new, operators + 0) /\ Sound(new)
    <2>1. 0 \in Nat
      OBVIOUS
    <2> QED BY <1>1, <1>5, <1>8, <2>1, Changed
  <1> HIDE DEF new
  <1>10. operators + 0 = operators
    BY <1>1
  <1>11. Stacked(new, open_by_kind, operators)
    BY <1>1, <1>9, <1>10, StackKept
  <1>12. operand' \in {"Complete", "Expected", "Unknown"}
    BY PlaceType DEF Split
  <1> QED BY <1>2, <1>3, <1>4, <1>11, <1>12, QuietKeeps

LEMMA DistrustKeeps ==
    ASSUME ScanInv, NEW t \in Tokens, DistrustCaseEnds(t)
    PROVE  ScanInv'
  <1>1. Stacked(groups, open_by_kind, operators) /\ operators \in Nat
    BY DEF ScanInv, ScanTypeOK
  <1>2. /\ Seen(t) /\ closing' = "none" /\ open_by_kind' = open_by_kind
        /\ operand' = "Unknown"
    BY DEF DistrustCaseEnds, Seen
  <1>3. Plus(t) = operators
    BY DEF DistrustCaseEnds, MayEndCase, Plus, IsInfix, OperatorSymbols
  <1>4. /\ groups' = [i \in 1..Len(groups) |-> groups'[i]]
        /\ \A i \in 1..Len(groups) :
              groups'[i] \in {groups[i], MergeSegments(groups[i])}
    BY DEF DistrustCaseEnds
  <1>5. /\ groups \in Seq(Group)
        /\ Weighed(groups, operators) /\ Sound(groups)
    BY <1>1 DEF Stacked
  <1>6. /\ groups' \in Seq(Group) /\ Len(groups') = Len(groups)
        /\ \A i \in 1..Len(groups) : groups'[i].kind = groups[i].kind
        /\ Weighed(groups', operators) /\ Sound(groups')
    BY <1>1, <1>4, <1>5, Reshaped
  <1>7. Stacked(groups', open_by_kind, operators)
    BY <1>1, <1>6, StackKept
  <1> QED BY <1>2, <1>3, <1>7, QuietKeeps

LEMMA PassKeeps ==
    ASSUME ScanInv, NEW t \in Tokens, Pass(t)
    PROVE  ScanInv'
  <1>1. Stacked(groups, open_by_kind, operators) /\ operators \in Nat
    BY DEF ScanInv, ScanTypeOK
  <1>2. /\ Seen(t) /\ closing' = "none" /\ open_by_kind' = open_by_kind
        /\ groups' = Counted(t)
        /\ operand' \in {"Complete", "Expected", "Unknown"}
    BY PlaceType DEF Pass, Seen
  <1>3. Stacked(Counted(t), open_by_kind, Plus(t))
    BY <1>1, StackCounted
  <1> QED BY <1>2, <1>3, QuietKeeps

LEMMA StartClosingKeeps ==
    ASSUME ScanInv, NEW t \in Tokens, StartClosing(t)
    PROVE  ScanInv'
  <1>1. /\ Stacked(groups, open_by_kind, operators) /\ operators \in Nat
        /\ ScanTypeOK /\ Deserved
    BY DEF ScanInv, ScanTypeOK
  <1>2. /\ Seen(t) /\ open_by_kind' = open_by_kind
        /\ groups' = Counted(t) /\ operand' = "Complete"
    BY DEF StartClosing
  <1>3. /\ Stacked(Counted(t), open_by_kind, Plus(t)) /\ Plus(t) \in Nat
        /\ Len(Counted(t)) = Len(groups)
        /\ \A i \in 1..Len(groups) : Counted(t)[i].kind = groups[i].kind
    BY <1>1, StackCounted
  <1>4. operators' = Plus(t)
    BY <1>1, <1>2, SeenKeeps
  <1>5. Stacked(groups', open_by_kind', operators')
    BY <1>2, <1>3, <1>4
  <1>6. groups' \in Seq(Group) /\ open_by_kind' \in [GroupKinds -> Nat]
    BY <1>5 DEF Stacked
  <1>7. /\ Len(groups) \in Nat /\ Len(groups) \in 1..Len(groups)
        /\ Top.kind # "Statement" => Len(groups) > 1
    BY <1>1, TopKind DEF Top
  <1>8. /\ closing' \in GroupKinds \cup {"none", "Angles"}
        /\ Aimed'
    <2>1. ASSUME NEW k \in GroupKinds \ {"Statement"}, open_by_kind[k] > 0
          PROVE  \E i \in 2..Len(groups) : groups[i].kind = k
      <3>1. Members(groups, k) # {}
        <4>1. open_by_kind[k] = Cardinality(Members(groups, k))
          BY <1>1 DEF Stacked
        <4>2. groups \in Seq(Group)
          BY <1>1 DEF Stacked
        <4> QED BY <2>1, <4>1, <4>2, MembersFinite
      <3>2. PICK i \in 1..Len(groups) : groups[i].kind = k
        BY <3>1 DEF Members
      <3>3. i # 1
        BY <1>1, <3>2 DEF Stacked
      <3> QED BY <3>2, <3>3, <1>7
    <2>2. ASSUME NEW k \in GroupKinds \ {"Statement"}, closing' = k,
                 \E i \in 2..Len(groups) : groups[i].kind = k
          PROVE  Aimed'
      <3>1. PICK i \in 2..Len(groups) : groups[i].kind = k
        BY <2>2
      <3>2. i \in 1..Len(groups) /\ i \in 2..Len(groups')
        BY <1>2, <1>3, <1>7
      <3>3. groups'[i].kind = k
        BY <1>2, <1>3, <3>1, <3>2
      <3> QED BY <2>2, <3>2, <3>3 DEF Aimed, GroupKinds
    <2>3. CASE t \in {"rparen", "rbracket", "rbrace"}
      <3>1. GroupOf(t) \in GroupKinds \ {"Statement"}
        BY <2>3 DEF GroupOf, GroupKinds
      <3>2. closing' = IF open_by_kind[GroupOf(t)] > 0 THEN GroupOf(t)
                                                       ELSE "none"
        BY <2>3 DEF StartClosing, EndsCase
      <3>3. CASE closing' = "none"
        BY <3>3 DEF Aimed, GroupKinds
      <3>4. CASE closing' = GroupOf(t) /\ open_by_kind[GroupOf(t)] > 0
        BY <2>1, <2>2, <3>1, <3>4
      <3> QED BY <3>2, <3>3, <3>4
    <2>4. CASE t \in {"gt", "shr"} /\ Top.kind = "Angle"
      <3>1. Len(groups) \in 2..Len(groups) /\ groups[Len(groups)].kind = "Angle"
        BY <2>4, <1>7 DEF Top
      <3>2. CASE closing' = "Angle"
        BY <2>2, <3>1, <3>2 DEF GroupKinds
      <3>3. CASE closing' = "Angles"
        <4>1. Len(groups') > 1 /\ groups'[Len(groups')].kind = "Angle"
          BY <1>2, <1>3, <1>7, <3>1
        <4> QED BY <3>3, <4>1 DEF Aimed, GroupKinds, Top
      <3> QED BY <2>4, <3>2, <3>3 DEF StartClosing, EndsCase, GroupKinds
    <2>5. CASE EndsCase(t)
      <3>1. closing' = "Case"
        BY <2>5 DEF StartClosing, EndsCase
      <3>2. Len(groups) \in 2..Len(groups) /\ groups[Len(groups)].kind = "Case"
        BY <2>5, <1>7 DEF Top, EndsCase
      <3> QED BY <2>2, <3>1, <3>2 DEF GroupKinds
    <2> QED BY <2>3, <2>4, <2>5 DEF StartClosing
  <1>9. ScanTypeOK'
    <2>1. closing' \in GroupKinds \cup {"none", "Angles", "Text", "checked"}
      BY <1>8
    <2> QED BY <1>1, <1>2, <1>3, <1>4, <1>6, <2>1, SeenKeeps DEF ScanTypeOK
  <1>10. Deserved'
    BY <1>1, <1>2, SeenKeeps
  <1> QED BY <1>5, <1>8, <1>9, <1>10 DEF ScanInv

LEMMA CloseTopKeeps ==
    ASSUME ScanInv, CloseTop, Len(groups) > 1, operators' = operators
    PROVE  /\ Stacked(groups', open_by_kind', operators')
           /\ groups' \in Seq(Group) /\ open_by_kind' \in [GroupKinds -> Nat]
           /\ Len(groups') = Len(groups) - 1
           /\ \A i \in 1..Len(groups') : groups'[i].kind = groups[i].kind
  <1>1. Stacked(groups, open_by_kind, operators) /\ operators \in Nat
    BY DEF ScanInv, ScanTypeOK
  <1> DEFINE kind == groups[Len(groups)].kind
  <1>2. /\ groups' = Popped(groups)
        /\ open_by_kind' = [open_by_kind EXCEPT ![kind] = @ - 1]
    BY DEF CloseTop, Popped, Top
  <1>3. /\ Stacked(Popped(groups), [open_by_kind EXCEPT ![kind] = @ - 1],
                  operators)
        /\ Len(Popped(groups)) = Len(groups) - 1
        /\ \A i \in 1..Len(Popped(groups)) :
              Popped(groups)[i].kind = groups[i].kind
    BY <1>1, StackPopped
  <1> HIDE DEF kind
  <1>4. Stacked(groups', open_by_kind', operators')
    BY <1>2, <1>3
  <1> QED BY <1>2, <1>3, <1>4 DEF Stacked

LEMMA CloseOneKeeps ==
    ASSUME ScanInv, CloseOne
    PROVE  ScanInv'
  <1>1. /\ ScanTypeOK /\ Deserved /\ Aimed
        /\ Stacked(groups, open_by_kind, operators)
    BY DEF ScanInv
  <1> DEFINE n == Len(groups)
  <1>2. n \in Nat /\ Top = groups[n]
    BY <1>1, TopKind DEF Top
  <1>3. n > 1
    BY <1>1, <1>2 DEF CloseOne, Aimed
  <1>4. CloseTop /\ operators' = operators
    BY DEF CloseOne
  <1>5. /\ Stacked(groups', open_by_kind', operators')
        /\ groups' \in Seq(Group) /\ open_by_kind' \in [GroupKinds -> Nat]
        /\ Len(groups') = n - 1
        /\ \A i \in 1..Len(groups') : groups'[i].kind = groups[i].kind
    BY <1>3, <1>4, CloseTopKeeps
  <1>6. /\ closing' \in GroupKinds \cup {"none"}
        /\ Aimed'
    <2>1. CASE closing = "Angles"
      <3>1. CASE groups[n - 1].kind = "Angle"
        <4>1. closing' = "Angle"
          BY <2>1, <3>1 DEF CloseOne
        <4>2. n - 1 \in 1..n /\ n - 1 # 1
          BY <1>1, <1>2, <1>3, <3>1 DEF Stacked
        <4>3. n - 1 \in 2..Len(groups') /\ n - 1 \in 1..Len(groups')
          BY <1>2, <1>5, <4>2
        <4>4. groups'[n - 1].kind = "Angle"
          BY <1>5, <3>1, <4>3
        <4> QED BY <4>1, <4>3, <4>4 DEF Aimed, GroupKinds
      <3>2. CASE groups[n - 1].kind # "Angle"
        <4>1. closing' = "none"
          BY <2>1, <3>2 DEF CloseOne
        <4> QED BY <4>1 DEF Aimed, GroupKinds
      <3> QED BY <3>1, <3>2
    <2>2. CASE closing \in GroupKinds \ {"Statement"}
      <3>1. PICK i \in 2..n : groups[i].kind = closing
        BY <1>1, <2>2 DEF Aimed
      <3>2. CASE Top.kind = closing
        <4>1. closing' = "none"
          BY <2>2, <3>2 DEF CloseOne, GroupKinds
        <4> QED BY <4>1 DEF Aimed, GroupKinds
      <3>3. CASE Top.kind # closing
        <4>1. closing' = closing
          BY <2>2, <3>3 DEF CloseOne, GroupKinds
        <4>2. i # n
          BY <1>2, <3>1, <3>3
        <4>3. i \in 2..Len(groups') /\ i \in 1..Len(groups')
          BY <1>2, <1>5, <3>1, <4>2
        <4>4. groups'[i].kind = closing
          BY <1>5, <3>1, <4>3
        <4> QED BY <2>2, <4>1, <4>3, <4>4 DEF Aimed, GroupKinds
      <3> QED BY <3>2, <3>3
    <2> QED BY <2>1, <2>2 DEF CloseOne
  <1>7. Deserved'
    BY <1>1 DEF CloseOne, Deserved
  <1>8. ScanTypeOK'
    BY <1>1, <1>5, <1>6 DEF CloseOne, ScanTypeOK
  <1> QED BY <1>5, <1>6, <1>7, <1>8 DEF ScanInv

LEMMA FinishKeeps ==
    ASSUME ScanInv, Finish
    PROVE  ScanInv'
  <1>1. ScanTypeOK /\ Deserved
    BY DEF ScanInv
  <1>2. CloseTop /\ operators' = operators /\ Len(groups) > 1
    BY DEF Finish
  <1>3. /\ Stacked(groups', open_by_kind', operators')
        /\ groups' \in Seq(Group) /\ open_by_kind' \in [GroupKinds -> Nat]
    BY <1>2, CloseTopKeeps
  <1>4. Aimed' /\ Deserved'
    BY <1>1 DEF Finish, Aimed, Deserved, GroupKinds
  <1>5. ScanTypeOK'
    BY <1>1, <1>3 DEF Finish, ScanTypeOK
  <1> QED BY <1>3, <1>4, <1>5 DEF ScanInv

LEMMA EndStatementKeeps ==
    ASSUME ScanInv, EndStatement
    PROVE  ScanInv'
  <1>1. ScanTypeOK /\ Deserved /\ Stacked(groups, open_by_kind, operators)
    BY DEF ScanInv
  <1>2. closing' \in {"Statement", "Text"}
    BY DEF EndStatement
  <1>3. /\ UNCHANGED <<text, groups, open_by_kind, set_operators,
                     after_operand, operand, previous>>
        /\ UNCHANGED <<counts, result, operators, totals>>
    BY DEF EndStatement
  <1>4. ScanTypeOK'
    BY <1>1, <1>2, <1>3 DEF ScanTypeOK, GroupKinds
  <1>5. Aimed'
    BY <1>2 DEF Aimed, GroupKinds
  <1>6. Deserved' /\ Stacked(groups', open_by_kind', operators')
    BY <1>1, <1>3 DEF Deserved
  <1> QED BY <1>4, <1>5, <1>6 DEF ScanInv

\* What a group that is alone holds is all there is.
LEMMA Alone ==
    ASSUME NEW gs, NEW open, NEW total \in Nat, Stacked(gs, open, total),
           Len(gs) = 1
    PROVE  Chain(gs[1]) \in Nat /\ Chain(gs[1]) <= total
  <1>1. gs[1] \in Group /\ gs[1].longest <= Weight(gs[1])
    BY TopKind
  <1>2. Chain(gs[1]) \in Nat /\ Weight(gs[1]) \in Nat /\ Chain(gs[1]) <= Weight(gs[1])
    BY <1>1, GroupTypes, GroupSteps
  <1>3. PICK w : Sums(gs, w) /\ w[Len(gs)] <= total
    BY DEF Stacked, Weighed
  <1>4. w[1] = w[0] + Weight(gs[1]) /\ w[0] = 0 /\ w[1] <= total
    <2>1. 1 - 1 = 0 /\ 1 \in 1..1
      OBVIOUS
    <2> QED BY <1>3, <2>1 DEF Sums
  <1> QED BY <1>2, <1>4

LEMMA FinishedKeeps ==
    ASSUME ScanInv, Finished
    PROVE  ScanInv'
  <1>1. /\ ScanTypeOK /\ Deserved /\ operators \in Nat /\ set_operators \in Nat
        /\ Stacked(groups, open_by_kind, operators)
    BY DEF ScanInv, ScanTypeOK
  <1> DEFINE chain == Chain(Top)
             found == [set_operators |-> set_operators, infix_chain |-> chain]
             n == Len(counts)
  <1>2. chain \in Nat /\ chain <= operators
    BY <1>1, Alone DEF Finished, Top
  <1>3. counts' = Append(counts, found) /\ totals' = Append(totals, operators)
    BY DEF Finished
  <1> HIDE DEF chain
  <1>4. found \in [set_operators : Nat, infix_chain : Nat]
    BY <1>1, <1>2
  <1>5. /\ counts \in Seq([set_operators : Nat, infix_chain : Nat])
        /\ totals \in Seq(Nat) /\ n \in Nat /\ Len(totals) = n
        /\ DOMAIN counts = 1..n
    BY <1>1, LenProperties DEF ScanTypeOK, Deserved
  <1>6. found.infix_chain = chain
    OBVIOUS
  <1> HIDE DEF found
  <1>7. /\ counts' \in Seq([set_operators : Nat, infix_chain : Nat])
        /\ Len(counts') = n + 1 /\ DOMAIN counts' = 1..(n + 1)
        /\ counts'[n + 1] = found
        /\ \A i \in 1..n : counts'[i] = counts[i]
    BY <1>3, <1>4, <1>5, AppendProperties, LenProperties
  <1>8. /\ totals' \in Seq(Nat) /\ Len(totals') = n + 1
        /\ totals'[n + 1] = operators
        /\ \A i \in 1..n : totals'[i] = totals[i]
    BY <1>1, <1>3, <1>5, AppendProperties
  <1>9. result' = result
    BY DEF Finished
  <1>10. Deserved'
    <2>1. ASSUME NEW i \in 1..(n + 1)
          PROVE  counts'[i].infix_chain <= totals'[i]
      <3>1. CASE i = n + 1
        BY <3>1, <1>2, <1>6, <1>7, <1>8
      <3>2. CASE i \in 1..n
        BY <3>2, <1>1, <1>5, <1>7, <1>8 DEF Deserved
      <3> QED BY <3>1, <3>2, <1>5
    <2>2. ASSUME result.outcome = "infix limit"
          PROVE  /\ result.statement \in DOMAIN counts'
                 /\ counts'[result.statement].infix_chain > MaxInfix
      <3>1. /\ result.statement \in 1..n
            /\ counts[result.statement].infix_chain > MaxInfix
        BY <2>2, <1>1, <1>5 DEF Deserved
      <3> HIDE DEF n
      <3>2. n \in Nat
        BY <1>5
      <3>3. \A i \in 1..n : i \in 1..(n + 1)
        BY <3>2
      <3> QED BY <3>1, <3>3, <1>7, Zenon
    <2> QED BY <2>1, <2>2, <1>7, <1>8, <1>9 DEF Deserved
  <1>11. Stacked(groups', open_by_kind', operators')
    BY FreshStack DEF Finished
  <1>12. closing' \in {"checked", "none"}
    BY DEF Finished
  <1>13. ScanTypeOK'
    <2>1. groups' \in Seq(Group) /\ open_by_kind' \in [GroupKinds -> Nat]
      BY <1>11 DEF Stacked
    <2>2. /\ text' = text /\ set_operators' = 0 /\ operators' = 0
          /\ after_operand' = FALSE /\ operand' = "Unknown"
          /\ previous' = "Other"
      BY DEF Finished
    <2> QED BY <1>1, <1>7, <1>8, <1>9, <1>12, <2>1, <2>2 DEF ScanTypeOK
  <1>14. Aimed'
    BY <1>12 DEF Aimed, GroupKinds
  <1> QED BY <1>10, <1>11, <1>13, <1>14 DEF ScanInv

LEMMA CheckKeeps ==
    ASSUME ScanInv, Check
    PROVE  ScanInv'
  <1>1. /\ ScanTypeOK /\ Deserved /\ Aimed
        /\ Stacked(groups, open_by_kind, operators)
    BY DEF ScanInv
  <1>2. /\ UNCHANGED <<text, groups, open_by_kind, set_operators,
                     after_operand, operand, previous, closing>>
        /\ UNCHANGED <<counts, operators, totals>>
    BY DEF Check
  <1> DEFINE Outcomes == {"none", "not tokenized", "set limit", "infix limit",
                          "parsed", "syntax error", "trailing tokens"}
             Good(r) == /\ r \in [outcome : Outcomes, statement : Nat]
                        /\ r.outcome = "infix limit" =>
                              /\ r.statement \in DOMAIN counts
                              /\ counts[r.statement].infix_chain > MaxInfix
  <1>3. PICK r : r = result' /\ Good(r)
    <2>1. DOMAIN counts \subseteq Nat
      <3>1. counts \in Seq([set_operators : Nat, infix_chain : Nat])
        BY <1>1 DEF ScanTypeOK
      <3> QED BY <3>1, LenProperties
    <2>2. ASSUME NEW i \in DOMAIN counts, OverLimit(counts[i])
          PROVE  Good([outcome |-> IF counts[i].set_operators > MaxSet
                                     THEN "set limit" ELSE "infix limit",
                       statement |-> i])
      BY <2>1, <2>2 DEF OverLimit
    <2>3. ASSUME NEW outcome \in {"parsed", "syntax error", "trailing tokens"}
          PROVE  Good([outcome |-> outcome, statement |-> 0])
      OBVIOUS
    <2> HIDE DEF Good
    <2> QED BY <2>2, <2>3 DEF Check
  <1>4. ScanTypeOK'
    BY <1>1, <1>2, <1>3 DEF ScanTypeOK
  <1>5. Aimed' /\ Stacked(groups', open_by_kind', operators')
    BY <1>1, <1>2 DEF Aimed, Top
  <1>6. Deserved'
    BY <1>1, <1>2, <1>3 DEF Deserved
  <1> QED BY <1>4, <1>5, <1>6 DEF ScanInv

-----------------------------------------------------------------------------
LEMMA NextKeeps ==
    ASSUME ScanInv, [ScanNext]_scanVars
    PROVE  ScanInv'
  <1>1. ASSUME NEW t \in text.tokens, Step(t) PROVE ScanInv'
    <2>1. t \in Tokens
      <3>1. text \in Texts
        BY DEF ScanInv, ScanTypeOK
      <3> QED BY <3>1, ChainScanAssumption
    <2> QED BY <1>1, <2>1, OpenKeeps, SplitKeeps, DistrustKeeps,
               StartClosingKeeps, PassKeeps DEF Step
  <1>2. CASE UNCHANGED scanVars
    <2>1. /\ UNCHANGED <<text, groups, open_by_kind, set_operators,
                       after_operand, operand, previous, closing>>
          /\ UNCHANGED <<counts, result, operators, totals>>
      BY <1>2 DEF scanVars
    <2>2. ScanTypeOK'
      BY <2>1 DEF ScanInv, ScanTypeOK
    <2>3. Deserved'
      BY <2>1, Zenon DEF ScanInv, Deserved
    <2>4. Aimed'
      BY <2>1 DEF ScanInv, Aimed, Top
    <2>5. Stacked(groups', open_by_kind', operators')
      BY <2>1, Zenon DEF ScanInv
    <2> QED BY <2>2, <2>3, <2>4, <2>5 DEF ScanInv
  <1> QED BY <1>1, <1>2, CloseOneKeeps, FinishKeeps, EndStatementKeeps,
             FinishedKeeps, CheckKeeps DEF ScanNext, Rest

\* The invariant, from which the rest follows.
THEOREM Inductive == ScanSpec => []ScanInv
  <1>1. ScanInv /\ [ScanNext]_scanVars => ScanInv'
    BY NextKeeps
  <1> QED BY <1>1, Begins, PTL DEF ScanSpec

THEOREM TypeCorrect == ScanSpec => []ScanTypeOK
  <1>1. ScanInv => ScanTypeOK
    BY DEF ScanInv
  <1> QED BY <1>1, Inductive, PTL

\* Whatever the brackets of a text, the loops that close groups end at a group
\* that is open, and never close that of the statement.
THEOREM LoopsEnd == ScanSpec => []StatementStaysOpen
  <1>1. ScanInv => StatementStaysOpen
    <2> SUFFICES ASSUME ScanInv PROVE StatementStaysOpen
      OBVIOUS
    <2>1. Stacked(groups, open_by_kind, operators) /\ Aimed
      BY DEF ScanInv
    <2>2. Len(groups) \in Nat /\ Len(groups) >= 1
      BY <2>1, TopKind DEF Stacked
    <2>3. /\ groups[1].kind = "Statement"
          /\ \A i \in 2..Len(groups) : groups[i].kind # "Statement"
      <3>1. \A i \in 1..Len(groups) : groups[i].kind = "Statement" <=> i = 1
        BY <2>1 DEF Stacked
      <3> QED BY <2>2, <3>1
    <2> QED BY <2>1, <2>2, <2>3 DEF StatementStaysOpen, Aimed
  <1> QED BY <1>1, Inductive, PTL

\* A statement is refused for its chain only if it has more infix operators
\* than the limit.
THEOREM RefusedForCause == ScanSpec => []LimitIsDeserved
  <1>1. ScanInv => LimitIsDeserved
    <2> SUFFICES ASSUME ScanInv PROVE LimitIsDeserved
      OBVIOUS
    <2>1. ScanTypeOK /\ Deserved
      BY DEF ScanInv
    <2>2. ASSUME result.outcome = "infix limit"
          PROVE  totals[result.statement] > MaxInfix
      <3> DEFINE i == result.statement
      <3>1. i \in DOMAIN counts /\ counts[i].infix_chain > MaxInfix
        BY <2>1, <2>2 DEF Deserved
      <3>2. counts[i].infix_chain <= totals[i]
        BY <2>1, <3>1 DEF Deserved
      <3>3. counts[i].infix_chain \in Nat /\ totals[i] \in Nat
        <4>1. /\ counts \in Seq([set_operators : Nat, infix_chain : Nat])
              /\ totals \in Seq(Nat) /\ Len(counts) = Len(totals)
          BY <2>1 DEF ScanTypeOK, Deserved
        <4>2. i \in 1..Len(counts)
          BY <3>1, <4>1, LenProperties
        <4>3. counts[i] \in [set_operators : Nat, infix_chain : Nat]
          BY <4>1, <4>2, ElementOfSeq
        <4> QED BY <4>1, <4>2, <4>3, ElementOfSeq
      <3> QED BY <3>1, <3>2, <3>3, ChainScanAssumption
    <2> QED BY <2>1, <2>2 DEF LimitIsDeserved, Deserved
  <1> QED BY <1>1, Inductive, PTL

\* Both, as the run of BoundedWork checks them.
THEOREM SoundScan == ScanSpec => []ScanIsSound
  <1>1. StatementStaysOpen /\ LimitIsDeserved => ScanIsSound
    BY DEF ScanIsSound
  <1> QED BY <1>1, LoopsEnd, RefusedForCause, PTL

-----------------------------------------------------------------------------
\* The inductive invariant of the scan beside the tree.  The groups are not
\* the expressions: the scan may hold CASEs open that the parser does not know
\* of, and may have closed one for another.  So each expression is matched
\* with a group of its kind, and what it needs is counted there or above.

Expr == [kind : GroupKinds, part : {"", "start", "when", "then", "else"},
         chain : Nat, inner : Nat, deepest : Nat]

\* p counts, up to each group, operators of the segments that go on: no more
\* than the groups hold, and not fewer further up.
Tally(gs, p) ==
    /\ p \in [0..Len(gs) -> Nat]
    /\ p[0] = 0
    /\ \A i \in 1..Len(gs) : p[i] <= p[i - 1] + gs[i].current
    /\ \A i, j \in 0..Len(gs) : i <= j => p[i] <= p[j]

\* How long the chain would be if the groups from i on closed.
Height(gs, p, i) == p[i - 1] + Chain(gs[i])

\* An angle was counted when it opened.
Carried(e) == IF e.kind = "Angle" THEN 1 ELSE 0

\* The last group above which expression j is counted.
Last(n, gs, at, j) == IF j = Len(n) THEN Len(gs) ELSE at[j + 1] - 1

\* Which groups the expressions of n are counted in, below group q.  The other
\* groups there are CASEs of which the scan does not know where they end.
Matched(n, gs, at, q) ==
    /\ at \in [1..Len(n) -> 1..Len(gs)]
    /\ at[1] = 1
    /\ \A j, k \in 1..Len(n) : j < k => at[j] < at[k]
    /\ \A j \in 1..Len(n) : gs[at[j]].kind = n[j].kind
    /\ q \in 1..(Len(gs) + 1) /\ at[Len(n)] < q
    /\ \A i \in 1..(q - 1) :
          \/ \E j \in 1..Len(n) : at[j] = i
          \/ gs[i].kind = "Case" /\ ~gs[i].splits

\* What must be counted below whatever comes next in expression j.
Owed(n, at, p, j) == n[j].chain + n[j].inner + p[at[j] - 1]

\* It was counted: before the next expression began; for the innermost one
\* below q, or in a group that is about to close.  And every expression beside
\* an earlier one of a list was as deep as some group above is high.
Measured(n, gs, at, p, q, spare) ==
    /\ \A j \in 1..(Len(n) - 1) :
          Owed(n, at, p, j) + Carried(n[j + 1]) <= p[at[j + 1] - 1]
    /\ \/ Owed(n, at, p, Len(n)) + spare <= p[q - 1]
       \/ \E i \in q..Len(gs) :
             Owed(n, at, p, Len(n)) + spare <= Height(gs, p, i)
    /\ \A j \in 1..Len(n) : \E i \in at[j]..Last(n, gs, at, j) :
          n[j].deepest + p[at[j] - 1] <= Height(gs, p, i)

Fits(n, gs, q, spare) ==
    \E at, p : /\ Tally(gs, p) /\ Matched(n, gs, at, q)
               /\ Measured(n, gs, at, p, q, spare)

\* Where the loop that closes groups will stop.
Target(gs, closes, q) ==
    /\ closes = "none" => q = Len(gs) + 1
    /\ closes \in GroupKinds =>
          /\ q \in 2..Len(gs) /\ gs[q].kind = closes
          /\ \A i \in (q + 1)..Len(gs) : gs[i].kind # closes
    /\ closes = "Angles" =>
          /\ q = Len(gs) - 1 /\ q > 1
          /\ gs[q].kind = "Angle" /\ gs[q + 1].kind = "Angle"

\* A group whose segments split has their maximum in what is finished.  Angles
\* hold only angles.  Of CASEs one inside the other, the outer ones are the
\* first whose segments no longer split.
Shaped(gs) ==
    /\ \A i \in 1..Len(gs) :
          IF gs[i].splits THEN gs[i].longest <= gs[i].finished
          ELSE gs[i].kind = "Case" /\ gs[i].longest <= gs[i].current
    /\ \A i \in 1..(Len(gs) - 1) :
          gs[i].kind = "Angle" => gs[i + 1].kind = "Angle"
    /\ \A i, j \in 1..Len(gs) :
          /\ i <= j /\ gs[i].splits
          /\ \A k \in i..j : gs[k].kind = "Case"
          => gs[j].splits

\* Types have no operators and hold only types.
NestOK(n) ==
    /\ n \in Seq(Expr) /\ Len(n) >= 1
    /\ \A j \in 1..Len(n) : n[j].kind = "Angle" =>
          /\ n[j].chain = 0 /\ n[j].inner = 0 /\ n[j].deepest = 0
          /\ j < Len(n) => n[j + 1].kind = "Angle"

\* What the scan remembers of the last tokens, against where the writer is.
Lex ==
    /\ Named => place \in {"member", "type"}
    /\ place = "member" => Named
    /\ previous = "TypeConstructor" => place \in {"array", "angle"}
    /\ place = "angle" => previous = "TypeConstructor" /\ after_operand
    /\ place = "case" <=> previous = "CaseStart"
    /\ place \in {"case", "field"} => operand = "Expected"
    /\ place \in {"operand", "opening"} => operand # "Complete"
    /\ place \in {"after", "typed"} => operand # "Expected"
    /\ Current.kind = "Angle" => place \in {"angle", "field", "type", "typed"}
    /\ place = "field" => Current.kind = "Angle"
    /\ place = "opening" => Current.kind = "Paren"
    /\ place # "nonsense"
    /\ place = "start" => Current.chain = 0 /\ Current.inner = 0

\* After an operand that the scan did not recognise as one, the next operator
\* may be taken for a sign and not be counted: one was counted in advance.
Spare == IF place \in {"after", "typed"} /\ ~after_operand THEN 1 ELSE 0

\* What holds while the tokens of a SQL text come and groups are closed.
Good ==
    /\ NestOK(nest) /\ Lex /\ Shaped(groups)
    /\ \E q : Target(groups, closing, q) /\ Fits(nest, groups, q, Spare)

\* The groups, when closed, give a chain of d operators.
Reached(gs, d) ==
    \E p : Tally(gs, p) /\ \E i \in 1..Len(gs) : d <= Height(gs, p, i)

Ending == closing \in {"Statement", "Text"}

TreeInv ==
    /\ NestOK(nest) /\ depths \in Seq(Nat)
    /\ ~text.sql => nest = Outermost /\ place = "nonsense"
    /\ text.sql /\ ~Ending /\ closing # "checked" => Good
    /\ Ending => /\ nest = Outermost
                 /\ text.sql => place = "start"
                 /\ Len(depths) = Len(counts) + 1
                 /\ Reached(groups, depths[Len(depths)])
    /\ ~Ending => Len(depths) = Len(counts)
    /\ NeverUndercounts

\* s and t, but for the last element.
SameBelow(s, t) == Len(t) = Len(s) /\ \A i \in 1..(Len(s) - 1) : t[i] = s[i]


-----------------------------------------------------------------------------
\* One place in the stack of groups, and in the stack of expressions.

\* One group.
LEMMA GroupNumbers ==
    ASSUME NEW gs \in Seq(Group), NEW p, Tally(gs, p), NEW i \in 1..Len(gs)
    PROVE  /\ gs[i] \in Group
           /\ p[i] \in Nat /\ p[i - 1] \in Nat
           /\ gs[i].current \in Nat /\ gs[i].longest \in Nat
           /\ Chain(gs[i]) \in Nat
           /\ gs[i].current <= Chain(gs[i])
           /\ Height(gs, p, i) = p[i - 1] + Chain(gs[i])
           /\ Height(gs, p, i) \in Nat
           /\ p[i - 1] <= p[i] /\ p[i] <= p[i - 1] + gs[i].current
           /\ p[i] <= Height(gs, p, i)
  <1>1. gs[i] \in Group
    BY ElementOfSeq
  <1>2. Len(gs) \in Nat /\ i \in 0..Len(gs) /\ i - 1 \in 0..Len(gs) /\ i - 1 <= i
    BY LenProperties
  <1>3. p[i] \in Nat /\ p[i - 1] \in Nat
    BY <1>2 DEF Tally
  <1>4. /\ gs[i].current \in Nat /\ gs[i].longest \in Nat
        /\ Chain(gs[i]) \in Nat /\ gs[i].current <= Chain(gs[i])
    BY <1>1 DEF Group, Chain, Larger
  <1>5. p[i - 1] <= p[i] /\ p[i] <= p[i - 1] + gs[i].current
    BY <1>2 DEF Tally
  <1> QED BY <1>1, <1>3, <1>4, <1>5 DEF Height

\* What an expression of the tree holds are numbers, and how deep it is.
LEMMA ExprNumbers ==
    ASSUME NEW n \in Seq(Expr), NEW j \in 1..Len(n)
    PROVE  /\ n[j] \in Expr
           /\ n[j].chain \in Nat /\ n[j].inner \in Nat /\ n[j].deepest \in Nat
           /\ n[j].kind \in GroupKinds
           /\ Depth(n[j]) \in Nat /\ n[j].deepest <= Depth(n[j])
           /\ n[j].chain + n[j].inner <= Depth(n[j])
           /\ Depth(n[j]) \in {n[j].deepest, n[j].chain + n[j].inner}
  <1>1. n[j] \in Expr
    BY ElementOfSeq
  <1>2. /\ n[j].chain \in Nat /\ n[j].inner \in Nat /\ n[j].deepest \in Nat
        /\ n[j].kind \in GroupKinds
    BY <1>1 DEF Expr
  <1> QED BY <1>1, <1>2 DEF Depth, Larger

\* Where expressions are.
LEMMA Spots ==
    ASSUME NEW n \in Seq(Expr), Len(n) >= 1, NEW gs \in Seq(Group),
           NEW at, NEW q, Matched(n, gs, at, q), NEW j \in 1..Len(n)
    PROVE  /\ Len(n) \in Nat /\ Len(n) \in 1..Len(n)
           /\ Len(gs) \in Nat /\ Len(gs) \in 1..Len(gs)
           /\ at[j] \in 1..Len(gs) /\ at[j] - 1 \in 0..Len(gs)
           /\ at[j] <= at[Len(n)]
           /\ q \in Nat /\ q >= 1 /\ q <= Len(gs) + 1 /\ at[j] < q
           /\ j < Len(n) => /\ j + 1 \in 1..Len(n)
                            /\ at[j] < at[j + 1] /\ at[j + 1] <= at[Len(n)]
           /\ Last(n, gs, at, j) \in 1..Len(gs)
           /\ at[j] <= Last(n, gs, at, j)
  <1>1. Len(n) \in Nat /\ Len(n) \in 1..Len(n) /\ Len(gs) \in Nat
    BY LenProperties
  <1>2. \A k \in 1..Len(n) : at[k] \in 1..Len(gs)
    BY DEF Matched
  <1>3. at[Len(n)] \in 1..Len(gs) /\ at[j] \in 1..Len(gs)
    BY <1>1, <1>2
  <1>4. at[j] <= at[Len(n)]
    <2>1. CASE j = Len(n)
      BY <2>1, <1>3
    <2>2. CASE j < Len(n)
      BY <2>2, <1>1, <1>3 DEF Matched
    <2> QED BY <2>1, <2>2, <1>1
  <1>5. q \in Nat /\ q >= 1 /\ q <= Len(gs) + 1 /\ at[Len(n)] < q
    BY <1>1 DEF Matched
  <1>6. ASSUME j < Len(n)
        PROVE  /\ j + 1 \in 1..Len(n) /\ at[j + 1] \in 1..Len(gs)
               /\ at[j] < at[j + 1] /\ at[j + 1] <= at[Len(n)]
    <2>1. j + 1 \in 1..Len(n) /\ j < j + 1
      BY <1>1, <1>6
    <2>2. at[j] < at[j + 1]
      BY <2>1 DEF Matched
    <2>3. at[j + 1] <= at[Len(n)]
      <3>1. CASE j + 1 = Len(n)
        BY <3>1, <1>3
      <3>2. CASE j + 1 < Len(n)
        BY SMTT(30), <3>2, <2>1, <1>1, <1>2, <1>3 DEF Matched
      <3> QED BY <3>1, <3>2, <2>1, <1>1
    <2> QED BY <2>1, <2>2, <2>3, <1>2
  <1>7. Last(n, gs, at, j) \in 1..Len(gs) /\ at[j] <= Last(n, gs, at, j)
    <2>1. CASE j = Len(n)
      BY <2>1, <1>1, <1>3 DEF Last
    <2>2. CASE j # Len(n)
      BY <2>2, <1>1, <1>3, <1>6 DEF Last
    <2> QED BY <2>1, <2>2
  <1> QED BY <1>1, <1>3, <1>4, <1>5, <1>6, <1>7

\* The innermost expression is counted in full.
LEMMA DepthReached ==
    ASSUME NEW n \in Seq(Expr), Len(n) >= 1, NEW gs \in Seq(Group),
           NEW at, NEW p, NEW spare \in Nat, Tally(gs, p),
           Matched(n, gs, at, Len(gs) + 1),
           Measured(n, gs, at, p, Len(gs) + 1, spare)
    PROVE  /\ Owed(n, at, p, Len(n)) + spare <= p[Len(gs)]
           /\ \E i \in at[Len(n)]..Len(gs) :
                 Depth(n[Len(n)]) + p[at[Len(n)] - 1] <= Height(gs, p, i)
  <1> DEFINE m == Len(n)
             L == Len(gs)
             a == at[m]
  <1>1. /\ m \in 1..m /\ L \in Nat /\ L \in 1..L /\ a \in 1..L
        /\ a - 1 \in 0..L
    BY Spots, LenProperties
  <1>2. p[a - 1] \in Nat /\ p[L] \in Nat
    BY <1>1 DEF Tally
  <1>3. /\ n[m].chain \in Nat /\ n[m].inner \in Nat
        /\ Depth(n[m]) \in {n[m].deepest, n[m].chain + n[m].inner}
    BY <1>1, ExprNumbers
  <1>4. Owed(n, at, p, m) + spare <= p[L]
    <2>1. ~\E i \in (L + 1)..L : TRUE
      BY <1>1
    <2>2. L + 1 - 1 = L
      BY <1>1
    <2> QED BY <2>1, <2>2 DEF Measured
  <1>5. p[L] <= Height(gs, p, L)
    BY <1>1, GroupNumbers
  <1>6. Height(gs, p, L) \in Nat
    BY <1>1, GroupNumbers
  <1>7. CASE Depth(n[m]) = n[m].chain + n[m].inner
    <2>1. n[m].chain + n[m].inner + p[a - 1] <= p[L]
      BY SMTT(30), <1>2, <1>3, <1>4 DEF Owed
    <2>2. Depth(n[m]) + p[a - 1] <= Height(gs, p, L)
      <3> DEFINE u == n[m].chain + n[m].inner
                 w == p[a - 1]
                 b == p[L]
                 h == Height(gs, p, L)
      <3>1. u \in Nat /\ w \in Nat /\ b \in Nat /\ h \in Nat
        BY SMTT(30), <1>2, <1>3, <1>6
      <3>2. u + w <= b /\ b <= h
        BY <2>1, <1>5
      <3> HIDE DEF u, w, b, h
      <3>3. u + w <= h
        BY <3>1, <3>2
      <3> QED BY <3>3, <1>7 DEF u, w, h
    <2>3. L \in a..L
      BY <1>1
    <2> QED BY <2>2, <2>3, <1>4
  <1>8. CASE Depth(n[m]) = n[m].deepest
    <2>1. \E i \in a..Last(n, gs, at, m) :
             n[m].deepest + p[a - 1] <= Height(gs, p, i)
      BY <1>1 DEF Measured
    <2> QED BY <2>1, <1>8, <1>4 DEF Last
  <1> QED BY <1>3, <1>7, <1>8

-----------------------------------------------------------------------------
\* The innermost expression and the group on top change, or new ones open.

\* What f owes is gone, or counted in h as far as it is more than e owed.
Paid(e, f, g, h, spare, rest) ==
    \/ f.chain + f.inner + rest = 0
    \/ \E d \in Nat : /\ g.current + d <= h.current
                      /\ f.chain + f.inner + rest
                            <= e.chain + e.inner + spare + d

ExprGoesOn(e, f) == f.kind = e.kind /\ f.deepest <= Depth(e)

GroupGoesOn(g, h) ==
    /\ h.kind = g.kind
    /\ ~g.splits => ~h.splits
    /\ Chain(g) <= Chain(h)

\* The innermost expression and the group on top of it change: either nothing
\* of the chain is left, or what was counted is at least what it grew by.
LEMMA TopChanges ==
    ASSUME NEW n \in Seq(Expr), NEW o \in Seq(Expr), Len(n) >= 1,
           SameBelow(n, o), ExprGoesOn(n[Len(n)], o[Len(n)]),
           NEW gs \in Seq(Group), NEW hs \in Seq(Group),
           SameBelow(gs, hs), GroupGoesOn(gs[Len(gs)], hs[Len(gs)]),
           NEW spare \in Nat, NEW rest \in Nat,
           Paid(n[Len(n)], o[Len(n)], gs[Len(gs)], hs[Len(gs)], spare, rest),
           Fits(n, gs, Len(gs) + 1, spare)
    PROVE  Fits(o, hs, Len(hs) + 1, rest)
  <1> DEFINE m == Len(n)
             L == Len(gs)
             e == n[m]
             f == o[m]
             X == f.chain + f.inner + rest
  <1>0. Len(o) = m /\ Len(hs) = L
    BY DEF SameBelow
  <1>1. PICK at, p : /\ Tally(gs, p) /\ Matched(n, gs, at, L + 1)
                     /\ Measured(n, gs, at, p, L + 1, spare)
    BY DEF Fits
  <1>2. /\ m \in Nat /\ m \in 1..m /\ L \in Nat /\ L \in 1..L
        /\ \A j \in 1..m : /\ at[j] \in 1..L /\ at[j] - 1 \in 0..L
                           /\ at[j] - 1 # L
                           /\ Last(n, gs, at, j) \in 1..L
    <2>1. m \in Nat /\ m \in 1..m
      BY LenProperties
    <2>2. \A j \in 1..m : /\ at[j] \in 1..L /\ at[j] - 1 \in 0..L
                          /\ Last(n, gs, at, j) \in 1..L
      BY <1>1, Spots
    <2>3. L \in Nat /\ L \in 1..L
      BY <1>1, <2>1, Spots
    <2>4. \A j \in 1..m : at[j] - 1 # L
      BY SMTT(30), <2>2, <2>3
    <2> QED BY <2>1, <2>2, <2>3, <2>4
  <1>3. /\ e \in Expr /\ f \in Expr /\ X \in Nat
        /\ f.chain \in Nat /\ f.inner \in Nat /\ f.deepest \in Nat
        /\ e.chain \in Nat /\ e.inner \in Nat /\ Depth(e) \in Nat
    <2>1. /\ e \in Expr /\ e.chain \in Nat /\ e.inner \in Nat
          /\ Depth(e) \in Nat
      BY <1>2, ExprNumbers
    <2>2. m \in 1..Len(o)
      BY <1>0, <1>2
    <2>3. /\ f \in Expr /\ f.chain \in Nat /\ f.inner \in Nat
          /\ f.deepest \in Nat
      BY <2>2, ExprNumbers
    <2>4. X \in Nat
      <3> HIDE DEF f
      <3> QED BY SMTT(30), <2>3
    <2> QED BY <2>1, <2>3, <2>4
  <1>4. /\ p \in [0..L -> Nat] /\ p[0] = 0
        /\ \A i, j \in 0..L : i <= j => p[i] <= p[j]
    BY <1>1 DEF Tally
  <1>5. L - 1 \in 0..L /\ L \in 0..L /\ L - 1 # L
    BY <1>2
  <1>6. p[L - 1] \in Nat /\ p[L] \in Nat /\ p[L - 1] <= p[L]
    <2> HIDE DEF L
    <2>1. L - 1 <= L
      BY <1>2
    <2> QED BY <2>1, <1>4, <1>5
  <1>8. PICK d \in Nat :
           \/ X = 0
           \/ /\ gs[L].current + d <= hs[L].current
              /\ X <= e.chain + e.inner + spare + d
    <2>1. CASE X = 0
      <3>1. 0 \in Nat
        OBVIOUS
      <3> QED BY <2>1, <3>1
    <2>2. CASE X # 0
      BY <2>2 DEF Paid
    <2> QED BY <2>1, <2>2
  <1> DEFINE x == IF X = 0 THEN p[L - 1] ELSE p[L] + d
             r == [i \in 0..L |-> IF i = L THEN x ELSE p[i]]
  <1> HIDE DEF X
  <1>7. x \in Nat /\ p[L - 1] <= x
    <2>1. x \in {p[L - 1], p[L] + d}
      OBVIOUS
    <2> HIDE DEF x
    <2> QED BY SMTT(30), <1>6, <2>1
  <1>9. hs[L] \in Group /\ gs[L] \in Group
    BY <1>0, <1>2, ElementOfSeq
  <1>10. /\ hs[L].current \in Nat /\ gs[L].current \in Nat
         /\ Chain(hs[L]) \in Nat /\ Chain(gs[L]) \in Nat
    BY <1>9, GroupTypes DEF Group
  <1>11. x <= p[L - 1] + hs[L].current
    <2>1. p[L] <= p[L - 1] + gs[L].current
      BY <1>1, <1>2 DEF Tally
    <2> DEFINE u == p[L - 1]
               v == p[L]
               g == gs[L].current
               h == hs[L].current
    <2>4. /\ u \in Nat /\ v \in Nat /\ g \in Nat /\ h \in Nat
          /\ v <= u + g
      BY <2>1, <1>6, <1>10
    <2>2. CASE X = 0
      <3>1. x = u
        BY <2>2
      <3> HIDE DEF x, u, v, g, h
      <3>2. x <= u + h
        BY <3>1, <2>4
      <3> QED BY <3>2 DEF u, h
    <2>3. CASE X # 0
      <3>1. x = v + d /\ g + d <= h
        BY <2>3, <1>8
      <3> HIDE DEF x, u, v, g, h
      <3>2. x <= u + h
        BY <3>1, <2>4
      <3> QED BY <3>2 DEF u, h
    <2> QED BY <2>2, <2>3
  <1> HIDE DEF x
  <1>12. \A i \in 0..L : i # L => r[i] = p[i]
    OBVIOUS
  <1>13. r[L] = x /\ r \in [0..L -> Nat] /\ r[0] = 0
    BY <1>2, <1>4, <1>7
  <1> HIDE DEF r
  <1>14. Tally(hs, r)
    <2>1. \A i \in 1..L : r[i] <= r[i - 1] + hs[i].current
      <3> SUFFICES ASSUME NEW i \in 1..L
                   PROVE  r[i] <= r[i - 1] + hs[i].current
        OBVIOUS
      <3>1. CASE i = L
        <4>1. r[i - 1] = p[L - 1]
          BY <3>1, <1>5, <1>12
        <4> QED BY <4>1, <3>1, <1>11, <1>13
      <3>2. CASE i # L
        <4>1. i \in 0..L /\ i - 1 \in 0..L /\ i - 1 # L /\ i \in 1..(L - 1)
          BY <3>2, <1>2
        <4>2. r[i] = p[i] /\ r[i - 1] = p[i - 1] /\ hs[i] = gs[i]
          BY <4>1, <3>2, <1>12 DEF SameBelow
        <4> QED BY <4>2, <1>1 DEF Tally
      <3> QED BY <3>1, <3>2
    <2>2. ASSUME NEW i \in 0..L, NEW j \in 0..L, i <= j PROVE r[i] <= r[j]
      <3>1. CASE j # L
        <4>1. i # L
          BY <2>2, <3>1, <1>2
        <4> QED BY <2>2, <3>1, <4>1, <1>4, <1>12
      <3>2. CASE j = L /\ i = L
        BY <3>2, <1>13, <1>7
      <3>3. CASE j = L /\ i # L
        <4>1. i <= L - 1
          BY <3>3, <1>2
        <4>2. p[i] <= p[L - 1] /\ p[i] \in Nat
          BY <4>1, <1>4, <1>5
        <4> QED BY SMTT(30), <3>3, <4>2, <1>6, <1>7, <1>12, <1>13
      <3> QED BY <3>1, <3>2, <3>3
    <2> QED BY <1>0, <1>13, <2>1, <2>2 DEF Tally
  <1>15. \A i \in 1..L : hs[i].kind = gs[i].kind /\ (~gs[i].splits => ~hs[i].splits)
    <2> SUFFICES ASSUME NEW i \in 1..L
                 PROVE  hs[i].kind = gs[i].kind /\ (~gs[i].splits => ~hs[i].splits)
      OBVIOUS
    <2>1. CASE i = L
      BY <2>1 DEF GroupGoesOn
    <2>2. CASE i # L
      <3>1. i \in 1..(L - 1)
        BY <2>2, <1>2
      <3> QED BY <3>1 DEF SameBelow
    <2> QED BY <2>1, <2>2
  <1>16. \A j \in 1..m : o[j].kind = n[j].kind
    <2> SUFFICES ASSUME NEW j \in 1..m PROVE o[j].kind = n[j].kind
      OBVIOUS
    <2>1. CASE j = m
      BY <2>1 DEF ExprGoesOn
    <2>2. CASE j # m
      <3>1. j \in 1..(m - 1)
        BY <2>2, <1>2
      <3> QED BY <3>1 DEF SameBelow
    <2> QED BY <2>1, <2>2
  <1>17. Matched(o, hs, at, L + 1)
    <2>1. \A i \in 1..(L + 1 - 1) :
             (\E j \in 1..m : at[j] = i) \/ (hs[i].kind = "Case" /\ ~hs[i].splits)
      <3>1. \A i \in 1..(L + 1 - 1) :
               (\E j \in 1..m : at[j] = i) \/ (gs[i].kind = "Case" /\ ~gs[i].splits)
        BY <1>1 DEF Matched
      <3>2. \A i \in 1..(L + 1 - 1) : i \in 1..L
        BY <1>2
      <3> QED BY <3>1, <3>2, <1>15
    <2>2. \A j \in 1..m : hs[at[j]].kind = o[j].kind
      BY <1>1, <1>2, <1>15, <1>16 DEF Matched
    <2> QED BY <1>0, <1>1, <2>1, <2>2 DEF Matched
  <1>18. \A i \in 1..L : Height(gs, p, i) <= Height(hs, r, i)
    <2> SUFFICES ASSUME NEW i \in 1..L
                 PROVE  Height(gs, p, i) <= Height(hs, r, i)
      OBVIOUS
    <2>1. r[i - 1] = p[i - 1] /\ p[i - 1] \in Nat
      <3>1. i - 1 \in 0..L /\ i - 1 # L
        BY <1>2
      <3> QED BY <3>1, <1>4, <1>12
    <2>2. Chain(gs[i]) <= Chain(hs[i])
      <3>1. CASE i = L
        BY <3>1 DEF GroupGoesOn
      <3>2. CASE i # L
        <4>1. i \in 1..(L - 1)
          BY <3>2, <1>2
        <4>2. hs[i] = gs[i] /\ Chain(gs[i]) \in Nat
          BY <4>1, <1>1, GroupNumbers DEF SameBelow
        <4> QED BY <4>2
      <3> QED BY <3>1, <3>2
    <2>3. Chain(gs[i]) \in Nat /\ Chain(hs[i]) \in Nat
      BY <1>0, <1>1, <1>14, GroupNumbers
    <2> QED BY <2>1, <2>2, <2>3 DEF Height
  <1>19. \A j \in 1..m : r[at[j] - 1] = p[at[j] - 1] /\ p[at[j] - 1] \in Nat
    BY <1>2, <1>4, <1>12
  <1>20. Measured(o, hs, at, r, L + 1, rest)
    <2>1. ASSUME NEW j \in 1..(m - 1)
          PROVE  Owed(o, at, r, j) + Carried(o[j + 1]) <= r[at[j + 1] - 1]
      <3>1. j \in 1..m /\ j + 1 \in 1..m
        BY <1>2
      <3>2. o[j] = n[j] /\ o[j + 1].kind = n[j + 1].kind
        BY <3>1, <1>16 DEF SameBelow
      <3>3. Owed(n, at, p, j) + Carried(n[j + 1]) <= p[at[j + 1] - 1]
        BY <1>1 DEF Measured
      <3> QED BY <3>1, <3>2, <3>3, <1>19 DEF Owed, Carried
    <2>2. Owed(o, at, r, m) + rest <= r[L + 1 - 1]
      <3> DEFINE b == p[at[m] - 1]
      <3>1. b \in Nat /\ Owed(o, at, r, m) + rest = X + b
        <4>1. r[at[m] - 1] = p[at[m] - 1] /\ p[at[m] - 1] \in Nat
          BY <1>2, <1>19
        <4>2. Owed(o, at, r, m) = f.chain + f.inner + b
          BY <4>1 DEF Owed
        <4> HIDE DEF b, f
        <4>3. f.chain + f.inner + b + rest = f.chain + f.inner + rest + b
          BY SMTT(30), <1>3, <4>1 DEF b
        <4> QED BY <4>1, <4>2, <4>3 DEF b, X
      <3>2. L + 1 - 1 = L
        BY <1>2
      <3>3. CASE X = 0
        <4>1. at[m] - 1 <= L - 1 /\ at[m] - 1 \in 0..L
          BY <1>2
        <4>2. b <= p[L - 1]
          BY <4>1, <1>4, <1>5
        <4> QED BY <3>1, <3>2, <3>3, <4>2, <1>6, <1>7, <1>13
      <3>4. CASE X # 0
        <4>1. Owed(n, at, p, m) + spare <= p[L]
          BY <1>1, DepthReached
        <4>2. e.chain + e.inner + b + spare <= p[L]
          BY <4>1 DEF Owed
        <4>3. X <= e.chain + e.inner + spare + d
          BY <3>4, <1>8
        <4>4. x = p[L] + d
          BY <3>4 DEF x
        <4>5. b \in Nat /\ x \in Nat
          BY <3>1, <1>7
        <4> HIDE DEF X, b, e
        <4>6. X + b <= p[L] + d
          <5> DEFINE v == p[L]
                     c == e.chain
                     k == e.inner
          <5>1. /\ c \in Nat /\ k \in Nat /\ v \in Nat
                /\ c + k + b + spare <= v /\ X <= c + k + spare + d
            BY <4>2, <4>3, <1>3, <1>6 DEF e
          <5> HIDE DEF v, c, k
          <5>2. X + b <= v + d
            BY <5>1, <4>5, <1>3
          <5> QED BY <5>2 DEF v
        <4> QED BY <4>4, <4>6, <3>1, <3>2, <4>2, <4>3, <4>4, <1>3, <1>6, <1>13
      <3> QED BY <3>3, <3>4
    <2>3. ASSUME NEW j \in 1..m
          PROVE  \E i \in at[j]..Last(o, hs, at, j) :
                    o[j].deepest + r[at[j] - 1] <= Height(hs, r, i)
      <3>1. \E i \in at[j]..Last(n, gs, at, j) :
               o[j].deepest + p[at[j] - 1] <= Height(gs, p, i)
        <4>1. CASE j = m
          <5>1. PICK i \in at[m]..L :
                   Depth(e) + p[at[m] - 1] <= Height(gs, p, i)
            BY <1>1, DepthReached
          <5>2. i \in 1..L
            BY SMTT(30), <1>2
          <5>3. Height(gs, p, i) \in Nat
            BY <1>1, <5>2, GroupNumbers
          <5>4. f.deepest + p[at[m] - 1] <= Height(gs, p, i)
            <6>1. p[at[m] - 1] \in Nat
              BY <1>2, <1>19
            <6> HIDE DEF f, e
            <6>2. f.deepest <= Depth(e)
              BY DEF f, e, ExprGoesOn
            <6> DEFINE hgt == Height(gs, p, i)
                       b == p[at[m] - 1]
            <6>3. Depth(e) + b <= hgt /\ hgt \in Nat /\ b \in Nat
              BY <5>1, <5>3, <6>1 DEF e
            <6> HIDE DEF hgt, b
            <6>4. f.deepest + b <= hgt
              BY SMTT(30), <6>2, <6>3, <1>3
            <6> QED BY <6>4 DEF hgt, b
          <5> QED BY <4>1, <5>4 DEF Last
        <4>2. CASE j # m
          <5>1. j \in 1..(m - 1)
            BY <4>2, <1>2
          <5>2. o[j] = n[j]
            BY <5>1 DEF SameBelow
          <5> QED BY <5>2, <1>1 DEF Measured
        <4> QED BY <4>1, <4>2
      <3>2. PICK i \in at[j]..Last(n, gs, at, j) :
               o[j].deepest + p[at[j] - 1] <= Height(gs, p, i)
        BY <3>1
      <3>3. Last(o, hs, at, j) = Last(n, gs, at, j)
        BY <1>0 DEF Last
      <3>4. i \in 1..L
        <4>1. at[j] \in 1..L /\ Last(n, gs, at, j) \in 1..L
          BY <1>2
        <4> QED BY <4>1
      <3>5. /\ Height(gs, p, i) \in Nat /\ Height(hs, r, i) \in Nat
            /\ Height(gs, p, i) <= Height(hs, r, i)
        BY <3>4, <1>0, <1>1, <1>14, <1>18, GroupNumbers
      <3>6. o[j].deepest \in Nat /\ p[at[j] - 1] \in Nat
        BY <1>0, <1>19, ExprNumbers
      <3>7. o[j].deepest + r[at[j] - 1] <= Height(hs, r, i)
        <4> DEFINE g == Height(gs, p, i)
                   h == Height(hs, r, i)
                   b == p[at[j] - 1]
        <4>1. /\ g \in Nat /\ h \in Nat /\ g <= h /\ b \in Nat
              /\ o[j].deepest + b <= g
          BY <3>2, <3>5, <3>6
        <4> HIDE DEF g, h, b
        <4>2. o[j].deepest + b <= h
          BY SMTT(30), <4>1, <3>6
        <4> QED BY <4>2, <1>19 DEF h, b
      <3> QED BY <3>3, <3>7
    <2> QED BY <2>1, <2>2, <2>3, <1>0 DEF Measured
  <1> QED BY <1>0, <1>14, <1>17, <1>20 DEF Fits

\* An expression and a group open.
LEMMA Pushes ==
    ASSUME NEW n \in Seq(Expr), Len(n) >= 1, NEW x \in Expr,
           x.chain = 0, x.inner = 0, x.deepest = 0,
           NEW gs \in Seq(Group), NEW spare \in Nat, Carried(x) <= spare,
           Fits(n, gs, Len(gs) + 1, spare)
    PROVE  Fits(Append(n, x), Append(gs, NewGroup(x.kind)), Len(gs) + 2, 0)
  <1> DEFINE m == Len(n)
             L == Len(gs)
             g == NewGroup(x.kind)
             o == Append(n, x)
             hs == Append(gs, g)
  <1>1. PICK at, p : /\ Tally(gs, p) /\ Matched(n, gs, at, L + 1)
                     /\ Measured(n, gs, at, p, L + 1, spare)
    BY DEF Fits
  <1>2. /\ m \in Nat /\ m \in 1..m /\ L \in Nat /\ L \in 1..L /\ L >= 1
        /\ \A j \in 1..m : /\ at[j] \in 1..L /\ at[j] - 1 \in 0..L
                           /\ Last(n, gs, at, j) \in 1..L
    <2>1. m \in Nat /\ m \in 1..m
      BY LenProperties
    <2> QED BY <1>1, <2>1, Spots
  <1>3. /\ g \in Group /\ g.kind = x.kind /\ g.current = 0 /\ Chain(g) = 0
    BY GroupTypes DEF NewGroup, Expr, Chain, Larger
  <1> HIDE DEF g
  <1>4. /\ o \in Seq(Expr) /\ Len(o) = m + 1 /\ o[m + 1] = x
        /\ \A j \in 1..m : o[j] = n[j]
    BY AppendProperties
  <1>5. /\ hs \in Seq(Group) /\ Len(hs) = L + 1 /\ hs[L + 1] = g
        /\ \A i \in 1..L : hs[i] = gs[i]
    BY <1>3, AppendProperties
  <1> HIDE DEF o, hs, m, L
  <1> DEFINE r == [i \in 0..(L + 1) |-> IF i = L + 1 THEN p[L] ELSE p[i]]
             to == [j \in 1..(m + 1) |-> IF j = m + 1 THEN L + 1 ELSE at[j]]
  <1>6. /\ p \in [0..L -> Nat] /\ p[0] = 0
        /\ \A i \in 1..L : p[i] <= p[i - 1] + gs[i].current
        /\ \A i, j \in 0..L : i <= j => p[i] <= p[j]
    BY <1>1 DEF Tally, L
  <1>7. /\ r \in [0..(L + 1) -> Nat] /\ r[L + 1] = p[L]
        /\ \A i \in 0..L : r[i] = p[i]
    BY SMTT(30), <1>2, <1>6
  <1>8. /\ to \in [1..(m + 1) -> 1..(L + 1)] /\ to[m + 1] = L + 1
        /\ \A j \in 1..m : to[j] = at[j]
    BY <1>2
  <1> HIDE DEF r, to
  <1>9. Tally(hs, r)
    <2>1. \A i \in 1..(L + 1) : r[i] <= r[i - 1] + hs[i].current
      <3> SUFFICES ASSUME NEW i \in 1..(L + 1)
                   PROVE  r[i] <= r[i - 1] + hs[i].current
        OBVIOUS
      <3>1. CASE i = L + 1
        <4>1. i - 1 = L /\ L \in 0..L
          BY <3>1, <1>2
        <4>2. r[i - 1] = p[L] /\ p[L] \in Nat
          BY <4>1, <1>6, <1>7
        <4> QED BY <3>1, <4>2, <1>3, <1>5, <1>7
      <3>2. CASE i # L + 1
        <4>1. i \in 1..L /\ i \in 0..L /\ i - 1 \in 0..L
          BY <3>2, <1>2
        <4> QED BY <4>1, <1>5, <1>6, <1>7
      <3> QED BY <3>1, <3>2
    <2>2. ASSUME NEW i \in 0..(L + 1), NEW j \in 0..(L + 1), i <= j
          PROVE  r[i] <= r[j]
      <3>1. L \in 0..L
        BY <1>2
      <3>2. CASE j # L + 1
        <4>1. i \in 0..L /\ j \in 0..L
          BY <2>2, <3>2, <1>2
        <4> QED BY <4>1, <2>2, <1>6, <1>7
      <3>3. CASE j = L + 1 /\ i # L + 1
        <4>1. i \in 0..L /\ i <= L
          BY <3>3, <1>2
        <4> QED BY <4>1, <3>1, <3>3, <1>6, <1>7
      <3>4. CASE j = L + 1 /\ i = L + 1
        <4>1. p[L] \in Nat
          BY <3>1, <1>6
        <4> QED BY <3>4, <4>1, <1>7
      <3> QED BY <3>2, <3>3, <3>4
    <2>3. r[0] = 0
      <3>1. 0 \in 0..L
        BY <1>2
      <3> QED BY <3>1, <1>6, <1>7
    <2> QED BY <1>5, <1>7, <2>1, <2>2, <2>3 DEF Tally
  <1>10. Matched(o, hs, to, L + 2)
    <2>1. \A j, k \in 1..m : j < k => at[j] < at[k]
      BY <1>1 DEF Matched, m
    <2>2. \A j, k \in 1..(m + 1) : j < k => to[j] < to[k]
      <3> SUFFICES ASSUME NEW j \in 1..(m + 1), NEW k \in 1..(m + 1), j < k
                   PROVE  to[j] < to[k]
        OBVIOUS
      <3>1. j \in 1..m
        BY <1>2
      <3>2. CASE k = m + 1
        <4>1. at[j] \in 1..L
          BY <3>1, <1>2
        <4> QED BY <3>1, <3>2, <4>1, <1>2, <1>8
      <3>3. CASE k # m + 1
        <4>1. k \in 1..m
          BY <3>3, <1>2
        <4> QED BY <3>1, <4>1, <2>1, <1>8
      <3> QED BY <3>2, <3>3
    <2>3. \A j \in 1..(m + 1) : hs[to[j]].kind = o[j].kind
      <3> SUFFICES ASSUME NEW j \in 1..(m + 1) PROVE hs[to[j]].kind = o[j].kind
        OBVIOUS
      <3>1. CASE j = m + 1
        BY <3>1, <1>3, <1>4, <1>5, <1>8
      <3>2. CASE j # m + 1
        <4>1. j \in 1..m
          BY <3>2, <1>2
        <4>2. gs[at[j]].kind = n[j].kind /\ at[j] \in 1..L
          BY <4>1, <1>1, <1>2 DEF Matched, m
        <4> QED BY <4>1, <4>2, <1>4, <1>5, <1>8
      <3> QED BY <3>1, <3>2
    <2>4. ASSUME NEW i \in 1..(L + 2 - 1)
          PROVE  \/ \E j \in 1..(m + 1) : to[j] = i
                 \/ hs[i].kind = "Case" /\ ~hs[i].splits
      <3>1. CASE i = L + 1
        <4>1. m + 1 \in 1..(m + 1)
          BY <1>2
        <4> QED BY <3>1, <4>1, <1>8
      <3>2. CASE i # L + 1
        <4>1. i \in 1..L /\ i \in 1..(L + 1 - 1)
          BY <3>2, <1>2
        <4>2. (\E j \in 1..m : at[j] = i) \/ (gs[i].kind = "Case" /\ ~gs[i].splits)
          BY <4>1, <1>1 DEF Matched, m, L
        <4>3. \A j \in 1..m : j \in 1..(m + 1)
          BY <1>2
        <4> QED BY <4>1, <4>2, <4>3, <1>5, <1>8
      <3> QED BY <3>1, <3>2
    <2>5. to[1] = 1
      <3>1. 1 \in 1..m
        BY <1>2
      <3> QED BY <3>1, <1>1, <1>8 DEF Matched
    <2>6. L + 2 \in 1..(L + 1 + 1) /\ to[m + 1] < L + 2
      BY <1>2, <1>8
    <2> QED BY <1>4, <1>5, <1>8, <2>2, <2>3, <2>4, <2>5, <2>6 DEF Matched
  <1>11. \A i \in 1..L : Height(hs, r, i) = Height(gs, p, i)
    <2> SUFFICES ASSUME NEW i \in 1..L
                 PROVE  Height(hs, r, i) = Height(gs, p, i)
      OBVIOUS
    <2>1. i - 1 \in 0..L
      BY <1>2
    <2> QED BY <2>1, <1>5, <1>7 DEF Height
  <1>12. Measured(o, hs, to, r, L + 2, 0)
    <2>1. ASSUME NEW j \in 1..(m + 1 - 1)
          PROVE  Owed(o, to, r, j) + Carried(o[j + 1]) <= r[to[j + 1] - 1]
      <3>1. j \in 1..m /\ at[j] - 1 \in 0..L /\ L \in 0..L
        BY <1>2
      <3>2. Owed(o, to, r, j) = Owed(n, at, p, j)
        BY <3>1, <1>4, <1>7, <1>8 DEF Owed
      <3>3. CASE j = m
        <4>1. Owed(n, at, p, m) + spare <= p[L]
          BY <1>1, DepthReached DEF m, L
        <4>2. Owed(n, at, p, m) \in Nat /\ p[L] \in Nat
          <5>1. /\ n[j].chain \in Nat /\ n[j].inner \in Nat
            BY <3>1, ExprNumbers DEF m
          <5>2. p[at[j] - 1] \in Nat /\ p[L] \in Nat
            BY <3>1, <1>6
          <5>3. Owed(n, at, p, j) = n[j].chain + n[j].inner + p[at[j] - 1]
            BY DEF Owed
          <5> DEFINE u == n[j].chain
                     v == n[j].inner
                     w == p[at[j] - 1]
          <5>4. u \in Nat /\ v \in Nat /\ w \in Nat
            BY <5>1, <5>2
          <5> HIDE DEF u, v, w
          <5>5. u + v + w \in Nat
            BY <5>4
          <5>6. Owed(n, at, p, j) \in Nat
            BY <5>3, <5>5 DEF u, v, w
          <5> QED BY <5>6, <5>2, <3>3
        <4>3. Carried(x) \in Nat
          BY DEF Carried
        <4>4. o[j + 1] = x /\ r[to[j + 1] - 1] = p[L]
          <5>1. o[j + 1] = x
            BY <3>3, <1>4
          <5>2. to[j + 1] = L + 1
            BY <3>3, <1>8
          <5>3. to[j + 1] - 1 = L
            BY <5>2, <1>2
          <5>4. r[L] = p[L]
            BY <3>1, <1>7
          <5>5. r[to[j + 1] - 1] = r[L]
            BY <5>3
          <5> QED BY <5>1, <5>4, <5>5
        <4> DEFINE w == Owed(n, at, p, m)
                   c == Carried(x)
                   v == p[L]
        <4>5. w \in Nat /\ v \in Nat /\ c \in Nat /\ w + spare <= v /\ c <= spare
          BY <4>1, <4>2, <4>3
        <4> HIDE DEF w, c, v
        <4>6. w + c <= v
          BY <4>5
        <4> QED BY <4>4, <4>6, <3>2, <3>3 DEF w, c, v
      <3>4. CASE j # m
        <4>1. j \in 1..(m - 1) /\ j + 1 \in 1..m
          BY <3>4, <1>2
        <4>2. Owed(n, at, p, j) + Carried(n[j + 1]) <= p[at[j + 1] - 1]
          BY <4>1, <1>1 DEF Measured, m
        <4>3. at[j + 1] - 1 \in 0..L
          BY <4>1, <1>2
        <4> QED BY <4>1, <4>2, <4>3, <3>2, <1>4, <1>7, <1>8
      <3> QED BY <3>3, <3>4
    <2>2. Owed(o, to, r, m + 1) + 0 <= r[L + 2 - 1]
      <3>1. L + 2 - 1 = L + 1 /\ L + 1 - 1 = L /\ L \in 0..L
        BY <1>2
      <3>2. Owed(o, to, r, m + 1) = 0 + 0 + p[L] /\ p[L] \in Nat
        <4>1. r[L] = p[L] /\ p[L] \in Nat
          BY <3>1, <1>6, <1>7
        <4>2. to[m + 1] - 1 = L
          BY <3>1, <1>8
        <4>3. x.chain = 0 /\ x.inner = 0
          OBVIOUS
        <4> QED BY <4>1, <4>2, <4>3, <1>4 DEF Owed
      <3> QED BY <3>1, <3>2, <1>7
    <2>3. ASSUME NEW j \in 1..(m + 1)
          PROVE  \E i \in to[j]..Last(o, hs, to, j) :
                    o[j].deepest + r[to[j] - 1] <= Height(hs, r, i)
      <3>1. CASE j = m + 1
        <4>1. L + 1 - 1 = L /\ L \in 0..L /\ L + 1 \in (L + 1)..(L + 1)
          BY <1>2
        <4>2. Last(o, hs, to, j) = L + 1 /\ to[j] = L + 1
          BY <3>1, <1>4, <1>5, <1>8 DEF Last
        <4>3. p[L] \in Nat /\ r[L] = p[L]
          BY <4>1, <1>6, <1>7
        <4>4. Height(hs, r, L + 1) = p[L] + 0
          BY <4>1, <4>3, <1>3, <1>5 DEF Height
        <4>5. o[j].deepest + r[to[j] - 1] = 0 + p[L]
          BY <4>1, <4>2, <4>3, <3>1, <1>4
        <4> QED BY <4>1, <4>2, <4>3, <4>4, <4>5
      <3>2. CASE j # m + 1
        <4>1. j \in 1..m /\ at[j] - 1 \in 0..L /\ at[j] \in 1..L
              /\ Last(n, gs, at, j) \in 1..L
          BY <3>2, <1>2
        <4>2. PICK i \in at[j]..Last(n, gs, at, j) :
                 n[j].deepest + p[at[j] - 1] <= Height(gs, p, i)
          BY <4>1, <1>1 DEF Measured, m
        <4>3. i \in 1..L
          BY <4>1, <1>2
        <4>4. Last(o, hs, to, j) = Last(n, gs, at, j)
          <5>1. CASE j = m
            <6>1. to[j + 1] - 1 = L /\ j # m + 1
              BY <5>1, <1>2, <1>8
            <6> QED BY <6>1, <5>1, <1>4 DEF Last, m, L
          <5>2. CASE j # m
            <6>1. j + 1 \in 1..m
              BY <5>2, <4>1, <1>2
            <6> QED BY <6>1, <5>2, <3>2, <1>4, <1>8 DEF Last, m
          <5> QED BY <5>1, <5>2
        <4>5. o[j] = n[j] /\ to[j] = at[j] /\ r[at[j] - 1] = p[at[j] - 1]
          BY <4>1, <1>4, <1>7, <1>8
        <4> QED BY <4>2, <4>3, <4>4, <4>5, <1>11
      <3> QED BY <3>1, <3>2
    <2>4. \A j \in 1..(Len(o) - 1) :
             Owed(o, to, r, j) + Carried(o[j + 1]) <= r[to[j + 1] - 1]
      BY <2>1, <1>4, <1>2
    <2>5. Owed(o, to, r, Len(o)) + 0 <= r[L + 2 - 1]
      BY <2>2, <1>4
    <2>6. \A j \in 1..Len(o) : \E i \in to[j]..Last(o, hs, to, j) :
             o[j].deepest + r[to[j] - 1] <= Height(hs, r, i)
      BY <2>3, <1>4
    <2>7. \/ Owed(o, to, r, Len(o)) + 0 <= r[L + 2 - 1]
          \/ \E i \in (L + 2)..Len(hs) :
                Owed(o, to, r, Len(o)) + 0 <= Height(hs, r, i)
      BY <2>5
    <2> QED BY <2>4, <2>6, <2>7, <1>2, <1>4, <1>5 DEF Measured
  <1> QED BY <1>9, <1>10, <1>12 DEF Fits, L, o, hs, g

-----------------------------------------------------------------------------
\* An expression is left, and the groups that it was counted in.

\* The innermost expression becomes an operand of the one around it.
LEMMA OneOut ==
    ASSUME NEW n \in Seq(Expr), Len(n) >= 2
    PROVE  LET m == Len(n)
               o == Without(n, 1)
           IN  /\ o \in Seq(Expr) /\ Len(o) = m - 1
               /\ \A j \in 1..(m - 2) : o[j] = n[j]
               /\ \A j \in 1..(m - 1) :
                     /\ o[j].kind = n[j].kind /\ o[j].deepest = n[j].deepest
                     /\ o[j].chain = n[j].chain
               /\ o[m - 1].inner \in {n[m - 1].inner, Depth(n[m])}
  <1> DEFINE m == Len(n)
             o == Without(n, 1)
             e == n[m - 1]
             d == Depth(n[m])
             f == [e EXCEPT !.inner = Larger(@, d)]
  <1>1. m \in Nat /\ m \in 1..m /\ m - 1 \in 1..m /\ m - 1 \in Nat
    BY LenProperties
  <1>2. e \in Expr /\ e.inner \in Nat /\ d \in Nat
    BY <1>1, ExprNumbers
  <1>3. Larger(e.inner, d) \in Nat /\ Larger(e.inner, d) \in {e.inner, d}
    BY <1>2 DEF Larger
  <1>4. f \in Expr /\ f.kind = e.kind /\ f.deepest = e.deepest
        /\ f.chain = e.chain /\ f.inner \in {e.inner, d}
    <2> HIDE DEF e, d
    <2> QED BY <1>2, <1>3 DEF Expr
  <1> HIDE DEF f
  <1>5. o = [i \in 1..(m - 1) |-> IF i = m - 1 THEN f ELSE n[i]]
    BY DEF Without, f
  <1> HIDE DEF o
  <1>6. \A i \in 1..(m - 1) : n[i] \in Expr
    BY <1>1, ElementOfSeq
  <1>7. o \in [1..(m - 1) -> Expr]
    BY <1>4, <1>5, <1>6
  <1>8. o \in Seq(Expr) /\ Len(o) = m - 1
    BY <1>1, <1>7, SequenceOf
  <1>9. \A j \in 1..(m - 2) : o[j] = n[j]
    BY <1>1, <1>5
  <1>10. o[m - 1] = f /\ m - 1 \in 1..(m - 1)
    BY <1>1, <1>5
  <1>11. \A j \in 1..(m - 1) : j = m - 1 \/ j \in 1..(m - 2)
    BY <1>1
  <1> QED BY <1>4, <1>8, <1>9, <1>10, <1>11 DEF o

\* Groups from that of the innermost expression on can be left behind.
LeftBehind(n, gs, at, p, r) ==
    /\ \A i \in at[Len(n)]..(r - 1) : gs[i].kind = "Case" /\ ~gs[i].splits
    /\ \/ Depth(n[Len(n)]) + p[at[Len(n)] - 1] <= p[r - 1]
       \/ \E i \in r..Len(gs) :
             Depth(n[Len(n)]) + p[at[Len(n)] - 1] <= Height(gs, p, i)

\* The innermost expression is left, for the one around it, when the scan
\* leaves its group behind.
LEMMA Pops ==
    ASSUME NEW n \in Seq(Expr), Len(n) >= 2, NEW gs \in Seq(Group),
           NEW at, NEW p, NEW q, NEW spare \in Nat, NEW rest \in Nat,
           rest <= Carried(n[Len(n)]), Tally(gs, p), Matched(n, gs, at, q),
           Measured(n, gs, at, p, q, spare),
           NEW r \in at[Len(n)]..q, LeftBehind(n, gs, at, p, r)
    PROVE  Fits(Without(n, 1), gs, r, rest)
  <1> DEFINE m == Len(n)
             L == Len(gs)
             o == Without(n, 1)
             to == [j \in 1..(m - 1) |-> at[j]]
  <1>1. /\ m \in Nat /\ m \in 1..m /\ m - 1 \in 1..m /\ m - 1 \in Nat
        /\ m - 1 >= 1 /\ m - 1 + 1 = m
    BY LenProperties
  <1>2. /\ L \in Nat /\ q \in Nat /\ q <= L + 1
        /\ \A j \in 1..m : /\ at[j] \in 1..L /\ at[j] - 1 \in 0..L
                           /\ Last(n, gs, at, j) \in 1..L
        /\ at[m - 1] < at[m]
    BY SMTT(30), <1>1, Spots
  <1>3. r \in Nat /\ at[m] <= r /\ r <= L + 1 /\ r >= 1 /\ r <= q
    <2>1. at[m] \in Nat /\ at[m] >= 1
      BY SMTT(30), <1>1, <1>2
    <2>2. r \in at[m]..q
      OBVIOUS
    <2> HIDE DEF m, L
    <2> QED BY <2>1, <2>2, <1>2
  <1>4. /\ o \in Seq(Expr) /\ Len(o) = m - 1
        /\ \A j \in 1..(m - 2) : o[j] = n[j]
        /\ \A j \in 1..(m - 1) :
              /\ o[j].kind = n[j].kind /\ o[j].deepest = n[j].deepest
              /\ o[j].chain = n[j].chain
        /\ o[m - 1].inner \in {n[m - 1].inner, Depth(n[m])}
    BY OneOut
  <1> HIDE DEF o
  <1>5. to \in [1..(m - 1) -> 1..L] /\ \A j \in 1..(m - 1) : to[j] = at[j]
    BY <1>1, <1>2
  <1> HIDE DEF to
  <1> HIDE DEF m, L
  <1>6. Matched(o, gs, to, r)
    <2>1. to[1] = 1
      <3>1. 1 \in 1..(m - 1)
        BY <1>1
      <3> QED BY <3>1, <1>5 DEF Matched
    <2>2. \A j, k \in 1..(m - 1) : j < k => to[j] < to[k]
      <3>1. \A j \in 1..(m - 1) : j \in 1..m
        BY <1>1
      <3> QED BY <3>1, <1>5 DEF Matched, m
    <2>3. \A j \in 1..(m - 1) : gs[to[j]].kind = o[j].kind
      <3>1. \A j \in 1..(m - 1) : j \in 1..m
        BY <1>1
      <3> QED BY <3>1, <1>4, <1>5 DEF Matched, m
    <2>4. r \in 1..(L + 1) /\ to[m - 1] < r
      <3>1. m - 1 \in 1..(m - 1)
        BY <1>1
      <3>2. to[m - 1] = at[m - 1]
        BY <3>1, <1>5
      <3>3. at[m - 1] \in Nat /\ at[m] \in Nat
        <4>1. \A j \in 1..m : at[j] \in Nat
          BY <1>2
        <4> QED BY <4>1, <1>1
      <3>4. at[m - 1] < r
        BY <3>3, <1>2, <1>3
      <3> QED BY <3>2, <3>4, <1>2, <1>3
    <2>5. ASSUME NEW i \in 1..(r - 1)
          PROVE  \/ \E j \in 1..(m - 1) : to[j] = i
                 \/ gs[i].kind = "Case" /\ ~gs[i].splits
      <3>1. CASE i >= at[m]
        <4>1. i \in at[m]..(r - 1)
          BY <3>1, <1>1, <1>2, <1>3
        <4> QED BY <4>1 DEF LeftBehind, m
      <3>2. CASE i < at[m]
        <4>1. i \in 1..(q - 1)
          BY <1>2, <1>3
        <4>2. (\E j \in 1..m : at[j] = i) \/ (gs[i].kind = "Case" /\ ~gs[i].splits)
          BY <4>1 DEF Matched, m
        <4>3. ASSUME NEW j \in 1..m, at[j] = i
              PROVE  \E k \in 1..(m - 1) : to[k] = i
          <5>1. j # m
            BY <4>3, <3>2, <1>1, <1>2
          <5>2. j \in 1..(m - 1)
            BY <5>1, <1>1
          <5> QED BY <5>2, <4>3, <1>5
        <4> QED BY <4>2, <4>3
      <3>3. at[m] \in Nat
        BY SMTT(30), <1>1, <1>2
      <3> QED BY <3>1, <3>2, <3>3
    <2> QED BY <2>1, <2>2, <2>3, <2>4, <2>5, <1>1, <1>4, <1>5 DEF Matched, L
  <1>7. /\ p \in [0..L -> Nat]
        /\ \A i, j \in 0..L : i <= j => p[i] <= p[j]
    BY DEF Tally, L
  <1> DEFINE a == p[at[m] - 1]
             b == p[at[m - 1] - 1]
             e == n[m - 1]
             d == Depth(n[m])
             top == Owed(o, to, p, m - 1)
  <1>8. /\ a \in Nat /\ b \in Nat /\ d \in Nat
        /\ e.chain \in Nat /\ e.inner \in Nat /\ Carried(n[m]) \in Nat
        /\ o[m - 1].chain = e.chain
    <2>1. a \in Nat /\ b \in Nat
      BY <1>1, <1>2, <1>7
    <2>2. d \in Nat /\ e.chain \in Nat /\ e.inner \in Nat
      BY <1>1, ExprNumbers DEF m
    <2>3. m - 1 \in 1..(m - 1)
      BY <1>1
    <2> QED BY <2>1, <2>2, <2>3, <1>4 DEF Carried
  <1>9. e.chain + e.inner + b + Carried(n[m]) <= a
    <2>1. m - 1 \in 1..(m - 1)
      BY <1>1
    <2>2. Owed(n, at, p, m - 1) + Carried(n[m]) <= p[at[m] - 1]
      BY <2>1, <1>1 DEF Measured, m
    <2> QED BY <2>2 DEF Owed
  <1>10. top = e.chain + o[m - 1].inner + b
    <2>1. m - 1 \in 1..(m - 1)
      BY <1>1
    <2> QED BY <2>1, <1>4, <1>5 DEF Owed
  <1> HIDE DEF a, b, d, e, top
  <1>11. /\ o[m - 1].inner = e.inner => top + rest <= a
         /\ o[m - 1].inner = d => top + rest <= d + a
    <2> DEFINE c == Carried(n[m])
               u == e.chain
               v == e.inner
               z == o[m - 1].inner
    <2>1. /\ c \in Nat /\ u \in Nat /\ v \in Nat /\ a \in Nat /\ b \in Nat
          /\ d \in Nat /\ u + v + b + c <= a /\ rest <= c
      BY <1>8, <1>9 DEF m
    <2>2. top = u + z + b
      BY <1>10
    <2> HIDE DEF c, u, v, z
    <2>3. u + v + b + rest <= a
      BY <2>1
    <2>4. u + d + b + rest <= d + a
      BY <2>1
    <2>5. /\ z = v => top + rest <= a
          /\ z = d => top + rest <= d + a
      BY <2>2, <2>3, <2>4
    <2> QED BY <2>5 DEF v, z
  <1>12. \/ top + rest <= p[r - 1]
         \/ \E i \in r..L : top + rest <= Height(gs, p, i)
    <2>1. p[r - 1] \in Nat /\ a <= p[r - 1]
      <3>1. r - 1 \in 0..L /\ at[m] - 1 \in 0..L /\ at[m] - 1 <= r - 1
        BY SMTT(30), <1>1, <1>2, <1>3
      <3> QED BY <3>1, <1>7 DEF a
    <2>2. top \in Nat
      <3>1. o[m - 1].inner \in Nat
        BY <1>4, <1>8 DEF d, e
      <3> DEFINE u == e.chain
                 w == o[m - 1].inner
      <3>2. u \in Nat /\ w \in Nat
        BY <3>1, <1>8
      <3> HIDE DEF u, w
      <3>3. u + w + b \in Nat
        BY <3>2, <1>8
      <3> QED BY <3>3, <1>10 DEF u, w
    <2>3. CASE o[m - 1].inner = e.inner
      BY SMTT(30), <2>1, <2>2, <2>3, <1>8, <1>11
    <2>4. CASE o[m - 1].inner = d
      <3>1. top + rest <= d + a
        BY <2>4, <1>11
      <3>2. CASE d + a <= p[r - 1]
        BY SMTT(30), <3>1, <3>2, <2>1, <2>2, <1>8
      <3>3. CASE \E i \in r..L : d + a <= Height(gs, p, i)
        <4>1. PICK i \in r..L : d + a <= Height(gs, p, i)
          BY <3>3
        <4>2. i \in 1..L
          BY <1>3, <1>2
        <4>3. Height(gs, p, i) \in Nat
          BY <4>2, GroupNumbers DEF L
        <4>4. top + rest <= Height(gs, p, i)
          BY <3>1, <4>1, <4>3, <2>2, <1>8
        <4> QED BY <4>4
      <3> QED BY <3>2, <3>3 DEF LeftBehind, d, a, m, L
    <2> QED BY <2>3, <2>4, <1>4 DEF d, e
  <1>13. Measured(o, gs, to, p, r, rest)
    <2>1. ASSUME NEW j \in 1..(Len(o) - 1)
          PROVE  Owed(o, to, p, j) + Carried(o[j + 1]) <= p[to[j + 1] - 1]
      <3>1. /\ j \in 1..(m - 2) /\ j \in 1..(m - 1) /\ j + 1 \in 1..(m - 1)
            /\ j \in 1..m
        <4>1. Len(o) - 1 = m - 2
          BY <1>1, <1>4
        <4>2. j \in 1..(m - 2)
          BY <4>1
        <4> QED BY <4>2, <1>1
      <3>2. o[j] = n[j] /\ o[j + 1].kind = n[j + 1].kind
        BY <3>1, <1>4
      <3>3. Owed(n, at, p, j) + Carried(n[j + 1]) <= p[at[j + 1] - 1]
        BY <3>1 DEF Measured, m
      <3> QED BY <3>1, <3>2, <3>3, <1>5 DEF Owed, Carried
    <2>2. \/ Owed(o, to, p, Len(o)) + rest <= p[r - 1]
          \/ \E i \in r..Len(gs) :
                Owed(o, to, p, Len(o)) + rest <= Height(gs, p, i)
      BY <1>4, <1>12 DEF top, L
    <2>3. ASSUME NEW j \in 1..Len(o)
          PROVE  \E i \in to[j]..Last(o, gs, to, j) :
                    o[j].deepest + p[to[j] - 1] <= Height(gs, p, i)
      <3>1. j \in 1..(m - 1) /\ j \in 1..m
        BY <1>1, <1>4
      <3>2. o[j].deepest = n[j].deepest /\ to[j] = at[j]
        BY <3>1, <1>4, <1>5
      <3>3. PICK i \in at[j]..Last(n, gs, at, j) :
               n[j].deepest + p[at[j] - 1] <= Height(gs, p, i)
        BY <3>1 DEF Measured, m
      <3>4. i \in to[j]..Last(o, gs, to, j)
        <4>0. /\ i \in Nat /\ i >= at[j] /\ i <= Last(n, gs, at, j)
              /\ i <= L
          BY SMTT(30), <3>1, <1>2
        <4>1. CASE j = m - 1
          <5>1. Last(o, gs, to, j) = L
            BY <4>1, <1>4 DEF Last, L
          <5> QED BY <5>1, <4>0, <3>2, <1>2, <3>1
        <4>2. CASE j # m - 1
          <5>1. j + 1 \in 1..(m - 1) /\ j # m /\ j # Len(o)
            BY <4>2, <3>1, <1>1, <1>4
          <5>2. Last(o, gs, to, j) = Last(n, gs, at, j)
            BY <5>1, <1>5 DEF Last, m
          <5> QED BY <5>2, <3>2
        <4> QED BY <4>1, <4>2
      <3> QED BY <3>2, <3>3, <3>4
    <2> QED BY <2>1, <2>2, <2>3, <1>1, <1>2, <1>4 DEF Measured
  <1> QED BY <1>6, <1>13 DEF Fits, o

\* Above the group of the innermost expression are only CASEs that the scan
\* did not see end.
LEMMA OnTop ==
    ASSUME NEW n \in Seq(Expr), Len(n) >= 1, NEW gs \in Seq(Group),
           NEW at, Matched(n, gs, at, Len(gs) + 1)
    PROVE  /\ gs[at[Len(n)]].kind = n[Len(n)].kind
           /\ at[Len(n)] \in 1..Len(gs) /\ at[Len(n)] \in Nat
           /\ \A i \in 1..Len(gs) : i > at[Len(n)] =>
                 gs[i].kind = "Case" /\ ~gs[i].splits
  <1> DEFINE m == Len(n)
             L == Len(gs)
  <1>1. /\ m \in 1..m /\ L \in Nat /\ at[m] \in 1..L
        /\ \A j \in 1..m : at[j] \in 1..L /\ at[j] <= at[m]
    <2>1. m \in 1..m
      BY LenProperties
    <2> QED BY <2>1, Spots
  <1>2. gs[at[m]].kind = n[m].kind
    BY <1>1 DEF Matched
  <1>3. ASSUME NEW i \in 1..L, i > at[m]
        PROVE  gs[i].kind = "Case" /\ ~gs[i].splits
    <2>1. i \in 1..(L + 1 - 1)
      BY <1>1
    <2>2. ASSUME NEW j \in 1..m, at[j] = i PROVE FALSE
      <3>1. at[j] <= at[m] /\ at[j] \in 1..L
        BY <1>1
      <3> QED BY <3>1, <2>2, <1>1, <1>3
    <2> QED BY <2>1, <2>2 DEF Matched
  <1> QED BY <1>1, <1>2, <1>3

\* A bracket or an angle closes: the scan closes the groups from the last of
\* that kind on.
LEMMA BracketEnds ==
    ASSUME NEW n \in Seq(Expr), Len(n) >= 2, NEW gs \in Seq(Group),
           gs[1].kind = "Statement", n[Len(n)].kind \notin {"Case", "Statement"},
           NEW spare \in Nat, NEW rest \in Nat, rest <= Carried(n[Len(n)]),
           Fits(n, gs, Len(gs) + 1, spare)
    PROVE  \E r \in 2..Len(gs) :
              /\ gs[r].kind = n[Len(n)].kind
              /\ \A i \in (r + 1)..Len(gs) : gs[i].kind # n[Len(n)].kind
              /\ Fits(Without(n, 1), gs, r, rest)
  <1> DEFINE m == Len(n)
             L == Len(gs)
  <1>1. PICK at, p : /\ Tally(gs, p) /\ Matched(n, gs, at, L + 1)
                     /\ Measured(n, gs, at, p, L + 1, spare)
    BY DEF Fits
  <1> DEFINE r == at[m]
  <1>2. /\ L \in Nat /\ r \in 1..L /\ r \in Nat /\ gs[r].kind = n[m].kind
        /\ \A i \in 1..L : i > r => gs[i].kind = "Case" /\ ~gs[i].splits
    BY <1>1, OnTop, LenProperties
  <1>3. r # 1
    BY <1>2
  <1>4. r \in 2..L
    BY <1>2, <1>3
  <1>5. \A i \in (r + 1)..L : i \in 1..L /\ i > r
    BY <1>2
  <1>6. \A i \in (r + 1)..L : gs[i].kind # n[m].kind
    BY <1>2, <1>5
  <1>7. LeftBehind(n, gs, at, p, r)
    <2>1. \A i \in at[m]..(r - 1) : FALSE
      BY <1>2
    <2>2. \E i \in r..L : Depth(n[m]) + p[at[m] - 1] <= Height(gs, p, i)
      <3>1. m >= 1
        BY LenProperties
      <3> QED BY <3>1, <1>1, DepthReached
    <2> QED BY <2>1, <2>2 DEF LeftBehind
  <1>8. r \in at[m]..(L + 1)
    BY <1>2
  <1>9. Fits(Without(n, 1), gs, r, rest)
    BY <1>1, <1>7, <1>8, Pops
  <1> QED BY <1>4, <1>2, <1>6, <1>9

\* The groups from i on, CASEs whose segments go on, count what one of them
\* has.
LEMMA Raised ==
    ASSUME NEW gs \in Seq(Group), NEW p, Tally(gs, p), NEW i \in 1..Len(gs)
    PROVE  \E s : /\ Tally(gs, s)
                  /\ \A k \in 0..(i - 1) : s[k] = p[k]
                  /\ \A k \in 0..Len(gs) : p[k] <= s[k]
                  /\ \A k \in i..Len(gs) : p[i - 1] + gs[i].current <= s[k]
  <1> DEFINE L == Len(gs)
             y == p[i - 1] + gs[i].current
             s == [k \in 0..L |-> IF k < i THEN p[k] ELSE Larger(p[k], y)]
  <1>1. /\ L \in Nat /\ i \in Nat /\ i >= 1 /\ i <= L
        /\ i - 1 \in 0..L /\ 0 \in 0..L
    BY LenProperties
  <1>2. /\ p \in [0..L -> Nat] /\ p[0] = 0
        /\ \A k \in 1..L : p[k] <= p[k - 1] + gs[k].current
        /\ \A k, l \in 0..L : k <= l => p[k] <= p[l]
    BY DEF Tally
  <1>3. \A k \in 1..L : gs[k].current \in Nat
    BY GroupNumbers
  <1>4. y \in Nat
    BY <1>1, <1>2, <1>3
  <1>5. \A k \in 0..L :
           /\ p[k] \in Nat /\ Larger(p[k], y) \in Nat
           /\ p[k] <= Larger(p[k], y) /\ y <= Larger(p[k], y)
           /\ Larger(p[k], y) \in {p[k], y}
    BY <1>2, <1>4 DEF Larger
  <1> HIDE DEF y, L
  <1>6. s \in [0..L -> Nat]
    BY <1>5
  <1>7. /\ \A k \in 0..L : k < i => s[k] = p[k]
        /\ \A k \in 0..L : ~(k < i) => s[k] = Larger(p[k], y)
    OBVIOUS
  <1> HIDE DEF s
  <1>8. \A k \in 0..L : s[k] \in Nat /\ p[k] <= s[k]
    BY <1>5, <1>6, <1>7
  <1>9. ASSUME NEW k \in 1..L PROVE s[k] <= s[k - 1] + gs[k].current
    <2>1. /\ k \in 0..L /\ k - 1 \in 0..L /\ gs[k].current \in Nat
          /\ p[k] <= p[k - 1] + gs[k].current
      BY <1>1, <1>2, <1>3
    <2>2. /\ p[k] \in Nat /\ p[k - 1] \in Nat /\ s[k - 1] \in Nat
          /\ p[k - 1] <= s[k - 1]
      BY <2>1, <1>5, <1>8
    <2> DEFINE c == gs[k].current
               u == p[k]
               v == p[k - 1]
               w == s[k - 1]
    <2>3. /\ c \in Nat /\ u \in Nat /\ v \in Nat /\ w \in Nat
          /\ u <= v + c /\ v <= w
      BY <2>1, <2>2
    <2>4. s[k] <= w + c
      <3>1. CASE s[k] = u
        <4> HIDE DEF c, u, v, w
        <4> QED BY <3>1, <2>3
      <3>2. CASE k = i /\ s[k] = y
        <4>1. y = v + c
          BY <3>2 DEF y
        <4> HIDE DEF c, u, v, w
        <4> QED BY <3>2, <4>1, <2>3
      <3>3. CASE k # i /\ s[k] = y
        <4>1. CASE k < i
          <5>1. s[k] = u
            BY <4>1, <2>1, <1>7
          <5> QED BY <5>1, <3>1
        <4>2. CASE ~(k < i)
          <5>1. ~(k - 1 < i)
            BY <4>2, <3>3, <1>1
          <5>2. y <= w
            BY <5>1, <2>1, <1>5, <1>7
          <5> HIDE DEF c, u, v, w
          <5> QED BY <5>2, <3>3, <2>3, <1>4
        <4> QED BY <4>1, <4>2
      <3> QED BY <3>1, <3>2, <3>3, <2>1, <1>5, <1>7
    <2> QED BY <2>4 DEF c, w
  <1>10. ASSUME NEW k \in 0..L, NEW l \in 0..L, k <= l PROVE s[k] <= s[l]
    <2>1. p[k] <= p[l]
      BY <1>10, <1>2
    <2>2. /\ p[k] \in Nat /\ p[l] \in Nat /\ s[k] \in Nat /\ s[l] \in Nat
          /\ p[l] <= s[l]
      BY <1>5, <1>8
    <2>3. CASE k < i
      BY <2>1, <2>2, <2>3, <1>7
    <2>4. CASE ~(k < i)
      <3>1. ~(l < i)
        BY <1>10, <2>4, <1>1
      <3>2. y <= s[l] /\ s[k] \in {p[k], y}
        BY <3>1, <2>4, <1>5, <1>7
      <3> QED BY <3>2, <2>1, <2>2, <1>4
    <2> QED BY <2>3, <2>4
  <1>11. s[0] = 0
    BY <1>1, <1>2, <1>7
  <1>12. Tally(gs, s)
    BY <1>6, <1>9, <1>10, <1>11 DEF Tally, L
  <1>13. \A k \in 0..(i - 1) : s[k] = p[k]
    <2>1. \A k \in 0..(i - 1) : k \in 0..L /\ k < i
      BY <1>1
    <2> QED BY <2>1, <1>7
  <1>14. \A k \in i..L : y <= s[k]
    <2>1. \A k \in i..L : k \in 0..L /\ ~(k < i)
      BY <1>1
    <2> QED BY <2>1, <1>5, <1>7
  <1> QED BY <1>8, <1>12, <1>13, <1>14 DEF y, L

\* Counting more from a group on where no expression begins.
LEMMA MeasuredRaised ==
    ASSUME NEW n \in Seq(Expr), Len(n) >= 1, NEW gs \in Seq(Group),
           NEW at, Matched(n, gs, at, Len(gs) + 1),
           NEW p, Tally(gs, p), NEW s, Tally(gs, s),
           NEW spare \in Nat, Measured(n, gs, at, p, Len(gs) + 1, spare),
           NEW i \in at[Len(n)]..Len(gs),
           \A k \in 0..(i - 1) : s[k] = p[k],
           \A k \in 0..Len(gs) : p[k] <= s[k]
    PROVE  Measured(n, gs, at, s, Len(gs) + 1, spare)
  <1> DEFINE m == Len(n)
             L == Len(gs)
  <1>1. /\ m \in Nat /\ m \in 1..m /\ L \in Nat /\ i \in Nat
        /\ \A j \in 1..m : /\ at[j] \in 1..L /\ at[j] - 1 \in 0..L
                           /\ at[j] - 1 \in 0..(i - 1)
                           /\ Last(n, gs, at, j) \in 1..L
    <2>1. m \in Nat /\ m \in 1..m /\ L \in Nat
      BY LenProperties
    <2>2. \A j \in 1..m : /\ at[j] \in 1..L /\ at[j] - 1 \in 0..L
                          /\ at[j] <= at[m]
                          /\ Last(n, gs, at, j) \in 1..L
      BY <2>1, Spots
    <2>3. i \in Nat /\ at[m] \in Nat /\ i >= at[m]
      BY <2>1, <2>2
    <2>4. \A j \in 1..m : at[j] - 1 \in 0..(i - 1)
      BY <2>2, <2>3
    <2> QED BY <2>1, <2>2, <2>3, <2>4
  <1>2. /\ p \in [0..L -> Nat] /\ s \in [0..L -> Nat]
    BY DEF Tally
  <1>3. \A j \in 1..m : s[at[j] - 1] = p[at[j] - 1]
    BY <1>1
  <1>4. \A j \in 1..m : Owed(n, at, s, j) = Owed(n, at, p, j)
    BY <1>3 DEF Owed
  <1>5. \A j \in 1..(m - 1) :
           Owed(n, at, s, j) + Carried(n[j + 1]) <= s[at[j + 1] - 1]
    <2>1. \A j \in 1..(m - 1) : j \in 1..m /\ j + 1 \in 1..m
      BY <1>1
    <2> QED BY <2>1, <1>3, <1>4 DEF Measured
  <1>6. Owed(n, at, s, m) + spare <= s[L + 1 - 1]
    <2>1. Owed(n, at, p, m) + spare <= p[L]
      BY DepthReached
    <2>2. Owed(n, at, p, m) \in Nat
      <3>1. p[at[m] - 1] \in Nat /\ n[m].chain \in Nat /\ n[m].inner \in Nat
        BY <1>1, <1>2, ExprNumbers
      <3> DEFINE u == p[at[m] - 1]
                 v == n[m].chain
                 w == n[m].inner
      <3>2. Owed(n, at, p, m) = v + w + u
        BY DEF Owed
      <3>3. u \in Nat /\ v \in Nat /\ w \in Nat
        BY <3>1
      <3> HIDE DEF u, v, w
      <3> QED BY <3>2, <3>3
    <2>3. p[L] \in Nat /\ s[L] \in Nat /\ p[L] <= s[L] /\ L + 1 - 1 = L
      BY <1>1, <1>2
    <2>4. Owed(n, at, s, m) = Owed(n, at, p, m)
      BY <1>1, <1>4
    <2> DEFINE o == Owed(n, at, p, m)
    <2>5. o \in Nat /\ o + spare <= p[L]
      BY <2>1, <2>2
    <2> HIDE DEF o
    <2>6. o + spare <= s[L]
      BY <2>3, <2>5
    <2> QED BY <2>3, <2>4, <2>6 DEF o
  <1>7. \A k \in 1..L : Height(gs, p, k) <= Height(gs, s, k)
                        /\ Height(gs, p, k) \in Nat /\ Height(gs, s, k) \in Nat
    <2> SUFFICES ASSUME NEW k \in 1..L
                 PROVE  /\ Height(gs, p, k) <= Height(gs, s, k)
                        /\ Height(gs, p, k) \in Nat /\ Height(gs, s, k) \in Nat
      OBVIOUS
    <2>1. k - 1 \in 0..L
      BY <1>1
    <2>2. /\ p[k - 1] \in Nat /\ s[k - 1] \in Nat /\ p[k - 1] <= s[k - 1]
      BY <2>1, <1>2
    <2>3. Chain(gs[k]) \in Nat
      BY GroupNumbers
    <2> QED BY SMTT(30), <2>2, <2>3 DEF Height
  <1>8. ASSUME NEW j \in 1..m
        PROVE  \E k \in at[j]..Last(n, gs, at, j) :
                  n[j].deepest + s[at[j] - 1] <= Height(gs, s, k)
    <2>1. PICK k \in at[j]..Last(n, gs, at, j) :
             n[j].deepest + p[at[j] - 1] <= Height(gs, p, k)
      BY DEF Measured
    <2>2. k \in 1..L
      <3>1. at[j] \in 1..L /\ Last(n, gs, at, j) \in 1..L
        BY <1>1
      <3> QED BY <3>1
    <2>3. n[j].deepest \in Nat /\ p[at[j] - 1] \in Nat
      BY <1>1, <1>2, ExprNumbers
    <2> DEFINE a == n[j].deepest
               b == p[at[j] - 1]
               g == Height(gs, p, k)
               h == Height(gs, s, k)
    <2>4. /\ a \in Nat /\ b \in Nat /\ g \in Nat /\ h \in Nat
          /\ a + b <= g /\ g <= h
      BY <2>1, <2>2, <2>3, <1>7
    <2> HIDE DEF a, b, g, h
    <2>5. a + b <= h
      BY <2>4
    <2> QED BY <2>5, <1>3 DEF a, b, h
  <1> QED BY <1>1, <1>5, <1>6, <1>8 DEF Measured

AllMerged(gs) ==
    \A i \in 1..Len(gs) :
        (\A k \in i..Len(gs) : gs[k].kind = "Case") => ~gs[i].splits

\* A CASE ends: the scan closes the CASE on top, which may be another, or
\* none, but then it no longer believes that their segments have ended.
LEMMA CaseEnds ==
    ASSUME NEW n \in Seq(Expr), Len(n) >= 2, NEW gs \in Seq(Group),
           n[Len(n)].kind = "Case", Shaped(gs),
           NEW spare \in Nat, Fits(n, gs, Len(gs) + 1, spare),
           NEW r \in {Len(gs), Len(gs) + 1},
           r = Len(gs) + 1 => AllMerged(gs)
    PROVE  Fits(Without(n, 1), gs, r, 0)
  <1> DEFINE m == Len(n)
             L == Len(gs)
  <1>1. PICK at, p : /\ Tally(gs, p) /\ Matched(n, gs, at, L + 1)
                     /\ Measured(n, gs, at, p, L + 1, spare)
    BY DEF Fits
  <1> DEFINE a == at[m]
  <1>2. /\ m \in Nat /\ m >= 1 /\ L \in Nat /\ a \in 1..L /\ a \in Nat
        /\ gs[a].kind = "Case"
        /\ \A i \in 1..L : i > a => gs[i].kind = "Case" /\ ~gs[i].splits
    BY <1>1, OnTop, LenProperties
  <1>3. \A i \in 1..L : i >= a => gs[i].kind = "Case"
    BY SMTT(30), <1>2
  <1>4. r \in Nat /\ r >= a /\ r <= L + 1 /\ r >= L /\ r \in a..(L + 1)
    BY <1>2
  <1>5. ASSUME NEW i \in a..(r - 1)
        PROVE  /\ i \in 1..L /\ gs[i].kind = "Case" /\ ~gs[i].splits
               /\ gs[i].longest <= gs[i].current
    <2>1. i \in 1..L /\ i >= a
      BY <1>2, <1>4
    <2>2. \A k \in i..L : k \in 1..L /\ gs[k].kind = "Case"
      BY <2>1, <1>2, <1>3
    <2>3. CASE r = L + 1
      BY <2>1, <2>2, <2>3 DEF AllMerged, Shaped
    <2>4. CASE r = L
      <3>1. i < L /\ L \in 1..L /\ L > a
        BY <2>1, <2>4, <1>2
      <3>2. ~gs[L].splits
        BY <3>1, <1>2
      <3>3. gs[i].splits => gs[L].splits
        BY <2>1, <2>2, <3>1 DEF Shaped
      <3> QED BY <2>1, <2>2, <3>1, <3>2, <3>3 DEF Shaped
    <2> QED BY <2>3, <2>4
  <1>6. PICK i \in a..L : Depth(n[m]) + p[a - 1] <= Height(gs, p, i)
    BY <1>1, <1>2, DepthReached
  <1>7. CASE i >= r
    <2>1. i \in r..L
      BY <1>4, <1>7, <1>2
    <2>2. LeftBehind(n, gs, at, p, r)
      BY <2>1, <1>5, <1>6 DEF LeftBehind
    <2>3. 0 <= Carried(n[m])
      BY DEF Carried
    <2> QED BY <2>2, <2>3, <1>1, <1>4, Pops
  <1>8. CASE i < r
    <2>1. i \in a..(r - 1) /\ i \in 1..L /\ i \in Nat
      BY <1>2, <1>4, <1>8
    <2>2. Chain(gs[i]) = gs[i].current
      <3>1. gs[i].longest <= gs[i].current
        BY <2>1, <1>5
      <3>2. gs[i].longest \in Nat /\ gs[i].current \in Nat
        BY <2>1, <1>1, GroupNumbers
      <3> QED BY <3>1, <3>2 DEF Chain, Larger
    <2>3. PICK s : /\ Tally(gs, s)
                   /\ \A k \in 0..(i - 1) : s[k] = p[k]
                   /\ \A k \in 0..L : p[k] <= s[k]
                   /\ \A k \in i..L : p[i - 1] + gs[i].current <= s[k]
      BY <2>1, <1>1, Raised
    <2>4. Measured(n, gs, at, s, L + 1, spare)
      BY <2>1, <2>3, <1>1, <1>2, MeasuredRaised
    <2>5. r - 1 \in i..L /\ a - 1 \in 0..(i - 1) /\ r - 1 \in 0..L
          /\ a - 1 \in 0..L
      BY SMTT(30), <2>1, <1>2, <1>4
    <2>6. Depth(n[m]) + s[a - 1] <= s[r - 1]
      <3>1. s[a - 1] = p[a - 1]
        BY <2>3, <2>5
      <3>2. Height(gs, p, i) <= s[r - 1]
        BY <2>2, <2>3, <2>5 DEF Height
      <3>3. /\ Depth(n[m]) \in Nat /\ p[a - 1] \in Nat /\ s[r - 1] \in Nat
            /\ Height(gs, p, i) \in Nat
        <4>1. Depth(n[m]) \in Nat
          <5>1. m \in 1..m
            BY <1>2
          <5> QED BY <5>1, ExprNumbers
        <4>2. p[a - 1] \in Nat /\ s[r - 1] \in Nat
          BY <2>3, <2>5, <1>1 DEF Tally
        <4>3. Height(gs, p, i) \in Nat
          BY <2>1, <1>1, GroupNumbers
        <4> QED BY <4>1, <4>2, <4>3
      <3> DEFINE d == Depth(n[m])
                 b == p[a - 1]
                 h == Height(gs, p, i)
                 w == s[r - 1]
      <3>4. d \in Nat /\ b \in Nat /\ h \in Nat /\ w \in Nat
            /\ d + b <= h /\ h <= w
        BY <3>2, <3>3, <1>6
      <3> HIDE DEF d, b, h, w
      <3>5. d + b <= w
        BY <3>4
      <3> QED BY <3>5, <3>1 DEF d, b, w
    <2>7. LeftBehind(n, gs, at, s, r)
      BY <2>6, <1>5 DEF LeftBehind
    <2>8. 0 <= Carried(n[m])
      BY DEF Carried
    <2> QED BY <2>3, <2>4, <2>7, <2>8, <1>1, <1>4, Pops
  <1> QED BY <1>7, <1>8, <1>2, <1>4

\* A >> closes two angles.
LEMMA AnglesEnd ==
    ASSUME NEW n \in Seq(Expr), Len(n) >= 2, NestOK(n),
           n[Len(n)].kind = "Angle", n[Len(n) - 1].kind = "Angle",
           NEW gs \in Seq(Group), gs[1].kind = "Statement", Shaped(gs),
           NEW spare \in Nat, Fits(n, gs, Len(gs) + 1, spare)
    PROVE  /\ Len(gs) - 1 > 1
           /\ gs[Len(gs)].kind = "Angle" /\ gs[Len(gs) - 1].kind = "Angle"
           /\ Fits(Without(n, 2), gs, Len(gs) - 1, 1)
           /\ Without(n, 2) = Without(Without(n, 1), 1)
           /\ Len(Without(n, 1)) >= 2
  <1> DEFINE m == Len(n)
             L == Len(gs)
             o == Without(n, 1)
  <1>1. PICK at, p : /\ Tally(gs, p) /\ Matched(n, gs, at, L + 1)
                     /\ Measured(n, gs, at, p, L + 1, spare)
    BY DEF Fits
  <1>2. /\ m \in Nat /\ m >= 2 /\ m \in 1..m /\ m - 1 \in 1..m
        /\ m - 1 + 1 = m /\ L \in Nat
    BY LenProperties
  <1>3. /\ at[m] \in 1..L /\ gs[at[m]].kind = "Angle"
        /\ at[m - 1] \in 1..L /\ gs[at[m - 1]].kind = "Angle"
        /\ at[m - 1] < at[m]
    <2>1. /\ \A j \in 1..m : at[j] \in 1..L /\ gs[at[j]].kind = n[j].kind
          /\ \A j, k \in 1..m : j < k => at[j] < at[k]
      BY <1>1 DEF Matched
    <2>2. m - 1 < m
      BY <1>2
    <2>3. at[m - 1] < at[m]
      BY <2>1, <2>2, <1>2
    <2> QED BY <2>1, <2>3, <1>2
  <1>4. at[m] = L
    <2>1. CASE at[m] < L
      <3>1. at[m] \in 1..(L - 1) /\ at[m] + 1 \in 1..L /\ at[m] + 1 > at[m]
        BY <2>1, <1>2, <1>3
      <3>2. gs[at[m] + 1].kind = "Angle"
        BY <3>1, <1>3 DEF Shaped
      <3>3. gs[at[m] + 1].kind = "Case"
        BY SMTT(30), <3>1, <1>1, <1>2, OnTop
      <3> QED BY <3>2, <3>3
    <2> QED BY <2>1, <1>2, <1>3
  <1>5. at[m - 1] = L - 1
    <2> DEFINE k == at[m - 1]
    <2>1. k \in Nat /\ k \in 1..(L - 1) /\ k + 1 \in 1..L
      BY SMTT(30), <1>2, <1>3, <1>4
    <2>2. gs[k + 1].kind = "Angle"
      BY <2>1, <1>3 DEF Shaped
    <2>3. k + 1 \in 1..(L + 1 - 1)
      BY <2>1, <1>2
    <2>4. PICK j \in 1..m : at[j] = k + 1
      BY <2>2, <2>3, <1>1 DEF Matched
    <2>5. \A i, l \in 1..m : i < l => at[i] < at[l]
      BY <1>1 DEF Matched
    <2>6. ~(j < m - 1) /\ j # m - 1
      <3>1. CASE j < m - 1
        <4>1. at[j] < k
          BY <3>1, <2>5, <1>2
        <4> QED BY <4>1, <2>1, <2>4
      <3>2. j # m - 1
        BY SMTT(30), <2>1, <2>4
      <3> QED BY <3>1, <3>2
    <2>7. j = m
      <3>1. j \in 1..m
        BY <2>4
      <3>2. m \in Nat
        BY <1>2
      <3> HIDE DEF m
      <3> QED BY <3>1, <3>2, <2>6
    <2> QED BY <2>1, <2>4, <2>7, <1>2, <1>4
  <1>6. L - 1 > 1
    <2>1. L - 1 # 1
      BY <1>3, <1>5
    <2> QED BY <2>1, <1>2, <1>3, <1>5
  <1>7. /\ n[m] \in Expr /\ n[m - 1] \in Expr
        /\ Depth(n[m]) = 0 /\ Depth(n[m - 1]) = 0
        /\ n[m - 1].inner = 0 /\ n[m - 1].chain = 0 /\ n[m - 1].deepest = 0
    <2>1. n[m] \in Expr /\ n[m - 1] \in Expr
      BY <1>2, ElementOfSeq
    <2> QED BY <2>1, <1>2 DEF NestOK, Depth, Larger
  <1>8. Carried(n[m]) = 1 /\ Carried(n[m - 1]) = 1
    BY DEF Carried
  <1>9. Fits(o, gs, L, 1)
    <2>1. LeftBehind(n, gs, at, p, L)
      <3>1. \A i \in at[m]..(L - 1) : FALSE
        BY <1>2, <1>4
      <3>2. \E i \in L..L : Depth(n[m]) + p[at[m] - 1] <= Height(gs, p, i)
        <4>1. m >= 1
          BY <1>2
        <4> QED BY <4>1, <1>1, <1>4, DepthReached
      <3> QED BY <3>1, <3>2 DEF LeftBehind
    <2>2. L \in at[m]..(L + 1)
      BY <1>2, <1>4
    <2> QED BY <2>1, <2>2, <1>1, <1>8, Pops
  <1>10. /\ o \in Seq(Expr) /\ Len(o) = m - 1
         /\ \A j \in 1..(m - 2) : o[j] = n[j]
         /\ \A j \in 1..(m - 1) :
               /\ o[j].kind = n[j].kind /\ o[j].deepest = n[j].deepest
               /\ o[j].chain = n[j].chain
         /\ o[m - 1].inner \in {n[m - 1].inner, Depth(n[m])}
    BY OneOut
  <1>11. o[m - 1] \in Expr /\ o[m - 1].kind = "Angle" /\ Depth(o[m - 1]) = 0
    <2>1. m - 1 \in 1..(m - 1) /\ m - 1 \in 1..Len(o)
      BY <1>2, <1>10
    <2>2. o[m - 1] \in Expr
      BY <2>1, <1>10, ElementOfSeq
    <2>3. o[m - 1].inner = 0 /\ o[m - 1].chain = 0 /\ o[m - 1].deepest = 0
          /\ o[m - 1].kind = "Angle"
      BY <2>1, <1>7, <1>10
    <2> QED BY <2>2, <2>3 DEF Depth, Larger
  <1>12. PICK to, s : /\ Tally(gs, s) /\ Matched(o, gs, to, L)
                      /\ Measured(o, gs, to, s, L, 1)
    BY <1>9 DEF Fits
  <1> HIDE DEF o
  <1>13. Len(o) >= 2
    <2>1. m # 2
      <3>1. CASE m = 2
        <4>1. at[1] = 1
          BY <1>1 DEF Matched
        <4>2. m - 1 = 1
          BY <3>1
        <4> QED BY <4>1, <4>2, <1>3
      <3> QED BY <3>1
    <2> QED BY <2>1, <1>2, <1>10
  <1>14. to[m - 1] = L - 1
    <2> DEFINE k == to[m - 1]
    <2>1. /\ k \in 1..L /\ gs[k].kind = "Angle" /\ k < L
          /\ \A i \in 1..(L - 1) :
                (\E j \in 1..(m - 1) : to[j] = i) \/ gs[i].kind = "Case"
          /\ \A j \in 1..(m - 1) : to[j] <= k
      <3>1. m - 1 \in 1..(m - 1)
        BY <1>2
      <3>2. Len(o) >= 1 /\ \A j \in 1..(m - 1) : j \in 1..Len(o)
        BY <1>10, <1>13
      <3>3. \A j \in 1..(m - 1) : to[j] <= k
        BY <3>2, <1>10, <1>12, Spots
      <3> QED BY <3>1, <3>3, <1>10, <1>11, <1>12 DEF Matched
    <2>2. CASE k < L - 1
      <3>1. k \in 1..(L - 1) /\ k + 1 \in 1..(L - 1)
        BY <2>1, <2>2, <1>2
      <3>2. gs[k + 1].kind = "Angle"
        BY <2>1, <3>1 DEF Shaped
      <3>3. PICK j \in 1..(m - 1) : to[j] = k + 1
        BY <2>1, <3>1, <3>2
      <3>4. to[j] <= k
        BY <2>1
      <3> QED BY <3>1, <3>3, <3>4
    <2> QED BY <2>1, <2>2, <1>2
  <1>15. Fits(Without(o, 1), gs, L - 1, 1)
    <2>1. LeftBehind(o, gs, to, s, L - 1)
      <3>1. \A i \in to[m - 1]..(L - 1 - 1) : FALSE
        BY <1>2, <1>14
      <3>2. Depth(o[m - 1]) + s[to[m - 1] - 1] <= s[L - 1 - 1]
        <4>1. L - 1 - 1 \in 0..L
          BY <1>2, <1>6
        <4>2. s[L - 1 - 1] \in Nat
          BY <4>1, <1>12 DEF Tally
        <4> QED BY <4>2, <1>11, <1>14
      <3> QED BY <3>1, <3>2, <1>10 DEF LeftBehind
    <2>2. L - 1 \in to[Len(o)]..L
      BY <1>2, <1>6, <1>10, <1>14
    <2>3. 1 <= Carried(o[Len(o)])
      BY <1>10, <1>11 DEF Carried
    <2> QED BY <2>1, <2>2, <2>3, <1>10, <1>12, <1>13, Pops
  <1>16. Without(n, 2) = Without(o, 1)
    <2>1. Larger(Depth(n[m]), Depth(n[m - 1])) = 0 /\ Depth(o[m - 1]) = 0
      BY <1>7, <1>11 DEF Larger
    <2> DEFINE f(e) == [e EXCEPT !.inner = Larger(@, 0)]
    <2>2. Without(n, 2) = [i \in 1..(m - 2) |-> IF i = m - 2 THEN f(n[i]) ELSE n[i]]
      BY <2>1 DEF Without
    <2>3. m - 1 - 1 = m - 2 /\ Len(o) = m - 1
      BY <1>2, <1>10
    <2>4. Without(o, 1) = [i \in 1..(m - 2) |-> IF i = m - 2 THEN f(o[i]) ELSE o[i]]
      <3> HIDE DEF f
      <3>1. Without(o, 1) = [i \in 1..(m - 1 - 1) |->
               IF i = m - 1 - 1
                 THEN [o[i] EXCEPT !.inner = Larger(@, Depth(o[m - 1]))]
                 ELSE o[i]]
        BY <2>3 DEF Without
      <3>2. \A e : [e EXCEPT !.inner = Larger(@, Depth(o[m - 1]))] = f(e)
        BY <2>1 DEF f
      <3> QED BY <3>1, <3>2, <2>3
    <2>5. \A i \in 1..(m - 2) : o[i] = n[i]
      BY <1>10
    <2> HIDE DEF f
    <2> QED BY <2>2, <2>4, <2>5
  <1> QED BY <1>3, <1>4, <1>5, <1>6, <1>13, <1>15, <1>16 DEF o

-----------------------------------------------------------------------------
\* Groups that count more, and groups that close.

Widened(gs, hs) ==
    /\ Len(hs) = Len(gs)
    /\ \A i \in 1..Len(gs) :
          GroupGoesOn(gs[i], hs[i]) /\ gs[i].current <= hs[i].current

\* Groups that count more.
LEMMA Grows ==
    ASSUME NEW n \in Seq(Expr), Len(n) >= 1, NEW gs \in Seq(Group),
           NEW hs \in Seq(Group), Widened(gs, hs),
           NEW q, NEW spare \in Nat, Fits(n, gs, q, spare)
    PROVE  Fits(n, hs, q, spare)
  <1> DEFINE m == Len(n)
             L == Len(gs)
  <1>1. PICK at, p : /\ Tally(gs, p) /\ Matched(n, gs, at, q)
                     /\ Measured(n, gs, at, p, q, spare)
    BY DEF Fits
  <1>2. /\ Len(hs) = L /\ L \in Nat /\ m \in Nat /\ m \in 1..m
        /\ \A i \in 1..L : GroupGoesOn(gs[i], hs[i])
                           /\ gs[i].current <= hs[i].current
    BY LenProperties DEF Widened
  <1>3. /\ q \in Nat /\ q >= 1 /\ q <= L + 1
        /\ \A j \in 1..m : at[j] \in 1..L /\ Last(n, gs, at, j) \in 1..L
    BY <1>1, <1>2, Spots
  <1>4. Tally(hs, p)
    <2>1. /\ p \in [0..L -> Nat] /\ p[0] = 0
          /\ \A i, j \in 0..L : i <= j => p[i] <= p[j]
      BY <1>1 DEF Tally
    <2>2. ASSUME NEW i \in 1..L PROVE p[i] <= p[i - 1] + hs[i].current
      <3>1. p[i] <= p[i - 1] + gs[i].current
        BY <1>1 DEF Tally
      <3>2. p[i] \in Nat /\ p[i - 1] \in Nat /\ gs[i].current \in Nat
        BY <1>1, GroupNumbers
      <3>3. hs[i].current \in Nat
        <4>1. hs[i] \in Group
          BY <1>2, ElementOfSeq
        <4> QED BY <4>1 DEF Group
      <3>4. gs[i].current <= hs[i].current
        BY <1>2
      <3> QED BY SMTT(30), <3>1, <3>2, <3>3, <3>4
    <2> QED BY <2>1, <2>2, <1>2 DEF Tally
  <1>5. Matched(n, hs, at, q)
    <2>1. \A j \in 1..m : hs[at[j]].kind = n[j].kind
      BY <1>1, <1>2, <1>3 DEF Matched, GroupGoesOn
    <2>2. ASSUME NEW i \in 1..(q - 1)
          PROVE  \/ \E j \in 1..m : at[j] = i
                 \/ hs[i].kind = "Case" /\ ~hs[i].splits
      <3>1. i \in 1..L
        BY <1>2, <1>3
      <3>2. (\E j \in 1..m : at[j] = i) \/ (gs[i].kind = "Case" /\ ~gs[i].splits)
        BY <1>1 DEF Matched
      <3> QED BY <3>1, <3>2, <1>2 DEF GroupGoesOn
    <2> QED BY <2>1, <2>2, <1>1, <1>2 DEF Matched
  <1>6. \A i \in 1..L : /\ Height(gs, p, i) <= Height(hs, p, i)
                        /\ Height(gs, p, i) \in Nat /\ Height(hs, p, i) \in Nat
    <2> SUFFICES ASSUME NEW i \in 1..L
                 PROVE  /\ Height(gs, p, i) <= Height(hs, p, i)
                        /\ Height(gs, p, i) \in Nat /\ Height(hs, p, i) \in Nat
      OBVIOUS
    <2>1. p[i - 1] \in Nat /\ Chain(gs[i]) \in Nat /\ Height(gs, p, i) \in Nat
      BY <1>1, GroupNumbers
    <2>2. Chain(hs[i]) \in Nat /\ Height(hs, p, i) \in Nat
      BY <1>2, <1>4, GroupNumbers
    <2>3. Chain(gs[i]) <= Chain(hs[i])
      BY <1>2 DEF GroupGoesOn
    <2> QED BY <2>1, <2>2, <2>3 DEF Height
  <1>7. ASSUME NEW x \in Nat, NEW i \in 1..L, x <= Height(gs, p, i)
        PROVE  x <= Height(hs, p, i)
    BY <1>6, <1>7
  <1>8. \A j \in 1..m : /\ Owed(n, at, p, j) + spare \in Nat
                        /\ n[j].deepest + p[at[j] - 1] \in Nat
    <2> SUFFICES ASSUME NEW j \in 1..m
                 PROVE  /\ Owed(n, at, p, j) + spare \in Nat
                        /\ n[j].deepest + p[at[j] - 1] \in Nat
      OBVIOUS
    <2> DEFINE u == p[at[j] - 1]
               v == n[j].chain
               w == n[j].inner
               d == n[j].deepest
    <2>1. u \in Nat /\ v \in Nat /\ w \in Nat /\ d \in Nat
      BY <1>1, <1>3, ExprNumbers, GroupNumbers
    <2> HIDE DEF u, v, w, d
    <2>2. v + w + u + spare \in Nat /\ d + u \in Nat
      BY <2>1
    <2> QED BY <2>2 DEF Owed, u, v, w, d
  <1>9. Measured(n, hs, at, p, q, spare)
    <2>1. \A j \in 1..(m - 1) :
             Owed(n, at, p, j) + Carried(n[j + 1]) <= p[at[j + 1] - 1]
      BY <1>1 DEF Measured
    <2>2. \/ Owed(n, at, p, m) + spare <= p[q - 1]
          \/ \E i \in q..L : Owed(n, at, p, m) + spare <= Height(hs, p, i)
      <3>1. CASE \E i \in q..L : Owed(n, at, p, m) + spare <= Height(gs, p, i)
        <4>1. PICK i \in q..L : Owed(n, at, p, m) + spare <= Height(gs, p, i)
          BY <3>1
        <4>2. i \in 1..L
          BY <1>2, <1>3
        <4> QED BY <4>1, <4>2, <1>2, <1>7, <1>8
      <3> QED BY <3>1, <1>1 DEF Measured
    <2>3. ASSUME NEW j \in 1..m
          PROVE  \E i \in at[j]..Last(n, hs, at, j) :
                    n[j].deepest + p[at[j] - 1] <= Height(hs, p, i)
      <3>1. PICK i \in at[j]..Last(n, gs, at, j) :
               n[j].deepest + p[at[j] - 1] <= Height(gs, p, i)
        BY <1>1 DEF Measured
      <3>2. i \in 1..L
        <4>1. at[j] \in 1..L /\ Last(n, gs, at, j) \in 1..L
          BY <1>3
        <4> QED BY <4>1
      <3>3. Last(n, hs, at, j) = Last(n, gs, at, j)
        BY <1>2 DEF Last
      <3> QED BY <3>1, <3>2, <3>3, <1>7, <1>8
    <2> QED BY <2>1, <2>2, <2>3, <1>2 DEF Measured
  <1> QED BY <1>4, <1>5, <1>9 DEF Fits

\* A CASE of which only the scan believes that it is open ends outside of all
\* other groups.
LEMMA LooseEnds ==
    ASSUME NEW n \in Seq(Expr), Len(n) >= 1, n[Len(n)].kind = "Statement",
           n[Len(n)].chain = 0, n[Len(n)].inner = 0,
           NEW gs \in Seq(Group),
           \A i \in 1..Len(gs) : gs[i].kind = "Statement" <=> i = 1,
           gs[Len(gs)].kind = "Case",
           Fits(n, gs, Len(gs) + 1, 0)
    PROVE  Len(gs) > 1 /\ Fits(n, gs, Len(gs), 0)
  <1> DEFINE m == Len(n)
             L == Len(gs)
  <1>1. PICK at, p : /\ Tally(gs, p) /\ Matched(n, gs, at, L + 1)
                     /\ Measured(n, gs, at, p, L + 1, 0)
    BY DEF Fits
  <1>2. /\ m \in Nat /\ m \in 1..m /\ L \in Nat /\ L \in 1..L
        /\ at[m] \in 1..L /\ gs[at[m]].kind = "Statement" /\ at[m] = 1
        /\ \A j \in 1..m : at[j] \in 1..L /\ at[j] <= at[m]
    <2>1. m \in Nat /\ m \in 1..m
      BY LenProperties
    <2>2. \A j \in 1..m : at[j] \in 1..L /\ at[j] <= at[m]
      BY <1>1, <2>1, Spots
    <2>3. at[m] \in 1..L /\ gs[at[m]].kind = "Statement"
      BY <2>1, <2>2, <1>1, OnTop
    <2>4. L \in Nat /\ L \in 1..L
      BY <2>3, LenProperties
    <2> QED BY <2>1, <2>2, <2>3, <2>4
  <1>3. L > 1
    BY <1>2
  <1>4. Matched(n, gs, at, L)
    <2>1. L \in 1..(L + 1) /\ at[m] < L
      BY <1>2, <1>3
    <2>2. \A i \in 1..(L - 1) : i \in 1..(L + 1 - 1)
      BY <1>2
    <2> QED BY <2>1, <2>2, <1>1 DEF Matched
  <1>5. Owed(n, at, p, m) + 0 <= p[L - 1]
    <2>1. p[0] = 0 /\ p[L - 1] \in Nat
      <3>1. L - 1 \in 0..L
        BY <1>2
      <3> QED BY <3>1, <1>1 DEF Tally
    <2>2. at[m] - 1 = 0
      BY <1>2
    <2> QED BY <2>1, <2>2 DEF Owed
  <1>6. Measured(n, gs, at, p, L, 0)
    <2>1. \A j \in 1..(m - 1) :
             Owed(n, at, p, j) + Carried(n[j + 1]) <= p[at[j + 1] - 1]
      BY <1>1 DEF Measured
    <2>2. \A j \in 1..m : \E i \in at[j]..Last(n, gs, at, j) :
             n[j].deepest + p[at[j] - 1] <= Height(gs, p, i)
      BY <1>1 DEF Measured
    <2> QED BY <2>1, <2>2, <1>2, <1>5 DEF Measured
  <1> QED BY <1>1, <1>3, <1>4, <1>6 DEF Fits

\* The groups when the one on top has closed (close_group).
LEMMA PoppedGroups ==
    ASSUME NEW gs \in Seq(Group), Len(gs) > 1
    PROVE  LET hs == Popped(gs)
               L == Len(gs)
           IN  /\ hs \in Seq(Group) /\ Len(hs) = L - 1
               /\ \A i \in 1..(L - 2) : hs[i] = gs[i]
               /\ \A i \in 1..(L - 1) :
                     /\ hs[i].kind = gs[i].kind /\ hs[i].splits = gs[i].splits
                     /\ hs[i].longest = gs[i].longest
                     /\ hs[i].finished = gs[i].finished
                     /\ gs[i].current <= hs[i].current
               /\ hs[L - 1].current = gs[L - 1].current + Chain(gs[L])
  <1> DEFINE hs == Popped(gs)
             L == Len(gs)
             c == Chain(gs[L])
             g == gs[L - 1]
             h == [g EXCEPT !.current = @ + c]
  <1>1. /\ L \in Nat /\ L >= 2 /\ L - 1 \in 1..L /\ L \in 1..L /\ L - 1 \in Nat
        /\ L - 1 \in 1..(L - 1)
    BY LenProperties
  <1>2. \A i \in 1..L : gs[i] \in Group
    BY ElementOfSeq
  <1>3. g \in Group /\ c \in Nat /\ g.current \in Nat
    BY <1>1, <1>2, GroupTypes DEF Group
  <1> HIDE DEF c, g
  <1>4. /\ h \in Group /\ h.kind = g.kind /\ h.splits = g.splits
        /\ h.longest = g.longest /\ h.finished = g.finished
        /\ h.current = g.current + c /\ g.current <= h.current
    <2>1. h \in Group
      BY <1>3, GroupTypes
    <2>2. /\ h.kind = g.kind /\ h.splits = g.splits
          /\ h.longest = g.longest /\ h.finished = g.finished
          /\ h.current = g.current + c
      BY <1>3 DEF Group
    <2>3. g.current <= g.current + c
      <3> DEFINE u == g.current
      <3>1. u \in Nat /\ c \in Nat
        BY <1>3
      <3> HIDE DEF u
      <3>2. u <= u + c
        BY <3>1
      <3> QED BY <3>2 DEF u
    <2> HIDE DEF h
    <2> QED BY <2>1, <2>2, <2>3
  <1> HIDE DEF h
  <1>5. hs = [i \in 1..(L - 1) |-> IF i = L - 1 THEN h ELSE gs[i]]
    BY DEF Popped, h, c, g
  <1> HIDE DEF hs
  <1>6. hs \in [1..(L - 1) -> Group]
    <2>1. \A i \in 1..(L - 1) : i \in 1..L
      BY <1>1
    <2> QED BY <2>1, <1>2, <1>4, <1>5
  <1>7. hs \in Seq(Group) /\ Len(hs) = L - 1
    BY <1>1, <1>6, SequenceOf
  <1>8. \A i \in 1..(L - 2) : hs[i] = gs[i]
    BY <1>1, <1>5
  <1>9. hs[L - 1] = h
    BY <1>1, <1>5
  <1>10. \A i \in 1..(L - 1) :
            /\ hs[i].kind = gs[i].kind /\ hs[i].splits = gs[i].splits
            /\ hs[i].longest = gs[i].longest
            /\ hs[i].finished = gs[i].finished
            /\ gs[i].current <= hs[i].current
    <2> SUFFICES ASSUME NEW i \in 1..(L - 1)
                 PROVE  /\ hs[i].kind = gs[i].kind /\ hs[i].splits = gs[i].splits
                        /\ hs[i].longest = gs[i].longest
                        /\ hs[i].finished = gs[i].finished
                        /\ gs[i].current <= hs[i].current
      OBVIOUS
    <2>1. CASE i = L - 1
      BY <2>1, <1>4, <1>9 DEF g
    <2>2. CASE i # L - 1
      <3>1. i \in 1..(L - 2) /\ i \in 1..L
        BY <2>2, <1>1
      <3>2. gs[i].current \in Nat
        BY <3>1, <1>2 DEF Group
      <3> QED BY <3>1, <3>2, <1>8
    <2> QED BY <2>1, <2>2
  <1> QED BY <1>4, <1>7, <1>8, <1>9, <1>10 DEF hs, g, c

\* The chain of the closed group counts in the one around it.
LEMMA PoppedTally ==
    ASSUME NEW gs \in Seq(Group), Len(gs) > 1, NEW p, Tally(gs, p)
    PROVE  \E s : /\ Tally(Popped(gs), s)
                  /\ \A k \in 0..(Len(gs) - 2) : s[k] = p[k]
                  /\ s[Len(gs) - 1] = Height(gs, p, Len(gs))
                  /\ \A i \in 1..(Len(gs) - 1) :
                        Height(gs, p, i) <= Height(Popped(gs), s, i)
                  /\ Height(gs, p, Len(gs))
                        <= Height(Popped(gs), s, Len(gs) - 1)
  <1> DEFINE hs == Popped(gs)
             L == Len(gs)
             c == Chain(gs[L])
             M == L - 1
             s == [k \in 0..M |-> IF k = M THEN p[M] + c ELSE p[k]]
  <1>1. /\ L \in Nat /\ L >= 2 /\ M \in 1..L /\ L \in 1..L /\ M \in Nat
        /\ M \in 1..M /\ M \in 0..L /\ M - 1 \in 0..L /\ L - 2 = M - 1
        /\ M - 1 # M
    BY LenProperties
  <1>2. /\ hs \in Seq(Group) /\ Len(hs) = M
        /\ \A i \in 1..(L - 2) : hs[i] = gs[i]
        /\ \A i \in 1..M : /\ hs[i].longest = gs[i].longest
                           /\ gs[i].current <= hs[i].current
        /\ hs[M].current = gs[M].current + c
    BY PoppedGroups
  <1>3. /\ p \in [0..L -> Nat] /\ p[0] = 0
        /\ \A i \in 1..L : p[i] <= p[i - 1] + gs[i].current
        /\ \A i, j \in 0..L : i <= j => p[i] <= p[j]
    BY DEF Tally
  <1>4. /\ c \in Nat /\ p[M] \in Nat /\ p[M - 1] \in Nat
        /\ gs[M].current \in Nat /\ p[M] <= p[M - 1] + gs[M].current
        /\ Height(gs, p, L) = p[M] + c
    BY <1>1, GroupNumbers
  <1> HIDE DEF hs, c, M
  <1>5. s \in [0..M -> Nat]
    <2>1. \A k \in 0..M : k \in 0..L
      BY <1>1
    <2> QED BY <2>1, <1>3, <1>4
  <1>6. s[M] = p[M] + c /\ \A k \in 0..(M - 1) : s[k] = p[k]
    BY <1>1
  <1> HIDE DEF s
  <1>7. s[M] <= s[M - 1] + hs[M].current
    <2>1. s[M - 1] = p[M - 1]
      BY <1>1, <1>6
    <2>2. hs[M].current = gs[M].current + c
      BY <1>2
    <2> DEFINE u == p[M]
               v == p[M - 1]
               w == gs[M].current
    <2>3. u \in Nat /\ v \in Nat /\ w \in Nat /\ u <= v + w
      BY <1>4
    <2> HIDE DEF u, v, w
    <2>4. u + c <= v + (w + c)
      BY <2>3, <1>4
    <2> QED BY <2>1, <2>2, <2>4, <1>6 DEF u, v, w
  <1>8. Tally(hs, s)
    <2>1. ASSUME NEW i \in 1..M PROVE s[i] <= s[i - 1] + hs[i].current
      <3>1. CASE i = M
        BY <3>1, <1>7
      <3>2. CASE i # M
        <4>1. i \in 1..(L - 2) /\ i \in 0..(M - 1) /\ i - 1 \in 0..(M - 1)
              /\ i \in 1..L
          BY <3>2, <1>1
        <4>2. s[i] = p[i] /\ s[i - 1] = p[i - 1] /\ hs[i] = gs[i]
          BY <4>1, <1>2, <1>6
        <4> QED BY <4>1, <4>2, <1>3
      <3> QED BY <3>1, <3>2
    <2>2. ASSUME NEW i \in 0..M, NEW j \in 0..M, i <= j PROVE s[i] <= s[j]
      <3>0. i \in 0..L /\ j \in 0..L /\ M \in 0..L /\ i <= M
        BY <1>1
      <3>1. CASE i = M
        <4>1. j = M /\ s[M] \in Nat
          BY <3>1, <2>2, <1>1, <1>5
        <4> QED BY <4>1, <3>1
      <3>2. CASE i # M /\ j = M
        <4>1. i \in 0..(M - 1)
          BY <3>2, <1>1
        <4>2. s[i] = p[i] /\ p[i] <= p[M] /\ p[i] \in Nat
          BY <4>1, <3>0, <1>3, <1>6
        <4> QED BY <3>2, <4>2, <1>4, <1>6
      <3>3. CASE i # M /\ j # M
        <4>1. i \in 0..(M - 1) /\ j \in 0..(M - 1)
          BY <3>3, <1>1
        <4> QED BY <4>1, <3>0, <2>2, <1>3, <1>6
      <3> QED BY <3>1, <3>2, <3>3
    <2>3. s[0] = 0
      <3>1. 0 \in 0..(M - 1)
        BY <1>1
      <3> QED BY <3>1, <1>3, <1>6
    <2> QED BY <2>1, <2>2, <2>3, <1>2, <1>5 DEF Tally
  <1>9. ASSUME NEW i \in 1..M PROVE Height(gs, p, i) <= Height(hs, s, i)
    <2>1. i - 1 \in 0..(M - 1) /\ i \in 1..L /\ i \in 1..Len(hs)
      BY <1>1, <1>2
    <2>2. s[i - 1] = p[i - 1] /\ p[i - 1] \in Nat
      BY <2>1, <1>6, GroupNumbers
    <2>3. /\ gs[i].longest \in Nat /\ gs[i].current \in Nat
          /\ hs[i].longest \in Nat /\ hs[i].current \in Nat
      BY <2>1, <1>2, <1>8, GroupNumbers
    <2>4. hs[i].longest = gs[i].longest /\ gs[i].current <= hs[i].current
      BY <1>2
    <2>5. Chain(gs[i]) <= Chain(hs[i])
      BY <2>3, <2>4 DEF Chain, Larger
    <2>6. Chain(gs[i]) \in Nat /\ Chain(hs[i]) \in Nat
      BY <2>1, <1>2, <1>8, GroupNumbers
    <2> QED BY <2>2, <2>5, <2>6 DEF Height
  <1>10. Height(gs, p, L) <= Height(hs, s, M)
    <2>1. M \in 1..Len(hs)
      BY <1>1, <1>2
    <2>2. s[M] <= Height(hs, s, M)
      BY <2>1, <1>2, <1>8, GroupNumbers
    <2> QED BY <2>2, <1>4, <1>6
  <1> QED BY <1>1, <1>4, <1>6, <1>8, <1>9, <1>10 DEF hs, M

\* The top group closes above the one that the innermost expression ends at.
LEMMA Closes ==
    ASSUME NEW n \in Seq(Expr), Len(n) >= 1, NEW gs \in Seq(Group),
           Len(gs) > 1, NEW q \in 1..Len(gs), NEW spare \in Nat,
           Fits(n, gs, q, spare)
    PROVE  Fits(n, Popped(gs), q, spare)
  <1> DEFINE m == Len(n)
             L == Len(gs)
             M == L - 1
             hs == Popped(gs)
  <1>1. PICK at, p : /\ Tally(gs, p) /\ Matched(n, gs, at, q)
                     /\ Measured(n, gs, at, p, q, spare)
    BY DEF Fits
  <1>2. PICK s : /\ Tally(hs, s)
                 /\ \A k \in 0..(L - 2) : s[k] = p[k]
                 /\ s[M] = Height(gs, p, L)
                 /\ \A i \in 1..M : Height(gs, p, i) <= Height(hs, s, i)
                 /\ Height(gs, p, L) <= Height(hs, s, M)
    BY <1>1, PoppedTally
  <1>3. /\ hs \in Seq(Group) /\ Len(hs) = M
        /\ \A i \in 1..M : hs[i].kind = gs[i].kind
                           /\ hs[i].splits = gs[i].splits
    BY PoppedGroups
  <1>4. /\ m \in Nat /\ m \in 1..m /\ L \in Nat /\ L >= 2 /\ M \in Nat
        /\ q \in Nat /\ q <= L /\ q >= 1 /\ M + 1 = L
    BY LenProperties
  <1>5. \A j \in 1..m : /\ at[j] \in 1..L /\ at[j] < q
                        /\ Last(n, gs, at, j) \in 1..L
                        /\ at[j] <= Last(n, gs, at, j)
    BY <1>1, <1>4, Spots
  <1> HIDE DEF hs, M, L
  <1>6. \A j \in 1..m : at[j] \in 1..M /\ at[j] - 1 \in 0..(L - 2)
                        /\ at[j] - 1 \in 0..L
    BY <1>4, <1>5
  <1>7. Matched(n, hs, at, q)
    <2>1. \A j \in 1..m : hs[at[j]].kind = n[j].kind
      BY <1>1, <1>3, <1>6 DEF Matched
    <2>2. \A i \in 1..(q - 1) :
             \/ \E j \in 1..m : at[j] = i
             \/ hs[i].kind = "Case" /\ ~hs[i].splits
      <3>1. \A i \in 1..(q - 1) : i \in 1..M
        BY <1>4
      <3> QED BY <3>1, <1>1, <1>3 DEF Matched
    <2>3. at \in [1..m -> 1..M] /\ q \in 1..(M + 1)
      BY <1>1, <1>4, <1>6 DEF Matched
    <2> QED BY <2>1, <2>2, <2>3, <1>1, <1>3 DEF Matched
  <1>8. \A j \in 1..m : s[at[j] - 1] = p[at[j] - 1] /\ p[at[j] - 1] \in Nat
    <2>1. p \in [0..L -> Nat]
      BY <1>1 DEF Tally, L
    <2> QED BY <2>1, <1>2, <1>6
  <1>9. \A j \in 1..m : Owed(n, at, s, j) = Owed(n, at, p, j)
    BY <1>8 DEF Owed
  <1>10. \A j \in 1..m : /\ Owed(n, at, p, j) + spare \in Nat
                         /\ n[j].deepest + p[at[j] - 1] \in Nat
    <2> SUFFICES ASSUME NEW j \in 1..m
                 PROVE  /\ Owed(n, at, p, j) + spare \in Nat
                        /\ n[j].deepest + p[at[j] - 1] \in Nat
      OBVIOUS
    <2> DEFINE u == p[at[j] - 1]
               v == n[j].chain
               w == n[j].inner
               d == n[j].deepest
    <2>1. u \in Nat /\ v \in Nat /\ w \in Nat /\ d \in Nat
      BY <1>8, ExprNumbers
    <2> HIDE DEF u, v, w, d
    <2>2. v + w + u + spare \in Nat /\ d + u \in Nat
      BY <2>1
    <2> QED BY <2>2 DEF Owed, u, v, w, d
  <1>11. /\ \A i \in 1..L : Height(gs, p, i) \in Nat
         /\ \A i \in 1..M : Height(hs, s, i) \in Nat
    <2>1. \A i \in 1..Len(gs) : Height(gs, p, i) \in Nat
      BY <1>1, GroupNumbers
    <2>2. \A i \in 1..Len(hs) : Height(hs, s, i) \in Nat
      BY <1>2, <1>3, GroupNumbers
    <2> QED BY <2>1, <2>2, <1>3 DEF L
  <1>12. ASSUME NEW x \in Nat, NEW a \in 1..M, NEW i \in a..L,
                x <= Height(gs, p, i)
         PROVE  \E k \in a..M : x <= Height(hs, s, k)
    <2>1. CASE i = L
      <3>1. M \in a..M /\ M \in 1..M /\ L \in 1..L
        BY <1>4
      <3>2. x <= Height(hs, s, M)
        BY SMTT(30), <3>1, <2>1, <1>2, <1>11, <1>12 DEF L
      <3> QED BY <3>1, <3>2
    <2>2. CASE i # L
      <3>1. i \in a..M /\ i \in 1..M /\ i \in 1..L
        BY <2>2, <1>4
      <3>2. x <= Height(hs, s, i)
        BY <3>1, <1>2, <1>11, <1>12
      <3> QED BY <3>1, <3>2
    <2> QED BY <2>1, <2>2
  <1>13. Measured(n, hs, at, s, q, spare)
    <2>1. \A j \in 1..(m - 1) :
             Owed(n, at, s, j) + Carried(n[j + 1]) <= s[at[j + 1] - 1]
      <3>1. \A j \in 1..(m - 1) : j \in 1..m /\ j + 1 \in 1..m
        BY <1>4
      <3> QED BY <3>1, <1>1, <1>8, <1>9 DEF Measured
    <2> DEFINE x == Owed(n, at, p, m) + spare
    <2>2. \/ x <= s[q - 1]
          \/ \E k \in q..M : x <= Height(hs, s, k)
      <3>0. x \in Nat
        BY <1>4, <1>10
      <3>1. CASE x <= p[q - 1]
        <4>1. CASE q = L
          <5>1. s[q - 1] = Height(gs, p, L) /\ q - 1 = M
            BY <4>1, <1>2, <1>4 DEF L
          <5>2. p[M] <= Height(gs, p, L) /\ p[M] \in Nat
            <6>1. Len(gs) \in 1..Len(gs) /\ L - 1 = M
              BY <1>4 DEF L
            <6> QED BY SMTT(30), <6>1, <1>1, GroupNumbers DEF L
          <5>3. Height(gs, p, L) \in Nat
            <6>1. L \in 1..L
              BY <1>4
            <6> QED BY <6>1, <1>11
          <5> HIDE DEF x
          <5> QED BY <5>1, <5>2, <5>3, <3>0, <3>1
        <4>2. CASE q # L
          <5>1. q - 1 \in 0..(L - 2)
            BY <4>2, <1>4
          <5> QED BY <5>1, <3>1, <1>2 DEF L
        <4> QED BY <4>1, <4>2
      <3>2. CASE \E i \in q..L : x <= Height(gs, p, i)
        <4>1. PICK i \in q..L : x <= Height(gs, p, i)
          BY <3>2
        <4>2. CASE q = L
          <5>1. i = L
            BY <4>2, <1>4
          <5>2. s[q - 1] = Height(gs, p, L)
            BY <4>2, <1>2, <1>4 DEF L
          <5> QED BY <4>1, <5>1, <5>2
        <4>3. CASE q # L
          <5>1. q \in 1..M
            BY <4>3, <1>4
          <5> HIDE DEF x
          <5> QED BY <5>1, <4>1, <3>0, <1>12
        <4> QED BY <4>2, <4>3
      <3> QED BY <3>1, <3>2, <1>1 DEF Measured, L
    <2>3. ASSUME NEW j \in 1..m
          PROVE  \E k \in at[j]..Last(n, hs, at, j) :
                    n[j].deepest + s[at[j] - 1] <= Height(hs, s, k)
      <3> DEFINE d == n[j].deepest + p[at[j] - 1]
      <3>1. PICK i \in at[j]..Last(n, gs, at, j) : d <= Height(gs, p, i)
        BY <1>1 DEF Measured
      <3>2. d \in Nat /\ n[j].deepest + s[at[j] - 1] = d
        BY <1>8, <1>10
      <3> HIDE DEF d
      <3>3. CASE j = m
        <4>1. Last(n, gs, at, j) = L /\ Last(n, hs, at, j) = M
          BY <3>3, <1>3 DEF Last, L
        <4>2. at[j] \in 1..M /\ i \in at[j]..L
          BY <4>1, <1>6
        <4>3. \E k \in at[j]..M : d <= Height(hs, s, k)
          BY <4>2, <3>1, <3>2, <1>12
        <4> QED BY <4>1, <4>3, <3>2
      <3>4. CASE j # m
        <4>1. j + 1 \in 1..m
          BY <3>4, <1>4
        <4>2. Last(n, gs, at, j) = at[j + 1] - 1
              /\ Last(n, hs, at, j) = at[j + 1] - 1
          BY <3>4 DEF Last
        <4>3. at[j + 1] \in 1..M /\ at[j] \in 1..M
          BY <4>1, <1>6
        <4>4. i \in 1..M /\ i \in 1..L
          BY <4>2, <4>3, <1>4
        <4>5. d <= Height(hs, s, i)
          BY <4>4, <3>1, <3>2, <1>2, <1>11
        <4> QED BY <4>2, <4>5, <3>2
      <3> QED BY <3>3, <3>4
    <2> QED BY <2>1, <2>2, <2>3, <1>3, <1>4, <1>9 DEF Measured
  <1> QED BY <1>2, <1>7, <1>13 DEF Fits, hs

\* What is left of a height when the statement is finished.
LEMMA CloseHeight ==
    ASSUME NEW gs \in Seq(Group), Len(gs) > 1, NEW d \in Nat,
           \E p : Tally(gs, p) /\ \E i \in 1..Len(gs) : d <= Height(gs, p, i)
    PROVE  \E s : /\ Tally(Popped(gs), s)
                  /\ \E i \in 1..Len(Popped(gs)) : d <= Height(Popped(gs), s, i)
  <1> DEFINE L == Len(gs)
             hs == Popped(gs)
  <1>1. PICK p : Tally(gs, p) /\ \E i \in 1..L : d <= Height(gs, p, i)
    OBVIOUS
  <1>2. PICK i \in 1..L : d <= Height(gs, p, i)
    BY <1>1
  <1>3. PICK s : /\ Tally(hs, s)
                 /\ \A k \in 1..(L - 1) : Height(gs, p, k) <= Height(hs, s, k)
                 /\ Height(gs, p, L) <= Height(hs, s, L - 1)
    BY <1>1, PoppedTally
  <1>4. hs \in Seq(Group) /\ Len(hs) = L - 1 /\ L \in Nat
    BY PoppedGroups, LenProperties
  <1> DEFINE k == IF i = L THEN L - 1 ELSE i
  <1>5. k \in 1..(L - 1) /\ Height(gs, p, i) <= Height(hs, s, k)
    <2>1. CASE i = L
      BY <2>1, <1>3, <1>4
    <2>2. CASE i # L
      <3>1. i \in 1..(L - 1)
        BY <2>2, <1>4
      <3> QED BY <3>1, <2>2, <1>3
    <2> QED BY <2>1, <2>2
  <1>6. Height(gs, p, i) \in Nat /\ Height(hs, s, k) \in Nat
    <2>1. k \in 1..Len(hs)
      BY <1>4, <1>5
    <2> HIDE DEF k
    <2> QED BY <2>1, <1>1, <1>3, <1>4, GroupNumbers
  <1> HIDE DEF k
  <1>7. d <= Height(hs, s, k)
    BY <1>2, <1>5, <1>6
  <1> QED BY <1>3, <1>4, <1>5, <1>7

-----------------------------------------------------------------------------
\* The shape of the groups.

\* What the chain of one group is made of.
GroupShaped(g) ==
    IF g.splits THEN g.longest <= g.finished
                ELSE g.kind = "Case" /\ g.longest <= g.current

\* The group on top changes.
LEMMA ShapedTop ==
    ASSUME NEW gs \in Seq(Group), Len(gs) >= 1, NEW hs, SameBelow(gs, hs),
           hs[Len(gs)].kind = gs[Len(gs)].kind,
           hs[Len(gs)].splits = gs[Len(gs)].splits,
           GroupShaped(gs[Len(gs)]) => GroupShaped(hs[Len(gs)]), Shaped(gs)
    PROVE  Shaped(hs)
  <1> DEFINE L == Len(gs)
  <1>1. L \in Nat /\ L \in 1..L /\ Len(hs) = L
    BY LenProperties DEF SameBelow
  <1>2. \A i \in 1..L : hs[i].kind = gs[i].kind /\ hs[i].splits = gs[i].splits
                        /\ (GroupShaped(gs[i]) => GroupShaped(hs[i]))
    <2> SUFFICES ASSUME NEW i \in 1..L
                 PROVE  /\ hs[i].kind = gs[i].kind /\ hs[i].splits = gs[i].splits
                        /\ GroupShaped(gs[i]) => GroupShaped(hs[i])
      OBVIOUS
    <2>1. CASE i = L
      BY <2>1
    <2>2. CASE i # L
      <3>1. i \in 1..(L - 1)
        BY <2>2, <1>1
      <3>2. hs[i] = gs[i]
        BY <3>1 DEF SameBelow
      <3> QED BY <3>2
    <2> QED BY <2>1, <2>2
  <1>3. \A i \in 1..L : GroupShaped(hs[i])
    BY <1>2 DEF Shaped, GroupShaped
  <1>4. \A i \in 1..(L - 1) : hs[i].kind = "Angle" => hs[i + 1].kind = "Angle"
    <2>1. \A i \in 1..(L - 1) : i \in 1..L /\ i + 1 \in 1..L
      BY <1>1
    <2> QED BY <2>1, <1>2 DEF Shaped
  <1>5. ASSUME NEW i \in 1..L, NEW j \in 1..L, i <= j, hs[i].splits,
               \A k \in i..j : hs[k].kind = "Case"
        PROVE  hs[j].splits
    <2>1. \A k \in i..j : k \in 1..L
      BY <1>1
    <2>2. \A k \in i..j : gs[k].kind = "Case"
      BY <2>1, <1>2, <1>5
    <2>3. gs[i].splits
      BY <1>2, <1>5
    <2>4. gs[j].splits
      BY <2>2, <2>3, <1>5 DEF Shaped
    <2> QED BY <2>4, <1>2
  <1> QED BY <1>1, <1>3, <1>4, <1>5 DEF Shaped, GroupShaped

\* The groups keep their shape when one opens, and when one closes.
LEMMA ShapedPushed ==
    ASSUME NEW gs \in Seq(Group), Len(gs) >= 1, Shaped(gs),
           NEW kind \in GroupKinds,
           gs[Len(gs)].kind = "Angle" => kind = "Angle"
    PROVE  Shaped(Append(gs, NewGroup(kind)))
  <1> DEFINE L == Len(gs)
             g == NewGroup(kind)
             hs == Append(gs, g)
  <1>1. g \in Group /\ g.kind = kind /\ g.splits /\ GroupShaped(g)
    BY GroupTypes DEF NewGroup, GroupShaped
  <1> HIDE DEF g
  <1>2. /\ Len(hs) = L + 1 /\ hs[L + 1] = g /\ L \in Nat /\ L \in 1..L
        /\ \A i \in 1..L : hs[i] = gs[i]
    BY <1>1, AppendProperties, LenProperties
  <1> HIDE DEF hs
  <1>3. \A i \in 1..(L + 1) : i = L + 1 \/ i \in 1..L
    BY <1>2
  <1>4. \A i \in 1..(L + 1) : GroupShaped(hs[i])
    BY <1>1, <1>2, <1>3 DEF Shaped, GroupShaped
  <1>5. ASSUME NEW i \in 1..(L + 1 - 1), hs[i].kind = "Angle"
        PROVE  hs[i + 1].kind = "Angle"
    <2>1. i \in 1..L
      BY <1>2
    <2>2. CASE i = L
      BY <2>1, <2>2, <1>1, <1>2, <1>5
    <2>3. CASE i # L
      <3>1. i \in 1..(L - 1) /\ i + 1 \in 1..L
        BY <2>1, <2>3, <1>2
      <3> QED BY <2>1, <3>1, <1>2, <1>5 DEF Shaped
    <2> QED BY <2>2, <2>3
  <1>6. ASSUME NEW i \in 1..(L + 1), NEW j \in 1..(L + 1), i <= j, hs[i].splits,
               \A k \in i..j : hs[k].kind = "Case"
        PROVE  hs[j].splits
    <2>1. CASE j = L + 1
      BY <2>1, <1>1, <1>2
    <2>2. CASE j # L + 1
      <3>1. i \in 1..L /\ j \in 1..L
        BY <2>2, <1>2, <1>6
      <3>2. \A k \in i..j : k \in 1..L
        BY <3>1, <1>2
      <3>3. gs[i].splits /\ \A k \in i..j : gs[k].kind = "Case"
        BY <3>1, <3>2, <1>2, <1>6
      <3>4. gs[j].splits
        BY <3>1, <3>3, <1>6 DEF Shaped
      <3> QED BY <3>1, <3>4, <1>2
    <2> QED BY <2>1, <2>2
  <1>7. \A i \in 1..(Len(hs) - 1) : i \in 1..(L + 1 - 1)
    BY <1>2
  <1> QED BY <1>2, <1>4, <1>5, <1>6, <1>7 DEF Shaped, GroupShaped, hs, g

LEMMA ShapedPopped ==
    ASSUME NEW gs \in Seq(Group), Len(gs) > 1, Shaped(gs)
    PROVE  Shaped(Popped(gs))
  <1> DEFINE L == Len(gs)
             hs == Popped(gs)
  <1>1. /\ L \in Nat /\ hs \in Seq(Group) /\ Len(hs) = L - 1
        /\ \A i \in 1..(L - 1) :
              /\ hs[i].kind = gs[i].kind /\ hs[i].splits = gs[i].splits
              /\ hs[i].longest = gs[i].longest
              /\ hs[i].finished = gs[i].finished
              /\ gs[i].current <= hs[i].current
    BY PoppedGroups, LenProperties
  <1> HIDE DEF hs
  <1>2. \A i \in 1..(L - 1) : i \in 1..L /\ i \in 1..Len(hs)
    BY <1>1
  <1>3. \A i \in 1..(L - 1) : GroupShaped(hs[i])
    <2> SUFFICES ASSUME NEW i \in 1..(L - 1) PROVE GroupShaped(hs[i])
      OBVIOUS
    <2>1. /\ gs[i].current \in Nat /\ gs[i].longest \in Nat
          /\ hs[i].current \in Nat
      <3>1. gs[i] \in Group /\ hs[i] \in Group
        BY <1>1, <1>2, ElementOfSeq
      <3> QED BY <3>1 DEF Group
    <2>2. GroupShaped(gs[i])
      BY <1>2 DEF Shaped, GroupShaped
    <2> QED BY <2>1, <2>2, <1>1 DEF GroupShaped
  <1>4. \A i \in 1..(L - 1 - 1) : hs[i].kind = "Angle" => hs[i + 1].kind = "Angle"
    <2> SUFFICES ASSUME NEW i \in 1..(L - 1 - 1), hs[i].kind = "Angle"
                 PROVE  hs[i + 1].kind = "Angle"
      OBVIOUS
    <2>1. i \in 1..(L - 1) /\ i + 1 \in 1..(L - 1)
      BY <1>1
    <2>2. gs[i].kind = "Angle"
      BY <2>1, <1>1
    <2>3. gs[i + 1].kind = "Angle"
      BY <2>1, <2>2 DEF Shaped
    <2> QED BY <2>1, <2>3, <1>1
  <1>5. ASSUME NEW i \in 1..(L - 1), NEW j \in 1..(L - 1), i <= j, hs[i].splits,
               \A k \in i..j : hs[k].kind = "Case"
        PROVE  hs[j].splits
    <2>1. \A k \in i..j : k \in 1..(L - 1)
      BY <1>1
    <2>2. gs[i].splits /\ \A k \in i..j : gs[k].kind = "Case"
      BY <2>1, <1>1, <1>5
    <2>3. gs[j].splits
      BY <2>2, <1>2, <1>5 DEF Shaped
    <2> QED BY <2>3, <1>1
  <1> QED BY <1>1, <1>3, <1>4, <1>5 DEF Shaped, GroupShaped, hs

\* The CASEs on top whose segments may all have ended.
TopCases(gs) ==
    {i \in 1..Len(gs) :
        \A j \in i..Len(gs) : gs[j].kind = "Case" /\ gs[j].splits}

Merged(gs) ==
    [i \in 1..Len(gs) |->
        IF i \in TopCases(gs) THEN MergeSegments(gs[i]) ELSE gs[i]]

\* DistrustCaseEnds keeps the shape, and no group counts less.
LEMMA MergedGroups ==
    ASSUME NEW gs \in Seq(Group), Shaped(gs)
    PROVE  LET hs == Merged(gs)
           IN  /\ hs \in Seq(Group) /\ Len(hs) = Len(gs)
               /\ \A i \in 1..Len(gs) :
                     /\ hs[i].kind = gs[i].kind
                     /\ GroupShaped(hs[i])
                     /\ hs[i].splits <=> gs[i].splits /\ i \notin TopCases(gs)
               /\ Widened(gs, hs) /\ Shaped(hs) /\ AllMerged(hs)
  <1> DEFINE L == Len(gs)
             hs == Merged(gs)
  <1>1. L \in Nat /\ \A i \in 1..L : gs[i] \in Group
    BY LenProperties, ElementOfSeq
  <1>2. hs = [i \in 1..L |->
               IF i \in TopCases(gs) THEN MergeSegments(gs[i]) ELSE gs[i]]
    BY DEF Merged
  <1> HIDE DEF hs
  <1>3. hs \in Seq(Group) /\ Len(hs) = L
    <2>1. hs \in [1..L -> Group]
      BY <1>1, <1>2, GroupTypes
    <2> QED BY <2>1, <1>1, SequenceOf
  <1>4. ASSUME NEW i \in 1..L
        PROVE  /\ hs[i].kind = gs[i].kind
               /\ GroupShaped(hs[i])
               /\ hs[i].splits <=> gs[i].splits /\ i \notin TopCases(gs)
               /\ GroupGoesOn(gs[i], hs[i]) /\ gs[i].current <= hs[i].current
    <2>0. gs[i] \in Group /\ GroupShaped(gs[i]) /\ gs[i].splits \in BOOLEAN
      BY <1>1 DEF Shaped, GroupShaped, Group
    <2> DEFINE g == gs[i]
    <2>1. CASE i \in TopCases(gs)
      <3>1. hs[i] = MergeSegments(g)
        BY <2>1, <1>2
      <3>2. g.kind = "Case" /\ g.splits
        BY <2>1, <1>1 DEF TopCases
      <3>3. g.current \in Nat /\ g.longest \in Nat /\ g.finished \in Nat
            /\ g \in Group /\ g.longest <= g.finished
        BY <2>0, <3>2 DEF Group, GroupShaped
      <3> HIDE DEF g
      <3> DEFINE h == MergeSegments(g)
      <3>4. /\ h.kind = g.kind /\ h.splits = FALSE /\ h.longest = g.longest
            /\ h.current = g.current + g.finished
        BY <3>3 DEF MergeSegments, Group
      <3> HIDE DEF h
      <3> DEFINE u == g.current
                 v == g.longest
                 w == g.finished
      <3>5. u <= u + w /\ v <= u + w /\ Larger(v, u) <= Larger(v, u + w)
        <4>1. u \in Nat /\ v \in Nat /\ w \in Nat /\ v <= w
          BY <3>3
        <4> HIDE DEF u, v, w
        <4> QED BY <4>1 DEF Larger
      <3>6. g.current <= h.current /\ h.longest <= h.current
            /\ Chain(g) <= Chain(h)
        BY <3>4, <3>5 DEF Chain
      <3>7. GroupShaped(h) /\ GroupGoesOn(g, h)
        BY <3>2, <3>4, <3>6 DEF GroupShaped, GroupGoesOn
      <3> QED BY <2>1, <3>1, <3>4, <3>6, <3>7 DEF g, h
    <2>2. CASE i \notin TopCases(gs)
      <3>1. hs[i] = g
        BY <2>2, <1>2
      <3>2. g.current \in Nat /\ Chain(g) \in Nat
        BY <2>0, GroupTypes DEF Group
      <3> QED BY <2>0, <2>2, <3>1, <3>2 DEF GroupGoesOn
    <2> QED BY <2>1, <2>2
  <1>5. Widened(gs, hs)
    BY <1>3, <1>4 DEF Widened
  <1>6. Shaped(hs)
    <2>1. \A i \in 1..(L - 1) : hs[i].kind = "Angle" => hs[i + 1].kind = "Angle"
      <3>1. \A i \in 1..(L - 1) : i \in 1..L /\ i + 1 \in 1..L
        BY <1>1
      <3> QED BY <3>1, <1>4 DEF Shaped
    <2>2. ASSUME NEW i \in 1..L, NEW j \in 1..L, i <= j, hs[i].splits,
                 \A k \in i..j : hs[k].kind = "Case"
          PROVE  hs[j].splits
      <3>1. \A k \in i..j : k \in 1..L /\ gs[k].kind = "Case"
        <4>1. \A k \in i..j : k \in 1..L
          BY <1>1
        <4> QED BY <4>1, <2>2, <1>4
      <3>2. gs[i].splits /\ i \notin TopCases(gs)
        BY <2>2, <1>4
      <3>3. \A k \in i..j : gs[k].splits
        <4> SUFFICES ASSUME NEW k \in i..j PROVE gs[k].splits
          OBVIOUS
        <4>1. \A l \in i..k : l \in i..j
          BY <1>1, <3>1
        <4>2. k \in 1..L /\ i <= k
          BY <3>1
        <4> QED BY <4>1, <4>2, <3>1, <3>2 DEF Shaped
      <3>4. ASSUME j \in TopCases(gs) PROVE FALSE
        <4>1. \A k \in j..L : gs[k].kind = "Case" /\ gs[k].splits
          BY <3>4 DEF TopCases
        <4>2. \A k \in i..L : k \in i..j \/ k \in j..L
          BY <1>1
        <4>3. i \in TopCases(gs)
          BY <4>1, <4>2, <3>1, <3>3 DEF TopCases
        <4> QED BY <4>3, <3>2
      <3>5. gs[j].splits
        <4>1. j \in i..j
          BY <2>2, <1>1
        <4> QED BY <4>1, <3>3
      <3> QED BY <3>4, <3>5, <1>4
    <2> QED BY <2>1, <2>2, <1>3, <1>4 DEF Shaped, GroupShaped
  <1>7. AllMerged(hs)
    <2> SUFFICES ASSUME NEW i \in 1..L, \A k \in i..L : hs[k].kind = "Case"
                 PROVE  ~hs[i].splits
      BY <1>3 DEF AllMerged
    <2>1. \A k \in i..L : k \in 1..L /\ gs[k].kind = "Case"
      <3>1. \A k \in i..L : k \in 1..L
        BY <1>1
      <3> QED BY <3>1, <1>4
    <2>2. ASSUME gs[i].splits PROVE i \in TopCases(gs)
      <3> SUFFICES ASSUME NEW k \in i..L PROVE gs[k].splits
        BY <2>1 DEF TopCases
      <3>1. \A l \in i..k : l \in i..L
        BY <1>1
      <3>2. k \in 1..L /\ i <= k
        BY <2>1
      <3> QED BY <3>1, <3>2, <2>1, <2>2 DEF Shaped
    <2> QED BY <2>2, <1>4
  <1> QED BY <1>3, <1>4, <1>5, <1>6, <1>7 DEF hs

-----------------------------------------------------------------------------
\* One token.

\* The next token of a SQL text may come.
Ready ==
    /\ ScanInv /\ closing = "none"
    /\ NestOK(nest) /\ Lex /\ Shaped(groups)
    /\ Fits(nest, groups, Len(groups) + 1, Spare)

\* What the invariant says of the innermost expression and the top group.
LEMMA ReadyFacts ==
    ASSUME Ready
    PROVE  /\ nest \in Seq(Expr) /\ Len(nest) \in Nat /\ Len(nest) >= 1
           /\ Len(nest) \in 1..Len(nest)
           /\ Current = nest[Len(nest)] /\ Current \in Expr
           /\ groups \in Seq(Group) /\ Len(groups) \in Nat /\ Len(groups) >= 1
           /\ Len(groups) \in 1..Len(groups)
           /\ Top = groups[Len(groups)] /\ Top \in Group
           /\ \A i \in 1..Len(groups) : groups[i].kind = "Statement" <=> i = 1
           /\ Top.kind # Current.kind => Top.kind = "Case"
           /\ Current.kind \in {"Case", "Angle"} => Top.kind = Current.kind
           /\ Len(nest) = 1 => Current.kind = "Statement"
           /\ Spare \in Nat
           /\ Current.kind # "Statement" => Len(nest) >= 2
  <1> DEFINE m == Len(nest)
             L == Len(groups)
  <1>1. nest \in Seq(Expr) /\ m >= 1
    BY DEF Ready, NestOK
  <1>2. m \in Nat /\ m \in 1..m
    BY <1>1, LenProperties
  <1>3. /\ groups \in Seq(Group) /\ L >= 1
        /\ \A i \in 1..L : groups[i].kind = "Statement" <=> i = 1
    BY DEF Ready, ScanInv, Stacked
  <1>4. L \in Nat /\ L \in 1..L
    BY <1>3, LenProperties
  <1>5. Current = nest[m] /\ Current \in Expr /\ Top = groups[L] /\ Top \in Group
    BY <1>1, <1>2, <1>3, <1>4, ElementOfSeq DEF Current, Top
  <1>6. Spare \in Nat
    BY DEF Spare
  <1>7. PICK at, p : /\ Matched(nest, groups, at, L + 1)
    BY DEF Ready, Fits
  <1>8. /\ groups[at[m]].kind = nest[m].kind /\ at[m] \in 1..L
        /\ \A i \in 1..L : i > at[m] => groups[i].kind = "Case"
    BY <1>1, <1>3, <1>7, OnTop
  <1>9. at[m] # L => L > at[m] /\ at[m] \in 1..(L - 1)
    BY <1>4, <1>8
  <1>10. Top.kind # Current.kind => Top.kind = "Case"
    BY <1>4, <1>5, <1>8, <1>9
  <1>11. Current.kind = "Case" => Top.kind = "Case"
    BY <1>10
  <1>12. Current.kind = "Angle" => Top.kind = "Angle"
    <2> SUFFICES ASSUME Current.kind = "Angle" PROVE Top.kind = "Angle"
      OBVIOUS
    <2>1. CASE at[m] = L
      BY <2>1, <1>5, <1>8
    <2>2. CASE at[m] # L
      <3>1. at[m] + 1 \in 1..L /\ at[m] + 1 > at[m]
        BY <2>2, <1>4, <1>8, <1>9
      <3>2. groups[at[m] + 1].kind = "Angle"
        BY <2>2, <1>5, <1>8, <1>9 DEF Ready, Shaped
      <3> QED BY <3>1, <3>2, <1>8
    <2> QED BY <2>1, <2>2
  <1>13. m = 1 => Current.kind = "Statement"
    <2>1. at[1] = 1
      BY <1>7 DEF Matched
    <2> QED BY <2>1, <1>3, <1>5, <1>8
  <1>14. Current.kind # "Statement" => m >= 2
    <2>1. m # 1 => m >= 2
      <3>1. m >= 1
        BY <1>1
      <3> HIDE DEF m
      <3> QED BY <1>2, <3>1
    <2> QED BY <1>13, <2>1
  <1>15. Current.kind \in {"Case", "Angle"} => Top.kind = Current.kind
    BY <1>11, <1>12
  <1>16. L >= 1 /\ m >= 1
    BY <1>1, <1>3
  <1> HIDE DEF m, L
  <1>17. /\ nest \in Seq(Expr) /\ m \in Nat /\ m >= 1 /\ m \in 1..m
         /\ Current = nest[m] /\ Current \in Expr
         /\ m = 1 => Current.kind = "Statement"
         /\ Current.kind # "Statement" => m >= 2
    BY <1>1, <1>2, <1>5, <1>13, <1>14, <1>16
  <1>18. /\ groups \in Seq(Group) /\ L \in Nat /\ L >= 1 /\ L \in 1..L
         /\ Top = groups[L] /\ Top \in Group
         /\ \A i \in 1..L : groups[i].kind = "Statement" <=> i = 1
    BY <1>3, <1>4, <1>5, <1>16
  <1> QED BY <1>6, <1>10, <1>15, <1>17, <1>18 DEF m, L

\* What the token adds to the count.
Counts(t) == IF IsInfix(t) THEN 1 ELSE 0

\* An infix operator counts in the group on top.
LEMMA CountedGroups ==
    ASSUME NEW t, groups \in Seq(Group), Len(groups) >= 1
    PROVE  LET gs == Counted(t)
               L == Len(groups)
           IN  /\ gs \in Seq(Group) /\ SameBelow(groups, gs)
               /\ gs[L].kind = groups[L].kind /\ gs[L].splits = groups[L].splits
               /\ groups[L].current + Counts(t) <= gs[L].current
               /\ Counts(t) \in Nat
               /\ GroupGoesOn(groups[L], gs[L])
               /\ GroupShaped(groups[L]) => GroupShaped(gs[L])
               /\ \A i \in 1..L : gs[i].kind = groups[i].kind
               /\ Shaped(groups) => Shaped(gs)
  <1> DEFINE gs == Counted(t)
             L == Len(groups)
             g == groups[L]
             h == [g EXCEPT !.current = @ + 1]
  <1>1. L \in Nat /\ L \in 1..L /\ g \in Group
    BY LenProperties, ElementOfSeq
  <1>2. g.current \in Nat /\ g.longest \in Nat /\ g.finished \in Nat
        /\ Chain(g) \in Nat
    BY <1>1, GroupTypes DEF Group
  <1>3. /\ gs \in Seq(Group) /\ SameBelow(groups, gs)
        /\ gs[L].kind = g.kind /\ gs[L].splits = g.splits
        /\ g.current + Counts(t) <= gs[L].current
        /\ GroupGoesOn(g, gs[L])
        /\ GroupShaped(g) => GroupShaped(gs[L])
    <2>1. CASE IsInfix(t)
      <3> HIDE DEF g
      <3>1. h \in Group
        BY <1>1, GroupTypes
      <3>2. /\ h.kind = g.kind /\ h.splits = g.splits
            /\ h.longest = g.longest /\ h.finished = g.finished
            /\ h.current = g.current + 1
        BY <1>1 DEF Group
      <3> HIDE DEF h
      <3>3. gs = [groups EXCEPT ![L] = h]
        BY <2>1 DEF Counted, h, g
      <3>4. gs \in Seq(Group) /\ Len(gs) = L /\ gs[L] = h
            /\ \A i \in 1..L : i # L => gs[i] = groups[i]
        BY <3>1, <3>3, <1>1, ExceptSeq
      <3> HIDE DEF gs
      <3>5. SameBelow(groups, gs)
        <4>1. \A i \in 1..(L - 1) : i \in 1..L /\ i # L
          BY <1>1
        <4> QED BY <4>1, <3>4 DEF SameBelow
      <3>6. Chain(g) <= Chain(h)
        BY <3>2, <1>2 DEF Chain, Larger
      <3>7. GroupGoesOn(g, h)
        BY <3>2, <3>6 DEF GroupGoesOn
      <3>8. GroupShaped(g) => GroupShaped(h)
        BY <3>2, <1>2 DEF GroupShaped
      <3>9. g.current + Counts(t) <= h.current
        BY <2>1, <3>2, <1>2 DEF Counts
      <3> QED BY <3>2, <3>4, <3>5, <3>7, <3>8, <3>9
    <2>2. CASE ~IsInfix(t)
      <3>1. gs = groups /\ Counts(t) = 0
        BY <2>2 DEF Counted, Counts
      <3>2. SameBelow(groups, groups)
        BY DEF SameBelow
      <3>3. GroupGoesOn(g, g)
        BY <1>2 DEF GroupGoesOn
      <3> HIDE DEF gs
      <3> QED BY <3>1, <3>2, <3>3, <1>2
    <2> QED BY <2>1, <2>2
  <1>4. \A i \in 1..L : gs[i].kind = groups[i].kind
    <2> SUFFICES ASSUME NEW i \in 1..L PROVE gs[i].kind = groups[i].kind
      OBVIOUS
    <2>1. CASE i = L
      BY <2>1, <1>3
    <2>2. CASE i # L
      <3>1. i \in 1..(L - 1)
        BY <2>2, <1>1
      <3> QED BY <3>1, <1>3 DEF SameBelow
    <2> QED BY <2>1, <2>2
  <1>5. Counts(t) \in Nat
    BY DEF Counts
  <1>6. Shaped(groups) => Shaped(gs)
    BY <1>3, ShapedTop
  <1> QED BY <1>3, <1>4, <1>5, <1>6

\* f owes what was counted, and what it owed before.
Afforded(t, f, rest) ==
    f.chain + f.inner + rest
        <= Current.chain + Current.inner + Spare + Counts(t)

\* The innermost expression is replaced.
LEMMA Places ==
    ASSUME nest \in Seq(Expr), Len(nest) >= 1, NEW f \in Expr
    PROVE  /\ InPlace(f) \in Seq(Expr) /\ Len(InPlace(f)) = Len(nest)
           /\ InPlace(f)[Len(nest)] = f /\ SameBelow(nest, InPlace(f))
           /\ f = Current => InPlace(f) = nest
  <1> DEFINE m == Len(nest)
             o == InPlace(f)
  <1>1. m \in Nat /\ m \in 1..m
    BY LenProperties
  <1>2. o \in Seq(Expr) /\ Len(o) = m /\ o[m] = f
        /\ \A i \in 1..m : i # m => o[i] = nest[i]
    BY <1>1, ExceptSeq DEF InPlace
  <1>3. SameBelow(nest, o)
    <2>1. \A i \in 1..(m - 1) : i \in 1..m /\ i # m
      BY <1>1
    <2> QED BY <2>1, <1>2 DEF SameBelow
  <1>4. f = Current => o = nest
    <2>1. nest \in [1..m -> Expr]
      BY LenProperties, SeqDef
    <2> QED BY <2>1 DEF InPlace, Current
  <1> QED BY <1>2, <1>3, <1>4

\* The token is counted, and the innermost expression becomes f.
LEMMA CountedFits ==
    ASSUME Ready, NEW t, NEW f \in Expr, ExprGoesOn(Current, f),
           NEW rest \in Nat,
           f.chain + f.inner + rest = 0 \/ Afforded(t, f, rest)
    PROVE  Fits(InPlace(f), Counted(t), Len(groups) + 1, rest)
  <1> DEFINE gs == Counted(t)
             L == Len(groups)
             e == Current
  <1>1. /\ nest \in Seq(Expr) /\ Len(nest) >= 1 /\ e = nest[Len(nest)]
        /\ groups \in Seq(Group) /\ L >= 1 /\ Spare \in Nat /\ L \in Nat
    BY ReadyFacts
  <1>2. /\ gs \in Seq(Group) /\ SameBelow(groups, gs)
        /\ groups[L].current + Counts(t) <= gs[L].current
        /\ Counts(t) \in Nat /\ GroupGoesOn(groups[L], gs[L])
    BY <1>1, CountedGroups
  <1> DEFINE o == InPlace(f)
  <1>3. o \in Seq(Expr) /\ SameBelow(nest, o) /\ o[Len(nest)] = f
    BY <1>1, Places
  <1>4. Paid(nest[Len(nest)], o[Len(nest)], groups[L], gs[L], Spare, rest)
    <2>1. Paid(e, f, groups[L], gs[L], Spare, rest)
      BY <1>2 DEF Paid, Afforded
    <2> QED BY <2>1, <1>1, <1>3
  <1>5. Fits(nest, groups, L + 1, Spare)
    BY DEF Ready
  <1>6. ExprGoesOn(nest[Len(nest)], o[Len(nest)])
    BY <1>1, <1>3
  <1> HIDE DEF o, gs
  <1>7. Fits(o, gs, Len(gs) + 1, rest)
    BY <1>1, <1>2, <1>3, <1>4, <1>5, <1>6, TopChanges
  <1>8. Len(gs) = L
    BY <1>2 DEF SameBelow
  <1> QED BY <1>7, <1>8 DEF o, gs

\* Where a step that closes no group leaves the groups.
Settled(n, rest) ==
    /\ closing' = "none" /\ groups' \in Seq(Group) /\ Shaped(groups')
    /\ Fits(n, groups', Len(groups') + 1, rest)

\* The steps that close no group: a token is passed, a segment ends, CASEs
\* are no longer trusted to have ended, a group opens.
LEMMA PassFits ==
    ASSUME Ready, NEW t, Pass(t), NEW f \in Expr, ExprGoesOn(Current, f),
           NEW rest \in Nat,
           f.chain + f.inner + rest = 0 \/ Afforded(t, f, rest)
    PROVE  Settled(InPlace(f), rest)
  <1>1. groups' = Counted(t) /\ closing' = "none"
    BY DEF Pass, Ready
  <1>2. groups \in Seq(Group) /\ Len(groups) >= 1 /\ Shaped(groups)
    BY ReadyFacts DEF Ready
  <1>3. /\ Counted(t) \in Seq(Group) /\ Shaped(Counted(t))
        /\ Len(Counted(t)) = Len(groups)
    BY <1>2, CountedGroups DEF SameBelow
  <1>4. Fits(InPlace(f), Counted(t), Len(groups) + 1, rest)
    BY CountedFits
  <1> QED BY <1>1, <1>3, <1>4 DEF Settled

LEMMA SplitFits ==
    ASSUME Ready, NEW t, Split(t), NEW f \in Expr, ExprGoesOn(Current, f),
           NEW rest \in Nat, f.chain + f.inner + rest = 0
    PROVE  Settled(InPlace(f), rest)
  <1> DEFINE L == Len(groups)
             g == groups[L]
             h == EndSegment(g)
             hs == [groups EXCEPT ![L] = h]
             o == InPlace(f)
  <1>1. groups' = hs /\ closing' = "none"
    BY DEF Split, Ready
  <1>2. /\ groups \in Seq(Group) /\ L >= 1 /\ L \in 1..L /\ L \in Nat
        /\ g \in Group /\ Shaped(groups)
        /\ nest \in Seq(Expr) /\ Len(nest) >= 1 /\ Current = nest[Len(nest)]
        /\ Spare \in Nat
    BY ReadyFacts DEF Ready, Top
  <1>3. h \in Group
    BY <1>2, GroupTypes
  <1>4. /\ h.kind = g.kind /\ h.splits = g.splits
        /\ Chain(g) <= Chain(h)
        /\ GroupShaped(g) => GroupShaped(h)
    <2>1. /\ g.current \in Nat /\ g.longest \in Nat /\ g.finished \in Nat
      BY <1>2 DEF Group
    <2>2. CASE ~g.splits
      <3>1. h = g
        BY <2>2 DEF EndSegment
      <3>2. Chain(g) \in Nat
        BY <1>2, GroupTypes
      <3> QED BY <3>1, <3>2
    <2>3. CASE g.splits
      <3> HIDE DEF g
      <3>1. h = [g EXCEPT !.longest = Larger(@, g.current),
                          !.finished = @ + g.current, !.current = 0]
        BY <2>3 DEF EndSegment
      <3>2. /\ h.kind = g.kind /\ h.splits = g.splits /\ h.current = 0
            /\ h.longest = Larger(g.longest, g.current)
            /\ h.finished = g.finished + g.current
        BY <1>2, <3>1 DEF Group
      <3> HIDE DEF h
      <3> QED BY <2>1, <2>3, <3>2 DEF Chain, Larger, GroupShaped
    <2> QED BY <2>2, <2>3
  <1> HIDE DEF h
  <1>5. /\ hs \in Seq(Group) /\ Len(hs) = L /\ hs[L] = h
        /\ \A i \in 1..L : i # L => hs[i] = groups[i]
    BY <1>2, <1>3, ExceptSeq
  <1> HIDE DEF hs
  <1>6. SameBelow(groups, hs)
    <2>1. \A i \in 1..(L - 1) : i \in 1..L /\ i # L
      BY <1>2
    <2> QED BY <2>1, <1>5 DEF SameBelow
  <1>7. Shaped(hs)
    BY <1>2, <1>4, <1>5, <1>6, ShapedTop
  <1>8. GroupGoesOn(groups[L], hs[L])
    BY <1>4, <1>5 DEF GroupGoesOn
  <1>9. o \in Seq(Expr) /\ SameBelow(nest, o) /\ o[Len(nest)] = f
    BY <1>2, Places
  <1> HIDE DEF o
  <1>10. Paid(nest[Len(nest)], o[Len(nest)], groups[L], hs[L], Spare, rest)
    BY <1>9 DEF Paid
  <1>11. Fits(nest, groups, L + 1, Spare)
    BY DEF Ready
  <1>12. ExprGoesOn(nest[Len(nest)], o[Len(nest)])
    BY <1>2, <1>9
  <1>13. Fits(o, hs, Len(hs) + 1, rest)
    BY <1>2, <1>5, <1>6, <1>8, <1>9, <1>10, <1>11, <1>12, TopChanges
  <1> QED BY <1>1, <1>5, <1>7, <1>13 DEF Settled, o

\* The groups that an uncertain END leaves.
LEMMA DistrustGroups ==
    ASSUME Ready, NEW t, DistrustCaseEnds(t)
    PROVE  /\ t = "END" /\ closing' = "none" /\ operand' = "Unknown"
           /\ groups' = Merged(groups) /\ groups' \in Seq(Group)
           /\ Len(groups') = Len(groups) /\ Len(groups') \in Nat
           /\ Shaped(groups') /\ AllMerged(groups')
           /\ Fits(nest, groups', Len(groups') + 1, Spare)
  <1>1. /\ t = "END" /\ closing' = "none" /\ operand' = "Unknown"
        /\ groups' = Merged(groups)
    BY DEF DistrustCaseEnds, MayEndCase, Ready, Merged, TopCases, Distrusted
  <1>2. /\ groups \in Seq(Group) /\ Shaped(groups) /\ Len(groups) \in Nat
        /\ nest \in Seq(Expr) /\ Len(nest) >= 1 /\ Spare \in Nat
    BY ReadyFacts DEF Ready
  <1> DEFINE hs == Merged(groups)
  <1>3. /\ hs \in Seq(Group) /\ Len(hs) = Len(groups)
        /\ Widened(groups, hs) /\ Shaped(hs) /\ AllMerged(hs)
    BY <1>2, MergedGroups
  <1> HIDE DEF hs
  <1>4. Fits(nest, groups, Len(groups) + 1, Spare)
    BY DEF Ready
  <1>5. Fits(nest, hs, Len(groups) + 1, Spare)
    BY <1>2, <1>3, <1>4, Grows
  <1> QED BY <1>1, <1>2, <1>3, <1>5 DEF hs

LEMMA DistrustFits ==
    ASSUME Ready, NEW t, DistrustCaseEnds(t), NEW f \in Expr,
           ExprGoesOn(Current, f), NEW rest \in Nat,
           f.chain + f.inner + rest = 0 \/ Afforded(t, f, rest)
    PROVE  Settled(InPlace(f), rest)
  <1> DEFINE o == InPlace(f)
  <1>1. /\ nest \in Seq(Expr) /\ Len(nest) >= 1 /\ Current = nest[Len(nest)]
        /\ Spare \in Nat /\ Len(groups) >= 1
    BY ReadyFacts
  <1>2. /\ t = "END" /\ closing' = "none" /\ Len(groups') = Len(groups)
        /\ groups' \in Seq(Group) /\ Shaped(groups')
        /\ Fits(nest, groups', Len(groups') + 1, Spare)
    BY DistrustGroups
  <1>3. PICK hs : hs = groups'
    OBVIOUS
  <1>4. hs \in Seq(Group) /\ Len(hs) \in 1..Len(hs) /\ hs[Len(hs)] \in Group
    BY <1>1, <1>2, <1>3, LenProperties, ElementOfSeq
  <1>5. Counts(t) = 0
    BY <1>2 DEF Counts, IsInfix, OperatorSymbols
  <1>6. hs[Len(hs)].current \in Nat /\ Chain(hs[Len(hs)]) \in Nat
    BY <1>4, GroupTypes DEF Group
  <1>7. SameBelow(hs, hs) /\ GroupGoesOn(hs[Len(hs)], hs[Len(hs)])
    BY <1>6 DEF SameBelow, GroupGoesOn
  <1>8. o \in Seq(Expr) /\ SameBelow(nest, o) /\ o[Len(nest)] = f
    BY <1>1, Places
  <1> HIDE DEF o
  <1>9. Paid(nest[Len(nest)], o[Len(nest)], hs[Len(hs)], hs[Len(hs)],
             Spare, rest)
    <2>1. Paid(Current, f, hs[Len(hs)], hs[Len(hs)], Spare, rest)
      <3>1. CASE f.chain + f.inner + rest = 0
        BY <3>1 DEF Paid
      <3>2. CASE Afforded(t, f, rest)
        <4>1. f.chain + f.inner + rest
                <= Current.chain + Current.inner + Spare + 0
          BY <3>2, <1>5 DEF Afforded
        <4>2. hs[Len(hs)].current + 0 <= hs[Len(hs)].current
          BY <1>6
        <4> QED BY <4>1, <4>2 DEF Paid
      <3> QED BY <3>1, <3>2
    <2> QED BY <2>1, <1>1, <1>8
  <1>10. ExprGoesOn(nest[Len(nest)], o[Len(nest)])
    BY <1>1, <1>8
  <1>11. Fits(nest, hs, Len(hs) + 1, Spare)
    BY <1>2, <1>3
  <1>12. Fits(o, hs, Len(hs) + 1, rest)
    BY <1>1, <1>4, <1>7, <1>8, <1>9, <1>10, <1>11, TopChanges
  <1> QED BY <1>2, <1>3, <1>12 DEF Settled, o

\* Something nested opens.
LEMMA OpenFits ==
    ASSUME Ready, NEW t, Open(t), NEW f \in Expr, ExprGoesOn(Current, f),
           NEW x \in Expr, x.kind = GroupOf(t),
           x.chain = 0, x.inner = 0, x.deepest = 0,
           Top.kind = "Angle" => x.kind = "Angle",
           f.chain + f.inner + Carried(x) = 0 \/ Afforded(t, f, Carried(x))
    PROVE  Settled(Append(InPlace(f), x), 0)
  <1> DEFINE gs == Counted(t)
             o == InPlace(f)
             L == Len(groups)
  <1>1. groups' = Append(gs, NewGroup(x.kind)) /\ closing' = "none"
    BY DEF Open, Ready
  <1>2. /\ groups \in Seq(Group) /\ L >= 1 /\ L \in Nat /\ Shaped(groups)
        /\ nest \in Seq(Expr) /\ Len(nest) >= 1 /\ Top = groups[L]
    BY ReadyFacts DEF Ready
  <1>3. /\ gs \in Seq(Group) /\ Shaped(gs) /\ Len(gs) = L
        /\ gs[L].kind = groups[L].kind
    BY <1>2, CountedGroups DEF SameBelow
  <1>4. Carried(x) \in Nat /\ Carried(x) <= Carried(x) /\ x.kind \in GroupKinds
    <2>1. Carried(x) = 0 \/ Carried(x) = 1
      BY DEF Carried
    <2>2. Carried(x) \in Nat /\ Carried(x) <= Carried(x)
      BY <2>1
    <2>3. x.kind \in GroupKinds
      BY DEF Expr
    <2> QED BY <2>2, <2>3
  <1>5. Fits(o, gs, L + 1, Carried(x))
    BY <1>4, CountedFits
  <1>6. o \in Seq(Expr) /\ Len(o) >= 1
    BY <1>2, Places
  <1> HIDE DEF gs, o
  <1>7. Fits(Append(o, x), Append(gs, NewGroup(x.kind)), L + 2, 0)
    BY <1>3, <1>4, <1>5, <1>6, Pushes
  <1>8. Shaped(Append(gs, NewGroup(x.kind)))
    BY <1>2, <1>3, <1>4, ShapedPushed
  <1>9. NewGroup(x.kind) \in Group
    BY <1>4, GroupTypes
  <1>10. /\ Append(gs, NewGroup(x.kind)) \in Seq(Group)
         /\ Len(Append(gs, NewGroup(x.kind))) = L + 1
    BY <1>3, <1>9, AppendProperties
  <1>11. L + 1 + 1 = L + 2
    BY <1>2
  <1>12. Fits(Append(o, x), groups', Len(groups') + 1, 0)
    BY <1>1, <1>7, <1>10, <1>11
  <1> QED BY <1>1, <1>8, <1>10, <1>12 DEF Settled, o

\* Where any step leaves the groups, when a loop may be closing some of them.
Leads(n, rest) ==
    /\ groups' \in Seq(Group) /\ Shaped(groups')
    /\ \E q : Target(groups', closing', q) /\ Fits(n, groups', q, rest)

LEMMA SettledLeads ==
    ASSUME NEW n, NEW rest, Settled(n, rest)
    PROVE  Leads(n, rest)
  <1>1. Target(groups', closing', Len(groups') + 1)
    BY DEF Settled, Target, GroupKinds
  <1> QED BY <1>1 DEF Settled, Leads

\* The groups when a loop starts.
LEMMA ClosingGroups ==
    ASSUME Ready, NEW t, StartClosing(t)
    PROVE  /\ groups' \in Seq(Group) /\ Len(groups') = Len(groups)
           /\ Len(groups') >= 1 /\ Len(groups') \in Nat
           /\ Len(groups') \in 1..Len(groups')
           /\ groups'[1].kind = "Statement" /\ Shaped(groups')
           /\ \A i \in 1..Len(groups') : groups'[i].kind = groups[i].kind
           /\ groups'[Len(groups')].kind = Top.kind
           /\ Fits(nest, groups', Len(groups') + 1, 0)
  <1> DEFINE gs == Counted(t)
             L == Len(groups)
  <1>1. groups' = gs
    BY DEF StartClosing
  <1>2. /\ groups \in Seq(Group) /\ L >= 1 /\ L \in Nat /\ L \in 1..L
        /\ Shaped(groups) /\ Top = groups[L]
        /\ \A i \in 1..L : groups[i].kind = "Statement" <=> i = 1
        /\ nest \in Seq(Expr) /\ Len(nest) >= 1 /\ Current \in Expr
        /\ Current = nest[Len(nest)] /\ Len(nest) \in 1..Len(nest)
        /\ Spare \in Nat
    BY ReadyFacts DEF Ready
  <1>3. /\ gs \in Seq(Group) /\ Shaped(gs) /\ Len(gs) = L
        /\ \A i \in 1..L : gs[i].kind = groups[i].kind
        /\ Counts(t) \in Nat
    BY <1>2, CountedGroups DEF SameBelow
  <1>4. gs[1].kind = "Statement"
    <2>1. 1 \in 1..L
      BY <1>2
    <2> QED BY <2>1, <1>2, <1>3
  <1>5. Fits(nest, gs, L + 1, 0)
    <2>1. /\ Current.chain \in Nat /\ Current.inner \in Nat
          /\ Current.deepest \in Nat /\ Depth(Current) \in Nat
          /\ Current.deepest <= Depth(Current)
      BY <1>2, ExprNumbers
    <2>2. ExprGoesOn(Current, Current)
      BY <2>1 DEF ExprGoesOn
    <2>3. Afforded(t, Current, 0)
      BY <1>2, <1>3, <2>1 DEF Afforded
    <2>4. InPlace(Current) = nest
      BY <1>2, Places
    <2>5. Fits(InPlace(Current), gs, L + 1, 0)
      <3> HIDE DEF gs
      <3>1. Fits(InPlace(Current), Counted(t), L + 1, 0)
        BY <1>2, <2>2, <2>3, CountedFits
      <3> QED BY <3>1 DEF gs
    <2> QED BY <2>4, <2>5
  <1> HIDE DEF gs
  <1> QED BY <1>1, <1>2, <1>3, <1>4, <1>5

\* The steps after which groups close: at a bracket or angle, at END, and at
\* >> two of them.
LEMMA BracketFits ==
    ASSUME Ready, NEW t, StartClosing(t),
           \/ /\ t \in {"rparen", "rbracket", "rbrace"}
              /\ Current.kind = GroupOf(t)
           \/ t = "gt" /\ Current.kind = "Angle",
           NEW rest \in Nat, rest <= Carried(Current)
    PROVE  Leads(Without(nest, 1), rest)
  <1> DEFINE kind == Current.kind
  <1>1. PICK gs : gs = groups'
    OBVIOUS
  <1>2. /\ gs \in Seq(Group) /\ Len(gs) = Len(groups) /\ Len(gs) \in Nat
        /\ gs[1].kind = "Statement" /\ Shaped(gs)
        /\ \A i \in 1..Len(gs) : gs[i].kind = groups[i].kind
        /\ Fits(nest, gs, Len(gs) + 1, 0)
    BY <1>1, ClosingGroups
  <1>3. kind \in {"Paren", "Bracket", "Brace", "Angle"}
    BY DEF GroupOf
  <1>4. /\ nest \in Seq(Expr) /\ Len(nest) >= 2
        /\ Current = nest[Len(nest)]
        /\ groups \in Seq(Group)
    BY <1>3, ReadyFacts
  <1>5. PICK r \in 2..Len(gs) :
           /\ gs[r].kind = kind
           /\ \A i \in (r + 1)..Len(gs) : gs[i].kind # kind
           /\ Fits(Without(nest, 1), gs, r, rest)
    <2>1. kind \notin {"Case", "Statement"} /\ 0 \in Nat
      BY <1>3
    <2> QED BY <1>2, <1>4, <2>1, BracketEnds
  <1>6. closing' = kind
    <2>1. CASE t = "gt"
      BY <2>1 DEF StartClosing, EndsCase
    <2>2. CASE t \in {"rparen", "rbracket", "rbrace"}
      <3>1. closing' = IF open_by_kind[GroupOf(t)] > 0 THEN GroupOf(t)
                                                       ELSE "none"
        BY <2>2 DEF StartClosing, EndsCase
      <3>2. kind = GroupOf(t)
        BY <2>2
      <3>3. r \in Members(groups, kind)
        BY <1>2, <1>5 DEF Members
      <3>4. open_by_kind[kind] = Cardinality(Members(groups, kind))
        BY <1>3 DEF Ready, ScanInv, Stacked, GroupKinds
      <3>5. open_by_kind[kind] \in Nat /\ open_by_kind[kind] # 0
        BY <1>4, <3>3, <3>4, MembersFinite
      <3> HIDE DEF kind
      <3> QED BY <3>1, <3>2, <3>5
    <2> QED BY <2>1, <2>2
  <1>7. Target(gs, kind, r)
    BY <1>3, <1>5 DEF Target, GroupKinds
  <1> QED BY <1>1, <1>2, <1>5, <1>6, <1>7 DEF Leads

\* An END that ends the CASE of the tree.
LEMMA CaseFits ==
    ASSUME Ready, NEW t, StartClosing(t), t = "END", Current.kind = "Case"
    PROVE  Leads(Without(nest, 1), 0)
  <1>1. PICK gs : gs = groups'
    OBVIOUS
  <1>2. /\ gs \in Seq(Group) /\ Len(gs) \in Nat /\ Len(gs) >= 1
        /\ gs[1].kind = "Statement" /\ Shaped(gs)
        /\ gs[Len(gs)].kind = Top.kind
        /\ Fits(nest, gs, Len(gs) + 1, 0)
    BY <1>1, ClosingGroups
  <1>3. /\ nest \in Seq(Expr) /\ Len(nest) >= 2
        /\ nest[Len(nest)].kind = "Case"
        /\ Top.kind = "Case"
    BY ReadyFacts
  <1>4. closing' = "Case"
    BY DEF StartClosing, EndsCase
  <1>5. Fits(Without(nest, 1), gs, Len(gs), 0)
    <2>1. Len(gs) \in {Len(gs), Len(gs) + 1} /\ Len(gs) # Len(gs) + 1
          /\ 0 \in Nat
      BY <1>2
    <2> QED BY <1>2, <1>3, <2>1, CaseEnds
  <1>6. Len(gs) \in 2..Len(gs)
    <2>1. Len(gs) # 1
      BY <1>2, <1>3
    <2>2. PICK k : k = Len(gs)
      OBVIOUS
    <2>3. k \in Nat /\ k >= 1 /\ k # 1
      BY <1>2, <2>1, <2>2
    <2>4. k \in 2..k
      BY <2>3
    <2> QED BY <2>2, <2>4
  <1>7. Target(gs, "Case", Len(gs))
    <2>1. \A i \in (Len(gs) + 1)..Len(gs) : gs[i].kind # "Case"
      BY <1>2
    <2> QED BY <1>2, <1>3, <1>6, <2>1 DEF Target
  <1> QED BY <1>1, <1>2, <1>4, <1>5, <1>7 DEF Leads

\* An END that belongs to no CASE of the tree: the scan closes one that it
\* opened although the parser read a name.
LEMMA LooseFits ==
    ASSUME Ready, NEW t, StartClosing(t), t = "END",
           Current.kind = "Statement", NEW f \in Expr, ExprGoesOn(Current, f),
           f.chain = 0, f.inner = 0
    PROVE  Leads(InPlace(f), 0)
  <1> DEFINE o == InPlace(f)
  <1>1. PICK gs : gs = groups'
    OBVIOUS
  <1>2. /\ gs \in Seq(Group) /\ Len(gs) = Len(groups)
        /\ Len(gs) \in Nat /\ Len(gs) >= 1
        /\ Shaped(gs) /\ gs[Len(gs)].kind = Top.kind
        /\ \A i \in 1..Len(gs) : gs[i].kind = groups[i].kind
        /\ Fits(nest, gs, Len(gs) + 1, 0)
    BY <1>1, ClosingGroups
  <1>3. /\ nest \in Seq(Expr) /\ Len(nest) >= 1
        /\ Current = nest[Len(nest)]
        /\ \A i \in 1..Len(groups) : groups[i].kind = "Statement" <=> i = 1
    BY ReadyFacts
  <1>4. closing' = "Case" /\ Top.kind = "Case"
    BY DEF StartClosing, EndsCase
  <1>5. o \in Seq(Expr) /\ Len(o) = Len(nest) /\ o[Len(nest)] = f
        /\ SameBelow(nest, o)
    BY <1>3, Places
  <1> HIDE DEF o
  <1>6. Fits(o, gs, Len(gs) + 1, 0)
    <2>1. SameBelow(gs, gs) /\ Len(gs) \in 1..Len(gs)
      BY <1>2 DEF SameBelow
    <2>2. Chain(gs[Len(gs)]) \in Nat
      BY <1>2, <2>1, ElementOfSeq, GroupTypes
    <2>3. GroupGoesOn(gs[Len(gs)], gs[Len(gs)])
      BY <2>2 DEF GroupGoesOn
    <2>4. Paid(nest[Len(nest)], o[Len(nest)], gs[Len(gs)], gs[Len(gs)], 0, 0)
      BY <1>5 DEF Paid
    <2>5. ExprGoesOn(nest[Len(nest)], o[Len(nest)]) /\ 0 \in Nat
      BY <1>3, <1>5
    <2> QED BY <1>2, <1>3, <1>5, <2>1, <2>3, <2>4, <2>5, TopChanges
  <1>7. Len(gs) > 1 /\ Fits(o, gs, Len(gs), 0)
    <2>1. /\ Len(o) >= 1 /\ o[Len(o)].kind = "Statement"
          /\ o[Len(o)].chain = 0 /\ o[Len(o)].inner = 0
      BY <1>3, <1>5 DEF ExprGoesOn
    <2>2. /\ \A i \in 1..Len(gs) : gs[i].kind = "Statement" <=> i = 1
          /\ gs[Len(gs)].kind = "Case"
      BY <1>2, <1>3, <1>4
    <2> QED BY <1>2, <1>5, <1>6, <2>1, <2>2, LooseEnds
  <1>8. Target(gs, "Case", Len(gs))
    <2>1. \A i \in (Len(gs) + 1)..Len(gs) : gs[i].kind # "Case"
      BY <1>2
    <2>2. Len(gs) \in 2..Len(gs)
      BY <1>2, <1>7
    <2> QED BY <1>2, <1>4, <2>1, <2>2 DEF Target
  <1> QED BY <1>1, <1>2, <1>4, <1>7, <1>8 DEF Leads, o

\* A >> that closes two structured types.
LEMMA AngleFits ==
    ASSUME Ready, NEW t, StartClosing(t), t = "shr",
           Current.kind = "Angle", nest[Len(nest) - 1].kind = "Angle",
           Len(nest) >= 2
    PROVE  /\ Leads(Without(nest, 2), 1)
           /\ Without(nest, 2) = Without(Without(nest, 1), 1)
           /\ Len(Without(nest, 1)) >= 2
  <1>1. PICK gs : gs = groups'
    OBVIOUS
  <1>2. /\ gs \in Seq(Group) /\ Len(gs) \in Nat
        /\ gs[1].kind = "Statement" /\ Shaped(gs)
        /\ Fits(nest, gs, Len(gs) + 1, 0)
    BY <1>1, ClosingGroups
  <1>3. /\ nest \in Seq(Expr) /\ nest[Len(nest)].kind = "Angle"
        /\ NestOK(nest) /\ 0 \in Nat
    BY ReadyFacts DEF Ready
  <1>4. closing' = "Angles"
    BY DEF StartClosing, EndsCase
  <1>5. /\ Len(gs) - 1 > 1
        /\ gs[Len(gs)].kind = "Angle" /\ gs[Len(gs) - 1].kind = "Angle"
        /\ Fits(Without(nest, 2), gs, Len(gs) - 1, 1)
        /\ Without(nest, 2) = Without(Without(nest, 1), 1)
        /\ Len(Without(nest, 1)) >= 2
    BY <1>2, <1>3, AnglesEnd
  <1>6. Target(gs, "Angles", Len(gs) - 1)
    <2>1. Len(gs) - 1 + 1 = Len(gs)
      BY <1>2
    <2> QED BY <1>5, <2>1 DEF Target, GroupKinds
  <1> QED BY <1>1, <1>2, <1>4, <1>5, <1>6 DEF Leads

\* An END that ends a CASE, of which the scan is not certain.
LEMMA UnsureFits ==
    ASSUME Ready, NEW t, DistrustCaseEnds(t), Current.kind = "Case"
    PROVE  Leads(Without(nest, 1), 0)
  <1>1. PICK gs : gs = groups'
    OBVIOUS
  <1>2. /\ closing' = "none" /\ gs \in Seq(Group) /\ Len(gs) \in Nat
        /\ Shaped(gs) /\ AllMerged(gs)
        /\ Fits(nest, gs, Len(gs) + 1, Spare)
    BY <1>1, DistrustGroups
  <1>3. /\ nest \in Seq(Expr) /\ Len(nest) >= 2
        /\ nest[Len(nest)].kind = "Case" /\ Spare \in Nat
    BY ReadyFacts
  <1>4. Fits(Without(nest, 1), gs, Len(gs) + 1, 0)
    <2>1. Len(gs) + 1 \in {Len(gs), Len(gs) + 1}
      OBVIOUS
    <2> QED BY <1>2, <1>3, <2>1, CaseEnds
  <1>5. Settled(Without(nest, 1), 0)
    BY <1>1, <1>2, <1>4 DEF Settled
  <1> QED BY <1>5, SettledLeads

-----------------------------------------------------------------------------
\* The expressions after a token.

\* The expressions after a step.
LEMMA NestInPlace ==
    ASSUME NestOK(nest), NEW f \in Expr, f.kind = Current.kind,
           f.kind = "Angle" => f.chain = 0 /\ f.inner = 0 /\ f.deepest = 0
    PROVE  /\ NestOK(InPlace(f)) /\ Len(InPlace(f)) = Len(nest)
           /\ InPlace(f)[Len(nest)] = f
  <1> DEFINE m == Len(nest)
             o == InPlace(f)
  <1>1. nest \in Seq(Expr) /\ m >= 1 /\ m \in Nat /\ m \in 1..m
    BY LenProperties DEF NestOK
  <1>2. o \in Seq(Expr) /\ Len(o) = m /\ o[m] = f
        /\ \A i \in 1..m : i # m => o[i] = nest[i]
    BY <1>1, ExceptSeq DEF InPlace
  <1> HIDE DEF o
  <1>3. \A i \in 1..m : o[i].kind = nest[i].kind
    BY <1>2 DEF Current
  <1>4. ASSUME NEW j \in 1..m, o[j].kind = "Angle"
        PROVE  /\ o[j].chain = 0 /\ o[j].inner = 0 /\ o[j].deepest = 0
               /\ j < m => o[j + 1].kind = "Angle"
    <2>1. o[j].chain = 0 /\ o[j].inner = 0 /\ o[j].deepest = 0
      <3>1. CASE j = m
        BY <3>1, <1>2, <1>4
      <3>2. CASE j # m
        BY <3>2, <1>2, <1>4 DEF NestOK
      <3> QED BY <3>1, <3>2
    <2>2. ASSUME j < m PROVE o[j + 1].kind = "Angle"
      <3>1. j + 1 \in 1..m
        BY <2>2, <1>1
      <3>2. nest[j + 1].kind = "Angle"
        BY <2>2, <1>3, <1>4 DEF NestOK
      <3> QED BY <3>1, <3>2, <1>3
    <2> QED BY <2>1, <2>2
  <1> QED BY <1>1, <1>2, <1>4 DEF NestOK, o

\* An expression opens inside the innermost one.
LEMMA NestPushed ==
    ASSUME NEW n, NestOK(n), NEW x \in Expr,
           x.chain = 0, x.inner = 0, x.deepest = 0,
           n[Len(n)].kind = "Angle" => x.kind = "Angle"
    PROVE  /\ NestOK(Append(n, x)) /\ Len(Append(n, x)) = Len(n) + 1
           /\ Append(n, x)[Len(n) + 1] = x
  <1> DEFINE m == Len(n)
             o == Append(n, x)
  <1>1. n \in Seq(Expr) /\ m >= 1 /\ m \in Nat
    BY LenProperties DEF NestOK
  <1>2. /\ o \in Seq(Expr) /\ Len(o) = m + 1 /\ o[m + 1] = x
        /\ \A i \in 1..m : o[i] = n[i]
    BY <1>1, AppendProperties
  <1> HIDE DEF o
  <1>3. ASSUME NEW j \in 1..(m + 1), o[j].kind = "Angle"
        PROVE  /\ o[j].chain = 0 /\ o[j].inner = 0 /\ o[j].deepest = 0
               /\ j < m + 1 => o[j + 1].kind = "Angle"
    <2>1. CASE j = m + 1
      BY <2>1, <1>1, <1>2
    <2>2. CASE j \in 1..m
      <3>1. /\ n[j].chain = 0 /\ n[j].inner = 0 /\ n[j].deepest = 0
            /\ j < m => n[j + 1].kind = "Angle"
        BY <2>2, <1>2, <1>3 DEF NestOK
      <3>2. o[j + 1].kind = "Angle"
        <4>1. CASE j = m
          BY <4>1, <2>2, <1>2, <1>3
        <4>2. CASE j # m
          <5>1. j < m /\ j + 1 \in 1..m
            BY <4>2, <2>2, <1>1
          <5> QED BY <5>1, <3>1, <1>2
        <4> QED BY <4>1, <4>2
      <3> QED BY <3>1, <3>2, <2>2, <1>2
    <2> QED BY <2>1, <2>2, <1>1
  <1>4. m + 1 >= 1
    BY <1>1
  <1> QED BY <1>2, <1>3, <1>4 DEF NestOK, o

\* The innermost expression is left.
LEMMA NestOut ==
    ASSUME NEW n, NestOK(n), Len(n) >= 2
    PROVE  /\ NestOK(Without(n, 1)) /\ Len(Without(n, 1)) = Len(n) - 1
           /\ Without(n, 1)[Len(n) - 1].kind = n[Len(n) - 1].kind
           /\ n[Len(n)].kind # "Angle" => n[Len(n) - 1].kind # "Angle"
  <1> DEFINE m == Len(n)
             o == Without(n, 1)
  <1>1. n \in Seq(Expr) /\ m >= 2 /\ m \in Nat /\ m \in 1..m
        /\ m - 1 \in 1..m /\ m - 1 < m /\ m - 1 + 1 = m /\ m - 1 \in 1..(m - 1)
    BY LenProperties DEF NestOK
  <1>2. /\ o \in Seq(Expr) /\ Len(o) = m - 1
        /\ \A j \in 1..(m - 2) : o[j] = n[j]
        /\ \A j \in 1..(m - 1) :
              /\ o[j].kind = n[j].kind /\ o[j].deepest = n[j].deepest
              /\ o[j].chain = n[j].chain
        /\ o[m - 1].inner \in {n[m - 1].inner, Depth(n[m])}
    BY <1>1, OneOut
  <1> HIDE DEF o
  <1>3. n[m - 1].kind = "Angle" => n[m].kind = "Angle"
    BY <1>1 DEF NestOK
  <1>4. n[m].kind = "Angle" => Depth(n[m]) = 0
    BY <1>1 DEF NestOK, Depth, Larger
  <1>5. ASSUME NEW j \in 1..(m - 1), o[j].kind = "Angle"
        PROVE  /\ o[j].chain = 0 /\ o[j].inner = 0 /\ o[j].deepest = 0
               /\ j < m - 1 => o[j + 1].kind = "Angle"
    <2>1. j \in 1..m /\ n[j].kind = "Angle" /\ j < m
      BY <1>1, <1>2, <1>5
    <2>2. /\ n[j].chain = 0 /\ n[j].inner = 0 /\ n[j].deepest = 0
          /\ n[j + 1].kind = "Angle"
      BY <2>1 DEF NestOK
    <2>3. o[j].chain = 0 /\ o[j].deepest = 0
      BY <2>2, <1>2, <1>5
    <2>4. o[j].inner = 0
      <3>1. CASE j = m - 1
        BY <3>1, <2>1, <2>2, <1>2, <1>3, <1>4
      <3>2. CASE j # m - 1
        <4>1. j \in 1..(m - 2)
          <5>1. m \in Nat /\ j \in 1..(m - 1)
            BY <1>1, <1>5
          <5> HIDE DEF m
          <5> QED BY <3>2, <5>1
        <4> QED BY <4>1, <2>2, <1>2
      <3> QED BY <3>1, <3>2
    <2>5. ASSUME j < m - 1 PROVE o[j + 1].kind = "Angle"
      <3>1. j + 1 \in 1..(m - 1)
        BY <2>5, <1>1
      <3> QED BY <3>1, <2>2, <1>2
    <2> QED BY <2>3, <2>4, <2>5
  <1>6. m - 1 >= 1
    BY <1>1
  <1> QED BY <1>1, <1>2, <1>3, <1>5, <1>6 DEF NestOK, o

LEMMA ExprParts ==
    ASSUME NEW e \in Expr
    PROVE  /\ e.chain \in Nat /\ e.inner \in Nat /\ e.deepest \in Nat
           /\ e.chain + 1 \in Nat
           /\ Depth(e) \in Nat /\ e.deepest <= Depth(e)
           /\ Depth(e) <= Depth(e)
  <1>1. e.chain \in Nat /\ e.inner \in Nat /\ e.deepest \in Nat
    BY DEF Expr
  <1>2. e.chain + e.inner \in Nat /\ e.chain + 1 \in Nat
    BY <1>1
  <1>3. Depth(e) \in Nat /\ e.deepest <= Depth(e)
    BY <1>1, <1>2 DEF Depth, Larger
  <1>4. Depth(e) <= Depth(e)
    BY <1>3
  <1> QED BY <1>1, <1>2, <1>3, <1>4

\* An expression of which the operators are gone, or one more.
LEMMA NewExprs ==
    ASSUME Current \in Expr, NEW part \in {"", "start", "when", "then", "else"}
    PROVE  /\ NextOne(Current, part) \in Expr
           /\ NextOne(Current, part).kind = Current.kind
           /\ NextOne(Current, part).chain = 0
           /\ NextOne(Current, part).inner = 0
           /\ ExprGoesOn(Current, NextOne(Current, part))
           /\ Longer \in Expr /\ Longer.kind = Current.kind
           /\ Longer.chain = Current.chain + 1
           /\ Longer.inner = Current.inner
           /\ ExprGoesOn(Current, Longer)
           /\ ExprGoesOn(Current, Current)
           /\ Current.chain \in Nat /\ Current.inner \in Nat
  <1>1. /\ Current.kind \in GroupKinds
        /\ Current.chain \in Nat /\ Current.inner \in Nat
        /\ Current.deepest \in Nat
    BY DEF Expr
  <1>2. /\ Depth(Current) \in Nat /\ Current.deepest <= Depth(Current)
        /\ Depth(Current) <= Depth(Current)
    BY ExprParts
  <1> DEFINE a == NextOne(Current, part)
  <1>3. /\ a \in Expr /\ a.kind = Current.kind /\ a.chain = 0 /\ a.inner = 0
        /\ a.deepest = Depth(Current)
    <2>1. PICK e \in Expr : e = Current
      OBVIOUS
    <2>2. PICK d \in Nat : d = Depth(Current)
      BY <1>2
    <2>3. a = [e EXCEPT !.deepest = d, !.chain = 0, !.inner = 0, !.part = part]
      BY <2>1, <2>2 DEF NextOne
    <2> HIDE DEF a
    <2>4. /\ a \in Expr /\ a.kind = e.kind /\ a.chain = 0 /\ a.inner = 0
          /\ a.deepest = d
      BY <2>3 DEF Expr
    <2> QED BY <2>1, <2>2, <2>4
  <1>4. /\ Longer \in Expr /\ Longer.kind = Current.kind
        /\ Longer.chain = Current.chain + 1 /\ Longer.inner = Current.inner
        /\ Longer.deepest = Current.deepest
    <2>1. PICK e \in Expr : e = Current
      OBVIOUS
    <2>2. Longer = [e EXCEPT !.chain = @ + 1]
      BY <2>1 DEF Longer
    <2>3. PICK f : f = [e EXCEPT !.chain = @ + 1]
      OBVIOUS
    <2>5. e.chain \in Nat /\ e.chain + 1 \in Nat
      BY <2>1, ExprParts
    <2>4. /\ f \in Expr /\ f.kind = e.kind /\ f.chain = e.chain + 1
          /\ f.inner = e.inner /\ f.deepest = e.deepest
      BY <2>3, <2>5 DEF Expr
    <2> QED BY <2>1, <2>2, <2>3, <2>4
  <1> HIDE DEF a
  <1>5. ExprGoesOn(Current, a) /\ ExprGoesOn(Current, Longer)
        /\ ExprGoesOn(Current, Current)
    BY <1>1, <1>2, <1>3, <1>4 DEF ExprGoesOn
  <1> QED BY <1>1, <1>3, <1>4, <1>5 DEF a

\* Expressions begin with no operator.
LEMMA Fresh ==
    ASSUME NEW kind \in GroupKinds, NEW part \in {"", "start"}
    PROVE  /\ Expression(kind, part) \in Expr
           /\ Expression(kind, part).kind = kind
           /\ Expression(kind, part).chain = 0
           /\ Expression(kind, part).inner = 0
           /\ Expression(kind, part).deepest = 0
  BY DEF Expression, Expr

-----------------------------------------------------------------------------
\* What each kind of token does.

\* What a step has to establish.
LEMMA Arrives ==
    ASSUME NestOK(nest'), Lex', Leads(nest', Spare')
    PROVE  Good'
  BY DEF Good, Leads

\* A token that opens no group and closes none.
Still(t) ==
    /\ ~Opens(t) /\ ~EndsCase(t)
    /\ t \notin {"rparen", "rbracket", "rbrace"}
    /\ t \in {"gt", "shr"} => Top.kind # "Angle"

\* What f owes after t is nothing, or was counted.
Pays(t, f, rest) ==
    \/ f.chain + f.inner + rest = 0
    \/ ~EndsSegment(t) /\ Afforded(t, f, rest)

\* Such a token leaves the groups so, and what it says of the next place.
LEMMA Quiet ==
    ASSUME Ready, NEW t, Step(t), Still(t), NEW f \in Expr,
           ExprGoesOn(Current, f), NEW rest \in Nat, Pays(t, f, rest)
    PROVE  /\ Leads(InPlace(f), rest)
           /\ after_operand' = EndsOperand(t) /\ previous' = PreviousOf(t)
           /\ operand' = "Unknown" \/ operand' = PlaceAfter(t)
           /\ t \notin {"head", "END"} => operand' = PlaceAfter(t)
  <1>1. Pass(t) \/ Split(t) \/ DistrustCaseEnds(t)
    BY DEF Step, Still, Open, StartClosing
  <1>2. Seen(t)
    BY <1>1 DEF Pass, Split, DistrustCaseEnds
  <1>3. after_operand' = EndsOperand(t) /\ previous' = PreviousOf(t)
    BY <1>2 DEF Seen, Still
  <1>4. CASE Pass(t)
    <2>1. Settled(InPlace(f), rest)
      BY <1>4, PassFits DEF Pays
    <2>2. operand' = PlaceAfter(t)
      BY <1>4 DEF Pass
    <2> QED BY <1>3, <2>1, <2>2, SettledLeads
  <1>5. CASE Split(t)
    <2>1. f.chain + f.inner + rest = 0
      BY <1>5 DEF Pays, Split
    <2>2. Settled(InPlace(f), rest)
      BY <1>5, <2>1, SplitFits
    <2>3. operand' = IF t = "head" THEN "Unknown" ELSE PlaceAfter(t)
      BY <1>5 DEF Split
    <2> QED BY <1>3, <2>2, <2>3, SettledLeads
  <1>6. CASE DistrustCaseEnds(t)
    <2>1. Settled(InPlace(f), rest)
      BY <1>6, DistrustFits DEF Pays
    <2>2. operand' = "Unknown" /\ t = "END"
      BY <1>6, DistrustGroups
    <2> QED BY <1>3, <2>1, <2>2, SettledLeads
  <1> QED BY <1>1, <1>4, <1>5, <1>6

\* Where the next token stands, for what the writer emits.
LEMMA PlacesNext ==
    ASSUME NEW t
    PROVE  /\ Opens(t) => PlaceAfter(t) = "Expected"
           /\ t \in {"comma", "period"} => PlaceAfter(t) = "Expected"
           /\ t \in {"operator", "dcolon", "lt", "gt", "shr"} =>
                 PlaceAfter(t) = "Expected"
           /\ Named /\ t \in Words => PlaceAfter(t) = "Complete"
           /\ t \in {"name", "value", "literal"} => PlaceAfter(t) = "Complete"
           /\ ~Named /\ t \in {"keyword", "head", "star", "infix", "set",
                               "constructor", "bang"} =>
                 PlaceAfter(t) = "Unknown"
           /\ ~Named /\ t \in CaseWords /\ operand # "Complete"
                 /\ ~(previous = "CaseStart" /\ t = "WHEN") =>
                 PlaceAfter(t) # "Expected"
           /\ ~Named /\ t \in CaseWords /\ operand = "Unknown"
                 /\ previous # "CaseStart" => PlaceAfter(t) = "Unknown"
           /\ ~Named /\ t \in {"WHEN", "THEN", "ELSE"}
                 /\ operand = "Complete" => PlaceAfter(t) = "Expected"
           /\ ~Named /\ t = "WHEN" /\ previous = "CaseStart"
                 /\ operand = "Expected" => PlaceAfter(t) = "Expected"
  <1> USE DEF PlaceAfter, Opens, Words, CaseWords, OperatorSymbols
  <1>1. Opens(t) => PlaceAfter(t) = "Expected"
    <2>1. ASSUME t = "CASE", ~Named PROVE Opens(t) => PlaceAfter(t) = "Expected"
      BY <2>1
    <2>2. ASSUME t # "CASE" PROVE Opens(t) => PlaceAfter(t) = "Expected"
      BY <2>2
    <2>3. ASSUME t = "CASE", Named PROVE ~Opens(t)
      BY <2>3
    <2> QED BY <2>1, <2>2, <2>3
  <1>2. t \in {"comma", "period"} => PlaceAfter(t) = "Expected"
    OBVIOUS
  <1>3. ASSUME t \in {"operator", "dcolon", "lt", "gt", "shr"}
        PROVE  PlaceAfter(t) = "Expected"
    BY <1>3
  <1>4. ASSUME Named, t \in Words PROVE PlaceAfter(t) = "Complete"
    BY <1>4
  <1>5. ASSUME t \in {"name", "value", "literal"}
        PROVE  PlaceAfter(t) = "Complete"
    BY <1>5
  <1>6. ASSUME ~Named, t \in {"keyword", "head", "star", "infix", "set",
                             "constructor", "bang"}
        PROVE  PlaceAfter(t) = "Unknown"
    BY <1>6
  <1>7. ASSUME ~Named, t \in CaseWords, operand # "Complete",
               ~(previous = "CaseStart" /\ t = "WHEN")
        PROVE  PlaceAfter(t) # "Expected"
    BY <1>7
  <1>8. ASSUME ~Named, t \in CaseWords, operand = "Unknown",
               previous # "CaseStart"
        PROVE  PlaceAfter(t) = "Unknown"
    BY <1>8
  <1>9. ASSUME ~Named, t \in {"WHEN", "THEN", "ELSE"}, operand = "Complete"
        PROVE  PlaceAfter(t) = "Expected"
    BY <1>9
  <1>10. ASSUME ~Named, t = "WHEN", previous = "CaseStart",
                operand = "Expected"
         PROVE  PlaceAfter(t) = "Expected"
    BY <1>10
  <1> QED BY <1>1, <1>2, <1>3, <1>4, <1>5, <1>6, <1>7, <1>8, <1>9, <1>10

\* A token that opens a group.
LEMMA Opening ==
    ASSUME Ready, NEW t, Step(t), Opens(t), NEW f \in Expr,
           ExprGoesOn(Current, f), NEW x \in Expr, x.kind = GroupOf(t),
           x.chain = 0, x.inner = 0, x.deepest = 0,
           Top.kind = "Angle" => x.kind = "Angle",
           Afforded(t, f, Carried(x))
    PROVE  /\ Leads(Append(InPlace(f), x), 0)
           /\ operand' = "Expected"
           /\ previous' = IF t = "CASE" THEN "CaseStart" ELSE "Other"
  <1>1. t \in {"lparen", "lbracket", "lbrace", "lt", "CASE"}
    BY DEF Opens
  <1>2. Open(t)
    <2>1. ~Pass(t)
      BY DEF Pass
    <2>2. ~Split(t)
      BY <1>1 DEF Split, EndsSegment, CaseWords
    <2>3. ~DistrustCaseEnds(t)
      BY <1>1 DEF DistrustCaseEnds, MayEndCase
    <2>4. ~StartClosing(t)
      BY <1>1 DEF StartClosing, EndsCase
    <2> QED BY <2>1, <2>2, <2>3, <2>4 DEF Step
  <1>3. Settled(Append(InPlace(f), x), 0)
    BY <1>2, OpenFits
  <1>4. operand' = "Expected"
    BY <1>2, PlacesNext DEF Open
  <1>5. previous' = IF t = "CASE" THEN "CaseStart" ELSE "Other"
    BY <1>1, <1>2 DEF Open, Seen, PreviousOf
  <1> QED BY <1>3, <1>4, <1>5, SettledLeads

\* What the place says, and what it does not.
LEMMA Standing ==
    ASSUME Ready
    PROVE  /\ operand \in {"Complete", "Expected", "Unknown"}
           /\ place \notin {"member", "type"} => ~Named
           /\ place \notin {"array", "angle"} => previous # "TypeConstructor"
           /\ place # "case" => previous # "CaseStart"
           /\ place \notin {"angle", "field", "type", "typed"} =>
                 Current.kind # "Angle"
           /\ Current.kind # "Angle" => Top.kind # "Angle"
  <1>1. operand \in {"Complete", "Expected", "Unknown"}
    BY DEF Ready, ScanInv, ScanTypeOK
  <1>2. Lex
    BY DEF Ready
  <1>3. Current.kind # "Angle" => Top.kind # "Angle"
    BY ReadyFacts
  <1> QED BY <1>1, <1>2, <1>3 DEF Lex

\* One lemma for each kind of word the writer emits.
LEMMA Operands ==
    ASSUME Ready, AlsoNames = {}, NEW t, Operand(t)
    PROVE  Good'
  <1>1. /\ nest' = nest /\ place' = "after" /\ Step(t)
        /\ t \in {"name", "literal", "value", "THEN", "ELSE", "END",
                  "keyword", "head", "WHEN"}
        /\ place \in {"operand", "opening", "case", "start"}
        /\ place = "start" => t \in {"name", "literal", "value"}
        /\ t = "WHEN" => place = "operand"
    BY DEF Operand, Emit, Wanted
  <1>2. /\ ~Named /\ previous # "TypeConstructor" /\ Current.kind # "Angle"
        /\ operand \in {"Complete", "Expected", "Unknown"}
        /\ t = "WHEN" => previous # "CaseStart"
    BY <1>1, Standing
  <1>3. place # "start" => operand # "Complete"
    BY <1>1 DEF Ready, Lex
  <1>4. Still(t) /\ ~EndsSegment(t)
    BY <1>1, <1>2, <1>3 DEF Still, Opens, EndsCase, EndsSegment, CaseWords
  <1>5. EndsOperand(t) /\ PreviousOf(t) = "Other"
    BY <1>1 DEF EndsOperand, PreviousOf, OperatorSymbols
  <1>6. PlaceAfter(t) # "Expected"
    <2>1. CASE t \in {"name", "literal", "value"}
      BY <2>1, PlacesNext
    <2>2. CASE t = "keyword" \/ t = "head"
      BY <2>2, <1>2, PlacesNext
    <2>3. CASE t \in {"WHEN", "THEN", "ELSE", "END"}
      BY <2>3, <1>1, <1>2, <1>3, PlacesNext DEF CaseWords
    <2> QED BY <1>1, <2>1, <2>2, <2>3
  <1>7. /\ nest \in Seq(Expr) /\ Len(nest) >= 1
        /\ Current \in Expr /\ Spare \in Nat /\ groups \in Seq(Group)
        /\ Len(groups) >= 1
    BY ReadyFacts
  <1>8. /\ ExprGoesOn(Current, Current)
        /\ Current.chain \in Nat /\ Current.inner \in Nat
    BY <1>7, NewExprs
  <1>9. Pays(t, Current, 0)
    <2>1. Counts(t) \in Nat
      BY DEF Counts
    <2> QED BY <1>4, <1>7, <1>8, <2>1 DEF Pays, Afforded
  <1>10. /\ Leads(InPlace(Current), 0)
         /\ after_operand' = EndsOperand(t) /\ previous' = PreviousOf(t)
         /\ operand' = "Unknown" \/ operand' = PlaceAfter(t)
    BY <1>1, <1>4, <1>7, <1>8, <1>9, Quiet
  <1>11. InPlace(Current) = nest
    BY <1>7, Places
  <1>12. NestOK(nest') /\ Current' = Current
    BY <1>1 DEF Ready, Current
  <1>13. Spare' = 0
    BY <1>1, <1>5, <1>10 DEF Spare
  <1>14. Lex'
    BY <1>1, <1>2, <1>5, <1>6, <1>10, <1>12 DEF Lex, Named
  <1> QED BY <1>1, <1>10, <1>11, <1>12, <1>13, <1>14, Arrives

\* A token that opens and closes nothing, and what becomes of the innermost
\* expression.
LEMMA QuietStep ==
    ASSUME Ready, NEW t, Step(t), Still(t), NEW f \in Expr,
           ExprGoesOn(Current, f), nest' = InPlace(f),
           f.kind = "Angle" => f.chain = 0 /\ f.inner = 0 /\ f.deepest = 0,
           NEW rest \in Nat, Pays(t, f, rest)
    PROVE  /\ Leads(nest', rest) /\ NestOK(nest') /\ Current' = f
           /\ after_operand' = EndsOperand(t) /\ previous' = PreviousOf(t)
           /\ operand' = "Unknown" \/ operand' = PlaceAfter(t)
           /\ t \notin {"head", "END"} => operand' = PlaceAfter(t)
  <1>1. /\ Leads(InPlace(f), rest)
        /\ after_operand' = EndsOperand(t) /\ previous' = PreviousOf(t)
        /\ operand' = "Unknown" \/ operand' = PlaceAfter(t)
        /\ t \notin {"head", "END"} => operand' = PlaceAfter(t)
    BY Quiet
  <1>2. f.kind = Current.kind /\ NestOK(nest)
    BY DEF ExprGoesOn, Ready
  <1>3. /\ NestOK(InPlace(f)) /\ Len(InPlace(f)) = Len(nest)
        /\ InPlace(f)[Len(nest)] = f
    BY <1>2, NestInPlace
  <1>4. Current' = f
    BY <1>3 DEF Current
  <1> QED BY <1>1, <1>3, <1>4

LEMMA QuietSame ==
    ASSUME Ready, NEW t, Step(t), Still(t), nest' = nest,
           NEW rest \in Nat, Pays(t, Current, rest)
    PROVE  /\ Leads(nest', rest) /\ NestOK(nest') /\ Current' = Current
           /\ after_operand' = EndsOperand(t) /\ previous' = PreviousOf(t)
           /\ operand' = "Unknown" \/ operand' = PlaceAfter(t)
           /\ t \notin {"head", "END"} => operand' = PlaceAfter(t)
  <1>1. /\ nest \in Seq(Expr) /\ Len(nest) >= 1 /\ Current \in Expr
    BY ReadyFacts
  <1>2. ExprGoesOn(Current, Current)
    BY <1>1, NewExprs
  <1>3. InPlace(Current) = nest
    BY <1>1, Places
  <1>4. /\ Leads(InPlace(Current), rest)
        /\ after_operand' = EndsOperand(t) /\ previous' = PreviousOf(t)
        /\ operand' = "Unknown" \/ operand' = PlaceAfter(t)
        /\ t \notin {"head", "END"} => operand' = PlaceAfter(t)
    BY <1>1, <1>2, Quiet
  <1>5. NestOK(nest') /\ Current' = Current
    BY DEF Ready, Current
  <1> QED BY <1>3, <1>4, <1>5

\* An expression that keeps what it owes, and one that owes nothing.
LEMMA AffordsSame ==
    ASSUME Ready, NEW t
    PROVE  Afforded(t, Current, 0)
  <1>1. Current \in Expr /\ Spare \in Nat
    BY ReadyFacts
  <1>2. Current.chain \in Nat /\ Current.inner \in Nat
    BY <1>1, ExprParts
  <1>3. Counts(t) \in Nat
    BY DEF Counts
  <1> QED BY <1>1, <1>2, <1>3 DEF Afforded

LEMMA PaysSame ==
    ASSUME Ready, NEW t, ~EndsSegment(t)
    PROVE  Pays(t, Current, 0)
  BY AffordsSame DEF Pays

LEMMA PaysNothing ==
    ASSUME NEW t, NEW f, f.chain = 0, f.inner = 0
    PROVE  Pays(t, f, 0)
  BY DEF Pays

\* All columns, or all rows.
LEMMA Wildcards ==
    ASSUME Ready, NEW t, Wildcard(t)
    PROVE  Good'
  <1>1. /\ nest' = nest /\ place' = "row" /\ Step(t) /\ t = "star"
        /\ place \in {"operand", "opening"}
    BY DEF Wildcard, Emit
  <1>2. Current.kind # "Angle"
    BY <1>1, Standing
  <1>3. Still(t) /\ ~EndsSegment(t)
    BY <1>1 DEF Still, Opens, EndsCase, EndsSegment, CaseWords
  <1>4. PreviousOf(t) = "Other"
    BY <1>1 DEF PreviousOf
  <1>5. /\ Leads(nest', 0) /\ NestOK(nest') /\ Current' = Current
        /\ previous' = PreviousOf(t)
    BY <1>1, <1>3, PaysSame, QuietSame
  <1>6. Spare' = 0
    BY <1>1 DEF Spare
  <1>7. Lex'
    BY <1>1, <1>2, <1>4, <1>5 DEF Lex, Named
  <1> QED BY <1>5, <1>6, <1>7, Arrives

\* A sign, or a keyword before an operand.
LEMMA Prefixes ==
    ASSUME Ready, NEW t, Prefix(t)
    PROVE  Good'
  <1>1. /\ nest' = nest /\ place' = "operand" /\ Step(t)
        /\ t \in {"operator", "keyword"}
        /\ place \in {"operand", "opening", "case", "start"}
    BY DEF Prefix, Emit, Wanted
  <1>2. Current.kind # "Angle" /\ ~Named
    BY <1>1, Standing
  <1>3. Still(t) /\ ~EndsSegment(t)
    BY <1>1 DEF Still, Opens, EndsCase, EndsSegment, CaseWords
  <1>4. PreviousOf(t) = "Other"
    BY <1>1 DEF PreviousOf
  <1>5. PlaceAfter(t) # "Complete"
    BY <1>1, <1>2, PlacesNext
  <1>6. /\ Leads(nest', 0) /\ NestOK(nest') /\ Current' = Current
        /\ previous' = PreviousOf(t) /\ operand' = PlaceAfter(t)
    BY <1>1, <1>3, PaysSame, QuietSame
  <1>7. Spare' = 0
    BY <1>1 DEF Spare
  <1>8. Lex'
    BY <1>1, <1>2, <1>4, <1>5, <1>6 DEF Lex, Named
  <1> QED BY <1>6, <1>7, <1>8, Arrives

\* A token that opens something nested.
LEMMA OpenStep ==
    ASSUME Ready, NEW t, Step(t), Opens(t), NEW f \in Expr,
           ExprGoesOn(Current, f),
           f.kind = "Angle" => f.chain = 0 /\ f.inner = 0 /\ f.deepest = 0,
           NEW kind \in GroupKinds, kind = GroupOf(t),
           NEW part \in {"", "start"},
           nest' = Append(InPlace(f), Expression(kind, part)),
           Current.kind = "Angle" => kind = "Angle",
           Afforded(t, f, IF kind = "Angle" THEN 1 ELSE 0)
    PROVE  /\ Leads(nest', 0) /\ NestOK(nest')
           /\ Current'.kind = kind
           /\ operand' = "Expected"
           /\ previous' = IF t = "CASE" THEN "CaseStart" ELSE "Other"
  <1> DEFINE x == Expression(kind, part)
             o == InPlace(f)
  <1>1. /\ x \in Expr /\ x.kind = kind
        /\ x.chain = 0 /\ x.inner = 0 /\ x.deepest = 0
    BY Fresh
  <1> HIDE DEF x
  <1>2. Top.kind = "Angle" => x.kind = "Angle"
    BY <1>1, Standing
  <1>3. Afforded(t, f, Carried(x))
    BY <1>1 DEF Carried
  <1>4. /\ Leads(Append(o, x), 0) /\ operand' = "Expected"
        /\ previous' = IF t = "CASE" THEN "CaseStart" ELSE "Other"
    BY <1>1, <1>2, <1>3, Opening
  <1>5. f.kind = Current.kind /\ NestOK(nest)
    BY DEF ExprGoesOn, Ready
  <1>6. /\ NestOK(o) /\ Len(o) = Len(nest) /\ o[Len(nest)] = f
    BY <1>5, NestInPlace
  <1> HIDE DEF o
  <1>7. /\ NestOK(Append(o, x)) /\ Len(Append(o, x)) = Len(o) + 1
        /\ Append(o, x)[Len(o) + 1] = x
    BY <1>1, <1>5, <1>6, NestPushed
  <1>8. nest' = Append(o, x)
    BY DEF o, x
  <1>9. Current' = x
    BY <1>7, <1>8 DEF Current
  <1> QED BY <1>1, <1>4, <1>7, <1>8, <1>9

LEMMA OpenSame ==
    ASSUME Ready, NEW t, Step(t), Opens(t),
           NEW kind \in GroupKinds, kind = GroupOf(t), kind # "Angle",
           NEW part \in {"", "start"},
           nest' = Append(nest, Expression(kind, part)),
           Current.kind # "Angle"
    PROVE  /\ Leads(nest', 0) /\ NestOK(nest')
           /\ Current'.kind = kind
           /\ operand' = "Expected"
           /\ previous' = IF t = "CASE" THEN "CaseStart" ELSE "Other"
  <1>1. /\ nest \in Seq(Expr) /\ Len(nest) >= 1 /\ Current \in Expr
        /\ Spare \in Nat
    BY ReadyFacts
  <1>2. ExprGoesOn(Current, Current)
    BY <1>1, NewExprs
  <1>3. InPlace(Current) = nest
    BY <1>1, Places
  <1>4. Afforded(t, Current, 0)
    BY AffordsSame
  <1>5. nest' = Append(InPlace(Current), Expression(kind, part))
    BY <1>3
  <1>6. Afforded(t, Current, IF kind = "Angle" THEN 1 ELSE 0)
    BY <1>4
  <1> QED BY <1>1, <1>2, <1>5, <1>6, OpenStep

-----------------------------------------------------------------------------
\* The words of the writer.

\* The innermost expression closes with its bracket.
LEMMA BracketStep ==
    ASSUME Ready, NEW t, Step(t), t \in {"rparen", "rbracket", "rbrace"},
           Current.kind = GroupOf(t), nest' = Without(nest, 1),
           place' = "after"
    PROVE  Good'
  <1>1. StartClosing(t) /\ operand' = "Complete" /\ Seen(t)
    <2>1. ~Pass(t)
      BY DEF Pass
    <2>2. ~Split(t) /\ ~DistrustCaseEnds(t) /\ ~Open(t)
      BY DEF Split, EndsSegment, CaseWords, DistrustCaseEnds, MayEndCase,
             Open, Opens
    <2>3. StartClosing(t)
      BY <2>1, <2>2 DEF Step
    <2> QED BY <2>3 DEF StartClosing
  <1>2. after_operand' = TRUE /\ previous' = "Other"
    BY <1>1 DEF Seen, EndsOperand, OperatorSymbols, PreviousOf
  <1>3. Leads(nest', 0)
    <2>1. 0 \in Nat /\ 0 <= Carried(Current)
      BY DEF Carried
    <2> QED BY <1>1, <2>1, BracketFits
  <1>4. Current.kind \in {"Paren", "Bracket", "Brace"}
    BY DEF GroupOf
  <1>5. /\ Len(nest) >= 2 /\ NestOK(nest) /\ Current = nest[Len(nest)]
        /\ Len(nest) \in Nat
    BY <1>4, ReadyFacts DEF Ready
  <1>6. /\ NestOK(nest') /\ Len(nest') = Len(nest) - 1
        /\ nest'[Len(nest) - 1].kind # "Angle"
    BY <1>4, <1>5, NestOut
  <1>7. Current'.kind # "Angle"
    BY <1>6 DEF Current
  <1>8. Spare' = 0
    BY <1>2 DEF Spare
  <1>9. Lex'
    BY <1>1, <1>2, <1>7 DEF Lex, Named
  <1> QED BY <1>3, <1>6, <1>8, <1>9, Arrives

LEMMA OpenPlain ==
    ASSUME Ready, NEW t, Step(t), Opens(t), t # "CASE",
           NEW kind \in GroupKinds, kind = GroupOf(t), kind # "Angle",
           nest' = Append(nest, Expression(kind, "")),
           Current.kind # "Angle"
    PROVE  /\ Leads(nest', 0) /\ NestOK(nest')
           /\ Current'.kind = kind
           /\ operand' = "Expected" /\ previous' = "Other"
  <1>1. "" \in {"", "start"}
    OBVIOUS
  <1> QED BY <1>1, OpenSame

\* Something nested opens or closes: Nested.
LEMMA Nests ==
    ASSUME Ready, NEW t, Nested(t)
    PROVE  Good'
  <1>1. ASSUME Wanted, t = "lparen", Into(t, "Paren", "", "opening")
        PROVE  Good'
    <2>1. /\ Step(t) /\ nest' = Append(nest, Expression("Paren", ""))
          /\ place' = "opening" /\ place \notin {"angle", "field", "type", "typed"}
      BY <1>1 DEF Into, Emit, Wanted
    <2>2. Opens(t) /\ GroupOf(t) = "Paren" /\ "Paren" \in GroupKinds
      BY <1>1 DEF Opens, GroupOf, GroupKinds
    <2>3. Current.kind # "Angle"
      BY <2>1, Standing
    <2>4. /\ Leads(nest', 0) /\ NestOK(nest') /\ Current'.kind = "Paren"
          /\ operand' = "Expected" /\ previous' = "Other"
      <3>1. "Paren" # "Angle" /\ t # "CASE"
        BY <1>1
      <3> QED BY <2>1, <2>2, <2>3, <3>1, OpenPlain
    <2>5. Spare' = 0 /\ Lex'
      BY <2>1, <2>4 DEF Spare, Lex, Named
    <2> QED BY <2>4, <2>5, Arrives
  <1>2. ASSUME Wanted, t = "lbrace", Into(t, "Brace", "", "operand")
        PROVE  Good'
    <2>1. /\ Step(t) /\ nest' = Append(nest, Expression("Brace", ""))
          /\ place' = "operand" /\ place \notin {"angle", "field", "type", "typed"}
      BY <1>2 DEF Into, Emit, Wanted
    <2>2. Opens(t) /\ GroupOf(t) = "Brace" /\ "Brace" \in GroupKinds
      BY <1>2 DEF Opens, GroupOf, GroupKinds
    <2>3. Current.kind # "Angle"
      BY <2>1, Standing
    <2>4. /\ Leads(nest', 0) /\ NestOK(nest') /\ Current'.kind = "Brace"
          /\ operand' = "Expected" /\ previous' = "Other"
      <3>1. "Brace" # "Angle" /\ t # "CASE"
        BY <1>2
      <3> QED BY <2>1, <2>2, <2>3, <3>1, OpenPlain
    <2>5. Spare' = 0 /\ Lex'
      BY <2>1, <2>4 DEF Spare, Lex, Named
    <2> QED BY <2>4, <2>5, Arrives
  <1>3. ASSUME Wanted, t = "CASE", Into(t, "Case", "start", "case")
        PROVE  Good'
    <2>1. /\ Step(t) /\ nest' = Append(nest, Expression("Case", "start"))
          /\ place' = "case"
          /\ place \notin {"angle", "field", "type", "typed", "member"}
      BY <1>3 DEF Into, Emit, Wanted
    <2>2. Current.kind # "Angle" /\ Top.kind # "Angle" /\ ~Named
      BY <2>1, Standing
    <2>3. Opens(t) /\ GroupOf(t) = "Case" /\ "Case" \in GroupKinds
      BY <1>3, <2>2 DEF Opens, GroupOf, GroupKinds
    <2>4. /\ Leads(nest', 0) /\ NestOK(nest') /\ Current'.kind = "Case"
          /\ operand' = "Expected" /\ previous' = "CaseStart"
      BY <1>3, <2>1, <2>2, <2>3, OpenSame
    <2>5. Spare' = 0 /\ Lex'
      BY <2>1, <2>4 DEF Spare, Lex, Named
    <2> QED BY <2>4, <2>5, Arrives
  <1>4. ASSUME Wanted, t = "constructor", Emit(t, nest, "array")
        PROVE  Good'
    <2>1. /\ Step(t) /\ nest' = nest /\ place' = "array"
          /\ place \notin {"angle", "field", "type", "typed", "member"}
      BY <1>4 DEF Emit, Wanted
    <2>2. Current.kind # "Angle"
      BY <2>1, Standing
    <2>3. Still(t) /\ ~EndsSegment(t)
      BY <1>4 DEF Still, Opens, EndsCase, EndsSegment, CaseWords
    <2>4. PreviousOf(t) = "TypeConstructor"
      BY <1>4 DEF PreviousOf
    <2>5. /\ Leads(nest', 0) /\ NestOK(nest') /\ Current' = Current
          /\ previous' = PreviousOf(t)
      BY <2>1, <2>3, PaysSame, QuietSame
    <2>6. Spare' = 0 /\ Lex'
      BY <2>1, <2>2, <2>4, <2>5 DEF Spare, Lex, Named
    <2> QED BY <2>5, <2>6, Arrives
  <1>5. ASSUME place = "array", t = "lbracket",
               Into(t, "Bracket", "", "operand")
        PROVE  Good'
    <2>1. /\ Step(t) /\ nest' = Append(nest, Expression("Bracket", ""))
          /\ place' = "operand"
      BY <1>5 DEF Into, Emit
    <2>2. Opens(t) /\ GroupOf(t) = "Bracket" /\ "Bracket" \in GroupKinds
      BY <1>5 DEF Opens, GroupOf, GroupKinds
    <2>3. Current.kind # "Angle"
      BY <1>5, Standing
    <2>4. /\ Leads(nest', 0) /\ NestOK(nest') /\ Current'.kind = "Bracket"
          /\ operand' = "Expected" /\ previous' = "Other"
      <3>1. "Bracket" # "Angle" /\ t # "CASE"
        BY <1>5
      <3> QED BY <2>1, <2>2, <2>3, <3>1, OpenPlain
    <2>5. Spare' = 0 /\ Lex'
      BY <2>1, <2>4 DEF Spare, Lex, Named
    <2> QED BY <2>4, <2>5, Arrives
  <1>6. ASSUME Complete, t = "lparen", Into(t, "Paren", "", "opening")
        PROVE  Good'
    <2>1. /\ Step(t) /\ nest' = Append(nest, Expression("Paren", ""))
          /\ place' = "opening" /\ Current.kind # "Angle"
      BY <1>6 DEF Into, Emit, Complete
    <2>2. Opens(t) /\ GroupOf(t) = "Paren" /\ "Paren" \in GroupKinds
      BY <1>6 DEF Opens, GroupOf, GroupKinds
    <2>3. /\ Leads(nest', 0) /\ NestOK(nest') /\ Current'.kind = "Paren"
          /\ operand' = "Expected" /\ previous' = "Other"
      <3>1. "Paren" # "Angle" /\ t # "CASE"
        BY <1>6
      <3> QED BY <2>1, <2>2, <3>1, OpenPlain
    <2>4. Spare' = 0 /\ Lex'
      BY <2>1, <2>3 DEF Spare, Lex, Named
    <2> QED BY <2>3, <2>4, Arrives
  <1>7. ASSUME place = "opening", t = "rparen", OutOf(t, 1, "after")
        PROVE  Good'
    <2>1. Step(t) /\ nest' = Without(nest, 1) /\ place' = "after"
      BY <1>7 DEF OutOf, Emit
    <2>2. Current.kind = GroupOf(t)
      BY <1>7 DEF Ready, Lex, GroupOf
    <2> QED BY <1>7, <2>1, <2>2, BracketStep
  <1>8. ASSUME \/ t = "rparen" /\ Current.kind = "Paren"
               \/ t = "rbracket" /\ Current.kind = "Bracket"
               \/ t = "rbrace" /\ Current.kind = "Brace",
               OutOf(t, 1, "after")
        PROVE  Good'
    <2>1. Step(t) /\ nest' = Without(nest, 1) /\ place' = "after"
      BY <1>8 DEF OutOf, Emit
    <2>2. Current.kind = GroupOf(t) /\ t \in {"rparen", "rbracket", "rbrace"}
      BY <1>8 DEF GroupOf
    <2> QED BY <2>1, <2>2, BracketStep
  <1> QED BY <1>1, <1>2, <1>3, <1>4, <1>5, <1>6, <1>7, <1>8 DEF Nested

\* One operator more, which is counted.
LEMMA LongerPays ==
    ASSUME Ready, NEW t, place \in {"after", "typed"} \/ IsInfix(t),
           IsInfix(t) \/ t \in OperatorSymbols
    PROVE  Afforded(t, Longer, 0)
  <1>1. Current \in Expr /\ Spare \in Nat
    BY ReadyFacts
  <1>2. Current.chain \in Nat /\ Current.inner \in Nat
    BY <1>1, ExprParts
  <1>3. Longer.chain = Current.chain + 1 /\ Longer.inner = Current.inner
    BY <1>1, NewExprs
  <1>4. Counts(t) \in Nat
    BY DEF Counts
  <1>5. Spare + Counts(t) >= 1
    <2>1. CASE IsInfix(t)
      <3>1. Counts(t) = 1
        BY <2>1 DEF Counts
      <3> QED BY <1>1, <3>1
    <2>2. CASE ~IsInfix(t)
      <3>1. ~after_operand
        BY <2>2 DEF IsInfix
      <3>2. Spare = 1
        BY <2>2, <3>1 DEF Spare
      <3> QED BY <1>4, <3>2
    <2> QED BY <2>1, <2>2
  <1> DEFINE c == Current.chain
             i == Current.inner
             s == Spare
             k == Counts(t)
             l == Longer.chain
             j == Longer.inner
  <1>6. l + j + 0 <= c + i + s + k
    <2>1. /\ c \in Nat /\ i \in Nat /\ s \in Nat /\ k \in Nat
          /\ l = c + 1 /\ j = i /\ s + k >= 1
      BY <1>1, <1>2, <1>3, <1>4, <1>5
    <2> HIDE DEF c, i, s, k, l, j
    <2> QED BY <2>1
  <1> QED BY <1>6 DEF Afforded

\* An operator after an operand.
LEMMA Operators ==
    ASSUME Ready, NEW t, Operator(t)
    PROVE  Good'
  <1> DEFINE Settles(p) == /\ Step(t) /\ Still(t) /\ ~EndsSegment(t)
                           /\ nest' = InPlace(Longer) /\ place' = p
                           /\ Afforded(t, Longer, 0) /\ ~Named
                           /\ Current.kind # "Angle"
  <1>1. ASSUME NEW p, Settles(p)
        PROVE  /\ Leads(nest', 0) /\ NestOK(nest')
               /\ Current'.kind = Current.kind
               /\ after_operand' = EndsOperand(t)
               /\ previous' = PreviousOf(t)
               /\ t \notin {"head", "END"} => operand' = PlaceAfter(t)
    <2>1. Current \in Expr
      BY ReadyFacts
    <2>2. Longer \in Expr /\ Longer.kind = Current.kind
          /\ ExprGoesOn(Current, Longer)
      BY <2>1, NewExprs
    <2>3. Pays(t, Longer, 0)
      BY <1>1 DEF Pays
    <2>4. Longer.kind # "Angle"
      BY <1>1, <2>2
    <2> QED BY <1>1, <2>2, <2>3, <2>4, QuietStep
  <1>2. ASSUME Complete
        PROVE  /\ place \in {"after", "typed"} /\ Current.kind # "Angle"
               /\ Top.kind # "Angle"
               /\ ~Named /\ previous # "TypeConstructor"
    BY <1>2, Standing DEF Complete
  <1>3. ASSUME Complete,
               t \in {"operator", "star", "infix", "lt", "gt", "shr"},
               Emit(t, InPlace(Longer), "operand")
        PROVE  Good'
    <2>1. Still(t) /\ ~EndsSegment(t)
      BY <1>2, <1>3 DEF Still, Opens, EndsCase, EndsSegment, CaseWords
    <2>2. IsInfix(t) \/ t \in OperatorSymbols
      BY <1>3 DEF IsInfix, OperatorSymbols
    <2>3. Settles("operand") /\ place' = "operand"
      BY <1>2, <1>3, <2>1, <2>2, LongerPays DEF Emit
    <2>4. PreviousOf(t) = "Other" /\ PlaceAfter(t) # "Complete"
      BY <1>2, <1>3, PlacesNext DEF PreviousOf
    <2> HIDE DEF Settles
    <2>5. /\ Leads(nest', 0) /\ NestOK(nest') /\ Current'.kind = Current.kind
          /\ previous' = PreviousOf(t) /\ operand' = PlaceAfter(t)
      BY <1>1, <1>3, <2>3
    <2>6. Spare' = 0 /\ Lex'
      BY <1>2, <1>3, <2>3, <2>4, <2>5 DEF Spare, Lex, Named
    <2> QED BY <2>5, <2>6, Arrives
  <1>4. ASSUME Complete, t = "bang", Emit(t, InPlace(Longer), "after")
        PROVE  Good'
    <2>1. Still(t) /\ ~EndsSegment(t)
      BY <1>4 DEF Still, Opens, EndsCase, EndsSegment, CaseWords
    <2>2. IsInfix(t) \/ t \in OperatorSymbols
      BY <1>4 DEF IsInfix
    <2>3. Settles("after") /\ place' = "after"
      BY <1>2, <1>4, <2>1, <2>2, LongerPays DEF Emit
    <2>4. /\ PreviousOf(t) = "Other" /\ PlaceAfter(t) = "Unknown"
          /\ EndsOperand(t)
      BY <1>2, <1>4, PlacesNext DEF PreviousOf, EndsOperand, OperatorSymbols
    <2> HIDE DEF Settles
    <2>5. /\ Leads(nest', 0) /\ NestOK(nest') /\ Current'.kind = Current.kind
          /\ previous' = PreviousOf(t) /\ operand' = PlaceAfter(t)
          /\ after_operand' = EndsOperand(t)
      BY <1>1, <1>4, <2>3
    <2>6. Spare' = 0 /\ Lex'
      BY <1>2, <1>4, <2>3, <2>4, <2>5 DEF Spare, Lex, Named
    <2> QED BY <2>5, <2>6, Arrives
  <1>5. ASSUME Complete, t = "dcolon", Emit(t, InPlace(Longer), "type")
        PROVE  Good'
    <2>1. Still(t) /\ ~EndsSegment(t)
      BY <1>5 DEF Still, Opens, EndsCase, EndsSegment, CaseWords
    <2>2. IsInfix(t) \/ t \in OperatorSymbols
      BY <1>5 DEF OperatorSymbols
    <2>3. Settles("type") /\ place' = "type"
      BY <1>2, <1>5, <2>1, <2>2, LongerPays DEF Emit
    <2>4. PreviousOf(t) = "DoubleColon"
      BY <1>5 DEF PreviousOf
    <2> HIDE DEF Settles
    <2>5. /\ Leads(nest', 0) /\ NestOK(nest') /\ Current'.kind = Current.kind
          /\ previous' = PreviousOf(t)
      BY <1>1, <1>5, <2>3
    <2>6. Spare' = 0 /\ Lex'
      BY <1>2, <1>5, <2>3, <2>4, <2>5 DEF Spare, Lex, Named
    <2> QED BY <2>5, <2>6, Arrives
  <1>6. ASSUME Complete, t = "lbracket",
               Emit(t, Append(InPlace(Longer), Expression("Bracket", "")),
                    "operand")
        PROVE  Good'
    <2>1. /\ Step(t) /\ place' = "operand"
          /\ nest' = Append(InPlace(Longer), Expression("Bracket", ""))
      BY <1>6 DEF Emit
    <2>2. Opens(t) /\ GroupOf(t) = "Bracket" /\ "Bracket" \in GroupKinds
          /\ t \in OperatorSymbols
      BY <1>6 DEF Opens, GroupOf, GroupKinds, OperatorSymbols
    <2>3. Current \in Expr
      BY ReadyFacts
    <2>4. Longer \in Expr /\ Longer.kind = Current.kind
          /\ ExprGoesOn(Current, Longer)
      BY <2>3, NewExprs
    <2>5. Afforded(t, Longer, 0)
      BY <1>2, <1>6, <2>2, LongerPays
    <2>6. Longer.kind # "Angle" /\ Current.kind # "Angle"
      BY <1>2, <1>6, <2>4
    <2>7. Afforded(t, Longer, IF "Bracket" = "Angle" THEN 1 ELSE 0)
      BY <2>5
    <2>8. /\ Leads(nest', 0) /\ NestOK(nest') /\ Current'.kind = "Bracket"
          /\ operand' = "Expected" /\ previous' = "Other"
      BY <1>6, <2>1, <2>2, <2>4, <2>6, <2>7, OpenStep
    <2>9. Spare' = 0 /\ Lex'
      BY <2>1, <2>8 DEF Spare, Lex, Named
    <2> QED BY <2>8, <2>9, Arrives
  <1>7. ASSUME Complete, t = "keyword", Emit(t, nest, "negated")
        PROVE  Good'
    <2>1. Step(t) /\ nest' = nest /\ place' = "negated"
      BY <1>7 DEF Emit
    <2>2. Still(t) /\ ~EndsSegment(t)
      BY <1>7 DEF Still, Opens, EndsCase, EndsSegment, CaseWords
    <2>3. PreviousOf(t) = "Other"
      BY <1>7 DEF PreviousOf
    <2>4. /\ Leads(nest', 0) /\ NestOK(nest') /\ Current' = Current
          /\ previous' = PreviousOf(t)
      BY <2>1, <2>2, PaysSame, QuietSame
    <2>5. Spare' = 0 /\ Lex'
      BY <1>2, <1>7, <2>1, <2>3, <2>4 DEF Spare, Lex, Named
    <2> QED BY <2>4, <2>5, Arrives
  <1>8. ASSUME place = "negated", t = "infix",
               Emit(t, InPlace(Longer), "operand")
        PROVE  Good'
    <2>1. Still(t) /\ ~EndsSegment(t)
      BY <1>8 DEF Still, Opens, EndsCase, EndsSegment, CaseWords
    <2>2. IsInfix(t)
      BY <1>8 DEF IsInfix
    <2>3. ~Named /\ Current.kind # "Angle"
      BY <1>8, Standing
    <2>4. Settles("operand") /\ place' = "operand"
      BY <1>8, <2>1, <2>2, <2>3, LongerPays DEF Emit
    <2>5. PreviousOf(t) = "Other" /\ PlaceAfter(t) = "Unknown"
      BY <1>8, <2>3, PlacesNext DEF PreviousOf
    <2> HIDE DEF Settles
    <2>6. /\ Leads(nest', 0) /\ NestOK(nest') /\ Current'.kind = Current.kind
          /\ previous' = PreviousOf(t) /\ operand' = PlaceAfter(t)
      BY <1>1, <1>8, <2>4
    <2>7. Spare' = 0 /\ Lex'
      BY <2>3, <2>4, <2>5, <2>6 DEF Spare, Lex, Named
    <2> QED BY <2>6, <2>7, Arrives
  <1> HIDE DEF Settles
  <1> QED BY <1>3, <1>4, <1>5, <1>6, <1>7, <1>8 DEF Operator

\* A field of a row, whose name may be a keyword.
LEMMA MemberWords ==
    ASSUME Ready, AlsoNames = {}, NEW t, Member(t)
    PROVE  Good'
  <1>1. ASSUME Complete, t = "period", Emit(t, nest, "member")
        PROVE  Good'
    <2>1. Step(t) /\ nest' = nest /\ place' = "member" /\ Current.kind # "Angle"
      BY <1>1 DEF Emit, Complete
    <2>2. Still(t) /\ ~EndsSegment(t)
      BY <1>1 DEF Still, Opens, EndsCase, EndsSegment, CaseWords
    <2>3. PreviousOf(t) = "Period"
      BY <1>1 DEF PreviousOf
    <2>4. /\ Leads(nest', 0) /\ NestOK(nest') /\ Current' = Current
          /\ previous' = PreviousOf(t)
      BY <2>1, <2>2, PaysSame, QuietSame
    <2>5. Spare' = 0 /\ Lex'
      BY <2>1, <2>3, <2>4 DEF Spare, Lex, Named
    <2> QED BY <2>4, <2>5, Arrives
  <1>2. ASSUME place = "member",
               t \in (Words \ {"set", "constructor"}) \cup AlsoNames,
               Emit(t, nest, "after")
        PROVE  Good'
    <2>1. /\ Step(t) /\ nest' = nest /\ place' = "after"
          /\ t \in {"name", "value", "infix", "CASE", "head", "keyword",
                    "WHEN", "THEN", "ELSE", "END"}
          /\ t \in Words
      BY <1>2 DEF Emit, Words, CaseWords
    <2>2. Named
      BY <1>2 DEF Ready, Lex
    <2>3. Current.kind # "Angle"
      BY <1>2, Standing
    <2>4. Still(t) /\ ~EndsSegment(t)
      BY <2>1, <2>2 DEF Still, Opens, EndsCase, EndsSegment, CaseWords
    <2>5. PreviousOf(t) = "Other" /\ PlaceAfter(t) = "Complete"
      BY <2>1, <2>2, PlacesNext DEF PreviousOf
    <2> DEFINE rest == IF EndsOperand(t) THEN 0 ELSE 1
    <2>6. rest \in Nat
      OBVIOUS
    <2>7. Pays(t, Current, rest)
      <3>1. CASE EndsOperand(t)
        BY <3>1, <2>4, PaysSame
      <3>2. CASE ~EndsOperand(t)
        <4>1. t = "infix"
          BY <3>2, <2>1 DEF EndsOperand, OperatorSymbols
        <4>2. Counts(t) = 1
          BY <4>1 DEF Counts, IsInfix
        <4>3. Current \in Expr /\ Spare \in Nat
          BY ReadyFacts
        <4>4. Current.chain \in Nat /\ Current.inner \in Nat
          BY <4>3, ExprParts
        <4>5. Afforded(t, Current, 1)
          BY <4>2, <4>3, <4>4 DEF Afforded
        <4> QED BY <3>2, <4>5, <2>4 DEF Pays
      <3> QED BY <3>1, <3>2
    <2> HIDE DEF rest
    <2>8. /\ Leads(nest', rest) /\ NestOK(nest') /\ Current' = Current
          /\ after_operand' = EndsOperand(t) /\ previous' = PreviousOf(t)
          /\ t \notin {"head", "END"} => operand' = PlaceAfter(t)
          /\ operand' = "Unknown" \/ operand' = PlaceAfter(t)
      BY <2>1, <2>4, <2>6, <2>7, QuietSame
    <2>9. Spare' = rest
      BY <2>1, <2>8 DEF Spare, rest
    <2>10. Lex'
      BY <2>1, <2>3, <2>5, <2>8 DEF Lex, Named
    <2> QED BY <2>8, <2>9, <2>10, Arrives
  <1> QED BY <1>1, <1>2 DEF Member

\* The type of a cast, and the fields of a structured type.
LEMMA Types ==
    ASSUME Ready, NEW t, Type(t)
    PROVE  Good'
  <1>1. ASSUME place \in {"type", "typed"}, t \in {"name", "keyword"},
               Emit(t, nest, "typed")
        PROVE  Good'
    <2>1. Step(t) /\ nest' = nest /\ place' = "typed"
      BY <1>1 DEF Emit
    <2>2. Still(t) /\ ~EndsSegment(t)
      BY <1>1 DEF Still, Opens, EndsCase, EndsSegment, CaseWords
    <2>3. PreviousOf(t) = "Other" /\ EndsOperand(t)
      BY <1>1 DEF PreviousOf, EndsOperand, OperatorSymbols
    <2>4. PlaceAfter(t) # "Expected"
      <3>1. t \in Words
        BY <1>1 DEF Words
      <3>2. CASE Named
        BY <3>1, <3>2, PlacesNext
      <3>3. CASE ~Named
        BY <3>3, <1>1, PlacesNext
      <3> QED BY <3>2, <3>3
    <2>5. /\ Leads(nest', 0) /\ NestOK(nest') /\ Current' = Current
          /\ after_operand' = EndsOperand(t) /\ previous' = PreviousOf(t)
          /\ operand' = "Unknown" \/ operand' = PlaceAfter(t)
      BY <2>1, <2>2, PaysSame, QuietSame
    <2>6. Spare' = 0 /\ Lex'
      BY <2>1, <2>3, <2>4, <2>5 DEF Spare, Lex, Named
    <2> QED BY <2>5, <2>6, Arrives
  <1>2. ASSUME place = "type", t = "constructor", Emit(t, nest, "angle")
        PROVE  Good'
    <2>1. Step(t) /\ nest' = nest /\ place' = "angle"
      BY <1>2 DEF Emit
    <2>2. Still(t) /\ ~EndsSegment(t)
      BY <1>2 DEF Still, Opens, EndsCase, EndsSegment, CaseWords
    <2>3. PreviousOf(t) = "TypeConstructor" /\ EndsOperand(t)
      BY <1>2 DEF PreviousOf, EndsOperand, OperatorSymbols
    <2>4. /\ Leads(nest', 0) /\ NestOK(nest') /\ Current' = Current
          /\ after_operand' = EndsOperand(t) /\ previous' = PreviousOf(t)
      BY <2>1, <2>2, PaysSame, QuietSame
    <2>5. Spare' = 0 /\ Lex'
      BY <2>1, <2>3, <2>4 DEF Spare, Lex, Named
    <2> QED BY <2>4, <2>5, Arrives
  <1>3. ASSUME place = "angle", t = "lt", Into(t, "Angle", "", "field")
        PROVE  Good'
    <2>1. /\ Step(t) /\ nest' = Append(nest, Expression("Angle", ""))
          /\ place' = "field"
      BY <1>3 DEF Into, Emit
    <2>2. previous = "TypeConstructor" /\ after_operand
      BY <1>3 DEF Ready, Lex
    <2>3. Opens(t) /\ GroupOf(t) = "Angle" /\ "Angle" \in GroupKinds
      BY <1>3, <2>2 DEF Opens, GroupOf, GroupKinds
    <2>4. /\ nest \in Seq(Expr) /\ Len(nest) >= 1 /\ Current \in Expr
          /\ Spare \in Nat /\ Current = nest[Len(nest)]
          /\ Len(nest) \in 1..Len(nest) /\ NestOK(nest)
      BY ReadyFacts DEF Ready
    <2>5. InPlace(Current) = nest /\ ExprGoesOn(Current, Current)
      BY <2>4, Places, NewExprs
    <2>6. Afforded(t, Current, 1)
      <3>1. Counts(t) = 1
        BY <1>3, <2>2 DEF Counts, IsInfix, OperatorSymbols
      <3>2. Current.chain \in Nat /\ Current.inner \in Nat
        BY <2>4, ExprParts
      <3> QED BY <2>4, <3>1, <3>2 DEF Afforded
    <2>7. Current.kind = "Angle" =>
             Current.chain = 0 /\ Current.inner = 0 /\ Current.deepest = 0
      BY <2>4 DEF NestOK
    <2>8. /\ Leads(nest', 0) /\ NestOK(nest') /\ Current'.kind = "Angle"
          /\ operand' = "Expected"
          /\ previous' = IF t = "CASE" THEN "CaseStart" ELSE "Other"
      <3>1. "" \in {"", "start"} /\ "Angle" = "Angle"
        OBVIOUS
      <3>2. nest' = Append(InPlace(Current), Expression("Angle", ""))
        BY <2>1, <2>5
      <3>3. PICK kind \in GroupKinds : kind = "Angle"
        BY <2>3
      <3>4. Afforded(t, Current, IF kind = "Angle" THEN 1 ELSE 0)
        BY <2>6, <3>3
      <3> QED BY <2>1, <2>3, <2>4, <2>5, <2>7, <3>1, <3>2, <3>3, <3>4, OpenStep
    <2>9. previous' = "Other"
      BY <1>3, <2>8
    <2>10. Spare' = 0 /\ Lex'
      BY <2>1, <2>8, <2>9 DEF Spare, Lex, Named
    <2> QED BY <2>8, <2>10, Arrives
  <1>4. ASSUME place = "field", t \in {"name", "CASE", "END"},
               Emit(t, nest, "type")
        PROVE  Good'
    <2>1. Step(t) /\ nest' = nest /\ place' = "type"
      BY <1>4 DEF Emit
    <2>2. Current.kind = "Angle" /\ operand = "Expected"
      BY <1>4 DEF Ready, Lex
    <2>3. Top.kind = "Angle"
      BY <2>2, ReadyFacts
    <2>4. Still(t) /\ ~EndsSegment(t)
      BY <1>4, <2>2, <2>3 DEF Still, Opens, EndsCase, EndsSegment, CaseWords
    <2>5. PreviousOf(t) = "Other"
      BY <1>4 DEF PreviousOf
    <2>6. /\ Leads(nest', 0) /\ NestOK(nest') /\ Current' = Current
          /\ previous' = PreviousOf(t)
      BY <2>1, <2>4, PaysSame, QuietSame
    <2>7. Spare' = 0 /\ Lex'
      BY <2>1, <2>5, <2>6 DEF Spare, Lex, Named
    <2> QED BY <2>6, <2>7, Arrives
  <1>5. ASSUME place = "typed", Current.kind = "Angle", t = "comma",
               Emit(t, nest, "field")
        PROVE  Good'
    <2>1. Step(t) /\ nest' = nest /\ place' = "field"
      BY <1>5 DEF Emit
    <2>2. Still(t)
      BY <1>5 DEF Still, Opens, EndsCase
    <2>3. /\ NestOK(nest) /\ Current = nest[Len(nest)]
          /\ Len(nest) \in 1..Len(nest)
      BY ReadyFacts DEF Ready
    <2>4. Current.chain = 0 /\ Current.inner = 0
      BY <1>5, <2>3 DEF NestOK
    <2>5. PreviousOf(t) = "Other" /\ PlaceAfter(t) = "Expected"
      BY <1>5, PlacesNext DEF PreviousOf
    <2>6. /\ Leads(nest', 0) /\ NestOK(nest') /\ Current' = Current
          /\ previous' = PreviousOf(t) /\ operand' = PlaceAfter(t)
      BY <1>5, <2>1, <2>2, <2>4, PaysNothing, QuietSame
    <2>7. Spare' = 0 /\ Lex'
      BY <1>5, <2>1, <2>5, <2>6 DEF Spare, Lex, Named
    <2> QED BY <2>6, <2>7, Arrives
  <1>6. ASSUME place = "typed", Current.kind = "Angle", t \in {"gt", "shr"},
               Step(t)
        PROVE  /\ StartClosing(t) /\ operand' = "Complete"
               /\ after_operand' = FALSE /\ previous' = "Other"
               /\ NestOK(nest) /\ Len(nest) >= 2
    <2>1. Top.kind = "Angle" /\ Len(nest) >= 2 /\ NestOK(nest)
      BY <1>6, ReadyFacts DEF Ready
    <2>2. ~Pass(t) /\ ~Split(t) /\ ~DistrustCaseEnds(t) /\ ~Open(t)
      BY <1>6, <2>1 DEF Pass, Split, EndsSegment, CaseWords,
                        DistrustCaseEnds, MayEndCase, Open, Opens
    <2>3. StartClosing(t)
      BY <1>6, <2>2 DEF Step
    <2>4. Seen(t) /\ operand' = "Complete"
      BY <2>3 DEF StartClosing
    <2>5. after_operand' = FALSE /\ previous' = "Other"
      BY <1>6, <2>4 DEF Seen, EndsOperand, OperatorSymbols, PreviousOf
    <2> QED BY <2>1, <2>3, <2>4, <2>5
  <1>7. ASSUME place = "typed", Current.kind = "Angle", t = "gt",
               OutOf(t, 1, "typed")
        PROVE  Good'
    <2>1. Step(t) /\ nest' = Without(nest, 1) /\ place' = "typed"
      BY <1>7 DEF OutOf, Emit
    <2>2. /\ StartClosing(t) /\ operand' = "Complete"
          /\ after_operand' = FALSE /\ previous' = "Other"
          /\ NestOK(nest) /\ Len(nest) >= 2
      BY <1>6, <1>7, <2>1
    <2>3. Leads(nest', 1)
      <3>1. Carried(Current) = 1 /\ 1 \in Nat /\ 1 <= Carried(Current)
        BY <1>7 DEF Carried
      <3> QED BY <1>7, <2>1, <2>2, <3>1, BracketFits
    <2>4. NestOK(nest')
      BY <2>1, <2>2, NestOut
    <2>5. Spare' = 1
      BY <2>1, <2>2 DEF Spare
    <2>6. Lex'
      BY <2>1, <2>2 DEF Lex, Named
    <2> QED BY <2>3, <2>4, <2>5, <2>6, Arrives
  <1>8. ASSUME place = "typed", Current.kind = "Angle", t = "shr",
               nest[Len(nest) - 1].kind = "Angle", OutOf(t, 2, "typed")
        PROVE  Good'
    <2>1. Step(t) /\ nest' = Without(nest, 2) /\ place' = "typed"
      BY <1>8 DEF OutOf, Emit
    <2>2. /\ StartClosing(t) /\ operand' = "Complete"
          /\ after_operand' = FALSE /\ previous' = "Other"
          /\ NestOK(nest) /\ Len(nest) >= 2
      BY <1>6, <1>8, <2>1
    <2>3. /\ Leads(nest', 1)
          /\ nest' = Without(Without(nest, 1), 1)
          /\ Len(Without(nest, 1)) >= 2
      BY <1>8, <2>1, <2>2, AngleFits
    <2>4. NestOK(nest')
      <3>1. NestOK(Without(nest, 1))
        BY <2>2, NestOut
      <3> QED BY <2>3, <3>1, NestOut
    <2>5. Spare' = 1
      BY <2>1, <2>2 DEF Spare
    <2>6. Lex'
      BY <2>1, <2>2 DEF Lex, Named
    <2> QED BY <2>3, <2>4, <2>5, <2>6, Arrives
  <1> QED BY <1>1, <1>2, <1>3, <1>4, <1>5, <1>7, <1>8 DEF Type

\* An expression ends and one begins beside it.
LEMMA BesideStep ==
    ASSUME Ready, NEW t, Step(t), Still(t),
           NEW part \in {"", "start", "when", "then", "else"},
           nest' = InPlace(NextOne(Current, part)), Current.kind # "Angle"
    PROVE  /\ Leads(nest', 0) /\ NestOK(nest')
           /\ Current'.kind = Current.kind
           /\ Current'.chain = 0 /\ Current'.inner = 0
           /\ previous' = PreviousOf(t)
           /\ operand' = "Unknown" \/ operand' = PlaceAfter(t)
           /\ t \notin {"head", "END"} => operand' = PlaceAfter(t)
  <1>1. PICK f : f = NextOne(Current, part)
    OBVIOUS
  <1>2. Current \in Expr
    BY ReadyFacts
  <1>3. /\ f \in Expr /\ f.kind = Current.kind /\ f.chain = 0 /\ f.inner = 0
        /\ ExprGoesOn(Current, f)
    BY <1>1, <1>2, NewExprs
  <1>4. Pays(t, f, 0)
    BY <1>3, PaysNothing
  <1>5. f.kind # "Angle" /\ nest' = InPlace(f) /\ 0 \in Nat
    BY <1>1, <1>3
  <1>6. /\ Leads(nest', 0) /\ NestOK(nest') /\ Current' = f
        /\ previous' = PreviousOf(t)
        /\ operand' = "Unknown" \/ operand' = PlaceAfter(t)
        /\ t \notin {"head", "END"} => operand' = PlaceAfter(t)
    BY <1>3, <1>4, <1>5, QuietStep
  <1> QED BY <1>3, <1>6

\* Where an expression may end.
LEMMA EndedStands ==
    ASSUME Ready, Ended
    PROVE  /\ place \in {"after", "typed", "row"} /\ Current.kind # "Angle"
           /\ ~Named /\ previous # "TypeConstructor"
           /\ previous # "CaseStart"
           /\ Top.kind # "Angle"
  BY Standing DEF Ended, Complete

\* A comma, a keyword or a set operation between expressions.
LEMMA Separators ==
    ASSUME Ready, NEW t, Separator(t)
    PROVE  Good'
  <1>1. /\ place \in {"after", "typed", "row"} /\ Current.kind # "Angle"
        /\ ~Named /\ previous # "TypeConstructor"
    BY EndedStands DEF Separator
  <1>2. PICK p \in {"operand", "start"} :
           /\ t \in {"comma", "keyword", "set"}
           /\ p = "operand" => t \in {"comma", "keyword"}
           /\ Step(t) /\ nest' = InPlace(NextOne(Current, "")) /\ place' = p
    BY DEF Separator, Beside, Emit
  <1>3. Still(t)
    BY <1>2 DEF Still, Opens, EndsCase
  <1>4. PreviousOf(t) = "Other"
    BY <1>2 DEF PreviousOf
  <1>5. p = "operand" => PlaceAfter(t) # "Complete"
    BY <1>1, <1>2, PlacesNext
  <1>6. /\ Leads(nest', 0) /\ NestOK(nest') /\ Current'.kind = Current.kind
        /\ Current'.chain = 0 /\ Current'.inner = 0
        /\ previous' = PreviousOf(t) /\ operand' = PlaceAfter(t)
    <2>1. "" \in {"", "start", "when", "then", "else"}
          /\ t \notin {"head", "END"}
      BY <1>2
    <2> QED BY <1>1, <1>2, <1>3, <2>1, BesideStep
  <1>7. Spare' = 0 /\ Lex'
    BY <1>1, <1>2, <1>4, <1>5, <1>6 DEF Spare, Lex, Named
  <1> QED BY <1>6, <1>7, Arrives

\* The arms of a CASE, and its END.
LEMMA Arms ==
    ASSUME Ready, NEW t, Arm(t)
    PROVE  Good'
  <1>1. Current.kind = "Case" /\ Top.kind = "Case"
    BY ReadyFacts DEF Arm
  <1>2. ASSUME place = "case", t = "WHEN", Beside(t, "when", "operand")
        PROVE  Good'
    <2>1. /\ Step(t) /\ nest' = InPlace(NextOne(Current, "when"))
          /\ place' = "operand"
      BY <1>2 DEF Beside, Emit
    <2>2. operand = "Expected" /\ previous = "CaseStart" /\ ~Named
      BY <1>2, Standing DEF Ready, Lex
    <2>3. Still(t)
      BY <1>2 DEF Still, Opens, EndsCase
    <2>4. PreviousOf(t) = "Other" /\ PlaceAfter(t) = "Expected"
      BY <1>2, <2>2, PlacesNext DEF PreviousOf
    <2>5. /\ Leads(nest', 0) /\ NestOK(nest') /\ Current'.kind = Current.kind
          /\ previous' = PreviousOf(t) /\ operand' = PlaceAfter(t)
      <3>1. "when" \in {"", "start", "when", "then", "else"}
            /\ t \notin {"head", "END"} /\ Current.kind # "Angle"
        BY <1>1, <1>2
      <3> QED BY <2>1, <2>3, <3>1, BesideStep
    <2>6. Spare' = 0 /\ Lex'
      BY <1>1, <2>1, <2>4, <2>5 DEF Spare, Lex, Named
    <2> QED BY <2>5, <2>6, Arrives
  <1>3. ASSUME Complete
        PROVE  /\ ~Named /\ previous # "TypeConstructor"
               /\ previous # "CaseStart"
               /\ operand \in {"Complete", "Unknown"}
    <2>1. Ended /\ place \in {"after", "typed"}
      BY <1>3 DEF Ended, Complete
    <2>2. /\ ~Named /\ previous # "TypeConstructor"
          /\ previous # "CaseStart"
          /\ operand \in {"Complete", "Expected", "Unknown"}
      BY <2>1, EndedStands, Standing
    <2>3. operand # "Expected"
      BY <2>1 DEF Ready, Lex
    <2> QED BY <2>2, <2>3
  <1>4. ASSUME Complete, NEW part \in {"when", "then", "else"},
               t \in {"WHEN", "THEN", "ELSE"}, Beside(t, part, "operand")
        PROVE  Good'
    <2>1. /\ Step(t) /\ nest' = InPlace(NextOne(Current, part))
          /\ place' = "operand"
      BY <1>4 DEF Beside, Emit
    <2>2. Still(t)
      BY <1>4 DEF Still, Opens, EndsCase
    <2>3. PreviousOf(t) = "Other"
      BY <1>4 DEF PreviousOf
    <2>4. PlaceAfter(t) # "Complete"
      <3>1. CASE operand = "Complete"
        BY <3>1, <1>3, <1>4, PlacesNext
      <3>2. CASE operand = "Unknown"
        <4>1. t \in CaseWords
          BY <1>4 DEF CaseWords
        <4>2. PlaceAfter(t) = "Unknown"
          BY <3>2, <4>1, <1>3, <1>4, PlacesNext
        <4> QED BY <4>2
      <3> QED BY <3>1, <3>2, <1>3, <1>4
    <2>5. /\ Leads(nest', 0) /\ NestOK(nest') /\ Current'.kind = Current.kind
          /\ previous' = PreviousOf(t) /\ operand' = PlaceAfter(t)
      <3>1. part \in {"", "start", "when", "then", "else"}
            /\ t \notin {"head", "END"} /\ Current.kind # "Angle"
        BY <1>1, <1>4
      <3> QED BY <2>1, <2>2, <3>1, BesideStep
    <2>6. Spare' = 0 /\ Lex'
      BY <1>1, <2>1, <2>3, <2>4, <2>5 DEF Spare, Lex, Named
    <2> QED BY <2>5, <2>6, Arrives
  <1>5. ASSUME Complete, t = "END", OutOf(t, 1, "after")
        PROVE  Good'
    <2>1. Step(t) /\ nest' = Without(nest, 1) /\ place' = "after"
      BY <1>5 DEF OutOf, Emit
    <2>2. /\ Len(nest) >= 2 /\ NestOK(nest) /\ Current = nest[Len(nest)]
          /\ Len(nest) \in Nat
      BY <1>1, ReadyFacts DEF Ready
    <2>3. /\ NestOK(nest') /\ Len(nest') = Len(nest) - 1
          /\ nest'[Len(nest) - 1].kind # "Angle"
      BY <1>1, <2>1, <2>2, NestOut
    <2>4. Current'.kind # "Angle"
      BY <2>3 DEF Current
    <2>5. /\ Leads(nest', 0) /\ Seen(t)
          /\ operand' \in {"Complete", "Unknown"}
      <3>1. ~Open(t) /\ ~Pass(t) /\ ~Split(t)
        BY <1>1, <1>3, <1>5 DEF Open, Opens, Pass, Split, EndsSegment,
                                EndsCase, MayEndCase
      <3>2. CASE StartClosing(t)
        <4>1. Leads(nest', 0)
          BY <1>1, <1>5, <2>1, <3>2, CaseFits
        <4> QED BY <3>2, <4>1 DEF StartClosing
      <3>3. CASE DistrustCaseEnds(t)
        <4>1. Leads(nest', 0)
          BY <1>1, <2>1, <3>3, UnsureFits
        <4> QED BY <3>3, <4>1 DEF DistrustCaseEnds
      <3> QED BY <2>1, <3>1, <3>2, <3>3 DEF Step
    <2>6. after_operand' = TRUE /\ previous' = "Other"
      BY <1>5, <2>5 DEF Seen, EndsOperand, OperatorSymbols, PreviousOf
    <2>7. Spare' = 0
      BY <2>6 DEF Spare
    <2>8. Lex'
      BY <2>1, <2>4, <2>5, <2>6 DEF Lex, Named
    <2> QED BY <2>3, <2>5, <2>7, <2>8, Arrives
  <1> QED BY <1>2, <1>4, <1>5 DEF Arm

\* The keywords that start a statement, and those around one.
LEMMA StatementWords ==
    ASSUME Ready, NEW t, StatementWord(t)
    PROVE  Good'
  <1>1. ASSUME t = "head", place \in {"start", "opening"},
               Emit(t, nest, "operand")
        PROVE  Good'
    <2>1. Step(t) /\ nest' = nest /\ place' = "operand"
      BY <1>1 DEF Emit
    <2>2. Current.kind # "Angle" /\ ~Named
      BY <1>1, Standing
    <2>3. Still(t)
      BY <1>1 DEF Still, Opens, EndsCase
    <2>4. Pays(t, Current, 0)
      <3>1. CASE place = "start"
        <4>1. Current.chain = 0 /\ Current.inner = 0
          BY <3>1 DEF Ready, Lex
        <4> QED BY <4>1, PaysNothing
      <3>2. CASE place = "opening"
        <4>1. operand # "Complete"
          BY <3>2 DEF Ready, Lex
        <4>2. ~EndsSegment(t)
          BY <1>1, <4>1 DEF EndsSegment
        <4> QED BY <4>2, PaysSame
      <3> QED BY <3>1, <3>2, <1>1
    <2>5. PreviousOf(t) = "Other" /\ PlaceAfter(t) = "Unknown"
      BY <1>1, <2>2, PlacesNext DEF PreviousOf
    <2>6. /\ Leads(nest', 0) /\ NestOK(nest') /\ Current' = Current
          /\ previous' = PreviousOf(t)
          /\ operand' = "Unknown" \/ operand' = PlaceAfter(t)
      BY <2>1, <2>3, <2>4, QuietSame
    <2>7. Spare' = 0 /\ Lex'
      BY <2>1, <2>2, <2>5, <2>6 DEF Spare, Lex, Named
    <2> QED BY <2>6, <2>7, Arrives
  <1>2. ASSUME t = "head", Ended, Beside(t, "", "operand")
        PROVE  Good'
    <2>1. /\ Step(t) /\ nest' = InPlace(NextOne(Current, ""))
          /\ place' = "operand"
      BY <1>2 DEF Beside, Emit
    <2>2. Current.kind # "Angle" /\ ~Named
      BY <1>2, EndedStands
    <2>3. Still(t)
      BY <1>2 DEF Still, Opens, EndsCase
    <2>4. PreviousOf(t) = "Other" /\ PlaceAfter(t) = "Unknown"
      BY <1>2, <2>2, PlacesNext DEF PreviousOf
    <2>5. /\ Leads(nest', 0) /\ NestOK(nest') /\ Current'.kind = Current.kind
          /\ previous' = PreviousOf(t)
          /\ operand' = "Unknown" \/ operand' = PlaceAfter(t)
      <3>1. "" \in {"", "start", "when", "then", "else"}
        OBVIOUS
      <3> QED BY <2>1, <2>2, <2>3, <3>1, BesideStep
    <2>6. Spare' = 0 /\ Lex'
      BY <2>1, <2>2, <2>4, <2>5 DEF Spare, Lex, Named
    <2> QED BY <2>5, <2>6, Arrives
  <1>3. ASSUME Current.kind = "Statement", t \in CaseWords,
               NEW f \in Expr, ExprGoesOn(Current, f),
               f.chain = 0, f.inner = 0,
               Step(t), nest' = InPlace(f), place' = "start", ~Named
        PROVE  Good'
    <2>1. t \in {"WHEN", "THEN", "ELSE", "END"}
      BY <1>3 DEF CaseWords
    <2>2. f.kind = "Statement" /\ NestOK(nest)
      BY <1>3 DEF ExprGoesOn, Ready
    <2>3. /\ NestOK(InPlace(f)) /\ Len(InPlace(f)) = Len(nest)
          /\ InPlace(f)[Len(nest)] = f
      BY <1>3, <2>2, NestInPlace
    <2>4. NestOK(nest') /\ Current' = f
      BY <1>3, <2>3 DEF Current
    <2>5. Leads(nest', 0) /\ previous' = "Other"
      <3>1. PreviousOf(t) = "Other"
        BY <2>1 DEF PreviousOf
      <3>2. CASE EndsCase(t)
        <4>1. t = "END"
          BY <3>2 DEF EndsCase
        <4>2. StartClosing(t)
          <5>1. ~Open(t) /\ ~Pass(t) /\ ~Split(t) /\ ~DistrustCaseEnds(t)
            BY <3>2, <4>1 DEF Open, Opens, Pass, Split, EndsSegment, EndsCase,
                              DistrustCaseEnds, MayEndCase
          <5> QED BY <1>3, <5>1 DEF Step
        <4>3. Leads(InPlace(f), 0)
          BY <1>3, <4>1, <4>2, LooseFits
        <4>4. previous' = "Other"
          BY <3>1, <4>1, <4>2 DEF StartClosing, Seen
        <4> QED BY <1>3, <4>3, <4>4
      <3>3. CASE ~EndsCase(t)
        <4>1. Still(t)
          BY <2>1, <3>3 DEF Still, Opens
        <4>2. Pays(t, f, 0)
          BY <1>3, PaysNothing
        <4>3. Leads(InPlace(f), 0) /\ previous' = PreviousOf(t)
          <5>1. 0 \in Nat
            OBVIOUS
          <5> QED BY <1>3, <4>1, <4>2, <5>1, Quiet
        <4> QED BY <1>3, <3>1, <4>3
      <3> QED BY <3>2, <3>3
    <2>6. Spare' = 0
      BY <1>3 DEF Spare
    <2>7. Lex'
      BY <1>3, <2>2, <2>4, <2>5 DEF Lex, Named
    <2> QED BY <2>4, <2>5, <2>6, <2>7, Arrives
  <1>4. /\ nest \in Seq(Expr) /\ Len(nest) >= 1 /\ Current \in Expr
    BY ReadyFacts
  <1>5. ASSUME Current.kind = "Statement", t \in CaseWords, Ended,
               Beside(t, "", "start")
        PROVE  Good'
    <2>1. PICK f : f = NextOne(Current, "")
      OBVIOUS
    <2>2. /\ Step(t) /\ nest' = InPlace(f) /\ place' = "start"
      BY <1>5, <2>1 DEF Beside, Emit
    <2>3. "" \in {"", "start", "when", "then", "else"}
      OBVIOUS
    <2>4. f \in Expr /\ ExprGoesOn(Current, f) /\ f.chain = 0 /\ f.inner = 0
      BY <1>4, <2>1, <2>3, NewExprs
    <2>5. ~Named
      BY <1>5, EndedStands
    <2> QED BY <1>3, <1>5, <2>2, <2>4, <2>5
  <1>6. ASSUME Current.kind = "Statement", t \in CaseWords,
               place = "start", Emit(t, nest, "start")
        PROVE  Good'
    <2>1. PICK f : f = Current
      OBVIOUS
    <2>2. f \in Expr /\ ExprGoesOn(Current, f)
      BY <1>4, <2>1, NewExprs
    <2>3. f.chain = 0 /\ f.inner = 0
      BY <1>6, <2>1 DEF Ready, Lex
    <2>4. InPlace(f) = nest
      BY <1>4, <2>1, Places
    <2>5. Step(t) /\ nest' = InPlace(f) /\ place' = "start"
      BY <1>6, <2>4 DEF Emit
    <2>6. ~Named
      BY <1>6, Standing
    <2> QED BY <1>3, <1>6, <2>2, <2>3, <2>5, <2>6
  <1> QED BY <1>1, <1>2, <1>5, <1>6 DEF StatementWord

\* Whatever the writer emits.
LEMMA WordGood ==
    ASSUME Ready, AlsoNames = {}, NEW t, Word(t)
    PROVE  Good'
  <1>1. ~Nonsense(t)
    BY DEF Nonsense, Ready, Lex
  <1> QED BY <1>1, Operands, Wildcards, Prefixes, Nests, Operators, MemberWords,
             Types, Separators, Arms, StatementWords DEF Word

-----------------------------------------------------------------------------
\* The invariant holds at the start, and after every token.

\* A statement before its first token.
LEMMA FreshTree ==
    /\ NestOK(Outermost) /\ Shaped(NoGroups) /\ Len(NoGroups) = 1
    /\ Fits(Outermost, NoGroups, 2, 0)
    /\ Len(Outermost) = 1 /\ Outermost[1].kind = "Statement"
    /\ Outermost[1].chain = 0 /\ Outermost[1].inner = 0
    /\ Depth(Outermost[1]) = 0
  <1> DEFINE e == Expression("Statement", "")
             g == NewGroup("Statement")
  <1>1. /\ e \in Expr /\ e.kind = "Statement"
        /\ e.chain = 0 /\ e.inner = 0 /\ e.deepest = 0
    BY Fresh DEF GroupKinds
  <1>2. Depth(e) = 0
    <2> HIDE DEF e
    <2>1. e.chain + e.inner = 0 /\ e.deepest = 0
      BY <1>1
    <2> QED BY <2>1 DEF Depth, Larger
  <1>3. /\ g \in Group /\ g.kind = "Statement" /\ g.splits = TRUE
        /\ g.longest = 0 /\ g.finished = 0 /\ g.current = 0
    BY GroupTypes DEF NewGroup, GroupKinds
  <1>4. Outermost = <<e>> /\ NoGroups = <<g>>
    BY DEF Outermost, NoGroups
  <1> HIDE DEF e, g
  <1>5. /\ Outermost \in Seq(Expr) /\ Len(Outermost) = 1 /\ Outermost[1] = e
        /\ NoGroups \in Seq(Group) /\ Len(NoGroups) = 1 /\ NoGroups[1] = g
    BY <1>1, <1>3, <1>4
  <1>6. NestOK(Outermost)
    BY <1>1, <1>5 DEF NestOK
  <1>7. Shaped(NoGroups)
    <2>1. \A i \in 1..(1 - 1) : FALSE
      OBVIOUS
    <2>2. \A i \in 1..1 : i = 1
      OBVIOUS
    <2> QED BY <2>1, <2>2, <1>3, <1>5 DEF Shaped
  <1> DEFINE at == [j \in 1..1 |-> 1]
             p == [i \in 0..1 |-> 0]
  <1>8. Chain(g) = 0
    BY <1>3 DEF Chain, Larger
  <1>9. Tally(NoGroups, p)
    <2>1. p \in [0..1 -> Nat] /\ p[0] = 0 /\ p[1] = 0
      OBVIOUS
    <2>2. \A i \in 1..1 : p[i] <= p[i - 1] + NoGroups[i].current
      BY <2>1, <1>3, <1>5
    <2>3. \A i, j \in 0..1 : p[i] <= p[j]
      OBVIOUS
    <2> HIDE DEF p
    <2> QED BY <2>1, <2>2, <2>3, <1>5 DEF Tally
  <1>10. Matched(Outermost, NoGroups, at, 2)
    <2>1. at \in [1..1 -> 1..1] /\ at[1] = 1
      OBVIOUS
    <2>2. 2 \in 1..(1 + 1) /\ 1 < 2 /\ 2 - 1 = 1 /\ \A i \in 1..1 : i = 1
      OBVIOUS
    <2> HIDE DEF at
    <2>3. \A j, k \in 1..1 : j < k => at[j] < at[k]
      BY <2>2
    <2>4. \A j \in 1..1 : NoGroups[at[j]].kind = Outermost[j].kind
      BY <2>1, <2>2, <1>1, <1>3, <1>5
    <2>5. \A i \in 1..(2 - 1) : \E j \in 1..1 : at[j] = i
      BY <2>1, <2>2
    <2> QED BY <2>1, <2>2, <2>3, <2>4, <2>5, <1>5 DEF Matched
  <1>11. Measured(Outermost, NoGroups, at, p, 2, 0)
    <2>1. at[1] = 1 /\ p[0] = 0 /\ p[1] = 0 /\ 1 - 1 = 0 /\ 2 - 1 = 1
          /\ 1 \in 1..1
      OBVIOUS
    <2> HIDE DEF at, p
    <2>2. Owed(Outermost, at, p, 1) = 0
      BY <2>1, <1>1, <1>5 DEF Owed
    <2>3. Height(NoGroups, p, 1) = 0
      BY <2>1, <1>5, <1>8 DEF Height
    <2>4. Last(Outermost, NoGroups, at, 1) = 1
      BY <1>5 DEF Last
    <2>5. \A j \in 1..(1 - 1) : FALSE
      OBVIOUS
    <2>6. Owed(Outermost, at, p, 1) + 0 <= p[2 - 1]
      BY <2>1, <2>2
    <2>7. ASSUME NEW j \in 1..1
          PROVE  \E i \in at[j]..Last(Outermost, NoGroups, at, j) :
                    Outermost[j].deepest + p[at[j] - 1] <= Height(NoGroups, p, i)
      <3>1. j = 1
        OBVIOUS
      <3>2. Outermost[1].deepest + p[at[1] - 1] <= Height(NoGroups, p, 1)
        BY <2>1, <2>3, <1>1, <1>5
      <3> QED BY <3>1, <3>2, <2>1, <2>4
    <2> QED BY <2>5, <2>6, <2>7, <1>5 DEF Measured
  <1> HIDE DEF at, p
  <1>12. Fits(Outermost, NoGroups, 2, 0)
    BY <1>9, <1>10, <1>11 DEF Fits
  <1> QED BY <1>1, <1>2, <1>5, <1>6, <1>7, <1>12

\* A text before its first token.
LEMMA TreeBegins ==
    ASSUME DepthInit
    PROVE  TreeInv
  <1>1. /\ nest = Outermost /\ depths = <<>> /\ counts = <<>>
        /\ closing = "none" /\ groups = NoGroups
        /\ previous = "Other" /\ operand = "Unknown"
        /\ place = IF text.sql THEN "start" ELSE "nonsense"
    BY DEF DepthInit, ScanInit
  <1>2. ~Ending
    BY <1>1 DEF Ending
  <1>3. depths \in Seq(Nat) /\ Len(depths) = Len(counts) /\ NeverUndercounts
    BY <1>1 DEF NeverUndercounts
  <1>4. ASSUME text.sql PROVE Good
    <2>1. place = "start"
      BY <1>1, <1>4
    <2>2. Current = Outermost[1] /\ Current.kind = "Statement"
          /\ Current.chain = 0 /\ Current.inner = 0
      BY <1>1, FreshTree DEF Current
    <2>3. Lex
      BY <1>1, <2>1, <2>2 DEF Lex, Named
    <2>4. Spare = 0
      BY <2>1 DEF Spare
    <2>5. Target(groups, closing, 2)
      BY <1>1, FreshTree DEF Target, GroupKinds
    <2> QED BY <1>1, <2>3, <2>4, <2>5, FreshTree DEF Good
  <1> QED BY <1>1, <1>2, <1>3, <1>4, FreshTree DEF TreeInv

\* A text that is no SQL: nothing is remembered of it.
LEMMA WordNonsense ==
    ASSUME nest = Outermost, place = "nonsense", NEW t, Word(t)
    PROVE  nest' = Outermost /\ place' = "nonsense" /\ Step(t)
           /\ depths' = depths
  <1>1. Current.kind = "Statement"
    BY FreshTree DEF Current
  <1>2. ~Wanted /\ ~Ended /\ ~Complete
    BY DEF Wanted, Ended, Complete
  <1>3. ~Operand(t) /\ ~Wildcard(t) /\ ~Prefix(t) /\ ~Nested(t)
    BY <1>2 DEF Operand, Wildcard, Prefix, Nested
  <1>4. ~Operator(t) /\ ~Member(t) /\ ~Type(t) /\ ~Separator(t)
    BY <1>2 DEF Operator, Member, Type, Separator
  <1>5. ~Arm(t) /\ ~StatementWord(t)
    BY <1>1, <1>2 DEF Arm, StatementWord
  <1>6. Nonsense(t)
    BY <1>3, <1>4, <1>5 DEF Word
  <1> QED BY <1>6 DEF Nonsense, Emit

LEMMA WordSteps ==
    ASSUME NEW t, Word(t)
    PROVE  Step(t) /\ depths' = depths
  BY DEF Word, Nonsense, Operand, Wildcard, Prefix, Nested, Operator, Member,
         Type, Separator, Arm, StatementWord, Beside, Into, OutOf, Emit

\* A token changes neither the text nor what was found of other statements.
LEMMA StepLeaves ==
    ASSUME NEW t, Step(t)
    PROVE  /\ closing = "none" /\ text' = text /\ counts' = counts
           /\ closing' \notin {"Statement", "Text", "checked"}
  <1>1. Seen(t)
    BY DEF Step, Open, Split, DistrustCaseEnds, StartClosing, Pass
  <1>2. closing = "none" /\ text' = text /\ counts' = counts
    BY <1>1 DEF Seen
  <1>3. closing' \notin {"Statement", "Text", "checked"}
    <2>1. CASE StartClosing(t)
      BY <2>1 DEF StartClosing, GroupOf
    <2>2. CASE ~StartClosing(t)
      BY <1>2, <2>2 DEF Step, Open, Split, DistrustCaseEnds, Pass
    <2> QED BY <2>1, <2>2
  <1> QED BY <1>2, <1>3

\* Between loops the next token may come.
LEMMA GoodReady ==
    ASSUME ScanInv, TreeInv, text.sql, closing = "none"
    PROVE  Ready
  <1>1. Good
    BY DEF TreeInv, Ending
  <1>2. PICK q : Target(groups, closing, q) /\ Fits(nest, groups, q, Spare)
    BY <1>1 DEF Good
  <1>3. q = Len(groups) + 1
    BY <1>2 DEF Target
  <1> QED BY <1>1, <1>2, <1>3 DEF Ready, Good

\* Words keep the invariant.
LEMMA WordKeeps ==
    ASSUME ScanInv, TreeInv, AlsoNames = {}, NEW t, Word(t)
    PROVE  TreeInv'
  <1>1. /\ closing = "none" /\ text' = text /\ counts' = counts
        /\ closing' \notin {"Statement", "Text", "checked"}
        /\ depths' = depths
    BY WordSteps, StepLeaves
  <1>2. ~Ending /\ ~Ending'
    BY <1>1 DEF Ending
  <1>3. /\ depths \in Seq(Nat) /\ Len(depths) = Len(counts) /\ NestOK(nest)
    BY <1>2 DEF TreeInv
  <1>4. NeverUndercounts'
    BY <1>1 DEF TreeInv, NeverUndercounts
  <1>5. CASE text.sql
    <2>1. Good'
      BY <1>1, <1>5, GoodReady, WordGood
    <2>2. NestOK(nest)'
      BY <2>1 DEF Good
    <2> QED BY <1>1, <1>2, <1>3, <1>4, <1>5, <2>1, <2>2 DEF TreeInv
  <1>6. CASE ~text.sql
    <2>1. nest' = Outermost /\ place' = "nonsense"
      BY <1>6, WordNonsense DEF TreeInv
    <2>2. NestOK(nest)'
      BY <2>1, FreshTree
    <2> QED BY <1>1, <1>2, <1>3, <1>4, <1>6, <2>1, <2>2 DEF TreeInv
  <1> QED BY <1>5, <1>6

\* A statement ends: all groups will close, and the chain be at least as long
\* as its tree is deep.
LEMMA EndKeeps ==
    ASSUME ScanInv, TreeInv, End
    PROVE  TreeInv'
  <1>1. /\ Len(nest) = 1 /\ closing = "none"
        /\ closing' \in {"Statement", "Text"}
        /\ depths' = Append(depths, Depth(Current))
        /\ nest' = Outermost
        /\ place' = IF text.sql THEN "start" ELSE "nonsense"
        /\ text' = text /\ counts' = counts /\ groups' = groups
    BY DEF End, EndStatement
  <1>2. /\ ~Ending /\ Ending' /\ depths \in Seq(Nat)
        /\ Len(depths) = Len(counts) /\ NestOK(nest)
    BY <1>1 DEF Ending, TreeInv
  <1>3. /\ groups \in Seq(Group) /\ Len(groups) \in Nat /\ Len(groups) >= 1
    BY LenProperties DEF ScanInv, Stacked
  <1> DEFINE d == Depth(Current)
  <1>4. d \in Nat
    <2>1. nest \in Seq(Expr) /\ 1 \in 1..Len(nest)
      BY <1>1, <1>2 DEF NestOK
    <2>2. Current = nest[1]
      BY <1>1 DEF Current
    <2> QED BY <2>1, <2>2, ExprNumbers
  <1>5. Reached(groups, d)
    <2>1. CASE text.sql
      <3>1. Fits(nest, groups, Len(groups) + 1, Spare) /\ Spare \in Nat
        BY <1>1, <2>1, GoodReady, ReadyFacts DEF Ready
      <3>2. PICK at, p : /\ Tally(groups, p)
                         /\ Matched(nest, groups, at, Len(groups) + 1)
                         /\ Measured(nest, groups, at, p, Len(groups) + 1, Spare)
        BY <3>1 DEF Fits
      <3>3. nest \in Seq(Expr) /\ Len(nest) >= 1
        BY <1>2 DEF NestOK
      <3>4. \E i \in at[Len(nest)]..Len(groups) :
               Depth(nest[Len(nest)]) + p[at[Len(nest)] - 1]
                  <= Height(groups, p, i)
        BY <1>3, <3>1, <3>2, <3>3, DepthReached
      <3>5. at[1] = 1 /\ p[0] = 0 /\ 1 - 1 = 0
        BY <3>2 DEF Matched, Tally
      <3>6. \E i \in 1..Len(groups) : d + 0 <= Height(groups, p, i)
        BY <1>1, <3>4, <3>5 DEF Current
      <3>7. d + 0 = d
        BY <1>4
      <3> HIDE DEF d
      <3> QED BY <3>2, <3>6, <3>7 DEF Reached
    <2>2. CASE ~text.sql
      <3>1. d = 0
        BY <2>2, FreshTree DEF TreeInv, Current
      <3> DEFINE p == [i \in 0..Len(groups) |-> 0]
      <3>2. /\ p \in [0..Len(groups) -> Nat]
            /\ \A i \in 0..Len(groups) : p[i] = 0
            /\ \A i \in 1..Len(groups) : i \in 0..Len(groups)
                                         /\ i - 1 \in 0..Len(groups)
            /\ 0 \in 0..Len(groups) /\ 1 \in 1..Len(groups)
        BY <1>3
      <3> HIDE DEF p
      <3>3. Tally(groups, p)
        <4>1. \A i \in 1..Len(groups) : p[i] <= p[i - 1] + groups[i].current
          <5> SUFFICES ASSUME NEW i \in 1..Len(groups)
                       PROVE  p[i] <= p[i - 1] + groups[i].current
            OBVIOUS
          <5>1. groups[i].current \in Nat
            <6>1. groups[i] \in Group
              BY <1>3, ElementOfSeq
            <6> QED BY <6>1 DEF Group
          <5> QED BY <3>2, <5>1
        <4>2. \A i, j \in 0..Len(groups) : i <= j => p[i] <= p[j]
          BY <3>2
        <4> QED BY <3>2, <4>1, <4>2 DEF Tally
      <3>4. Height(groups, p, 1) \in Nat
        BY <1>3, <3>2, <3>3, GroupNumbers
      <3>5. d <= Height(groups, p, 1)
        BY <3>1, <3>4
      <3> HIDE DEF d
      <3> QED BY <3>2, <3>3, <3>5 DEF Reached
    <2> QED BY <2>1, <2>2
  <1> HIDE DEF d
  <1>6. /\ depths' \in Seq(Nat) /\ Len(depths') = Len(depths) + 1
        /\ depths'[Len(depths) + 1] = d
        /\ \A i \in 1..Len(depths) : depths'[i] = depths[i]
    BY <1>1, <1>2, <1>4, AppendProperties DEF d
  <1>7. NeverUndercounts'
    <2>1. DOMAIN counts = 1..Len(depths)
      <3>1. counts \in Seq([set_operators : Nat, infix_chain : Nat])
        BY DEF ScanInv, ScanTypeOK
      <3> QED BY <3>1, <1>2, LenProperties
    <2>2. NeverUndercounts
      BY DEF TreeInv
    <2> QED BY <2>1, <2>2, <1>1, <1>6 DEF NeverUndercounts
  <1>8. Reached(groups', depths'[Len(depths')])
    BY <1>1, <1>5, <1>6
  <1>9. NestOK(nest')
    BY <1>1, FreshTree
  <1> QED BY <1>1, <1>2, <1>6, <1>7, <1>8, <1>9 DEF TreeInv

-----------------------------------------------------------------------------
\* The invariant holds while groups close, so the chains are long enough.

\* One group closes; the loop still aims where it did.
LEMMA CloseOneGood ==
    ASSUME ScanInv, Good, CloseOne,
           UNCHANGED <<nest, place, depths>>
    PROVE  Good'
  <1> DEFINE L == Len(groups)
  <1>1. PICK q : Target(groups, closing, q) /\ Fits(nest, groups, q, Spare)
    BY DEF Good
  <1>2. /\ groups \in Seq(Group) /\ L \in Nat /\ L > 1 /\ Top = groups[L]
    <2>1. groups \in Seq(Group) /\ L \in Nat
      BY LenProperties DEF ScanInv, Stacked
    <2>2. L > 1
      <3>1. CASE closing = "Angles"
        BY <3>1 DEF ScanInv, Aimed
      <3>2. CASE closing \in GroupKinds \ {"Statement"}
        <4>1. PICK i \in 2..L : groups[i].kind = closing
          BY <3>2 DEF ScanInv, Aimed
        <4> QED BY <2>1, <4>1
      <3> QED BY <3>1, <3>2 DEF CloseOne
    <2> QED BY <2>1, <2>2 DEF Top
  <1>3. groups' = Popped(groups)
    BY DEF CloseOne, CloseTop, Popped, Top
  <1>4. /\ UNCHANGED <<after_operand, operand, previous>>
        /\ closing \in (GroupKinds \ {"Statement"}) \cup {"Angles"}
    BY DEF CloseOne
  <1>5. /\ Popped(groups) \in Seq(Group) /\ Len(Popped(groups)) = L - 1
        /\ \A i \in 1..(L - 1) : Popped(groups)[i].kind = groups[i].kind
    BY <1>2, PoppedGroups
  <1>6. Shaped(groups')
    BY <1>2, <1>3, ShapedPopped DEF Good
  <1>7. Lex' /\ NestOK(nest)' /\ Spare' = Spare
    BY <1>4 DEF Good, Lex, Named, Current, Spare
  <1>8. nest \in Seq(Expr) /\ Len(nest) >= 1 /\ Spare \in Nat
    BY DEF Good, NestOK, Spare
  <1>9. q \in 1..L => Fits(nest', groups', q, Spare')
    BY <1>1, <1>2, <1>3, <1>7, <1>8, Closes
  <1>10. q \in 1..L /\ Target(groups', closing', q)
    <2>1. CASE closing = "Angles"
      <3>1. /\ q = L - 1 /\ q > 1
            /\ groups[q].kind = "Angle" /\ groups[q + 1].kind = "Angle"
        BY <1>1, <2>1 DEF Target
      <3>2. closing' = "Angle"
        BY <2>1, <3>1 DEF CloseOne
      <3>3. q \in 2..(L - 1) /\ q \in 1..(L - 1) /\ q \in 1..L
        BY <1>2, <3>1
      <3>4. groups'[q].kind = "Angle"
        BY <1>3, <1>5, <3>1, <3>3
      <3>5. \A i \in (q + 1)..(L - 1) : FALSE
        BY <1>2, <3>1
      <3>6. Len(groups') = L - 1
        BY <1>3, <1>5
      <3> HIDE DEF L
      <3> QED BY <3>2, <3>3, <3>4, <3>5, <3>6 DEF Target
    <2>2. CASE closing \in GroupKinds \ {"Statement"}
      <3>1. /\ q \in 2..L /\ groups[q].kind = closing
            /\ \A i \in (q + 1)..L : groups[i].kind # closing
        BY <1>1, <2>2 DEF Target
      <3>2. q \in 1..L /\ q \in Nat
        BY <1>2, <3>1
      <3>3. Len(groups') = L - 1
        BY <1>3, <1>5
      <3>4. closing' = IF Top.kind = closing THEN "none" ELSE closing
        BY <2>2 DEF CloseOne, GroupKinds
      <3>5. CASE Top.kind = closing
        <4>1. q = L
          <5>1. q # L => L \in (q + 1)..L
            BY <1>2, <3>1
          <5> QED BY <5>1, <3>1, <3>5, <1>2
        <4>2. q = Len(groups') + 1
          BY <4>1, <3>3, <1>2
        <4>3. closing' = "none"
          BY <3>4, <3>5
        <4> QED BY <3>2, <4>2, <4>3 DEF Target, GroupKinds
      <3>6. CASE Top.kind # closing
        <4>1. q # L
          BY <3>1, <3>6, <1>2
        <4>2. q \in 2..(L - 1) /\ q \in 1..(L - 1)
          BY <3>1, <4>1, <1>2
        <4>3. groups'[q].kind = closing
          BY <4>2, <3>1, <1>3, <1>5
        <4>4. \A i \in (q + 1)..(L - 1) : groups'[i].kind # closing
          <5>1. \A i \in (q + 1)..(L - 1) : i \in 1..(L - 1) /\ i \in (q + 1)..L
            BY <3>2, <1>2
          <5> QED BY <5>1, <3>1, <1>3, <1>5
        <4>5. closing' = closing /\ closing # "none" /\ closing # "Angles"
          BY <2>2, <3>4, <3>6 DEF GroupKinds
        <4> HIDE DEF L
        <4> QED BY <3>2, <3>3, <4>2, <4>3, <4>4, <4>5 DEF Target
      <3> QED BY <3>5, <3>6
    <2> QED BY <1>4, <2>1, <2>2
  <1> QED BY <1>6, <1>7, <1>9, <1>10 DEF Good

\* The steps of the loops keep the invariant.
LEMMA CloseKeeps ==
    ASSUME ScanInv, TreeInv, CloseOne, UNCHANGED <<nest, place, depths>>
    PROVE  TreeInv'
  <1>1. /\ text' = text /\ counts' = counts
        /\ closing \in (GroupKinds \ {"Statement"}) \cup {"Angles"}
    BY DEF CloseOne
  <1>2. closing' \in (GroupKinds \ {"Statement"}) \cup {"none"}
    BY <1>1 DEF CloseOne, GroupKinds
  <1>3. ~Ending /\ closing # "checked" /\ ~Ending'
    BY <1>1, <1>2 DEF Ending, GroupKinds
  <1>4. ASSUME text.sql PROVE Good'
    BY <1>3, <1>4, CloseOneGood DEF TreeInv
  <1>5. NeverUndercounts'
    BY <1>1 DEF TreeInv, NeverUndercounts
  <1> QED BY <1>1, <1>3, <1>4, <1>5 DEF TreeInv

\* The loop that closes the group it looked for comes to its end.
LEMMA FinishKeepsTree ==
    ASSUME ScanInv, TreeInv, Finish, UNCHANGED <<nest, place, depths>>
    PROVE  TreeInv'
  <1>1. /\ text' = text /\ counts' = counts /\ closing' = closing
        /\ closing \in {"Statement", "Text"} /\ Len(groups) > 1
        /\ groups' = Popped(groups)
    BY DEF Finish, CloseTop, Popped, Top
  <1>2. Ending /\ Ending'
    BY <1>1 DEF Ending
  <1>3. groups \in Seq(Group)
    BY DEF ScanInv, Stacked
  <1> DEFINE d == depths[Len(depths)]
  <1>4. /\ depths \in Seq(Nat) /\ Len(depths) = Len(counts) + 1
        /\ Reached(groups, d)
    BY <1>2 DEF TreeInv
  <1>5. d \in Nat
    <2>1. Len(counts) \in Nat
      BY LenProperties DEF ScanInv, ScanTypeOK
    <2>2. Len(depths) \in 1..Len(depths)
      BY <1>4, <2>1
    <2> QED BY <1>4, <2>2, ElementOfSeq
  <1> HIDE DEF d
  <1>6. Reached(Popped(groups), d)
    BY <1>1, <1>3, <1>4, <1>5, CloseHeight DEF Reached
  <1>7. Reached(groups', depths'[Len(depths')])
    BY <1>1, <1>6 DEF d
  <1>8. NeverUndercounts'
    BY <1>1 DEF TreeInv, NeverUndercounts
  <1> QED BY <1>1, <1>2, <1>7, <1>8 DEF TreeInv

\* The chain of a statement is found.
LEMMA FinishedKeepsTree ==
    ASSUME ScanInv, TreeInv, Finished, UNCHANGED <<nest, place, depths>>
    PROVE  TreeInv'
  <1>1. /\ text' = text /\ closing \in {"Statement", "Text"}
        /\ closing' \in {"none", "checked"} /\ Len(groups) = 1
        /\ groups' = NoGroups /\ after_operand' = FALSE
        /\ operand' = "Unknown" /\ previous' = "Other"
        /\ counts' = Append(counts, [set_operators |-> set_operators,
                                     infix_chain |-> Chain(Top)])
    BY DEF Finished
  <1>2. Ending /\ ~Ending'
    BY <1>1 DEF Ending
  <1> DEFINE n == Len(counts)
             d == depths[n + 1]
             c == [set_operators |-> set_operators, infix_chain |-> Chain(Top)]
  <1>3. /\ nest = Outermost
        /\ text.sql => place = "start"
        /\ Len(depths) = n + 1 /\ Reached(groups, d)
        /\ depths \in Seq(Nat) /\ NeverUndercounts
    BY <1>2 DEF TreeInv
  <1>4. /\ counts \in Seq([set_operators : Nat, infix_chain : Nat])
        /\ n \in Nat /\ DOMAIN counts = 1..n
        /\ groups \in Seq(Group) /\ set_operators \in Nat
    BY LenProperties DEF ScanInv, ScanTypeOK
  <1>5. Chain(Top) \in Nat /\ d <= Chain(Top)
    <2>1. PICK p : Tally(groups, p) /\ \E i \in 1..1 : d <= Height(groups, p, i)
      BY <1>1, <1>3 DEF Reached
    <2>2. 1 \in 1..Len(groups) /\ 1 - 1 = 0 /\ \A i \in 1..1 : i = 1
      BY <1>1
    <2>3. p[0] = 0 /\ Top = groups[1]
      BY <1>1, <2>1 DEF Tally, Top
    <2>4. Chain(groups[1]) \in Nat
      BY <1>4, <2>2, ElementOfSeq, GroupTypes
    <2>5. d <= Height(groups, p, 1)
      BY <2>1, <2>2
    <2>6. Height(groups, p, 1) = 0 + Chain(groups[1])
      BY <2>2, <2>3 DEF Height
    <2>7. 0 + Chain(groups[1]) = Chain(groups[1])
      BY <2>4
    <2> HIDE DEF d
    <2> QED BY <2>3, <2>4, <2>5, <2>6, <2>7
  <1>6. c \in [set_operators : Nat, infix_chain : Nat]
    BY <1>4, <1>5
  <1>7. c.infix_chain = Chain(Top)
    OBVIOUS
  <1> HIDE DEF c
  <1>8. /\ counts' \in Seq([set_operators : Nat, infix_chain : Nat])
        /\ Len(counts') = n + 1 /\ DOMAIN counts' = 1..(n + 1)
        /\ counts'[n + 1] = c
        /\ \A i \in 1..n : counts'[i] = counts[i]
    <2>1. counts' = Append(counts, c)
      BY <1>1 DEF c
    <2> QED BY <1>4, <1>6, <2>1, AppendProperties, LenProperties
  <1>9. NeverUndercounts'
    <2> SUFFICES ASSUME NEW i \in 1..(n + 1)
                 PROVE  depths[i] <= counts'[i].infix_chain
      BY <1>8 DEF NeverUndercounts
    <2>1. CASE i = n + 1
      BY <2>1, <1>5, <1>7, <1>8
    <2>2. CASE i \in 1..n
      BY <2>2, <1>3, <1>4, <1>8 DEF NeverUndercounts
    <2> QED BY <2>1, <2>2, <1>4
  <1>10. ASSUME text.sql, closing' = "none" PROVE Good'
    <2>1. place' = "start" /\ nest' = Outermost
      BY <1>3, <1>10
    <2>2. Current' = Outermost[1]
      BY <2>1, FreshTree DEF Current
    <2>3. Lex'
      BY <1>1, <2>1, <2>2, FreshTree DEF Lex, Named
    <2>4. Spare' = 0
      BY <2>1 DEF Spare
    <2>5. Target(groups', closing', 2)
      BY <1>1, <1>10, FreshTree DEF Target, GroupKinds
    <2>6. NestOK(nest') /\ Shaped(groups') /\ Fits(nest', groups', 2, Spare')
      BY <1>1, <2>1, <2>4, FreshTree
    <2> QED BY <2>3, <2>5, <2>6 DEF Good
  <1>11. NestOK(nest)' /\ Len(depths') = Len(counts')
    BY <1>3, <1>8, FreshTree
  <1> HIDE DEF n, d
  <1> QED BY <1>1, <1>2, <1>3, <1>9, <1>10, <1>11 DEF TreeInv

\* The check of the limit, and stuttering, change nothing of this.
LEMMA TreeStays ==
    ASSUME TreeInv,
           UNCHANGED <<text, groups, after_operand, operand, previous>>,
           UNCHANGED <<closing, counts, nest, place, depths>>
    PROVE  TreeInv'
  <1>1. Ending' = Ending /\ NeverUndercounts'
    BY DEF Ending, TreeInv, NeverUndercounts
  <1>2. Good => Good'
    <2>1. Spare' = Spare /\ Current' = Current
      BY DEF Spare, Current
    <2>2. Lex => Lex'
      BY <2>1 DEF Lex, Named
    <2> QED BY <2>1, <2>2 DEF Good
  <1> QED BY <1>1, <1>2 DEF TreeInv

\* Every step keeps both invariants.
LEMMA TreeKeeps ==
    ASSUME AlsoNames = {}, ScanInv, TreeInv, [DepthNext]_depthVars
    PROVE  ScanInv' /\ TreeInv'
  <1>1. ScanInv'
    <2>1. [ScanNext]_scanVars
      <3>1. ASSUME NEW t \in text.tokens, Word(t) PROVE ScanNext
        BY <3>1, WordSteps DEF ScanNext
      <3>2. CASE End
        BY <3>2 DEF End, ScanNext, Rest
      <3>3. CASE CloseOne \/ Finish \/ Finished \/ Check
        BY <3>3 DEF ScanNext, Rest
      <3>4. CASE UNCHANGED depthVars
        BY <3>4 DEF depthVars
      <3> QED BY <3>1, <3>2, <3>3, <3>4 DEF DepthNext
    <2> QED BY <2>1, NextKeeps
  <1>2. TreeInv'
    <2>1. ASSUME NEW t \in text.tokens, Word(t) PROVE TreeInv'
      BY <2>1, WordKeeps
    <2>2. CASE End
      BY <2>2, EndKeeps
    <2>3. CASE /\ CloseOne \/ Finish \/ Finished \/ Check
               /\ UNCHANGED <<nest, place, depths>>
      <3>1. CASE CloseOne
        BY <2>3, <3>1, CloseKeeps
      <3>2. CASE Finish
        BY <2>3, <3>2, FinishKeepsTree
      <3>3. CASE Finished
        BY <2>3, <3>3, FinishedKeepsTree
      <3>4. CASE Check
        <4>1. /\ UNCHANGED <<text, groups, after_operand, operand, previous>>
              /\ UNCHANGED <<closing, counts, nest, place, depths>>
          BY <2>3, <3>4 DEF Check
        <4> QED BY <4>1, TreeStays
      <3> QED BY <2>3, <3>1, <3>2, <3>3, <3>4
    <2>4. CASE UNCHANGED depthVars
      <3>1. /\ UNCHANGED <<text, groups, after_operand, operand, previous>>
            /\ UNCHANGED <<closing, counts, nest, place, depths>>
        BY <2>4 DEF depthVars, scanVars
      <3> QED BY <3>1, TreeStays
    <2> QED BY <2>1, <2>2, <2>3, <2>4 DEF DepthNext
  <1> QED BY <1>1, <1>2

\* The scan finds the chain of every statement at least as long as the tree
\* of that statement is deep, of every text the writer writes.
THEOREM NoUndercount ==
    ASSUME AlsoNames = {}
    PROVE  DepthSpec => []NeverUndercounts
  <1>1. DepthInit => ScanInv /\ TreeInv
    BY Begins, TreeBegins DEF DepthInit
  <1>2. ScanInv /\ TreeInv /\ [DepthNext]_depthVars => (ScanInv /\ TreeInv)'
    BY TreeKeeps
  <1>3. TreeInv => NeverUndercounts
    BY DEF TreeInv
  <1> QED BY <1>1, <1>2, <1>3, PTL DEF DepthSpec
=============================================================================
