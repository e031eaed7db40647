------------------------- MODULE BudgetedWalkProofs -------------------------
(***************************************************************************)
(* Proofs about BudgetedWalk, for every graph, every query and every       *)
(* moment of cancellation.                                                 *)
(*                                                                         *)
(* The argument for a complete report is the classical one for a search by *)
(* levels.  The queue is ordered by distance and spans at most two levels  *)
(* (QueueOrdered, Frontier), so a vertex that is observed again is never   *)
(* recorded too far away; and every edge of a vertex that has left the     *)
(* queue is either accounted for or still pending (ExpandedOK).  A walk    *)
(* that ends with an empty queue has then accounted for every edge.        *)
(***************************************************************************)
EXTENDS BudgetedWalk, FiniteSetTheorems, SequenceTheorems, WellFoundedInduction,
        TLAPS

-----------------------------------------------------------------------------
(* Induction on natural numbers without operator parameters: a property is *)
(* a set of numbers.                                                       *)

\* A set of natural numbers has a least element.
LEMMA LeastNatural ==
    ASSUME NEW S \in SUBSET Nat, S # {}
    PROVE  \E n \in S : \A m \in S : n <= m
  <1> DEFINE R == OpToRel(<, Nat)
  <1>1. IsWellFoundedOn(R, Nat)
    BY NatLessThanWellFounded
  <1>2. \A x, y \in Nat : <<y, x>> \in R <=> y < x
    BY DEF OpToRel
  <1> HIDE DEF R
  <1>3. PICK x \in S : \A y \in S : ~ (<<y, x>> \in R)
    <2>1. S \subseteq Nat /\ S # {}
      OBVIOUS
    <2> QED BY <1>1, <2>1, WFMin
  <1>4. ASSUME NEW y \in S PROVE x <= y
    <2>1. x \in Nat /\ y \in Nat
      OBVIOUS
    <2>2. ~ (y < x)
      BY <1>2, <1>3, <2>1
    <2> QED BY <2>1, <2>2
  <1> QED BY <1>4

\* A set that holds 0 and the successor of whatever it holds below n holds
\* every number up to n.
LEMMA InductionTo ==
    ASSUME NEW n \in Nat, NEW S,
           0 \in S, \A k \in 1..n : k - 1 \in S => k \in S
    PROVE  0..n \subseteq S
  <1> DEFINE Bad == (0..n) \ S
  <1>1. SUFFICES ASSUME Bad # {} PROVE FALSE
    OBVIOUS
  <1>2. PICK k \in Bad : \A m \in Bad : k <= m
    <2>1. Bad \in SUBSET Nat
      OBVIOUS
    <2> HIDE DEF Bad
    <2> QED BY <1>1, <2>1, LeastNatural
  <1>3. k \in 1..n /\ k - 1 \in 0..n
    OBVIOUS
  <1>4. k - 1 \in S
    BY <1>2, <1>3
  <1> QED BY <1>3, <1>4

\* f is the sequence a, Step(a), Step(Step(a)), ... of n + 1 elements.
Iterates(f, n, a, step) ==
    f = [k \in 0..n |-> IF k = 0 THEN a ELSE step[f[k - 1]]]

LEMMA IteratesExist ==
    ASSUME NEW n \in Nat, NEW V, NEW a \in V, NEW step \in [V -> V]
    PROVE  \E f \in [0..n -> V] : Iterates(f, n, a, step)
  <1> DEFINE P(m) == \E f \in [0..m -> V] : Iterates(f, m, a, step)
             S == {m \in 0..n : P(m)}
  <1>1. P(0)
    <2> DEFINE f == [k \in 0..0 |-> a]
    <2>1. f \in [0..0 -> V]
      OBVIOUS
    <2>2. Iterates(f, 0, a, step)
      <3>1. \A k \in 0..0 : k = 0
        OBVIOUS
      <3> QED BY <3>1 DEF Iterates
    <2> QED BY <2>1, <2>2
  <1>2. ASSUME NEW m \in 1..n, P(m - 1) PROVE P(m)
    <2>1. PICK f \in [0..(m - 1) -> V] : Iterates(f, m - 1, a, step)
      BY <1>2
    <2> DEFINE g == [k \in 0..m |-> IF k = m THEN step[f[m - 1]] ELSE f[k]]
    <2>2. m \in Nat /\ m # 0 /\ m - 1 \in 0..(m - 1)
      OBVIOUS
    <2>3. ASSUME NEW k \in 0..m, k # m PROVE k \in 0..(m - 1)
      BY <2>2, <2>3
    <2>4. g \in [0..m -> V]
      BY <2>2, <2>3
    <2>5. ASSUME NEW k \in 0..m
          PROVE  g[k] = IF k = 0 THEN a ELSE step[g[k - 1]]
      <3>1. CASE k = m
        <4>1. g[k - 1] = f[m - 1]
          BY <3>1, <2>2
        <4> QED BY <3>1, <4>1, <2>2
      <3>2. CASE k # m
        <4>1. k \in 0..(m - 1)
          BY <3>2, <2>3
        <4>2. f[k] = IF k = 0 THEN a ELSE step[f[k - 1]]
          BY <4>1, <2>1 DEF Iterates
        <4>3. k # 0 => k - 1 \in 0..m /\ k - 1 # m
          BY <4>1, <2>2
        <4> QED BY <3>2, <4>2, <4>3
      <3> QED BY <3>1, <3>2
    <2>6. Iterates(g, m, a, step)
      <3>1. g = [k \in 0..m |-> g[k]]
        OBVIOUS
      <3> HIDE DEF g
      <3> QED BY <3>1, <2>5 DEF Iterates
    <2> HIDE DEF g
    <2> QED BY <2>4, <2>6
  <1> HIDE DEF P
  <1>3. 0 \in S
    BY <1>1
  <1>4. \A k \in 1..n : k - 1 \in S => k \in S
    BY <1>2
  <1> HIDE DEF S
  <1>5. 0..n \subseteq S
    BY <1>3, <1>4, InductionTo
  <1>6. n \in S
    BY <1>5
  <1> QED BY <1>6 DEF S, P
-----------------------------------------------------------------------------
Searching == pc \in {"pop", "scan"}

\* The search ended by itself, or may still turn out to have.
Unlimited ==
    \/ Searching
    \/ pc = "collect" /\ reasons \subseteq {"result-limit"}
    \/ pc = "done" /\ complete

CountOK ==
    /\ IsFiniteSet(DOMAIN seen)
    /\ visited = Cardinality(DOMAIN seen)
    /\ visited <= query.maxVisited
    /\ examined <= query.maxEdges

RootOK ==
    \/ /\ pc \in {"start", "done"} /\ ~complete
       /\ DOMAIN seen = {} /\ visited = 0 /\ neighbors = {}
    \/ /\ pc # "start"
       /\ query.root \in DOMAIN seen
       /\ seen[query.root].distance = 0

OutputOK ==
    /\ pc # "done" => ~complete
    /\ pc \in {"pop", "scan"} => neighbors = {}
    /\ pc = "collect" => neighbors \subseteq DOMAIN seen \ {query.root}
    /\ pc = "done" => Cardinality(neighbors) <= query.maxResults
    /\ pc = "done" /\ complete =>
          neighbors = Truncated(DOMAIN seen \ {query.root})

QueueOrdered ==
    \A i, j \in DOMAIN queue :
        i <= j => seen[queue[i]].distance <= seen[queue[j]].distance

PopFrontier ==
    pc = "pop" /\ queue # << >> =>
        \A v \in DOMAIN seen :
            seen[v].distance <= seen[Head(queue)].distance + 1

ScanFrontier ==
    pc = "scan" =>
        /\ seen[current].distance < query.depth
        /\ pending \subseteq Adjacent(current)
        /\ \A v \in DOMAIN seen :
              seen[v].distance <= seen[current].distance + 1
        /\ \A i \in DOMAIN queue :
              seen[current].distance <= seen[queue[i]].distance

LevelsOK == QueueOrdered /\ PopFrontier /\ ScanFrontier

Waiting(u) == \E i \in DOMAIN queue : queue[i] = u

Settled(u, e) ==
    \/ Accounted(u, e)
    \/ pc = "scan" /\ u = current /\ e \in pending

ExpandedOK ==
    Unlimited =>
        \A u \in DOMAIN seen :
            seen[u].distance < query.depth /\ ~Waiting(u) =>
                \A e \in Adjacent(u) : Settled(u, e)

QueueDrained == Unlimited /\ ~Searching => queue = << >>

ClosureOK == ExpandedOK /\ QueueDrained

Inv ==
    /\ TypeOK /\ CountOK /\ RootOK /\ OutputOK
    /\ LevelsOK /\ ClosureOK /\ RecordsAreReal

----------------------------------------------------------------------------
(* Lemmas about the operators.                                             *)

LEMMA QueryFacts ==
    ASSUME TypeOK
    PROVE  /\ query.root \in Ids /\ query.depth \in Nat
           /\ query.maxResults \in Nat /\ query.maxVisited \in Nat
           /\ query.maxEdges \in Nat
           /\ graph \subseteq Edges
  BY WalkAssumption DEF TypeOK

LEMMA EdgeFacts ==
    ASSUME TypeOK, NEW e \in graph
    PROVE  Next1(e) \in Ids /\ Here(e) \in Ids /\ e.kind \in Kinds
  BY QueryFacts DEF Edges, Next1, Here

LEMMA ObserveFacts ==
    ASSUME NEW reach \in Reach, NEW parent \in Ids, NEW d \in Nat,
           NEW kind \in Kinds
    PROVE  /\ Observe(reach, parent, d, kind) \in Reach
           /\ Observe(reach, parent, d, kind).distance = reach.distance
           /\ Observe(reach, parent, d, kind).edges = reach.edges \cup {kind}
           /\ Observe(reach, parent, d, kind).via =
                 IF d + 1 = reach.distance /\ parent < reach.via
                 THEN parent ELSE reach.via
  BY DEF Observe, Reach

LEMMA DiscoveredFacts ==
    ASSUME NEW parent \in Ids, NEW d \in Nat, NEW kind \in Kinds
    PROVE  /\ Discovered(parent, d, kind) \in Reach
           /\ Discovered(parent, d, kind).distance = d + 1
           /\ Discovered(parent, d, kind).edges = {kind}
           /\ Discovered(parent, d, kind).via = parent
  BY DEF Discovered, Reach

\* The ranks of the ids that are kept are pairwise different and below the
\* limit.
LEMMA TruncatedBound ==
    ASSUME NEW S \in SUBSET Nat, IsFiniteSet(S), query.maxResults \in Nat
    PROVE  Cardinality(Truncated(S)) <= query.maxResults
  <1> DEFINE Below(v) == {w \in S : w < v}
             T == Truncated(S)
             Ranks == 0..(query.maxResults - 1)
             rank == [v \in T |-> Cardinality(Below(v))]
  <1>1. \A v \in S : IsFiniteSet(Below(v)) /\ Cardinality(Below(v)) \in Nat
    BY FS_Subset, FS_CardinalityType
  <1>2. rank \in [T -> Ranks]
    <2>1. ASSUME NEW v \in T PROVE Cardinality(Below(v)) \in Ranks
      <3>1. v \in S /\ Cardinality(Below(v)) < query.maxResults
        BY DEF Truncated
      <3> QED BY <3>1, <1>1
    <2> HIDE DEF T, Ranks, Below
    <2> QED BY <2>1
  <1>3. ASSUME NEW u \in T, NEW v \in T, u < v
        PROVE  rank[u] # rank[v]
    <2>1. u \in S /\ v \in S
      BY DEF Truncated
    <2>2. Below(u) \subseteq Below(v) /\ u \in Below(v) /\ u \notin Below(u)
      <3>1. u \in Nat /\ v \in Nat
        BY <2>1
      <3>2. ASSUME NEW w \in Below(u) PROVE w \in Below(v)
        <4>1. w \in Nat /\ w \in S /\ w < u
          OBVIOUS
        <4> QED BY <4>1, <3>1, <1>3
      <3>3. u \in Below(v)
        BY <2>1, <1>3
      <3>4. u \notin Below(u)
        BY <3>1
      <3> HIDE DEF Below
      <3> QED BY <3>2, <3>3, <3>4
    <2>3. Cardinality(Below(u)) # Cardinality(Below(v))
      BY <2>1, <2>2, <1>1, FS_Subset
    <2> QED BY <2>3
  <1>4. rank \in Injection(T, Ranks)
    <2>1. ASSUME NEW u \in T, NEW v \in T, rank[u] = rank[v] PROVE u = v
      <3>1. u \in Nat /\ v \in Nat
        BY DEF Truncated
      <3>2. ~(u < v) /\ ~(v < u)
        BY <1>3, <2>1
      <3> QED BY <3>1, <3>2
    <2>2. rank \in {f \in [T -> Ranks] :
                        \A u, v \in T : f[u] = f[v] => u = v}
      <3> HIDE DEF rank, T, Ranks
      <3> QED BY <1>2, <2>1
    <2> QED BY <2>2 DEF Injection, IsInjective
  <1>5. IsFiniteSet(Ranks) /\ Cardinality(Ranks) = query.maxResults
    <2>1. 0 \in Int /\ query.maxResults - 1 \in Int
      OBVIOUS
    <2>2. IsFiniteSet(0..(query.maxResults - 1))
      BY <2>1, FS_Interval
    <2>3. Cardinality(0..(query.maxResults - 1)) =
             IF 0 > query.maxResults - 1 THEN 0
             ELSE query.maxResults - 1 - 0 + 1
      BY <2>1, FS_Interval
    <2> QED BY <2>2, <2>3
  <1> HIDE DEF rank, T, Ranks
  <1>6. Cardinality(T) <= Cardinality(Ranks)
    BY <1>4, <1>5, FS_Injection
  <1> QED BY <1>5, <1>6 DEF T

LEMMA EmptyDomain == DOMAIN << >> = {}
  <1>1. << >> \in Seq({}) /\ Len(<< >>) = 0
    BY EmptySeq
  <1> QED BY <1>1, LenProperties
----------------------------------------------------------------------------
(* What one edge does to the records.                                      *)

\* What a step may do to the records: add some, add kinds and lower a `via`,
\* but neither move a vertex nor forget one.
Grows ==
    /\ DOMAIN seen \subseteq DOMAIN seen'
    /\ \A v \in DOMAIN seen :
          /\ seen'[v].distance = seen[v].distance
          /\ seen[v].edges \subseteq seen'[v].edges
          /\ seen'[v].via <= seen[v].via

LEMMA ExamineFresh ==
    ASSUME TypeOK, pc = "scan", NEW e \in pending, Examine(e),
           Fresh(Next1(e)), ~Overflows(Next1(e))
    PROVE  LET next == Next1(e)
               d == seen[current].distance
           IN /\ next \in Vertices /\ next \notin DOMAIN seen
              /\ next # query.root
              /\ ~(Cardinality(DOMAIN seen) >= query.maxVisited)
              /\ DOMAIN seen' = DOMAIN seen \cup {next}
              /\ \A v \in DOMAIN seen : seen'[v] = seen[v]
              /\ seen'[next] = Discovered(current, d, e.kind)
              /\ visited' = visited + 1
              /\ queue' = Append(queue, next)
              /\ UNCHANGED <<pc, reasons>>
  BY DEF TypeOK, Examine, Fresh, Registered, Overflows

LEMMA ExamineAgain ==
    ASSUME TypeOK, pc = "scan", NEW e \in pending, Examine(e),
           Next1(e) # query.root, Next1(e) \in DOMAIN seen
    PROVE  LET next == Next1(e)
               d == seen[current].distance
           IN /\ DOMAIN seen' = DOMAIN seen
              /\ \A v \in DOMAIN seen : v # next => seen'[v] = seen[v]
              /\ seen'[next] = Observe(seen[next], current, d, e.kind)
              /\ UNCHANGED <<visited, queue, pc, reasons>>
  BY DEF Examine, Fresh, Overflows

LEMMA ExamineElse ==
    ASSUME TypeOK, pc = "scan", NEW e \in pending, Examine(e),
           ~(Fresh(Next1(e)) /\ ~Overflows(Next1(e))),
           ~(Next1(e) # query.root /\ Next1(e) \in DOMAIN seen)
    PROVE  /\ UNCHANGED <<seen, visited, queue>>
           /\ \/ UNCHANGED <<pc, reasons>> /\ ~Overflows(Next1(e))
              \/ /\ reasons' = reasons \cup {"visited-limit"}
                 /\ pc' = "collect" /\ Overflows(Next1(e))
  BY DEF Examine

LEMMA ExamineTypes ==
    ASSUME TypeOK, pc = "scan", NEW e \in pending, Examine(e),
           UNCHANGED <<graph, query>>
    PROVE  /\ DOMAIN seen' \subseteq Vertices
           /\ \A v \in DOMAIN seen' : seen'[v] \in Reach
           /\ queue' \in Seq(DOMAIN seen')
           /\ current \in DOMAIN seen'
           /\ Grows
  <1> DEFINE next == Next1(e)
             d == seen[current].distance
  <1>1. /\ e \in graph /\ current \in DOMAIN seen /\ current \in Ids
        /\ seen[current] \in Reach /\ d \in Nat
        /\ e.kind \in Kinds /\ next \in Ids
    BY EdgeFacts, WalkAssumption DEF TypeOK, Reach
  <1>2. \A v \in DOMAIN seen : seen[v] \in Reach /\ seen[v].via \in Nat
    BY WalkAssumption DEF TypeOK, Reach
  <1>3. queue \in Seq(DOMAIN seen) /\ DOMAIN seen \subseteq Vertices
    BY DEF TypeOK
  <1>4. CASE Fresh(next) /\ ~Overflows(next)
    <2>1. /\ next \in Vertices
          /\ DOMAIN seen' = DOMAIN seen \cup {next}
          /\ \A v \in DOMAIN seen : seen'[v] = seen[v]
          /\ seen'[next] = Discovered(current, d, e.kind)
          /\ queue' = Append(queue, next)
      BY <1>4, ExamineFresh
    <2>2. seen'[next] \in Reach
      BY <1>1, <2>1, DiscoveredFacts
    <2>3. queue \in Seq(DOMAIN seen')
      BY <1>3, <2>1, SeqMonotonic
    <2>4. queue' \in Seq(DOMAIN seen')
      BY <2>1, <2>3, AppendProperties
    <2>5. Grows
      BY <1>2, <2>1 DEF Grows
    <2> QED BY <1>1, <1>2, <1>3, <2>1, <2>2, <2>4, <2>5
  <1>5. CASE next # query.root /\ next \in DOMAIN seen
    <2>1. /\ DOMAIN seen' = DOMAIN seen
          /\ \A v \in DOMAIN seen : v # next => seen'[v] = seen[v]
          /\ seen'[next] = Observe(seen[next], current, d, e.kind)
          /\ queue' = queue
      BY <1>5, ExamineAgain
    <2>2. /\ seen'[next] \in Reach
          /\ seen'[next].distance = seen[next].distance
          /\ seen'[next].edges = seen[next].edges \cup {e.kind}
          /\ seen'[next].via = IF d + 1 = seen[next].distance
                                     /\ current < seen[next].via
                               THEN current ELSE seen[next].via
      BY <1>1, <1>2, <1>5, <2>1, ObserveFacts
    <2>3. current \in Nat /\ seen[next].via \in Nat
      BY <1>1, <1>2, <1>5, WalkAssumption
    <2>4. seen'[next].via <= seen[next].via
      BY <2>2, <2>3
    <2>5. Grows
      BY <1>2, <2>1, <2>2, <2>4 DEF Grows
    <2> QED BY <1>1, <1>2, <1>3, <2>1, <2>2, <2>5
  <1>6. CASE /\ ~(Fresh(next) /\ ~Overflows(next))
             /\ ~(next # query.root /\ next \in DOMAIN seen)
    <2>1. UNCHANGED <<seen, queue>>
      BY <1>6, ExamineElse
    <2> QED BY <1>1, <1>2, <1>3, <2>1 DEF Grows
  <1> QED BY <1>4, <1>5, <1>6

----------------------------------------------------------------------------
(* Types.                                                                  *)

LEMMA TypeInit == Init => TypeOK
  <1> SUFFICES ASSUME Init PROVE TypeOK
    OBVIOUS
  <1>1. DOMAIN seen = {}
    BY EmptyDomain DEF Init
  <1>2. queue \in Seq(DOMAIN seen)
    BY EmptySeq DEF Init
  <1>3. pending \subseteq graph /\ neighbors \subseteq Vertices
    BY DEF Init
  <1> QED BY <1>1, <1>2, <1>3 DEF Init, TypeOK

LEMMA TypeStep == TypeOK /\ [Next]_vars => TypeOK'
  <1> SUFFICES ASSUME TypeOK, [Next]_vars PROVE TypeOK'
    OBVIOUS
  <1>1. CASE Cancel
    BY <1>1 DEF Cancel, TypeOK
  <1>2. CASE Reject
    BY <1>2 DEF Reject, TypeOK, Noticed, Reasons
  <1>3. CASE Begin
    <2>1. /\ DOMAIN seen' = {query.root} /\ query.root \in Vertices
          /\ seen'[query.root] = RootReach(query.root)
      BY <1>3 DEF Begin
    <2>2. RootReach(query.root) \in Reach
      BY QueryFacts DEF RootReach, Reach
    <2>3. queue' \in Seq(DOMAIN seen')
      BY <1>3, <2>1 DEF Begin
    <2> QED BY <1>3, <2>1, <2>2, <2>3 DEF Begin, TypeOK, Noticed, Reasons
  <1>4. CASE PopCancelled \/ PopExhausted \/ ScanCancelled \/ ScanExhausted
    BY <1>4 DEF PopCancelled, PopExhausted, ScanCancelled, ScanExhausted, Stop,
                TypeOK, Reasons
  <1>5. CASE PopTooDeep
    <2>1. Tail(queue) \in Seq(DOMAIN seen)
      BY <1>5, HeadTailProperties DEF PopTooDeep, TypeOK
    <2> QED BY <1>5, <2>1 DEF PopTooDeep, TypeOK
  <1>6. CASE Expand
    <2>1. Tail(queue) \in Seq(DOMAIN seen) /\ Head(queue) \in DOMAIN seen
      BY <1>6, HeadTailProperties DEF Expand, TypeOK
    <2> QED BY <1>6, <2>1 DEF Expand, TypeOK, Adjacent
  <1>7. CASE Exhausted
    BY <1>7 DEF Exhausted, TypeOK
  <1>8. CASE ExamineEdge
    <2>1. PICK e \in pending : Examine(e)
      BY <1>8 DEF ExamineEdge
    <2>2. pc = "scan" /\ UNCHANGED <<graph, query, cancel, current, neighbors,
                                     complete>>
      BY <1>8 DEF ExamineEdge
    <2>3. /\ DOMAIN seen' \subseteq Vertices
          /\ \A v \in DOMAIN seen' : seen'[v] \in Reach
          /\ queue' \in Seq(DOMAIN seen')
          /\ current \in DOMAIN seen'
      BY <2>1, <2>2, ExamineTypes
    <2>4. /\ examined' \in Nat /\ pending' \subseteq graph
          /\ visited' \in Nat /\ reasons' \subseteq Reasons
          /\ pc' \in {"scan", "collect"}
      BY <2>1, <2>2 DEF Examine, TypeOK, Reasons
    <2> QED BY <2>2, <2>3, <2>4 DEF TypeOK
  <1>9. CASE Scanned
    BY <1>9 DEF Scanned, TypeOK
  <1>10. CASE CollectOne
    BY <1>10 DEF CollectOne, Uncollected, TypeOK
  <1>11. CASE Report
    BY <1>11 DEF Report, Truncated, LateReasons, Noticed, TypeOK, Reasons
  <1>12. CASE UNCHANGED vars
    BY <1>12 DEF vars, TypeOK
  <1> QED
    BY <1>1, <1>2, <1>3, <1>4, <1>5, <1>6, <1>7, <1>8, <1>9, <1>10, <1>11, <1>12
       DEF Next, Walk, Done
----------------------------------------------------------------------------
(* Budgets.                                                                *)

LEMMA CountInit == Init => CountOK
  <1> SUFFICES ASSUME Init PROVE CountOK
    OBVIOUS
  <1>1. DOMAIN seen = {} /\ visited = 0 /\ examined = 0
    BY EmptyDomain DEF Init
  <1>2. query.maxVisited \in Nat /\ query.maxEdges \in Nat
    BY TypeInit, QueryFacts
  <1> QED BY <1>1, <1>2, FS_EmptySet DEF CountOK

LEMMA CountStep == TypeOK /\ CountOK /\ [Next]_vars => CountOK'
  <1> SUFFICES ASSUME TypeOK, CountOK, [Next]_vars PROVE CountOK'
    OBVIOUS
  <1>1. CASE UNCHANGED <<query, seen, visited, examined>>
    BY <1>1 DEF CountOK
  <1>2. CASE Begin
    <2>1. DOMAIN seen' = {query.root} /\ visited' = 1 /\ query.maxVisited > 0
          /\ UNCHANGED <<query, examined>>
      BY <1>2 DEF Begin
    <2>2. IsFiniteSet({query.root}) /\ Cardinality({query.root}) = 1
      BY FS_Singleton
    <2> QED BY <2>1, <2>2, QueryFacts DEF CountOK
  <1>3. CASE ExamineEdge
    <2>1. PICK e \in pending : Examine(e)
      BY <1>3 DEF ExamineEdge
    <2>2. /\ pc = "scan" /\ UNCHANGED query
          /\ ~(examined >= query.maxEdges)
      BY <1>3 DEF ExamineEdge, EdgeBudgetSpent
    <2>3. examined' = examined + 1 /\ examined' <= query.maxEdges
      BY <2>1, <2>2, QueryFacts DEF Examine, TypeOK
    <2>4. IsFiniteSet(DOMAIN seen) /\ Cardinality(DOMAIN seen) \in Nat
      BY FS_CardinalityType DEF CountOK
    <2>5. CASE Fresh(Next1(e)) /\ ~Overflows(Next1(e))
      <3>1. /\ Next1(e) \notin DOMAIN seen
            /\ ~(Cardinality(DOMAIN seen) >= query.maxVisited)
            /\ DOMAIN seen' = DOMAIN seen \cup {Next1(e)}
            /\ visited' = visited + 1
        BY <2>1, <2>2, <2>5, ExamineFresh
      <3>2. /\ IsFiniteSet(DOMAIN seen')
            /\ Cardinality(DOMAIN seen') = Cardinality(DOMAIN seen) + 1
        BY <2>4, <3>1, FS_AddElement
      <3> QED BY <2>2, <2>3, <2>4, <3>1, <3>2, QueryFacts DEF CountOK
    <2>6. CASE Next1(e) # query.root /\ Next1(e) \in DOMAIN seen
      BY <2>1, <2>2, <2>3, <2>6, ExamineAgain DEF CountOK
    <2>7. CASE /\ ~(Fresh(Next1(e)) /\ ~Overflows(Next1(e)))
               /\ ~(Next1(e) # query.root /\ Next1(e) \in DOMAIN seen)
      BY <2>1, <2>2, <2>3, <2>7, ExamineElse DEF CountOK
    <2> QED BY <2>5, <2>6, <2>7
  <1>4. \/ Begin \/ ExamineEdge
        \/ UNCHANGED <<query, seen, visited, examined>>
    BY DEF Next, Walk, Done, vars, Cancel, Reject, PopCancelled, PopTooDeep,
           PopExhausted, Expand, Exhausted, ScanCancelled, ScanExhausted,
           Scanned, CollectOne, Report, Stop
  <1> QED BY <1>1, <1>2, <1>3, <1>4

LEMMA RootInit == Init => RootOK
  BY EmptyDomain DEF Init, RootOK

LEMMA RootStep == TypeOK /\ RootOK /\ [Next]_vars => RootOK'
  <1> SUFFICES ASSUME TypeOK, RootOK, [Next]_vars PROVE RootOK'
    OBVIOUS
  <1>1. CASE Reject
    BY <1>1 DEF Reject, RootOK
  <1>2. CASE Begin
    BY <1>2 DEF Begin, RootOK, RootReach
  <1>3. CASE ExamineEdge
    <2>1. PICK e \in pending : Examine(e)
      BY <1>3 DEF ExamineEdge
    <2>2. pc = "scan" /\ UNCHANGED <<graph, query>>
      BY <1>3 DEF ExamineEdge
    <2>3. Grows /\ pc' # "start"
      BY <2>1, <2>2, ExamineTypes DEF Examine
    <2> QED BY <2>2, <2>3 DEF RootOK, Grows
  <1>4. CASE pc # "start" /\ pc' # "start" /\ pc # "done"
             /\ UNCHANGED <<query, seen>>
    BY <1>4 DEF RootOK
  <1>5. CASE UNCHANGED <<query, pc, seen, visited, neighbors, complete>>
    BY <1>5 DEF RootOK
  <1>6. \/ Reject \/ Begin \/ ExamineEdge
        \/ pc # "start" /\ pc' # "start" /\ pc # "done"
           /\ UNCHANGED <<query, seen>>
        \/ UNCHANGED <<query, pc, seen, visited, neighbors, complete>>
    BY DEF Next, Walk, Done, vars, Cancel, PopCancelled, PopTooDeep,
           PopExhausted, Expand, Exhausted, ScanCancelled, ScanExhausted,
           Scanned, CollectOne, Report, Stop
  <1> QED BY <1>1, <1>2, <1>3, <1>4, <1>5, <1>6

LEMMA OutputInit == Init => OutputOK
  BY DEF Init, OutputOK

LEMMA OutputStep ==
    TypeOK /\ CountOK /\ RootOK /\ OutputOK /\ [Next]_vars => OutputOK'
  <1> SUFFICES ASSUME TypeOK, CountOK, RootOK, OutputOK, [Next]_vars
               PROVE  OutputOK'
    OBVIOUS
  <1>1. CASE Reject
    <2>1. neighbors = {} /\ ~complete
      BY <1>1 DEF Reject, RootOK
    <2> QED BY <1>1, <2>1, FS_EmptySet, QueryFacts DEF Reject, OutputOK
  <1>2. CASE Begin
    BY <1>2 DEF Begin, OutputOK, RootOK
  <1>3. CASE \/ PopCancelled \/ PopExhausted \/ ScanCancelled \/ ScanExhausted
             \/ Exhausted
    BY <1>3 DEF PopCancelled, PopExhausted, ScanCancelled, ScanExhausted,
                Exhausted, Stop, OutputOK
  <1>4. CASE PopTooDeep \/ Expand \/ Scanned
    BY <1>4 DEF PopTooDeep, Expand, Scanned, OutputOK
  <1>5. CASE ExamineEdge
    BY <1>5 DEF ExamineEdge, Examine, OutputOK
  <1>6. CASE CollectOne
    BY <1>6 DEF CollectOne, Uncollected, OutputOK
  <1>7. CASE Report
    <2>1. neighbors \subseteq DOMAIN seen \ {query.root}
      BY <1>7 DEF Report, OutputOK
    <2>2. neighbors \in SUBSET Nat /\ IsFiniteSet(neighbors)
      BY <2>1, FS_Subset, WalkAssumption DEF TypeOK, CountOK
    <2>3. Cardinality(Truncated(neighbors)) <= query.maxResults
      BY <2>2, TruncatedBound, QueryFacts
    <2>4. ASSUME complete'
          PROVE  neighbors = DOMAIN seen \ {query.root}
      <3>1. reasons' \subseteq {"result-limit"}
        BY <1>7, <2>4 DEF Report
      <3>2. ~cancel
        BY <1>7, <3>1 DEF Report, LateReasons, Noticed
      <3> QED BY <1>7, <2>1, <3>2 DEF Report, Uncollected
    <2>5. /\ neighbors' = Truncated(neighbors) /\ pc' = "done"
          /\ UNCHANGED <<query, seen>>
      BY <1>7 DEF Report
    <2>6. complete' => neighbors' = Truncated(DOMAIN seen \ {query.root})'
      BY <2>4, <2>5 DEF Truncated
    <2> QED BY <2>3, <2>5, <2>6 DEF OutputOK
  <1>8. CASE UNCHANGED <<query, pc, seen, neighbors, complete>>
    BY <1>8 DEF OutputOK, Truncated
  <1> QED
    BY <1>1, <1>2, <1>3, <1>4, <1>5, <1>6, <1>7, <1>8
       DEF Next, Walk, Done, vars, Cancel
----------------------------------------------------------------------------
(* The records.                                                            *)

LEMMA RealInit == Init => RecordsAreReal
  BY EmptyDomain DEF Init, RecordsAreReal

\* A record stays real when the records grow and its own is unchanged.
LEMMA RealKept ==
    ASSUME TypeOK, Grows, UNCHANGED <<graph, query>>,
           NEW v \in DOMAIN seen, Real(v), seen'[v] = seen[v]
    PROVE  Real(v)'
  BY DEF Real, Grows, Follows, Here, Next1

LEMMA RealStep ==
    TypeOK /\ ScanFrontier /\ RecordsAreReal /\ [Next]_vars => RecordsAreReal'
  <1> SUFFICES ASSUME TypeOK, ScanFrontier, RecordsAreReal, [Next]_vars
               PROVE  RecordsAreReal'
    OBVIOUS
  <1>1. CASE UNCHANGED <<graph, query, seen>>
    BY <1>1 DEF RecordsAreReal, Real, Follows, Here, Next1
  <1>2. CASE Begin
    BY <1>2 DEF Begin, RecordsAreReal
  <1>3. CASE ExamineEdge
    <2>1. PICK e \in pending : Examine(e)
      BY <1>3 DEF ExamineEdge
    <2>2. pc = "scan" /\ UNCHANGED <<graph, query>>
      BY <1>3 DEF ExamineEdge
    <2>a. /\ e \in graph /\ Next1(e) \in Ids /\ e.kind \in Kinds
          /\ current \in DOMAIN seen /\ current \in Ids
          /\ seen[current].distance \in Nat
      BY <2>2, EdgeFacts, WalkAssumption DEF TypeOK, Reach
    <2>b. PICK next \in Ids : next = Next1(e)
      BY <2>a
    <2>c. PICK c \in Ids : c = current
      BY <2>a
    <2>d. PICK d \in Nat : d = seen[c].distance
      BY <2>a, <2>c
    <2>3. Here(e) = c /\ e.kind \in Dependency /\ d < query.depth
      BY <2>2, <2>c, <2>d DEF ScanFrontier, Adjacent
    <2>4. query.depth \in Nat
      BY QueryFacts
    <2>5. Grows
      BY <2>1, <2>2, ExamineTypes
    <2>6. seen'[c].distance = d /\ c \in DOMAIN seen'
      BY <2>a, <2>c, <2>d, <2>5 DEF Grows
    <2>7. Follows(c, next)' /\ Here(e)' = c /\ Next1(e)' = next
      BY <2>2, <2>3, <2>a, <2>b DEF Follows, Here, Next1
    <2>8. CASE Fresh(next) /\ ~Overflows(next)
      <3>1. /\ DOMAIN seen' = DOMAIN seen \cup {next}
            /\ \A v \in DOMAIN seen : seen'[v] = seen[v]
            /\ seen'[next] = Discovered(c, d, e.kind)
        BY <2>1, <2>2, <2>8, <2>b, <2>c, <2>d, ExamineFresh
      <3>2. /\ seen'[next].distance = d + 1
            /\ seen'[next].edges = {e.kind}
            /\ seen'[next].via = c
        BY <2>a, <2>c, <2>d, <3>1, DiscoveredFacts
      <3>3. d + 1 <= query.depth
        BY <2>3, <2>4
      <3>4. Real(next)'
        BY <2>2, <2>3, <2>a, <2>6, <2>7, <3>2, <3>3 DEF Real
      <3>5. ASSUME NEW v \in DOMAIN seen \ {query.root} PROVE Real(v)'
        BY <2>2, <2>5, <3>1, RealKept DEF RecordsAreReal
      <3> QED BY <2>2, <3>1, <3>4, <3>5 DEF RecordsAreReal
    <2>9. CASE next # query.root /\ next \in DOMAIN seen
      <3>1. /\ DOMAIN seen' = DOMAIN seen
            /\ \A v \in DOMAIN seen : v # next => seen'[v] = seen[v]
            /\ seen'[next] = Observe(seen[next], c, d, e.kind)
        BY <2>1, <2>2, <2>9, <2>b, <2>c, <2>d, ExamineAgain
      <3>2. /\ seen'[next].distance = seen[next].distance
            /\ seen'[next].edges = seen[next].edges \cup {e.kind}
            /\ seen'[next].via = IF d + 1 = seen[next].distance
                                       /\ c < seen[next].via
                                 THEN c ELSE seen[next].via
        <4>1. seen[next] \in Reach
          BY <2>9 DEF TypeOK
        <4>2. c \in Ids /\ d \in Nat /\ e.kind \in Kinds
          BY <2>a, <2>c, <2>d
        <4> DEFINE o == Observe(seen[next], c, d, e.kind)
        <4>3. /\ o.distance = seen[next].distance
              /\ o.edges = seen[next].edges \cup {e.kind}
              /\ o.via = IF d + 1 = seen[next].distance
                               /\ c < seen[next].via
                         THEN c ELSE seen[next].via
          BY <4>1, <4>2, ObserveFacts
        <4> HIDE DEF o
        <4> QED BY <4>3, <3>1 DEF o
      <3>3. Real(next)
        BY <2>9 DEF RecordsAreReal
      <3>4. /\ seen'[next].via \in DOMAIN seen'
            /\ Follows(seen[next].via, next)'
            /\ seen'[next].distance = seen'[seen'[next].via].distance + 1
            /\ seen'[next].distance <= query.depth
        <4>1. CASE seen'[next].via = seen[next].via
          BY <4>1, <2>2, <2>5, <3>1, <3>2, <3>3
             DEF Real, Grows, Follows, Here, Next1
        <4>2. CASE seen'[next].via = c /\ d + 1 = seen[next].distance
          BY <4>2, <2>6, <2>7, <3>1, <3>2, <3>3 DEF Real
        <4> QED BY <4>1, <4>2, <3>2
      <3>5. ASSUME NEW k \in seen'[next].edges
            PROVE  \E f \in graph :
                      /\ f.kind = k /\ k \in Dependency /\ Next1(f)' = next
                      /\ Here(f)' \in DOMAIN seen'
                      /\ seen'[Here(f)'].distance < query.depth
        <4>1. CASE k = e.kind
          BY <4>1, <2>3, <2>a, <2>6, <2>7
        <4>2. CASE k \in seen[next].edges
          <5>1. PICK f \in graph :
                   /\ f.kind = k /\ k \in Dependency /\ Next1(f) = next
                   /\ Here(f) \in DOMAIN seen
                   /\ seen[Here(f)].distance < query.depth
            BY <4>2, <3>3 DEF Real
          <5>2. Next1(f)' = Next1(f) /\ Here(f)' = Here(f)
            BY <2>2 DEF Next1, Here
          <5> QED BY <5>1, <5>2, <2>5 DEF Grows
        <4> QED BY <4>1, <4>2, <3>2
      <3>6. Real(next)'
        BY <2>2, <2>7, <3>4, <3>5 DEF Real
      <3>7. ASSUME NEW v \in DOMAIN seen \ {query.root}, v # next
            PROVE  Real(v)'
        BY <2>2, <2>5, <3>1, <3>7, RealKept DEF RecordsAreReal
      <3> QED BY <2>2, <3>1, <3>6, <3>7 DEF RecordsAreReal
    <2>10. CASE /\ ~(Fresh(next) /\ ~Overflows(next))
                /\ ~(next # query.root /\ next \in DOMAIN seen)
      <3>1. UNCHANGED seen
        BY <2>1, <2>2, <2>10, <2>b, ExamineElse
      <3> QED BY <2>2, <2>5, <3>1, RealKept DEF RecordsAreReal
    <2> QED BY <2>8, <2>9, <2>10
  <1>4. Begin \/ ExamineEdge \/ UNCHANGED <<graph, query, seen>>
    BY DEF Next, Walk, Done, vars, Cancel, Reject, PopCancelled, PopTooDeep,
           PopExhausted, Expand, Exhausted, ScanCancelled, ScanExhausted,
           Scanned, CollectOne, Report, Stop
  <1> QED BY <1>1, <1>2, <1>3, <1>4
----------------------------------------------------------------------------
(* The levels of the search.                                               *)

LEMMA QueueFacts ==
    ASSUME TypeOK
    PROVE  /\ Len(queue) \in Nat /\ DOMAIN queue = 1..Len(queue)
           /\ \A i \in DOMAIN queue : queue[i] \in DOMAIN seen
           /\ \A v \in DOMAIN seen : seen[v].distance \in Nat
  <1>1. queue \in Seq(DOMAIN seen)
    BY DEF TypeOK
  <1>2. \A v \in DOMAIN seen : seen[v].distance \in Nat
    BY DEF TypeOK, Reach
  <1> QED BY <1>1, <1>2, LenProperties, ElementOfSeq

LEMMA TailFacts ==
    ASSUME TypeOK, queue # << >>
    PROVE  /\ Head(queue) = queue[1] /\ 1 \in DOMAIN queue
           /\ DOMAIN Tail(queue) = 1..(Len(queue) - 1)
           /\ \A i \in DOMAIN Tail(queue) :
                 i + 1 \in DOMAIN queue /\ Tail(queue)[i] = queue[i + 1]
           /\ Tail(queue) # << >> =>
                 1 \in DOMAIN Tail(queue) /\ Head(Tail(queue)) = Tail(queue)[1]
  <1>1. queue \in Seq(DOMAIN seen)
    BY DEF TypeOK
  <1>2. Len(queue) \in Nat \ {0} /\ DOMAIN queue = 1..Len(queue)
    BY <1>1, EmptySeq, LenProperties
  <1>3. /\ Tail(queue) \in Seq(DOMAIN seen)
        /\ Len(Tail(queue)) = Len(queue) - 1
        /\ \A i \in 1..Len(Tail(queue)) : Tail(queue)[i] = queue[i + 1]
    BY <1>1, HeadTailProperties
  <1>4. DOMAIN Tail(queue) = 1..Len(Tail(queue))
    BY <1>3, LenProperties
  <1>5. Tail(queue) # << >> => Len(Tail(queue)) \in Nat \ {0}
    BY <1>3, EmptySeq
  <1>6. Head(queue) = queue[1]
    BY <1>1, <1>2
  <1>7. Tail(queue) # << >> => Head(Tail(queue)) = Tail(queue)[1]
    BY <1>3
  <1> QED BY <1>2, <1>3, <1>4, <1>5, <1>6, <1>7

LEMMA AppendFacts ==
    ASSUME TypeOK, NEW v
    PROVE  LET q == Append(queue, v)
           IN /\ DOMAIN q = 1..(Len(queue) + 1)
              /\ \A i \in DOMAIN queue : q[i] = queue[i] /\ i \in DOMAIN q
              /\ \A i \in DOMAIN q : i \in DOMAIN queue \/ i = Len(queue) + 1
              /\ q[Len(queue) + 1] = v /\ Len(queue) + 1 \in DOMAIN q
  <1> DEFINE S == DOMAIN seen \cup {v}
             q == Append(queue, v)
  <1>1. queue \in Seq(S) /\ Len(queue) \in Nat /\ DOMAIN queue = 1..Len(queue)
    BY SeqMonotonic, QueueFacts DEF TypeOK
  <1>2. /\ q \in Seq(S)
        /\ Len(q) = Len(queue) + 1
        /\ \A i \in 1..Len(queue) : q[i] = queue[i]
        /\ q[Len(queue) + 1] = v
    BY <1>1, AppendProperties
  <1>3. DOMAIN q = 1..(Len(queue) + 1)
    BY <1>2, LenProperties
  <1> HIDE DEF q
  <1> QED BY <1>1, <1>2, <1>3 DEF q

LEMMA LevelsInit == Init => LevelsOK
  <1>1. DOMAIN << >> = {}
    BY EmptyDomain
  <1> QED BY <1>1 DEF Init, LevelsOK, QueueOrdered, PopFrontier, ScanFrontier

LEMMA LevelsStep == TypeOK /\ LevelsOK /\ [Next]_vars => LevelsOK'
  <1> SUFFICES ASSUME TypeOK, LevelsOK, [Next]_vars PROVE LevelsOK'
    OBVIOUS
  <1>1. CASE /\ pc' \in {"collect", "done"}
             /\ UNCHANGED <<seen, queue>>
    BY <1>1 DEF LevelsOK, QueueOrdered, PopFrontier, ScanFrontier
  <1>2. CASE UNCHANGED <<graph, query, pc, seen, queue, current, pending>>
    BY <1>2 DEF LevelsOK, QueueOrdered, PopFrontier, ScanFrontier, Adjacent,
                Here
  <1>3. CASE Begin
    <2>1. /\ DOMAIN seen' = {query.root} /\ seen'[query.root].distance = 0
          /\ queue' = <<query.root>> /\ pc' = "pop"
      BY <1>3 DEF Begin, RootReach
    <2>2. /\ Head(queue') = query.root
          /\ \A i \in DOMAIN queue' : queue'[i] = query.root
      BY <2>1
    <2> QED BY <2>1, <2>2
            DEF LevelsOK, QueueOrdered, PopFrontier, ScanFrontier
  <1>4. CASE PopTooDeep
    <2>1. /\ pc = "pop" /\ pc' = "pop" /\ queue # << >>
          /\ queue' = Tail(queue) /\ UNCHANGED seen
      BY <1>4 DEF PopTooDeep
    <2>2. QueueOrdered'
      BY <2>1, TailFacts, QueueFacts DEF LevelsOK, QueueOrdered
    <2>3. PopFrontier'
      <3>1. ASSUME queue' # << >>, NEW v \in DOMAIN seen
            PROVE  seen[v].distance <= seen[Head(queue')].distance + 1
        <4>1. seen[v].distance <= seen[queue[1]].distance + 1
          BY <2>1, TailFacts DEF LevelsOK, PopFrontier
        <4>2. /\ Head(queue') = queue[2] /\ 2 \in DOMAIN queue
              /\ 1 \in DOMAIN queue
          BY <2>1, <3>1, TailFacts
        <4>3. seen[queue[1]].distance <= seen[queue[2]].distance
          BY <4>2 DEF LevelsOK, QueueOrdered
        <4>4. /\ seen[queue[1]].distance \in Nat
              /\ seen[queue[2]].distance \in Nat
              /\ seen[v].distance \in Nat
          BY <4>2, QueueFacts
        <4> QED BY <4>1, <4>2, <4>3, <4>4
      <3> QED BY <2>1, <3>1 DEF PopFrontier
    <2> QED BY <2>1, <2>2, <2>3 DEF LevelsOK, ScanFrontier
  <1>5. CASE Expand
    <2>1. /\ pc = "pop" /\ pc' = "scan" /\ queue # << >>
          /\ queue' = Tail(queue) /\ current' = Head(queue)
          /\ pending' = Adjacent(Head(queue))
          /\ seen[Head(queue)].distance < query.depth
          /\ UNCHANGED <<graph, query, seen>>
      BY <1>5 DEF Expand
    <2>2. QueueOrdered'
      BY <2>1, TailFacts, QueueFacts DEF LevelsOK, QueueOrdered
    <2>3. pending' \subseteq Adjacent(current)'
      BY <2>1 DEF Adjacent, Here
    <2>4. \A v \in DOMAIN seen :
             seen[v].distance <= seen[Head(queue)].distance + 1
      BY <2>1 DEF LevelsOK, PopFrontier
    <2>5. \A i \in DOMAIN queue' :
             seen[Head(queue)].distance <= seen[queue'[i]].distance
      <3>1. ASSUME NEW i \in DOMAIN Tail(queue)
            PROVE  seen[queue[1]].distance <= seen[queue[i + 1]].distance
        <4>1. /\ i + 1 \in DOMAIN queue /\ 1 \in DOMAIN queue
              /\ 1 <= i + 1
          BY <2>1, TailFacts, QueueFacts
        <4> QED BY <4>1 DEF LevelsOK, QueueOrdered
      <3> QED BY <2>1, <3>1, TailFacts
    <2> QED BY <2>1, <2>2, <2>3, <2>4, <2>5
            DEF LevelsOK, PopFrontier, ScanFrontier
  <1>6. CASE Scanned
    <2>1. /\ pc = "scan" /\ pc' = "pop" /\ UNCHANGED <<queue, seen>>
      BY <1>6 DEF Scanned
    <2>2. ASSUME queue # << >>, NEW v \in DOMAIN seen
          PROVE  seen[v].distance <= seen[Head(queue)].distance + 1
      <3>1. Head(queue) = queue[1] /\ 1 \in DOMAIN queue
        BY <2>2, TailFacts
      <3>2. /\ seen[v].distance <= seen[current].distance + 1
            /\ seen[current].distance <= seen[queue[1]].distance
        BY <2>1, <3>1 DEF LevelsOK, ScanFrontier
      <3>3. /\ seen[current].distance \in Nat /\ seen[v].distance \in Nat
            /\ seen[queue[1]].distance \in Nat
        BY <2>1, <3>1, QueueFacts DEF TypeOK
      <3> QED BY <3>1, <3>2, <3>3
    <2> QED BY <2>1, <2>2 DEF LevelsOK, QueueOrdered, PopFrontier, ScanFrontier
  <1>7. CASE ExamineEdge
    <2>1. PICK e \in pending : Examine(e)
      BY <1>7 DEF ExamineEdge
    <2>2. /\ pc = "scan" /\ UNCHANGED <<graph, query, current>>
          /\ pending' \subseteq pending /\ pc' \in {"scan", "collect"}
      BY <1>7, <2>1 DEF ExamineEdge, Examine
    <2>3. /\ Grows /\ current \in DOMAIN seen
      BY <2>1, <2>2, ExamineTypes DEF TypeOK
    <2>4. pending' \subseteq Adjacent(current)'
      BY <2>2 DEF LevelsOK, ScanFrontier, Adjacent, Here
    <2>5. /\ seen'[current].distance = seen[current].distance
          /\ seen[current].distance \in Nat
          /\ seen[current].distance < query.depth
      BY <2>2, <2>3, QueueFacts DEF Grows, LevelsOK, ScanFrontier
    <2>6. /\ \A v \in DOMAIN seen :
                seen[v].distance <= seen[current].distance + 1
          /\ \A i \in DOMAIN queue :
                seen[current].distance <= seen[queue[i]].distance
      BY <2>2 DEF LevelsOK, ScanFrontier
    <2>7. CASE Fresh(Next1(e)) /\ ~Overflows(Next1(e))
      <3>1. /\ DOMAIN seen' = DOMAIN seen \cup {Next1(e)}
            /\ \A v \in DOMAIN seen : seen'[v] = seen[v]
            /\ seen'[Next1(e)] =
                  Discovered(current, seen[current].distance, e.kind)
            /\ queue' = Append(queue, Next1(e))
        BY <2>1, <2>2, <2>7, ExamineFresh
      <3>2. seen'[Next1(e)].distance = seen[current].distance + 1
        BY <3>1 DEF Discovered
      <3>3. /\ \A v \in DOMAIN seen' :
                  seen'[v].distance <= seen[current].distance + 1
        BY <2>5, <2>6, <3>1, <3>2
      <3>4. \A i \in DOMAIN queue' :
               \/ /\ i \in DOMAIN queue /\ queue'[i] = queue[i]
                  /\ seen'[queue'[i]] = seen[queue[i]]
               \/ i = Len(queue) + 1 /\ queue'[i] = Next1(e)
        BY <3>1, AppendFacts, QueueFacts
      <3>5. QueueOrdered'
        <4>1. ASSUME NEW i \in DOMAIN queue', NEW j \in DOMAIN queue', i <= j
              PROVE  seen'[queue'[i]].distance <= seen'[queue'[j]].distance
          <5>1. CASE j \in DOMAIN queue
            <6>1. i \in DOMAIN queue
              BY <4>1, <5>1, <3>1, AppendFacts, QueueFacts
            <6>2. /\ seen'[queue'[i]] = seen[queue[i]]
                  /\ seen'[queue'[j]] = seen[queue[j]]
              BY <5>1, <6>1, <3>4, QueueFacts
            <6> QED BY <4>1, <5>1, <6>1, <6>2 DEF LevelsOK, QueueOrdered
          <5>2. CASE j = Len(queue) + 1 /\ queue'[j] = Next1(e)
            <6>1. \A k \in DOMAIN queue' : queue'[k] \in DOMAIN seen'
              BY <3>4, <3>1, QueueFacts
            <6> QED BY <5>2, <6>1, <3>2, <3>3
          <5> QED BY <5>1, <5>2, <3>4
        <4> QED BY <4>1 DEF QueueOrdered
      <3>6. \A i \in DOMAIN queue' :
               seen[current].distance <= seen'[queue'[i]].distance
        <4>1. seen[current].distance <= seen[current].distance + 1
          BY <2>5
        <4> QED BY <4>1, <2>6, <3>2, <3>4
      <3> QED BY <2>2, <2>4, <2>5, <3>3, <3>5, <3>6
              DEF LevelsOK, PopFrontier, ScanFrontier
    <2>8. CASE ~(Fresh(Next1(e)) /\ ~Overflows(Next1(e)))
      <3>1. UNCHANGED queue /\ DOMAIN seen' = DOMAIN seen
        <4>1. CASE Next1(e) # query.root /\ Next1(e) \in DOMAIN seen
          BY <2>1, <2>2, <4>1, ExamineAgain
        <4>2. CASE ~(Next1(e) # query.root /\ Next1(e) \in DOMAIN seen)
          BY <2>1, <2>2, <2>8, <4>2, ExamineElse
        <4> QED BY <4>1, <4>2
      <3>2. \A v \in DOMAIN seen : seen'[v].distance = seen[v].distance
        BY <2>3 DEF Grows
      <3>3. QueueOrdered'
        BY <3>1, <3>2, QueueFacts DEF LevelsOK, QueueOrdered
      <3>4. /\ \A v \in DOMAIN seen' :
                  seen'[v].distance <= seen[current].distance + 1
            /\ \A i \in DOMAIN queue' :
                  seen[current].distance <= seen'[queue'[i]].distance
        BY <2>6, <3>1, <3>2, QueueFacts
      <3> QED BY <2>2, <2>4, <2>5, <3>3, <3>4
              DEF LevelsOK, PopFrontier, ScanFrontier
    <2> QED BY <2>7, <2>8
  <1>8. \/ Begin \/ PopTooDeep \/ Expand \/ Scanned \/ ExamineEdge
        \/ pc' \in {"collect", "done"} /\ UNCHANGED <<seen, queue>>
        \/ UNCHANGED <<graph, query, pc, seen, queue, current, pending>>
    BY DEF Next, Walk, Done, vars, Cancel, Reject, PopCancelled, PopExhausted,
           Exhausted, ScanCancelled, ScanExhausted, CollectOne, Report, Stop
  <1> QED BY <1>1, <1>2, <1>3, <1>4, <1>5, <1>6, <1>7, <1>8
----------------------------------------------------------------------------
(* What has been expanded is accounted for.                                *)

LEMMA WaitingTail ==
    ASSUME TypeOK, queue # << >>, queue' = Tail(queue), NEW u,
           Waiting(u), u # Head(queue)
    PROVE  Waiting(u)'
  <1>1. PICK i \in DOMAIN queue : queue[i] = u
    BY DEF Waiting
  <1>2. i # 1 /\ i \in 1..Len(queue) /\ Len(queue) \in Nat
    BY <1>1, TailFacts, QueueFacts
  <1>3. i - 1 \in DOMAIN Tail(queue) /\ Tail(queue)[i - 1] = u
    BY <1>1, <1>2, TailFacts
  <1> QED BY <1>3 DEF Waiting

\* An edge that is accounted for stays so when the records grow.
LEMMA AccountedKept ==
    ASSUME TypeOK, TypeOK', Grows, UNCHANGED <<graph, query>>,
           NEW u \in DOMAIN seen, NEW e \in graph, Accounted(u, e)
    PROVE  Accounted(u, e)'
  <1>1. PICK v \in Ids : v = Next1(e)
    BY EdgeFacts
  <1>2. v = Next1(e)'
    BY <1>1 DEF Next1
  <1>3. ASSUME v \in Vertices, v # query.root
        PROVE  /\ v \in DOMAIN seen'
               /\ e.kind \in seen'[v].edges
               /\ seen'[v].distance <= seen'[u].distance + 1
               /\ seen'[v].distance = seen'[u].distance + 1 =>
                     seen'[v].via <= u
    <2>1. /\ v \in DOMAIN seen
          /\ e.kind \in seen[v].edges
          /\ seen[v].distance <= seen[u].distance + 1
          /\ seen[v].distance = seen[u].distance + 1 => seen[v].via <= u
      BY <1>1, <1>3 DEF Accounted, Registered
    <2>2. /\ seen'[v].distance = seen[v].distance
          /\ seen'[u].distance = seen[u].distance
          /\ seen[v].edges \subseteq seen'[v].edges
          /\ v \in DOMAIN seen'
      BY <2>1 DEF Grows
    <2>3. /\ seen'[v].via <= seen[v].via
          /\ u \in Nat /\ seen[v].via \in Nat /\ seen'[v].via \in Nat
      BY <2>1, <2>2, WalkAssumption DEF Grows, TypeOK, Reach
    <2> QED BY <2>1, <2>2, <2>3
  <1> QED BY <1>2, <1>3 DEF Accounted, Registered

LEMMA ClosureInit == Init => ClosureOK
  BY DEF Init, ClosureOK, ExpandedOK, QueueDrained, Unlimited, Searching

\* One edge of the vertex being expanded, when the walk goes on.
LEMMA ExamineSettles ==
    ASSUME TypeOK, LevelsOK, pc = "scan", NEW e \in pending, Examine(e),
           UNCHANGED <<graph, query, current>>, pc' = "scan"
    PROVE  Accounted(current, e)'
  <1>1. /\ e \in graph /\ Next1(e) \in Ids /\ e.kind \in Kinds
        /\ current \in DOMAIN seen /\ current \in Ids
        /\ seen[current].distance \in Nat
        /\ seen[current] \in Reach
    BY EdgeFacts, WalkAssumption DEF TypeOK, Reach
  <1>2. PICK v \in Ids : v = Next1(e)
    BY <1>1
  <1>3. PICK c \in Ids : c = current
    BY <1>1
  <1>4. PICK d \in Nat : d = seen[c].distance
    BY <1>1, <1>3
  <1>5. v = Next1(e)' /\ c = current'
    BY <1>2, <1>3 DEF Next1
  <1>6. seen'[c].distance = d
    BY <1>1, <1>3, <1>4, ExamineTypes DEF Grows
  <1>7. ASSUME v \in Vertices, v # query.root
        PROVE  /\ v \in DOMAIN seen'
               /\ e.kind \in seen'[v].edges
               /\ seen'[v].distance <= d + 1
               /\ seen'[v].distance = d + 1 => seen'[v].via <= c
    <2>1. CASE v \in DOMAIN seen
      <3>1. /\ DOMAIN seen' = DOMAIN seen
            /\ seen'[v] = Observe(seen[v], c, d, e.kind)
        BY <1>2, <1>3, <1>4, <1>7, <2>1, ExamineAgain
      <3>2. seen[v] \in Reach
        BY <2>1 DEF TypeOK
      <3>3. c \in Ids /\ d \in Nat /\ e.kind \in Kinds
        BY <1>1, <1>3, <1>4
      <3>4. /\ seen'[v].distance = seen[v].distance
            /\ seen'[v].edges = seen[v].edges \cup {e.kind}
            /\ seen'[v].via = IF d + 1 = seen[v].distance /\ c < seen[v].via
                              THEN c ELSE seen[v].via
        <4> DEFINE o == Observe(seen[v], c, d, e.kind)
        <4>1. /\ o.distance = seen[v].distance
              /\ o.edges = seen[v].edges \cup {e.kind}
              /\ o.via = IF d + 1 = seen[v].distance /\ c < seen[v].via
                         THEN c ELSE seen[v].via
          BY <3>2, <3>3, ObserveFacts
        <4> HIDE DEF o
        <4> QED BY <4>1, <3>1 DEF o
      <3>5. seen[v].distance <= d + 1
        BY <1>3, <1>4, <2>1 DEF LevelsOK, ScanFrontier
      <3>6. c \in Nat /\ seen[v].via \in Nat
        BY <3>2, <3>3, WalkAssumption DEF Reach
      <3> QED BY <2>1, <3>1, <3>4, <3>5, <3>6
    <2>2. CASE v \notin DOMAIN seen
      <3>1. Fresh(v)
        BY <1>7, <2>2 DEF Fresh, Registered
      <3>2. ~Overflows(v)
        BY <1>2 DEF Examine
      <3>3. /\ DOMAIN seen' = DOMAIN seen \cup {v}
            /\ seen'[v] = Discovered(c, d, e.kind)
        BY <1>2, <1>3, <1>4, <3>1, <3>2, ExamineFresh
      <3>4. c \in Nat /\ d \in Nat
        BY <1>3, <1>4, WalkAssumption
      <3>5. /\ seen'[v].distance = d + 1 /\ seen'[v].edges = {e.kind}
            /\ seen'[v].via = c
        BY <3>3 DEF Discovered
      <3> QED BY <3>3, <3>4, <3>5
    <2> QED BY <2>1, <2>2
  <1> QED BY <1>5, <1>6, <1>7 DEF Accounted, Registered

LEMMA ClosureStep ==
    TypeOK /\ LevelsOK /\ RootOK /\ ClosureOK /\ [Next]_vars => ClosureOK'
  <1> SUFFICES ASSUME TypeOK, LevelsOK, RootOK, ClosureOK, [Next]_vars
               PROVE  ClosureOK'
    OBVIOUS
  <1>1. TypeOK'
    BY TypeStep
  <1>2. CASE Cancel \/ UNCHANGED vars
    BY <1>2 DEF Cancel, vars, ClosureOK, ExpandedOK, QueueDrained, Unlimited,
                Searching, Waiting, Settled, Accounted, Adjacent, Next1, Here
  <1>3. CASE Reject
    BY <1>3 DEF Reject, RootOK, ClosureOK, ExpandedOK, QueueDrained, Unlimited,
                Searching
  <1>4. CASE Begin
    <2>1. /\ DOMAIN seen' = {query.root} /\ queue' = <<query.root>>
          /\ pc' = "pop"
      BY <1>4 DEF Begin
    <2>2. Waiting(query.root)' /\ query'.root = query.root
      BY <1>4, <2>1 DEF Waiting, Begin
    <2> QED BY <2>1, <2>2 DEF ClosureOK, ExpandedOK, QueueDrained, Unlimited,
                              Searching
  <1>5. CASE PopCancelled \/ PopExhausted \/ ScanCancelled \/ ScanExhausted
    <2>1. pc' = "collect" /\ ~(reasons' \subseteq {"result-limit"})
      BY <1>5 DEF PopCancelled, PopExhausted, ScanCancelled, ScanExhausted,
                  Stop
    <2> QED BY <2>1 DEF ClosureOK, ExpandedOK, QueueDrained, Unlimited,
                        Searching
  <1>6. CASE PopTooDeep
    <2>1. /\ pc = "pop" /\ pc' = "pop" /\ queue # << >>
          /\ queue' = Tail(queue)
          /\ seen[Head(queue)].distance >= query.depth
          /\ UNCHANGED <<graph, query, seen>>
      BY <1>6 DEF PopTooDeep
    <2>2. ASSUME NEW u \in DOMAIN seen, seen[u].distance < query.depth,
                 ~Waiting(u)', NEW e \in Adjacent(u)
          PROVE  Accounted(u, e)'
      <3>1. u # Head(queue)
        BY <2>1, <2>2, QueueFacts, QueryFacts
      <3>2. ~Waiting(u)
        BY <2>1, <2>2, <3>1, WaitingTail
      <3>3. Settled(u, e)
        BY <2>1, <2>2, <3>2 DEF ClosureOK, ExpandedOK, Unlimited, Searching
      <3> QED BY <2>1, <3>3 DEF Settled, Accounted, Next1
    <2>3. \A u : Adjacent(u)' = Adjacent(u)
      BY <2>1 DEF Adjacent, Here
    <2> QED BY <2>1, <2>2, <2>3 DEF ClosureOK, ExpandedOK, QueueDrained,
                                    Unlimited, Searching, Settled
  <1>7. CASE Expand
    <2>1. /\ pc = "pop" /\ pc' = "scan" /\ queue # << >>
          /\ queue' = Tail(queue) /\ current' = Head(queue)
          /\ pending' = Adjacent(Head(queue))
          /\ UNCHANGED <<graph, query, seen>>
      BY <1>7 DEF Expand
    <2>2. \A u : Adjacent(u)' = Adjacent(u)
      BY <2>1 DEF Adjacent, Here
    <2>3. ASSUME NEW u \in DOMAIN seen, seen[u].distance < query.depth,
                 ~Waiting(u)', NEW e \in Adjacent(u)
          PROVE  Settled(u, e)'
      <3>1. CASE u = Head(queue)
        BY <2>1, <2>3, <3>1 DEF Settled
      <3>2. CASE u # Head(queue)
        <4>1. ~Waiting(u)
          BY <2>1, <2>3, <3>2, WaitingTail
        <4>2. Settled(u, e)
          BY <2>1, <2>3, <4>1 DEF ClosureOK, ExpandedOK, Unlimited, Searching
        <4> QED BY <2>1, <4>2 DEF Settled, Accounted, Next1
      <3> QED BY <3>1, <3>2
    <2> QED BY <2>1, <2>2, <2>3 DEF ClosureOK, ExpandedOK, QueueDrained,
                                    Unlimited, Searching
  <1>8. CASE Exhausted
    BY <1>8 DEF Exhausted, ClosureOK, ExpandedOK, QueueDrained, Unlimited,
                Searching, Waiting, Settled, Accounted, Adjacent, Next1, Here
  <1>9. CASE Scanned
    BY <1>9 DEF Scanned, ClosureOK, ExpandedOK, QueueDrained, Unlimited,
                Searching, Waiting, Settled, Accounted, Adjacent, Next1, Here
  <1>10. CASE CollectOne
    BY <1>10 DEF CollectOne, ClosureOK, ExpandedOK, QueueDrained, Unlimited,
                 Searching, Waiting, Settled, Accounted, Adjacent, Next1, Here
  <1>11. CASE Report
    <2>1. /\ pc = "collect" /\ pc' = "done"
          /\ complete' = (reasons' \subseteq {"result-limit"})
          /\ reasons \subseteq reasons'
          /\ UNCHANGED <<graph, query, seen, queue>>
      BY <1>11 DEF Report
    <2>2. complete' => Unlimited
      BY <2>1 DEF Unlimited
    <2> QED BY <2>1, <2>2 DEF ClosureOK, ExpandedOK, QueueDrained, Unlimited,
               Searching, Waiting, Settled, Accounted, Adjacent, Next1, Here
  <1>12. CASE ExamineEdge
    <2>1. PICK e \in pending : Examine(e)
      BY <1>12 DEF ExamineEdge
    <2>2. /\ pc = "scan" /\ UNCHANGED <<graph, query, current>>
          /\ pending' = pending \ {e} /\ pc' \in {"scan", "collect"}
          /\ pc' = "collect" => ~(reasons' \subseteq {"result-limit"})
      BY <1>12, <2>1 DEF ExamineEdge, Examine
    <2>3. Grows
      BY <2>1, <2>2, ExamineTypes
    <2>4. CASE pc' = "collect"
      BY <2>2, <2>4 DEF ClosureOK, ExpandedOK, QueueDrained, Unlimited,
                        Searching
    <2>5. CASE pc' = "scan"
      <3>1. \A u : Adjacent(u)' = Adjacent(u)
        BY <2>2 DEF Adjacent, Here
      <3>2. \A u \in DOMAIN seen' : ~Waiting(u)' =>
               u \in DOMAIN seen /\ ~Waiting(u)
        <4>1. CASE Fresh(Next1(e)) /\ ~Overflows(Next1(e))
          <5>1. /\ DOMAIN seen' = DOMAIN seen \cup {Next1(e)}
                /\ queue' = Append(queue, Next1(e))
            BY <2>1, <2>2, <4>1, ExamineFresh
          <5> QED BY <5>1, AppendFacts DEF Waiting
        <4>2. CASE Next1(e) # query.root /\ Next1(e) \in DOMAIN seen
          BY <2>1, <2>2, <4>2, ExamineAgain DEF Waiting
        <4>3. CASE /\ ~(Fresh(Next1(e)) /\ ~Overflows(Next1(e)))
                   /\ ~(Next1(e) # query.root /\ Next1(e) \in DOMAIN seen)
          BY <2>1, <2>2, <4>3, ExamineElse DEF Waiting
        <4> QED BY <4>1, <4>2, <4>3
      <3>3. ASSUME NEW u \in DOMAIN seen', seen'[u].distance < query.depth,
                   ~Waiting(u)', NEW f \in Adjacent(u)
            PROVE  Settled(u, f)'
        <4>1. /\ u \in DOMAIN seen /\ ~Waiting(u)
              /\ seen[u].distance < query.depth
          BY <3>2, <3>3, <2>3 DEF Grows
        <4>2. Settled(u, f)
          BY <2>2, <3>3, <4>1 DEF ClosureOK, ExpandedOK, Unlimited, Searching
        <4>3. f \in graph
          BY DEF Adjacent
        <4>4. CASE Accounted(u, f)
          BY <1>1, <2>2, <2>3, <4>1, <4>3, <4>4, AccountedKept DEF Settled
        <4>5. CASE u = current /\ f = e
          BY <2>1, <2>2, <2>5, <4>5, ExamineSettles DEF Settled
        <4>6. CASE u = current /\ f \in pending /\ f # e
          BY <2>2, <2>5, <4>6 DEF Settled
        <4> QED BY <4>2, <4>4, <4>5, <4>6 DEF Settled
      <3> QED BY <2>2, <2>5, <3>1, <3>3 DEF ClosureOK, ExpandedOK,
                 QueueDrained, Unlimited, Searching
    <2> QED BY <2>2, <2>4, <2>5
  <1> QED
    BY <1>2, <1>3, <1>4, <1>5, <1>6, <1>7, <1>8, <1>9, <1>10, <1>11, <1>12
       DEF Next, Walk, Done

\* At the end of a search that was not cut short nothing waits, so every
\* edge of every record is accounted for.
LEMMA ClosedAtEnd == Inv => CompleteIsClosed
  <1> SUFFICES ASSUME Inv, pc = "done", complete
               PROVE  /\ query.root \in DOMAIN seen
                      /\ seen[query.root].distance = 0
                      /\ \A u \in DOMAIN seen :
                            seen[u].distance < query.depth =>
                                \A e \in Adjacent(u) : Accounted(u, e)
                      /\ neighbors = Truncated(DOMAIN seen \ {query.root})
    BY DEF CompleteIsClosed
  <1>1. query.root \in DOMAIN seen /\ seen[query.root].distance = 0
    BY DEF Inv, RootOK
  <1>2. queue = << >> /\ Unlimited
    BY DEF Inv, ClosureOK, QueueDrained, Unlimited, Searching
  <1>3. \A u : ~Waiting(u)
    BY <1>2, EmptyDomain DEF Waiting
  <1>4. \A u \in DOMAIN seen :
           seen[u].distance < query.depth =>
               \A e \in Adjacent(u) : Accounted(u, e)
    BY <1>2, <1>3 DEF Inv, ClosureOK, ExpandedOK, Settled
  <1>5. neighbors = Truncated(DOMAIN seen \ {query.root})
    BY DEF Inv, OutputOK
  <1> QED BY <1>1, <1>4, <1>5

----------------------------------------------------------------------------
(* The theorems.                                                           *)

\* The inductive invariant: types, budgets, the root, the output, the levels
\* of the queue and what has been expanded (walk, budget.rs).
THEOREM Inductive == Spec => []Inv
  <1>1. Init => Inv
    BY TypeInit, CountInit, RootInit, OutputInit, LevelsInit, ClosureInit,
       RealInit DEF Inv
  <1>2. Inv /\ [Next]_vars => Inv'
    <2> SUFFICES ASSUME Inv, [Next]_vars PROVE Inv'
      OBVIOUS
    <2>1. /\ TypeOK /\ CountOK /\ RootOK /\ OutputOK
          /\ LevelsOK /\ ClosureOK /\ RecordsAreReal
      BY DEF Inv
    <2>2. TypeOK' /\ CountOK' /\ RootOK' /\ OutputOK'
      BY <2>1, TypeStep, CountStep, RootStep, OutputStep
    <2>3. LevelsOK' /\ ClosureOK'
      BY <2>1, LevelsStep, ClosureStep
    <2>4. RecordsAreReal'
      BY <2>1, RealStep DEF LevelsOK
    <2> QED BY <2>2, <2>3, <2>4 DEF Inv
  <1> QED BY <1>1, <1>2, PTL DEF Spec

\* Every variable of the walk keeps its type.
THEOREM TypeCorrect == Spec => []TypeOK
  <1>1. Inv => TypeOK
    BY DEF Inv
  <1> QED BY <1>1, Inductive, PTL

\* The vertex and edge budgets are never exceeded, and the report never has
\* more neighbours than asked for.
THEOREM BudgetsKept == Spec => []BudgetsHold
  <1>1. Inv => BudgetsHold
    BY DEF Inv, CountOK, OutputOK, BudgetsHold
  <1> QED BY <1>1, Inductive, PTL

\* Whatever stops the walk, every record is backed by the graph and by the
\* record of its `via` (Reach::observe, Reach::discovered).
THEOREM RealRecords == Spec => []RecordsAreReal
  <1>1. Inv => RecordsAreReal
    BY DEF Inv
  <1> QED BY <1>1, Inductive, PTL

\* A report that calls itself complete has accounted for every edge of every
\* vertex within the depth: absence from it is a proof of absence.
THEOREM ClosedReport == Spec => []CompleteIsClosed
  BY ClosedAtEnd, Inductive, PTL

\* Once the flag is set no edge is looked at: the flag is read before each.
THEOREM PromptCancel == Spec => CancelStopsWork
  <1>1. [Next]_vars => [cancel => examined' = examined]_vars
    BY DEF Next, Walk, Done, vars, Cancel, Reject, Begin, PopCancelled,
           PopTooDeep, PopExhausted, Expand, Exhausted, ScanCancelled,
           ScanExhausted, ExamineEdge, ScanStops, Scanned, CollectOne, Report,
           Stop
  <1> QED BY <1>1, PTL DEF Spec, CancelStopsWork

-----------------------------------------------------------------------------
(***************************************************************************)
(* The report of BudgetedWalk against the distances of the graph.          *)
(*                                                                         *)
(* The invariant of BudgetedWalkProofs speaks of the records only.  Here   *)
(* they are compared with the levels of the graph, which are defined by    *)
(* recursion: a record is never further away than the graph has it, since  *)
(* by the time a vertex of level d is expanded everything of level d and   *)
(* below is recorded (NearRecorded).  The other new facts are that no      *)
(* vertex is expanded twice (OnceOK), that `examined` counts distinct      *)
(* edges (ExaminedOK), and what each reason to stop stands for (ReasonsOK).*)
(***************************************************************************)

\* W is the sequence of levels: W[k] holds what is at most k edges away.
IsWithin(W) ==
    W = [k \in 0..query.depth |->
            IF k = 0 THEN {query.root}
            ELSE W[k - 1] \cup
                   {v \in Vertices : \E u \in W[k - 1] : Follows(u, v)}]

LEMMA WithinLevels == TypeOK => IsWithin(Within)
  <1> SUFFICES ASSUME TypeOK PROVE IsWithin(Within)
    OBVIOUS
  <1> DEFINE Wider(U) ==
               U \cup {v \in Vertices : \E u \in U : Follows(u, v)}
             step == [U \in SUBSET Ids |-> Wider(U)]
             n == query.depth
             a == {query.root}
  <1>1. n \in Nat /\ a \in SUBSET Ids
    BY QueryFacts
  <1>2. step \in [SUBSET Ids -> SUBSET Ids]
    BY WalkAssumption
  <1> HIDE DEF step, n, a
  <1>3. PICK f \in [0..n -> SUBSET Ids] : Iterates(f, n, a, step)
    BY <1>1, <1>2, IteratesExist
  <1>4. f = [k \in 0..n |-> IF k = 0 THEN a ELSE step[f[k - 1]]]
    BY <1>3 DEF Iterates
  <1>5. ASSUME NEW k \in 0..n
        PROVE  (IF k = 0 THEN a ELSE step[f[k - 1]]) =
               (IF k = 0 THEN a ELSE Wider(f[k - 1]))
    <2>1. CASE k # 0
      <3>1. k - 1 \in 0..n
        BY <1>1, <2>1
      <3>2. f[k - 1] \in SUBSET Ids
        BY <1>3, <3>1
      <3>3. step[f[k - 1]] = Wider(f[k - 1])
        BY <3>2 DEF step
      <3> QED BY <2>1, <3>3
    <2> QED BY <2>1
  <1> HIDE DEF Wider
  <1>6. f = [k \in 0..n |-> IF k = 0 THEN a ELSE Wider(f[k - 1])]
    BY <1>4, <1>5
  <1>7. IsWithin(f)
    BY <1>6 DEF IsWithin, Wider, n, a
  <1> QED BY <1>7 DEF IsWithin, Within

LEMMA WithinFacts ==
    ASSUME TypeOK, NEW W, IsWithin(W)
    PROVE  /\ W[0] = {query.root}
           /\ \A k \in 1..query.depth :
                 W[k] = W[k - 1] \cup
                   {v \in Vertices : \E u \in W[k - 1] : Follows(u, v)}
  <1>1. query.depth \in Nat
    BY QueryFacts
  <1>2. 0 \in 0..query.depth /\ \A k \in 1..query.depth :
                                   k \in 0..query.depth /\ k # 0
    BY <1>1
  <1>3. ASSUME NEW k \in 0..query.depth
        PROVE  W[k] = IF k = 0 THEN {query.root}
                      ELSE W[k - 1] \cup
                         {v \in Vertices : \E u \in W[k - 1] : Follows(u, v)}
    BY DEF IsWithin
  <1> QED BY <1>2, <1>3

\* The levels grow.
LEMMA WithinGrows ==
    ASSUME TypeOK, NEW W, IsWithin(W),
           NEW j \in 0..query.depth, NEW k \in 0..query.depth, j <= k
    PROVE  W[j] \subseteq W[k]
  <1> DEFINE S == {m \in 0..query.depth : j <= m => W[j] \subseteq W[m]}
  <1>1. query.depth \in Nat
    BY QueryFacts
  <1>2. 0 \in S
    BY <1>1
  <1>3. ASSUME NEW m \in 1..query.depth, m - 1 \in S PROVE m \in S
    <2>1. W[m - 1] \subseteq W[m]
      BY WithinFacts
    <2>2. CASE j <= m - 1
      BY <1>3, <2>1, <2>2
    <2>3. CASE ~(j <= m - 1)
      BY <1>1, <2>3
    <2> QED BY <2>2, <2>3
  <1> HIDE DEF S
  <1>4. 0..query.depth \subseteq S
    BY <1>1, <1>2, <1>3, InductionTo
  <1> QED BY <1>4 DEF S

----------------------------------------------------------------------------
(* The records and the levels.                                             *)

\* A record is not further away than the graph has the vertex.
ShortestOK ==
    \A W : IsWithin(W) =>
        \A v \in DOMAIN seen : \A k \in 0..query.depth :
            v \in W[k] => seen[v].distance <= k

\* Nor is it nearer: following `via` back to the root takes as many edges.
LEMMA RecordedAtLevel ==
    ASSUME TypeOK, RootOK, RecordsAreReal, NEW W, IsWithin(W),
           NEW v \in DOMAIN seen
    PROVE  /\ seen[v].distance \in 0..query.depth
           /\ v \in W[seen[v].distance]
  <1> DEFINE S == {m \in 0..query.depth :
                      \A u \in DOMAIN seen :
                         seen[u].distance = m => u \in W[m]}
  <1>1. query.depth \in Nat
    BY QueryFacts
  <1>2. query.root \in DOMAIN seen /\ seen[query.root].distance = 0
    BY DEF RootOK
  <1>3. \A u \in DOMAIN seen : seen[u].distance \in Nat
    BY QueueFacts
  <1>4. \A u \in DOMAIN seen : seen[u].distance \in 0..query.depth
    BY <1>1, <1>2, <1>3 DEF RecordsAreReal, Real
  <1>5. ASSUME NEW u \in DOMAIN seen, u # query.root
        PROVE  /\ seen[u].via \in DOMAIN seen /\ Follows(seen[u].via, u)
               /\ seen[seen[u].via].distance = seen[u].distance - 1
               /\ seen[u].distance # 0 /\ u \in Vertices
    <2>1. /\ seen[u].via \in DOMAIN seen /\ Follows(seen[u].via, u)
          /\ seen[u].distance = seen[seen[u].via].distance + 1
      BY <1>5 DEF RecordsAreReal, Real
    <2>2. seen[seen[u].via].distance \in Nat
      BY <2>1, <1>3
    <2>3. u \in Vertices
      BY DEF TypeOK
    <2> QED BY <2>1, <2>2, <2>3
  <1>6. 0 \in S
    <2>1. ASSUME NEW u \in DOMAIN seen, seen[u].distance = 0
          PROVE  u \in W[0]
      BY <2>1, <1>5, WithinFacts
    <2> QED BY <1>1, <2>1
  <1>7. ASSUME NEW m \in 1..query.depth, m - 1 \in S PROVE m \in S
    <2>1. ASSUME NEW u \in DOMAIN seen, seen[u].distance = m
          PROVE  u \in W[m]
      <3>1. u # query.root
        BY <1>2, <2>1
      <3>2. seen[u].via \in W[m - 1]
        BY <1>5, <1>7, <2>1, <3>1
      <3> QED BY <1>5, <3>1, <3>2, WithinFacts
    <2> QED BY <1>1, <2>1
  <1> HIDE DEF S
  <1>8. 0..query.depth \subseteq S
    BY <1>1, <1>6, <1>7, InductionTo
  <1> QED BY <1>4, <1>8 DEF S

\* When a vertex is expanded, all that is at most as far away is recorded:
\* what is nearer has left the queue, and all its edges are accounted for.
LEMMA NearRecorded ==
    ASSUME TypeOK, RootOK, LevelsOK, ClosureOK, ShortestOK, pc = "scan",
           NEW W, IsWithin(W), NEW j \in 0..seen[current].distance
    PROVE  j \in 0..query.depth /\ W[j] \subseteq DOMAIN seen
  <1> DEFINE d == seen[current].distance
             S == {m \in 0..d : W[m] \subseteq DOMAIN seen}
  <1>1. /\ query.depth \in Nat /\ d \in Nat /\ d < query.depth
        /\ current \in DOMAIN seen
    BY QueryFacts, QueueFacts DEF TypeOK, LevelsOK, ScanFrontier
  <1>2. query.root \in DOMAIN seen /\ seen[query.root].distance = 0
    BY DEF RootOK
  <1>3. 0 \in S
    BY <1>1, <1>2, WithinFacts
  <1>4. ASSUME NEW m \in 1..d, m - 1 \in S PROVE m \in S
    <2>1. m \in 1..query.depth /\ m - 1 \in 0..query.depth /\ m - 1 < d
      BY <1>1
    <2>2. ASSUME NEW v \in Vertices, NEW u \in W[m - 1], Follows(u, v)
          PROVE  v \in DOMAIN seen
      <3>1. u \in DOMAIN seen
        BY <1>4
      <3>2. seen[u].distance <= m - 1
        BY <2>1, <3>1 DEF ShortestOK
      <3>3. seen[u].distance \in Nat
        BY <3>1, QueueFacts
      <3>4. seen[u].distance < d
        BY <1>1, <2>1, <3>2, <3>3
      <3>5. u # current /\ seen[u].distance < query.depth
        BY <1>1, <3>3, <3>4
      <3>6. ~Waiting(u)
        <4>1. ASSUME NEW i \in DOMAIN queue, queue[i] = u PROVE FALSE
          <5>1. d <= seen[u].distance
            BY <4>1 DEF LevelsOK, ScanFrontier
          <5> QED BY <1>1, <3>3, <3>4, <5>1
        <4> QED BY <4>1 DEF Waiting
      <3>7. PICK e \in graph :
               Here(e) = u /\ Next1(e) = v /\ e.kind \in Dependency
        BY <2>2 DEF Follows
      <3>8. e \in Adjacent(u)
        BY <3>7 DEF Adjacent
      <3>9. Accounted(u, e)
        BY <3>1, <3>5, <3>6, <3>8
           DEF ClosureOK, ExpandedOK, Settled, Unlimited, Searching
      <3> QED BY <1>2, <3>7, <3>9 DEF Accounted, Registered
    <2>3. W[m] \subseteq DOMAIN seen
      BY <1>4, <2>1, <2>2, WithinFacts
    <2> QED BY <2>3
  <1> HIDE DEF S
  <1>5. 0..d \subseteq S
    BY <1>1, <1>3, <1>4, InductionTo
  <1>6. j \in 0..query.depth
    BY <1>1
  <1> QED BY <1>5, <1>6 DEF S

LEMMA ShortestInit == Init => ShortestOK
  BY EmptyDomain DEF Init, ShortestOK

\* The levels depend on the graph and the query only.
LEMMA WithinKept ==
    ASSUME UNCHANGED <<graph, query>>, NEW W
    PROVE  IsWithin(W)' <=> IsWithin(W)
  BY DEF IsWithin, Follows, Here, Next1

LEMMA ShortestKept ==
    ASSUME ShortestOK, UNCHANGED <<graph, query>>,
           DOMAIN seen' = DOMAIN seen,
           \A v \in DOMAIN seen : seen'[v].distance = seen[v].distance
    PROVE  ShortestOK'
  BY WithinKept DEF ShortestOK

LEMMA ShortestStep ==
    ASSUME TypeOK, RootOK, LevelsOK, ClosureOK, ShortestOK, [Next]_vars
    PROVE  ShortestOK'
  <1>1. CASE UNCHANGED <<graph, query, seen>>
    BY <1>1, ShortestKept
  <1>2. CASE Begin
    <2>1. /\ DOMAIN seen' = {query.root} /\ seen'[query.root].distance = 0
          /\ query' = query
      BY <1>2 DEF Begin, RootReach
    <2>2. query.depth \in Nat
      BY QueryFacts
    <2> QED BY <2>1, <2>2 DEF ShortestOK
  <1>3. CASE ExamineEdge
    <2>1. PICK e \in pending : Examine(e)
      BY <1>3 DEF ExamineEdge
    <2>2. pc = "scan" /\ UNCHANGED <<graph, query, current>>
      BY <1>3 DEF ExamineEdge
    <2>3. Grows
      BY <2>1, <2>2, ExamineTypes
    <2>4. CASE Fresh(Next1(e)) /\ ~Overflows(Next1(e))
      <3>1. PICK v \in Ids : v = Next1(e)
        BY <2>1, EdgeFacts DEF TypeOK
      <3>2. PICK d \in Nat : d = seen[current].distance
        BY <2>2, QueueFacts DEF TypeOK
      <3>3. /\ v \notin DOMAIN seen /\ DOMAIN seen' = DOMAIN seen \cup {v}
            /\ seen'[v].distance = d + 1
        <4>1. /\ v \notin DOMAIN seen /\ DOMAIN seen' = DOMAIN seen \cup {v}
              /\ seen'[v] = Discovered(current, d, e.kind)
          BY <2>1, <2>2, <2>4, <3>1, <3>2, ExamineFresh
        <4> QED BY <4>1 DEF Discovered
      <3>4. ASSUME NEW W, IsWithin(W), NEW k \in 0..query.depth, v \in W[k]
            PROVE  d + 1 <= k
        <4>1. k \in Nat
          BY QueryFacts
        <4>2. ~(k \in 0..d)
          BY <2>2, <3>2, <3>3, <3>4, NearRecorded
        <4> QED BY <3>2, <4>1, <4>2
      <3> QED BY <2>2, <2>3, <3>3, <3>4, WithinKept DEF ShortestOK, Grows
    <2>5. CASE Next1(e) # query.root /\ Next1(e) \in DOMAIN seen
      <3>1. DOMAIN seen' = DOMAIN seen
        BY <2>1, <2>2, <2>5, ExamineAgain
      <3> QED BY <2>2, <2>3, <3>1, ShortestKept DEF Grows
    <2>6. CASE /\ ~(Fresh(Next1(e)) /\ ~Overflows(Next1(e)))
               /\ ~(Next1(e) # query.root /\ Next1(e) \in DOMAIN seen)
      BY <2>1, <2>2, <2>6, ExamineElse, ShortestKept
    <2> QED BY <2>4, <2>5, <2>6
  <1> QED
    BY <1>1, <1>2, <1>3
       DEF Next, Walk, Done, vars, Cancel, Reject, PopCancelled, PopTooDeep,
           PopExhausted, Expand, Exhausted, ScanCancelled, ScanExhausted,
           Scanned, CollectOne, Report, Stop

----------------------------------------------------------------------------
(* What the records say is what the graph says.                            *)

Exact == TypeOK /\ RootOK /\ RecordsAreReal /\ ShortestOK

LEMMA DistanceIsRecorded ==
    ASSUME Exact, NEW v \in DOMAIN seen
    PROVE  /\ seen[v].distance \in 0..query.depth
           /\ v \in Within[query.depth]
           /\ Distance(v) = seen[v].distance
  <1> USE DEF Exact
  <1> DEFINE d == seen[v].distance
             P(k) == v \in Within[k] /\ \A j \in 0..(k - 1) : v \notin Within[j]
  <1>1. IsWithin(Within) /\ query.depth \in Nat
    BY WithinLevels, QueryFacts
  <1>2. d \in 0..query.depth /\ v \in Within[d]
    BY <1>1, RecordedAtLevel
  <1>3. \A k \in 0..query.depth : v \in Within[k] => d <= k
    BY <1>1 DEF ShortestOK
  <1>4. v \in Within[query.depth]
    BY <1>1, <1>2, WithinGrows
  <1>5. P(d)
    <2>1. ASSUME NEW j \in 0..(d - 1) PROVE v \notin Within[j]
      <3>1. j \in 0..query.depth /\ ~(d <= j)
        BY <1>1, <1>2
      <3> QED BY <1>3, <3>1
    <2> QED BY <1>2, <2>1
  <1>6. ASSUME NEW k \in 0..query.depth, P(k) PROVE k = d
    <2>1. d <= k
      BY <1>3, <1>6
    <2>2. ~(d \in 0..(k - 1))
      BY <1>2, <1>6
    <2> QED BY <1>1, <1>2, <2>1, <2>2
  <1>7. Distance(v) = CHOOSE k \in 0..query.depth : P(k)
    BY DEF Distance
  <1> HIDE DEF P
  <1>8. (CHOOSE k \in 0..query.depth : P(k)) = d
    BY <1>2, <1>5, <1>6
  <1> QED BY <1>2, <1>4, <1>7, <1>8

LEMMA ParentIsRecorded ==
    ASSUME Exact, NEW u \in DOMAIN seen, NEW v,
           seen[u].distance < query.depth, Follows(u, v)
    PROVE  u \in Parents(v)
  BY DistanceIsRecorded DEF Parents

LEMMA SoundRecord ==
    ASSUME Exact, NEW v \in DOMAIN seen, v # query.root
    PROVE  /\ v \in Neighbours
           /\ seen[v].distance = Distance(v)
           /\ seen[v].edges \subseteq KindsInto(v)
           /\ seen[v].via \in Nearest(v)
  <1>1. Real(v)
    BY DEF Exact, RecordsAreReal
  <1>2. v \in Neighbours /\ seen[v].distance = Distance(v)
    BY DistanceIsRecorded DEF Neighbours
  <1>3. ASSUME NEW k \in seen[v].edges PROVE k \in KindsInto(v)
    <2>1. PICK e \in graph :
             /\ e.kind = k /\ k \in Dependency /\ Next1(e) = v
             /\ Here(e) \in DOMAIN seen
             /\ seen[Here(e)].distance < query.depth
      BY <1>1 DEF Real
    <2>2. Follows(Here(e), v)
      BY <2>1 DEF Follows
    <2>3. Here(e) \in Parents(v)
      BY <2>1, <2>2, ParentIsRecorded
    <2> QED BY <2>1, <2>3 DEF KindsInto
  <1>4. seen[v].via \in Nearest(v)
    <2>1. /\ seen[v].via \in DOMAIN seen /\ Follows(seen[v].via, v)
          /\ seen[v].distance = seen[seen[v].via].distance + 1
          /\ seen[v].distance <= query.depth
      BY <1>1 DEF Real
    <2>2. seen[seen[v].via].distance \in Nat /\ query.depth \in Nat
      BY <2>1, QueueFacts, QueryFacts DEF Exact
    <2>3. seen[v].via \in Parents(v)
      BY <2>1, <2>2, ParentIsRecorded
    <2>4. Distance(seen[v].via) + 1 = Distance(v)
      BY <1>2, <2>1, DistanceIsRecorded
    <2> QED BY <2>3, <2>4 DEF Nearest
  <1> QED BY <1>2, <1>3, <1>4

\* When every edge that may be followed is accounted for, every vertex within
\* the depth is recorded.
LEMMA AllRecorded ==
    ASSUME Exact,
           query.root \in DOMAIN seen,
           \A u \in DOMAIN seen : seen[u].distance < query.depth =>
              \A e \in Adjacent(u) : Accounted(u, e)
    PROVE  Within[query.depth] \subseteq DOMAIN seen
  <1> USE DEF Exact
  <1> DEFINE S == {m \in 0..query.depth : Within[m] \subseteq DOMAIN seen}
  <1>1. IsWithin(Within) /\ query.depth \in Nat
    BY WithinLevels, QueryFacts
  <1>2. 0 \in S
    BY <1>1, WithinFacts
  <1>3. ASSUME NEW m \in 1..query.depth, m - 1 \in S PROVE m \in S
    <2>1. m - 1 \in 0..query.depth /\ m - 1 < query.depth
      BY <1>1
    <2>2. ASSUME NEW v \in Vertices, NEW u \in Within[m - 1], Follows(u, v)
          PROVE  v \in DOMAIN seen
      <3>1. u \in DOMAIN seen /\ seen[u].distance \in Nat
        BY <1>3, QueueFacts
      <3>2. seen[u].distance <= m - 1
        BY <1>1, <2>1, <3>1 DEF ShortestOK
      <3>3. seen[u].distance < query.depth
        BY <1>1, <3>1, <3>2
      <3>4. PICK e \in graph :
               Here(e) = u /\ Next1(e) = v /\ e.kind \in Dependency
        BY <2>2 DEF Follows
      <3>5. Accounted(u, e)
        BY <3>1, <3>3, <3>4 DEF Adjacent
      <3> QED BY <3>4, <3>5 DEF Accounted, Registered
    <2>3. Within[m] \subseteq DOMAIN seen
      BY <1>1, <1>3, <2>2, WithinFacts
    <2> QED BY <2>3
  <1> HIDE DEF S
  <1>4. 0..query.depth \subseteq S
    BY <1>1, <1>2, <1>3, InductionTo
  <1> QED BY <1>1, <1>4 DEF S

LEMMA ClosedIsExact ==
    ASSUME Exact, CompleteIsClosed, pc = "done", complete
    PROVE  /\ neighbors = Truncated(Neighbours)
           /\ \A v \in neighbors :
                 /\ seen[v].distance = Distance(v)
                 /\ seen[v].edges = KindsInto(v)
                 /\ seen[v].via \in Nearest(v)
                 /\ \A u \in Nearest(v) : seen[v].via <= u
  <1>1. /\ query.root \in DOMAIN seen
        /\ neighbors = Truncated(DOMAIN seen \ {query.root})
        /\ \A u \in DOMAIN seen : seen[u].distance < query.depth =>
              \A e \in Adjacent(u) : Accounted(u, e)
    BY DEF CompleteIsClosed
  <1>2. Within[query.depth] = DOMAIN seen
    <2>1. Within[query.depth] \subseteq DOMAIN seen
      BY <1>1, AllRecorded
    <2> QED BY <2>1, DistanceIsRecorded
  <1>3. neighbors = Truncated(Neighbours)
    BY <1>1, <1>2 DEF Neighbours
  <1>4. ASSUME NEW v \in DOMAIN seen, v # query.root, NEW u \in Parents(v),
               NEW e \in graph, Here(e) = u, Next1(e) = v,
               e.kind \in Dependency
        PROVE  /\ e.kind \in seen[v].edges
               /\ seen[v].distance = seen[u].distance + 1 => seen[v].via <= u
               /\ u \in DOMAIN seen
    <2>1. u \in DOMAIN seen /\ Distance(u) < query.depth
      BY <1>2 DEF Parents
    <2>2. seen[u].distance < query.depth
      BY <2>1, DistanceIsRecorded
    <2>3. Accounted(u, e)
      BY <1>1, <1>4, <2>1, <2>2 DEF Adjacent
    <2>4. v \in Vertices
      BY DEF Exact, TypeOK
    <2> QED BY <1>4, <2>1, <2>3, <2>4 DEF Accounted, Registered
  <1>5. ASSUME NEW v \in DOMAIN seen, v # query.root
        PROVE  /\ seen[v].distance = Distance(v)
               /\ seen[v].edges = KindsInto(v)
               /\ seen[v].via \in Nearest(v)
               /\ \A u \in Nearest(v) : seen[v].via <= u
    <2>1. /\ seen[v].distance = Distance(v)
          /\ seen[v].edges \subseteq KindsInto(v)
          /\ seen[v].via \in Nearest(v)
      BY <1>5, SoundRecord
    <2>2. KindsInto(v) \subseteq seen[v].edges
      BY <1>4, <1>5 DEF KindsInto
    <2>3. ASSUME NEW u \in Nearest(v) PROVE seen[v].via <= u
      <3>1. u \in Parents(v) /\ Distance(u) + 1 = Distance(v)
        BY DEF Nearest
      <3>2. PICK e \in graph :
               Here(e) = u /\ Next1(e) = v /\ e.kind \in Dependency
        BY <3>1 DEF Parents, Follows
      <3>3. u \in DOMAIN seen
        BY <1>4, <1>5, <3>1, <3>2
      <3>4. seen[v].distance = seen[u].distance + 1
        BY <2>1, <3>1, <3>3, DistanceIsRecorded
      <3> QED BY <1>4, <1>5, <3>1, <3>2, <3>4
    <2> QED BY <2>1, <2>2, <2>3
  <1>6. neighbors \subseteq DOMAIN seen \ {query.root}
    BY <1>1 DEF Truncated
  <1> QED BY <1>3, <1>5, <1>6

----------------------------------------------------------------------------
(* No vertex is expanded twice, and `examined` counts distinct edges.      *)

OnceOK ==
    /\ \A i, j \in DOMAIN queue : queue[i] = queue[j] => i = j
    /\ pc = "scan" => ~Waiting(current)
    /\ pc \in {"start", "pop"} => pending = {}

\* An edge the walk may look at, of a vertex that has left the queue.
Open(e) ==
    /\ e.kind \in Dependency
    /\ Here(e) \in DOMAIN seen
    /\ seen[Here(e)].distance < query.depth
    /\ ~Waiting(Here(e))

LookedAt == {e \in graph : Open(e)} \ pending

ExaminedOK == examined = Cardinality(LookedAt)

LEMMA OnceInit == Init => OnceOK
  BY EmptyDomain DEF Init, OnceOK

\* Taking the head off the queue changes nothing for the others.
LEMMA WaitingElsewhere ==
    ASSUME TypeOK, queue # << >>, queue' = Tail(queue), NEW u, u # Head(queue)
    PROVE  Waiting(u)' <=> Waiting(u)
  <1>1. ASSUME Waiting(u)' PROVE Waiting(u)
    <2>1. PICK i \in DOMAIN Tail(queue) : Tail(queue)[i] = u
      BY <1>1 DEF Waiting
    <2>2. i + 1 \in DOMAIN queue /\ queue[i + 1] = u
      BY <2>1, TailFacts
    <2> QED BY <2>2 DEF Waiting
  <1> QED BY <1>1, WaitingTail

LEMMA TailOnce ==
    ASSUME TypeOK, OnceOK, queue # << >>, queue' = Tail(queue),
           NEW u, u = Head(queue)
    PROVE  /\ \A i, j \in DOMAIN queue' : queue'[i] = queue'[j] => i = j
           /\ ~Waiting(u)'
  <1>1. /\ Head(queue) = queue[1] /\ 1 \in DOMAIN queue
        /\ DOMAIN queue' = 1..(Len(queue) - 1)
        /\ \A i \in DOMAIN queue' :
              i + 1 \in DOMAIN queue /\ queue'[i] = queue[i + 1]
    BY TailFacts
  <1>2. \A i, j \in DOMAIN queue : queue[i] = queue[j] => i = j
    BY DEF OnceOK
  <1>3. ASSUME NEW i \in DOMAIN queue', NEW j \in DOMAIN queue',
               queue'[i] = queue'[j]
        PROVE  i = j
    <2>1. i + 1 = j + 1
      BY <1>1, <1>2, <1>3
    <2>2. i \in Nat /\ j \in Nat
      BY <1>1
    <2> QED BY <2>1, <2>2
  <1>4. ASSUME NEW i \in DOMAIN queue', queue'[i] = u PROVE FALSE
    <2>1. i + 1 = 1
      BY <1>1, <1>2, <1>4
    <2>2. i \in Nat /\ i >= 1
      BY <1>1
    <2> QED BY <2>1, <2>2
  <1> QED BY <1>3, <1>4 DEF Waiting

LEMMA AppendOnce ==
    ASSUME TypeOK, OnceOK, NEW v, v \notin DOMAIN seen,
           queue' = Append(queue, v)
    PROVE  /\ \A i, j \in DOMAIN queue' : queue'[i] = queue'[j] => i = j
           /\ \A u : Waiting(u)' <=> Waiting(u) \/ u = v
  <1>1. /\ DOMAIN queue' = 1..(Len(queue) + 1)
        /\ \A i \in DOMAIN queue : queue'[i] = queue[i] /\ i \in DOMAIN queue'
        /\ \A i \in DOMAIN queue' : i \in DOMAIN queue \/ i = Len(queue) + 1
        /\ queue'[Len(queue) + 1] = v /\ Len(queue) + 1 \in DOMAIN queue'
    BY AppendFacts
  <1>2. \A i \in DOMAIN queue : queue[i] # v
    BY QueueFacts
  <1>3. \A i, j \in DOMAIN queue : queue[i] = queue[j] => i = j
    BY DEF OnceOK
  <1>4. ASSUME NEW i \in DOMAIN queue', NEW j \in DOMAIN queue',
               queue'[i] = queue'[j]
        PROVE  i = j
    BY <1>1, <1>2, <1>3, <1>4
  <1>5. ASSUME NEW u PROVE Waiting(u)' <=> Waiting(u) \/ u = v
    BY <1>1 DEF Waiting
  <1> QED BY <1>4, <1>5

LEMMA OnceStep ==
    ASSUME TypeOK, OnceOK, [Next]_vars
    PROVE  OnceOK'
  <1>1. CASE /\ pc' \in {"collect", "done"}
             /\ UNCHANGED queue
    BY <1>1 DEF OnceOK
  <1>2. CASE UNCHANGED <<pc, queue, current, pending>>
    BY <1>2 DEF OnceOK, Waiting
  <1>3. CASE Begin
    <2>1. queue' = <<query.root>> /\ pc' = "pop" /\ pending' = {}
      BY <1>3 DEF Begin, OnceOK
    <2> QED BY <2>1 DEF OnceOK
  <1>4. CASE PopTooDeep
    <2>1. queue # << >> /\ queue' = Tail(queue) /\ UNCHANGED <<pc, pending>>
      BY <1>4 DEF PopTooDeep
    <2>2. pc = "pop"
      BY <1>4 DEF PopTooDeep
    <2> QED BY <2>1, <2>2, TailOnce DEF OnceOK
  <1>5. CASE Expand
    <2>1. /\ queue' = Tail(queue) /\ current' = Head(queue)
          /\ queue # << >> /\ pc' = "scan"
      BY <1>5 DEF Expand
    <2>2. PICK u : u = Head(queue)
      OBVIOUS
    <2>3. /\ \A i, j \in DOMAIN queue' : queue'[i] = queue'[j] => i = j
          /\ ~Waiting(u)'
      BY <2>1, <2>2, TailOnce
    <2>4. Waiting(current)' <=> Waiting(u)'
      BY <2>1, <2>2 DEF Waiting
    <2> QED BY <2>1, <2>3, <2>4 DEF OnceOK
  <1>6. CASE ExamineEdge
    <2>1. PICK e \in pending : Examine(e)
      BY <1>6 DEF ExamineEdge
    <2>2. /\ pc = "scan" /\ UNCHANGED <<graph, query, current>>
          /\ pc' \in {"scan", "collect"}
      BY <1>6, <2>1 DEF ExamineEdge, Examine
    <2>3. CASE Fresh(Next1(e)) /\ ~Overflows(Next1(e))
      <3>1. queue' = Append(queue, Next1(e)) /\ Next1(e) \notin DOMAIN seen
        BY <2>1, <2>2, <2>3, ExamineFresh
      <3>2. current # Next1(e) /\ ~Waiting(current)
        BY <2>2, <3>1 DEF TypeOK, OnceOK
      <3>3. /\ \A i, j \in DOMAIN queue' : queue'[i] = queue'[j] => i = j
            /\ ~Waiting(current)'
        BY <2>2, <3>1, <3>2, AppendOnce DEF Waiting
      <3> QED BY <2>2, <3>3 DEF OnceOK
    <2>4. CASE ~(Fresh(Next1(e)) /\ ~Overflows(Next1(e)))
      <3>1. queue' = queue
        BY <2>1, <2>2, <2>4, ExamineAgain, ExamineElse
      <3> QED BY <2>2, <3>1 DEF OnceOK, Waiting
    <2> QED BY <2>3, <2>4
  <1>7. CASE Scanned
    BY <1>7 DEF Scanned, OnceOK
  <1> QED
    BY <1>1, <1>2, <1>3, <1>4, <1>5, <1>6, <1>7
       DEF Next, Walk, Done, vars, Cancel, Reject, PopCancelled, PopExhausted,
           Exhausted, ScanCancelled, ScanExhausted, CollectOne, Report, Stop

LEMMA LookedAtFinite ==
    ASSUME TypeOK
    PROVE  IsFiniteSet(graph) /\ IsFiniteSet(LookedAt)
  <1>1. IsFiniteSet(graph)
    BY WalkAssumption DEF TypeOK
  <1>2. LookedAt \subseteq graph
    BY DEF LookedAt
  <1> QED BY <1>1, <1>2, FS_Subset

LEMMA ExaminedInit == Init => ExaminedOK
  <1> SUFFICES ASSUME Init PROVE ExaminedOK
    OBVIOUS
  <1>1. LookedAt = {}
    BY EmptyDomain DEF Init, LookedAt, Open
  <1> QED BY <1>1, FS_EmptySet DEF Init, ExaminedOK

LEMMA LookedAtKept ==
    ASSUME UNCHANGED <<graph, query, seen, queue, pending>>
    PROVE  LookedAt' = LookedAt
  BY DEF LookedAt, Open, Here, Waiting

LEMMA ExpandLooksAtNothing ==
    ASSUME TypeOK, OnceOK, Expand
    PROVE  LookedAt' = LookedAt
  <1>1. /\ pc = "pop" /\ queue # << >> /\ queue' = Tail(queue)
        /\ UNCHANGED <<graph, query, seen>>
        /\ pending = {} /\ pending' = Adjacent(Head(queue))
    BY DEF Expand, OnceOK
  <1>2. Waiting(Head(queue))
    BY <1>1, TailFacts DEF Waiting
  <1>3. ASSUME NEW e \in graph PROVE e \in LookedAt' <=> e \in LookedAt
    <2>1. PICK u : u = Here(e)
      OBVIOUS
    <2>2. Here(e)' = u
      BY <1>1, <2>1 DEF Here
    <2>3. CASE u = Head(queue)
      <3>1. e \notin LookedAt
        BY <1>2, <2>1, <2>3 DEF LookedAt, Open
      <3>2. e.kind \in Dependency => e \in pending'
        BY <1>1, <2>1, <2>3 DEF Adjacent
      <3> QED BY <3>1, <3>2 DEF LookedAt, Open
    <2>4. CASE u # Head(queue)
      <3>1. Waiting(u)' <=> Waiting(u)
        BY <1>1, <2>4, WaitingElsewhere
      <3>2. Open(e)' <=> Open(e)
        BY <1>1, <2>1, <2>2, <3>1 DEF Open
      <3>3. e \notin pending /\ e \notin pending'
        BY <1>1, <2>1, <2>4 DEF Adjacent
      <3> QED BY <1>1, <3>2, <3>3 DEF LookedAt
    <2> QED BY <2>3, <2>4
  <1> QED BY <1>1, <1>3 DEF LookedAt

LEMMA TooDeepLooksAtNothing ==
    ASSUME TypeOK, PopTooDeep
    PROVE  LookedAt' = LookedAt
  <1>1. /\ queue # << >> /\ queue' = Tail(queue)
        /\ seen[Head(queue)].distance >= query.depth
        /\ UNCHANGED <<graph, query, seen, pending>>
    BY DEF PopTooDeep
  <1>2. ASSUME NEW e \in graph PROVE Open(e)' <=> Open(e)
    <2>1. PICK u : u = Here(e)
      OBVIOUS
    <2>2. Here(e)' = u
      BY <1>1, <2>1 DEF Here
    <2>3. CASE u = Head(queue)
      <3>1. u \in DOMAIN seen => ~(seen[u].distance < query.depth)
        BY <1>1, <2>3, QueueFacts, QueryFacts
      <3> QED BY <1>1, <2>1, <2>2, <3>1 DEF Open
    <2>4. CASE u # Head(queue)
      <3>1. Waiting(u)' <=> Waiting(u)
        BY <1>1, <2>4, WaitingElsewhere
      <3> QED BY <1>1, <2>1, <2>2, <3>1 DEF Open
    <2> QED BY <2>3, <2>4
  <1> QED BY <1>1, <1>2 DEF LookedAt

LEMMA ExamineLooksAtOne ==
    ASSUME TypeOK, LevelsOK, OnceOK, pc = "scan", NEW e \in pending,
           Examine(e), UNCHANGED <<graph, query, current>>
    PROVE  e \in graph /\ e \notin LookedAt /\ LookedAt' = LookedAt \cup {e}
  <1>1. pending' = pending \ {e} /\ e \in graph /\ pending \subseteq graph
    BY DEF Examine, TypeOK
  <1>2. ASSUME NEW f \in graph PROVE Open(f)' <=> Open(f)
    <2>1. PICK u : u = Here(f)
      OBVIOUS
    <2>2. Here(f)' = u
      BY <2>1 DEF Here
    <2>3. CASE Fresh(Next1(e)) /\ ~Overflows(Next1(e))
      <3>1. PICK v : v = Next1(e)
        OBVIOUS
      <3>2. /\ v \notin DOMAIN seen /\ DOMAIN seen' = DOMAIN seen \cup {v}
            /\ \A w \in DOMAIN seen : seen'[w] = seen[w]
            /\ queue' = Append(queue, v)
        BY <2>3, <3>1, ExamineFresh
      <3>3. Waiting(u)' <=> Waiting(u) \/ u = v
        BY <3>2, AppendOnce
      <3> QED BY <2>1, <2>2, <3>2, <3>3 DEF Open
    <2>4. CASE ~(Fresh(Next1(e)) /\ ~Overflows(Next1(e)))
      <3>1. queue' = queue /\ DOMAIN seen' = DOMAIN seen
        BY <2>4, ExamineAgain, ExamineElse
      <3>2. Grows
        BY ExamineTypes
      <3> QED BY <2>1, <2>2, <3>1, <3>2 DEF Open, Waiting, Grows
    <2> QED BY <2>3, <2>4
  <1>3. Open(e)
    <2>1. e \in Adjacent(current) /\ seen[current].distance < query.depth
      BY DEF LevelsOK, ScanFrontier
    <2>2. Here(e) = current /\ e.kind \in Dependency
      BY <2>1 DEF Adjacent
    <2>3. current \in DOMAIN seen /\ ~Waiting(current)
      BY DEF TypeOK, OnceOK
    <2> QED BY <2>1, <2>2, <2>3 DEF Open
  <1> QED BY <1>1, <1>2, <1>3 DEF LookedAt

LEMMA ExaminedStep ==
    ASSUME TypeOK, RootOK, LevelsOK, OnceOK, ExaminedOK, [Next]_vars
    PROVE  ExaminedOK'
  <1>1. CASE UNCHANGED <<graph, query, seen, queue, pending, examined>>
    BY <1>1, LookedAtKept DEF ExaminedOK
  <1>2. CASE Begin
    <2>1. /\ pc = "start" /\ DOMAIN seen' = {query.root}
          /\ queue' = <<query.root>> /\ examined' = examined
      BY <1>2 DEF Begin
    <2>2. LookedAt = {}
      BY <2>1 DEF LookedAt, Open, RootOK
    <2>3. LookedAt' = {}
      <3>1. ASSUME NEW u \in DOMAIN seen' PROVE Waiting(u)'
        BY <2>1, <3>1 DEF Waiting
      <3> QED BY <3>1 DEF LookedAt, Open, Waiting
    <2> QED BY <2>1, <2>2, <2>3 DEF ExaminedOK
  <1>3. CASE PopTooDeep
    BY <1>3, TooDeepLooksAtNothing DEF PopTooDeep, ExaminedOK
  <1>4. CASE Expand
    BY <1>4, ExpandLooksAtNothing DEF Expand, ExaminedOK
  <1>5. CASE ExamineEdge
    <2>1. PICK e \in pending : Examine(e)
      BY <1>5 DEF ExamineEdge
    <2>2. pc = "scan" /\ UNCHANGED <<graph, query, current>>
      BY <1>5 DEF ExamineEdge
    <2>3. e \notin LookedAt /\ LookedAt' = LookedAt \cup {e}
      BY <2>1, <2>2, ExamineLooksAtOne
    <2>4. Cardinality(LookedAt \cup {e}) = Cardinality(LookedAt) + 1
      BY <2>3, LookedAtFinite, FS_AddElement
    <2>5. examined' = examined + 1
      BY <2>1 DEF Examine
    <2> QED BY <2>3, <2>4, <2>5 DEF ExaminedOK
  <1> QED
    BY <1>1, <1>2, <1>3, <1>4, <1>5
       DEF Next, Walk, Done, vars, Cancel, Reject, PopCancelled, PopExhausted,
           Exhausted, ScanCancelled, ScanExhausted, Scanned, CollectOne,
           Report, Stop

----------------------------------------------------------------------------
(* What each reason stands for.                                            *)

\* A vertex that may be reached from a record and is not recorded itself.
LeftOut ==
    \E u \in DOMAIN seen : \E v \in Vertices \ DOMAIN seen :
        seen[u].distance < query.depth /\ Follows(u, v)

ReasonsOK ==
    /\ pc \in {"start", "pop", "scan"} => reasons \subseteq {"cancelled"}
    /\ "cancelled" \in reasons => cancel
    /\ "root-not-found" \in reasons => query.root \notin Vertices
    /\ "visited-limit" \in reasons => query.maxVisited = 0 \/ LeftOut
    /\ "edge-limit" \in reasons => query.maxEdges <= examined
    /\ pc = "done" /\ ~complete => ~(reasons \subseteq {"result-limit"})

LEMMA ReasonsInit == Init => ReasonsOK
  BY DEF Init, ReasonsOK

LEMMA ReasonsStep ==
    ASSUME TypeOK, CountOK, LevelsOK, ReasonsOK, [Next]_vars
    PROVE  ReasonsOK'
  <1>1. CASE UNCHANGED <<graph, query, seen>>
    <2>1. LeftOut' <=> LeftOut
      BY <1>1 DEF LeftOut, Follows, Here, Next1
    <2>2. CASE Cancel \/ UNCHANGED vars
      BY <1>1, <2>1, <2>2 DEF Cancel, vars, ReasonsOK
    <2>3. CASE Reject
      BY <1>1, <2>1, <2>3 DEF Reject, Noticed, ReasonsOK
    <2>4. CASE PopTooDeep \/ Expand \/ Exhausted \/ Scanned \/ CollectOne
      BY <1>1, <2>1, <2>4 DEF PopTooDeep, Expand, Exhausted, Scanned,
                              CollectOne, ReasonsOK
    <2>5. CASE PopCancelled \/ ScanCancelled
      BY <1>1, <2>1, <2>5 DEF PopCancelled, ScanCancelled, ScanStops, Stop,
                              ReasonsOK
    <2>6. CASE PopExhausted \/ ScanExhausted
      <3>1. query.maxEdges <= examined
        BY <2>6, QueryFacts DEF PopExhausted, ScanExhausted, EdgeBudgetSpent,
                                TypeOK
      <3> QED BY <1>1, <2>1, <2>6, <3>1 DEF PopExhausted, ScanExhausted, Stop,
                                            ReasonsOK
    <2>7. CASE Report
      BY <1>1, <2>1, <2>7 DEF Report, LateReasons, Noticed, ReasonsOK
    <2>8. CASE ExamineEdge
      <3>1. PICK e \in pending : Examine(e)
        BY <2>8 DEF ExamineEdge
      <3>2. pc = "scan" /\ UNCHANGED cancel
        BY <2>8 DEF ExamineEdge
      <3>3. /\ examined' = examined + 1 /\ examined \in Nat
            /\ query.maxEdges \in Nat
        BY <3>1, QueryFacts DEF Examine, TypeOK
      <3>4. CASE ~Overflows(Next1(e))
        BY <1>1, <2>1, <3>1, <3>2, <3>3, <3>4 DEF Examine, ReasonsOK
      <3>5. CASE Overflows(Next1(e))
        <4>1. reasons' = reasons \cup {"visited-limit"} /\ pc' = "collect"
          BY <3>1, <3>5 DEF Examine
        <4>2. Next1(e) \in Vertices \ DOMAIN seen
          BY <3>5 DEF Overflows, Fresh, Registered
        <4>3. e \in Adjacent(current) /\ seen[current].distance < query.depth
          BY <3>1, <3>2 DEF LevelsOK, ScanFrontier
        <4>4. Follows(current, Next1(e))
          BY <4>3 DEF Adjacent, Follows
        <4>5. LeftOut
          BY <3>2, <4>2, <4>3, <4>4 DEF LeftOut, TypeOK
        <4> QED BY <1>1, <2>1, <3>2, <3>3, <4>1, <4>5 DEF ReasonsOK
      <3> QED BY <3>4, <3>5
    <2>9. CASE Begin
      BY <1>1, <2>1, <2>9 DEF Begin, Noticed, ReasonsOK
    <2> QED
      BY <2>2, <2>3, <2>4, <2>5, <2>6, <2>7, <2>8, <2>9 DEF Next, Walk, Done
  <1>2. CASE Begin
    BY <1>2 DEF Begin, Noticed, ReasonsOK
  <1>3. CASE ExamineEdge
    <2>1. PICK e \in pending : Examine(e)
      BY <1>3 DEF ExamineEdge
    <2>2. /\ pc = "scan" /\ UNCHANGED <<graph, query, cancel>>
          /\ reasons \subseteq {"cancelled"}
      BY <1>3 DEF ExamineEdge, ReasonsOK
    <2>3. CASE Overflows(Next1(e))
      <3>1. UNCHANGED seen
        BY <2>1, <2>2, <2>3, ExamineElse DEF Overflows, Fresh
      <3> QED BY <1>1, <2>2, <3>1
    <2>4. CASE ~Overflows(Next1(e))
      <3>1. UNCHANGED <<pc, reasons>>
        BY <2>1, <2>4 DEF Examine
      <3> QED BY <2>2, <3>1 DEF ReasonsOK
    <2> QED BY <2>3, <2>4
  <1> QED
    BY <1>1, <1>2, <1>3
       DEF Next, Walk, Done, vars, Cancel, Reject, PopCancelled, PopTooDeep,
           PopExhausted, Expand, Exhausted, ScanCancelled, ScanExhausted,
           Scanned, CollectOne, Report, Stop

----------------------------------------------------------------------------
(* The theorems.                                                           *)

InvExact == Inv /\ ShortestOK /\ OnceOK /\ ExaminedOK /\ ReasonsOK

\* The inductive invariant, with the distances of the graph, the edges looked
\* at and the reasons to stop (walk, budget.rs).
THEOREM InductiveExact == Spec => []InvExact
  <1>1. Init => InvExact
    BY TypeInit, CountInit, RootInit, OutputInit, LevelsInit, ClosureInit,
       RealInit, ShortestInit, OnceInit, ExaminedInit, ReasonsInit
       DEF Inv, InvExact
  <1>2. Inv' /\ InvExact /\ [Next]_vars => InvExact'
    BY ShortestStep, OnceStep, ExaminedStep, ReasonsStep DEF Inv, InvExact
  <1> QED BY <1>1, <1>2, Inductive, PTL DEF Spec

\* A complete report is the answer a search of the whole graph would give, cut
\* to the first maxResults ids: nothing within the depth is missing, distances
\* are shortest, kinds are all there, and `via` is the least nearest
\* predecessor (walk and Reach::observe).
THEOREM ExactReport == Spec => []CompleteIsExact
  <1>1. InvExact => CompleteIsExact
    BY ClosedAtEnd, ClosedIsExact
       DEF InvExact, Inv, Exact, CompleteIsExact
  <1> QED BY <1>1, InductiveExact, PTL

\* A walk that a budget or a cancellation cut short says nothing wrong of what
\* it did reach.
THEOREM SoundReport == Spec => []PartialIsSound
  <1>1. InvExact => PartialIsSound
    BY SoundRecord DEF InvExact, Inv, Exact, PartialIsSound
  <1> QED BY <1>1, InductiveExact, PTL

\* A limit that is given as the reason for an incomplete report did bite: the
\* vertex limit left a neighbour out, and the edge limit was not above the
\* number of edges that may be looked at.
THEOREM LimitsAreReal == Spec => []LimitsBite
  <1>1. ASSUME InvExact, pc = "done", ~complete, ~cancel,
               query.root \in Vertices
        PROVE  \/ "visited-limit" \in reasons /\ query.maxVisited = 0
               \/ /\ "visited-limit" \in reasons
                  /\ ~(Neighbours \subseteq DOMAIN seen)
               \/ /\ "edge-limit" \in reasons
                  /\ query.maxEdges <= Cardinality(Examinable)
    <2>1. TypeOK /\ RootOK /\ Exact /\ ReasonsOK /\ ExaminedOK
      BY <1>1 DEF InvExact, Inv, Exact
    <2>2. "visited-limit" \in reasons \/ "edge-limit" \in reasons
      BY <1>1, <2>1 DEF ReasonsOK, TypeOK, Reasons
    <2>3. CASE "visited-limit" \in reasons /\ query.maxVisited # 0
      <3>1. PICK u \in DOMAIN seen, v \in Vertices \ DOMAIN seen :
               seen[u].distance < query.depth /\ Follows(u, v)
        BY <2>1, <2>3 DEF ReasonsOK, LeftOut
      <3> DEFINE d == seen[u].distance
      <3>2. IsWithin(Within) /\ query.depth \in Nat
        BY <2>1, WithinLevels, QueryFacts
      <3>3. d \in 0..query.depth /\ u \in Within[d]
        BY <2>1, <3>2, RecordedAtLevel DEF Exact
      <3>4. d + 1 \in 1..query.depth /\ (d + 1) - 1 = d
        BY <3>1, <3>2, <3>3
      <3>5. v \in Within[d + 1]
        BY <2>1, <3>1, <3>2, <3>3, <3>4, WithinFacts
      <3>6. v \in Within[query.depth]
        BY <2>1, <3>2, <3>4, <3>5, WithinGrows
      <3>7. v # query.root
        BY <2>1, <3>1 DEF RootOK
      <3> QED BY <2>3, <3>1, <3>6, <3>7 DEF Neighbours
    <2>4. CASE "edge-limit" \in reasons
      <3>1. query.maxEdges <= Cardinality(LookedAt)
        BY <2>1, <2>4 DEF ReasonsOK, ExaminedOK
      <3>2. LookedAt \subseteq Examinable
        BY <2>1, DistanceIsRecorded DEF LookedAt, Open, Examinable
      <3>3. IsFiniteSet(Examinable)
        BY <2>1, LookedAtFinite, FS_Subset DEF Examinable
      <3>4. /\ Cardinality(LookedAt) <= Cardinality(Examinable)
            /\ Cardinality(LookedAt) \in Nat /\ Cardinality(Examinable) \in Nat
        BY <2>1, <3>2, <3>3, LookedAtFinite, FS_Subset, FS_CardinalityType
      <3> QED BY <2>1, <2>4, <3>1, <3>4, QueryFacts
    <2> QED BY <2>2, <2>3, <2>4
  <1>2. InvExact => LimitsBite
    BY <1>1 DEF LimitsBite
  <1> QED BY <1>2, InductiveExact, PTL
=============================================================================
