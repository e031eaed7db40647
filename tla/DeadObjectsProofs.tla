------------------------- MODULE DeadObjectsProofs -------------------------
(***************************************************************************)
(* That the dead objects are exactly those nothing alive uses, for every   *)
(* graph, policy and set of possible calls.                                *)
(*                                                                         *)
(* While candidates are spread, the counter of an object is the number of  *)
(* its dependents that are not yet accounted for, and whoever depends on a *)
(* candidate is one.  Then nobody outside a cycle is left without a reason *)
(* to live: in a finite set whose members all have a dependent in it, some *)
(* member is on a cycle.  While they are taken back, those that live are   *)
(* between what must live and what is closed under use.                    *)
(***************************************************************************)
EXTENDS DeadObjects, FiniteSetTheorems, WellFoundedInduction, TLAPS

Reasons == {"no-dependents", "all-dependents-dead"}

Survivors == Ids \ DOMAIN dead

\* The dependents that have not been accounted for.
Awaited(u) == Dependents(u) \ (DOMAIN dead \ waiting)

TypeOK ==
    /\ graph \in SUBSET Edges /\ query \in DeadQueries
    /\ pass \in {"retain", "spread", "rescue", "done"}
    /\ waiting \subseteq Vertices /\ protected \subseteq Vertices
    /\ remaining \in [DOMAIN remaining -> Nat]
    /\ dead \in [DOMAIN dead -> Reasons]

\* What is protected is what the policy asks for.
Protected ==
    /\ query.retain \subseteq protected
    /\ protected \subseteq Closure(query.retain, Dependencies)

Candidates == DOMAIN dead \subseteq Eligible

Unspread ==
    pass = "retain" => waiting \subseteq protected /\ DOMAIN dead = {}

Counted ==
    pass = "spread" =>
       /\ waiting \subseteq DOMAIN dead
       /\ DOMAIN remaining = Eligible \ DOMAIN dead
       /\ \A u \in DOMAIN remaining :
             /\ remaining[u] = Cardinality(Awaited(u))
             /\ Awaited(u) # {}

\* The dependents of a candidate are candidates, which no cycle allows.
Grounded ==
    pass = "spread" =>
       \A u \in DOMAIN dead :
          Dependents(u) \subseteq DOMAIN dead /\ u \notin Cyclic

Reasoned ==
    pass \in {"spread", "rescue"} =>
       \A u \in DOMAIN dead :
          dead[u] = "no-dependents" <=> Dependents(u) = {}

\* Those that live include all that must, and nobody without a reason; what
\* one uses lives too, unless that is still to be looked at.
Rescued ==
    pass = "rescue" =>
       /\ waiting \subseteq Survivors
       /\ Alive \subseteq Survivors
       /\ Survivors \subseteq Closure(Alive, Using)
       /\ \A u \in Survivors \ waiting : Uses(u) \subseteq Survivors

IInv ==
    /\ TypeOK /\ Protected /\ Candidates /\ Unspread /\ Counted /\ Grounded
    /\ Reasoned /\ Rescued /\ CandidatesExact

-----------------------------------------------------------------------------
(* The closure of a set. *)

LEMMA ClosureFacts ==
    ASSUME NEW vs, vs \subseteq Ids, NEW f \in [Ids -> SUBSET Ids]
    PROVE  /\ Closure(vs, f) \subseteq Ids
           /\ vs \subseteq Closure(vs, f)
           /\ Closed(Closure(vs, f), f)
  <1>1. Closure(vs, f) \subseteq Ids
    BY DEF Closure
  <1>2. vs \subseteq Closure(vs, f)
    BY DEF Closure
  <1>3. ASSUME NEW u \in Closure(vs, f), NEW w \in f[u]
        PROVE  w \in Closure(vs, f)
    <2>1. u \in Ids /\ w \in Ids
      BY <1>1, <1>3
    <2>2. ASSUME NEW other \in SUBSET Ids, vs \subseteq other,
                 Closed(other, f)
          PROVE  w \in other
      <3>1. u \in other
        BY <1>3, <2>2 DEF Closure
      <3> QED BY <1>3, <2>2, <3>1 DEF Closed
    <2> QED BY <2>1, <2>2 DEF Closure
  <1> QED BY <1>1, <1>2, <1>3 DEF Closed

LEMMA ClosureLeast ==
    ASSUME NEW vs, NEW f, NEW other, other \subseteq Ids,
           vs \subseteq other, Closed(other, f)
    PROVE  Closure(vs, f) \subseteq other
  BY DEF Closure

\* A set of natural numbers has a least element.
LEMMA LeastNatural ==
    ASSUME NEW S \in SUBSET Nat, S # {}
    PROVE  \E n \in S : \A m \in S : n <= m
  <1> DEFINE R == OpToRel(<, Nat)
  <1>1. IsWellFoundedOn(R, Nat)
    BY NatLessThanWellFounded
  <1>2. \A x, y \in Nat : <<y, x>> \in R <=> y < x
    BY DEF OpToRel
  <1> HIDE DEF R
  <1>3. PICK x \in S : \A y \in S : ~ (<<y, x>> \in R)
    <2>1. S \subseteq Nat /\ S # {}
      OBVIOUS
    <2> QED BY <1>1, <2>1, WFMin
  <1>4. ASSUME NEW y \in S PROVE x <= y
    <2>1. x \in Nat /\ y \in Nat
      OBVIOUS
    <2>2. ~ (y < x)
      BY <1>2, <1>3, <2>1
    <2> QED BY <2>1, <2>2
  <1> QED BY <1>4

\* In a set whose members all have a predecessor in it, somebody is on a
\* cycle: one with the fewest members of the set before it.
LEMMA CycleIn ==
    ASSUME NEW f \in [Ids -> SUBSET Ids],
           NEW B, B \subseteq Ids, IsFiniteSet(B), B # {},
           \A v \in B : \E u \in B : v \in f[u]
    PROVE  \E v \in B : v \in Closure(f[v], f)
  <1> DEFINE From(v) == {u \in B : v \in Closure(f[u], f)}
             Sizes == {Cardinality(From(v)) : v \in B}
  <1>1. ASSUME NEW v \in B
        PROVE  IsFiniteSet(From(v)) /\ Cardinality(From(v)) \in Nat
    <2>1. From(v) \subseteq B
      OBVIOUS
    <2>2. IsFiniteSet(From(v))
      BY <2>1, FS_Subset
    <2> HIDE DEF From
    <2> QED BY <2>2, FS_CardinalityType
  <1>2. PICK v \in B : \A u \in B : Cardinality(From(v)) <= Cardinality(From(u))
    <2>1. Sizes \in SUBSET Nat /\ Sizes # {}
      BY <1>1
    <2>2. PICK n \in Sizes : \A m \in Sizes : n <= m
      <3> HIDE DEF Sizes
      <3> QED BY <2>1, LeastNatural
    <2>3. PICK v \in B : n = Cardinality(From(v))
      OBVIOUS
    <2>4. \A u \in B : Cardinality(From(v)) <= Cardinality(From(u))
      BY <2>2, <2>3
    <2> QED BY <2>3, <2>4
  <1>3. PICK w \in B : v \in f[w]
    OBVIOUS
  <1>4. w \in From(v)
    <2>1. f[w] \subseteq Ids
      OBVIOUS
    <2>2. f[w] \subseteq Closure(f[w], f)
      BY <2>1, ClosureFacts
    <2> QED BY <1>3, <2>2
  <1>5. From(w) \subseteq From(v)
    <2>1. ASSUME NEW u \in B, w \in Closure(f[u], f)
          PROVE  v \in Closure(f[u], f)
      <3>1. f[u] \subseteq Ids
        OBVIOUS
      <3>2. Closed(Closure(f[u], f), f)
        BY <3>1, ClosureFacts
      <3> QED BY <1>3, <2>1, <3>2 DEF Closed
    <2> QED BY <2>1
  <1>6. From(w) = From(v)
    <2>1. IsFiniteSet(From(v)) /\ Cardinality(From(v)) <= Cardinality(From(w))
      BY <1>1, <1>2
    <2>2. IsFiniteSet(From(w)) /\ Cardinality(From(w)) \in Nat
          /\ Cardinality(From(v)) \in Nat
      BY <1>1
    <2> HIDE DEF From
    <2>3. Cardinality(From(w)) <= Cardinality(From(v))
      BY <1>5, <2>1, FS_Subset
    <2>4. Cardinality(From(w)) = Cardinality(From(v))
      BY <2>1, <2>2, <2>3
    <2> QED BY <1>5, <2>1, <2>4, FS_Subset
  <1>7. w \in From(w)
    BY <1>4, <1>6
  <1> QED BY <1>7

-----------------------------------------------------------------------------
(* The graph, and what no step changes. *)

LEMMA GraphFacts ==
    ASSUME TypeOK
    PROVE  /\ Vertices \subseteq Ids /\ IsFiniteSet(Ids)
           /\ query.consumers \subseteq Vertices
           /\ query.retain \subseteq Vertices
           /\ \A u \in Ids : DependsOn(u) \subseteq Ids
           /\ \A u \in Ids : Dependents(u) \subseteq Ids
           /\ \A u \in Ids : MayCall(u) \subseteq Vertices
           /\ Callers \subseteq Vertices
           /\ \A p \in Possible : p[1] \in Callers /\ p[2] \in MayCall(p[1])
           /\ \A u \in Ids : u \notin Callers => MayCall(u) = {}
  <1> USE DeadAssumption DEF TypeOK
  <1>1. /\ Vertices \subseteq Ids /\ IsFiniteSet(Ids)
        /\ graph \subseteq Edges
    BY DEF ObjectGraphAssumption
  <1>2. query \in [consumers : SUBSET Vertices, retain : SUBSET Vertices,
                   possible : SUBSET (Vertices \X Vertices)]
    OBVIOUS
  <1>3. query.consumers \subseteq Vertices /\ query.retain \subseteq Vertices
    BY <1>2
  <1>4. \A p \in Possible : p[1] \in Vertices /\ p[2] \in Vertices
    BY <1>2 DEF Possible
  <1>5. \A e \in graph : e.from \in Ids /\ e.to \in Ids
    BY <1>1 DEF Edges
  <1>6. \A u \in Ids : DependsOn(u) \subseteq Ids /\ Dependents(u) \subseteq Ids
    BY <1>5 DEF DependsOn, Dependents, Successors, Adjacent, End
  <1>7. /\ \A u \in Ids : MayCall(u) \subseteq Vertices
        /\ Callers \subseteq Vertices
    BY <1>4 DEF MayCall, Callers
  <1>8. \A p \in Possible : p[1] \in Callers /\ p[2] \in MayCall(p[1])
    BY DEF MayCall, Callers
  <1>9. \A u \in Ids : u \notin Callers => MayCall(u) = {}
    BY DEF MayCall, Callers
  <1> QED BY <1>1, <1>3, <1>6, <1>7, <1>8, <1>9

\* To be a dependent is the converse of to depend.
LEMMA Converse ==
    ASSUME NEW u, NEW v
    PROVE  u \in Dependents(v) <=> v \in DependsOn(u)
  BY DEF Dependents, DependsOn, Successors, Adjacent, End, NearEnd

LEMMA MapsOfIds ==
    ASSUME TypeOK
    PROVE  /\ Dependencies \in [Ids -> SUBSET Ids]
           /\ Using \in [Ids -> SUBSET Ids]
           /\ Alive \subseteq Ids
  <1>1. Dependencies \in [Ids -> SUBSET Ids]
    BY GraphFacts DEF Dependencies
  <1>2. Using \in [Ids -> SUBSET Ids]
    BY GraphFacts DEF Using, Uses
  <1>3. Alive \subseteq Ids
    BY DEF Alive, Closure, Cyclic
  <1> QED BY <1>1, <1>2, <1>3

LEMMA Frame ==
    ASSUME UNCHANGED <<graph, query>>
    PROVE  /\ \A u : Dependents(u)' = Dependents(u)
           /\ \A u : Uses(u)' = Uses(u)
           /\ Possible' = Possible
           /\ Dependencies' = Dependencies
           /\ Using' = Using /\ Cyclic' = Cyclic /\ Alive' = Alive
           /\ query.retain' = query.retain
  <1>1. \A u : Dependents(u)' = Dependents(u)
    BY DEF Dependents, Successors, Adjacent
  <1>2. \A u : DependsOn(u)' = DependsOn(u)
    BY DEF DependsOn, Successors, Adjacent
  <1>3. Possible' = Possible
    BY DEF Possible
  <1>4. \A u : MayCall(u)' = MayCall(u)
    BY <1>3 DEF MayCall
  <1>5. \A u : Uses(u)' = Uses(u)
    BY <1>2, <1>4 DEF Uses
  <1>6. Dependencies' = Dependencies
    BY <1>2 DEF Dependencies
  <1>7. Using' = Using
    BY <1>5 DEF Using
  <1>8. Cyclic' = Cyclic
    BY <1>2, <1>6 DEF Cyclic, Closure, Closed
  <1>9. Alive' = Alive
    BY <1>6, <1>8 DEF Alive, Closure, Closed
  <1> QED BY <1>1, <1>3, <1>5, <1>6, <1>7, <1>8, <1>9

\* Whoever is on a cycle has a dependent that is on it too.
LEMMA CyclicDependent ==
    ASSUME TypeOK, NEW v \in Cyclic
    PROVE  \E u \in Dependents(v) : u \in Cyclic
  <1> DEFINE f == Dependencies
             all == {w \in Ids : w \in DependsOn(v) \/ \E u \in Closure(DependsOn(v), f) : w \in f[u]}
  <1>1. /\ v \in Ids /\ DependsOn(v) \subseteq Ids
        /\ v \in Closure(DependsOn(v), f)
        /\ f[v] = DependsOn(v)
    BY GraphFacts DEF Cyclic, Dependencies
  <1>2. /\ Closure(DependsOn(v), f) \subseteq Ids
        /\ DependsOn(v) \subseteq Closure(DependsOn(v), f)
        /\ Closed(Closure(DependsOn(v), f), f)
    BY <1>1, MapsOfIds, ClosureFacts
  <1>3. Closed(all, f)
    <2>1. ASSUME NEW u \in all, NEW w \in f[u] PROVE w \in all
      <3>1. u \in Closure(DependsOn(v), f)
        BY <1>2 DEF Closed
      <3>2. w \in Ids
        BY <3>1, <1>2, MapsOfIds
      <3> QED BY <3>1, <3>2
    <2> QED BY <2>1 DEF Closed
  <1>4. v \in all
    <2>1. all \subseteq Ids /\ DependsOn(v) \subseteq all
      BY <1>1
    <2> HIDE DEF all
    <2> QED BY <1>1, <1>3, <2>1, ClosureLeast
  <1>5. PICK u \in Closure(DependsOn(v), f) : v \in f[u]
    <2>1. CASE v \in DependsOn(v)
      BY <1>1, <2>1
    <2>2. CASE v \notin DependsOn(v)
      BY <1>4, <2>2
    <2> QED BY <2>1, <2>2
  <1>6. u \in Ids /\ v \in DependsOn(u) /\ f[u] = DependsOn(u)
    BY <1>2, <1>5 DEF Dependencies
  <1>7. u \in Cyclic
    <2>1. DependsOn(u) \subseteq Ids /\ Closed(Closure(DependsOn(u), f), f)
          /\ Closure(DependsOn(u), f) \subseteq Ids
          /\ v \in Closure(DependsOn(u), f)
      BY <1>6, GraphFacts, MapsOfIds, ClosureFacts
    <2>2. DependsOn(v) \subseteq Closure(DependsOn(u), f)
      BY <1>1, <2>1 DEF Closed
    <2>3. Closure(DependsOn(v), f) \subseteq Closure(DependsOn(u), f)
      BY <2>1, <2>2, ClosureLeast
    <2> QED BY <1>5, <1>6, <2>3 DEF Cyclic
  <1> QED BY <1>6, <1>7, Converse

-----------------------------------------------------------------------------
(* The invariant. *)

LEMMA Starts == DeadInit => IInv
  <1> SUFFICES ASSUME DeadInit PROVE IInv
    OBVIOUS
  <1> USE DEF DeadInit
  <1>1. TypeOK
    BY DeadAssumption DEF ObjectGraphAssumption, TypeOK
  <1>2. Protected
    <2>1. query.retain \subseteq Ids
      BY <1>1, GraphFacts
    <2>2. query.retain \subseteq Closure(query.retain, Dependencies)
      BY <1>1, <2>1, MapsOfIds, ClosureFacts
    <2> QED BY <2>2 DEF Protected
  <1>3. Candidates /\ Unspread
    BY DEF Candidates, Unspread
  <1>4. Counted /\ Grounded /\ Reasoned /\ Rescued /\ CandidatesExact
    BY DEF Counted, Grounded, Reasoned, Rescued, CandidatesExact
  <1> QED BY <1>1, <1>2, <1>3, <1>4 DEF IInv

LEMMA RetainKeeps ==
    ASSUME IInv, Retain
    PROVE  IInv'
  <1> DEFINE roots == Closure(query.retain, Dependencies)
  <1>1. /\ TypeOK /\ Protected /\ Unspread
        /\ pass = "retain" /\ pass' = "retain"
        /\ waiting \subseteq protected /\ DOMAIN dead = {}
    BY DEF IInv, Unspread, Retain
  <1>2. PICK v \in waiting :
          /\ protected' = protected
               \cup ((DependsOn(v) \cap Vertices) \ protected)
          /\ waiting' = (waiting \ {v})
               \cup ((DependsOn(v) \cap Vertices) \ protected)
    BY DEF Retain
  <1>3. UNCHANGED <<graph, query, pass, remaining, dead>>
    BY DEF Retain
  <1>4. TypeOK'
    BY <1>1, <1>2, <1>3 DEF TypeOK
  <1>5. Protected'
    <2>1. /\ query.retain \subseteq Ids /\ waiting \subseteq Ids
          /\ Dependencies \in [Ids -> SUBSET Ids]
      BY <1>1, GraphFacts, MapsOfIds DEF TypeOK
    <2>2. Closed(roots, Dependencies)
      BY <2>1, ClosureFacts
    <2>3. v \in roots /\ v \in Ids
      BY <1>1, <1>2, <2>1 DEF Protected
    <2>4. DependsOn(v) \subseteq roots
      BY <2>2, <2>3 DEF Closed, Dependencies
    <2>5. protected' \subseteq roots /\ query.retain \subseteq protected'
      BY <1>1, <1>2, <2>4 DEF Protected
    <2>6. roots' = roots
      BY <1>3, Frame DEF Closure, Closed
    <2> QED BY <1>3, <2>5, <2>6 DEF Protected
  <1>6. Candidates' /\ Unspread'
    BY <1>1, <1>2, <1>3 DEF Candidates, Unspread
  <1>7. Counted' /\ Grounded' /\ Reasoned' /\ Rescued' /\ CandidatesExact'
    BY <1>1 DEF Counted, Grounded, Reasoned, Rescued, CandidatesExact
  <1> QED BY <1>4, <1>5, <1>6, <1>7 DEF IInv

\* What the other steps do not touch.
LEMMA StaysProtected ==
    ASSUME Protected, UNCHANGED <<graph, query, protected>>
    PROVE  Protected' /\ Eligible' = Eligible
  <1>1. Closure(query.retain, Dependencies)' = Closure(query.retain, Dependencies)
    BY Frame DEF Closure, Closed
  <1>2. query.retain' = query.retain
    BY Frame
  <1> QED BY <1>1, <1>2 DEF Protected, Eligible

LEMMA FiniteDependents ==
    ASSUME TypeOK, NEW u \in Ids
    PROVE  /\ Dependents(u) \subseteq Ids
           /\ \A S \in SUBSET Dependents(u) :
                 IsFiniteSet(S) /\ Cardinality(S) \in Nat
  <1>1. Dependents(u) \subseteq Ids /\ IsFiniteSet(Ids)
    BY GraphFacts
  <1>2. ASSUME NEW S \in SUBSET Dependents(u)
        PROVE  IsFiniteSet(S) /\ Cardinality(S) \in Nat
    <2>1. IsFiniteSet(S)
      BY <1>1, FS_Subset
    <2> QED BY <2>1, FS_CardinalityType
  <1> QED BY <1>1, <1>2

LEMMA SeedKeeps ==
    ASSUME IInv, Seed
    PROVE  IInv'
  <1>1. /\ TypeOK /\ Protected /\ pass' = "spread"
        /\ UNCHANGED <<graph, query, protected>>
        /\ Eligible \subseteq Vertices /\ Vertices \subseteq Ids
    BY GraphFacts DEF IInv, Seed, Eligible
  <1>2. /\ remaining' = [v \in Eligible \ Alone |-> Cardinality(Dependents(v))]
        /\ waiting' = Alone
        /\ dead' = [v \in Alone |-> "no-dependents"]
    BY DEF Seed
  <1>3. Protected' /\ Eligible' = Eligible
    BY <1>1, StaysProtected
  <1>4. /\ DOMAIN dead' = Alone /\ DOMAIN remaining' = Eligible \ Alone
        /\ Alone \subseteq Eligible
    BY <1>2 DEF Alone
  <1>5. TypeOK'
    <2>1. \A v \in Eligible \ Alone : Cardinality(Dependents(v)) \in Nat
      BY <1>1, FiniteDependents
    <2>2. waiting' \subseteq Vertices
      BY <1>1, <1>2, <1>4
    <2> QED BY <1>1, <1>2, <2>1, <2>2 DEF TypeOK, Reasons
  <1>6. Candidates' /\ Unspread' /\ Rescued' /\ CandidatesExact'
    BY <1>1, <1>3, <1>4
    DEF Candidates, Unspread, Rescued, CandidatesExact
  <1>7. \A u : Dependents(u)' = Dependents(u) /\ Cyclic' = Cyclic
    BY <1>1, Frame
  <1>8. Counted'
    <2>1. \A u : Awaited(u)' = Dependents(u)
      BY <1>2, <1>4, <1>7 DEF Awaited
    <2>2. \A u \in Eligible \ Alone : Dependents(u) # {}
      BY DEF Alone
    <2> QED BY <1>1, <1>2, <1>3, <1>4, <2>1, <2>2 DEF Counted
  <1>9. Grounded' /\ Reasoned'
    <2>1. \A u \in Alone : Dependents(u) = {}
      BY DEF Alone
    <2>2. \A u \in Alone : u \notin Cyclic
      BY <1>1, <2>1, CyclicDependent
    <2> QED BY <1>2, <1>4, <1>7, <2>1, <2>2 DEF Grounded, Reasoned
  <1> QED BY <1>3, <1>5, <1>6, <1>8, <1>9 DEF IInv

\* What is found empty had nobody left but the candidate that is spread.
LEMMA SpreadKeeps ==
    ASSUME IInv, Spread
    PROVE  IInv'
  <1> DEFINE D == DOMAIN dead
             R == DOMAIN remaining
  <1>1. /\ TypeOK /\ Protected /\ pass = "spread" /\ pass' = "spread"
        /\ UNCHANGED <<graph, query, protected>>
        /\ D \subseteq Eligible /\ Eligible \subseteq Vertices
        /\ Vertices \subseteq Ids /\ waiting \subseteq D /\ R = Eligible \ D
    BY GraphFacts DEF IInv, Spread, Eligible, Candidates, Counted
  <1>2. \A u \in R : remaining[u] = Cardinality(Awaited(u)) /\ Awaited(u) # {}
    BY <1>1 DEF IInv, Counted
  <1>3. PICK v \in waiting :
          LET counted == DependsOn(v) \cap DOMAIN remaining
              empty == {u \in counted : remaining[u] <= Released(v, u)}
          IN  /\ remaining' = [u \in DOMAIN remaining \ empty |->
                                 IF u \in counted
                                 THEN remaining[u] - Released(v, u)
                                 ELSE remaining[u]]
              /\ dead' = Confirm(empty, "all-dependents-dead")
              /\ waiting' = (waiting \ {v}) \cup empty
    BY DEF Spread
  <1> DEFINE counted == DependsOn(v) \cap R
             empty == {u \in counted : remaining[u] <= 1}
  <1>4. /\ remaining' = [u \in R \ empty |-> IF u \in counted
                                             THEN remaining[u] - 1
                                             ELSE remaining[u]]
        /\ dead' = [u \in D \cup empty |-> IF u \in empty
                                           THEN "all-dependents-dead"
                                           ELSE dead[u]]
        /\ waiting' = (waiting \ {v}) \cup empty
    BY <1>3 DEF Released, Confirm
  <1>5. /\ DOMAIN remaining' = R \ empty /\ DOMAIN dead' = D \cup empty
        /\ v \in D /\ empty \subseteq counted /\ counted \subseteq R
        /\ empty \cap D = {} /\ R \subseteq Ids /\ R \subseteq Vertices
    BY <1>1, <1>4
  <1>6. Protected' /\ Eligible' = Eligible
    BY <1>1, StaysProtected
  <1>7. /\ \A u : Dependents(u)' = Dependents(u) /\ Cyclic' = Cyclic
    BY <1>1, Frame
  <1>8. \A u : Awaited(u)' = Awaited(u) \ {v}
    <2>1. DOMAIN dead' \ waiting' = (D \ waiting) \cup {v}
      BY <1>1, <1>4, <1>5
    <2> QED BY <1>7, <2>1 DEF Awaited
  <1>9. ASSUME NEW u \in R
        PROVE  /\ v \in Awaited(u) <=> u \in counted
               /\ remaining[u] \in Nat
               /\ remaining[u] = Cardinality(Awaited(u))
               /\ IsFiniteSet(Awaited(u))
               /\ Cardinality(Awaited(u) \ {v}) \in Nat
               /\ u \in counted =>
                    Cardinality(Awaited(u) \ {v}) = remaining[u] - 1
               /\ u \notin counted => Awaited(u) \ {v} = Awaited(u)
               /\ Cardinality(Awaited(u) \ {v}) = 0 <=> Awaited(u) \ {v} = {}
    <2>1. v \in Awaited(u) <=> u \in counted
      BY <1>1, <1>5, Converse DEF Awaited
    <2>2. /\ IsFiniteSet(Awaited(u)) /\ IsFiniteSet(Awaited(u) \ {v})
          /\ Cardinality(Awaited(u)) \in Nat
          /\ Cardinality(Awaited(u) \ {v}) \in Nat
      <3>1. /\ Awaited(u) \in SUBSET Dependents(u)
            /\ Awaited(u) \ {v} \in SUBSET Dependents(u)
        BY DEF Awaited
      <3> QED BY <1>1, <1>5, <3>1, FiniteDependents
    <2>3. Cardinality(Awaited(u) \ {v}) = IF v \in Awaited(u)
                                          THEN Cardinality(Awaited(u)) - 1
                                          ELSE Cardinality(Awaited(u))
      BY <2>2, FS_RemoveElement
    <2>4. Cardinality(Awaited(u) \ {v}) = 0 <=> Awaited(u) \ {v} = {}
      BY <2>2, FS_EmptySet
    <2>5. remaining[u] = Cardinality(Awaited(u))
      BY <1>2
    <2> HIDE DEF counted
    <2> QED BY <2>1, <2>2, <2>3, <2>4, <2>5
  <1>10. TypeOK'
    <2>1. \A u \in R \ empty : u \in counted => remaining[u] - 1 \in Nat
      BY <1>9
    <2>2. \A u \in R : remaining[u] \in Nat
      BY <1>9
    <2>3. remaining' \in [DOMAIN remaining' -> Nat]
      <3> HIDE DEF counted, empty, R
      <3> QED BY <1>4, <1>5, <2>1, <2>2
    <2>4. dead' \in [DOMAIN dead' -> Reasons]
      <3>1. \A u \in D : dead[u] \in Reasons
        BY <1>1 DEF TypeOK
      <3> HIDE DEF empty
      <3> QED BY <1>4, <1>5, <3>1 DEF Reasons
    <2>5. waiting' \subseteq Vertices
      BY <1>1, <1>4, <1>5
    <2> QED BY <1>1, <2>3, <2>4, <2>5 DEF TypeOK
  <1>11. Counted'
    <2>1. ASSUME NEW u \in R \ empty
          PROVE  /\ remaining'[u] = Cardinality(Awaited(u) \ {v})
                 /\ Awaited(u) \ {v} # {}
      <3>1. CASE u \in counted
        <4>1. remaining'[u] = remaining[u] - 1
          BY <1>4, <3>1
        <4>2. ~ (remaining[u] <= 1)
          BY <3>1
        <4> HIDE DEF counted, empty, R
        <4> QED BY <1>9, <3>1, <4>1, <4>2
      <3>2. CASE u \notin counted
        <4>1. remaining'[u] = remaining[u]
          BY <1>4, <3>2
        <4> HIDE DEF counted, empty
        <4> QED BY <1>2, <1>9, <3>2, <4>1
      <3> QED BY <3>1, <3>2
    <2>2. \A u \in DOMAIN remaining' :
             remaining'[u] = Cardinality(Awaited(u)') /\ Awaited(u)' # {}
      BY <1>5, <1>8, <2>1
    <2>3. DOMAIN remaining' = Eligible' \ DOMAIN dead'
      BY <1>1, <1>5, <1>6
    <2>4. waiting' \subseteq DOMAIN dead'
      BY <1>1, <1>4, <1>5
    <2> QED BY <2>2, <2>3, <2>4 DEF Counted
  <1>12. ASSUME NEW u \in empty
         PROVE  Dependents(u) \subseteq D /\ v \in Dependents(u)
    <2>1. u \in R /\ u \in counted /\ remaining[u] <= 1
      OBVIOUS
    <2>2. Awaited(u) \ {v} = {} /\ v \in Awaited(u)
      <3> HIDE DEF counted, empty, R
      <3>1. /\ v \in Awaited(u) /\ remaining[u] \in Nat
            /\ Cardinality(Awaited(u) \ {v}) \in Nat
            /\ Cardinality(Awaited(u) \ {v}) = remaining[u] - 1
        BY <1>9, <2>1
      <3>2. Cardinality(Awaited(u) \ {v}) = 0
        BY <2>1, <3>1
      <3> QED BY <1>9, <2>1, <3>1, <3>2
    <2> QED BY <1>5, <2>2 DEF Awaited
  <1>13. Grounded' /\ Reasoned'
    <2>1. \A u \in D : Dependents(u) \subseteq D /\ u \notin Cyclic
      BY <1>1 DEF IInv, Grounded
    <2>2. \A u \in empty : u \notin Cyclic
      BY <1>1, <1>12, <2>1, CyclicDependent
    <2>3. Grounded'
      BY <1>5, <1>7, <1>12, <2>1, <2>2 DEF Grounded
    <2>4. \A u \in D : dead[u] = "no-dependents" <=> Dependents(u) = {}
      BY <1>1 DEF IInv, Reasoned
    <2>5. \A u \in empty : dead'[u] # "no-dependents" /\ Dependents(u) # {}
      BY <1>4, <1>12
    <2>6. \A u \in D : dead'[u] = dead[u]
      BY <1>4, <1>5
    <2> HIDE DEF empty
    <2> QED BY <1>5, <1>7, <2>3, <2>4, <2>5, <2>6 DEF Reasoned
  <1>14. Candidates'
    BY <1>1, <1>5, <1>6 DEF Candidates
  <1>15. Unspread' /\ Rescued' /\ CandidatesExact'
    BY <1>1 DEF Unspread, Rescued, CandidatesExact
  <1> QED BY <1>6, <1>10, <1>11, <1>13, <1>14, <1>15 DEF IInv

\* When nothing is left to spread, whoever is no candidate has a reason to
\* live: otherwise those without one would all have a dependent among
\* themselves, and one of them would be on a cycle.
LEMMA SpreadIsFull ==
    ASSUME IInv, pass = "spread", waiting = {}
    PROVE  /\ Alive \subseteq Survivors
           /\ Survivors \subseteq Closure(Alive, Dependencies)
           /\ \A u \in Survivors : DependsOn(u) \subseteq Survivors
  <1> DEFINE M == Closure(Alive, Dependencies)
             B == Survivors \ M
             roots == Closure(query.retain, Dependencies)
  <1>1. /\ TypeOK /\ Protected /\ Candidates /\ Counted /\ Grounded
        /\ Vertices \subseteq Ids /\ IsFiniteSet(Ids)
        /\ query.retain \subseteq Ids
        /\ query.consumers \subseteq Vertices
        /\ Dependencies \in [Ids -> SUBSET Ids] /\ Alive \subseteq Ids
    BY GraphFacts, MapsOfIds DEF IInv
  <1>2. ASSUME NEW u \in Survivors PROVE DependsOn(u) \subseteq Survivors
    <2>1. u \in Ids /\ u \notin DOMAIN dead /\ DependsOn(u) \subseteq Ids
      BY <1>1, GraphFacts DEF Survivors
    <2>2. \A w \in DependsOn(u) : u \in Dependents(w)
      BY Converse
    <2>3. \A w \in DOMAIN dead : u \notin Dependents(w)
      BY <1>1, <2>1 DEF Grounded
    <2> QED BY <2>1, <2>2, <2>3 DEF Survivors
  <1>3. Alive \subseteq Survivors
    <2>1. Ids \ query.consumers \subseteq Survivors
      BY <1>1 DEF Candidates, Eligible, Survivors
    <2>2. roots \subseteq Survivors
      <3>1. query.retain \subseteq Survivors
        BY <1>1 DEF Candidates, Eligible, Protected, Survivors
      <3>2. Survivors \subseteq Ids
        BY DEF Survivors
      <3>3. Closed(Survivors, Dependencies)
        BY <1>2, <3>2 DEF Closed, Dependencies
      <3> QED BY <3>1, <3>2, <3>3, ClosureLeast
    <2>3. Cyclic \subseteq Survivors
      BY <1>1 DEF Grounded, Survivors, Cyclic
    <2> QED BY <2>1, <2>2, <2>3 DEF Alive
  <1>4. Alive \subseteq M /\ Closed(M, Dependencies) /\ M \subseteq Ids
    BY <1>1, ClosureFacts
  <1>5. ASSUME NEW u \in B PROVE \E w \in B : u \in Dependencies[w]
    <2>1. u \in Ids /\ u \notin DOMAIN dead /\ u \notin Alive
      BY <1>4 DEF Survivors
    <2>2. u \in Eligible
      BY <1>1, <2>1 DEF Alive, Eligible, Protected
    <2>3. PICK w \in Dependents(u) : w \notin DOMAIN dead
      <3>1. u \in DOMAIN remaining
        BY <1>1, <2>1, <2>2 DEF Counted
      <3>2. Awaited(u) # {}
        BY <1>1, <3>1 DEF Counted
      <3> QED BY <3>2 DEF Awaited
    <2>4. w \in Ids /\ u \in Dependencies[w]
      <3>1. w \in Ids
        BY <1>1, <2>1, <2>3, GraphFacts
      <3>2. u \in DependsOn(w)
        BY <2>3, Converse
      <3> QED BY <3>1, <3>2 DEF Dependencies
    <2>5. w \notin M
      BY <1>4, <2>4 DEF Closed
    <2> QED BY <2>3, <2>4, <2>5 DEF Survivors
  <1>6. B = {}
    <2>1. B \subseteq Ids
      BY DEF Survivors
    <2>2. IsFiniteSet(B)
      BY <1>1, <2>1, FS_Subset
    <2>3. \A v \in B : v \notin Cyclic
      BY <1>4 DEF Alive
    <2>4. \A v \in Ids : Dependencies[v] = DependsOn(v)
      BY DEF Dependencies
    <2>5. SUFFICES ASSUME B # {} PROVE FALSE
      OBVIOUS
    <2>6. PICK v \in B : v \in Closure(Dependencies[v], Dependencies)
      <3> HIDE DEF B
      <3> QED BY <1>1, <1>5, <2>1, <2>2, <2>5, CycleIn
    <2>7. v \in Cyclic
      BY <2>1, <2>4, <2>6 DEF Cyclic
    <2> QED BY <2>3, <2>7
  <1> QED BY <1>2, <1>3, <1>6

LEMMA BeginRescueKeeps ==
    ASSUME IInv, BeginRescue
    PROVE  IInv'
  <1>1. /\ TypeOK /\ Protected /\ Candidates /\ pass = "spread"
        /\ waiting = {} /\ pass' = "rescue" /\ waiting' = LiveCallers
        /\ UNCHANGED <<graph, query, protected, remaining, dead>>
        /\ Callers \subseteq Vertices /\ Vertices \subseteq Ids
    BY GraphFacts DEF IInv, BeginRescue
  <1>2. /\ LiveCallers \subseteq Vertices /\ LiveCallers \subseteq Survivors
        /\ Survivors' = Survivors
    BY <1>1 DEF LiveCallers, Survivors
  <1>3. TypeOK'
    BY <1>1, <1>2 DEF TypeOK
  <1>4. Protected' /\ Eligible' = Eligible
    BY <1>1, StaysProtected
  <1>5. /\ \A u : Dependents(u)' = Dependents(u)
        /\ \A u : Uses(u)' = Uses(u)
        /\ Alive' = Alive /\ Using' = Using
    BY <1>1, Frame
  <1>6. Candidates' /\ Reasoned'
    <2>1. Reasoned
      BY DEF IInv
    <2> QED BY <1>1, <1>4, <1>5, <2>1 DEF Candidates, Reasoned
  <1>7. /\ Alive \subseteq Survivors
        /\ Survivors \subseteq Closure(Alive, Dependencies)
        /\ \A u \in Survivors : DependsOn(u) \subseteq Survivors
    BY <1>1, SpreadIsFull
  <1>8. Survivors \subseteq Closure(Alive, Using)
    <2>1. /\ Alive \subseteq Ids /\ Using \in [Ids -> SUBSET Ids]
      BY <1>1, MapsOfIds
    <2>2. /\ Alive \subseteq Closure(Alive, Using)
          /\ Closure(Alive, Using) \subseteq Ids
          /\ Closed(Closure(Alive, Using), Using)
      BY <2>1, ClosureFacts
    <2>3. Closed(Closure(Alive, Using), Dependencies)
      BY <2>2 DEF Closed, Dependencies, Using, Uses
    <2>4. Closure(Alive, Dependencies) \subseteq Closure(Alive, Using)
      BY <2>2, <2>3, ClosureLeast
    <2> QED BY <1>7, <2>4
  <1>9. ASSUME NEW u \in Survivors, u \notin LiveCallers
        PROVE  Uses(u) \subseteq Survivors
    <2>1. u \in Ids /\ u \notin Callers
      BY <1>9 DEF LiveCallers, Survivors
    <2>2. MayCall(u) = {}
      BY <1>1, <2>1, GraphFacts
    <2> QED BY <1>7, <2>2 DEF Uses
  <1>10. Rescued'
    <2>1. Closure(Alive, Using)' = Closure(Alive, Using)
      BY <1>5 DEF Closure, Closed
    <2> QED BY <1>1, <1>2, <1>5, <1>7, <1>8, <1>9, <2>1 DEF Rescued
  <1>11. Unspread' /\ Counted' /\ Grounded' /\ CandidatesExact'
    BY <1>1 DEF Unspread, Counted, Grounded, CandidatesExact
  <1> QED BY <1>3, <1>4, <1>6, <1>10, <1>11 DEF IInv

LEMMA RescueKeeps ==
    ASSUME IInv, Rescue
    PROVE  IInv'
  <1>1. /\ TypeOK /\ Protected /\ Candidates /\ Reasoned
        /\ pass = "rescue" /\ pass' = "rescue"
        /\ UNCHANGED <<graph, query, protected, remaining>>
        /\ Eligible \subseteq Vertices /\ Vertices \subseteq Ids
    BY GraphFacts DEF IInv, Rescue, Eligible
  <1>2. PICK v \in waiting :
          /\ dead' = [u \in DOMAIN dead \ (Uses(v) \cap DOMAIN dead) |-> dead[u]]
          /\ waiting' = (waiting \ {v}) \cup (Uses(v) \cap DOMAIN dead)
    BY DEF Rescue
  <1> DEFINE saved == Uses(v) \cap DOMAIN dead
  <1>3. /\ DOMAIN dead' = DOMAIN dead \ saved
        /\ \A u \in DOMAIN dead' : dead'[u] = dead[u]
        /\ DOMAIN dead \subseteq Vertices
        /\ waiting' = (waiting \ {v}) \cup saved
        /\ saved \subseteq DOMAIN dead
    BY <1>1, <1>2 DEF Candidates
  <1> HIDE DEF saved
  <1>4. TypeOK'
    <2>1. waiting' \subseteq Vertices
      BY <1>1, <1>3 DEF TypeOK
    <2>2. dead' = [u \in DOMAIN dead' |-> dead'[u]]
      BY <1>2
    <2>3. \A u \in DOMAIN dead' : dead'[u] \in Reasons
      BY <1>1, <1>3 DEF TypeOK
    <2>4. dead' \in [DOMAIN dead' -> Reasons]
      BY <2>2, <2>3
    <2> QED BY <1>1, <2>1, <2>4 DEF TypeOK
  <1>5. Protected' /\ Eligible' = Eligible
    BY <1>1, StaysProtected
  <1>6. /\ \A u : Dependents(u)' = Dependents(u)
        /\ \A u : Uses(u)' = Uses(u)
        /\ Alive' = Alive /\ Using' = Using
    BY <1>1, Frame
  <1>7. Candidates' /\ Reasoned'
    BY <1>1, <1>3, <1>5, <1>6 DEF Candidates, Reasoned
  <1>8. /\ waiting \subseteq Survivors /\ Alive \subseteq Survivors
        /\ Survivors \subseteq Closure(Alive, Using)
        /\ \A u \in Survivors \ waiting : Uses(u) \subseteq Survivors
    BY <1>1 DEF IInv, Rescued
  <1>9. Survivors' = Survivors \cup saved
    BY <1>1, <1>3 DEF Survivors
  <1>10. saved \subseteq Closure(Alive, Using)
    <2>1. /\ v \in Ids /\ v \in Closure(Alive, Using)
      BY <1>8 DEF Survivors
    <2>2. Closed(Closure(Alive, Using), Using)
      BY <1>1, MapsOfIds, ClosureFacts
    <2> QED BY <2>1, <2>2 DEF Closed, Using, saved
  <1>11. Uses(v) \subseteq Survivors'
    <2>1. Uses(v) \subseteq Ids
      <3>1. v \in Ids
        BY <1>8 DEF Survivors
      <3> QED BY <1>1, <3>1, GraphFacts DEF Uses
    <2> QED BY <1>9, <2>1 DEF Survivors, saved
  <1>12. Rescued'
    <2>1. Closure(Alive, Using)' = Closure(Alive, Using)
      BY <1>6 DEF Closure, Closed
    <2>2. ASSUME NEW u \in Survivors' \ waiting'
          PROVE  Uses(u)' \subseteq Survivors'
      <3>1. u = v \/ u \in Survivors \ waiting
        BY <1>3, <1>9, <2>2
      <3> QED BY <1>6, <1>8, <1>9, <1>11, <3>1
    <2>3. waiting' \subseteq Survivors'
      BY <1>3, <1>8, <1>9
    <2> QED BY <1>6, <1>8, <1>9, <1>10, <2>1, <2>2, <2>3 DEF Rescued
  <1>13. Unspread' /\ Counted' /\ Grounded' /\ CandidatesExact'
    BY <1>1 DEF Unspread, Counted, Grounded, CandidatesExact
  <1> QED BY <1>4, <1>5, <1>7, <1>12, <1>13 DEF IInv

LEMMA EndRescueKeeps ==
    ASSUME IInv, EndRescue
    PROVE  IInv'
  <1>1. /\ TypeOK /\ Protected /\ Candidates /\ Reasoned /\ Rescued
        /\ pass = "rescue" /\ pass' = "done" /\ waiting = {}
        /\ UNCHANGED <<graph, query, waiting, protected, remaining>>
        /\ Eligible \subseteq Vertices /\ Vertices \subseteq Ids
    BY GraphFacts DEF IInv, EndRescue, Eligible
  <1>2. dead' = [v \in DOMAIN dead |->
                   IF \E p \in Possible : p[2] = v THEN "all-dependents-dead"
                   ELSE dead[v]]
    BY DEF EndRescue
  <1>3. DOMAIN dead' = DOMAIN dead
    BY <1>2
  <1>4. TypeOK'
    <2>1. \A u \in DOMAIN dead : dead[u] \in Reasons
      BY <1>1 DEF TypeOK
    <2>2. dead' \in [DOMAIN dead' -> Reasons]
      BY <1>2, <1>3, <2>1 DEF Reasons
    <2> QED BY <1>1, <2>2 DEF TypeOK
  <1>5. Protected' /\ Eligible' = Eligible
    BY <1>1, StaysProtected
  <1>6. /\ \A u : Dependents(u)' = Dependents(u)
        /\ \A u : Uses(u)' = Uses(u)
        /\ Alive' = Alive /\ Using' = Using
    BY <1>1, Frame
  <1>7. Candidates'
    BY <1>1, <1>3, <1>5 DEF Candidates
  <1>8. Survivors = Closure(Alive, Using)
    <2>1. /\ Alive \subseteq Survivors /\ Survivors \subseteq Ids
          /\ Survivors \subseteq Closure(Alive, Using)
          /\ \A u \in Survivors : Uses(u) \subseteq Survivors
      BY <1>1 DEF Rescued, Survivors
    <2>2. Closed(Survivors, Using)
      BY <2>1 DEF Closed, Using
    <2>3. Closure(Alive, Using) \subseteq Survivors
      BY <2>1, <2>2, ClosureLeast
    <2> QED BY <2>1, <2>3
  <1>9. DOMAIN dead = Vertices \ Closure(Alive, Using)
    BY <1>1, <1>8 DEF Candidates, Survivors
  <1>10. ASSUME NEW v \in DOMAIN dead
         PROVE  dead'[v] = "no-dependents" <=> ~ \E u \in Ids : v \in Uses(u)
    <2>1. v \in Ids /\ Dependents(v) \subseteq Ids
      BY <1>1, GraphFacts DEF Candidates
    <2>2. Dependents(v) # {} <=> \E u \in Ids : v \in DependsOn(u)
      BY <2>1, Converse
    <2>3. (\E p \in Possible : p[2] = v) <=> \E u \in Ids : v \in MayCall(u)
      <3>1. ASSUME NEW p \in Possible, p[2] = v
            PROVE  \E u \in Ids : v \in MayCall(u)
        <4>1. p[1] \in Ids /\ v \in MayCall(p[1])
          BY <1>1, <3>1, GraphFacts
        <4> QED BY <4>1
      <3>2. ASSUME NEW u \in Ids, v \in MayCall(u)
            PROVE  \E p \in Possible : p[2] = v
        BY <3>2 DEF MayCall
      <3> QED BY <3>1, <3>2
    <2>4. dead[v] = "no-dependents" <=> Dependents(v) = {}
      BY <1>1 DEF Reasoned
    <2>5. dead'[v] = "no-dependents" <=>
            (~ \E p \in Possible : p[2] = v) /\ Dependents(v) = {}
      BY <1>2, <2>4
    <2> QED BY <2>2, <2>3, <2>5 DEF Uses
  <1>11. CandidatesExact'
    <2>1. Closure(Alive, Using)' = Closure(Alive, Using)
      BY <1>6 DEF Closure, Closed
    <2> QED BY <1>3, <1>6, <1>9, <1>10, <2>1 DEF CandidatesExact
  <1>12. Unspread' /\ Counted' /\ Grounded' /\ Reasoned' /\ Rescued'
    BY <1>1 DEF Unspread, Counted, Grounded, Reasoned, Rescued
  <1> QED BY <1>4, <1>5, <1>7, <1>11, <1>12 DEF IInv

LEMMA StutterKeeps ==
    ASSUME IInv, UNCHANGED <<graph, query, deadVars>>
    PROVE  IInv'
  <1>1. /\ UNCHANGED <<graph, query, pass, waiting, protected, remaining, dead>>
        /\ TypeOK /\ Protected /\ Candidates /\ Unspread /\ Counted
        /\ Grounded /\ Reasoned /\ Rescued /\ CandidatesExact
    BY DEF deadVars, IInv
  <1>2. /\ \A u : Dependents(u)' = Dependents(u)
        /\ \A u : Uses(u)' = Uses(u)
        /\ Alive' = Alive /\ Using' = Using /\ Cyclic' = Cyclic
    BY <1>1, Frame
  <1>3. Protected' /\ Eligible' = Eligible
    BY <1>1, StaysProtected
  <1>4. \A u : Awaited(u)' = Awaited(u)
    BY <1>1, <1>2 DEF Awaited
  <1>5. Survivors' = Survivors
    BY <1>1 DEF Survivors
  <1>6. Closure(Alive, Using)' = Closure(Alive, Using)
    BY <1>2 DEF Closure, Closed
  <1>7. TypeOK' /\ Candidates' /\ Unspread'
    BY <1>1, <1>3 DEF TypeOK, Candidates, Unspread
  <1>8. Counted'
    BY <1>1, <1>3, <1>4 DEF Counted
  <1>9. Grounded' /\ Reasoned'
    BY <1>1, <1>2 DEF Grounded, Reasoned
  <1>10. Rescued'
    BY <1>1, <1>2, <1>5, <1>6 DEF Rescued
  <1>11. CandidatesExact'
    BY <1>1, <1>2, <1>6 DEF CandidatesExact
  <1> QED BY <1>3, <1>7, <1>8, <1>9, <1>10, <1>11 DEF IInv

\* The invariant holds in every state of dead_with_policy.
THEOREM Inductive == DeadSpec => []IInv
  <1>1. DeadInit => IInv
    BY Starts
  <1>2. IInv /\ [DeadNext]_<<graph, query, deadVars>> => IInv'
    BY RetainKeeps, SeedKeeps, SpreadKeeps, BeginRescueKeeps, RescueKeeps,
       EndRescueKeeps, StutterKeeps DEF DeadNext
  <1> QED BY <1>1, <1>2, PTL DEF DeadSpec

\* Candidates have one of the two reasons, and everything is of its type.
THEOREM TypeCorrect == DeadSpec => []TypeOK
  <1>1. IInv => TypeOK
    BY DEF IInv
  <1> QED BY <1>1, Inductive, PTL

\* For every graph, policy and set of possible calls, in whatever order the
\* queues are emptied: the candidates reported are exactly the objects that
\* nothing alive uses or may use, with the right reason (analysis/src/lib.rs:
\* 266-504).
THEOREM DeadAreDead == DeadSpec => []CandidatesExact
  <1>1. IInv => CandidatesExact
    BY DEF IInv
  <1> QED BY <1>1, Inductive, PTL
=============================================================================
