---------------------------- MODULE DeadObjects ----------------------------
(***************************************************************************)
(* Objects that nothing in the database uses: `dead_with_policy` of        *)
(* src/engine/analysis/src/lib.rs.                                         *)
(*                                                                         *)
(* Of the objects that exist to be used (views and routines), one that has *)
(* no dependents is a candidate, and then one whose dependents are all     *)
(* candidates; this is spread with a counter for each object.  A call that *)
(* could not be told between overloads is no edge: its possible callees    *)
(* are taken back afterwards if a caller is alive.                         *)
(*                                                                         *)
(* The three queues of the code are one variable, a set: an object that    *)
(* waits may be taken in any order, of which the code's is one.            *)
(***************************************************************************)
EXTENDS ObjectGraph

CONSTANT DeadQueries

ASSUME DeadAssumption ==
    /\ ObjectGraphAssumption
    /\ DeadQueries \subseteq
          [consumers : SUBSET Vertices,    \* is_consumer_kind
           retain    : SUBSET Vertices,    \* what the policy's patterns match
           possible  : SUBSET (Vertices \X Vertices)]

VARIABLES
    graph, query,
    pass,         \* which of the loops runs
    waiting,      \* what is in the loop's queue
    protected,    \* what the retention policy keeps
    remaining,    \* how many dependents of an object are not candidates
    dead          \* the candidates and the reason for each

deadVars == <<pass, waiting, protected, remaining, dead>>

\* dependency_ends: several edges between two objects count once.
Dependents(v) == Successors(graph, v, TRUE)

DependsOn(v) == Successors(graph, v, FALSE)

\* PossibleCalls; a call that may be to its own caller says nothing.
Possible == {p \in query.possible : p[1] # p[2]}

MayCall(v) == {p[2] : p \in {q \in Possible : q[1] = v}}

Callers == {p[1] : p \in Possible}

DeadInit ==
    /\ graph \in Graphs /\ query \in DeadQueries
    /\ pass = "retain"
    /\ protected = query.retain /\ waiting = query.retain
    /\ remaining = << >> /\ dead = << >>

\* retained: the roots of the policy and what they depend on.
Retain ==
    /\ pass = "retain"
    /\ \E v \in waiting :
          LET kept == (DependsOn(v) \cap Vertices) \ protected
          IN  /\ protected' = protected \cup kept
              /\ waiting' = (waiting \ {v}) \cup kept
    /\ UNCHANGED <<graph, query, pass, remaining, dead>>

Eligible == query.consumers \ protected

Alone == {v \in Eligible : Dependents(v) = {}}

\* seed.
Seed ==
    /\ pass = "retain" /\ waiting = {}
    /\ pass' = "spread"
    /\ remaining' = [v \in Eligible \ Alone |-> Cardinality(Dependents(v))]
    /\ waiting' = Alone
    /\ dead' = [v \in Alone |-> "no-dependents"]
    /\ UNCHANGED <<graph, query, protected>>

\* The candidates with those of vs, confirmed for a reason.
Confirm(vs, reason) ==
    [u \in DOMAIN dead \cup vs |-> IF u \in vs THEN reason ELSE dead[u]]

\* Not in the code: every edge releases its target once.
Released_PerEdge(v, target) ==
    Cardinality({e \in Adjacent(graph, v, FALSE) : e.to = target})

Released(v, target) == 1

\* run and release.
Spread ==
    /\ pass = "spread"
    /\ \E v \in waiting :
          LET counted == DependsOn(v) \cap DOMAIN remaining
              empty == {u \in counted : remaining[u] <= Released(v, u)}
          IN  /\ remaining' = [u \in DOMAIN remaining \ empty |->
                                 IF u \in counted
                                 THEN remaining[u] - Released(v, u)
                                 ELSE remaining[u]]
              /\ dead' = Confirm(empty, "all-dependents-dead")
              /\ waiting' = (waiting \ {v}) \cup empty
    /\ UNCHANGED <<graph, query, pass, protected>>

LiveCallers == Callers \ DOMAIN dead

BeginRescue ==
    /\ pass = "spread" /\ waiting = {}
    /\ pass' = "rescue"
    /\ waiting' = LiveCallers
    /\ UNCHANGED <<graph, query, protected, remaining, dead>>

\* rescue: what a living object uses, or may call, lives.
Uses(v) == DependsOn(v) \cup MayCall(v)

Rescue ==
    /\ pass = "rescue"
    /\ \E v \in waiting :
          LET saved == Uses(v) \cap DOMAIN dead
          IN  /\ dead' = [u \in DOMAIN dead \ saved |-> dead[u]]
              /\ waiting' = (waiting \ {v}) \cup saved
    /\ UNCHANGED <<graph, query, pass, protected, remaining>>

\* A candidate with a possible caller did have a dependent.
EndRescue ==
    /\ pass = "rescue" /\ waiting = {}
    /\ pass' = "done"
    /\ dead' = [v \in DOMAIN dead |->
                  IF \E p \in Possible : p[2] = v THEN "all-dependents-dead"
                  ELSE dead[v]]
    /\ UNCHANGED <<graph, query, waiting, protected, remaining>>

DeadNext == Retain \/ Seed \/ Spread \/ BeginRescue \/ Rescue \/ EndRescue

DeadSpec == DeadInit /\ [][DeadNext]_<<graph, query, deadVars>>

-----------------------------------------------------------------------------
(* The reference. *)

\* What is closed under `onward`, and the least such set with vs in it.
Closed(vs, onward) == \A u \in vs : onward[u] \subseteq vs

Closure(vs, onward) ==
    {v \in Ids :
       \A other \in SUBSET Ids :
          vs \subseteq other /\ Closed(other, onward) => v \in other}

Dependencies == [u \in Ids |-> DependsOn(u)]

Using == [u \in Ids |-> Uses(u)]

\* Cycles would have to start with one of their own members.
Cyclic == {v \in Ids : v \in Closure(DependsOn(v), Dependencies)}

\* What lives whoever uses it: everything that is not to be a candidate, the
\* roots of the policy with what they need, and cycles.
Alive ==
    (Ids \ query.consumers) \cup Closure(query.retain, Dependencies)
        \cup Cyclic

\* The candidates are exactly the objects that nothing alive uses, directly
\* or through others, for sure or in a call with several possible targets;
\* and the reason says whether there is a user at all (analysis/src/lib.rs:
\* 266-385: the counters against the fixpoint, the rescue after it).
CandidatesExact ==
    pass = "done" =>
       /\ DOMAIN dead = Vertices \ Closure(Alive, Using)
       /\ \A v \in DOMAIN dead :
             dead[v] = "no-dependents" <=>
                ~ \E u \in Ids : v \in Uses(u)
=============================================================================
