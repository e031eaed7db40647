---------------------------- MODULE BodyAnalysis ----------------------------
(***************************************************************************)
(* The analysis of SQL bodies from four sides, each in a module of its     *)
(* own: the dynamic SQL that a procedural body executes (ConstantText),    *)
(* the tables and columns that its statements move (BodyEffects), the      *)
(* results that the next scan takes over (BodyReuse), and the files that   *)
(* keep them, which scans share (CacheFiles).  A behaviour looks at one of *)
(* them and leaves the variables of the others alone.                      *)
(***************************************************************************)
EXTENDS CacheFiles, Sequences

CONSTANTS Sides,
          Bodies, Variables, Functions, MaxText, MaxVariables, MaxBytes,
          Catalog, Database, MaxScopes, Texts,
          Owners, Catalogs, MaxScans

VARIABLES
    side,
    body, phase, at, state, memory,
    parsed, analyzer, edges, does,
    catalog, scan, graph, cache

Dynamic == INSTANCE ConstantText

Effects == INSTANCE BodyEffects

Reuse == INSTANCE BodyReuse

ASSUME BodyAnalysisAssumption ==
    /\ Sides \subseteq {"dynamic", "effects", "reuse", "files"}
    /\ Dynamic!ConstantTextAssumption
    /\ Effects!BodyEffectsAssumption
    /\ Reuse!BodyReuseAssumption

dynamicVars == <<state, memory>>

effectVars == <<parsed, analyzer, edges, does>>

reuseVars == <<catalog, scan, graph, cache>>

bodyVars == <<body, phase, at, dynamicVars, effectVars, reuseVars>>

analysisVars == <<side, bodyVars, vars>>

\* The variables of a side that is not looked at stay empty; the files are
\* those of scans that have not begun.
NoDynamic == state = << >> /\ memory = << >>

NoEffects ==
    parsed = << >> /\ analyzer = << >> /\ edges = << >> /\ does = << >>

NoReuse ==
    catalog = << >> /\ scan = << >> /\ graph = << >> /\ cache = << >>

AnalysisInit ==
    /\ side \in Sides
    /\ Init
    /\ \/ /\ side = "dynamic" /\ Dynamic!Init
          /\ NoEffects /\ NoReuse
       \/ /\ side = "effects" /\ Effects!Init
          /\ NoDynamic /\ NoReuse
       \/ /\ side = "reuse" /\ Reuse!Init
          /\ NoDynamic /\ NoEffects
          /\ body = << >> /\ phase = "analyse"
       \/ /\ side = "files"
          /\ NoDynamic /\ NoEffects /\ NoReuse
          /\ body = << >> /\ phase = "analyse" /\ at = 0

AnalysisNext ==
    \/ /\ side = "dynamic" /\ Dynamic!Next
       /\ UNCHANGED <<side, effectVars, reuseVars, vars>>
    \/ /\ side = "effects" /\ Effects!Next
       /\ UNCHANGED <<side, dynamicVars, reuseVars, vars>>
    \/ /\ side = "reuse" /\ Reuse!Next
       /\ UNCHANGED <<side, body, phase, dynamicVars, effectVars, vars>>
    \/ /\ side = "files" /\ Next
       /\ UNCHANGED <<side, bodyVars>>

AnalysisSpec == AnalysisInit /\ [][AnalysisNext]_analysisVars

-----------------------------------------------------------------------------
(* The properties of three of the modules, where they are explained; those *)
(* of CacheFiles are stated there.                                         *)

\* A folded command is the one that is executed (parser/src/lib.rs:1640-2330).
FoldedIsExecuted == side = "dynamic" => Dynamic!FoldedIsExecuted

\* What the limit on tracked text cost is reported (lib.rs:1774-1850).
LimitIsReported == side = "dynamic" => Dynamic!LimitIsReported

\* Every recorded edge of a body is something it does (scope.rs:2022-3469).
EffectsAreReal == side = "effects" => Effects!EffectsAreReal

\* A complete body has all its edges (scope.rs:2022-3469).
CompleteIsWhole == side = "effects" => Effects!CompleteIsWhole

\* A warm scan gives what a cold one gives (parser/src/cache.rs:98-378).
WarmAgrees == side = "reuse" => Reuse!WarmAgrees

\* A warm scan has the edges of a cold one, which a test file promises
\* (cli/tests/body_cache.rs:1-3).
WarmFindsTheSameEdges == side = "reuse" => Reuse!WarmFindsTheSameEdges
=============================================================================
