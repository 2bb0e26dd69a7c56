----------------------------- MODULE MCPushPull -----------------------------
(***************************************************************************)
(* The two loops that are in step with the controller, the one that pulls  *)
(* the filters and the one that pushes the trees.  They meet in no         *)
(* variable of the models and are checked side by side: a behaviour is one *)
(* of FilterRender or one of TreePush, and the other is left as it was.    *)
(***************************************************************************)
EXTENDS MCFilterRender

CONSTANTS Dirs, Parent, Above, Items, Tops, Lanes, treeMaxDepth, MaxChanges, MaxTroubles

VARIABLES scenario,
          version, sizes, blind, cache, lane, todo, nodes, sum, reported, want, late,
          rows, seen, changes, troubles

treeVars == <<version, sizes, blind, cache, lane, todo, nodes, sum, reported, want,
              late, rows, seen, changes, troubles>>

\* Directory 1 above 2 above 3; a repo at 2 and one at 1, which is a root too.
MCParent == <<None, 1, 2>>
MCAbove == <<{1}, {1, 2}, {1, 2, 3}>>
MCTops == <<{2}, {1}, {1}>>
MCLanes == <<<<1, 2>>, <<3>>>>

Tree == INSTANCE TreePush

ASSUME TreeConstantsFit == Tree!TreeConstants

SideInit ==
    /\ scenario \in {"filters", "tree"}
    /\ Init /\ Tree!Init

FiltersNext == scenario = "filters" /\ Next /\ UNCHANGED <<scenario, treeVars>>
TreeNext == scenario = "tree" /\ Tree!Next /\ UNCHANGED <<scenario, vars>>

\* The fairness of each part, while that part is what is looked at.
SideSpec ==
    /\ SideInit /\ [][FiltersNext \/ TreeNext]_<<scenario, vars, treeVars>>
    /\ WF_vars(scenario = "filters" /\ Boot)
    /\ WF_vars(scenario = "filters" /\ LoopPulls)
    /\ \A a \in Actors : WF_vars(scenario = "filters" /\ Step(a))
    /\ WF_treeVars(scenario = "tree" /\ Tree!Walker)
    /\ WF_treeVars(scenario = "tree" /\ Tree!Late)
    /\ WF_treeVars(scenario = "tree" /\ Tree!Readable)

\* The filters file comes to be that of the controller's rules (FilterRender.tla).
FiltersArrive == <>[](scenario = "filters" => Current)

\* What was announced is what is sent, and the controller comes to hold every
\* tree as it is (TreePush.tla).
TreeArrives ==
    /\ [](Tree!TypeOK /\ Tree!PutMatchesManifest)
    /\ <>[](scenario = "tree" => Tree!AllArrived)
=============================================================================
