---------------------------- MODULE MCWorkspace -----------------------------
(***************************************************************************)
(* Small instances of the workspace and releases commands for TLC, one     *)
(* command per behaviour.                                                  *)
(***************************************************************************)
EXTENDS CrossRelease

VARIABLE command           \* the command of this behaviour

mvars == <<wvars, xvars, command>>

Names == 1 .. 4
Over(M, N) == [M -> SUBSET N]
Diamond == (1 :> {2, 3}) @@ (2 :> {4}) @@ (3 :> {4}) @@ (4 :> {})
Skip == (1 :> {2, 3}) @@ (2 :> {3}) @@ (3 :> {}) @@ (4 :> {3})

(* Every graph over three names, some of them not declared, the diamond    *)
(* and a graph with an edge that skips a level.                            *)
AllGraphs == Over(1 .. 3, 1 .. 3) \cup Over({1, 3}, 1 .. 3) \cup {Diamond, Skip}

(* Those the executor is run on: a chain, a tree, independent members.     *)
SomeGraphs == {Diamond, Skip, (1 :> {2}) @@ (2 :> {1}), (1 :> {4}) @@ (2 :> {})}
              \cup {g \in Over(1 .. 3, 1 .. 3) : g[3] = {} /\ g[2] \subseteq {3} /\ 1 \notin g[1]}

Run(op, parallel) == [op |-> op, atomic |-> FALSE, goOn |-> FALSE, gate |-> FALSE,
                      dry |-> FALSE, parallel |-> parallel]
Some ==
    { [Run("install", 2) EXCEPT !.atomic = TRUE], [Run("install", 0) EXCEPT !.gate = TRUE],
      [Run("upgrade", 2) EXCEPT !.goOn = TRUE, !.gate = TRUE],
      [Run("upgrade", 1) EXCEPT !.atomic = TRUE, !.gate = TRUE],
      [Run("upgrade", 3) EXCEPT !.atomic = TRUE, !.dry = TRUE],
      [Run("install", 1) EXCEPT !.goOn = TRUE, !.atomic = TRUE],
      Run("uninstall", 2), [Run("uninstall", 1) EXCEPT !.dry = TRUE, !.goOn = TRUE] }
DryAtomic == { [Run("upgrade", 1) EXCEPT !.atomic = TRUE, !.dry = TRUE] }

-----------------------------------------------------------------------------
(* The variables of the other command keep one value; a plan changes no    *)
(* release, and only the search looks at the order of declaration.         *)
MCInit ==
    \/ /\ command = "workspace"
       /\ xgraph = Diamond /\ xop = "plan" /\ xleft = <<1, 2, 3, 4>> /\ xrel = [n \in Releases |-> "old"]
       /\ CrossInit /\ WorkspaceInit
    \/ /\ command = "releases"
       /\ graph = Diamond /\ opts = Run("uninstall", 2) /\ rel = [m \in Name |-> "old"]
       /\ xgraph \in XGraphs /\ xop \in {"install", "upgrade", "uninstall", "plan", "members"}
       /\ IF xop = "members" THEN TRUE ELSE xleft = SetToSortSeq(Releases, <)
       /\ IF xop \in {"plan", "members"} THEN xrel = [n \in Releases |-> "old"] ELSE TRUE
       /\ CrossInit /\ WorkspaceInit

(* The command has returned.                                               *)
MCRest == (pc = "done" \/ xresult \in {"ok", "failed", "refused"}) /\ UNCHANGED mvars

MCNext ==
    \/ command = "workspace" /\ WorkspaceStep /\ UNCHANGED <<xvars, command>>
    \/ command = "releases" /\ CrossStep /\ UNCHANGED <<wvars, command>>
    \/ MCRest

MCSpec == MCInit /\ [][MCNext]_mvars /\ WF_mvars(MCNext)

(* The commands of both kinds come to an end.                              *)
CommandReturns == (command = "workspace" => RunReturns)
                  /\ (command = "releases" => <>(xresult \in {"ok", "failed", "refused"}))
=============================================================================
