---------------------------- MODULE CrossRelease ----------------------------
(***************************************************************************)
(* The sequential orders of a dependency graph: topoSortReleases of        *)
(* internal/cli/crossrel.go, Kahn's algorithm, and TopologicalOrder of     *)
(* internal/workspace/workspace.go, a depth-first search; and the commands *)
(* over them: keramos releases install | upgrade | uninstall (crossrel.go), *)
(* which goes through the releases of a file one after another in that     *)
(* order, releases plan and workspace plan, which print it.                *)
(*                                                                         *)
(* A step is one round of a loop, or one call or return of the recursion.  *)
(* xgraph maps the declared names to what they depend on; names are        *)
(* numbers, in the order of sort.Strings.  The count indeg[n] of           *)
(* topoSortReleases is represented by the dependencies it counts.          *)
(***************************************************************************)
EXTENDS Workspace, FiniteSetsExt, SequencesExt

CONSTANTS XName,           \* the names of releases
          XGraphs,         \* the files: functions from names to sets of names
          MaxXFaults       \* bound: failures in a run

ASSUME XNameAssumption == XName \subseteq Nat
ASSUME XGraphsAssumption ==
    \A g \in XGraphs : /\ IsFiniteSet(DOMAIN g) /\ DOMAIN g \subseteq XName
                       /\ g \in [DOMAIN g -> SUBSET XName]
ASSUME XFaultsAssumption == MaxXFaults \in Nat

VARIABLES xgraph,          \* the file
          xop,             \* install, upgrade, uninstall or plan of releases, or members (workspace plan)
          xresult,         \* unread, then sorting, then none while the command runs
          xindeg,          \* name -> the dependencies that no order holds yet
          xqueue,          \* the names that can come next, kept sorted
          xleft,           \* the declared names the search has still to visit
          xstack,          \* the visits under way: a name, the dependencies to visit
          xorder,          \* the order so far
          xpos,            \* the number of releases done
          xrel,            \* release -> absent, old, new or torn
          xfailed,         \* the releases whose operation failed
          xfaults

sorting == <<xindeg, xqueue, xleft, xstack, xorder>>
working == <<xpos, xrel, xfailed, xfaults>>
xvars == <<xgraph, xop, xresult, sorting, working>>

Releases == DOMAIN xgraph
(* The names of a file in some order.                                      *)
Listings(S) == {s \in [1 .. Cardinality(S) -> S] : Range(s) = S}

CrossInit ==
    /\ xgraph \in XGraphs /\ xop \in {"install", "upgrade", "uninstall", "plan", "members"}
    /\ xresult = "unread"
    /\ xindeg = [n \in Releases |-> {}] /\ xqueue = {} /\ xstack = <<>> /\ xorder = <<>>
    /\ xleft \in Listings(Releases)
    /\ xpos = 0 /\ xfailed = {} /\ xfaults = MaxXFaults
    /\ xrel \in [Releases -> {"absent", "old"}]

Refused == xresult' = "refused" /\ UNCHANGED <<xgraph, xop, sorting, working>>

-----------------------------------------------------------------------------
(* topoSortReleases.                                                       *)
Kahn == xop # "members"

(* A dependency that the file does not declare is an error.                *)
ReadReleases ==
    /\ xresult = "unread" /\ Kahn
    /\ IF \E n \in Releases : ~(xgraph[n] \subseteq Releases) THEN Refused
       ELSE /\ xresult' = "sorting"
            /\ xindeg' = xgraph /\ xqueue' = {n \in Releases : xgraph[n] = {}}
            /\ UNCHANGED <<xgraph, xop, xleft, xstack, xorder, working>>

(* Mutant: a name is queued at its first dependency.                       *)
FreedEarly(n) == {m \in Releases : n \in xindeg[m]}
Freed(n) == {m \in Releases : n \in xindeg[m] /\ xindeg[m] \subseteq {n}}

(* The least of the ready names comes next.                                *)
Dequeue ==
    /\ xresult = "sorting" /\ Kahn /\ xqueue # {}
    /\ LET n == Min(xqueue) IN
         /\ xorder' = Append(xorder, n)
         /\ xindeg' = [m \in Releases |-> xindeg[m] \ {n}]
         /\ xqueue' = (xqueue \ {n}) \cup Freed(n)
    /\ UNCHANGED <<xgraph, xop, xresult, xleft, xstack, working>>

(* processed # len(in): those left over depend on one another.  The order  *)
(* is printed, or run through; uninstall reverses it.                      *)
Sorted ==
    /\ xresult = "sorting" /\ Kahn /\ xqueue = {}
    /\ IF Len(xorder) # Cardinality(Releases) THEN Refused
       ELSE /\ xresult' = IF xop = "plan" THEN "ok" ELSE "none"
            /\ xorder' = IF xop = "uninstall" THEN Reverse(xorder) ELSE xorder
            /\ UNCHANGED <<xgraph, xop, xindeg, xqueue, xleft, xstack, working>>

-----------------------------------------------------------------------------
(* TopologicalOrder: a name is visiting while it is on the stack, and done *)
(* once it is in the order.                                                *)
Visiting == {xstack[k].name : k \in DOMAIN xstack}
Visited == Range(xorder)

ReadMembers ==
    /\ xresult = "unread" /\ ~Kahn
    /\ xresult' = "sorting"
    /\ UNCHANGED <<xgraph, xop, sorting, working>>

(* visit(n), called from where the stack is as given: a name that is done  *)
(* is passed over, one that is visiting or unknown is an error.            *)
Visit(n, left, stack) ==
    IF n \in Visiting \/ n \notin Releases THEN Refused
    ELSE /\ xleft' = left
         /\ xstack' = IF n \in Visited THEN stack ELSE Append(stack, [name |-> n, deps |-> xgraph[n]])
         /\ UNCHANGED <<xgraph, xop, xresult, xindeg, xqueue, xorder, working>>

(* The members are visited in the order the file declares them, ...        *)
VisitMember ==
    /\ xresult = "sorting" /\ ~Kahn /\ xstack = <<>> /\ xleft # <<>>
    /\ Visit(Head(xleft), Tail(xleft), <<>>)

(* ... the dependencies of each in the order of their names.               *)
VisitDependency ==
    /\ xresult = "sorting" /\ ~Kahn /\ xstack # <<>> /\ Last(xstack).deps # {}
    /\ LET d == Min(Last(xstack).deps)
       IN  Visit(d, xleft, Append(Front(xstack), [Last(xstack) EXCEPT !.deps = @ \ {d}]))

VisitReturns ==
    /\ xresult = "sorting" /\ ~Kahn /\ xstack # <<>> /\ Last(xstack).deps = {}
    /\ xorder' = Append(xorder, Last(xstack).name)
    /\ xstack' = Front(xstack)
    /\ UNCHANGED <<xgraph, xop, xresult, xindeg, xqueue, xleft, working>>

PlanPrinted ==
    /\ xresult = "sorting" /\ ~Kahn /\ xstack = <<>> /\ xleft = <<>>
    /\ xresult' = "ok"
    /\ UNCHANGED <<xgraph, xop, sorting, working>>

-----------------------------------------------------------------------------
(* runReleasesAction.                                                      *)

(* Mutant: a failure never ends the command.                               *)
AlwaysGoOn == "none"
AfterFailure == IF xop = "uninstall" THEN "none" ELSE "failed"

(* The operation on the next release.  Installs and upgrades are atomic    *)
(* and do not wait; the first that fails ends the command.  An uninstall   *)
(* that fails is printed, and the next one follows.                        *)
Release ==
    /\ xresult = "none" /\ xpos < Len(xorder)
    /\ LET n == xorder[xpos + 1] IN
       \/ /\ xop = "install" => xrel[n] = "absent"
          /\ xrel' = [xrel EXCEPT ![n] = IF xop = "uninstall" THEN "absent" ELSE "new"]
          /\ UNCHANGED <<xfailed, xfaults, xresult>>
       \/ /\ \/ xop = "install" /\ xrel[n] # "absent" /\ UNCHANGED <<xrel, xfaults>>
             \/ /\ xfaults > 0 /\ xfaults' = xfaults - 1
                /\ xrel' \in {xrel, [xrel EXCEPT ![n] = "torn"]}
          /\ xfailed' = xfailed \cup {n}
          /\ xresult' = AfterFailure
    /\ xpos' = xpos + 1
    /\ UNCHANGED <<xgraph, xop, sorting>>

(* A failed uninstall does not make the command fail.                      *)
Finished ==
    /\ xresult = "none" /\ xpos = Len(xorder)
    /\ xresult' = "ok"
    /\ UNCHANGED <<xgraph, xop, sorting, working>>

CrossStep ==
    \/ ReadReleases \/ Dequeue \/ Sorted
    \/ ReadMembers \/ VisitMember \/ VisitDependency \/ VisitReturns \/ PlanPrinted
    \/ Release \/ Finished

CrossSpec == CrossInit /\ [][CrossStep]_xvars

-----------------------------------------------------------------------------
(* No set of members in which each depends on another one.                 *)
Acyclic(g) == \A S \in (SUBSET DOMAIN g) \ {{}} : \E m \in S : g[m] \cap S = {}
WellFormed(g) == (\A m \in DOMAIN g : g[m] \subseteq DOMAIN g) /\ Acyclic(g)

Respects(order, g) ==
    /\ Len(order) = Cardinality(DOMAIN g)
    /\ \A m \in DOMAIN g : m \in Range(order)
    /\ \A i, j \in DOMAIN order : order[i] \in g[order[j]] => i < j

(* The orders of keramos workspace plan and of keramos releases: a file is *)
(* refused exactly when it has a cycle or an unknown name, otherwise every *)
(* name comes once and after all it depends on; Levels agrees.             *)
OrdersRespectDependencies ==
    /\ xresult = "refused" => ~WellFormed(xgraph)
    /\ xresult \in {"none", "ok", "failed"} =>
          WellFormed(xgraph) /\ Respects(IF xop = "uninstall" THEN Reverse(xorder) ELSE xorder, xgraph)
    /\ pc = "done" /\ Acceptable => (result = "refused" <=> ~WellFormed(graph))

(* runReleasesAction: the releases already done include all a release      *)
(* depends on, without a failure, and for uninstall all that depend on it; *)
(* install and upgrade report success only without a failure.              *)
ReleasesInOrder ==
    \A j \in 1 .. xpos :
        IF xop = "uninstall"
        THEN \A n \in Releases : xorder[j] \in xgraph[n] => \E i \in 1 .. j - 1 : xorder[i] = n
        ELSE /\ \A d \in xgraph[xorder[j]] : d \notin xfailed /\ \E i \in 1 .. j - 1 : xorder[i] = d
             /\ xresult = "ok" => xfailed = {}
=============================================================================
