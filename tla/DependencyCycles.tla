-------------------------- MODULE DependencyCycles --------------------------
(***************************************************************************)
(* The search for dependency cycles in a configuration: VisitForCycle and  *)
(* FindCycle of manager/src/ConfigParser.cpp, a depth-first search one     *)
(* look at a dependency a step.                                            *)
(*                                                                         *)
(* A service is its index in the file.  path holds the services that are   *)
(* being visited, and look the place in its list each has come to.         *)
(***************************************************************************)
EXTENDS Integers, Sequences, FiniteSets

CONSTANT Services   \* the number of services

ASSUME ServicesAssumption == Services \in Nat

Nodes == 1..Services

\* What each service needs, in the order of its depends_on.
Graph == [Nodes -> Seq(Nodes)]

VARIABLES
  dependsOn,
  mark,     \* 0: not visited, 1: on the current path, 2: finished
  path,
  look,
  root,     \* the service the search starts from next
  result,   \* "searching", "none" or "cycle"
  cycle     \* the services of the cycle found, the first again at its end

vars == <<dependsOn, mark, path, look, root, result, cycle>>

\* The search of a graph begins.
Begin(graph) ==
  /\ dependsOn = graph
  /\ mark = [n \in Nodes |-> 0]
  /\ path = <<>>
  /\ look = [n \in Nodes |-> 1]
  /\ root = 1
  /\ result = "searching"
  /\ cycle = <<>>

Init == \E graph \in Graph : Begin(graph)

----------------------------------------------------------------------------

Top == path[Len(path)]

\* The dependency the visit on top looks at next.
Dependency == dependsOn[Top][look[Top]]

\* Mutant: one mark for every service met, on the path or not.
VisitOnce(n) ==
  /\ mark' = [mark EXCEPT ![n] = 2]
  /\ path' = Append(path, n)

\* A visit begins, at the first of the service's dependencies.
Visit(n) ==
  /\ mark' = [mark EXCEPT ![n] = 1]
  /\ path' = Append(path, n)

\* FindCycle goes to the next service not visited yet.
NextRoot ==
  /\ result = "searching"
  /\ path = <<>>
  /\ root \in Nodes
  /\ IF mark[root] = 0
     THEN Visit(root) /\ look' = [look EXCEPT ![root] = 1]
     ELSE UNCHANGED <<mark, path, look>>
  /\ root' = root + 1
  /\ UNCHANGED <<dependsOn, result, cycle>>

NoCycle ==
  /\ result = "searching"
  /\ path = <<>>
  /\ root \notin Nodes
  /\ result' = "none"
  /\ UNCHANGED <<dependsOn, mark, path, look, root, cycle>>

InVisit ==
  /\ result = "searching"
  /\ path # <<>>

Looking == InVisit /\ look[Top] \in DOMAIN dependsOn[Top]

OnPath(n) == mark[n] = 1

ShownFrom == CHOOSE k \in DOMAIN path : path[k] = Dependency

\* The rest of the path from the dependency on, and the dependency again.
CycleFound ==
  /\ Looking
  /\ OnPath(Dependency)
  /\ result' = "cycle"
  /\ cycle' = Append(SubSeq(path, ShownFrom, Len(path)), Dependency)
  /\ UNCHANGED <<dependsOn, mark, path, look, root>>

VisitDependency ==
  /\ Looking
  /\ mark[Dependency] = 0
  /\ Visit(Dependency)
  /\ look' = [look EXCEPT ![Top] = @ + 1, ![Dependency] = 1]
  /\ UNCHANGED <<dependsOn, root, result, cycle>>

PassDependency ==
  /\ Looking
  /\ mark[Dependency] = 2
  /\ look' = [look EXCEPT ![Top] = @ + 1]
  /\ UNCHANGED <<dependsOn, mark, path, root, result, cycle>>

MarkOnReturn == 2

\* The visit on top has looked at every dependency.
Return ==
  /\ InVisit
  /\ look[Top] \notin DOMAIN dependsOn[Top]
  /\ mark' = [mark EXCEPT ![Top] = MarkOnReturn]
  /\ path' = SubSeq(path, 1, Len(path) - 1)
  /\ UNCHANGED <<dependsOn, look, root, result, cycle>>

Next ==
  \/ NextRoot
  \/ NoCycle
  \/ CycleFound
  \/ VisitDependency
  \/ PassDependency
  \/ Return

Spec == Init /\ [][Next]_vars

----------------------------------------------------------------------------
(* Properties *)

Needs(n) == {dependsOn[n][i] : i \in DOMAIN dependsOn[n]}

\* What the manager relies on: among any services one needs none of the others.
WellFounded == \A S \in SUBSET Nodes : S # {} => \E n \in S : Needs(n) \cap S = {}

\* Type correctness; a service is marked as on the path just while it is there, once.
TypeOK ==
  /\ dependsOn \in Graph
  /\ mark \in [Nodes -> 0..2]
  /\ path \in Seq(Nodes)
  /\ \A n \in Nodes : mark[n] = 1 <=> \E i \in 1..Len(path) : path[i] = n
  /\ \A i, j \in 1..Len(path) : path[i] = path[j] => i = j
  /\ look \in [Nodes -> Nat \ {0}]
  /\ root \in 1..(Services + 1)
  /\ result \in {"searching", "none", "cycle"}
  /\ cycle \in Seq(Nodes)

\* The answer is right both ways: a file that is accepted has no cycle, so that no service waits
\* for itself, and one that is refused has.
AnswerIsRight ==
  /\ result = "none" => WellFounded
  /\ result = "cycle" => ~WellFounded

\* The cycle shown to the user is one: each service in it needs the next, and the last is the first.
CycleIsShown ==
  result = "cycle" =>
    /\ Len(cycle) > 1
    /\ cycle[1] = cycle[Len(cycle)]
    /\ \A i \in 1..(Len(cycle) - 1) : cycle[i + 1] \in Needs(cycle[i])

=============================================================================
