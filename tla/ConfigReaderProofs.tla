-------------------------- MODULE ConfigReaderProofs --------------------------
(***************************************************************************)
(* Proofs about the reading of a configuration file, for every file and    *)
(* every number of services.  First the search for dependency cycles: one  *)
(* that finds no cycle has shown that there is none, and one that finds a  *)
(* cycle has found one.  Then the reader: the lines, the validation that   *)
(* hands the services to the search, and what an accepted file is.  Then   *)
(* what was read: every field has what the file means by it, and a file    *)
(* that is refused is refused for a reason its author finds there.         *)
(***************************************************************************)
EXTENDS ConfigReader, SequenceTheorems, FiniteSetTheorems, TLAPS

----------------------------------------------------------------------------
(* The search for cycles *)

Finished == {n \in Nodes : mark[n] = 2}

\* What is finished needs only what is finished, and what a visit has looked at is finished or
\* next on the path.
Explored ==
  /\ \A n \in Finished : Needs(n) \subseteq Finished
  /\ \A i \in 1..Len(path) : \A k \in 1..Len(dependsOn[path[i]]) :
       k < look[path[i]] =>
         \/ mark[dependsOn[path[i]][k]] = 2
         \/ i < Len(path) /\ dependsOn[path[i]][k] = path[i + 1]

\* Each service on the path needs the next.
Chain == \A i \in 1..(Len(path) - 1) : path[i + 1] \in Needs(path[i])

\* Among finished services there is no cycle.
FinishedWellFounded ==
  \A S \in SUBSET Finished : S # {} => \E n \in S : Needs(n) \cap S = {}

\* Every service before the root has been visited.
RootsVisited == \A n \in Nodes : n < root => mark[n] # 0

Answer ==
  /\ result = "none" => Finished = Nodes
  /\ result = "cycle" => ~WellFounded

IInv == TypeOK /\ Explored /\ Chain /\ FinishedWellFounded /\ RootsVisited /\ Answer /\ CycleIsShown

\* The top of a path that is not empty.
LEMMA TopFacts ==
  ASSUME TypeOK, path # <<>>
  PROVE  /\ Len(path) \in Nat \ {0}
         /\ Top \in Nodes
         /\ mark[Top] = 1
         /\ look[Top] \in Nat \ {0}
         /\ dependsOn[Top] \in Seq(Nodes)
<1>1. Len(path) \in Nat \ {0}
  BY EmptySeq DEF TypeOK
<1>2. Top \in Nodes /\ Len(path) \in 1..Len(path)
  BY <1>1, ElementOfSeq DEF TypeOK, Top
<1>3. mark[Top] = 1
  BY <1>2 DEF TypeOK, Top
<1> QED
  BY <1>1, <1>2, <1>3 DEF TypeOK, Graph

\* The dependency a visit looks at.
LEMMA DependencyFacts ==
  ASSUME TypeOK, path # <<>>, look[Top] \in DOMAIN dependsOn[Top]
  PROVE  /\ Dependency \in Nodes
         /\ Dependency \in Needs(Top)
         /\ look[Top] \in 1..Len(dependsOn[Top])
  BY TopFacts, ElementOfSeq, LenProperties DEF Dependency, Needs

\* A visit keeps the types.
LEMMA VisitTypes ==
  ASSUME TypeOK, NEW n \in Nodes, mark[n] = 0, Visit(n)
  PROVE  /\ mark' \in [Nodes -> 0..2]
         /\ path' \in Seq(Nodes)
         /\ Len(path') = Len(path) + 1
         /\ \A i \in 1..Len(path) : path'[i] = path[i]
         /\ path'[Len(path) + 1] = n
         /\ \A m \in Nodes : mark'[m] = IF m = n THEN 1 ELSE mark[m]
         /\ \A i \in 1..Len(path) : path[i] # n
         /\ \A m \in Nodes : mark'[m] = 1 <=> \E i \in 1..Len(path') : path'[i] = m
         /\ \A i, j \in 1..Len(path') : path'[i] = path'[j] => i = j
<1>1. /\ mark' \in [Nodes -> 0..2]
      /\ \A m \in Nodes : mark'[m] = IF m = n THEN 1 ELSE mark[m]
  BY DEF TypeOK, Visit
<1>2. path \in Seq(Nodes) /\ Len(path) \in Nat
  BY LenProperties DEF TypeOK
<1>3. /\ path' \in Seq(Nodes)
      /\ Len(path') = Len(path) + 1
      /\ \A i \in 1..Len(path) : path'[i] = path[i]
      /\ path'[Len(path) + 1] = n
  BY <1>2 DEF Visit
<1>4. 1..Len(path') = 1..(Len(path) + 1)
  BY <1>3
<1>5. \A i \in 1..Len(path) : path[i] # n
  BY <1>2 DEF TypeOK
<1>6. \A m \in Nodes : mark'[m] = 1 <=> \E i \in 1..Len(path') : path'[i] = m
  <2> SUFFICES ASSUME NEW m \in Nodes
               PROVE  mark'[m] = 1 <=> \E i \in 1..Len(path') : path'[i] = m
    OBVIOUS
  <2>1. CASE m = n
    BY <2>1, <1>1, <1>2, <1>3, <1>4
  <2>2. CASE m # n
    <3>1. mark[m] = 1 <=> \E i \in 1..Len(path) : path[i] = m
      BY <1>2 DEF TypeOK
    <3>2. (\E i \in 1..Len(path') : path'[i] = m) <=> \E i \in 1..Len(path) : path[i] = m
      BY <2>2, <1>2, <1>3, <1>4
    <3> QED
      BY <2>2, <3>1, <3>2, <1>1
  <2> QED
    BY <2>1, <2>2
<1>7. \A i, j \in 1..Len(path') : path'[i] = path'[j] => i = j
  <2> SUFFICES ASSUME NEW i \in 1..(Len(path) + 1), NEW j \in 1..(Len(path) + 1), path'[i] = path'[j]
               PROVE  i = j
    BY <1>4
  <2>1. CASE i \in 1..Len(path) /\ j \in 1..Len(path)
    <3>1. path[i] = path[j]
      BY <1>3, <2>1
    <3> QED
      BY <2>1, <3>1 DEF TypeOK
  <2>2. CASE i = Len(path) + 1 \/ j = Len(path) + 1
    BY <1>2, <1>3, <1>5, <2>2
  <2> QED
    BY <1>2, <2>1, <2>2
<1> QED
  BY <1>1, <1>3, <1>5, <1>6, <1>7

----------------------------------------------------------------------------
(* The inductive invariant *)

\* A search begins with nothing visited.
LEMMA InitIInv == Init => IInv
<1> SUFFICES ASSUME NEW graph \in Graph, Begin(graph)
             PROVE  IInv
  BY DEF Init
<1>1. path = <<>> /\ Len(path) = 0 /\ path \in Seq(Nodes) /\ cycle \in Seq(Nodes)
  BY EmptySeq DEF Begin
<1>2. TypeOK
  BY <1>1, ServicesAssumption DEF Begin, TypeOK, Nodes
<1>3. Finished = {}
  BY DEF Begin, Finished
<1>4. Explored /\ Chain /\ FinishedWellFounded
  BY <1>1, <1>3 DEF Explored, Chain, FinishedWellFounded
<1>5. RootsVisited /\ Answer /\ CycleIsShown
  BY DEF Begin, RootsVisited, Answer, CycleIsShown, Nodes
<1> QED
  BY <1>2, <1>4, <1>5 DEF IInv

\* What the search has found out is about its marks and its path alone.
LEMMA SearchUnchanged ==
  ASSUME Explored, Chain, FinishedWellFounded, UNCHANGED <<dependsOn, mark, path, look>>
  PROVE  Explored' /\ Chain' /\ FinishedWellFounded'
<1>1. Finished' = Finished /\ \A n : Needs(n)' = Needs(n)
  BY DEF Finished, Needs
<1>2. Explored'
  BY <1>1 DEF Explored
<1>3. Chain'
  BY <1>1 DEF Chain
<1>4. FinishedWellFounded'
  BY <1>1 DEF FinishedWellFounded
<1> QED
  BY <1>2, <1>3, <1>4

\* A visit of the next root, or none.
LEMMA NextRootIInv == ASSUME IInv, NextRoot PROVE IInv'
<1> USE DEF NextRoot
<1>1. TypeOK /\ Len(path) = 0 /\ root \in Nodes /\ root \in Nat /\ result = "searching"
  BY EmptySeq, ServicesAssumption DEF IInv, TypeOK, Nodes
<1>2. root' \in 1..(Services + 1) /\ dependsOn' = dependsOn /\ result' = result /\ cycle' = cycle
  BY <1>1, ServicesAssumption DEF Nodes
<1>3. CASE mark[root] = 0
  <2>1. Visit(root) /\ look' = [look EXCEPT ![root] = 1]
    BY <1>3
  <2>2. /\ mark' \in [Nodes -> 0..2]
        /\ path' \in Seq(Nodes)
        /\ Len(path') = 1
        /\ path'[1] = root
        /\ \A m \in Nodes : mark'[m] = IF m = root THEN 1 ELSE mark[m]
        /\ \A m \in Nodes : mark'[m] = 1 <=> \E i \in 1..Len(path') : path'[i] = m
        /\ \A i, j \in 1..Len(path') : path'[i] = path'[j] => i = j
    BY <1>1, <1>3, <2>1, VisitTypes
  <2>3. look' \in [Nodes -> Nat \ {0}] /\ look'[root] = 1
    BY <1>1, <2>1 DEF TypeOK
  <2>4. TypeOK'
    BY <1>1, <1>2, <2>2, <2>3 DEF TypeOK
  <2>5. Finished' = Finished
    BY <1>3, <2>2 DEF Finished
  <2>6. \A n \in Nodes : Needs(n)' = Needs(n)
    BY <1>2 DEF Needs
  <2>7. Explored'
    <3>1. \A n \in Finished' : Needs(n)' \subseteq Finished'
      BY <2>5, <2>6 DEF IInv, Explored, Finished
    <3>2. \A i \in 1..Len(path') : \A k \in 1..Len(dependsOn'[path'[i]]) : ~(k < look'[path'[i]])
      BY <2>2, <2>3
    <3> QED
      BY <3>1, <3>2 DEF Explored
  <2>8. Chain'
    BY <2>2 DEF Chain
  <2>9. FinishedWellFounded'
    BY <2>5, <2>6 DEF IInv, FinishedWellFounded, Finished
  <2>10. RootsVisited'
    BY <1>1, <2>2 DEF IInv, RootsVisited, Nodes
  <2>11. Answer' /\ CycleIsShown'
    BY <1>1, <1>2 DEF Answer, CycleIsShown
  <2> QED
    BY <2>4, <2>7, <2>8, <2>9, <2>10, <2>11 DEF IInv
<1>4. CASE mark[root] # 0
  <2>1. UNCHANGED <<mark, path, look>>
    BY <1>4
  <2>2. TypeOK'
    BY <1>1, <1>2, <2>1 DEF TypeOK
  <2>3. Explored' /\ Chain' /\ FinishedWellFounded'
    BY <1>2, <2>1, SearchUnchanged DEF IInv
  <2>4. RootsVisited'
    BY <1>1, <1>4, <2>1 DEF IInv, RootsVisited, Nodes
  <2>5. Answer' /\ CycleIsShown'
    BY <1>1, <1>2 DEF Answer, CycleIsShown
  <2> QED
    BY <2>2, <2>3, <2>4, <2>5 DEF IInv
<1> QED
  BY <1>3, <1>4

\* With no root left, every service is finished.
LEMMA NoCycleIInv == ASSUME IInv, NoCycle PROVE IInv'
<1> USE DEF NoCycle
<1>1. TypeOK' /\ RootsVisited'
  BY DEF IInv, TypeOK, RootsVisited
<1>0. Explored' /\ Chain' /\ FinishedWellFounded'
  BY SearchUnchanged DEF IInv
<1>2. Finished = Nodes
  <2>1. \A n \in Nodes : n < root
    BY ServicesAssumption DEF IInv, TypeOK, Nodes
  <2>2. \A n \in Nodes : mark[n] # 0
    BY <2>1 DEF IInv, RootsVisited
  <2>3. \A n \in Nodes : mark[n] # 1
    BY EmptySeq DEF IInv, TypeOK
  <2>4. \A n \in Nodes : mark[n] \in 0..2
    BY DEF IInv, TypeOK
  <2> QED
    BY <2>2, <2>3, <2>4 DEF Finished
<1>3. Answer' /\ CycleIsShown'
  BY <1>2 DEF Answer, CycleIsShown, Finished
<1> QED
  BY <1>0, <1>1, <1>3 DEF IInv

\* The looking visit: the facts every step of it starts from.
LEMMA LookingFacts ==
  ASSUME IInv, Looking
  PROVE  /\ TypeOK
         /\ Len(path) \in Nat \ {0}
         /\ Top \in Nodes /\ mark[Top] = 1
         /\ look[Top] \in 1..Len(dependsOn[Top])
         /\ Dependency \in Nodes /\ Dependency \in Needs(Top)
         /\ result = "searching"
  BY TopFacts, DependencyFacts DEF IInv, Looking, InVisit

\* A dependency that is finished is passed.
LEMMA PassDependencyIInv == ASSUME IInv, PassDependency PROVE IInv'
<1> USE DEF PassDependency
<1>1. /\ TypeOK
      /\ Len(path) \in Nat \ {0}
      /\ Top \in Nodes
      /\ look[Top] \in 1..Len(dependsOn[Top])
      /\ result = "searching"
  BY LookingFacts
<1>2. /\ look' \in [Nodes -> Nat \ {0}]
      /\ look'[Top] = look[Top] + 1
      /\ \A n \in Nodes : n # Top => look'[n] = look[n]
  BY <1>1 DEF TypeOK
<1>3. TypeOK'
  BY <1>1, <1>2 DEF TypeOK
<1>4. Finished' = Finished /\ \A n : Needs(n)' = Needs(n)
  BY DEF Finished, Needs
<1>5. Explored'
  <2>1. \A n \in Finished' : Needs(n)' \subseteq Finished'
    BY <1>4 DEF IInv, Explored
  <2> SUFFICES ASSUME NEW i \in 1..Len(path), NEW k \in 1..Len(dependsOn[path[i]]),
                      k < look'[path[i]]
               PROVE  \/ mark[dependsOn[path[i]][k]] = 2
                      \/ i < Len(path) /\ dependsOn[path[i]][k] = path[i + 1]
    BY <2>1 DEF Explored
  <2>2. path[i] \in Nodes
    BY <1>1, ElementOfSeq DEF TypeOK
  <2>3. CASE k < look[path[i]]
    BY <2>3 DEF IInv, Explored
  <2>4. CASE ~(k < look[path[i]])
    <3>1. path[i] = Top /\ k = look[Top]
      BY <1>1, <1>2, <2>2, <2>4 DEF TypeOK
    <3> QED
      BY <3>1 DEF Dependency
  <2> QED
    BY <2>3, <2>4
<1>6. Chain' /\ FinishedWellFounded' /\ RootsVisited'
  BY <1>4 DEF IInv, Chain, FinishedWellFounded, RootsVisited
<1>7. Answer' /\ CycleIsShown'
  BY <1>1 DEF Answer, CycleIsShown
<1> QED
  BY <1>3, <1>5, <1>6, <1>7 DEF IInv

\* A dependency not visited yet is visited.
LEMMA VisitDependencyIInv == ASSUME IInv, VisitDependency PROVE IInv'
<1> USE DEF VisitDependency
<1> DEFINE d == Dependency
           L == Len(path)
<1>1. /\ TypeOK
      /\ L \in Nat \ {0}
      /\ Top \in Nodes /\ mark[Top] = 1
      /\ look[Top] \in 1..Len(dependsOn[Top])
      /\ d \in Nodes /\ d \in Needs(Top)
      /\ result = "searching"
  BY LookingFacts
<1>2. /\ mark' \in [Nodes -> 0..2]
      /\ path' \in Seq(Nodes)
      /\ Len(path') = L + 1
      /\ \A i \in 1..L : path'[i] = path[i]
      /\ path'[L + 1] = d
      /\ \A m \in Nodes : mark'[m] = IF m = d THEN 1 ELSE mark[m]
      /\ \A i \in 1..L : path[i] # d
      /\ \A m \in Nodes : mark'[m] = 1 <=> \E i \in 1..Len(path') : path'[i] = m
      /\ \A i, j \in 1..Len(path') : path'[i] = path'[j] => i = j
  BY <1>1, VisitTypes
<1>3. Top # d /\ Top = path[L]
  BY <1>1 DEF Top
<1>4. /\ look' \in [Nodes -> Nat \ {0}]
      /\ look'[Top] = look[Top] + 1
      /\ look'[d] = 1
      /\ \A n \in Nodes : n # Top /\ n # d => look'[n] = look[n]
  BY <1>1, <1>3 DEF TypeOK
<1>5. TypeOK'
  BY <1>1, <1>2, <1>4 DEF TypeOK
<1>6. Finished' = Finished /\ \A n : Needs(n)' = Needs(n)
  BY <1>2 DEF Finished, Needs
<1>7. Explored'
  <2>1. \A n \in Finished' : Needs(n)' \subseteq Finished'
    BY <1>6 DEF IInv, Explored
  <2> SUFFICES ASSUME NEW i \in 1..(L + 1), NEW k \in 1..Len(dependsOn[path'[i]]),
                      k < look'[path'[i]]
               PROVE  \/ mark'[dependsOn[path'[i]][k]] = 2
                      \/ i < L + 1 /\ dependsOn[path'[i]][k] = path'[i + 1]
    <3>1. dependsOn' = dependsOn /\ Len(path') = Len(path) + 1
      BY <1>2
    <3> HIDE DEF VisitDependency
    <3> QED
      BY <2>1, <3>1 DEF Explored
  <2>2. i \in 1..L
    BY <1>1, <1>2, <1>4
  <2>3. path'[i] = path[i] /\ path[i] \in Nodes /\ path[i] # d
    BY <1>1, <1>2, <2>2, ElementOfSeq DEF TypeOK
  <2>4. dependsOn[path[i]][k] \in Nodes
    <3>1. dependsOn[path[i]] \in Seq(Nodes) /\ k \in 1..Len(dependsOn[path[i]])
      BY <1>1, <2>3 DEF TypeOK, Graph
    <3> QED
      BY <3>1, ElementOfSeq
  <2>5. CASE k < look[path[i]]
    <3>1. \/ mark[dependsOn[path[i]][k]] = 2
          \/ i < L /\ dependsOn[path[i]][k] = path[i + 1]
      BY <2>2, <2>3, <2>5 DEF IInv, Explored
    <3>2. mark[d] = 0
      OBVIOUS
    <3>3. CASE mark[dependsOn[path[i]][k]] = 2
      BY <1>2, <2>3, <2>4, <3>2, <3>3
    <3>4. CASE i < L /\ dependsOn[path[i]][k] = path[i + 1]
      BY <1>1, <1>2, <2>2, <2>3, <3>4, SMTT(30)
    <3> QED
      BY <3>1, <3>3, <3>4
  <2>6. CASE ~(k < look[path[i]])
    <3>1. path[i] = Top /\ k = look[Top]
      BY <1>1, <1>4, <2>3, <2>6, SMTT(30) DEF TypeOK
    <3>2. i = L
      BY <1>1, <1>3, <2>2, <3>1 DEF TypeOK
    <3> QED
      BY <1>1, <1>2, <2>3, <3>1, <3>2 DEF Dependency
  <2> QED
    BY <2>5, <2>6
<1>8. Chain'
  <2> SUFFICES ASSUME NEW i \in 1..L
               PROVE  path'[i + 1] \in Needs(path'[i])
    <3>1. dependsOn' = dependsOn /\ Len(path') = Len(path) + 1 /\ Len(path) \in Nat
      BY <1>1, <1>2
    <3>2. 1..(Len(path') - 1) = 1..Len(path)
      BY <3>1
    <3> HIDE DEF VisitDependency
    <3> QED
      BY <3>1, <3>2 DEF Chain, Needs
  <2>1. CASE i = L
    BY <1>1, <1>2, <1>3, <2>1
  <2>2. CASE i # L
    <3>1. i \in 1..(L - 1) /\ path'[i] = path[i] /\ path'[i + 1] = path[i + 1]
      BY <1>1, <1>2, <2>2
    <3>2. path[i + 1] \in Needs(path[i])
      BY <3>1 DEF IInv, Chain
    <3> QED
      BY <3>1, <3>2
  <2> QED
    BY <2>1, <2>2
<1>9. FinishedWellFounded'
  BY <1>6 DEF IInv, FinishedWellFounded
<1>10. RootsVisited'
  BY <1>2 DEF IInv, RootsVisited
<1>11. Answer' /\ CycleIsShown'
  BY <1>1 DEF Answer, CycleIsShown
<1> QED
  BY <1>5, <1>7, <1>8, <1>9, <1>10, <1>11 DEF IInv

\* A visit that has looked at everything is finished.
LEMMA ReturnIInv == ASSUME IInv, Return PROVE IInv'
<1> DEFINE L == Len(path)
<1>1. /\ TypeOK
      /\ path # <<>>
      /\ L \in Nat \ {0}
      /\ Top \in Nodes /\ mark[Top] = 1 /\ Top = path[L]
      /\ look[Top] \in Nat \ {0}
      /\ dependsOn[Top] \in Seq(Nodes)
      /\ result = "searching"
  BY TopFacts DEF IInv, Return, InVisit, Top
<1>2. /\ look[Top] > Len(dependsOn[Top])
      /\ mark' = [mark EXCEPT ![Top] = 2]
      /\ path' = SubSeq(path, 1, L - 1)
      /\ UNCHANGED <<dependsOn, look, root, result, cycle>>
  BY <1>1, LenProperties DEF Return, MarkOnReturn
<1>3. /\ path' \in Seq(Nodes)
      /\ Len(path') = L - 1
      /\ \A i \in 1..(L - 1) : path'[i] = path[i]
  <2>1. \A i \in 1..(L - 1) : path[i] \in Nodes
    BY <1>1, ElementOfSeq DEF TypeOK
  <2>2. L - 1 \in Int
    BY <1>1
  <2>3. /\ SubSeq(path, 1, L - 1) \in Seq(Nodes)
        /\ Len(SubSeq(path, 1, L - 1)) = IF 1 <= L - 1 THEN (L - 1) - 1 + 1 ELSE 0
        /\ \A i \in 1..((L - 1) - 1 + 1) : SubSeq(path, 1, L - 1)[i] = path[1 + i - 1]
    BY <2>1, <2>2, SubSeqProperties
  <2>4. path' \in Seq(Nodes)
    BY <1>2, <2>3
  <2>5. Len(path') = L - 1
    <3>1. (IF 1 <= L - 1 THEN (L - 1) - 1 + 1 ELSE 0) = L - 1
      <4>1. \A k \in Nat \ {0} : (IF 1 <= k - 1 THEN (k - 1) - 1 + 1 ELSE 0) = k - 1
        OBVIOUS
      <4> QED
        BY <1>1, <4>1
    <3> QED
      BY <1>2, <2>3, <3>1
  <2>6. ASSUME NEW i \in 1..(L - 1) PROVE path'[i] = path[i]
    <3>1. i \in 1..((L - 1) - 1 + 1) /\ 1 + i - 1 = i
      BY <1>1
    <3> QED
      BY <1>2, <2>3, <3>1
  <2> QED
    BY <2>4, <2>5, <2>6
<1>4. /\ mark' \in [Nodes -> 0..2]
      /\ \A n \in Nodes : mark'[n] = IF n = Top THEN 2 ELSE mark[n]
  BY <1>1, <1>2 DEF TypeOK
<1>5. \A i \in 1..(L - 1) : path[i] # Top
  BY <1>1 DEF TypeOK
<1>6. TypeOK'
  <2>1. \A n \in Nodes : mark'[n] = 1 <=> \E i \in 1..Len(path') : path'[i] = n
    <3> SUFFICES ASSUME NEW n \in Nodes
                 PROVE  mark'[n] = 1 <=> \E i \in 1..(L - 1) : path[i] = n
      BY <1>3
    <3>1. mark[n] = 1 <=> \E i \in 1..L : path[i] = n
      BY <1>1 DEF TypeOK
    <3>2. CASE n = Top
      BY <1>4, <1>5, <3>2
    <3>3. CASE n # Top
      BY <1>1, <1>4, <3>1, <3>3
    <3> QED
      BY <3>2, <3>3
  <2>2. \A i, j \in 1..Len(path') : path'[i] = path'[j] => i = j
    <3> SUFFICES ASSUME NEW i \in 1..(L - 1), NEW j \in 1..(L - 1), path'[i] = path'[j]
                 PROVE  i = j
      BY <1>3
    <3>1. path[i] = path[j] /\ i \in 1..L /\ j \in 1..L
      BY <1>1, <1>3
    <3> QED
      BY <1>1, <3>1 DEF TypeOK
  <2> QED
    BY <1>1, <1>2, <1>3, <1>4, <2>1, <2>2 DEF TypeOK
<1>7. /\ Finished' = Finished \cup {Top}
      /\ Top \notin Finished
      /\ \A n : Needs(n)' = Needs(n)
  BY <1>1, <1>2, <1>4 DEF Finished, Needs
<1>8. Needs(Top) \subseteq Finished
  <2> SUFFICES ASSUME NEW k \in 1..Len(dependsOn[Top])
               PROVE  dependsOn[Top][k] \in Finished
    BY <1>1, LenProperties DEF Needs
  <2>1. k < look[Top] /\ dependsOn[Top][k] \in Nodes
    BY <1>1, <1>2, ElementOfSeq
  <2> QED
    BY <1>1, <2>1 DEF IInv, Explored, Finished
<1>9. Explored'
  <2>1. \A n \in Finished' : Needs(n)' \subseteq Finished'
    BY <1>7, <1>8 DEF IInv, Explored
  <2>2. ASSUME NEW i \in 1..(L - 1), NEW k \in 1..Len(dependsOn[path[i]]), k < look[path[i]]
        PROVE  \/ mark'[dependsOn[path[i]][k]] = 2
               \/ i < L - 1 /\ dependsOn[path[i]][k] = path'[i + 1]
    <3>1. \/ mark[dependsOn[path[i]][k]] = 2
          \/ i < L /\ dependsOn[path[i]][k] = path[i + 1]
      BY <1>1, <2>2, SMTT(30) DEF IInv, Explored
    <3>2. path[i] \in Nodes /\ dependsOn[path[i]] \in Seq(Nodes)
      BY <1>1, ElementOfSeq DEF TypeOK, Graph
    <3>3. dependsOn[path[i]][k] \in Nodes
      BY <3>2, ElementOfSeq
    <3>4. CASE mark[dependsOn[path[i]][k]] = 2
      BY <1>4, <3>3, <3>4
    <3>5. CASE i = L - 1 /\ dependsOn[path[i]][k] = path[i + 1]
      BY <1>1, <1>4, <3>5
    <3>6. CASE i < L - 1 /\ dependsOn[path[i]][k] = path[i + 1]
      BY <1>1, <1>3, <3>6
    <3> QED
      BY <1>1, <3>1, <3>4, <3>5, <3>6
  <2>3. \A i \in 1..(L - 1) : path'[i] = path[i]
    BY <1>3
  <2>4. dependsOn' = dependsOn /\ look' = look /\ Len(path') = L - 1
    BY <1>2, <1>3
  <2> QED
    BY <2>1, <2>2, <2>3, <2>4 DEF Explored
<1>10. Chain'
  <2> SUFFICES ASSUME NEW i \in 1..(L - 2)
               PROVE  path'[i + 1] \in Needs(path'[i])
    <3>1. dependsOn' = dependsOn /\ 1..(Len(path') - 1) = 1..(L - 2)
      BY <1>1, <1>2, <1>3
    <3> QED
      BY <3>1 DEF Chain, Needs
  <2>1. path'[i] = path[i] /\ path'[i + 1] = path[i + 1] /\ i \in 1..(L - 1)
    BY <1>1, <1>3
  <2> QED
    BY <2>1 DEF IInv, Chain
<1>11. FinishedWellFounded'
  <2> SUFFICES ASSUME NEW S \in SUBSET (Finished \cup {Top}), S # {}
               PROVE  \E n \in S : Needs(n) \cap S = {}
    BY <1>7 DEF FinishedWellFounded
  <2>1. CASE S \ {Top} = {}
    BY <1>7, <1>8, <2>1
  <2>2. CASE S \ {Top} # {}
    <3>1. PICK n \in S \ {Top} : Needs(n) \cap (S \ {Top}) = {}
      BY <2>2 DEF IInv, FinishedWellFounded
    <3>2. Needs(n) \subseteq Finished
      BY <3>1 DEF IInv, Explored
    <3> QED
      BY <1>7, <3>1, <3>2
  <2> QED
    BY <2>1, <2>2
<1>12. RootsVisited'
  BY <1>2, <1>4 DEF IInv, RootsVisited
<1>13. Answer' /\ CycleIsShown'
  BY <1>1, <1>2 DEF Answer, CycleIsShown
<1> QED
  BY <1>6, <1>9, <1>10, <1>11, <1>12, <1>13 DEF IInv

\* A dependency on the path closes a cycle.
LEMMA CycleFoundIInv == ASSUME IInv, CycleFound PROVE IInv'
<1> DEFINE L == Len(path)
           d == Dependency
           s == ShownFrom
           shown == SubSeq(path, s, L)
<1>1. /\ TypeOK
      /\ L \in Nat \ {0}
      /\ Top \in Nodes /\ Top = path[L]
      /\ d \in Nodes /\ d \in Needs(Top)
      /\ result = "searching"
  BY LookingFacts DEF CycleFound, Top
<1>2. /\ mark[d] = 1
      /\ result' = "cycle"
      /\ cycle' = Append(shown, d)
      /\ UNCHANGED <<dependsOn, mark, path, look, root>>
  BY DEF CycleFound, OnPath
<1>3. s \in 1..L /\ path[s] = d
  <2>1. \E i \in 1..L : path[i] = d
    BY <1>1, <1>2 DEF TypeOK
  <2>2. DOMAIN path = 1..L
    BY <1>1, LenProperties DEF TypeOK
  <2> QED
    BY <2>1, <2>2 DEF ShownFrom
<1>4. \A i \in 1..L : path[i] \in Nodes
  BY <1>1, ElementOfSeq DEF TypeOK
<1>5. /\ shown \in Seq(Nodes)
      /\ Len(shown) = L - s + 1
      /\ \A i \in 1..(L - s + 1) : shown[i] = path[s + i - 1]
  BY <1>1, <1>3, <1>4, SubSeqProperties
<1>6. /\ cycle' \in Seq(Nodes)
      /\ Len(cycle') = L - s + 2
      /\ \A i \in 1..(L - s + 1) : cycle'[i] = path[s + i - 1]
      /\ cycle'[L - s + 2] = d
  BY <1>1, <1>2, <1>3, <1>5
<1>7. TypeOK'
  BY <1>1, <1>2, <1>6 DEF TypeOK
<1>8. Explored' /\ Chain' /\ FinishedWellFounded'
  BY <1>2, SearchUnchanged DEF IInv
<1>9. RootsVisited'
  BY <1>2 DEF IInv, RootsVisited
<1>10. \A i \in s..L : \E m \in s..L : path[m] \in Needs(path[i])
  <2> SUFFICES ASSUME NEW i \in s..L
               PROVE  \E m \in s..L : path[m] \in Needs(path[i])
    OBVIOUS
  <2>1. CASE i = L
    BY <1>1, <1>3, <2>1
  <2>2. CASE i # L
    BY <1>1, <1>3, <2>2 DEF IInv, Chain
  <2> QED
    BY <2>1, <2>2
<1>11. ~WellFounded
  <2> DEFINE S == {path[i] : i \in s..L}
  <2>1. S \in SUBSET Nodes /\ S # {}
    BY <1>1, <1>3, <1>4
  <2>2. \A n \in S : Needs(n) \cap S # {}
    BY <1>10
  <2> QED
    BY <2>1, <2>2 DEF WellFounded
<1>12. Answer'
  <2>1. ~WellFounded'
    <3>1. \A n : Needs(n)' = Needs(n)
      BY <1>2 DEF Needs
    <3> QED
      BY <1>11, <3>1 DEF WellFounded
  <2> QED
    BY <1>2, <2>1 DEF Answer
<1>13. CycleIsShown'
  <2>1. Len(cycle') > 1 /\ cycle'[1] = cycle'[Len(cycle')]
    BY <1>1, <1>3, <1>6
  <2>2. ASSUME NEW i \in 1..(L - s + 1)
        PROVE  cycle'[i + 1] \in Needs(cycle'[i])
    <3>1. cycle'[i] = path[s + i - 1]
      BY <1>6
    <3>2. CASE i = L - s + 1
      BY <1>1, <1>3, <1>6, <3>1, <3>2
    <3>3. CASE i < L - s + 1
      <4>1. cycle'[i + 1] = path[s + i]
        BY <1>1, <1>3, <1>6, <3>3
      <4>2. s + i - 1 \in 1..(L - 1)
        BY <1>1, <1>3, <3>3
      <4>3. path[(s + i - 1) + 1] \in Needs(path[s + i - 1])
        BY <4>2 DEF IInv, Chain
      <4> QED
        BY <1>1, <1>3, <3>1, <4>1, <4>3
    <3> QED
      BY <1>1, <1>3, <3>2, <3>3
  <2>3. dependsOn' = dependsOn /\ 1..(Len(cycle') - 1) = 1..(L - s + 1)
    BY <1>1, <1>2, <1>3, <1>6
  <2> QED
    BY <2>1, <2>2, <2>3 DEF CycleIsShown, Needs
<1> QED
  BY <1>7, <1>8, <1>9, <1>12, <1>13 DEF IInv

\* A step that changes nothing.
LEMMA StutterIInv == ASSUME IInv, UNCHANGED vars PROVE IInv'
<1>1. TypeOK' /\ RootsVisited'
  BY DEF IInv, TypeOK, RootsVisited, vars
<1>2. Explored' /\ Chain' /\ FinishedWellFounded'
  BY SearchUnchanged DEF IInv, vars
<1>3. Answer'
  <2>1. result' = result /\ dependsOn' = dependsOn /\ mark' = mark
    BY DEF vars
  <2>2. Finished' = Finished
    BY <2>1 DEF Finished
  <2>3. WellFounded' = WellFounded
    BY <2>1 DEF WellFounded, Needs
  <2> QED
    BY <2>1, <2>2, <2>3 DEF IInv, Answer
<1>4. CycleIsShown'
  BY DEF IInv, CycleIsShown, Needs, vars
<1> QED
  BY <1>1, <1>2, <1>3, <1>4 DEF IInv

\* Every state of the search has the inductive invariant, whatever the file it searches.
THEOREM SearchInvariant == Spec => []IInv
<1>1. Init => IInv
  BY InitIInv
<1>2. IInv /\ [Next]_vars => IInv'
  <2> SUFFICES ASSUME IInv, [Next]_vars PROVE IInv'
    OBVIOUS
  <2>1. CASE NextRoot
    BY <2>1, NextRootIInv
  <2>2. CASE NoCycle
    BY <2>2, NoCycleIInv
  <2>3. CASE CycleFound
    BY <2>3, CycleFoundIInv
  <2>4. CASE VisitDependency
    BY <2>4, VisitDependencyIInv
  <2>5. CASE PassDependency
    BY <2>5, PassDependencyIInv
  <2>6. CASE Return
    BY <2>6, ReturnIInv
  <2>7. CASE UNCHANGED vars
    BY <2>7, StutterIInv
  <2> QED
    BY <2>1, <2>2, <2>3, <2>4, <2>5, <2>6, <2>7 DEF Next
<1> QED
  BY <1>1, <1>2, PTL DEF Spec

\* Whatever the file, the search accepts it only if among any of its services one needs none of
\* the others, and refuses it only if not: what the service manager assumes of its configuration.
THEOREM SearchIsRight == Spec => []AnswerIsRight
<1>1. IInv => AnswerIsRight
  BY DEF IInv, Answer, AnswerIsRight, FinishedWellFounded, WellFounded
<1> QED
  BY <1>1, SearchInvariant, PTL

\* The cycle the user is shown is one, in whatever file it was found.
THEOREM ShownCycleIsReal == Spec => []CycleIsShown
<1>1. IInv => CycleIsShown
  BY DEF IInv
<1> QED
  BY <1>1, SearchInvariant, PTL

----------------------------------------------------------------------------
(* Numbers and texts *)

\* Every nonempty set of natural numbers has a least element.
LEMMA LeastNatural ==
  ASSUME NEW T \in SUBSET Nat, T # {}
  PROVE  \E x \in T : \A y \in T : x <= y
<1>1. IsWellFoundedOn(OpToRel(<,Nat), Nat)
  BY NatLessThanWellFounded
<1>2. PICK x \in T : \A y \in T : ~ (<<y, x>> \in OpToRel(<,Nat))
  BY <1>1, WFMin, Zenon
<1>3. \A y \in T : ~ (y < x)
  BY <1>2 DEF OpToRel
<1>4. QED
  BY <1>3

\* Min is the least element, where there is one.
LEMMA MinIs ==
  ASSUME NEW T \in SUBSET Nat, T # {}
  PROVE  Min(T) \in T /\ \A y \in T : Min(T) <= y
BY LeastNatural, Zenon DEF Min

\* Numbers that have a bound have a greatest: the least bound of them.
LEMMA MaxIs ==
  ASSUME NEW T \in SUBSET Nat, T # {}, NEW bound \in Nat, \A y \in T : y <= bound
  PROVE  Max(T) \in T /\ \A y \in T : Max(T) >= y
<1> DEFINE Bounds == {b \in Nat : \A y \in T : y <= b}
<1>1. Bounds \in SUBSET Nat /\ bound \in Bounds
  OBVIOUS
<1>2. PICK b \in Bounds : \A c \in Bounds : b <= c
  <2> HIDE DEF Bounds
  <2>1. QED
    BY <1>1, LeastNatural
<1>3. b \in Nat /\ \A y \in T : y <= b
  OBVIOUS
<1>4. b \in T
  <2>1. SUFFICES ASSUME b \notin T
                 PROVE  FALSE
    OBVIOUS
  <2>2. \A y \in T : y \in Nat /\ y <= b /\ y # b
    BY <1>3, <2>1
  <2>3. b - 1 \in Nat /\ \A y \in T : y <= b - 1
    <3>1. PICK y \in T : TRUE
      OBVIOUS
    <3>2. b \in Nat /\ b # 0
      BY <1>3, <2>2, <3>1
    <3>3. QED
      BY <2>2, <3>2
  <2>4. b - 1 \in Bounds
    BY <2>3
  <2>5. b <= b - 1
    BY <1>2, <2>4
  <2>6. QED
    BY <1>3, <2>5
<1>5. \E x \in T : \A y \in T : x >= y
  BY <1>3, <1>4
<1>6. QED
  BY <1>5, Zenon DEF Max

\* A sequence of anything is a text.
LEMMA TextIs ==
  ASSUME NEW T, NEW text \in Seq(T)
  PROVE  IsText(text)
<1>1. Len(text) \in Nat /\ text \in [1..Len(text) -> T] /\ DOMAIN text = 1..Len(text)
  BY LenProperties
<1>2. text \in [1..Len(text) -> ToSet(text)]
  BY <1>1 DEF ToSet
<1>3. QED
  BY <1>1, <1>2, SeqDef DEF IsText

\* What a text is.
LEMMA TextFacts ==
  ASSUME NEW text, IsText(text)
  PROVE  /\ Len(text) \in Nat
         /\ DOMAIN text = 1..Len(text)
         /\ text \in Seq(ToSet(text))
         /\ text \in [1..Len(text) -> ToSet(text)]
BY LenProperties DEF IsText

\* The text with nothing in it.
LEMMA EmptyText == IsText(<<>>) /\ Len(<<>>) = 0 /\ DOMAIN <<>> = {}
<1>1. <<>> \in Seq({}) /\ Len(<<>>) = 0
  BY EmptySeq
<1>2. IsText(<<>>)
  BY <1>1, TextIs
<1>3. DOMAIN <<>> = 1..0
  BY <1>1, <1>2, TextFacts
<1>4. QED
  BY <1>1, <1>2, <1>3

\* A part of a text is one.
LEMMA PartIs ==
  ASSUME NEW text, IsText(text), NEW m \in Int, NEW n \in Int, m > 0, n <= Len(text)
  PROVE  IsText(SubSeq(text, m, n))
<1>1. Len(text) \in Nat /\ DOMAIN text = 1..Len(text)
  BY TextFacts
<1>2. \A i \in m..n : text[i] \in ToSet(text)
  <2>1. \A i \in m..n : i \in DOMAIN text
    BY <1>1
  <2>2. QED
    BY <2>1 DEF ToSet
<1>3. SubSeq(text, m, n) \in Seq(ToSet(text))
  BY <1>2, SubSeqProperties
<1>4. QED
  BY <1>3, TextIs

\* A first position is in the text or just behind it.
LEMMA FirstOfIs ==
  ASSUME NEW text, IsText(text), NEW positions \in SUBSET DOMAIN text
  PROVE  FirstOf(positions, text) \in 1..Len(text) + 1
<1> DEFINE T == positions \cup {Len(text) + 1}
<1>1. Len(text) \in Nat /\ DOMAIN text = 1..Len(text)
  BY TextFacts
<1>2. T \subseteq 1..Len(text) + 1 /\ T # {} /\ T \subseteq Nat
  BY <1>1
<1> HIDE DEF T
<1>3. Min(T) \in T
  BY <1>2, MinIs
<1>4. QED
  BY <1>2, <1>3 DEF FirstOf, T

\* Trimming leaves a part.
LEMMA TrimIs ==
  ASSUME NEW text, IsText(text)
  PROVE  IsText(Trim(text))
<1> DEFINE kept == {i \in DOMAIN text : ~IsBlank(text[i])}
           T == kept \cup {0}
<1>1. Len(text) \in Nat /\ DOMAIN text = 1..Len(text)
  BY TextFacts
<1>2. kept \subseteq DOMAIN text
  OBVIOUS
<1>3. Trim(text) = SubSeq(text, FirstOf(kept, text), Max(T))
  BY DEF Trim
<1> HIDE DEF kept
<1>4. FirstOf(kept, text) \in 1..Len(text) + 1
  BY <1>2, FirstOfIs
<1>5. T \subseteq Nat /\ T # {} /\ \A y \in T : y <= Len(text)
  BY <1>1, <1>2
<1> HIDE DEF T
<1>6. Max(T) \in T
  BY <1>1, <1>5, MaxIs
<1>7. Max(T) \in Nat /\ Max(T) <= Len(text)
  BY <1>5, <1>6
<1>8. QED
  BY <1>1, <1>3, <1>4, <1>7, PartIs

\* Cutting a comment off leaves a part.
LEMMA CutIs ==
  ASSUME NEW text, IsText(text), NEW from
  PROVE  IsText(CutAtComment(text, from))
<1> DEFINE marks == {i \in DOMAIN text : i >= from /\ StartsComment(text, i)}
           first == FirstOf(marks, text)
<1>1. Len(text) \in Nat
  BY TextFacts
<1>2. first \in 1..Len(text) + 1
  <2>1. marks \subseteq DOMAIN text
    OBVIOUS
  <2> HIDE DEF marks
  <2>2. QED
    BY <2>1, FirstOfIs
<1>3. CutAtComment(text, from) = SubSeq(text, 1, first - 1)
  BY DEF CutAtComment
<1> HIDE DEF first
<1>4. first - 1 \in Int /\ first - 1 <= Len(text)
  BY <1>1, <1>2
<1>5. QED
  BY <1>3, <1>4, PartIs

\* A list has finitely many items.
LEMMA ListIs ==
  ASSUME NEW text, IsText(text)
  PROVE  IsText(SplitList(text))
<1> DEFINE IsBreak(i) == i \in {0, Len(text) + 1} \/ text[i] \in {",", " "}
           Starts == {i \in DOMAIN text : ~IsBreak(i) /\ IsBreak(i - 1)}
           n == Cardinality(Starts)
           list == SplitList(text)
<1>1. Len(text) \in Nat /\ DOMAIN text = 1..Len(text)
  BY TextFacts
<1>2. n \in Nat
  <2>1. IsFiniteSet(1..Len(text))
    BY <1>1, FS_Interval
  <2>2. Starts \subseteq 1..Len(text)
    BY <1>1
  <2> HIDE DEF Starts
  <2>3. QED
    BY <2>1, <2>2, FS_Subset, FS_CardinalityType
<1>3. list = [k \in 1..n |-> list[k]] 
  BY DEF SplitList
<1> HIDE DEF n, list
<1>4. list \in Seq({list[k] : k \in 1..n})
  BY <1>2, <1>3
<1>5. QED
  BY <1>4, TextIs DEF list

----------------------------------------------------------------------------
(* Services *)

\* What every service is that the reader keeps.
IsService(s) ==
  /\ DOMAIN s = DOMAIN BuiltInService
  /\ s.restartDelay \in 0..MaxDuration
  /\ s.restartDelayMax \in 0..MaxDuration
  /\ s.restartWindow \in 1..MaxWindow
  /\ s.heartbeatTolerance \in 1..MaxCount
  /\ IsText(s.dependsOn)

\* What a value must be for a service to stay one.
Suits(key, value) ==
  /\ key \in {"restart_delay_ms", "restart_delay_max_ms"} => value \in 0..MaxDuration
  /\ key = "restart_window_s" => value \in 1..MaxWindow
  /\ key = "heartbeat_tolerance" => value \in 1..MaxCount
  /\ key = "depends_on" => IsText(value)

\* What is read suits.
LEMMA ValueSuits ==
  ASSUME NEW key, NEW value, key = "depends_on" => IsText(value), ReadValue(key, value) # Unparsed
  PROVE  Suits(key, ReadValue(key, value))
<1> DEFINE text == Trim(StripInlineComment(value, key \in {"args", "env"}))
           read == ReadValue(key, value)
<1>1. DOMAIN NumberRange = {"restart_delay_ms", "restart_delay_max_ms", "start_grace_ms", "stop_timeout_ms",
        "heartbeat_interval_ms", "heartbeat_tolerance", "max_restarts", "restart_window_s", "publish_interval_ms"}
  BY DEF NumberRange
<1>2. ASSUME key \in DOMAIN NumberRange
      PROVE  read \in NumberRange[key]
  <2>1. read = ReadNumber(key, value)
    BY <1>1, <1>2 DEF ReadValue, Words, Endpoints
  <2>2. read # Unparsed
    OBVIOUS
  <2> HIDE DEF read
  <2>3. QED
    BY <2>1, <2>2 DEF ReadNumber
<1>3. /\ NumberRange["restart_delay_ms"] = 0..MaxDuration
      /\ NumberRange["restart_delay_max_ms"] = 0..MaxDuration
      /\ NumberRange["restart_window_s"] = 1..MaxWindow
      /\ NumberRange["heartbeat_tolerance"] = 1..MaxCount
  BY DEF NumberRange
<1>4. ASSUME key = "depends_on"
      PROVE  IsText(read)
  <2>1. IsText(StripAfterQuote(value))
    BY <1>4, CutIs DEF StripAfterQuote
  <2>2. text = Trim(StripAfterQuote(value))
    BY <1>4 DEF StripInlineComment
  <2>3. IsText(text)
    BY <2>1, <2>2, TrimIs
  <2>4. read = SplitList(text)
    BY <1>1, <1>4 DEF ReadValue, Words, Endpoints
  <2>5. QED
    BY <2>3, <2>4, ListIs
<1> HIDE DEF read
<1>5. Suits(key, read)
  BY <1>1, <1>2, <1>3, <1>4 DEF Suits
<1>6. QED
  BY <1>5 DEF read

\* The fields that the keys set.
LEMMA FieldsAre ==
  ASSUME NEW key \in DOMAIN ServiceField
  PROVE  /\ key \notin DOMAIN ManagerField
         /\ ServiceField[key] \in DOMAIN BuiltInService \ {"name"}
         /\ ServiceField[key] = "restartDelay" => key = "restart_delay_ms"
         /\ ServiceField[key] = "restartDelayMax" => key = "restart_delay_max_ms"
         /\ ServiceField[key] = "restartWindow" => key = "restart_window_s"
         /\ ServiceField[key] = "heartbeatTolerance" => key = "heartbeat_tolerance"
         /\ ServiceField[key] = "dependsOn" => key = "depends_on"
BY DEF ServiceField, ManagerField, BuiltInService

\* A service stays one whatever key is set.
LEMMA WithIs ==
  ASSUME NEW s, IsService(s), NEW key \in DOMAIN ServiceField, NEW value, Suits(key, value)
  PROVE  IsService(With(s, key, value)) /\ With(s, key, value).name = s.name
<1> DEFINE field == ServiceField[key]
           t == With(s, key, value)
<1>1. /\ field \in DOMAIN BuiltInService /\ field # "name" /\ key \notin DOMAIN ManagerField
      /\ field = "restartDelay" => key = "restart_delay_ms"
      /\ field = "restartDelayMax" => key = "restart_delay_max_ms"
      /\ field = "restartWindow" => key = "restart_window_s"
      /\ field = "heartbeatTolerance" => key = "heartbeat_tolerance"
      /\ field = "dependsOn" => key = "depends_on"
  BY FieldsAre
<1>2. {"name", "restartDelay", "restartDelayMax", "restartWindow", "heartbeatTolerance", "dependsOn", "environment",
       "output", "outputPath"} \subseteq DOMAIN s
  BY DEF IsService, BuiltInService
<1>3. CASE key = "env"
  <2> DEFINE longer == Append(s.environment, value)
  <2>1. t = [s EXCEPT !.environment = longer]
    BY <1>1, <1>3 DEF With
  <2> HIDE DEF longer, t
  <2>2. DOMAIN t = DOMAIN s
    BY <2>1
  <2>3. \A f \in DOMAIN s : f # "environment" => t[f] = s[f]
    BY <2>1
  <2>4. QED
    BY <1>2, <2>2, <2>3 DEF IsService, t
<1>4. CASE key = "output"
  <2> DEFINE mode == value.mode
             place == IF value.mode = "file" THEN value.path ELSE s.outputPath
  <2>1. t = [s EXCEPT !.output = mode, !.outputPath = place]
    BY <1>1, <1>2, <1>4 DEF With
  <2> HIDE DEF mode, place, t
  <2>2. DOMAIN t = DOMAIN s
    BY <2>1
  <2>3. \A f \in DOMAIN s : f \notin {"output", "outputPath"} => t[f] = s[f]
    BY <2>1
  <2>4. QED
    BY <1>2, <2>2, <2>3 DEF IsService, t
<1>5. CASE key \notin {"env", "output"}
  <2>1. t = [s EXCEPT ![field] = value]
    BY <1>1, <1>5 DEF With
  <2> HIDE DEF field, t
  <2>2. DOMAIN t = DOMAIN s
    BY <2>1
  <2>3. \A f \in DOMAIN s : t[f] = IF f = field THEN value ELSE s[f]
    BY <2>1
  <2>4. QED
    BY <1>1, <1>2, <2>2, <2>3 DEF IsService, Suits, t
<1>6. QED
  BY <1>3, <1>4, <1>5

----------------------------------------------------------------------------
(* The lines *)

\* What the reader keeps while it reads.
IsState(s) ==
  /\ DOMAIN s = DOMAIN EmptyState
  /\ IsService(s.defaults)
  /\ IsText(s.services)
  /\ \A i \in DOMAIN s.services : IsService(s.services[i]) /\ IsValidServiceName(s.services[i].name)
  /\ \A i, j \in DOMAIN s.services : s.services[i].name = s.services[j].name => i = j
  /\ s.section \in {"none", "manager", "defaults", "service"}
  /\ s.section = "service" => s.services # <<>>

\* The headers of services among the first lines.
HeadersBefore(n) == {h \in HeadersNamed("service") : h < n}

Parsed ==
  /\ phase \in {"open", "lines", "cycles", "done"}
  /\ at \in Nat /\ at > 0 /\ at <= Len(file) + 1
  /\ IsFile
  /\ IsState(state)
  /\ IsFiniteSet(HeadersBefore(at))
  /\ Cardinality(HeadersBefore(at)) = Len(state.services)

\* The search has not begun.
Resting == phase \in {"open", "lines"} => Begin([n \in Nodes |-> <<>>])

\* What has been looked at before the search, and what it searches.
Checked ==
  phase = "cycles" \/ Accepted =>
    /\ Faulty = {}
    /\ DOMAIN state.services \subseteq Nodes
    /\ dependsOn = Resolved

Ended ==
  Accepted =>
    /\ out = [manager |-> state.manager, services |-> state.services]
    /\ result = "none"
    /\ EndpointsDiffer

\* The inductive invariant of what is accepted.
ReaderInv == Parsed /\ IInv /\ Resting /\ Checked /\ Ended

\* A refusal ends the reading.
LEMMA RefuseKeeps ==
  ASSUME ReaderInv, NEW code, code # "Ok", NEW line, Refuse(code, line)
  PROVE  ReaderInv'
<1>1. /\ error' = [code |-> code, line |-> line] /\ phase' = "done"
      /\ UNCHANGED <<file, at, state, out, vars>>
  BY DEF Refuse
<1>2. Parsed'
  BY <1>1 DEF ReaderInv, Parsed, IsFile, HeadersBefore, HeadersNamed
<1>3. IInv'
  BY <1>1, StutterIInv DEF ReaderInv
<1>4. ~Accepted' /\ phase' = "done"
  BY <1>1 DEF Accepted
<1>5. Resting' /\ Checked' /\ Ended'
  BY <1>4 DEF Resting, Checked, Ended
<1>6. QED
  BY <1>2, <1>3, <1>5 DEF ReaderInv

\* The next line counts among those that are read.
LEMMA OneMoreLine ==
  ASSUME Parsed, at <= Len(file)
  PROVE  /\ at \in DOMAIN file
         /\ HeadersBefore(at + 1) =
              HeadersBefore(at) \cup (IF Line.kind = "section" /\ Line.word = "service" THEN {at} ELSE {})
         /\ at \notin HeadersBefore(at)
<1>1. /\ at \in Nat /\ at > 0 /\ Len(file) \in Nat /\ DOMAIN file = 1..Len(file)
  BY TextFacts DEF Parsed, IsFile
<1>2. at \in DOMAIN file
  BY <1>1
<1>3. \A h \in DOMAIN file : h \in Nat /\ (h < at + 1 <=> h < at \/ h = at)
  BY <1>1
<1>4. QED
  BY <1>1, <1>2, <1>3 DEF HeadersBefore, HeadersNamed, Line

\* A line that is taken leaves a state behind, with a service more if it is the header of one.
LEMMA AcceptKeeps ==
  ASSUME ReaderInv, phase = "lines", at <= Len(file), NEW s, IsState(s),
         Line.kind = "section" /\ Line.word = "service" => Len(s.services) = Len(state.services) + 1,
         ~(Line.kind = "section" /\ Line.word = "service") => Len(s.services) = Len(state.services),
         Accept(s)
  PROVE  ReaderInv'
<1> DEFINE isHeader == Line.kind = "section" /\ Line.word = "service"
<1>1. state' = s /\ at' = at + 1 /\ UNCHANGED <<file, phase, error, out, vars>>
  BY DEF Accept
<1>2. /\ at \in DOMAIN file
      /\ HeadersBefore(at + 1) = HeadersBefore(at) \cup (IF isHeader THEN {at} ELSE {})
      /\ at \notin HeadersBefore(at)
  BY OneMoreLine DEF ReaderInv
<1>3. at \in Nat /\ at > 0 /\ Len(file) \in Nat
  BY TextFacts DEF ReaderInv, Parsed, IsFile
<1>4. IsFiniteSet(HeadersBefore(at)) /\ Cardinality(HeadersBefore(at)) = Len(state.services)
  BY DEF ReaderInv, Parsed
<1>5. IsFiniteSet(HeadersBefore(at + 1)) /\ Cardinality(HeadersBefore(at + 1)) = Len(s.services)
  <2> DEFINE H == HeadersBefore(at)
             N == HeadersBefore(at + 1)
  <2>1. CASE isHeader
    <3>1. N = H \cup {at} /\ at \notin H
      BY <1>2, <2>1
    <3>2. Len(s.services) = Len(state.services) + 1
      BY <2>1
    <3>3. IsFiniteSet(H) /\ Cardinality(H) = Len(state.services)
      BY <1>4
    <3> HIDE DEF H, N
    <3>4. IsFiniteSet(N) /\ Cardinality(N) = Cardinality(H) + 1
      BY <3>1, <3>3, FS_AddElement
    <3>5. QED
      BY <3>2, <3>3, <3>4 DEF N
  <2>2. CASE ~isHeader
    <3>1. N = H
      BY <1>2, <2>2
    <3>2. Len(s.services) = Len(state.services)
      BY <2>2, Zenon
    <3>3. QED
      BY <1>4, <3>1, <3>2
  <2>3. QED
    BY <2>1, <2>2
<1>6. HeadersBefore(at)' = HeadersBefore(at + 1)
  BY <1>1 DEF HeadersBefore, HeadersNamed
<1>7. at' \in Nat /\ at' > 0 /\ at' <= Len(file') + 1
  BY <1>1, <1>3
<1>8. Parsed'
  BY <1>1, <1>5, <1>6, <1>7 DEF ReaderInv, Parsed, IsFile, HeadersNamed
<1>9. IInv'
  BY <1>1, StutterIInv DEF ReaderInv
<1>10. phase' = "lines" /\ ~Accepted'
  BY <1>1 DEF Accepted
<1>11. Resting'
  BY <1>1 DEF ReaderInv, Resting, Begin, vars
<1>12. Checked' /\ Ended'
  BY <1>10 DEF Checked, Ended
<1>13. QED
  BY <1>8, <1>9, <1>11, <1>12 DEF ReaderInv

\* A longer text.
LEMMA LongerIs ==
  ASSUME NEW text, IsText(text), NEW x
  PROVE  /\ IsText(Append(text, x))
         /\ Len(Append(text, x)) = Len(text) + 1
         /\ DOMAIN Append(text, x) = 1..Len(text) + 1
         /\ \A i \in 1..Len(text) : Append(text, x)[i] = text[i]
         /\ Append(text, x)[Len(text) + 1] = x
<1> DEFINE T == ToSet(text) \cup {x}
<1>1. text \in Seq(ToSet(text)) /\ Len(text) \in Nat
  BY TextFacts
<1>2. text \in Seq(T)
  BY <1>1
<1> HIDE DEF T
<1>3. Append(text, x) \in Seq(T)
  BY <1>2 DEF T
<1>4. IsText(Append(text, x))
  BY <1>3, TextIs
<1>5. /\ Len(Append(text, x)) = Len(text) + 1
      /\ DOMAIN Append(text, x) = 1..Len(text) + 1
      /\ \A i \in 1..Len(text) : Append(text, x)[i] = text[i]
      /\ Append(text, x)[Len(text) + 1] = x
  BY <1>1, <1>2, AppendProperties DEF T
<1>6. QED
  BY <1>4, <1>5

\* The parts of a parse state.
LEMMA StateParts ==
  DOMAIN EmptyState = {"manager", "services", "defaults", "section", "seenKeys", "managerSeen", "defaultsSeen",
                       "serviceLines", "dependencyLines"}
BY DEF EmptyState

\* A blank line changes nothing.
LEMMA BlankLineInv == ASSUME ReaderInv, BlankLine PROVE ReaderInv'
<1>1. phase = "lines" /\ at <= Len(file) /\ Line.kind = "blank" /\ Accept(state)
  BY DEF BlankLine, AtLine
<1>2. IsState(state)
  BY DEF ReaderInv, Parsed
<1>3. QED
  BY <1>1, <1>2, AcceptKeeps

\* The header of the manager, or of the defaults: the services stay.
LEMMA OpenedKeeps ==
  ASSUME ReaderInv, AtLine("section"), Line.word # "service", NEW s, Accept(s), DOMAIN s = DOMAIN state,
         s.services = state.services, s.defaults = state.defaults, s.section \in {"manager", "defaults"}
  PROVE  ReaderInv'
<1>1. phase = "lines" /\ at <= Len(file) /\ Line.kind = "section"
  BY DEF AtLine
<1>2. IsState(s)
  BY DEF ReaderInv, Parsed, IsState
<1>3. QED
  BY <1>1, <1>2, AcceptKeeps

\* The header of the manager, once.
LEMMA OpenManagerInv == ASSUME ReaderInv, OpenManager PROVE ReaderInv'
<1>1. CASE state.managerSeen
  <2>1. Refuse("DuplicateKey", at)
    BY <1>1 DEF OpenManager
  <2>2. QED
    BY <2>1, RefuseKeeps
<1>2. CASE ~state.managerSeen
  <2> DEFINE s == [Opened("manager") EXCEPT !.managerSeen = TRUE]
  <2>1. Accept(s) /\ AtLine("section") /\ Line.word # "service"
    BY <1>2 DEF OpenManager
  <2>2. DOMAIN state = DOMAIN EmptyState
    BY DEF ReaderInv, Parsed, IsState
  <2>3. /\ DOMAIN s = DOMAIN state
        /\ s.services = state.services
        /\ s.defaults = state.defaults
        /\ s.section \in {"manager", "defaults"}
    BY <2>2, StateParts DEF Opened
  <2> HIDE DEF s
  <2>4. QED
    BY <2>1, <2>3, OpenedKeeps
<1>3. QED
  BY <1>1, <1>2

\* The header of the defaults, once and before the services.
LEMMA OpenDefaultsInv == ASSUME ReaderInv, OpenDefaults PROVE ReaderInv'
<1>1. CASE state.services # <<>>
  <2>1. Refuse("Syntax", at)
    BY <1>1 DEF OpenDefaults
  <2>2. QED
    BY <2>1, RefuseKeeps
<1>2. CASE state.services = <<>> /\ state.defaultsSeen
  <2>1. Refuse("DuplicateKey", at)
    BY <1>2 DEF OpenDefaults
  <2>2. QED
    BY <2>1, RefuseKeeps
<1>3. CASE state.services = <<>> /\ ~state.defaultsSeen
  <2> DEFINE s == [Opened("defaults") EXCEPT !.defaultsSeen = TRUE]
  <2>1. Accept(s) /\ AtLine("section") /\ Line.word # "service"
    BY <1>3 DEF OpenDefaults
  <2>2. DOMAIN state = DOMAIN EmptyState
    BY DEF ReaderInv, Parsed, IsState
  <2>3. /\ DOMAIN s = DOMAIN state
        /\ s.services = state.services
        /\ s.defaults = state.defaults
        /\ s.section \in {"manager", "defaults"}
    BY <2>2, StateParts DEF Opened
  <2> HIDE DEF s
  <2>4. QED
    BY <2>1, <2>3, OpenedKeeps
<1>4. QED
  BY <1>1, <1>2, <1>3

\* A new service is the defaults under a name.
LEMMA NewServiceIs ==
  ASSUME IsState(state), NEW name
  PROVE  IsService(NewService(name)) /\ NewService(name).name = name
<1> DEFINE s == NewService(name)
<1>1. IsService(state.defaults) /\ s = [state.defaults EXCEPT !.name = name]
  BY DEF IsState, NewService
<1> HIDE DEF s
<1>2. {"name", "restartDelay", "restartDelayMax", "restartWindow", "heartbeatTolerance", "dependsOn"}
        \subseteq DOMAIN state.defaults
  BY <1>1 DEF IsService, BuiltInService
<1>3. DOMAIN s = DOMAIN state.defaults /\ s.name = name
  BY <1>1, <1>2
<1>4. \A f \in DOMAIN state.defaults : f # "name" => s[f] = state.defaults[f]
  BY <1>1
<1>5. QED
  BY <1>1, <1>2, <1>3, <1>4 DEF IsService, s

\* The header of a service takes a valid name that no service has.
LEMMA OpenServiceInv == ASSUME ReaderInv, OpenService PROVE ReaderInv'
<1>1. CASE ~IsValidServiceName(Line.name)
  <2>1. Refuse("InvalidName", at)
    BY <1>1 DEF OpenService
  <2>2. QED
    BY <2>1, RefuseKeeps
<1>2. CASE IsValidServiceName(Line.name) /\ AlreadyNamed(Line.name)
  <2>1. Refuse("DuplicateService", at)
    BY <1>2 DEF OpenService
  <2>2. QED
    BY <2>1, RefuseKeeps
<1>3. CASE IsValidServiceName(Line.name) /\ ~AlreadyNamed(Line.name)
  <2> DEFINE new == NewService(Line.name)
             more == Append(state.services, new)
             s == [Opened("service") EXCEPT !.services = Append(@, new),
                                            !.serviceLines = Append(@, at),
                                            !.dependencyLines = Append(@, 0)]
  <2>1. Accept(s) /\ AtLine("section") /\ Line.word = "service"
    BY <1>3 DEF OpenService
  <2>2. phase = "lines" /\ at <= Len(file) /\ Line.kind = "section"
    BY <2>1 DEF AtLine
  <2>3. IsState(state) /\ DOMAIN state = DOMAIN EmptyState /\ IsText(state.services)
    BY DEF ReaderInv, Parsed, IsState
  <2>4. /\ DOMAIN s = DOMAIN state
        /\ s.services = more
        /\ s.defaults = state.defaults
        /\ s.section = "service"
    BY <2>3, StateParts DEF Opened
  <2>5. IsService(new) /\ new.name = Line.name
    BY <2>3, NewServiceIs
  <2> HIDE DEF new, s
  <2>6. /\ IsText(more) /\ Len(more) = Len(state.services) + 1
        /\ DOMAIN more = 1..Len(state.services) + 1
        /\ \A i \in 1..Len(state.services) : more[i] = state.services[i]
        /\ more[Len(state.services) + 1] = new
    BY <2>3, LongerIs
  <2>7. Len(state.services) \in Nat /\ DOMAIN state.services = 1..Len(state.services)
    BY <2>3, TextFacts
  <2> DEFINE n == Len(state.services)
  <2>8. \A i \in DOMAIN more : i = n + 1 \/ i \in DOMAIN state.services
    BY <2>6, <2>7
  <2>9. \A i \in DOMAIN state.services : state.services[i].name # Line.name
    BY <1>3 DEF AlreadyNamed, Named
  <2> HIDE DEF n, more
  <2>10. \A i \in DOMAIN more : IsService(more[i]) /\ IsValidServiceName(more[i].name)
    <3> SUFFICES ASSUME NEW i \in DOMAIN more
                 PROVE  IsService(more[i]) /\ IsValidServiceName(more[i].name)
      OBVIOUS
    <3>1. CASE i = n + 1
      <4>1. more[i] = new
        BY <2>6, <3>1 DEF n
      <4>2. QED
        BY <1>3, <2>5, <4>1
    <3>2. CASE i \in DOMAIN state.services
      <4>1. more[i] = state.services[i]
        BY <2>6, <2>7, <3>2
      <4>2. IsService(state.services[i]) /\ IsValidServiceName(state.services[i].name)
        BY <2>3, <3>2 DEF IsState
      <4>3. QED
        BY <4>1, <4>2
    <3>3. QED
      BY <2>8, <3>1, <3>2
  <2>11. \A i, j \in DOMAIN more : more[i].name = more[j].name => i = j
    <3> SUFFICES ASSUME NEW i \in DOMAIN more, NEW j \in DOMAIN more, more[i].name = more[j].name
                 PROVE  i = j
      OBVIOUS
    <3>1. \A k \in DOMAIN state.services : more[k] = state.services[k] /\ more[k].name # Line.name
      BY <2>6, <2>7, <2>9
    <3>2. \A k \in DOMAIN more : k = n + 1 => more[k].name = Line.name
      BY <2>5, <2>6 DEF n
    <3>3. CASE i \in DOMAIN state.services /\ j \in DOMAIN state.services
      <4>1. state.services[i].name = state.services[j].name
        BY <3>1, <3>3
      <4>2. QED
        BY <2>3, <3>3, <4>1 DEF IsState
    <3>4. CASE i = n + 1 \/ j = n + 1
      BY <2>8, <3>1, <3>2, <3>4
    <3>5. QED
      BY <2>8, <3>3, <3>4
  <2>12. more # <<>>
    BY <2>6, <2>7, EmptySeq
  <2>13. IsState(s)
    BY <2>3, <2>4, <2>6, <2>10, <2>11, <2>12 DEF IsState
  <2>14. Len(s.services) = Len(state.services) + 1
    BY <2>4, <2>6
  <2>15. QED
    BY <2>1, <2>2, <2>13, <2>14, AcceptKeeps
<1>4. QED
  BY <1>1, <1>2, <1>3

\* A file that cannot be read is refused.
LEMMA CannotReadInv == ASSUME ReaderInv, CannotRead PROVE ReaderInv'
BY RefuseKeeps DEF CannotRead

\* A line without its bracket or its equals sign is refused.
LEMMA BadLineInv == ASSUME ReaderInv, BadLine PROVE ReaderInv'
BY RefuseKeeps DEF BadLine

\* So is a section of another word.
LEMMA OpenUnknownInv == ASSUME ReaderInv, OpenUnknown PROVE ReaderInv'
BY RefuseKeeps DEF OpenUnknown

\* So is a key that is repeated, or not of the section.
LEMMA RefuseKeyInv == ASSUME ReaderInv, RefuseKey PROVE ReaderInv'
<1>1. KeyFault # "Ok" /\ Refuse(KeyFault, at)
  BY DEF RefuseKey
<1>2. QED
  BY <1>1, RefuseKeeps

\* A pair that is taken sets a value that suits.
LEMMA AppliedIs ==
  ASSUME IsState(state), NEW key \in Allowed(state.section), state.section # "none", NEW value, Suits(key, value)
  PROVE  IsState(Applied(key, value)) /\ Len(Applied(key, value).services) = Len(state.services)
<1> DEFINE s == Applied(key, value)
<1>1. /\ DOMAIN state = DOMAIN EmptyState
      /\ IsService(state.defaults)
      /\ IsText(state.services)
      /\ \A i \in DOMAIN state.services :
           IsService(state.services[i]) /\ IsValidServiceName(state.services[i].name)
      /\ \A i, j \in DOMAIN state.services : state.services[i].name = state.services[j].name => i = j
      /\ state.section \in {"manager", "defaults", "service"}
      /\ state.section = "service" => state.services # <<>>
  BY DEF IsState
<1>2. {"manager", "services", "defaults", "section", "dependencyLines"} \subseteq DOMAIN state
  BY <1>1, StateParts
<1>3. CASE state.section = "manager"
  <2> DEFINE new == With(state.manager, key, value)
  <2>1. s = [state EXCEPT !.manager = new]
    BY <1>2, <1>3 DEF Applied
  <2> HIDE DEF new, s
  <2>2. DOMAIN s = DOMAIN state /\ \A f \in DOMAIN state : f # "manager" => s[f] = state[f]
    BY <2>1
  <2>3. s.services = state.services /\ s.defaults = state.defaults /\ s.section = state.section
    BY <1>2, <2>2
  <2>4. QED
    BY <1>1, <2>2, <2>3 DEF IsState, s
<1>4. CASE state.section = "defaults"
  <2> DEFINE new == With(state.defaults, key, value)
  <2>1. key \in DOMAIN ServiceField
    BY <1>4 DEF Allowed
  <2>2. IsService(new)
    BY <1>1, <2>1, WithIs
  <2>3. s = [state EXCEPT !.defaults = new]
    BY <1>2, <1>4 DEF Applied
  <2> HIDE DEF new, s
  <2>4. DOMAIN s = DOMAIN state /\ \A f \in DOMAIN state : s[f] = IF f = "defaults" THEN new ELSE state[f]
    BY <2>3
  <2>5. s.services = state.services /\ s.defaults = new /\ s.section = state.section
    BY <1>2, <2>4
  <2>6. QED
    BY <1>1, <2>2, <2>4, <2>5 DEF IsState, s
<1>5. CASE state.section = "service"
  <2> DEFINE services == state.services
             n == Len(services)
             new == With(services[n], key, value)
             changed == [services EXCEPT ![n] = new]
             lines == [state.dependencyLines EXCEPT ![n] = IF key = "depends_on" THEN at ELSE @]
  <2>1. key \in DOMAIN ServiceField
    BY <1>5 DEF Allowed
  <2>2. /\ n \in Nat /\ DOMAIN services = 1..n
        /\ services \in Seq(ToSet(services)) /\ services \in [1..n -> ToSet(services)]
    BY <1>1, TextFacts
  <2>3. n \in DOMAIN services
    BY <1>1, <1>5, <2>2, EmptySeq
  <2>4. IsService(services[n])
    BY <1>1, <2>3
  <2>5. IsService(new) /\ new.name = services[n].name
    BY <2>1, <2>4, WithIs
  <2>6. s = [state EXCEPT !.services = changed, !.dependencyLines = lines]
    BY <1>2, <1>5 DEF Applied
  <2> HIDE DEF new, lines, s
  <2>7. /\ DOMAIN changed = 1..n
        /\ \A i \in 1..n : changed[i] = IF i = n THEN new ELSE services[i]
    BY <2>2
  <2> HIDE DEF changed
  <2>8. IsText(changed) /\ Len(changed) = n
    <3> DEFINE T == {changed[i] : i \in 1..n}
    <3>1. changed = [i \in 1..n |-> changed[i]]
      BY <2>2, <2>7 DEF changed
    <3>2. changed \in [1..n -> T]
      BY <3>1
    <3> HIDE DEF T
    <3>3. changed \in Seq(T)
      BY <2>2, <3>2, SeqDef
    <3>4. Len(changed) \in Nat /\ DOMAIN changed = 1..Len(changed)
      BY <3>3, LenProperties
    <3>5. Len(changed) = n
      BY <2>2, <2>7, <3>4
    <3>6. QED
      BY <3>3, <3>5, TextIs
  <2>9. DOMAIN s = DOMAIN state /\ s.services = changed /\ s.defaults = state.defaults /\ s.section = state.section
    BY <1>2, <2>6
  <2>10. \A i \in DOMAIN changed : IsService(changed[i]) /\ changed[i].name = services[i].name
    BY <1>1, <2>2, <2>5, <2>7
  <2>11. DOMAIN changed = DOMAIN services
    BY <2>2, <2>7
  <2>12. changed # <<>>
    BY <2>2, <2>3, <2>8, EmptySeq
  <2>13. \A i \in DOMAIN changed : IsValidServiceName(changed[i].name)
    BY <1>1, <2>10, <2>11
  <2>14. \A i, j \in DOMAIN changed : changed[i].name = changed[j].name => i = j
    BY <1>1, <2>10, <2>11
  <2> HIDE DEF services
  <2>15. IsState(s)
    BY <1>1, <2>8, <2>9, <2>10, <2>12, <2>13, <2>14 DEF IsState
  <2>16. QED
    BY <2>8, <2>9, <2>15 DEF s, services
<1>6. QED
  BY <1>1, <1>3, <1>4, <1>5

\* A pair sets a value that was read, or is refused.
LEMMA ReadPairInv == ASSUME ReaderInv, ReadPair PROVE ReaderInv'
<1> DEFINE key == Line.key
           value == ReadValue(key, Line.value)
<1>1. phase = "lines" /\ at <= Len(file) /\ Line.kind = "pair" /\ KeyFault = "Ok"
  BY DEF ReadPair, AtLine
<1>2. CASE value = Unparsed
  <2>1. Refuse("InvalidValue", at)
    BY <1>2 DEF ReadPair
  <2>2. QED
    BY <2>1, RefuseKeeps
<1>3. CASE value # Unparsed /\ key \in Endpoints \cup {"binary"} /\ value = <<>>
  <2>1. Refuse("MissingValue", at)
    BY <1>3 DEF ReadPair
  <2>2. QED
    BY <2>1, RefuseKeeps
<1>4. CASE value # Unparsed /\ ~(key \in Endpoints \cup {"binary"} /\ value = <<>>)
  <2> DEFINE applied == Applied(key, value)
             s == [applied EXCEPT !.seenKeys = @ \cup {key}]
  <2>1. Accept(s)
    BY <1>4 DEF ReadPair
  <2>2. key \in Allowed(state.section) /\ state.section # "none"
    BY <1>1 DEF KeyFault
  <2>3. Parsed /\ IsState(state) /\ IsFile
    BY DEF ReaderInv, Parsed
  <2>4. key = "depends_on" => IsText(Line.value)
    <3>1. at \in DOMAIN file
      BY <1>1, <2>3, OneMoreLine
    <3>2. QED
      BY <1>1, <2>3, <3>1 DEF IsFile, Line
  <2>5. Suits(key, value)
    BY <1>4, <2>4, ValueSuits
  <2>6. IsState(applied) /\ Len(applied.services) = Len(state.services)
    BY <2>2, <2>3, <2>5, AppliedIs
  <2> HIDE DEF applied
  <2>7. DOMAIN applied = DOMAIN EmptyState
    BY <2>6 DEF IsState
  <2>8. /\ DOMAIN s = DOMAIN applied
        /\ s.services = applied.services
        /\ s.defaults = applied.defaults
        /\ s.section = applied.section
    BY <2>7, StateParts
  <2> HIDE DEF s
  <2>9. IsState(s)
    BY <2>6, <2>8 DEF IsState
  <2>10. Len(s.services) = Len(state.services)
    BY <2>6, <2>8
  <2>11. ~(Line.kind = "section" /\ Line.word = "service")
    BY <1>1
  <2>12. QED
    BY <1>1, <2>1, <2>9, <2>10, <2>11, AcceptKeeps
<1>5. QED
  BY <1>2, <1>3, <1>4

----------------------------------------------------------------------------
(* Validation and the search *)

\* The faults of a service: the two of its own, then one of each dependency.
LEMMA FaultsAre ==
  ASSUME IsState(state), NEW i \in DOMAIN state.services
  PROVE  LET service == state.services[i]
             n == Len(service.dependsOn)
             header == state.serviceLines[i]
             line == IF state.dependencyLines[i] # 0 THEN state.dependencyLines[i] ELSE header
         IN /\ n \in Nat /\ DOMAIN service.dependsOn = 1..n
            /\ DOMAIN ServiceFaults(i) = 1..(2 + n)
            /\ ServiceFaults(i)[1] =
                 IF service.binary = <<>> THEN [code |-> "MissingValue", line |-> header] ELSE NoError
            /\ ServiceFaults(i)[2] =
                 IF service.restartDelayMax < service.restartDelay
                 THEN [code |-> "InvalidValue", line |-> header] ELSE NoError
            /\ \A k \in 1..n :
                 ServiceFaults(i)[2 + k] = DependencyFault(service, service.dependsOn[k], line)
<1> DEFINE service == state.services[i]
           n == Len(service.dependsOn)
           header == state.serviceLines[i]
           line == IF state.dependencyLines[i] # 0 THEN state.dependencyLines[i] ELSE header
           missing == IF service.binary = <<>> THEN [code |-> "MissingValue", line |-> header] ELSE NoError
           shrinking == IF service.restartDelayMax < service.restartDelay
                        THEN [code |-> "InvalidValue", line |-> header] ELSE NoError
           own == <<missing, shrinking>>
           F(k) == DependencyFault(service, service.dependsOn[k], line)
           others == [k \in DOMAIN service.dependsOn |-> F(k)]
           T == {missing, shrinking} \cup {F(k) : k \in 1..n}
<1>1. n \in Nat /\ DOMAIN service.dependsOn = 1..n
  BY TextFacts DEF IsState, IsService
<1>2. ServiceFaults(i) = own \o others
  BY DEF ServiceFaults
<1>3. own \in Seq(T) /\ Len(own) = 2 /\ own[1] = missing /\ own[2] = shrinking
  <2> HIDE DEF missing, shrinking, F
  <2>1. QED
    OBVIOUS
<1>4. others \in Seq(T) /\ Len(others) = n /\ \A k \in 1..n : others[k] = F(k)
  <2> HIDE DEF missing, shrinking, F, n
  <2>1. others = [k \in 1..n |-> F(k)]
    BY <1>1
  <2>2. QED
    BY <1>1, <2>1
<1> HIDE DEF missing, shrinking, F, n, own, others, T
<1>5. /\ Len(own \o others) = 2 + n
      /\ own \o others \in Seq(T)
      /\ \A j \in 1..(2 + n) : (own \o others)[j] = IF j <= 2 THEN own[j] ELSE others[j - 2]
  <2> HIDE DEF service, header, line
  <2>1. /\ own \o others \in Seq(T)
        /\ Len(own \o others) = Len(own) + Len(others)
        /\ \A j \in 1..(Len(own) + Len(others)) :
             (own \o others)[j] = IF j <= Len(own) THEN own[j] ELSE others[j - Len(own)]
    BY <1>3, <1>4, ConcatProperties
  <2>2. QED
    BY <1>3, <1>4, <2>1, Zenon
<1>6. DOMAIN (own \o others) = 1..(2 + n)
  BY <1>5, LenProperties
<1>7. (own \o others)[1] = missing /\ (own \o others)[2] = shrinking
  BY <1>1, <1>3, <1>5
<1>8. \A k \in 1..n : (own \o others)[2 + k] = F(k)
  <2> SUFFICES ASSUME NEW k \in 1..n
               PROVE  (own \o others)[2 + k] = F(k)
    OBVIOUS
  <2>1. 2 + k \in 1..(2 + n) /\ ~(2 + k <= 2) /\ (2 + k) - 2 = k
    BY <1>1
  <2>2. QED
    BY <1>4, <1>5, <2>1
<1>9. QED
  BY <1>1, <1>2, <1>6, <1>7, <1>8 DEF missing, shrinking, F, n, own, others

\* The fault that is shown is one.
LEMMA FirstFaultIs ==
  ASSUME IsState(state), Faulty # {}
  PROVE  FirstFault.code # "Ok"
<1> DEFINE i == Min(Faulty)
           faults == ServiceFaults(i)
           bad == {k \in DOMAIN faults : faults[k] # NoError}
           service == state.services[i]
           n == Len(service.dependsOn)
           header == state.serviceLines[i]
           line == IF state.dependencyLines[i] # 0 THEN state.dependencyLines[i] ELSE header
<1>1. Faulty \subseteq DOMAIN state.services /\ Faulty \in SUBSET Nat
  <2>1. DOMAIN state.services = 1..Len(state.services)
    BY TextFacts DEF IsState
  <2>2. QED
    BY <2>1 DEF Faulty
<1>2. i \in Faulty
  BY <1>1, MinIs
<1>3. i \in DOMAIN state.services /\ bad # {}
  BY <1>1, <1>2 DEF Faulty
<1> HIDE DEF i
<1>4. /\ n \in Nat
      /\ DOMAIN faults = 1..(2 + n)
      /\ faults[1] = IF service.binary = <<>> THEN [code |-> "MissingValue", line |-> header] ELSE NoError
      /\ faults[2] = IF service.restartDelayMax < service.restartDelay
                     THEN [code |-> "InvalidValue", line |-> header] ELSE NoError
      /\ \A k \in 1..n : faults[2 + k] = DependencyFault(service, service.dependsOn[k], line)
  BY <1>3, FaultsAre
<1>5. bad \in SUBSET Nat
  BY <1>4
<1>6. FirstFault = faults[Min(bad)]
  BY DEF FirstFault, i
<1> HIDE DEF faults
<1>7. Min(bad) \in bad
  BY <1>3, <1>5, MinIs
<1> DEFINE k == Min(bad)
<1>8. k \in 1..(2 + n) /\ faults[k] # NoError
  BY <1>4, <1>7
<1> HIDE DEF k, bad
<1> HIDE DEF n, service, header, line
<1>9. ASSUME k = 1 \/ k = 2
      PROVE  faults[k].code # "Ok"
  BY <1>4, <1>8, <1>9
<1>10. ASSUME k \notin 1..2
       PROVE  faults[k].code # "Ok"
  <2>1. k - 2 \in 1..n /\ 2 + (k - 2) = k
    BY <1>4, <1>8, <1>10
  <2>2. faults[k] = DependencyFault(service, service.dependsOn[k - 2], line)
    BY <1>4, <2>1
  <2>3. QED
    BY <1>8, <2>2 DEF DependencyFault
<1>11. faults[k].code # "Ok"
  BY <1>9, <1>10
<1>12. QED
  BY <1>6, <1>11 DEF k

\* A file with a fault in a service is refused with that fault.
LEMMA RefuseServicesInv == ASSUME ReaderInv, RefuseServices PROVE ReaderInv'
<1>1. IsState(state) /\ Faulty # {} /\ Refuse(FirstFault.code, FirstFault.line)
  BY DEF ReaderInv, Parsed, RefuseServices
<1>2. FirstFault.code # "Ok"
  BY <1>1, FirstFaultIs
<1>3. QED
  BY <1>1, <1>2, RefuseKeeps

\* So is one whose services wait for each other.
LEMMA RefuseCycleInv == ASSUME ReaderInv, RefuseCycle PROVE ReaderInv'
BY RefuseKeeps DEF RefuseCycle

\* So is one with an endpoint twice.
LEMMA RefuseEndpointsInv == ASSUME ReaderInv, RefuseEndpoints PROVE ReaderInv'
BY RefuseKeeps DEF RefuseEndpoints

\* What a state without faults has.
LEMMA NoFaultIs ==
  ASSUME IsState(state), Faulty = {}, NEW i \in DOMAIN state.services
  PROVE  LET service == state.services[i]
         IN /\ service.binary # <<>>
            /\ service.restartDelay <= service.restartDelayMax
            /\ \A k \in DOMAIN service.dependsOn :
                 service.dependsOn[k] # service.name /\ Named(state.services, service.dependsOn[k]) # {}
<1> DEFINE faults == ServiceFaults(i)
           service == state.services[i]
           n == Len(service.dependsOn)
           header == state.serviceLines[i]
           line == IF state.dependencyLines[i] # 0 THEN state.dependencyLines[i] ELSE header
<1>1. \A k \in DOMAIN faults : faults[k] = NoError
  BY DEF Faulty
<1>2. /\ n \in Nat /\ DOMAIN service.dependsOn = 1..n
      /\ DOMAIN faults = 1..(2 + n)
      /\ faults[1] = IF service.binary = <<>> THEN [code |-> "MissingValue", line |-> header] ELSE NoError
      /\ faults[2] = IF service.restartDelayMax < service.restartDelay
                     THEN [code |-> "InvalidValue", line |-> header] ELSE NoError
      /\ \A k \in 1..n : faults[2 + k] = DependencyFault(service, service.dependsOn[k], line)
  BY FaultsAre
<1>3. service.restartDelay \in Int /\ service.restartDelayMax \in Int
  BY DEF IsState, IsService
<1> HIDE DEF faults, service, n, header, line
<1>4. faults[1] = NoError /\ faults[2] = NoError /\ \A k \in 1..n : faults[2 + k] = NoError
  <2>1. 1 \in 1..(2 + n) /\ 2 \in 1..(2 + n) /\ \A k \in 1..n : 2 + k \in 1..(2 + n)
    BY <1>2
  <2>2. QED
    BY <1>1, <1>2, <2>1
<1>5. service.binary # <<>>
  BY <1>2, <1>4 DEF NoError
<1>6. service.restartDelay <= service.restartDelayMax
  <2>1. ~(service.restartDelayMax < service.restartDelay)
    <3>1. NoError.code = "Ok"
      BY DEF NoError
    <3>2. SUFFICES ASSUME service.restartDelayMax < service.restartDelay
                   PROVE  FALSE
      OBVIOUS
    <3>3. faults[2] = [code |-> "InvalidValue", line |-> header]
      BY <1>2, <3>2, Zenon
    <3>4. QED
      BY <1>4, <3>1, <3>3
  <2>2. QED
    BY <1>3, <2>1
<1>7. \A k \in 1..n : DependencyFault(service, service.dependsOn[k], line) = NoError
  BY <1>2, <1>4
<1>8. \A k \in 1..n : service.dependsOn[k] # service.name /\ Named(state.services, service.dependsOn[k]) # {}
  BY <1>7 DEF DependencyFault, NoError
<1>9. QED
  BY <1>2, <1>5, <1>6, <1>8 DEF service

\* A file that can be read begins with its first line.
LEMMA ReadFileInv == ASSUME ReaderInv, ReadFile PROVE ReaderInv'
<1>1. phase = "open" /\ phase' = "lines" /\ UNCHANGED <<file, at, state, error, out, vars>>
  BY DEF ReadFile
<1>2. Parsed'
  BY <1>1 DEF ReaderInv, Parsed, IsFile, HeadersBefore, HeadersNamed
<1>3. IInv'
  BY <1>1, StutterIInv DEF ReaderInv
<1>4. Resting'
  BY <1>1 DEF ReaderInv, Resting, Begin, vars
<1>5. ~Accepted'
  BY <1>1 DEF Accepted
<1>6. Checked' /\ Ended'
  BY <1>1, <1>5 DEF Checked, Ended
<1>7. QED
  BY <1>2, <1>3, <1>4, <1>6 DEF ReaderInv

\* At the end of the file there are at most Services services.
LEMMA AllServices ==
  ASSUME Parsed, at > Len(file)
  PROVE  DOMAIN state.services \subseteq Nodes
<1>1. at \in Nat /\ Len(file) \in Nat /\ DOMAIN file = 1..Len(file)
  BY TextFacts DEF Parsed, IsFile
<1>2. HeadersBefore(at) = HeadersNamed("service")
  <2>1. \A h \in DOMAIN file : h < at
    BY <1>1
  <2>2. HeadersNamed("service") \subseteq DOMAIN file
    BY DEF HeadersNamed
  <2>3. QED
    BY <2>1, <2>2 DEF HeadersBefore
<1>3. Len(state.services) <= Services
  BY <1>2 DEF Parsed, IsFile
<1>4. Len(state.services) \in Nat /\ DOMAIN state.services = 1..Len(state.services)
  BY TextFacts DEF Parsed, IsState
<1>5. QED
  BY <1>3, <1>4, ServicesAssumption DEF Nodes

\* A service of a name that there is.
LEMMA IndexIs ==
  ASSUME NEW name, Named(state.services, name) # {}
  PROVE  IndexOf(name) \in DOMAIN state.services /\ state.services[IndexOf(name)].name = name
<1>1. IndexOf(name) \in Named(state.services, name)
  BY DEF IndexOf
<1>2. QED
  BY <1>1 DEF Named

\* What is searched is a graph.
LEMMA ResolvedIs ==
  ASSUME IsState(state), Faulty = {}, DOMAIN state.services \subseteq Nodes
  PROVE  Resolved \in Graph
<1> SUFFICES ASSUME NEW n \in Nodes
             PROVE  Resolved[n] \in Seq(Nodes)
  BY DEF Graph, Resolved
<1>1. CASE n \notin DOMAIN state.services
  BY <1>1, EmptySeq DEF Resolved
<1>2. CASE n \in DOMAIN state.services
  <2> DEFINE needed == state.services[n].dependsOn
  <2>1. IsText(needed)
    BY <1>2 DEF IsState, IsService
  <2>2. Len(needed) \in Nat /\ DOMAIN needed = 1..Len(needed)
    BY <2>1, TextFacts
  <2>3. \A k \in DOMAIN needed : IndexOf(needed[k]) \in Nodes
    BY <1>2, NoFaultIs, IndexIs
  <2>4. Resolved[n] = [k \in DOMAIN needed |-> IndexOf(needed[k])]
    BY <1>2 DEF Resolved
  <2> HIDE DEF needed
  <2>5. QED
    BY <2>2, <2>3, <2>4
<1>3. QED
  BY <1>1, <1>2

\* A search that begins with a step has the invariant after it.
LEMMA NextInitIInv == (Init => IInv)'
BY InitIInv, PTL

\* The search begins with the services that were read.
LEMMA SearchServicesInv == ASSUME ReaderInv, SearchServices PROVE ReaderInv'
<1>1. /\ phase = "lines" /\ at > Len(file)
      /\ Faulty = {}
      /\ phase' = "cycles"
      /\ dependsOn' = Resolved
      /\ UNCHANGED <<file, at, state, error, out, mark, path, look, root, result, cycle>>
  BY DEF SearchServices, LinesOver
<1>2. Parsed'
  BY <1>1 DEF ReaderInv, Parsed, IsFile, HeadersBefore, HeadersNamed
<1>3. DOMAIN state.services \subseteq Nodes /\ IsState(state)
  BY <1>1, AllServices DEF ReaderInv, Parsed
<1>4. Resolved \in Graph
  BY <1>1, <1>3, ResolvedIs
<1>5. Begin([n \in Nodes |-> <<>>])
  BY <1>1 DEF ReaderInv, Resting
<1>6. Init'
  <2>1. Begin(dependsOn)'
    BY <1>1, <1>5 DEF Begin
  <2>2. (dependsOn \in Graph)'
    BY <1>1, <1>4 DEF Graph
  <2>3. QED
    BY <2>1, <2>2 DEF Init, Graph
<1>7. IInv'
  BY <1>6, NextInitIInv
<1>8. Faulty' = Faulty /\ Resolved' = Resolved
  BY <1>1 DEF Faulty, ServiceFaults, DependencyFault, Named, Resolved, IndexOf
<1>9. Checked'
  BY <1>1, <1>3, <1>8 DEF Checked
<1>10. Resting' /\ ~Accepted'
  BY <1>1 DEF Resting, Accepted
<1>11. QED
  BY <1>2, <1>7, <1>9, <1>10 DEF ReaderInv, Ended

\* Every step of the search keeps its invariant.
LEMMA SearchKeepsIInv == ASSUME IInv, Next PROVE IInv'
BY NextRootIInv, NoCycleIInv, CycleFoundIInv, VisitDependencyIInv, PassDependencyIInv, ReturnIInv DEF Next

\* The search leaves what was read, and the graph, alone.
LEMMA SearchInv == ASSUME ReaderInv, Search PROVE ReaderInv'
<1>1. phase = "cycles" /\ Next /\ UNCHANGED readerVars
  BY DEF Search
<1>2. UNCHANGED <<file, at, phase, state, error, out>> /\ dependsOn' = dependsOn
  BY <1>1 DEF readerVars, Next, NextRoot, NoCycle, CycleFound, VisitDependency, PassDependency, Return
<1>3. IInv'
  BY <1>1, SearchKeepsIInv DEF ReaderInv
<1>4. Parsed'
  BY <1>2 DEF ReaderInv, Parsed, IsFile, HeadersBefore, HeadersNamed
<1>5. Faulty' = Faulty /\ Resolved' = Resolved
  BY <1>2 DEF Faulty, ServiceFaults, DependencyFault, Named, Resolved, IndexOf
<1>6. Checked'
  BY <1>1, <1>2, <1>5 DEF ReaderInv, Checked
<1>7. Resting' /\ Ended'
  BY <1>1, <1>2 DEF Resting, Ended, Accepted
<1>8. QED
  BY <1>3, <1>4, <1>6, <1>7 DEF ReaderInv

\* What is accepted is what was read, checked and searched.
LEMMA AcceptFileInv == ASSUME ReaderInv, AcceptFile PROVE ReaderInv'
<1>1. /\ phase = "cycles" /\ result = "none" /\ EndpointsDiffer
      /\ out' = [manager |-> state.manager, services |-> state.services]
      /\ phase' = "done"
      /\ UNCHANGED <<file, at, state, vars>>
  BY DEF AcceptFile
<1>2. IInv'
  BY <1>1, StutterIInv DEF ReaderInv
<1>3. Parsed'
  BY <1>1 DEF ReaderInv, Parsed, IsFile, HeadersBefore, HeadersNamed
<1>4. Faulty' = Faulty /\ Resolved' = Resolved /\ dependsOn' = dependsOn
  BY <1>1 DEF Faulty, ServiceFaults, DependencyFault, Named, Resolved, IndexOf, vars
<1>5. Checked'
  BY <1>1, <1>4 DEF ReaderInv, Checked
<1>6. Ended'
  BY <1>1 DEF Ended, EndpointsDiffer, vars
<1>7. Resting'
  BY <1>1 DEF Resting
<1>8. QED
  BY <1>2, <1>3, <1>5, <1>6, <1>7 DEF ReaderInv

\* Nothing is read yet when the reading begins.
LEMMA ReaderInit ==
  ASSUME NEW lines, Open(lines), IsFile
  PROVE  ReaderInv
<1>1. /\ at = 1 /\ phase = "open" /\ state = EmptyState
      /\ Begin([n \in Nodes |-> <<>>])
  BY DEF Open
<1>2. IInv
  <2>1. [n \in Nodes |-> <<>>] \in Graph
    BY EmptySeq DEF Graph
  <2>2. QED
    BY <1>1, <2>1, InitIInv DEF Init
<1>3. IsService(BuiltInService)
  <2>1. /\ BuiltInService.restartDelay = 1000 /\ BuiltInService.restartDelayMax = 30000
        /\ BuiltInService.restartWindow = 60 /\ BuiltInService.heartbeatTolerance = 3
        /\ BuiltInService.dependsOn = <<>>
    BY DEF BuiltInService
  <2>2. 1000 \in 0..MaxDuration /\ 30000 \in 0..MaxDuration /\ 60 \in 1..MaxWindow /\ 3 \in 1..MaxCount
    <3>1. MaxDuration \in Nat /\ 30000 <= MaxDuration
      BY DEF MaxDuration
    <3>2. MaxWindow \in Nat /\ 60 <= MaxWindow
      BY DEF MaxWindow
    <3>3. MaxCount \in Nat /\ 3 <= MaxCount
      BY DEF MaxCount
    <3>4. QED
      BY <3>1, <3>2, <3>3
  <2>3. IsText(BuiltInService.dependsOn)
    BY <2>1, EmptyText
  <2>4. /\ BuiltInService.restartDelay \in 0..MaxDuration /\ BuiltInService.restartDelayMax \in 0..MaxDuration
        /\ BuiltInService.restartWindow \in 1..MaxWindow /\ BuiltInService.heartbeatTolerance \in 1..MaxCount
    BY <2>1, <2>2
  <2>5. QED
    BY <2>3, <2>4 DEF IsService
<1>4. IsState(state)
  <2>1. state.services = <<>> /\ state.section = "none" /\ state.defaults = BuiltInService
    BY <1>1 DEF EmptyState
  <2>2. QED
    BY <1>1, <1>3, <2>1, EmptyText DEF IsState
<1>5. HeadersBefore(1) = {}
  <2>1. \A h \in DOMAIN file : ~(h < 1)
    <3>1. DOMAIN file = 1..Len(file)
      BY TextFacts DEF IsFile
    <3>2. QED
      BY <3>1
  <2>2. QED
    BY <2>1 DEF HeadersBefore, HeadersNamed
<1>6. IsFiniteSet(HeadersBefore(at)) /\ Cardinality(HeadersBefore(at)) = Len(state.services)
  <2>1. Len(state.services) = 0
    BY <1>1 DEF EmptyState
  <2>2. IsFiniteSet({}) /\ Cardinality({}) = 0
    BY FS_EmptySet
  <2>3. QED
    BY <1>1, <1>5, <2>1, <2>2
<1>7. at \in Nat /\ at > 0 /\ at <= Len(file) + 1
  <2>1. Len(file) \in Nat
    BY TextFacts DEF IsFile
  <2>2. QED
    BY <1>1, <2>1
<1>8. Parsed
  BY <1>1, <1>4, <1>6, <1>7 DEF Parsed
<1>9. Resting /\ Checked /\ Ended
  BY <1>1 DEF Resting, Checked, Ended, Accepted
<1>10. QED
  BY <1>2, <1>8, <1>9 DEF ReaderInv

\* Nothing changes when the reader rests.
LEMMA ReaderStutter == ASSUME ReaderInv, UNCHANGED <<readerVars, vars>> PROVE ReaderInv'
<1>1. UNCHANGED <<file, at, phase, state, error, out>> /\ UNCHANGED vars
  BY DEF readerVars
<1>2. UNCHANGED <<dependsOn, mark, path, look, root, result, cycle>>
  BY <1>1 DEF vars
<1>3. IInv'
  BY <1>1, StutterIInv DEF ReaderInv
<1>4. Parsed'
  BY <1>1 DEF ReaderInv, Parsed, IsFile, HeadersBefore, HeadersNamed
<1>5. Faulty' = Faulty /\ Resolved' = Resolved
  BY <1>1 DEF Faulty, ServiceFaults, DependencyFault, Named, Resolved, IndexOf
<1>6. Checked'
  BY <1>1, <1>2, <1>5 DEF ReaderInv, Checked, Accepted
<1>7. Resting'
  BY <1>1, <1>2 DEF ReaderInv, Resting, Begin
<1>8. Ended'
  BY <1>1, <1>2 DEF ReaderInv, Ended, Accepted, EndpointsDiffer
<1>9. QED
  BY <1>3, <1>4, <1>6, <1>7, <1>8 DEF ReaderInv

\* Every state of the reading has the inductive invariant, whatever the file.
THEOREM ReaderInvariant == ReaderSpec => []ReaderInv
<1>1. (\E lines : Open(lines)) /\ IsFile => ReaderInv
  BY ReaderInit
<1>2. ReaderInv /\ [ReaderNext]_<<readerVars, vars>> => ReaderInv'
  <2> SUFFICES ASSUME ReaderInv, [ReaderNext]_<<readerVars, vars>>
               PROVE  ReaderInv'
    OBVIOUS
  <2>1. CASE ReaderNext
    BY <2>1, CannotReadInv, ReadFileInv, BlankLineInv, BadLineInv, OpenManagerInv, OpenDefaultsInv, OpenServiceInv,
       OpenUnknownInv, RefuseKeyInv, ReadPairInv, RefuseServicesInv, SearchServicesInv, SearchInv, RefuseCycleInv,
       RefuseEndpointsInv, AcceptFileInv
       DEF ReaderNext
  <2>2. CASE UNCHANGED <<readerVars, vars>>
    BY <2>2, ReaderStutter
  <2>3. QED
    BY <2>1, <2>2
<1>3. QED
  BY <1>1, <1>2, PTL DEF ReaderSpec

\* What the invariant says of an accepted file.
LEMMA AcceptedLemma == ASSUME ReaderInv PROVE AcceptedIsUsable
<1> SUFFICES ASSUME Accepted
             PROVE  AcceptedIsUsable
  BY DEF AcceptedIsUsable
<1> DEFINE services == out.services
           NeededBy(i) == {j \in DOMAIN services : services[j].name \in ToSet(services[i].dependsOn)}
<1>1. /\ out = [manager |-> state.manager, services |-> state.services]
      /\ result = "none" /\ EndpointsDiffer
      /\ Faulty = {} /\ DOMAIN state.services \subseteq Nodes /\ dependsOn = Resolved
      /\ IsState(state)
  BY DEF ReaderInv, Ended, Checked, Parsed
<1>2. services = state.services /\ out.manager = state.manager
  BY <1>1
<1>3. Distinct(DOMAIN services, LAMBDA i : services[i].name)
  BY <1>1, <1>2 DEF IsState, Distinct
<1>4. \A i \in DOMAIN services :
        /\ IsValidServiceName(services[i].name)
        /\ services[i].binary # <<>>
        /\ services[i].restartDelay <= services[i].restartDelayMax
        /\ services[i].restartWindow > 0 /\ services[i].heartbeatTolerance > 0
        /\ ToSet(services[i].dependsOn) \subseteq {services[j].name : j \in DOMAIN services \ {i}}
  <2> HIDE DEF services
  <2> SUFFICES ASSUME NEW i \in DOMAIN services
               PROVE  /\ IsValidServiceName(services[i].name)
                      /\ services[i].binary # <<>>
                      /\ services[i].restartDelay <= services[i].restartDelayMax
                      /\ services[i].restartWindow > 0 /\ services[i].heartbeatTolerance > 0
                      /\ ToSet(services[i].dependsOn) \subseteq {services[j].name : j \in DOMAIN services \ {i}}
    OBVIOUS
  <2>1. IsService(services[i]) /\ IsValidServiceName(services[i].name)
    BY <1>1, <1>2 DEF IsState
  <2>2. services[i].restartWindow > 0 /\ services[i].heartbeatTolerance > 0
    BY <2>1 DEF IsService
  <2>3. /\ services[i].binary # <<>>
        /\ services[i].restartDelay <= services[i].restartDelayMax
        /\ \A k \in DOMAIN services[i].dependsOn :
             services[i].dependsOn[k] # services[i].name /\ Named(services, services[i].dependsOn[k]) # {}
    BY <1>1, <1>2, NoFaultIs
  <2>4. ASSUME NEW name \in ToSet(services[i].dependsOn)
        PROVE  name \in {services[j].name : j \in DOMAIN services \ {i}}
    <3>1. name # services[i].name /\ Named(services, name) # {}
      BY <2>3 DEF ToSet
    <3>2. PICK j \in DOMAIN services : services[j].name = name
      BY <3>1 DEF Named
    <3>3. j # i
      BY <3>1, <3>2
    <3>4. QED
      BY <3>2, <3>3
  <2>5. QED
    BY <2>1, <2>2, <2>3, <2>4
<1>5. \A S \in SUBSET DOMAIN services : S # {} => \E i \in S : NeededBy(i) \cap S = {}
  <2>1. WellFounded
    BY <1>1 DEF ReaderInv, IInv, Answer, FinishedWellFounded, WellFounded
  <2> SUFFICES ASSUME NEW S \in SUBSET DOMAIN services, S # {}
               PROVE  \E i \in S : NeededBy(i) \cap S = {}
    OBVIOUS
  <2>2. S \in SUBSET Nodes
    BY <1>1, <1>2
  <2>3. PICK i \in S : Needs(i) \cap S = {}
    BY <2>1, <2>2 DEF WellFounded
  <2>4. ASSUME NEW j \in NeededBy(i)
        PROVE  j \in Needs(i)
    <3>1. j \in DOMAIN state.services /\ state.services[j].name \in ToSet(state.services[i].dependsOn)
      BY <1>2
    <3>2. PICK k \in DOMAIN state.services[i].dependsOn : state.services[i].dependsOn[k] = state.services[j].name
      BY <3>1 DEF ToSet
    <3>3. Named(state.services, state.services[j].name) # {}
      BY <3>1 DEF Named
    <3>4. IndexOf(state.services[j].name) = j
      BY <1>1, <3>1, <3>3, IndexIs DEF IsState
    <3>5. i \in Nodes /\ i \in DOMAIN state.services
      BY <1>2, <2>2, <2>3
    <3>6. dependsOn[i] = [m \in DOMAIN state.services[i].dependsOn |-> IndexOf(state.services[i].dependsOn[m])]
      BY <1>1, <3>5 DEF Resolved
    <3>7. k \in DOMAIN dependsOn[i] /\ dependsOn[i][k] = j
      BY <3>2, <3>4, <3>6
    <3>8. QED
      BY <3>7 DEF Needs
  <2>5. QED
    BY <2>3, <2>4
<1>6. Distinct(DOMAIN ManagerField \cap Endpoints, LAMBDA k : out.manager[ManagerField[k]])
  <2>1. /\ out.manager["healthEndpoint"] # out.manager["reportEndpoint"]
        /\ out.manager["healthEndpoint"] # out.manager["commandEndpoint"]
        /\ out.manager["reportEndpoint"] # out.manager["commandEndpoint"]
    BY <1>1, <1>2 DEF EndpointsDiffer
  <2>2. /\ ManagerField["health_endpoint"] = "healthEndpoint"
        /\ ManagerField["report_endpoint"] = "reportEndpoint"
        /\ ManagerField["command_endpoint"] = "commandEndpoint"
    BY DEF ManagerField
  <2>3. QED
    BY <2>1, <2>2 DEF Distinct, Endpoints
<1>7. QED
  BY <1>3, <1>4, <1>5, <1>6 DEF AcceptedIsUsable

\* Whatever the file, a configuration that is accepted is one the manager can run.
THEOREM AcceptedFilesAreUsable == ReaderSpec => []AcceptedIsUsable
<1>1. ReaderInv => AcceptedIsUsable
  BY AcceptedLemma
<1> QED
  BY <1>1, ReaderInvariant, PTL

\* The search of the services of a file answers right, and shows a cycle that is one.
THEOREM ReaderAnswersRight == ReaderSpec => [](AnswerIsRight /\ CycleIsShown)
<1>1. ReaderInv => AnswerIsRight /\ CycleIsShown
  BY DEF ReaderInv, IInv, Answer, AnswerIsRight, FinishedWellFounded, WellFounded
<1> QED
  BY <1>1, ReaderInvariant, PTL

----------------------------------------------------------------------------
(* Lines in order *)

\* Two texts as long as each other, with the same in each place, are the same.
LEMMA SameText ==
  ASSUME NEW a, IsText(a), NEW b, IsText(b), Len(a) = Len(b), \A i \in 1..Len(a) : a[i] = b[i]
  PROVE  a = b
<1> DEFINE T == ToSet(a) \cup ToSet(b)
<1>1. a \in Seq(ToSet(a)) /\ b \in Seq(ToSet(b))
  BY TextFacts
<1>2. a \in Seq(T) /\ b \in Seq(T)
  <2>1. ToSet(a) \subseteq T /\ ToSet(b) \subseteq T
    OBVIOUS
  <2> HIDE DEF T
  <2>2. QED
    BY <1>1, <2>1, SeqMonotonic
<1> HIDE DEF T
<1>3. QED
  BY <1>2, SeqEqual

\* One text behind another.
LEMMA JoinedIs ==
  ASSUME NEW a, IsText(a), NEW b, IsText(b)
  PROVE  /\ IsText(a \o b)
         /\ Len(a \o b) = Len(a) + Len(b)
         /\ \A i \in 1..(Len(a) + Len(b)) : (a \o b)[i] = IF i <= Len(a) THEN a[i] ELSE b[i - Len(a)]
<1> DEFINE T == ToSet(a) \cup ToSet(b)
<1>1. a \in Seq(ToSet(a)) /\ b \in Seq(ToSet(b))
  BY TextFacts
<1>2. a \in Seq(T) /\ b \in Seq(T)
  <2>1. ToSet(a) \subseteq T /\ ToSet(b) \subseteq T
    OBVIOUS
  <2> HIDE DEF T
  <2>2. QED
    BY <1>1, <2>1, SeqMonotonic
<1> HIDE DEF T
<1>3. /\ a \o b \in Seq(T)
      /\ Len(a \o b) = Len(a) + Len(b)
      /\ \A i \in 1..(Len(a) + Len(b)) : (a \o b)[i] = IF i <= Len(a) THEN a[i] ELSE b[i - Len(a)]
  BY <1>2, ConcatProperties
<1>4. QED
  BY <1>3, TextIs

\* What is appended to the second of two texts is appended to both.
LEMMA JoinedLonger ==
  ASSUME NEW a, IsText(a), NEW b, IsText(b), NEW x
  PROVE  a \o Append(b, x) = Append(a \o b, x)
<1> DEFINE longer == Append(b, x)
           ab == a \o b
           left == a \o longer
           right == Append(ab, x)
           m == Len(a)
           n == Len(b)
<1>1. m \in Nat /\ n \in Nat
  BY TextFacts
<1>2. /\ IsText(longer) /\ Len(longer) = n + 1
      /\ \A i \in 1..n : longer[i] = b[i]
      /\ longer[n + 1] = x
  BY LongerIs
<1>3. /\ IsText(ab) /\ Len(ab) = m + n
      /\ \A i \in 1..(m + n) : ab[i] = IF i <= m THEN a[i] ELSE b[i - m]
  BY JoinedIs
<1> HIDE DEF longer, ab
<1>4. /\ IsText(left) /\ Len(left) = m + (n + 1)
      /\ \A i \in 1..(m + (n + 1)) : left[i] = IF i <= m THEN a[i] ELSE longer[i - m]
  BY <1>2, JoinedIs
<1>5. /\ IsText(right) /\ Len(right) = m + n + 1
      /\ \A i \in 1..(m + n) : right[i] = ab[i]
      /\ right[m + n + 1] = x
  BY <1>3, LongerIs
<1> HIDE DEF left, right, m, n
<1>6. ASSUME NEW i \in 1..(m + n + 1)
      PROVE  left[i] = right[i]
  <2>1. i \in 1..(m + (n + 1))
    BY <1>1
  <2>2. CASE i <= m
    <3>1. i \in 1..(m + n)
      BY <1>1, <2>2
    <3>2. QED
      BY <1>3, <1>4, <1>5, <2>1, <2>2, <3>1
  <2>3. CASE ~(i <= m) /\ i # m + n + 1
    <3>1. i \in 1..(m + n) /\ i - m \in 1..n
      BY <1>1, <2>3
    <3>2. right[i] = b[i - m]
      BY <1>3, <1>5, <2>3, <3>1
    <3>3. left[i] = longer[i - m]
      BY <1>4, <2>1, <2>3
    <3>4. QED
      BY <1>2, <3>1, <3>2, <3>3
  <2>4. CASE i = m + n + 1
    <3>1. ~(i <= m) /\ i - m = n + 1
      BY <1>1, <2>4
    <3>2. left[i] = longer[n + 1]
      BY <1>4, <2>1, <3>1
    <3>3. QED
      BY <1>2, <1>5, <2>4, <3>2
  <2>5. QED
    BY <2>2, <2>3, <2>4
<1>7. m + (n + 1) = m + n + 1
  BY <1>1
<1>8. left = right
  BY <1>4, <1>5, <1>6, <1>7, SameText
<1>9. QED
  BY <1>8 DEF left, right, longer, ab

\* Some lines one after the other, as they are in the file.
IsOrder(s, S) ==
  /\ s \in [1..Cardinality(S) -> S]
  /\ \A i, j \in 1..Cardinality(S) : i < j => s[i] < s[j]

\* Lines of a file are finitely many.
LEMMA LinesAreFinite ==
  ASSUME NEW N \in Nat, NEW S \in SUBSET (1..N)
  PROVE  IsFiniteSet(S) /\ Cardinality(S) \in Nat
<1>1. IsFiniteSet(1..N)
  BY FS_Interval
<1>2. IsFiniteSet(S)
  BY <1>1, FS_Subset
<1>3. QED
  BY <1>2, FS_CardinalityType

\* Any lines can be put in order: there are no fewest lines that cannot.
LEMMA OrderExists ==
  ASSUME NEW N \in Nat, NEW S \in SUBSET (1..N)
  PROVE  \E s : IsOrder(s, S)
<1> DEFINE Bad == {T \in SUBSET (1..N) : ~\E s : IsOrder(s, T)}
           Sizes == {Cardinality(T) : T \in Bad}
<1>1. SUFFICES ASSUME Bad # {}
               PROVE  FALSE
  OBVIOUS
<1>2. Sizes \in SUBSET Nat /\ Sizes # {}
  BY <1>1, LinesAreFinite
<1>3. PICK n \in Sizes : \A k \in Sizes : n <= k
  <2> HIDE DEF Sizes
  <2>1. QED
    BY <1>2, LeastNatural
<1>4. PICK T \in Bad : Cardinality(T) = n
  BY <1>3
<1>5. T \in SUBSET (1..N) /\ n \in Nat /\ IsFiniteSet(T) /\ ~\E s : IsOrder(s, T)
  BY <1>4, LinesAreFinite
<1>6. T # {}
  <2>1. SUFFICES ASSUME T = {}
                 PROVE  FALSE
    OBVIOUS
  <2>2. Cardinality(T) = 0
    BY <2>1, FS_EmptySet
  <2>3. IsOrder([i \in 1..0 |-> i], T)
    BY <2>1, <2>2 DEF IsOrder
  <2>4. QED
    BY <1>5, <2>3
<1> DEFINE m == Max(T)
           U == T \ {m}
<1>7. m \in T /\ \A y \in T : m >= y
  <2>1. T \in SUBSET Nat /\ \A y \in T : y <= N
    BY <1>5
  <2>2. QED
    BY <1>6, <2>1, MaxIs
<1> HIDE DEF m
<1>8. U \in SUBSET (1..N) /\ Cardinality(U) = n - 1 /\ n - 1 \in Nat
  <2>1. Cardinality(U) = n - 1
    BY <1>4, <1>5, <1>7, FS_RemoveElement
  <2>2. U \in SUBSET (1..N)
    BY <1>5
  <2> HIDE DEF U
  <2>3. Cardinality(U) \in Nat
    BY <2>2, LinesAreFinite
  <2>4. QED
    BY <2>1, <2>2, <2>3
<1>9. U \notin Bad
  <2>1. SUFFICES ASSUME U \in Bad
                 PROVE  FALSE
    OBVIOUS
  <2>2. n <= n - 1
    BY <1>3, <1>8, <2>1
  <2>3. QED
    BY <1>5, <2>2
<1>10. PICK s : IsOrder(s, U)
  BY <1>8, <1>9
<1>11. /\ s \in [1..(n - 1) -> U]
       /\ \A i, j \in 1..(n - 1) : i < j => s[i] < s[j]
  BY <1>8, <1>10 DEF IsOrder
<1> DEFINE t == [i \in 1..n |-> IF i = n THEN m ELSE s[i]]
<1>12. \A i \in 1..n : i = n \/ i \in 1..(n - 1)
  BY <1>5
<1>13. t \in [1..n -> T]
  BY <1>7, <1>11, <1>12
<1>14. ASSUME NEW i \in 1..n, NEW j \in 1..n, i < j
       PROVE  t[i] < t[j]
  <2>1. i \in 1..(n - 1) /\ i # n
    BY <1>5, <1>14
  <2>2. t[i] = s[i]
    BY <2>1
  <2>3. CASE j = n
    <3>1. t[j] = m /\ s[i] \in T /\ s[i] # m
      BY <1>11, <2>1, <2>3
    <3>2. \A y \in T : y \in Nat
      BY <1>5
    <3>3. s[i] \in Nat /\ m \in Nat /\ m >= s[i]
      BY <1>7, <3>1, <3>2
    <3>4. QED
      BY <2>2, <3>1, <3>3
  <2>4. CASE j # n
    <3>1. j \in 1..(n - 1) /\ t[j] = s[j]
      BY <1>12, <2>4
    <3>2. QED
      BY <1>11, <1>14, <2>1, <2>2, <3>1
  <2>5. QED
    BY <2>3, <2>4
<1> HIDE DEF t
<1>15. IsOrder(t, T)
  BY <1>4, <1>13, <1>14 DEF IsOrder
<1>16. QED
  BY <1>5, <1>15

\* InOrder is an order.
LEMMA OrderIs ==
  ASSUME NEW N \in Nat, NEW S \in SUBSET (1..N)
  PROVE  IsOrder(InOrder(S), S)
<1>1. PICK s : IsOrder(s, S)
  BY OrderExists
<1>2. s \in [1..Cardinality(S) -> S] /\ \A i, j \in DOMAIN s : i < j => s[i] < s[j]
  BY <1>1 DEF IsOrder
<1>3. InOrder(S) \in [1..Cardinality(S) -> S]
      /\ \A i, j \in DOMAIN InOrder(S) : i < j => InOrder(S)[i] < InOrder(S)[j]
  BY <1>2, Zenon DEF InOrder
<1>4. QED
  BY <1>3 DEF IsOrder

\* An order has every line.
LEMMA OrderHasAll ==
  ASSUME NEW S \in SUBSET Nat, IsFiniteSet(S), NEW s, IsOrder(s, S)
  PROVE  \A x \in S : \E i \in 1..Cardinality(S) : s[i] = x
<1> DEFINE n == Cardinality(S)
<1>1. IsFiniteSet(S) /\ n \in Nat
  BY FS_CardinalityType
<1>2. s \in [1..n -> S] /\ \A i, j \in 1..n : i < j => s[i] < s[j]
  BY DEF IsOrder
<1> HIDE DEF n
<1>3. \A i \in 1..n : s[i] \in Nat
  <2>1. \A y \in S : y \in Nat
    OBVIOUS
  <2>2. QED
    BY <1>2, <2>1
<1>4. \A i, j \in 1..n : s[i] = s[j] => i = j
  <2> SUFFICES ASSUME NEW i \in 1..n, NEW j \in 1..n, s[i] = s[j], i # j
               PROVE  FALSE
    OBVIOUS
  <2>1. i < j \/ j < i
    BY <1>1
  <2>2. s[i] < s[j] \/ s[j] < s[i]
    BY <1>2, <2>1
  <2>3. QED
    BY <1>3, <2>2
<1>5. s \in Injection(1..n, S)
  BY <1>2, <1>4 DEF Injection, IsInjective
<1>6. Cardinality(1..n) = n
  BY <1>1, FS_Interval
<1>7. s \in Surjection(1..n, S)
  BY <1>1, <1>5, <1>6, FS_Injection DEF n
<1>8. QED
  BY <1>7 DEF Surjection, n

\* There is one order only: two would differ in a first place.
LEMMA OneOrder ==
  ASSUME NEW N \in Nat, NEW S \in SUBSET (1..N), NEW s, IsOrder(s, S), NEW t, IsOrder(t, S)
  PROVE  s = t
<1> DEFINE n == Cardinality(S)
           Differ == {i \in 1..n : s[i] # t[i]}
<1>1. n \in Nat
  BY LinesAreFinite
<1>2. /\ s \in [1..n -> S] /\ \A i, j \in 1..n : i < j => s[i] < s[j]
      /\ t \in [1..n -> S] /\ \A i, j \in 1..n : i < j => t[i] < t[j]
  BY DEF IsOrder
<1>3. /\ \A x \in S : \E i \in 1..n : s[i] = x
      /\ \A x \in S : \E i \in 1..n : t[i] = x
  <2>1. S \in SUBSET Nat /\ IsFiniteSet(S)
    BY LinesAreFinite
  <2>2. QED
    BY <2>1, OrderHasAll
<1> HIDE DEF n
<1>4. \A i \in 1..n : s[i] \in S /\ t[i] \in S /\ s[i] \in Nat /\ t[i] \in Nat
  <2>1. \A y \in S : y \in Nat
    OBVIOUS
  <2>2. QED
    BY <1>2, <2>1
<1>5. Differ = {}
  <2>1. SUFFICES ASSUME Differ # {}
                 PROVE  FALSE
    OBVIOUS
  <2>2. PICK i \in Differ : \A k \in Differ : i <= k
    <3>1. Differ \in SUBSET Nat
      BY <1>1
    <3> HIDE DEF Differ
    <3>2. QED
      BY <2>1, <3>1, LeastNatural
  <2>3. i \in 1..n /\ s[i] # t[i]
    OBVIOUS
  <2>4. \A k \in 1..n : k < i => s[k] = t[k]
    BY <1>1, <2>2
  <2> HIDE DEF Differ
  <2>5. CASE s[i] < t[i]
    <3>1. PICK j \in 1..n : t[j] = s[i]
      BY <1>3, <1>4, <2>3
    <3>2. CASE j < i
      <4>1. s[j] = s[i]
        BY <2>4, <3>1, <3>2
      <4>2. s[j] < s[i]
        BY <1>2, <2>3, <3>2
      <4>3. QED
        BY <1>4, <2>3, <4>1, <4>2
    <3>3. CASE i < j
      <4>1. t[i] < t[j]
        BY <1>2, <2>3, <3>3
      <4>2. QED
        BY <1>4, <2>3, <2>5, <3>1, <4>1
    <3>4. CASE i = j
      BY <2>3, <3>1, <3>4
    <3>5. QED
      BY <2>3, <3>2, <3>3, <3>4
  <2>6. CASE t[i] < s[i]
    <3>1. PICK j \in 1..n : s[j] = t[i]
      BY <1>3, <1>4, <2>3
    <3>2. CASE j < i
      <4>1. t[j] = t[i]
        BY <2>4, <3>1, <3>2
      <4>2. t[j] < t[i]
        BY <1>2, <2>3, <3>2
      <4>3. QED
        BY <1>4, <2>3, <4>1, <4>2
    <3>3. CASE i < j
      <4>1. s[i] < s[j]
        BY <1>2, <2>3, <3>3
      <4>2. QED
        BY <1>4, <2>3, <2>6, <3>1, <4>1
    <3>4. CASE i = j
      BY <2>3, <3>1, <3>4
    <3>5. QED
      BY <2>3, <3>2, <3>3, <3>4
  <2>7. QED
    BY <1>4, <2>3, <2>5, <2>6
<1>6. \A i \in 1..n : s[i] = t[i]
  BY <1>5
<1>7. s = [i \in 1..n |-> s[i]] /\ t = [i \in 1..n |-> t[i]]
  BY <1>2
<1>8. QED
  BY <1>6, <1>7

\* A line behind the others comes last.
LEMMA OrderStep ==
  ASSUME NEW N \in Nat, NEW S \in SUBSET (1..N), NEW x \in 1..N, \A y \in S : y < x
  PROVE  /\ InOrder(S \cup {x}) = Append(InOrder(S), x)
         /\ IsText(InOrder(S)) /\ Len(InOrder(S)) = Cardinality(S)
         /\ Cardinality(S \cup {x}) = Cardinality(S) + 1
<1> DEFINE n == Cardinality(S)
           s == InOrder(S)
           T == S \cup {x}
           t == Append(s, x)
<1>1. IsFiniteSet(S) /\ n \in Nat /\ IsOrder(s, S) /\ T \in SUBSET (1..N)
  BY LinesAreFinite, OrderIs
<1>2. x \notin S
  OBVIOUS
<1>3. Cardinality(T) = n + 1
  BY <1>1, <1>2, FS_AddElement
<1>4. s \in [1..n -> S] /\ \A i, j \in 1..n : i < j => s[i] < s[j]
  BY <1>1 DEF IsOrder
<1> HIDE DEF n, s
<1>5. s \in Seq(S) /\ Len(s) = n
  <2>1. s \in Seq(S)
    BY <1>1, <1>4, SeqDef
  <2>2. Len(s) \in Nat /\ DOMAIN s = 1..Len(s) /\ DOMAIN s = 1..n
    BY <1>4, <2>1, LenProperties
  <2>3. \A k, m \in Nat : 1..k = 1..m => k = m
    OBVIOUS
  <2>4. n \in Nat
    BY <1>1 DEF n
  <2>5. QED
    BY <2>1, <2>2, <2>3, <2>4, Zenon
<1>6. IsText(s)
  BY <1>5, TextIs
<1>7. /\ IsText(t) /\ Len(t) = n + 1 /\ DOMAIN t = 1..(n + 1)
      /\ \A i \in 1..n : t[i] = s[i]
      /\ t[n + 1] = x
  BY <1>5, <1>6, LongerIs
<1>8. t = [i \in 1..(n + 1) |-> t[i]]
  BY <1>7, TextFacts
<1> HIDE DEF t
<1>9. \A i \in 1..(n + 1) : i = n + 1 \/ i \in 1..n
  BY <1>1
<1>10. t \in [1..(n + 1) -> T]
  <2>1. \A i \in 1..(n + 1) : t[i] \in T
    BY <1>4, <1>7, <1>9
  <2> HIDE DEF T
  <2>2. QED
    BY <1>8, <2>1
<1>11. ASSUME NEW i \in 1..(n + 1), NEW j \in 1..(n + 1), i < j
       PROVE  t[i] < t[j]
  <2>1. i \in 1..n
    BY <1>1, <1>11
  <2>2. t[i] = s[i] /\ s[i] \in S
    BY <1>4, <1>7, <2>1
  <2>3. CASE j = n + 1
    BY <1>7, <2>2, <2>3
  <2>4. CASE j \in 1..n
    BY <1>4, <1>7, <1>11, <2>1, <2>2, <2>4
  <2>5. QED
    BY <1>9, <2>3, <2>4
<1>12. IsOrder(t, T)
  BY <1>3, <1>10, <1>11 DEF IsOrder
<1>13. IsOrder(InOrder(T), T)
  BY <1>1, OrderIs
<1>14. InOrder(T) = t
  <2> HIDE DEF T
  <2>1. QED
    BY <1>1, <1>12, <1>13, OneOrder
<1>15. QED
  BY <1>3, <1>5, <1>6, <1>14 DEF n, s, t, T

\* With nothing in order there is nothing.
LEMMA NoOrder == InOrder({}) = <<>> /\ Cardinality({}) = 0
<1>1. Cardinality({}) = 0
  BY FS_EmptySet
<1>2. IsOrder(InOrder({}), {})
  <2>1. {} \in SUBSET (1..0)
    OBVIOUS
  <2>2. QED
    BY <2>1, OrderIs
<1>3. InOrder({}) \in [1..0 -> {}]
  BY <1>1, <1>2 DEF IsOrder
<1>4. InOrder({}) \in Seq({})
  BY <1>3, SeqDef
<1>5. IsText(InOrder({}))
  BY <1>4, TextIs
<1>6. DOMAIN InOrder({}) = 1..Len(InOrder({})) /\ Len(InOrder({})) \in Nat /\ DOMAIN InOrder({}) = 1..0
  BY <1>3, <1>5, TextFacts
<1>7. Len(InOrder({})) = 0
  BY <1>6
<1>8. InOrder({}) = <<>>
  BY <1>5, <1>7, EmptyText, SameText
<1>9. QED
  BY <1>1, <1>8

----------------------------------------------------------------------------
(* What is read so far *)

\* What is said with a value, as the properties look at it.
Said(key, value) ==
  IF key = "output" THEN (IF value.mode = "file" THEN value.path ELSE value.mode) ELSE value

\* The keys that a value can be read for.
Keys == DOMAIN ManagerField \cup DOMAIN ServiceField

\* A value that is read comes out as it is meant, and one that is refused means nothing: what
\* ConfigText makes of the text of a single value.
ReadsAsMeant(l) ==
  LET key == file[l].key
      value == ReadValue(key, file[l].value)
  IN IF value = Unparsed \/ (key \in Endpoints \cup {"binary"} /\ value = <<>>) THEN file[l].means = Unparsed
     ELSE file[l].means = Said(key, value)

\* The one thing these proofs suppose of a file: the texts of its single values say what is meant.
ValuesAsMeant == \A l \in DOMAIN file : file[l].kind = "pair" /\ file[l].key \in Keys => ReadsAsMeant(l)

\* The lines before n, under some headers, that have a key.
LinesOf(headers, key, n) ==
  {l \in DOMAIN file : l < n /\ file[l].kind = "pair" /\ file[l].key = key /\ HeaderOf(l) \in headers}

\* What some lines make of a key that had a value already.
ValueOf(lines, key, otherwise) ==
  IF key = "env" THEN otherwise \o MeantBy(lines)
  ELSE IF lines # {} THEN MeantBy(lines)[1] ELSE otherwise

\* What the lines before n mean for a key: in [defaults], for a service, and for the manager.
InDefaultsSoFar(key, n) ==
  ValueOf(LinesOf(HeadersNamed("defaults"), key, n), key, BuiltInService[ServiceField[key]])

MeantSoFar(header, key, n) == ValueOf(LinesOf({header}, key, n), key, InDefaultsSoFar(key, n))

ManagerSoFar(key, n) ==
  ValueOf(LinesOf(HeadersNamed("manager"), key, n), key, BuiltInManager[ManagerField[key]])

\* The section the next line is in, and the keys seen there.
SectionRead(n, s) ==
  /\ s.section = "none" => HeaderOf(n - 1) = 0
  /\ s.section # "none" => HeaderOf(n - 1) \in HeadersNamed(s.section)
  /\ \A key \in s.seenKeys : LinesOf({HeaderOf(n - 1)}, key, n) # {}
  /\ \A l \in DOMAIN file :
       l < n /\ file[l].kind = "pair" /\ HeaderOf(l) = HeaderOf(n - 1) => file[l].key \in s.seenKeys

\* The headers of the manager and of the defaults are there once, the latter before the services.
HeadersRead(n, s) ==
  /\ \A word \in {"manager", "defaults"} : \A g, h \in HeadersNamed(word) : g < n /\ h < n => g = h
  /\ s.managerSeen <=> \E h \in HeadersNamed("manager") : h < n
  /\ s.defaultsSeen <=> \E h \in HeadersNamed("defaults") : h < n
  /\ \A g \in HeadersNamed("defaults"), h \in HeadersBefore(n) : g < n => g < h

\* Each service has its header, in the order of the file.
ServicesRead(n, s) ==
  /\ s.serviceLines = InOrder(HeadersBefore(n))
  /\ Len(s.services) = Cardinality(HeadersBefore(n))
  /\ s.section = "service" => HeaderOf(n - 1) = s.serviceLines[Len(s.services)]
  /\ \A i \in DOMAIN s.services : s.services[i].name = file[s.serviceLines[i]].name

\* Where the dependencies of each service are; the defaults have none.
DependenciesRead(n, s) ==
  /\ LinesOf(HeadersNamed("defaults"), "depends_on", n) = {}
  /\ IsText(s.dependencyLines) /\ Len(s.dependencyLines) = Len(s.services)
  /\ \A i \in DOMAIN s.services :
       IF s.dependencyLines[i] = 0 THEN LinesOf({s.serviceLines[i]}, "depends_on", n) = {}
       ELSE LinesOf({s.serviceLines[i]}, "depends_on", n) = {s.dependencyLines[i]}

\* A binary that was taken is one.
BinariesRead(n) ==
  \A l \in DOMAIN file : l < n /\ file[l].kind = "pair" /\ file[l].key = "binary" => file[l].means # <<>>

\* Every field has what the lines so far mean.
ValuesRead(n, s) ==
  /\ DOMAIN s.manager = DOMAIN BuiltInManager
  /\ \A key \in DOMAIN ManagerField : s.manager[ManagerField[key]] = ManagerSoFar(key, n)
  /\ \A key \in DOMAIN ServiceField : ReadOf(s.defaults, key) = InDefaultsSoFar(key, n)
  /\ \A i \in DOMAIN s.services : \A key \in DOMAIN ServiceField :
       ReadOf(s.services[i], key) = MeantSoFar(s.serviceLines[i], key, n)

\* A state has what the lines before n mean, and knows which headers and keys were there.
Reads(n, s) ==
  /\ SectionRead(n, s)
  /\ HeadersRead(n, s)
  /\ ServicesRead(n, s)
  /\ DependenciesRead(n, s)
  /\ BinariesRead(n)
  /\ ValuesRead(n, s)

\* The inductive invariant of what is read and of what is refused.
ReadingInv ==
  /\ ReaderInv
  /\ ValuesAsMeant
  /\ Reads(at, state)
  /\ phase = "cycles" \/ Accepted => at = Len(file) + 1
  /\ RefusedForAReason

\* The header a line stands under is the last one at or before it.
LEMMA HeaderIs ==
  ASSUME IsText(file), NEW l \in 0..Len(file)
  PROVE  /\ HeaderOf(l) \in 0..l
         /\ HeaderOf(l) # 0 => HeaderOf(l) \in DOMAIN file /\ file[HeaderOf(l)].kind = "section"
         /\ \A h \in 1..l : file[h].kind = "section" => h <= HeaderOf(l)
<1> DEFINE T == {h \in 1..l : file[h].kind = "section"} \cup {0}
<1>1. l \in Nat /\ Len(file) \in Nat /\ DOMAIN file = 1..Len(file)
  BY TextFacts
<1>2. T \in SUBSET Nat /\ T # {} /\ T \subseteq 0..l /\ \A y \in T : y <= l
  BY <1>1
<1>3. HeaderOf(l) = Max(T)
  BY DEF HeaderOf
<1>4. \A y \in T : y = 0 \/ (y \in 1..l /\ file[y].kind = "section")
  OBVIOUS
<1>5. \A h \in 1..l : file[h].kind = "section" => h \in T
  OBVIOUS
<1> HIDE DEF T
<1>6. HeaderOf(l) \in T /\ \A y \in T : HeaderOf(l) >= y
  BY <1>1, <1>2, <1>3, MaxIs
<1>7. HeaderOf(l) # 0 => HeaderOf(l) \in DOMAIN file /\ file[HeaderOf(l)].kind = "section"
  BY <1>1, <1>4, <1>6
<1>8. ASSUME NEW h \in 1..l, file[h].kind = "section"
      PROVE  h <= HeaderOf(l)
  BY <1>2, <1>5, <1>6, <1>8
<1>9. QED
  BY <1>2, <1>6, <1>7, <1>8

\* A line that is no header stands under the header of the line before.
LEMMA HeaderStep ==
  ASSUME IsText(file), NEW n \in DOMAIN file
  PROVE  HeaderOf(n) = IF file[n].kind = "section" THEN n ELSE HeaderOf(n - 1)
<1>1. Len(file) \in Nat /\ DOMAIN file = 1..Len(file)
  BY TextFacts
<1>2. n \in 0..Len(file) /\ n - 1 \in 0..Len(file) /\ n \in 1..n /\ n \in Nat
  BY <1>1
<1>3. /\ HeaderOf(n) \in 0..n
      /\ HeaderOf(n) # 0 => HeaderOf(n) \in DOMAIN file /\ file[HeaderOf(n)].kind = "section"
      /\ \A h \in 1..n : file[h].kind = "section" => h <= HeaderOf(n)
  BY <1>2, HeaderIs
<1>4. /\ HeaderOf(n - 1) \in 0..(n - 1)
      /\ HeaderOf(n - 1) # 0 => HeaderOf(n - 1) \in DOMAIN file /\ file[HeaderOf(n - 1)].kind = "section"
      /\ \A h \in 1..(n - 1) : file[h].kind = "section" => h <= HeaderOf(n - 1)
  BY <1>2, HeaderIs
<1>5. CASE file[n].kind = "section"
  BY <1>2, <1>3, <1>5
<1>6. CASE file[n].kind # "section"
  <2>1. HeaderOf(n) # n
    BY <1>2, <1>3, <1>6
  <2>2. HeaderOf(n) \in 0..(n - 1)
    BY <1>2, <1>3, <2>1
  <2>3. HeaderOf(n) <= HeaderOf(n - 1)
    <3>1. CASE HeaderOf(n) = 0
      BY <1>4, <3>1
    <3>2. CASE HeaderOf(n) # 0
      BY <1>3, <1>4, <2>2, <3>2
    <3>3. QED
      BY <3>1, <3>2
  <2>4. HeaderOf(n - 1) <= HeaderOf(n)
    <3>1. CASE HeaderOf(n - 1) = 0
      BY <1>3, <3>1
    <3>2. CASE HeaderOf(n - 1) # 0
      <4>1. HeaderOf(n - 1) \in 1..n
        BY <1>2, <1>4, <3>2
      <4>2. QED
        BY <1>3, <1>4, <3>2, <4>1
    <3>3. QED
      BY <3>1, <3>2
  <2>5. HeaderOf(n) = HeaderOf(n - 1)
    BY <1>2, <1>3, <1>4, <2>3, <2>4
  <2>6. QED
    BY <1>6, <2>5
<1>7. QED
  BY <1>5, <1>6

\* Some lines of a key are lines of the file before n.
LEMMA LinesAre ==
  ASSUME IsText(file), NEW headers, NEW key, NEW n \in Int
  PROVE  /\ Len(file) \in Nat
         /\ LinesOf(headers, key, n) \in SUBSET (1..Len(file))
         /\ \A l \in LinesOf(headers, key, n) : l < n
<1>1. Len(file) \in Nat /\ DOMAIN file = 1..Len(file)
  BY TextFacts
<1>2. QED
  BY <1>1 DEF LinesOf

\* The next line is one of them or not.
LEMMA LinesStep ==
  ASSUME IsText(file), NEW n \in DOMAIN file, NEW headers, NEW key
  PROVE  LinesOf(headers, key, n + 1) =
           LinesOf(headers, key, n) \cup
             (IF file[n].kind = "pair" /\ file[n].key = key /\ HeaderOf(n) \in headers THEN {n} ELSE {})
<1>1. Len(file) \in Nat /\ DOMAIN file = 1..Len(file)
  BY TextFacts
<1>2. \A l \in DOMAIN file : l < n + 1 <=> l < n \/ l = n
  BY <1>1
<1>3. QED
  BY <1>2 DEF LinesOf

\* At the end of the file they are what the properties speak of.
LEMMA LinesEnd ==
  ASSUME IsText(file), NEW key
  PROVE  /\ \A h : LinesOf({h}, key, Len(file) + 1) = PairsUnder(h, key)
         /\ LinesOf(HeadersNamed("defaults"), key, Len(file) + 1) = InDefaults(key)
         /\ LinesOf(HeadersNamed("manager"), key, Len(file) + 1) =
              UNION {PairsUnder(h, key) : h \in HeadersNamed("manager")}
<1>1. Len(file) \in Nat /\ DOMAIN file = 1..Len(file)
  BY TextFacts
<1>2. \A l \in DOMAIN file : l < Len(file) + 1
  BY <1>1
<1>3. \A h : LinesOf({h}, key, Len(file) + 1) = PairsUnder(h, key)
  BY <1>2 DEF LinesOf, PairsUnder
<1>4. \A headers : LinesOf(headers, key, Len(file) + 1) = UNION {PairsUnder(h, key) : h \in headers}
  BY <1>2 DEF LinesOf, PairsUnder
<1>5. QED
  BY <1>3, <1>4 DEF InDefaults

\* What some lines mean, one after the other.
LEMMA MeantIs ==
  ASSUME NEW N \in Nat, NEW S \in SUBSET (1..N)
  PROVE  /\ IsText(MeantBy(S))
         /\ Len(MeantBy(S)) = Cardinality(S)
         /\ \A k \in 1..Cardinality(S) : MeantBy(S)[k] = file[InOrder(S)[k]].means
<1> DEFINE n == Cardinality(S)
           T == {file[InOrder(S)[k]].means : k \in 1..n}
           t == MeantBy(S)
<1>1. n \in Nat
  BY LinesAreFinite
<1>2. t = [k \in 1..n |-> file[InOrder(S)[k]].means]
  BY DEF MeantBy
<1>3. t \in [1..n -> T]
  BY <1>2
<1> HIDE DEF n, T, t
<1>4. t \in Seq(T)
  BY <1>1, <1>3, SeqDef
<1>5. IsText(t)
  BY <1>4, TextIs
<1>6. Len(t) \in Nat /\ DOMAIN t = 1..Len(t) /\ DOMAIN t = 1..n
  BY <1>3, <1>5, TextFacts
<1>7. \A k, m \in Nat : 1..k = 1..m => k = m
  OBVIOUS
<1>8. Len(t) = n
  BY <1>1, <1>6, <1>7, Zenon
<1>9. QED
  BY <1>2, <1>5, <1>8 DEF n, t

\* A line more means one thing more.
LEMMA MeantStep ==
  ASSUME NEW N \in Nat, NEW S \in SUBSET (1..N), NEW x \in 1..N, \A y \in S : y < x
  PROVE  MeantBy(S \cup {x}) = Append(MeantBy(S), file[x].means)
<1> DEFINE T == S \cup {x}
           n == Cardinality(S)
           more == MeantBy(T)
           longer == Append(MeantBy(S), file[x].means)
<1>1. /\ InOrder(T) = Append(InOrder(S), x)
      /\ IsText(InOrder(S)) /\ Len(InOrder(S)) = n
      /\ Cardinality(T) = n + 1
  BY OrderStep
<1>2. n \in Nat /\ T \in SUBSET (1..N)
  BY LinesAreFinite
<1>3. /\ \A k \in 1..n : InOrder(T)[k] = InOrder(S)[k]
      /\ InOrder(T)[n + 1] = x
  <2> DEFINE s == InOrder(S)
  <2>1. /\ \A k \in 1..Len(s) : Append(s, x)[k] = s[k]
        /\ Append(s, x)[Len(s) + 1] = x
    BY <1>1, LongerIs
  <2> HIDE DEF T, n
  <2>2. QED
    BY <1>1, <2>1
<1>4. /\ IsText(MeantBy(S)) /\ Len(MeantBy(S)) = n
      /\ \A k \in 1..n : MeantBy(S)[k] = file[InOrder(S)[k]].means
  BY MeantIs
<1> HIDE DEF T, n
<1>5. /\ IsText(more) /\ Len(more) = n + 1
      /\ \A k \in 1..(n + 1) : more[k] = file[InOrder(T)[k]].means
  BY <1>1, <1>2, MeantIs
<1>6. /\ IsText(longer) /\ Len(longer) = n + 1
      /\ \A k \in 1..n : longer[k] = MeantBy(S)[k]
      /\ longer[n + 1] = file[x].means
  BY <1>4, LongerIs
<1> HIDE DEF more, longer
<1>7. \A k \in 1..(n + 1) : more[k] = longer[k]
  <2>1. \A k \in 1..(n + 1) : k = n + 1 \/ k \in 1..n
    BY <1>2
  <2>2. QED
    BY <1>3, <1>4, <1>5, <1>6, <2>1
<1>8. more = longer
  BY <1>5, <1>6, <1>7, SameText
<1>9. QED
  BY <1>8 DEF more, longer, T

\* No lines mean nothing.
LEMMA NothingMeant == MeantBy({}) = <<>>
<1>1. {} \in SUBSET (1..0) /\ 0 \in Nat
  OBVIOUS
<1>2. IsText(MeantBy({})) /\ Len(MeantBy({})) = 0
  BY <1>1, MeantIs, NoOrder
<1>3. QED
  BY <1>2, EmptyText, SameText

\* The first line of a key gives it its value.
LEMMA FirstValue ==
  ASSUME NEW N \in Nat, NEW x \in 1..N, NEW key, key # "env", NEW o
  PROVE  ValueOf({x}, key, o) = file[x].means
<1>1. MeantBy({} \cup {x}) = Append(MeantBy({}), file[x].means)
  <2>1. {} \in SUBSET (1..N) /\ \A y \in {} : y < x
    OBVIOUS
  <2>2. QED
    BY <2>1, MeantStep
<1>2. MeantBy({x}) = Append(<<>>, file[x].means)
  BY <1>1, NothingMeant
<1>3. Append(<<>>, file[x].means)[1] = file[x].means
  BY EmptyText, LongerIs
<1>4. {x} # {}
  OBVIOUS
<1>5. QED
  BY <1>2, <1>3, <1>4 DEF ValueOf

\* Each line of "env" gives one value more.
LEMMA OneValueMore ==
  ASSUME NEW N \in Nat, NEW S \in SUBSET (1..N), NEW x \in 1..N, \A y \in S : y < x, NEW o, IsText(o)
  PROVE  ValueOf(S \cup {x}, "env", o) = Append(ValueOf(S, "env", o), file[x].means)
<1>1. MeantBy(S \cup {x}) = Append(MeantBy(S), file[x].means)
  BY MeantStep
<1>2. IsText(MeantBy(S))
  BY MeantIs
<1>3. o \o Append(MeantBy(S), file[x].means) = Append(o \o MeantBy(S), file[x].means)
  BY <1>2, JoinedLonger
<1>4. QED
  BY <1>1, <1>3 DEF ValueOf

\* The environment is a list.
LEMMA VariablesAre ==
  ASSUME NEW N \in Nat, NEW S \in SUBSET (1..N), NEW o, IsText(o)
  PROVE  IsText(ValueOf(S, "env", o))
<1>1. IsText(MeantBy(S))
  BY MeantIs
<1>2. QED
  BY <1>1, JoinedIs DEF ValueOf

\* A line that is not one of some lines leaves them as they are.
LEMMA LinesStay ==
  ASSUME IsText(file), NEW n \in DOMAIN file, NEW headers, NEW key,
         ~(file[n].kind = "pair" /\ file[n].key = key /\ HeaderOf(n) \in headers)
  PROVE  LinesOf(headers, key, n + 1) = LinesOf(headers, key, n)
<1>1. LinesOf(headers, key, n + 1) = LinesOf(headers, key, n) \cup {}
  BY LinesStep
<1>2. QED
  BY <1>1

\* A line of some key leaves what other keys mean.
LEMMA MeaningsStay ==
  ASSUME IsText(file), NEW n \in DOMAIN file, NEW key, ~(file[n].kind = "pair" /\ file[n].key = key)
  PROVE  /\ \A headers : LinesOf(headers, key, n + 1) = LinesOf(headers, key, n)
         /\ InDefaultsSoFar(key, n + 1) = InDefaultsSoFar(key, n)
         /\ ManagerSoFar(key, n + 1) = ManagerSoFar(key, n)
         /\ \A h : MeantSoFar(h, key, n + 1) = MeantSoFar(h, key, n)
<1>1. \A headers : LinesOf(headers, key, n + 1) = LinesOf(headers, key, n)
  BY LinesStay
<1>2. InDefaultsSoFar(key, n + 1) = InDefaultsSoFar(key, n)
  BY <1>1 DEF InDefaultsSoFar
<1>3. QED
  BY <1>1, <1>2 DEF ManagerSoFar, MeantSoFar

\* So does one that is no pair, whatever the key.
LEMMA NoPair ==
  ASSUME IsText(file), NEW n \in DOMAIN file, file[n].kind # "pair"
  PROVE  /\ \A headers, key : LinesOf(headers, key, n + 1) = LinesOf(headers, key, n)
         /\ \A key : InDefaultsSoFar(key, n + 1) = InDefaultsSoFar(key, n)
         /\ \A key : ManagerSoFar(key, n + 1) = ManagerSoFar(key, n)
         /\ \A h, key : MeantSoFar(h, key, n + 1) = MeantSoFar(h, key, n)
         /\ BinariesRead(n) => BinariesRead(n + 1)
<1>1. \A l \in DOMAIN file : l < n + 1 <=> l < n \/ l = n
  <2>1. Len(file) \in Nat /\ DOMAIN file = 1..Len(file)
    BY TextFacts
  <2>2. QED
    BY <2>1
<1>2. BinariesRead(n) => BinariesRead(n + 1)
  BY <1>1 DEF BinariesRead
<1>3. QED
  BY <1>2, MeaningsStay

\* What is said with no lines is what was said before.
LEMMA NoLines ==
  ASSUME NEW key, NEW o, key = "env" => IsText(o)
  PROVE  ValueOf({}, key, o) = o
<1>1. CASE key = "env"
  <2>1. ValueOf({}, key, o) = o \o <<>>
    BY <1>1, NothingMeant DEF ValueOf
  <2>2. o \in Seq(ToSet(o))
    BY <1>1, TextFacts
  <2>3. o \o <<>> = o
    BY <2>2, ConcatEmptySeq
  <2>4. QED
    BY <2>1, <2>3
<1>2. CASE key # "env"
  BY <1>2 DEF ValueOf
<1>3. QED
  BY <1>1, <1>2

\* The environment of the defaults is a list, and so is that of a service.
LEMMA EnvironmentsAre ==
  ASSUME IsText(file), NEW n \in Int
  PROVE  IsText(InDefaultsSoFar("env", n)) /\ \A h : IsText(MeantSoFar(h, "env", n))
<1>1. \A headers : LinesOf(headers, "env", n) \in SUBSET (1..Len(file)) /\ Len(file) \in Nat
  BY LinesAre
<1>2. BuiltInService[ServiceField["env"]] = <<>>
  BY DEF BuiltInService, ServiceField
<1>3. IsText(InDefaultsSoFar("env", n))
  BY <1>1, <1>2, EmptyText, VariablesAre DEF InDefaultsSoFar
<1>4. QED
  BY <1>1, <1>3, VariablesAre DEF MeantSoFar

\* Two keys do not set one field.
LEMMA FieldsDiffer ==
  ASSUME NEW key \in DOMAIN ServiceField, NEW k \in DOMAIN ServiceField, ServiceField[key] = ServiceField[k]
  PROVE  key = k
BY DEF ServiceField

\* Which keys set the fields of "env" and of "output".
LEMMA FieldsOfTwo ==
  ASSUME NEW key \in DOMAIN ServiceField
  PROVE  /\ ServiceField["env"] = "environment" /\ ServiceField["output"] = "output"
         /\ "env" \in DOMAIN ServiceField /\ "output" \in DOMAIN ServiceField
         /\ ServiceField[key] # "outputPath" /\ ServiceField[key] # "name"
BY DEF ServiceField

\* A value that is set is what is read of its key, and the other keys keep theirs.
LEMMA WithReads ==
  ASSUME NEW s, IsService(s), NEW key \in DOMAIN ServiceField, NEW value, NEW k \in DOMAIN ServiceField
  PROVE  ReadOf(With(s, key, value), k) =
           IF k # key THEN ReadOf(s, k)
           ELSE IF key = "env" THEN Append(ReadOf(s, key), value)
           ELSE Said(key, value)
<1> DEFINE field == ServiceField[key]
           other == ServiceField[k]
           t == With(s, key, value)
<1>1. key \notin DOMAIN ManagerField /\ field \in DOMAIN s /\ other \in DOMAIN s
      /\ {"environment", "output", "outputPath"} \subseteq DOMAIN s
  BY FieldsAre DEF IsService, BuiltInService
<1>2. /\ ServiceField["env"] = "environment" /\ ServiceField["output"] = "output"
      /\ "env" \in DOMAIN ServiceField /\ "output" \in DOMAIN ServiceField
      /\ field # "outputPath" /\ other # "outputPath"
  BY FieldsOfTwo
<1>3. field = other => key = k
  BY FieldsDiffer
<1>4. /\ field = "output" => key = "output"
      /\ other = "output" => k = "output"
      /\ other = "environment" => k = "env"
  BY <1>2, FieldsDiffer
<1>5. CASE key = "env"
  <2> DEFINE longer == Append(s.environment, value)
  <2>1. t = [s EXCEPT !.environment = longer]
    BY <1>1, <1>5 DEF With
  <2> HIDE DEF t
  <2>2. \A f \in DOMAIN s : t[f] = IF f = "environment" THEN longer ELSE s[f]
    BY <2>1
  <2>3. ReadOf(s, key) = s.environment
    BY <1>2, <1>5 DEF ReadOf
  <2>4. ReadOf(t, k) = IF k = "output" /\ t.output = "file" THEN t.outputPath ELSE t[other]
    BY DEF ReadOf
  <2>5. t.output = s.output /\ t.outputPath = s.outputPath
    BY <1>1, <2>2
  <2>6. k # key => t[other] = s[other]
    BY <1>1, <1>4, <1>5, <2>2
  <2>7. k = key => t[other] = longer /\ k # "output"
    BY <1>1, <1>2, <1>5, <2>2
  <2>8. QED
    BY <1>5, <2>3, <2>4, <2>5, <2>6, <2>7 DEF ReadOf, t
<1>6. CASE key = "output"
  <2> DEFINE mode == value.mode
             place == IF value.mode = "file" THEN value.path ELSE s.outputPath
  <2>1. t = [s EXCEPT !.output = mode, !.outputPath = place]
    BY <1>1, <1>6 DEF With
  <2> HIDE DEF t
  <2>2. \A f \in DOMAIN s : t[f] = CASE f = "outputPath" -> place
                                     [] f = "output" -> mode
                                     [] OTHER -> s[f]
    <3> HIDE DEF mode, place
    <3>1. QED
      BY <2>1
  <2>3. t.output = mode /\ t.outputPath = place
    BY <1>1, <2>2
  <2>4. ReadOf(t, k) = IF k = "output" /\ t.output = "file" THEN t.outputPath ELSE t[other]
    BY DEF ReadOf
  <2>5. k # key => t[other] = s[other] /\ k # "output"
    BY <1>1, <1>2, <1>4, <1>6, <2>2
  <2>6. k = key => t[other] = mode
    BY <1>1, <1>2, <1>6, <2>2
  <2>7. k # key => ReadOf(t, k) = ReadOf(s, k)
    BY <2>4, <2>5 DEF ReadOf
  <2>8. k = key => ReadOf(t, k) = Said(key, value)
    BY <1>6, <2>3, <2>4, <2>6 DEF Said
  <2>9. QED
    BY <1>6, <2>7, <2>8 DEF t
<1>7. CASE key \notin {"env", "output"}
  <2>1. t = [s EXCEPT ![field] = value]
    BY <1>1, <1>7 DEF With
  <2> HIDE DEF t
  <2>2. \A f \in DOMAIN s : t[f] = IF f = field THEN value ELSE s[f]
    BY <2>1
  <2>3. t.output = s.output /\ t.outputPath = s.outputPath
    BY <1>1, <1>2, <1>4, <1>7, <2>2
  <2>4. ReadOf(t, k) = IF k = "output" /\ t.output = "file" THEN t.outputPath ELSE t[other]
    BY DEF ReadOf
  <2>5. k # key => t[other] = s[other]
    BY <1>1, <1>3, <2>2
  <2>6. k = key => t[other] = value
    BY <1>1, <2>2
  <2>7. k # key => ReadOf(t, k) = ReadOf(s, k)
    BY <2>3, <2>4, <2>5 DEF ReadOf
  <2>8. k = key => ReadOf(t, k) = Said(key, value)
    BY <1>7, <2>4, <2>6 DEF Said
  <2>9. QED
    BY <1>7, <2>7, <2>8 DEF t
<1>8. QED
  BY <1>5, <1>6, <1>7

\* What the reader knows at a line it reads.
LEMMA AtALine ==
  ASSUME ReaderInv, phase = "lines", at <= Len(file)
  PROVE  /\ IsText(file) /\ Len(file) \in Nat /\ DOMAIN file = 1..Len(file)
         /\ at \in DOMAIN file /\ at \in Nat /\ at - 1 \in 0..Len(file) /\ (at + 1) - 1 = at
         /\ IsState(state) /\ DOMAIN state = DOMAIN EmptyState
         /\ IsText(state.services) /\ Len(state.services) \in Nat
         /\ DOMAIN state.services = 1..Len(state.services)
<1>1. IsText(file) /\ Parsed /\ IsState(state)
  BY DEF ReaderInv, Parsed, IsFile
<1>2. Len(file) \in Nat /\ DOMAIN file = 1..Len(file)
  BY <1>1, TextFacts
<1>3. at \in Nat /\ at > 0 /\ at <= Len(file)
  BY <1>1 DEF Parsed
<1>4. at \in DOMAIN file /\ at \in Nat /\ at - 1 \in 0..Len(file) /\ (at + 1) - 1 = at
  BY <1>2, <1>3
<1>5. DOMAIN state = DOMAIN EmptyState /\ IsText(state.services)
  BY <1>1 DEF IsState
<1>6. QED
  BY <1>1, <1>2, <1>4, <1>5, TextFacts

\* The services' headers so far are lines of the file, as many as there are services.
LEMMA HeadersAre ==
  ASSUME ReaderInv
  PROVE  /\ HeadersBefore(at) \in SUBSET (1..Len(file)) /\ Len(file) \in Nat
         /\ \A h \in HeadersBefore(at) : h < at /\ file[h].kind = "section" /\ file[h].word = "service"
         /\ Cardinality(HeadersBefore(at)) = Len(state.services)
<1>1. Len(file) \in Nat /\ DOMAIN file = 1..Len(file)
  BY TextFacts DEF ReaderInv, Parsed, IsFile
<1>2. QED
  BY <1>1 DEF ReaderInv, Parsed, HeadersBefore, HeadersNamed

\* The lines of the services are their headers, in order.
LEMMA ServiceLinesAre ==
  ASSUME ReaderInv, ServicesRead(at, state)
  PROVE  /\ \A i \in DOMAIN state.services : state.serviceLines[i] \in HeadersBefore(at)
         /\ \A i, j \in DOMAIN state.services : i < j => state.serviceLines[i] < state.serviceLines[j]
         /\ \A h \in HeadersBefore(at) : \E i \in DOMAIN state.services : state.serviceLines[i] = h
<1> DEFINE S == HeadersBefore(at)
           n == Cardinality(S)
           s == state.serviceLines
<1>1. S \in SUBSET (1..Len(file)) /\ Len(file) \in Nat /\ n = Len(state.services)
  BY HeadersAre
<1>2. DOMAIN state.services = 1..n
  <2>1. IsText(state.services)
    BY DEF ReaderInv, Parsed, IsState
  <2>2. QED
    BY <1>1, <2>1, TextFacts
<1>3. s = InOrder(S)
  BY DEF ServicesRead
<1> HIDE DEF S, s
<1>4. IsOrder(s, S)
  BY <1>1, <1>3, OrderIs
<1>5. s \in [1..n -> S] /\ \A i, j \in 1..n : i < j => s[i] < s[j]
  BY <1>4 DEF IsOrder
<1>6. S \in SUBSET Nat /\ IsFiniteSet(S)
  <2>1. 1..Len(file) \subseteq Nat
    BY <1>1
  <2>2. QED
    BY <1>1, <2>1, LinesAreFinite
<1>7. \A h \in S : \E i \in 1..n : s[i] = h
  BY <1>4, <1>6, OrderHasAll
<1>8. QED
  BY <1>2, <1>5, <1>7 DEF S, s

\* Nothing of a section is read at its header, and what is read of the others stays.
LEMMA UnderNewHeader ==
  ASSUME IsText(file), NEW n \in DOMAIN file, file[n].kind = "section"
  PROVE  \A key : LinesOf({n}, key, n + 1) = {}
<1>1. Len(file) \in Nat /\ DOMAIN file = 1..Len(file)
  BY TextFacts
<1>2. ASSUME NEW key, NEW l \in LinesOf({n}, key, n + 1)
      PROVE  FALSE
  <2>1. l \in DOMAIN file /\ l < n + 1 /\ file[l].kind = "pair" /\ HeaderOf(l) = n
    BY DEF LinesOf
  <2>2. l # n
    BY <2>1
  <2>3. l \in 0..Len(file) /\ l < n
    BY <1>1, <2>1, <2>2
  <2>4. HeaderOf(l) \in 0..l
    BY <2>3, HeaderIs
  <2>5. QED
    BY <1>1, <2>1, <2>3, <2>4
<1>3. QED
  BY <1>2

\* A blank line changes nothing of what is read.
LEMMA BlankReads ==
  ASSUME ReaderInv, Reads(at, state), BlankLine
  PROVE  Reads(at + 1, state)
<1> DEFINE s == state
<1>1. /\ IsText(file) /\ Len(file) \in Nat /\ DOMAIN file = 1..Len(file)
      /\ at \in DOMAIN file /\ (at + 1) - 1 = at
  BY AtALine DEF BlankLine, AtLine
<1>2. file[at].kind = "blank"
  BY DEF BlankLine, AtLine, Line
<1>3. HeaderOf(at) = HeaderOf(at - 1)
  BY <1>1, <1>2, HeaderStep
<1>4. /\ \A headers, key : LinesOf(headers, key, at + 1) = LinesOf(headers, key, at)
      /\ \A key : InDefaultsSoFar(key, at + 1) = InDefaultsSoFar(key, at)
      /\ \A key : ManagerSoFar(key, at + 1) = ManagerSoFar(key, at)
      /\ \A h, key : MeantSoFar(h, key, at + 1) = MeantSoFar(h, key, at)
      /\ BinariesRead(at) => BinariesRead(at + 1)
  BY <1>1, <1>2, NoPair
<1>5. \A l \in DOMAIN file : l < at + 1 <=> l < at \/ l = at
  BY <1>1
<1>6. \A word : at \notin HeadersNamed(word) /\ \A h \in HeadersNamed(word) : h \in DOMAIN file
  BY <1>2 DEF HeadersNamed
<1>7. HeadersBefore(at + 1) = HeadersBefore(at)
  BY <1>5, <1>6 DEF HeadersBefore
<1>8. SectionRead(at + 1, s)
  BY <1>1, <1>2, <1>3, <1>4, <1>5 DEF Reads, SectionRead
<1>9. HeadersRead(at + 1, s)
  BY <1>5, <1>6, <1>7 DEF Reads, HeadersRead
<1>10. ServicesRead(at + 1, s)
  BY <1>1, <1>3, <1>7 DEF Reads, ServicesRead
<1>11. DependenciesRead(at + 1, s)
  BY <1>4 DEF Reads, DependenciesRead
<1>12. BinariesRead(at + 1)
  BY <1>4 DEF Reads
<1>13. ValuesRead(at + 1, s)
  BY <1>4 DEF Reads, ValuesRead
<1>14. QED
  BY <1>8, <1>9, <1>10, <1>11, <1>12, <1>13 DEF Reads

\* The section a header opens, with no key seen yet.
LEMMA SectionOpened ==
  ASSUME ReaderInv, AtLine("section"), NEW s, s.section = Line.word, s.section # "none", s.seenKeys = {}
  PROVE  SectionRead(at + 1, s) /\ HeaderOf((at + 1) - 1) = at
<1>1. /\ IsText(file) /\ Len(file) \in Nat /\ DOMAIN file = 1..Len(file)
      /\ at \in DOMAIN file /\ at \in Nat /\ (at + 1) - 1 = at
  BY AtALine DEF AtLine
<1>2. file[at].kind = "section" /\ file[at].word = s.section
  BY DEF AtLine, Line
<1>3. HeaderOf((at + 1) - 1) = at
  BY <1>1, <1>2, HeaderStep
<1>4. \A key : LinesOf({at}, key, at + 1) = {}
  BY <1>1, <1>2, UnderNewHeader
<1>5. at \in HeadersNamed(s.section)
  BY <1>1, <1>2 DEF HeadersNamed
<1>6. ASSUME NEW l \in DOMAIN file, l < at + 1, file[l].kind = "pair", HeaderOf(l) = at
      PROVE  FALSE
  <2>1. l \in LinesOf({at}, file[l].key, at + 1)
    BY <1>6 DEF LinesOf
  <2>2. QED
    BY <1>4, <2>1
<1>7. QED
  BY <1>3, <1>5, <1>6 DEF SectionRead

\* The header of the manager or of the defaults leaves all that is read.
LEMMA OpenedReads ==
  ASSUME ReaderInv, Reads(at, state), AtLine("section"), Line.word \in {"manager", "defaults"},
         NEW s, s.section = Line.word, s.seenKeys = {}, s.manager = state.manager, s.defaults = state.defaults,
         s.services = state.services, s.serviceLines = state.serviceLines,
         s.dependencyLines = state.dependencyLines, HeadersRead(at + 1, s)
  PROVE  Reads(at + 1, s)
<1>1. /\ IsText(file) /\ Len(file) \in Nat /\ DOMAIN file = 1..Len(file)
      /\ at \in DOMAIN file /\ at \in Nat /\ (at + 1) - 1 = at
  BY AtALine DEF AtLine
<1>2. file[at].kind = "section" /\ file[at].word # "service"
  BY DEF AtLine, Line
<1>3. SectionRead(at + 1, s)
  BY SectionOpened
<1>4. /\ \A headers, key : LinesOf(headers, key, at + 1) = LinesOf(headers, key, at)
      /\ \A key : InDefaultsSoFar(key, at + 1) = InDefaultsSoFar(key, at)
      /\ \A key : ManagerSoFar(key, at + 1) = ManagerSoFar(key, at)
      /\ \A h, key : MeantSoFar(h, key, at + 1) = MeantSoFar(h, key, at)
      /\ BinariesRead(at) => BinariesRead(at + 1)
  BY <1>1, <1>2, NoPair
<1>5. HeadersBefore(at + 1) = HeadersBefore(at)
  <2>1. \A h \in DOMAIN file : h < at + 1 <=> h < at \/ h = at
    BY <1>1
  <2>2. QED
    BY <1>2, <2>1 DEF HeadersBefore, HeadersNamed
<1>6. ServicesRead(at + 1, s)
  <2>1. s.section # "service"
    OBVIOUS
  <2>2. QED
    BY <1>5, <2>1 DEF Reads, ServicesRead
<1>7. DependenciesRead(at + 1, s)
  <2>1. /\ LinesOf(HeadersNamed("defaults"), "depends_on", at + 1) = LinesOf(HeadersNamed("defaults"), "depends_on", at)
        /\ \A h : LinesOf({h}, "depends_on", at + 1) = LinesOf({h}, "depends_on", at)
    BY <1>4, Zenon
  <2>2. DependenciesRead(at, state)
    BY DEF Reads
  <2>3. QED
    BY <2>1, <2>2 DEF DependenciesRead
<1>8. ValuesRead(at + 1, s)
  BY <1>4 DEF Reads, ValuesRead
<1>9. QED
  BY <1>3, <1>4, <1>6, <1>7, <1>8 DEF Reads

\* Which headers there are behind the next line, when it is one.
LEMMA HeadersStep ==
  ASSUME IsText(file), NEW n \in DOMAIN file, file[n].kind = "section"
  PROVE  \A word : \A h \in HeadersNamed(word) :
           h < n + 1 <=> h < n \/ (h = n /\ file[n].word = word)
<1>1. Len(file) \in Nat /\ DOMAIN file = 1..Len(file)
  BY TextFacts
<1>2. \A h \in DOMAIN file : h < n + 1 <=> h < n \/ h = n
  BY <1>1
<1>3. QED
  BY <1>2 DEF HeadersNamed

\* The header of the manager is read once.
LEMMA OpenManagerReads ==
  ASSUME ReaderInv, Reads(at, state), AtLine("section"), Line.word = "manager", ~state.managerSeen
  PROVE  Reads(at + 1, [Opened("manager") EXCEPT !.managerSeen = TRUE])
<1> DEFINE s == [Opened("manager") EXCEPT !.managerSeen = TRUE]
<1>1. /\ IsText(file) /\ at \in DOMAIN file /\ DOMAIN state = DOMAIN EmptyState
      /\ Len(file) \in Nat /\ DOMAIN file = 1..Len(file)
  BY AtALine DEF AtLine
<1>2. file[at].kind = "section" /\ file[at].word = "manager"
  BY DEF AtLine, Line
<1>3. /\ s.section = "manager" /\ s.seenKeys = {} /\ s.manager = state.manager /\ s.defaults = state.defaults
      /\ s.services = state.services /\ s.serviceLines = state.serviceLines
      /\ s.dependencyLines = state.dependencyLines
      /\ s.managerSeen = TRUE /\ s.defaultsSeen = state.defaultsSeen
  BY <1>1, StateParts DEF Opened
<1> HIDE DEF s
<1>4. \A word : \A h \in HeadersNamed(word) : h < at + 1 <=> h < at \/ (h = at /\ word = "manager")
  BY <1>1, <1>2, HeadersStep
<1>5. at \in HeadersNamed("manager")
  BY <1>1, <1>2 DEF HeadersNamed
<1>6. \A h \in HeadersNamed("manager") : ~(h < at)
  BY DEF Reads, HeadersRead
<1>7. HeadersBefore(at + 1) = HeadersBefore(at)
  BY <1>4 DEF HeadersBefore
<1>8. HeadersRead(at + 1, s)
  <2>1. \A word \in {"manager", "defaults"} : \A g, h \in HeadersNamed(word) : g < at + 1 /\ h < at + 1 => g = h
    BY <1>4, <1>6 DEF Reads, HeadersRead
  <2>2. s.managerSeen <=> \E h \in HeadersNamed("manager") : h < at + 1
    BY <1>3, <1>4, <1>5
  <2>3. s.defaultsSeen <=> \E h \in HeadersNamed("defaults") : h < at + 1
    BY <1>3, <1>4 DEF Reads, HeadersRead
  <2>4. \A g \in HeadersNamed("defaults"), h \in HeadersBefore(at + 1) : g < at + 1 => g < h
    BY <1>4, <1>7 DEF Reads, HeadersRead
  <2>5. QED
    BY <2>1, <2>2, <2>3, <2>4 DEF HeadersRead
<1>9. Line.word \in {"manager", "defaults"} /\ s.section = Line.word
  BY <1>3
<1>10. Reads(at + 1, s)
  BY <1>3, <1>8, <1>9, OpenedReads
<1>11. QED
  BY <1>10 DEF s

\* So is that of the defaults, before any service.
LEMMA OpenDefaultsReads ==
  ASSUME ReaderInv, Reads(at, state), AtLine("section"), Line.word = "defaults", state.services = <<>>,
         ~state.defaultsSeen
  PROVE  Reads(at + 1, [Opened("defaults") EXCEPT !.defaultsSeen = TRUE])
<1> DEFINE s == [Opened("defaults") EXCEPT !.defaultsSeen = TRUE]
<1>1. /\ IsText(file) /\ at \in DOMAIN file /\ DOMAIN state = DOMAIN EmptyState
      /\ Len(file) \in Nat /\ DOMAIN file = 1..Len(file)
  BY AtALine DEF AtLine
<1>2. file[at].kind = "section" /\ file[at].word = "defaults"
  BY DEF AtLine, Line
<1>3. /\ s.section = "defaults" /\ s.seenKeys = {} /\ s.manager = state.manager /\ s.defaults = state.defaults
      /\ s.services = state.services /\ s.serviceLines = state.serviceLines
      /\ s.dependencyLines = state.dependencyLines
      /\ s.managerSeen = state.managerSeen /\ s.defaultsSeen = TRUE
  BY <1>1, StateParts DEF Opened
<1> HIDE DEF s
<1>4. \A word : \A h \in HeadersNamed(word) : h < at + 1 <=> h < at \/ (h = at /\ word = "defaults")
  BY <1>1, <1>2, HeadersStep
<1>5. at \in HeadersNamed("defaults")
  BY <1>1, <1>2 DEF HeadersNamed
<1>6. \A h \in HeadersNamed("defaults") : ~(h < at)
  BY DEF Reads, HeadersRead
<1>7. HeadersBefore(at + 1) = {}
  <2>1. HeadersBefore(at + 1) = HeadersBefore(at)
    BY <1>4 DEF HeadersBefore
  <2>2. IsFiniteSet(HeadersBefore(at)) /\ Cardinality(HeadersBefore(at)) = 0
    BY EmptySeq DEF ReaderInv, Parsed
  <2>3. QED
    BY <2>1, <2>2, FS_EmptySet
<1>8. HeadersRead(at + 1, s)
  <2>1. \A word \in {"manager", "defaults"} : \A g, h \in HeadersNamed(word) : g < at + 1 /\ h < at + 1 => g = h
    BY <1>4, <1>6 DEF Reads, HeadersRead
  <2>2. s.managerSeen <=> \E h \in HeadersNamed("manager") : h < at + 1
    BY <1>3, <1>4 DEF Reads, HeadersRead
  <2>3. s.defaultsSeen <=> \E h \in HeadersNamed("defaults") : h < at + 1
    BY <1>3, <1>4, <1>5
  <2>4. \A g \in HeadersNamed("defaults"), h \in HeadersBefore(at + 1) : g < at + 1 => g < h
    BY <1>7
  <2>5. QED
    BY <2>1, <2>2, <2>3, <2>4 DEF HeadersRead
<1>9. Line.word \in {"manager", "defaults"} /\ s.section = Line.word
  BY <1>3
<1>10. Reads(at + 1, s)
  BY <1>3, <1>8, <1>9, OpenedReads
<1>11. QED
  BY <1>10 DEF s

\* A new service has what is read in the defaults.
LEMMA NewServiceReads ==
  ASSUME IsState(state), NEW name, NEW key \in DOMAIN ServiceField
  PROVE  ReadOf(NewService(name), key) = ReadOf(state.defaults, key)
<1> DEFINE d == state.defaults
           s == NewService(name)
           field == ServiceField[key]
<1>1. IsService(d) /\ s = [d EXCEPT !.name = name]
  BY DEF IsState, NewService
<1>2. field # "name" /\ field \in DOMAIN d /\ {"output", "outputPath"} \subseteq DOMAIN d
  BY <1>1, FieldsAre DEF IsService, BuiltInService
<1> HIDE DEF s, d
<1>3. \A f \in DOMAIN d : f # "name" => s[f] = d[f]
  BY <1>1
<1>4. s.output = d.output /\ s.outputPath = d.outputPath /\ s[field] = d[field]
  BY <1>2, <1>3
<1>5. QED
  BY <1>4 DEF ReadOf, s, d

\* The header of a service adds one that has what is read in the defaults.
LEMMA OpenServiceReads ==
  ASSUME ReaderInv, Reads(at, state), AtLine("section"), Line.word = "service"
  PROVE  Reads(at + 1, [Opened("service") EXCEPT !.services = Append(@, NewService(Line.name)),
                                                 !.serviceLines = Append(@, at),
                                                 !.dependencyLines = Append(@, 0)])
<1> DEFINE new == NewService(Line.name)
           more == Append(state.services, new)
           lines == Append(state.serviceLines, at)
           places == Append(state.dependencyLines, 0)
           n == Len(state.services)
           s == [Opened("service") EXCEPT !.services = Append(@, NewService(Line.name)),
                                          !.serviceLines = Append(@, at),
                                          !.dependencyLines = Append(@, 0)]
<1>1. /\ IsText(file) /\ Len(file) \in Nat /\ DOMAIN file = 1..Len(file)
      /\ at \in DOMAIN file /\ at \in Nat /\ (at + 1) - 1 = at
      /\ IsState(state) /\ DOMAIN state = DOMAIN EmptyState
      /\ IsText(state.services) /\ n \in Nat /\ DOMAIN state.services = 1..n
  BY AtALine DEF AtLine
<1>2. file[at].kind = "section" /\ file[at].word = "service" /\ Line = file[at]
  BY DEF AtLine, Line
<1>3. /\ s.section = "service" /\ s.seenKeys = {} /\ s.manager = state.manager /\ s.defaults = state.defaults
      /\ s.services = more /\ s.serviceLines = lines /\ s.dependencyLines = places
      /\ s.managerSeen = state.managerSeen /\ s.defaultsSeen = state.defaultsSeen
  BY <1>1, StateParts DEF Opened
<1>4. new.name = Line.name /\ \A key \in DOMAIN ServiceField : ReadOf(new, key) = ReadOf(state.defaults, key)
  BY <1>1, NewServiceIs, NewServiceReads
<1> HIDE DEF s, new
<1>5. /\ Len(more) = n + 1 /\ DOMAIN more = 1..(n + 1)
      /\ \A i \in 1..n : more[i] = state.services[i]
      /\ more[n + 1] = new
  BY <1>1, LongerIs
<1>6. \A word : \A h \in HeadersNamed(word) : h < at + 1 <=> h < at \/ (h = at /\ word = "service")
  BY <1>1, <1>2, HeadersStep
<1>7. HeadersBefore(at + 1) = HeadersBefore(at) \cup {at}
  <2>1. at \in HeadersNamed("service")
    BY <1>1, <1>2 DEF HeadersNamed
  <2>2. QED
    BY <1>6, <2>1 DEF HeadersBefore
<1>8. /\ lines = InOrder(HeadersBefore(at + 1))
      /\ Cardinality(HeadersBefore(at + 1)) = n + 1
      /\ IsText(state.serviceLines) /\ Len(state.serviceLines) = n
  <2> DEFINE S == HeadersBefore(at)
  <2>1. S \in SUBSET (1..Len(file)) /\ Len(file) \in Nat /\ (\A y \in S : y < at) /\ Cardinality(S) = n
    BY HeadersAre
  <2>2. state.serviceLines = InOrder(S)
    BY DEF Reads, ServicesRead
  <2> HIDE DEF S
  <2>3. at \in 1..Len(file)
    BY <1>1
  <2>4. /\ InOrder(S \cup {at}) = Append(InOrder(S), at)
        /\ IsText(InOrder(S)) /\ Len(InOrder(S)) = Cardinality(S)
        /\ Cardinality(S \cup {at}) = Cardinality(S) + 1
    BY <2>1, <2>3, OrderStep
  <2>5. QED
    BY <1>7, <2>1, <2>2, <2>4 DEF S
<1>9. /\ \A i \in 1..n : lines[i] = state.serviceLines[i]
      /\ lines[n + 1] = at
  BY <1>8, LongerIs
<1>10. IsText(state.dependencyLines) /\ Len(state.dependencyLines) = n
  BY DEF Reads, DependenciesRead
<1>11. /\ IsText(places) /\ Len(places) = n + 1
       /\ \A i \in 1..n : places[i] = state.dependencyLines[i]
       /\ places[n + 1] = 0
  BY <1>10, LongerIs
<1>12. /\ \A headers, key : LinesOf(headers, key, at + 1) = LinesOf(headers, key, at)
       /\ \A key : InDefaultsSoFar(key, at + 1) = InDefaultsSoFar(key, at)
       /\ \A key : ManagerSoFar(key, at + 1) = ManagerSoFar(key, at)
       /\ \A h, key : MeantSoFar(h, key, at + 1) = MeantSoFar(h, key, at)
       /\ BinariesRead(at) => BinariesRead(at + 1)
  BY <1>1, <1>2, NoPair
<1>13. \A i \in 1..(n + 1) : i \in 1..n \/ i = n + 1
  BY <1>1
<1> HIDE DEF more, lines, places
<1>14. SectionRead(at + 1, s) /\ HeaderOf((at + 1) - 1) = at
  BY <1>2, <1>3, SectionOpened
<1>15. HeadersRead(at + 1, s)
  <2>1. \A word \in {"manager", "defaults"} : \A g, h \in HeadersNamed(word) : g < at + 1 /\ h < at + 1 => g = h
    BY <1>6 DEF Reads, HeadersRead
  <2>2. s.managerSeen <=> \E h \in HeadersNamed("manager") : h < at + 1
    BY <1>3, <1>6 DEF Reads, HeadersRead
  <2>3. s.defaultsSeen <=> \E h \in HeadersNamed("defaults") : h < at + 1
    BY <1>3, <1>6 DEF Reads, HeadersRead
  <2>4. \A g \in HeadersNamed("defaults"), h \in HeadersBefore(at + 1) : g < at + 1 => g < h
    BY <1>6, <1>7 DEF Reads, HeadersRead
  <2>5. QED
    BY <2>1, <2>2, <2>3, <2>4 DEF HeadersRead
<1>16. ServicesRead(at + 1, s)
  <2>1. \A i \in 1..(n + 1) : more[i].name = file[lines[i]].name
    <3>1. \A i \in 1..n : state.services[i].name = file[state.serviceLines[i]].name
      BY <1>1 DEF Reads, ServicesRead
    <3>2. QED
      BY <1>2, <1>4, <1>5, <1>9, <1>13, <3>1
  <2>2. QED
    BY <1>3, <1>5, <1>8, <1>9, <1>14, <2>1 DEF ServicesRead
<1>17. DependenciesRead(at + 1, s)
  <2>1. LinesOf(HeadersNamed("defaults"), "depends_on", at + 1) = {}
    BY <1>12 DEF Reads, DependenciesRead
  <2>2. ASSUME NEW i \in 1..n
        PROVE  IF places[i] = 0 THEN LinesOf({lines[i]}, "depends_on", at + 1) = {}
               ELSE LinesOf({lines[i]}, "depends_on", at + 1) = {places[i]}
    <3>1. LinesOf({lines[i]}, "depends_on", at + 1) = LinesOf({state.serviceLines[i]}, "depends_on", at)
      BY <1>9, <1>12
    <3>2. IF state.dependencyLines[i] = 0 THEN LinesOf({state.serviceLines[i]}, "depends_on", at) = {}
          ELSE LinesOf({state.serviceLines[i]}, "depends_on", at) = {state.dependencyLines[i]}
      BY <1>1 DEF Reads, DependenciesRead
    <3>3. QED
      BY <1>11, <3>1, <3>2
  <2>3. places[n + 1] = 0 /\ LinesOf({lines[n + 1]}, "depends_on", at + 1) = {}
    BY <1>1, <1>2, <1>9, <1>11, UnderNewHeader
  <2>4. \A i \in 1..(n + 1) :
          IF places[i] = 0 THEN LinesOf({lines[i]}, "depends_on", at + 1) = {}
          ELSE LinesOf({lines[i]}, "depends_on", at + 1) = {places[i]}
    BY <1>13, <2>2, <2>3
  <2>5. QED
    BY <1>3, <1>5, <1>11, <2>1, <2>4 DEF DependenciesRead
<1>18. ValuesRead(at + 1, s)
  <2>1. /\ DOMAIN s.manager = DOMAIN BuiltInManager
        /\ \A key \in DOMAIN ManagerField : s.manager[ManagerField[key]] = ManagerSoFar(key, at + 1)
        /\ \A key \in DOMAIN ServiceField : ReadOf(s.defaults, key) = InDefaultsSoFar(key, at + 1)
    BY <1>3, <1>12 DEF Reads, ValuesRead
  <2>2. ASSUME NEW i \in 1..n, NEW key \in DOMAIN ServiceField
        PROVE  ReadOf(more[i], key) = MeantSoFar(lines[i], key, at + 1)
    <3>1. ReadOf(state.services[i], key) = MeantSoFar(state.serviceLines[i], key, at)
      BY <1>1 DEF Reads, ValuesRead
    <3>2. QED
      BY <1>5, <1>9, <1>12, <3>1
  <2>3. ASSUME NEW key \in DOMAIN ServiceField
        PROVE  ReadOf(more[n + 1], key) = MeantSoFar(lines[n + 1], key, at + 1)
    <3>1. ReadOf(more[n + 1], key) = InDefaultsSoFar(key, at + 1)
      BY <1>3, <1>4, <1>5, <2>1
    <3>2. LinesOf({at}, key, at + 1) = {}
      BY <1>1, <1>2, UnderNewHeader
    <3>3. at + 1 \in Int
      BY <1>1
    <3>4. key = "env" => IsText(InDefaultsSoFar(key, at + 1))
      BY <1>1, <3>3, EnvironmentsAre
    <3>5. MeantSoFar(at, key, at + 1) = InDefaultsSoFar(key, at + 1)
      BY <3>2, <3>4, NoLines DEF MeantSoFar
    <3>6. QED
      BY <1>9, <3>1, <3>5
  <2>4. \A i \in 1..(n + 1) : \A key \in DOMAIN ServiceField :
          ReadOf(more[i], key) = MeantSoFar(lines[i], key, at + 1)
    BY <1>13, <2>2, <2>3
  <2>5. QED
    BY <1>3, <1>5, <2>1, <2>4 DEF ValuesRead
<1>19. BinariesRead(at + 1)
  BY <1>12 DEF Reads
<1>20. Reads(at + 1, s)
  BY <1>14, <1>15, <1>16, <1>17, <1>18, <1>19 DEF Reads
<1>21. QED
  BY <1>20 DEF s

\* The section and the key of a pair that is taken.
LEMMA PairIs ==
  ASSUME ReaderInv, Reads(at, state), AtLine("pair"), KeyFault = "Ok"
  PROVE  /\ file[at].kind = "pair" /\ Line = file[at] /\ file[at].key = Line.key
         /\ HeaderOf(at) = HeaderOf(at - 1)
         /\ HeaderOf(at) \in HeadersNamed(state.section) /\ HeaderOf(at) < at
         /\ state.section \in {"manager", "defaults", "service"}
         /\ Line.key \in Allowed(state.section)
         /\ Line.key # "env" => LinesOf({HeaderOf(at)}, Line.key, at) = {}
<1>1. /\ IsText(file) /\ Len(file) \in Nat /\ DOMAIN file = 1..Len(file)
      /\ at \in DOMAIN file /\ at \in Nat /\ at - 1 \in 0..Len(file) /\ IsState(state)
  BY AtALine DEF AtLine
<1>2. file[at].kind = "pair" /\ Line = file[at] /\ file[at].key = Line.key
  BY DEF AtLine, Line
<1>3. HeaderOf(at) = HeaderOf(at - 1)
  BY <1>1, <1>2, HeaderStep
<1>4. /\ state.section # "none"
      /\ ~(Line.key # "env" /\ Line.key \in state.seenKeys)
      /\ Line.key \in Allowed(state.section)
  BY DEF KeyFault
<1>5. state.section \in {"manager", "defaults", "service"}
  BY <1>1, <1>4 DEF IsState
<1>6. HeaderOf(at) \in HeadersNamed(state.section)
  BY <1>3, <1>4 DEF Reads, SectionRead
<1>7. HeaderOf(at) < at
  <2>1. HeaderOf(at - 1) \in 0..(at - 1)
    BY <1>1, HeaderIs
  <2>2. QED
    BY <1>1, <1>3, <2>1
<1>8. ASSUME Line.key # "env"
      PROVE  LinesOf({HeaderOf(at)}, Line.key, at) = {}
  <2>1. \A l \in LinesOf({HeaderOf(at)}, Line.key, at) : Line.key \in state.seenKeys
    BY <1>3 DEF Reads, SectionRead, LinesOf
  <2>2. QED
    BY <1>4, <1>8, <2>1
<1>9. QED
  BY <1>2, <1>3, <1>4, <1>5, <1>6, <1>7, <1>8

\* The section and its headers stay at a pair, and its key counts as seen.
LEMMA PairStays ==
  ASSUME ReaderInv, Reads(at, state), AtLine("pair"), KeyFault = "Ok",
         NEW s, s.section = state.section, s.seenKeys = state.seenKeys \cup {Line.key},
         s.managerSeen = state.managerSeen, s.defaultsSeen = state.defaultsSeen
  PROVE  /\ SectionRead(at + 1, s) /\ HeadersRead(at + 1, s)
         /\ HeadersBefore(at + 1) = HeadersBefore(at)
         /\ HeaderOf((at + 1) - 1) = HeaderOf(at)
<1> DEFINE H == HeaderOf(at)
<1>1. /\ IsText(file) /\ Len(file) \in Nat /\ DOMAIN file = 1..Len(file)
      /\ at \in DOMAIN file /\ at \in Nat /\ (at + 1) - 1 = at
  BY AtALine DEF AtLine
<1>2. /\ file[at].kind = "pair" /\ file[at].key = Line.key
      /\ H = HeaderOf(at - 1) /\ H \in HeadersNamed(state.section)
      /\ state.section \in {"manager", "defaults", "service"}
  BY PairIs
<1>3. \A l \in DOMAIN file : l < at + 1 <=> l < at \/ l = at
  BY <1>1
<1>4. \A word : at \notin HeadersNamed(word) /\ \A h \in HeadersNamed(word) : h \in DOMAIN file
  BY <1>2 DEF HeadersNamed
<1>5. \A word : \A h \in HeadersNamed(word) : h < at + 1 <=> h < at
  BY <1>3, <1>4
<1>6. HeadersBefore(at + 1) = HeadersBefore(at)
  BY <1>5 DEF HeadersBefore
<1>7. HeadersRead(at + 1, s)
  BY <1>5, <1>6 DEF Reads, HeadersRead
<1> HIDE DEF H
<1>8. \A key : LinesOf({H}, key, at + 1) = LinesOf({H}, key, at) \cup (IF key = Line.key THEN {at} ELSE {})
  BY <1>1, <1>2, LinesStep DEF H
<1>9. SectionRead(at + 1, s)
  <2>1. \A key \in s.seenKeys : LinesOf({H}, key, at + 1) # {}
    BY <1>2, <1>8 DEF Reads, SectionRead
  <2>2. \A l \in DOMAIN file : l < at + 1 /\ file[l].kind = "pair" /\ HeaderOf(l) = H => file[l].key \in s.seenKeys
    BY <1>2, <1>3 DEF Reads, SectionRead
  <2>3. QED
    BY <1>1, <1>2, <2>1, <2>2 DEF SectionRead, H
<1>10. QED
  BY <1>1, <1>6, <1>7, <1>9

\* A binary that is taken is one.
LEMMA BinaryStep ==
  ASSUME IsText(file), NEW n \in DOMAIN file, BinariesRead(n), file[n].key = "binary" => file[n].means # <<>>
  PROVE  BinariesRead(n + 1)
<1>1. Len(file) \in Nat /\ DOMAIN file = 1..Len(file)
  BY TextFacts
<1>2. \A l \in DOMAIN file : l < n + 1 <=> l < n \/ l = n
  BY <1>1
<1>3. QED
  BY <1>2 DEF BinariesRead

\* The lines of the manager, or of the defaults, are under its one header.
LEMMA OneHeader ==
  ASSUME ReaderInv, HeadersRead(at, state), NEW word \in {"manager", "defaults"},
         NEW h \in HeadersNamed(word), h < at, NEW key
  PROVE  LinesOf(HeadersNamed(word), key, at) = LinesOf({h}, key, at)
<1>1. IsText(file) /\ Len(file) \in Nat /\ DOMAIN file = 1..Len(file) /\ at \in Nat
  BY TextFacts DEF ReaderInv, Parsed, IsFile
<1>2. ASSUME NEW l \in DOMAIN file, l < at, HeaderOf(l) \in HeadersNamed(word)
      PROVE  HeaderOf(l) = h
  <2>1. HeaderOf(l) \in 0..l
    <3>1. l \in 0..Len(file)
      BY <1>1
    <3>2. QED
      BY <1>1, <3>1, HeaderIs
  <2>2. HeaderOf(l) < at
    BY <1>1, <1>2, <2>1
  <2>3. QED
    BY <1>2, <2>2 DEF HeadersRead
<1>3. QED
  BY <1>2 DEF LinesOf

\* No line is under headers of two words.
LEMMA OtherWord ==
  ASSUME NEW h, NEW word, h \in HeadersNamed(word), NEW other, other # word
  PROVE  h \notin HeadersNamed(other)
BY DEF HeadersNamed

\* The fields of the manager.
LEMMA ManagerFields ==
  ASSUME NEW key \in DOMAIN ManagerField
  PROVE  /\ key \notin DOMAIN ServiceField /\ key # "env" /\ key # "output"
         /\ ManagerField[key] \in DOMAIN BuiltInManager
         /\ \A k \in DOMAIN ManagerField : ManagerField[k] = ManagerField[key] => k = key
BY DEF ManagerField, ServiceField, BuiltInManager

\* A pair of the manager is what is read for its key.
LEMMA ManagerPairReads ==
  ASSUME ReaderInv, Reads(at, state), AtLine("pair"), KeyFault = "Ok", state.section = "manager",
         NEW value, file[at].means = Said(Line.key, value), Line.key = "binary" => file[at].means # <<>>
  PROVE  Reads(at + 1, [Applied(Line.key, value) EXCEPT !.seenKeys = @ \cup {Line.key}])
<1> DEFINE key == Line.key
           old == state.manager
           new == With(old, key, value)
           applied == Applied(key, value)
           s == [Applied(Line.key, value) EXCEPT !.seenKeys = @ \cup {Line.key}]
           S == LinesOf(HeadersNamed("manager"), key, at)
<1>1. /\ IsText(file) /\ Len(file) \in Nat /\ DOMAIN file = 1..Len(file)
      /\ at \in DOMAIN file /\ at \in Nat /\ (at + 1) - 1 = at
      /\ DOMAIN state = DOMAIN EmptyState
  BY AtALine DEF AtLine
<1>2. /\ file[at].kind = "pair" /\ file[at].key = key
      /\ HeaderOf(at) \in HeadersNamed("manager") /\ HeaderOf(at) < at
      /\ key \in Allowed("manager")
      /\ key # "env" => LinesOf({HeaderOf(at)}, key, at) = {}
  BY PairIs
<1>3. key \in DOMAIN ManagerField
  BY <1>2 DEF Allowed
<1>4. /\ key \notin DOMAIN ServiceField /\ key # "env" /\ key # "output"
      /\ ManagerField[key] \in DOMAIN BuiltInManager
      /\ \A k \in DOMAIN ManagerField : ManagerField[k] = ManagerField[key] => k = key
  BY <1>3, ManagerFields
<1>5. new = [old EXCEPT ![ManagerField[key]] = value]
  BY <1>3, <1>4 DEF With
<1>6. applied = [state EXCEPT !.manager = new]
  BY <1>1, StateParts DEF Applied
<1> HIDE DEF new, old, applied, key
<1>7. /\ s.manager = new /\ s.services = state.services /\ s.defaults = state.defaults
      /\ s.serviceLines = state.serviceLines /\ s.dependencyLines = state.dependencyLines
      /\ s.section = state.section /\ s.seenKeys = state.seenKeys \cup {key}
      /\ s.managerSeen = state.managerSeen /\ s.defaultsSeen = state.defaultsSeen
  BY <1>1, <1>6, StateParts DEF key, applied
<1> HIDE DEF s
<1>8. /\ SectionRead(at + 1, s) /\ HeadersRead(at + 1, s)
      /\ HeadersBefore(at + 1) = HeadersBefore(at)
  BY <1>7, PairStays DEF key
<1>9. \A k : k # key => /\ \A headers : LinesOf(headers, k, at + 1) = LinesOf(headers, k, at)
                        /\ InDefaultsSoFar(k, at + 1) = InDefaultsSoFar(k, at)
                        /\ ManagerSoFar(k, at + 1) = ManagerSoFar(k, at)
                        /\ \A h : MeantSoFar(h, k, at + 1) = MeantSoFar(h, k, at)
  BY <1>1, <1>2, MeaningsStay
<1>10. ServicesRead(at + 1, s)
  BY <1>7, <1>8 DEF Reads, ServicesRead
<1>11. DependenciesRead(at + 1, s)
  <2>1. key # "depends_on"
    BY <1>4 DEF ServiceField
  <2>2. /\ LinesOf(HeadersNamed("defaults"), "depends_on", at + 1) = LinesOf(HeadersNamed("defaults"), "depends_on", at)
        /\ \A h : LinesOf({h}, "depends_on", at + 1) = LinesOf({h}, "depends_on", at)
    BY <1>9, <2>1, Zenon
  <2>3. DependenciesRead(at, state)
    BY DEF Reads
  <2>4. QED
    BY <1>7, <2>2, <2>3 DEF DependenciesRead
<1>12. ManagerSoFar(key, at + 1) = value
  <2>1. S = {}
    <3>1. S = LinesOf({HeaderOf(at)}, key, at)
      BY <1>2, OneHeader DEF Reads
    <3>2. QED
      BY <1>2, <1>4, <3>1
  <2>2. LinesOf(HeadersNamed("manager"), key, at + 1) = {at}
    BY <1>1, <1>2, <2>1, LinesStep
  <2>3. ValueOf({at}, key, BuiltInManager[ManagerField[key]]) = file[at].means
    BY <1>1, <1>4, FirstValue
  <2>4. file[at].means = value
    BY <1>4 DEF Said, key
  <2>5. QED
    BY <2>2, <2>3, <2>4 DEF ManagerSoFar
<1>13. ValuesRead(at + 1, s)
  <2>1. DOMAIN old = DOMAIN BuiltInManager
    BY DEF Reads, ValuesRead, old
  <2>2. DOMAIN new = DOMAIN old /\ \A f \in DOMAIN old : new[f] = IF f = ManagerField[key] THEN value ELSE old[f]
    BY <1>5
  <2>3. ASSUME NEW k \in DOMAIN ManagerField
        PROVE  new[ManagerField[k]] = ManagerSoFar(k, at + 1)
    <3>1. ManagerField[k] \in DOMAIN old
      BY <2>1, ManagerFields
    <3>2. CASE k = key
      BY <1>12, <2>2, <3>1, <3>2
    <3>3. CASE k # key
      <4>1. new[ManagerField[k]] = old[ManagerField[k]]
        BY <1>4, <2>2, <3>1, <3>3
      <4>2. old[ManagerField[k]] = ManagerSoFar(k, at)
        BY DEF Reads, ValuesRead, old
      <4>3. QED
        BY <1>9, <3>3, <4>1, <4>2
    <3>4. QED
      BY <3>2, <3>3
  <2>4. \A k \in DOMAIN ServiceField : k # key
    BY <1>4
  <2>5. \A k \in DOMAIN ServiceField : ReadOf(s.defaults, k) = InDefaultsSoFar(k, at + 1)
    BY <1>7, <1>9, <2>4 DEF Reads, ValuesRead
  <2>6. \A i \in DOMAIN s.services : \A k \in DOMAIN ServiceField :
          ReadOf(s.services[i], k) = MeantSoFar(s.serviceLines[i], k, at + 1)
    BY <1>7, <1>9, <2>4 DEF Reads, ValuesRead
  <2>7. QED
    BY <1>7, <2>1, <2>2, <2>3, <2>5, <2>6 DEF ValuesRead
<1>14. BinariesRead(at + 1)
  BY <1>1, <1>2, BinaryStep DEF Reads, key
<1>15. Reads(at + 1, s)
  BY <1>8, <1>10, <1>11, <1>13, <1>14 DEF Reads
<1>16. QED
  BY <1>15 DEF s

\* A pair of the defaults is what is read for its key; there is no service yet.
LEMMA DefaultsPairReads ==
  ASSUME ReaderInv, Reads(at, state), AtLine("pair"), KeyFault = "Ok", state.section = "defaults",
         NEW value, file[at].means = Said(Line.key, value), Line.key = "binary" => file[at].means # <<>>
  PROVE  Reads(at + 1, [Applied(Line.key, value) EXCEPT !.seenKeys = @ \cup {Line.key}])
<1> DEFINE key == Line.key
           old == state.defaults
           new == With(old, key, value)
           applied == Applied(key, value)
           H == HeaderOf(at)
           s == [Applied(Line.key, value) EXCEPT !.seenKeys = @ \cup {Line.key}]
           S == LinesOf(HeadersNamed("defaults"), key, at)
           o == BuiltInService[ServiceField[key]]
<1>1. /\ IsText(file) /\ Len(file) \in Nat /\ DOMAIN file = 1..Len(file)
      /\ at \in DOMAIN file /\ at \in Nat /\ (at + 1) - 1 = at /\ at - 1 \in 0..Len(file)
      /\ IsState(state) /\ DOMAIN state = DOMAIN EmptyState
      /\ IsText(state.services) /\ Len(state.services) \in Nat
      /\ DOMAIN state.services = 1..Len(state.services)
  BY AtALine DEF AtLine
<1>2. /\ file[at].kind = "pair" /\ file[at].key = key
      /\ H \in HeadersNamed("defaults") /\ H < at /\ H = HeaderOf(at - 1)
      /\ key \in Allowed("defaults")
      /\ key # "env" => LinesOf({H}, key, at) = {}
  BY PairIs
<1>3. key \in DOMAIN ServiceField /\ key # "depends_on"
  BY <1>2 DEF Allowed, OnlyInService
<1>4. applied = [state EXCEPT !.defaults = new]
  BY <1>1, StateParts DEF Applied
<1>5. \A k \in DOMAIN ServiceField :
        ReadOf(new, k) = IF k # key THEN ReadOf(old, k)
                         ELSE IF key = "env" THEN Append(ReadOf(old, key), value)
                         ELSE Said(key, value)
  <2>1. IsService(old)
    BY <1>1 DEF IsState
  <2> HIDE DEF old, key
  <2>2. QED
    BY <1>3, <2>1, WithReads
<1>6. \A k \in DOMAIN ServiceField : ReadOf(old, k) = InDefaultsSoFar(k, at)
  BY DEF Reads, ValuesRead
<1> HIDE DEF new, old, applied, key, H, o
<1>7. /\ s.defaults = new /\ s.services = state.services /\ s.manager = state.manager
      /\ s.serviceLines = state.serviceLines /\ s.dependencyLines = state.dependencyLines
      /\ s.section = state.section /\ s.seenKeys = state.seenKeys \cup {key}
      /\ s.managerSeen = state.managerSeen /\ s.defaultsSeen = state.defaultsSeen
  BY <1>1, <1>4, StateParts DEF key, applied
<1> HIDE DEF s
<1>8. /\ SectionRead(at + 1, s) /\ HeadersRead(at + 1, s)
      /\ HeadersBefore(at + 1) = HeadersBefore(at)
  BY <1>7, PairStays DEF key
<1>9. \A k : k # key => /\ \A headers : LinesOf(headers, k, at + 1) = LinesOf(headers, k, at)
                        /\ InDefaultsSoFar(k, at + 1) = InDefaultsSoFar(k, at)
                        /\ ManagerSoFar(k, at + 1) = ManagerSoFar(k, at)
  BY <1>1, <1>2, MeaningsStay
<1>10. DOMAIN state.services = {}
  <2>1. HeadersBefore(at) = {}
    <3>1. SUFFICES ASSUME NEW h \in HeadersBefore(at)
                   PROVE  FALSE
      OBVIOUS
    <3>2. h \in 1..Len(file) /\ h < at /\ file[h].kind = "section"
      BY HeadersAre
    <3>3. h \in 1..(at - 1)
      BY <1>1, <3>2
    <3>4. h <= H
      BY <1>1, <1>2, <3>2, <3>3, HeaderIs
    <3>5. H < h
      BY <1>2 DEF Reads, HeadersRead
    <3>6. H \in 0..Len(file)
      BY <1>1, <1>2 DEF HeadersNamed
    <3>7. QED
      BY <1>1, <3>2, <3>4, <3>5, <3>6
  <2>2. Len(state.services) = 0
    BY <2>1, HeadersAre, FS_EmptySet
  <2>3. QED
    BY <1>1, <2>2
<1>11. ServicesRead(at + 1, s)
  <2>1. s.section # "service"
    BY <1>7
  <2>2. QED
    BY <1>7, <1>8, <2>1 DEF Reads, ServicesRead
<1>12. DependenciesRead(at + 1, s)
  <2>1. LinesOf(HeadersNamed("defaults"), "depends_on", at + 1) = {}
    BY <1>3, <1>9 DEF Reads, DependenciesRead
  <2>2. IsText(s.dependencyLines) /\ Len(s.dependencyLines) = Len(s.services)
    BY <1>7 DEF Reads, DependenciesRead
  <2>3. QED
    BY <1>7, <1>10, <2>1, <2>2 DEF DependenciesRead
<1>13. InDefaultsSoFar(key, at + 1) = ReadOf(new, key)
  <2>1. LinesOf(HeadersNamed("defaults"), key, at + 1) = S \cup {at}
    BY <1>1, <1>2, LinesStep DEF H
  <2>2. file[at].means = Said(key, value)
    BY DEF key
  <2>3. CASE key = "env"
    <3>1. o = <<>> /\ IsText(o)
      BY <2>3, EmptyText DEF o, BuiltInService, ServiceField
    <3>2. S \in SUBSET (1..Len(file)) /\ \A y \in S : y < at
      BY <1>1, LinesAre
    <3> HIDE DEF S
    <3>3. ValueOf(S \cup {at}, "env", o) = Append(ValueOf(S, "env", o), file[at].means)
      BY <1>1, <3>1, <3>2, OneValueMore
    <3>4. ValueOf(S, "env", o) = InDefaultsSoFar("env", at)
      BY <2>3 DEF InDefaultsSoFar, S, o
    <3>5. InDefaultsSoFar("env", at + 1) = ValueOf(S \cup {at}, "env", o)
      BY <2>1, <2>3 DEF InDefaultsSoFar, o
    <3>6. Said(key, value) = value
      BY <2>3 DEF Said
    <3>7. ReadOf(new, key) = Append(InDefaultsSoFar("env", at), value)
      BY <1>3, <1>5, <1>6, <2>3
    <3>8. QED
      BY <2>2, <2>3, <3>3, <3>4, <3>5, <3>6, <3>7
  <2>4. CASE key # "env"
    <3>1. S = {}
      <4>1. S = LinesOf({H}, key, at)
        BY <1>2, OneHeader DEF Reads
      <4>2. QED
        BY <1>2, <2>4, <4>1
    <3>2. LinesOf(HeadersNamed("defaults"), key, at + 1) = {at}
      BY <2>1, <3>1
    <3>3. ValueOf({at}, key, o) = file[at].means
      BY <1>1, <2>4, FirstValue
    <3>4. InDefaultsSoFar(key, at + 1) = file[at].means
      BY <3>2, <3>3 DEF InDefaultsSoFar, o
    <3>5. ReadOf(new, key) = Said(key, value)
      BY <1>3, <1>5, <2>4
    <3>6. QED
      BY <2>2, <3>4, <3>5
  <2>5. QED
    BY <2>3, <2>4
<1>14. ValuesRead(at + 1, s)
  <2>1. \A k \in DOMAIN ManagerField : k # key
    BY <1>3, ManagerFields
  <2>2. /\ DOMAIN s.manager = DOMAIN BuiltInManager
        /\ \A k \in DOMAIN ManagerField : s.manager[ManagerField[k]] = ManagerSoFar(k, at + 1)
    BY <1>7, <1>9, <2>1 DEF Reads, ValuesRead
  <2>3. \A k \in DOMAIN ServiceField : ReadOf(new, k) = InDefaultsSoFar(k, at + 1)
    BY <1>5, <1>6, <1>9, <1>13
  <2>4. QED
    BY <1>7, <1>10, <2>2, <2>3 DEF ValuesRead
<1>15. BinariesRead(at + 1)
  BY <1>1, <1>2, BinaryStep DEF Reads, key
<1>16. Reads(at + 1, s)
  BY <1>8, <1>11, <1>12, <1>14, <1>15 DEF Reads
<1>17. QED
  BY <1>16 DEF s

\* What has places from 1 on is a text.
LEMMA PlacesAre ==
  ASSUME NEW n \in Nat, NEW t, t = [k \in 1..n |-> t[k]]
  PROVE  IsText(t) /\ Len(t) = n
<1> DEFINE T == {t[k] : k \in 1..n}
<1>1. t \in [1..n -> T] /\ DOMAIN t = 1..n
  OBVIOUS
<1> HIDE DEF T
<1>2. t \in Seq(T)
  BY <1>1, SeqDef
<1>3. IsText(t)
  BY <1>2, TextIs
<1>4. Len(t) \in Nat /\ DOMAIN t = 1..Len(t)
  BY <1>3, TextFacts
<1>5. \A k, m \in Nat : 1..k = 1..m => k = m
  OBVIOUS
<1>6. Len(t) = n
  BY <1>1, <1>4, <1>5, Zenon
<1>7. QED
  BY <1>3, <1>6

\* No key sets the name.
LEMMA NameStays ==
  ASSUME NEW s, IsService(s), NEW key \in DOMAIN ServiceField, NEW value
  PROVE  With(s, key, value).name = s.name
<1> DEFINE field == ServiceField[key]
<1>1. field # "name" /\ key \notin DOMAIN ManagerField /\ "name" \in DOMAIN s
  BY FieldsAre, FieldsOfTwo DEF IsService, BuiltInService
<1>2. CASE key = "env"
  BY <1>1, <1>2 DEF With
<1>3. CASE key = "output"
  BY <1>1, <1>3 DEF With
<1>4. CASE key \notin {"env", "output"}
  <2>1. With(s, key, value) = [s EXCEPT ![field] = value]
    BY <1>1, <1>4 DEF With
  <2>2. QED
    BY <1>1, <2>1
<1>5. QED
  BY <1>2, <1>3, <1>4

\* A pair of a service is what is read for its key there; the other services keep theirs.
LEMMA ServicePairReads ==
  ASSUME ReaderInv, Reads(at, state), AtLine("pair"), KeyFault = "Ok", state.section = "service",
         NEW value, file[at].means = Said(Line.key, value), Line.key = "binary" => file[at].means # <<>>
  PROVE  Reads(at + 1, [Applied(Line.key, value) EXCEPT !.seenKeys = @ \cup {Line.key}])
<1> DEFINE key == Line.key
           services == state.services
           lines == state.serviceLines
           m == Len(services)
           old == services[m]
           new == With(old, key, value)
           changed == [services EXCEPT ![m] = new]
           place == IF key = "depends_on" THEN at ELSE state.dependencyLines[m]
           places == [state.dependencyLines EXCEPT ![m] = place]
           applied == Applied(key, value)
           H == HeaderOf(at)
           s == [Applied(Line.key, value) EXCEPT !.seenKeys = @ \cup {Line.key}]
<1>1. /\ IsText(file) /\ Len(file) \in Nat /\ DOMAIN file = 1..Len(file)
      /\ at \in DOMAIN file /\ at \in Nat /\ (at + 1) - 1 = at
      /\ IsState(state) /\ DOMAIN state = DOMAIN EmptyState
      /\ IsText(services) /\ m \in Nat /\ DOMAIN services = 1..m
  BY AtALine DEF AtLine
<1>2. /\ file[at].kind = "pair" /\ file[at].key = key
      /\ H \in HeadersNamed("service") /\ H < at /\ H = HeaderOf(at - 1)
      /\ key \in Allowed("service")
      /\ key # "env" => LinesOf({H}, key, at) = {}
  BY PairIs
<1>3. key \in DOMAIN ServiceField
  BY <1>2 DEF Allowed
<1>4. m \in 1..m
  <2>1. services # <<>>
    BY <1>1 DEF IsState
  <2>2. m # 0
    BY <1>1, <2>1, EmptyText, SameText
  <2>3. QED
    BY <1>1, <2>2
<1>5. IsText(state.dependencyLines) /\ Len(state.dependencyLines) = m
  BY DEF Reads, DependenciesRead
<1>6. applied = [state EXCEPT !.services = changed, !.dependencyLines = places]
  <2>1. applied = [state EXCEPT !.services[m] = new,
                                !.dependencyLines[m] = IF key = "depends_on" THEN at ELSE @]
    BY DEF Applied
  <2>2. {"services", "dependencyLines"} \subseteq DOMAIN state
    BY <1>1, StateParts
  <2>3. m \in DOMAIN state.dependencyLines
    BY <1>4, <1>5, TextFacts
  <2> HIDE DEF new, key, m
  <2>4. QED
    BY <2>1, <2>2, <2>3 
<1>7. \A k \in DOMAIN ServiceField :
        ReadOf(new, k) = IF k # key THEN ReadOf(old, k)
                         ELSE IF key = "env" THEN Append(ReadOf(old, key), value)
                         ELSE Said(key, value)
  <2>1. IsService(old)
    BY <1>1, <1>4 DEF IsState
  <2> HIDE DEF old, key
  <2>2. QED
    BY <1>3, <2>1, WithReads
<1>8. new.name = old.name
  <2>1. IsService(old)
    BY <1>1, <1>4 DEF IsState
  <2> HIDE DEF old, key
  <2>2. QED
    BY <1>3, <2>1, NameStays
<1>9. /\ IsText(changed) /\ Len(changed) = m
      /\ \A i \in 1..m : changed[i] = IF i = m THEN new ELSE services[i]
  <2>1. services \in [1..m -> ToSet(services)]
    BY <1>1, TextFacts
  <2> HIDE DEF new, services, m
  <2>2. \A i \in 1..m : changed[i] = IF i = m THEN new ELSE services[i]
    BY <2>1
  <2>3. changed = [i \in 1..m |-> changed[i]]
    BY <2>1
  <2> HIDE DEF changed
  <2>4. QED
    BY <1>1, <2>2, <2>3, PlacesAre
<1>10. /\ IsText(places) /\ Len(places) = m
       /\ \A i \in 1..m : places[i] = IF i = m THEN place ELSE state.dependencyLines[i]
  <2>1. state.dependencyLines \in [1..m -> ToSet(state.dependencyLines)]
    BY <1>5, TextFacts
  <2> HIDE DEF place, m
  <2>2. \A i \in 1..m : places[i] = IF i = m THEN place ELSE state.dependencyLines[i]
    BY <2>1
  <2>3. places = [i \in 1..m |-> places[i]]
    BY <2>1
  <2> HIDE DEF places
  <2>4. QED
    BY <1>1, <2>2, <2>3, PlacesAre
<1>11. /\ lines[m] = H
       /\ \A i \in 1..m : i # m => lines[i] # H
  <2>1. lines[m] = H
    BY <1>2 DEF Reads, ServicesRead
  <2>2. \A i \in 1..m : lines[i] \in HeadersBefore(at)
    BY <1>1, ServiceLinesAre DEF Reads
  <2>3. \A i, j \in 1..m : i < j => lines[i] < lines[j]
    BY <1>1, ServiceLinesAre DEF Reads
  <2>4. \A h \in HeadersBefore(at) : h \in Nat
    BY <1>1, HeadersAre
  <2> HIDE DEF lines, m
  <2>5. \A i \in 1..m : i # m => i < m /\ lines[i] < lines[m] /\ lines[i] \in Nat /\ lines[m] \in Nat
    BY <1>1, <1>4, <2>2, <2>3, <2>4
  <2>6. QED
    BY <2>1, <2>5
<1> HIDE DEF new, old, applied, changed, place, places
<1>12. /\ s.services = changed /\ s.dependencyLines = places /\ s.serviceLines = lines
       /\ s.manager = state.manager /\ s.defaults = state.defaults
       /\ s.section = state.section /\ s.seenKeys = state.seenKeys \cup {key}
       /\ s.managerSeen = state.managerSeen /\ s.defaultsSeen = state.defaultsSeen
  BY <1>1, <1>6, StateParts DEF applied
<1> HIDE DEF s, key
<1>13. /\ SectionRead(at + 1, s) /\ HeadersRead(at + 1, s)
       /\ HeadersBefore(at + 1) = HeadersBefore(at)
       /\ HeaderOf((at + 1) - 1) = H
  BY <1>12, PairStays DEF key
<1>14. \A k : k # key => /\ \A headers : LinesOf(headers, k, at + 1) = LinesOf(headers, k, at)
                         /\ ManagerSoFar(k, at + 1) = ManagerSoFar(k, at)
                         /\ \A h : MeantSoFar(h, k, at + 1) = MeantSoFar(h, k, at)
  BY <1>1, <1>2, MeaningsStay
<1> HIDE DEF lines, services, m, H
<1>15. \A headers, k : H \notin headers => LinesOf(headers, k, at + 1) = LinesOf(headers, k, at)
  BY <1>1, LinesStay DEF H
<1>16. \A k : /\ LinesOf(HeadersNamed("defaults"), k, at + 1) = LinesOf(HeadersNamed("defaults"), k, at)
             /\ InDefaultsSoFar(k, at + 1) = InDefaultsSoFar(k, at)
  <2>1. H \notin HeadersNamed("defaults")
    BY <1>2, OtherWord
  <2>2. \A k : LinesOf(HeadersNamed("defaults"), k, at + 1) = LinesOf(HeadersNamed("defaults"), k, at)
    BY <1>15, <2>1
  <2>3. QED
    BY <2>2 DEF InDefaultsSoFar
<1>17. ASSUME NEW i \in 1..m, i # m, NEW k
       PROVE  /\ LinesOf({lines[i]}, k, at + 1) = LinesOf({lines[i]}, k, at)
              /\ MeantSoFar(lines[i], k, at + 1) = MeantSoFar(lines[i], k, at)
  <2>1. H \notin {lines[i]}
    BY <1>11, <1>17
  <2>2. LinesOf({lines[i]}, k, at + 1) = LinesOf({lines[i]}, k, at)
    BY <1>15, <2>1
  <2>3. QED
    BY <1>16, <2>2 DEF MeantSoFar
<1>18. LinesOf({H}, key, at + 1) = LinesOf({H}, key, at) \cup {at}
  BY <1>1, <1>2, LinesStep DEF H
<1>19. DOMAIN changed = 1..m
  BY <1>9, TextFacts
<1>20. ServicesRead(at + 1, s)
  <2>1. \A i \in 1..m : changed[i].name = file[lines[i]].name
    <3>1. \A i \in 1..m : services[i].name = file[lines[i]].name
      BY <1>1 DEF Reads, ServicesRead, services, lines
    <3>2. QED
      BY <1>8, <1>9, <3>1 DEF old
  <2>2. lines = InOrder(HeadersBefore(at + 1)) /\ m = Cardinality(HeadersBefore(at + 1))
    BY <1>13 DEF Reads, ServicesRead, m, services, lines
  <2>3. QED
    BY <1>9, <1>11, <1>12, <1>13, <1>19, <2>1, <2>2 DEF ServicesRead
<1>21. DependenciesRead(at + 1, s)
  <2>1. LinesOf(HeadersNamed("defaults"), "depends_on", at + 1) = {}
    BY <1>16 DEF Reads, DependenciesRead
  <2>2. \A i \in 1..m : IF state.dependencyLines[i] = 0 THEN LinesOf({lines[i]}, "depends_on", at) = {}
                        ELSE LinesOf({lines[i]}, "depends_on", at) = {state.dependencyLines[i]}
    BY <1>1 DEF Reads, DependenciesRead, lines, services
  <2>3. ASSUME NEW i \in 1..m
        PROVE  IF places[i] = 0 THEN LinesOf({lines[i]}, "depends_on", at + 1) = {}
               ELSE LinesOf({lines[i]}, "depends_on", at + 1) = {places[i]}
    <3>1. CASE i # m
      BY <1>10, <1>17, <2>2, <3>1
    <3>2. CASE i = m /\ key = "depends_on"
      <4>1. LinesOf({H}, "depends_on", at + 1) = {at}
        BY <1>2, <1>18, <3>2
      <4>2. places[i] = at /\ at # 0 /\ lines[i] = H
        BY <1>1, <1>10, <1>11, <3>2 DEF place
      <4>3. QED
        BY <4>1, <4>2
    <3>3. CASE i = m /\ key # "depends_on"
      <4>1. LinesOf({lines[i]}, "depends_on", at + 1) = LinesOf({lines[i]}, "depends_on", at)
        BY <1>14, <3>3
      <4>2. places[i] = state.dependencyLines[i]
        BY <1>10, <3>3 DEF place
      <4>3. QED
        BY <2>2, <4>1, <4>2
    <3>4. QED
      BY <3>1, <3>2, <3>3
  <2>4. QED
    BY <1>9, <1>10, <1>12, <1>19, <2>1, <2>3 DEF DependenciesRead
<1>22. \A i \in 1..m : \A k \in DOMAIN ServiceField : ReadOf(services[i], k) = MeantSoFar(lines[i], k, at)
  BY <1>1 DEF Reads, ValuesRead, services, lines
<1>23. MeantSoFar(H, key, at + 1) = ReadOf(new, key)
  <2>1. file[at].means = Said(key, value)
    BY DEF key
  <2> DEFINE S == LinesOf({H}, key, at)
             o == InDefaultsSoFar(key, at)
  <2>2. MeantSoFar(H, key, at + 1) = ValueOf(S \cup {at}, key, o)
    BY <1>16, <1>18 DEF MeantSoFar
  <2>3. MeantSoFar(H, key, at) = ValueOf(S, key, o)
    BY DEF MeantSoFar
  <2>4. S \in SUBSET (1..Len(file)) /\ \A y \in S : y < at
    BY <1>1, LinesAre
  <2>5. key = "env" => IsText(o)
    BY <1>1, EnvironmentsAre
  <2>6. key # "env" => S = {}
    BY <1>2
  <2> HIDE DEF S, o
  <2>7. CASE key = "env"
    <3>1. ValueOf(S \cup {at}, "env", o) = Append(ValueOf(S, "env", o), file[at].means)
      BY <1>1, <2>4, <2>5, <2>7, OneValueMore
    <3>2. ReadOf(new, key) = Append(ReadOf(old, key), value)
      BY <1>3, <1>7, <2>7
    <3>3. ReadOf(old, key) = MeantSoFar(H, key, at)
      BY <1>3, <1>4, <1>11, <1>22 DEF old
    <3>4. Said(key, value) = value
      BY <2>7 DEF Said
    <3>5. QED
      BY <2>1, <2>2, <2>3, <2>7, <3>1, <3>2, <3>3, <3>4
  <2>8. CASE key # "env"
    <3>1. S \cup {at} = {at}
      BY <2>6, <2>8
    <3>2. ValueOf({at}, key, o) = file[at].means
      BY <1>1, <2>8, FirstValue
    <3>3. ReadOf(new, key) = Said(key, value)
      BY <1>3, <1>7, <2>8
    <3>4. QED
      BY <2>1, <2>2, <3>1, <3>2, <3>3
  <2>9. QED
    BY <2>7, <2>8
<1>24. ValuesRead(at + 1, s)
  <2>1. \A k \in DOMAIN ManagerField : k # key
    BY <1>3, ManagerFields
  <2>2. /\ DOMAIN s.manager = DOMAIN BuiltInManager
        /\ \A k \in DOMAIN ManagerField : s.manager[ManagerField[k]] = ManagerSoFar(k, at + 1)
        /\ \A k \in DOMAIN ServiceField : ReadOf(s.defaults, k) = InDefaultsSoFar(k, at + 1)
    BY <1>12, <1>14, <1>16, <2>1 DEF Reads, ValuesRead
  <2>3. ASSUME NEW i \in 1..m, NEW k \in DOMAIN ServiceField
        PROVE  ReadOf(changed[i], k) = MeantSoFar(lines[i], k, at + 1)
    <3>1. CASE i # m
      BY <1>9, <1>17, <1>22, <3>1
    <3>2. CASE i = m /\ k # key
      <4>1. ReadOf(new, k) = ReadOf(old, k)
        BY <1>7, <3>2
      <4>2. MeantSoFar(lines[i], k, at + 1) = MeantSoFar(lines[i], k, at)
        BY <1>14, <3>2
      <4>3. QED
        BY <1>9, <1>22, <3>2, <4>1, <4>2 DEF old
    <3>3. CASE i = m /\ k = key
      BY <1>9, <1>11, <1>23, <3>3
    <3>4. QED
      BY <3>1, <3>2, <3>3
  <2>4. QED
    BY <1>12, <1>19, <2>2, <2>3 DEF ValuesRead
<1>25. BinariesRead(at + 1)
  BY <1>1, <1>2, BinaryStep DEF Reads, key
<1>26. Reads(at + 1, s)
  BY <1>13, <1>20, <1>21, <1>24, <1>25 DEF Reads
<1>27. QED
  BY <1>26 DEF s, key

----------------------------------------------------------------------------
(* What is read, and why a file is refused *)

\* The file stays, and what is said of it.
LEMMA HeaderOfStays == ASSUME file' = file, NEW l PROVE HeaderOf(l)' = HeaderOf(l)
BY DEF HeaderOf

\* The lines of a key stay.
LEMMA LinesOfStay ==
  ASSUME file' = file, NEW headers, NEW key, NEW n
  PROVE  LinesOf(headers, key, n)' = LinesOf(headers, key, n)
BY HeaderOfStays DEF LinesOf

\* So do the headers.
LEMMA HeadersStay ==
  ASSUME file' = file
  PROVE  /\ \A word : HeadersNamed(word)' = HeadersNamed(word)
         /\ \A n : HeadersBefore(n)' = HeadersBefore(n)
BY DEF HeadersNamed, HeadersBefore

\* So does what some lines mean.
LEMMA MeantStays == ASSUME file' = file, NEW S PROVE MeantBy(S)' = MeantBy(S)
BY DEF MeantBy

\* So does what they make of a key.
LEMMA ValueOfStays ==
  ASSUME file' = file, NEW S, NEW key, NEW o
  PROVE  ValueOf(S, key, o)' = ValueOf(S, key, o)
BY MeantStays DEF ValueOf

\* So does what the lines so far mean.
LEMMA MeaningsSame ==
  ASSUME file' = file, NEW key, NEW n
  PROVE  /\ InDefaultsSoFar(key, n)' = InDefaultsSoFar(key, n)
         /\ ManagerSoFar(key, n)' = ManagerSoFar(key, n)
         /\ \A h : MeantSoFar(h, key, n)' = MeantSoFar(h, key, n)
<1>1. \A headers : LinesOf(headers, key, n)' = LinesOf(headers, key, n)
  BY LinesOfStay
<1>2. \A word : HeadersNamed(word)' = HeadersNamed(word)
  BY HeadersStay
<1>3. \A S, o : ValueOf(S, key, o)' = ValueOf(S, key, o)
  BY ValueOfStays
<1>4. InDefaultsSoFar(key, n)' = InDefaultsSoFar(key, n)
  BY <1>1, <1>2, <1>3 DEF InDefaultsSoFar
<1>5. ManagerSoFar(key, n)' = ManagerSoFar(key, n)
  BY <1>1, <1>2, <1>3 DEF ManagerSoFar
<1>6. \A h : MeantSoFar(h, key, n)' = MeantSoFar(h, key, n)
  BY <1>1, <1>3, <1>4 DEF MeantSoFar
<1>7. QED
  BY <1>4, <1>5, <1>6

\* What is read of a file stays read.
LEMMA ReadsStays == ASSUME file' = file, NEW n, NEW s, Reads(n, s) PROVE Reads(n, s)'
<1>1. \A headers, key : LinesOf(headers, key, n)' = LinesOf(headers, key, n)
  BY LinesOfStay
<1>2. /\ \A word : HeadersNamed(word)' = HeadersNamed(word)
      /\ HeadersBefore(n)' = HeadersBefore(n)
      /\ \A l : HeaderOf(l)' = HeaderOf(l)
  BY HeadersStay, HeaderOfStays
<1>3. \A key : /\ InDefaultsSoFar(key, n)' = InDefaultsSoFar(key, n)
               /\ ManagerSoFar(key, n)' = ManagerSoFar(key, n)
               /\ \A h : MeantSoFar(h, key, n)' = MeantSoFar(h, key, n)
  BY MeaningsSame
<1>4. SectionRead(n, s)'
  BY <1>1, <1>2 DEF Reads, SectionRead
<1>5. HeadersRead(n, s)'
  BY <1>2 DEF Reads, HeadersRead
<1>6. ServicesRead(n, s)'
  BY <1>2 DEF Reads, ServicesRead
<1>7. DependenciesRead(n, s)'
  BY <1>1, <1>2 DEF Reads, DependenciesRead
<1>8. BinariesRead(n)'
  BY DEF Reads, BinariesRead
<1>9. ValuesRead(n, s)'
  BY <1>3 DEF Reads, ValuesRead, ReadOf
<1>10. QED
  BY <1>4, <1>5, <1>6, <1>7, <1>8, <1>9 DEF Reads

\* A reason stays one.
LEMMA ReasonStays == ASSUME file' = file, NEW code, NEW l PROVE IsReason(code, l)' <=> IsReason(code, l)
<1>1. /\ \A k : HeaderOf(k)' = HeaderOf(k)
      /\ \A word : HeadersNamed(word)' = HeadersNamed(word)
      /\ \A S : MeantBy(S)' = MeantBy(S)
  BY HeaderOfStays, HeadersStay, MeantStays
<1>2. \A h, key : PairsUnder(h, key)' = PairsUnder(h, key)
  BY <1>1 DEF PairsUnder
<1>3. \A key : InDefaults(key)' = InDefaults(key)
  BY <1>1, <1>2 DEF InDefaults
<1>4. \A h, key : Meant(h, key)' = Meant(h, key)
  BY <1>1, <1>2, <1>3 DEF Meant
<1>5. IsRepeated(l)' <=> IsRepeated(l)
  BY <1>1 DEF IsRepeated
<1>6. QED
  BY <1>1, <1>2, <1>4, <1>5 DEF IsReason

\* The values mean what they did.
LEMMA ValuesStay == ASSUME file' = file, ValuesAsMeant PROVE ValuesAsMeant'
<1>1. \A l : ReadsAsMeant(l)' <=> ReadsAsMeant(l)
  BY DEF ReadsAsMeant
<1>2. QED
  BY <1>1 DEF ValuesAsMeant

\* What is read with the next line is read after the step.
LEMMA NowReads ==
  ASSUME file' = file, NEW n, at' = n, NEW s, state' = s, Reads(n, s)
  PROVE  Reads(at, state)'
<1>1. Reads(n, s)'
  BY ReadsStays
<1>2. QED
  BY <1>1

\* A refusal with a reason has it after the step.
LEMMA NowReason ==
  ASSUME file' = file, NEW code, NEW l, error' = [code |-> code, line |-> l], l # 0 => IsReason(code, l)
  PROVE  RefusedForAReason'
<1>1. error'.code = code /\ error'.line = l
  OBVIOUS
<1>2. l # 0 => IsReason(code, l)'
  BY ReasonStays
<1>3. error'.line # 0 => IsReason(error.code, error.line)'
  BY <1>1, <1>2
<1>4. QED
  BY <1>3 DEF RefusedForAReason

\* A refusal with a reason keeps what is read.
LEMMA RefuseReads ==
  ASSUME ReadingInv, ReaderInv', NEW code, code # "Ok", NEW l, Refuse(code, l), l # 0 => IsReason(code, l)
  PROVE  ReadingInv'
<1>1. /\ error' = [code |-> code, line |-> l] /\ phase' = "done"
      /\ file' = file /\ at' = at /\ state' = state
  BY DEF Refuse
<1>2. ValuesAsMeant'
  BY <1>1, ValuesStay DEF ReadingInv
<1>3. Reads(at, state)'
  BY <1>1, NowReads DEF ReadingInv
<1>4. ~Accepted' /\ phase' # "cycles"
  BY <1>1 DEF Accepted
<1>5. RefusedForAReason'
  BY <1>1, NowReason
<1>6. QED
  BY <1>2, <1>3, <1>4, <1>5 DEF ReadingInv

\* A line that is taken is read.
LEMMA AcceptReads ==
  ASSUME ReadingInv, ReaderInv', phase = "lines", NEW s, Accept(s), Reads(at + 1, s)
  PROVE  ReadingInv'
<1>1. state' = s /\ at' = at + 1 /\ file' = file /\ phase' = "lines"
  BY DEF Accept
<1>2. ValuesAsMeant'
  BY <1>1, ValuesStay DEF ReadingInv
<1>3. Reads(at, state)'
  BY <1>1, NowReads DEF ReadingInv
<1>4. ~Accepted' /\ phase' # "cycles" /\ phase' # "done"
  BY <1>1 DEF Accepted
<1>5. QED
  BY <1>2, <1>3, <1>4 DEF ReadingInv, RefusedForAReason

\* A blank line.
LEMMA BlankLineReading == ASSUME ReadingInv, BlankLine PROVE ReadingInv'
<1>1. ReaderInv'
  BY BlankLineInv DEF ReadingInv
<1>2. phase = "lines" /\ Accept(state)
  BY DEF BlankLine, AtLine
<1>3. Reads(at + 1, state)
  BY BlankReads DEF ReadingInv
<1>4. QED
  BY <1>1, <1>2, <1>3, AcceptReads

\* A line that is no header and no pair is refused as such.
LEMMA BadLineReading == ASSUME ReadingInv, BadLine PROVE ReadingInv'
<1>1. ReaderInv'
  BY BadLineInv DEF ReadingInv
<1>2. Refuse("Syntax", at)
  BY DEF BadLine
<1>3. IsReason("Syntax", at)
  BY DEF IsReason
<1>4. QED
  BY <1>1, <1>2, <1>3, RefuseReads

\* A header of another word is refused as such.
LEMMA OpenUnknownReading == ASSUME ReadingInv, OpenUnknown PROVE ReadingInv'
<1>1. ReaderInv'
  BY OpenUnknownInv DEF ReadingInv
<1>2. Refuse("UnknownSection", at)
  BY DEF OpenUnknown
<1>3. IsReason("UnknownSection", at)
  BY DEF IsReason
<1>4. QED
  BY <1>1, <1>2, <1>3, RefuseReads

\* A section of the manager or of the defaults that is refused was opened before.
LEMMA SectionRepeated ==
  ASSUME ReaderInv, AtLine("section"), Line.word \in {"manager", "defaults"},
         NEW h \in HeadersNamed(Line.word), h < at
  PROVE  IsRepeated(at)
<1>1. /\ Len(file) \in Nat /\ DOMAIN file = 1..Len(file) /\ at \in DOMAIN file /\ IsFile
  BY AtALine DEF AtLine, ReaderInv, Parsed
<1>2. file[at].kind = "section" /\ file[at].word = Line.word /\ Line.word # "service"
  BY DEF AtLine, Line
<1>3. h \in DOMAIN file /\ file[h].kind = "section" /\ file[h].word = Line.word
  BY DEF HeadersNamed
<1>4. file[h].name = <<>> /\ file[at].name = <<>>
  BY <1>1, <1>2, <1>3 DEF IsFile
<1>5. h \in 1..(at - 1)
  BY <1>1, <1>3
<1>6. QED
  BY <1>2, <1>3, <1>4, <1>5 DEF IsRepeated

\* The header of the manager, taken once.
LEMMA OpenManagerReading == ASSUME ReadingInv, OpenManager PROVE ReadingInv'
<1>1. ReaderInv /\ ReaderInv' /\ Reads(at, state)
  BY OpenManagerInv DEF ReadingInv
<1>2. AtLine("section") /\ Line.word = "manager" /\ phase = "lines"
  BY DEF OpenManager, AtLine
<1>3. CASE state.managerSeen
  <2>1. Refuse("DuplicateKey", at)
    BY <1>3 DEF OpenManager
  <2>2. PICK h \in HeadersNamed("manager") : h < at
    BY <1>1, <1>3 DEF Reads, HeadersRead
  <2>3. IsRepeated(at)
    BY <1>1, <1>2, <2>2, SectionRepeated
  <2>4. IsReason("DuplicateKey", at)
    BY <2>3 DEF IsReason
  <2>5. QED
    BY <1>1, <2>1, <2>4, RefuseReads
<1>4. CASE ~state.managerSeen
  <2> DEFINE s == [Opened("manager") EXCEPT !.managerSeen = TRUE]
  <2>1. Accept(s)
    BY <1>4 DEF OpenManager
  <2>2. Reads(at + 1, s)
    BY <1>1, <1>2, <1>4, OpenManagerReads
  <2> HIDE DEF s
  <2>3. QED
    BY <1>1, <1>2, <2>1, <2>2, AcceptReads
<1>5. QED
  BY <1>3, <1>4

\* The header of the defaults, taken once and before the services.
LEMMA OpenDefaultsReading == ASSUME ReadingInv, OpenDefaults PROVE ReadingInv'
<1>1. ReaderInv /\ ReaderInv' /\ Reads(at, state)
  BY OpenDefaultsInv DEF ReadingInv
<1>2. AtLine("section") /\ Line.word = "defaults" /\ phase = "lines"
  BY DEF OpenDefaults, AtLine
<1>3. CASE state.services # <<>>
  <2>1. Refuse("Syntax", at)
    BY <1>3 DEF OpenDefaults
  <2>2. IsReason("Syntax", at)
    BY DEF IsReason
  <2>3. QED
    BY <1>1, <2>1, <2>2, RefuseReads
<1>4. CASE state.services = <<>> /\ state.defaultsSeen
  <2>1. Refuse("DuplicateKey", at)
    BY <1>4 DEF OpenDefaults
  <2>2. PICK h \in HeadersNamed("defaults") : h < at
    BY <1>1, <1>4 DEF Reads, HeadersRead
  <2>3. IsRepeated(at)
    BY <1>1, <1>2, <2>2, SectionRepeated
  <2>4. IsReason("DuplicateKey", at)
    BY <2>3 DEF IsReason
  <2>5. QED
    BY <1>1, <2>1, <2>4, RefuseReads
<1>5. CASE state.services = <<>> /\ ~state.defaultsSeen
  <2> DEFINE s == [Opened("defaults") EXCEPT !.defaultsSeen = TRUE]
  <2>1. Accept(s)
    BY <1>5 DEF OpenDefaults
  <2>2. Reads(at + 1, s)
    BY <1>1, <1>2, <1>5, OpenDefaultsReads
  <2> HIDE DEF s
  <2>3. QED
    BY <1>1, <1>2, <2>1, <2>2, AcceptReads
<1>6. QED
  BY <1>3, <1>4, <1>5

\* The header of a service, whose name is valid and its own.
LEMMA OpenServiceReading == ASSUME ReadingInv, OpenService PROVE ReadingInv'
<1>1. ReaderInv /\ ReaderInv' /\ Reads(at, state)
  BY OpenServiceInv DEF ReadingInv
<1>2. AtLine("section") /\ Line.word = "service" /\ phase = "lines" /\ at <= Len(file)
  BY DEF OpenService, AtLine
<1>3. CASE ~IsValidServiceName(Line.name)
  <2>1. Refuse("InvalidName", at)
    BY <1>3 DEF OpenService
  <2>2. IsReason("InvalidName", at)
    BY DEF IsReason
  <2>3. QED
    BY <1>1, <2>1, <2>2, RefuseReads
<1>4. CASE IsValidServiceName(Line.name) /\ AlreadyNamed(Line.name)
  <2>1. Refuse("DuplicateService", at)
    BY <1>4 DEF OpenService
  <2>2. PICK i \in DOMAIN state.services : state.services[i].name = Line.name
    BY <1>4 DEF AlreadyNamed, Named
  <2> DEFINE h == state.serviceLines[i]
  <2>3. h \in HeadersBefore(at)
    BY <1>1, ServiceLinesAre DEF Reads
  <2>4. h < at /\ h \in 1..Len(file) /\ file[h].kind = "section" /\ file[h].word = "service"
    BY <1>1, <2>3, HeadersAre
  <2>5. file[h].name = Line.name
    BY <1>1, <2>2 DEF Reads, ServicesRead
  <2> HIDE DEF h
  <2>6. h \in 1..(at - 1)
    BY <1>1, <1>2, <2>4, AtALine
  <2>7. IsRepeated(at)
    BY <1>2, <2>4, <2>5, <2>6 DEF IsRepeated, AtLine, Line
  <2>8. IsReason("DuplicateService", at)
    BY <2>7 DEF IsReason
  <2>9. QED
    BY <1>1, <2>1, <2>8, RefuseReads
<1>5. CASE IsValidServiceName(Line.name) /\ ~AlreadyNamed(Line.name)
  <2> DEFINE s == [Opened("service") EXCEPT !.services = Append(@, NewService(Line.name)),
                                            !.serviceLines = Append(@, at),
                                            !.dependencyLines = Append(@, 0)]
  <2>1. Accept(s)
    BY <1>5 DEF OpenService
  <2>2. Reads(at + 1, s)
    BY <1>1, <1>2, OpenServiceReads
  <2> HIDE DEF s
  <2>3. QED
    BY <1>1, <1>2, <2>1, <2>2, AcceptReads
<1>6. QED
  BY <1>3, <1>4, <1>5

\* A key that is refused as repeated was set before in its section.
LEMMA RefuseKeyReading == ASSUME ReadingInv, RefuseKey PROVE ReadingInv'
<1>1. ReaderInv /\ ReaderInv' /\ Reads(at, state)
  BY RefuseKeyInv DEF ReadingInv
<1>2. AtLine("pair") /\ phase = "lines" /\ at <= Len(file) /\ KeyFault # "Ok" /\ Refuse(KeyFault, at)
  BY DEF RefuseKey, AtLine
<1>3. KeyFault \in {"Syntax", "DuplicateKey", "UnknownKey"}
  BY <1>2, Zenon DEF KeyFault
<1>4. ASSUME KeyFault = "DuplicateKey"
      PROVE  IsRepeated(at)
  <2>1. Line.key \in state.seenKeys
    BY <1>4 DEF KeyFault
  <2>2. PICK e \in LinesOf({HeaderOf(at - 1)}, Line.key, at) : TRUE
    BY <1>1, <2>1 DEF Reads, SectionRead
  <2>3. /\ IsText(file) /\ Len(file) \in Nat /\ DOMAIN file = 1..Len(file) /\ at \in DOMAIN file
    BY <1>1, <1>2, AtALine
  <2>4. file[at].kind = "pair" /\ file[at].key = Line.key
    BY <1>2 DEF AtLine, Line
  <2>5. HeaderOf(at) = HeaderOf(at - 1)
    BY <2>3, <2>4, HeaderStep
  <2>6. e \in DOMAIN file /\ e < at /\ file[e].kind = "pair" /\ file[e].key = Line.key /\ HeaderOf(e) = HeaderOf(at)
    BY <2>2, <2>5 DEF LinesOf
  <2>7. e \in 1..(at - 1)
    BY <2>3, <2>6
  <2>8. QED
    BY <2>4, <2>6, <2>7 DEF IsRepeated
<1>5. IsReason(KeyFault, at)
  BY <1>3, <1>4 DEF IsReason
<1>6. QED
  BY <1>1, <1>2, <1>5, RefuseReads

\* A pair is read, or its value means nothing.
LEMMA ReadPairReading == ASSUME ReadingInv, ReadPair PROVE ReadingInv'
<1> DEFINE key == Line.key
           value == ReadValue(key, Line.value)
           empty == key \in Endpoints \cup {"binary"} /\ value = <<>>
<1>1. ReaderInv /\ ReaderInv' /\ Reads(at, state)
  BY ReadPairInv DEF ReadingInv
<1>2. AtLine("pair") /\ phase = "lines" /\ at <= Len(file) /\ KeyFault = "Ok"
  BY DEF ReadPair, AtLine
<1>3. /\ file[at].kind = "pair" /\ Line = file[at]
      /\ state.section \in {"manager", "defaults", "service"}
      /\ key \in Allowed(state.section)
  BY <1>1, <1>2, PairIs
<1>4. key \in Keys
  BY <1>3 DEF Allowed, Keys
<1>5. at \in DOMAIN file
  BY <1>1, <1>2, AtALine
<1>6. IF value = Unparsed \/ empty THEN file[at].means = Unparsed
      ELSE file[at].means = Said(key, value)
  BY <1>3, <1>4, <1>5 DEF ReadingInv, ValuesAsMeant, ReadsAsMeant
<1> HIDE DEF value, key
<1>7. CASE value = Unparsed
  <2>1. Refuse("InvalidValue", at)
    BY <1>7 DEF ReadPair, value, key
  <2>2. IsReason("InvalidValue", at)
    BY <1>3, <1>6, <1>7 DEF IsReason
  <2>3. QED
    BY <1>1, <2>1, <2>2, RefuseReads
<1>8. CASE value # Unparsed /\ empty
  <2>1. Refuse("MissingValue", at)
    BY <1>8 DEF ReadPair, value, key
  <2>2. IsReason("MissingValue", at)
    BY <1>3, <1>6, <1>8 DEF IsReason
  <2>3. QED
    BY <1>1, <2>1, <2>2, RefuseReads
<1>9. CASE value # Unparsed /\ ~empty
  <2> DEFINE s == [Applied(key, value) EXCEPT !.seenKeys = @ \cup {key}]
  <2>1. Accept(s)
    BY <1>9 DEF ReadPair, value, key
  <2>2. file[at].means = Said(key, value)
    BY <1>6, <1>9
  <2>3. key = "binary" => file[at].means # <<>>
    BY <1>9, <2>2 DEF Said
  <2>4. Reads(at + 1, s)
    <3>1. CASE state.section = "manager"
      BY <1>1, <1>2, <2>2, <2>3, <3>1, ManagerPairReads DEF key
    <3>2. CASE state.section = "defaults"
      BY <1>1, <1>2, <2>2, <2>3, <3>2, DefaultsPairReads DEF key
    <3>3. CASE state.section = "service"
      BY <1>1, <1>2, <2>2, <2>3, <3>3, ServicePairReads DEF key
    <3>4. QED
      BY <1>3, <3>1, <3>2, <3>3
  <2> HIDE DEF s
  <2>5. QED
    BY <1>1, <1>2, <2>1, <2>4, AcceptReads
<1>10. QED
  BY <1>7, <1>8, <1>9

\* At the end of the file what is read is what the properties speak of.
LEMMA MeantAtEnd ==
  ASSUME IsText(file)
  PROVE  /\ HeadersBefore(Len(file) + 1) = HeadersNamed("service")
         /\ \A h : \A key : MeantSoFar(h, key, Len(file) + 1) = Meant(h, key)
         /\ \A key : ManagerSoFar(key, Len(file) + 1) =
                       ValueOf(UNION {PairsUnder(h, key) : h \in HeadersNamed("manager")}, key,
                               BuiltInManager[ManagerField[key]])
<1> DEFINE n == Len(file) + 1
<1>1. Len(file) \in Nat /\ DOMAIN file = 1..Len(file)
  BY TextFacts
<1>2. HeadersBefore(n) = HeadersNamed("service")
  <2>1. \A h \in DOMAIN file : h < n
    BY <1>1
  <2>2. QED
    BY <2>1 DEF HeadersBefore, HeadersNamed
<1>3. \A key : /\ \A h : LinesOf({h}, key, n) = PairsUnder(h, key)
               /\ LinesOf(HeadersNamed("defaults"), key, n) = InDefaults(key)
               /\ LinesOf(HeadersNamed("manager"), key, n) =
                    UNION {PairsUnder(h, key) : h \in HeadersNamed("manager")}
  BY LinesEnd
<1> HIDE DEF n
<1>4. ASSUME NEW key, NEW h
      PROVE  MeantSoFar(h, key, n) = Meant(h, key)
  <2> DEFINE own == PairsUnder(h, key)
             lines == InDefaults(key)
             o == BuiltInService[ServiceField[key]]
  <2>1. MeantSoFar(h, key, n) = ValueOf(own, key, ValueOf(lines, key, o))
    BY <1>3 DEF MeantSoFar, InDefaultsSoFar
  <2>2. CASE key = "env"
    <3>1. o = <<>>
      BY <2>2 DEF BuiltInService, ServiceField
    <3>2. lines \in SUBSET (1..Len(file))
      BY <1>1 DEF InDefaults, PairsUnder
    <3> HIDE DEF o, own, lines
    <3>3. IsText(MeantBy(lines))
      BY <1>1, <3>2, MeantIs
    <3>4. MeantBy(lines) \in Seq(ToSet(MeantBy(lines)))
      BY <3>3, TextFacts
    <3>5. <<>> \o MeantBy(lines) = MeantBy(lines)
      BY <3>4, ConcatEmptySeq
    <3>6. MeantSoFar(h, key, n) = MeantBy(lines) \o MeantBy(own)
      BY <2>1, <2>2, <3>1, <3>5 DEF ValueOf
    <3>7. Meant(h, key) = MeantBy(lines) \o MeantBy(own)
      BY <2>2 DEF Meant, own, lines
    <3>8. QED
      BY <3>6, <3>7
  <2>3. CASE key # "env" /\ own # {}
    BY <2>1, <2>3 DEF ValueOf, Meant
  <2>4. CASE key # "env" /\ own = {} /\ lines # {}
    BY <2>1, <2>4 DEF ValueOf, Meant
  <2>5. CASE key # "env" /\ own = {} /\ lines = {}
    BY <2>1, <2>5 DEF ValueOf, Meant
  <2>6. QED
    BY <2>2, <2>3, <2>4, <2>5
<1>5. \A key : ManagerSoFar(key, n) =
                 ValueOf(UNION {PairsUnder(h, key) : h \in HeadersNamed("manager")}, key,
                         BuiltInManager[ManagerField[key]])
  BY <1>3 DEF ManagerSoFar
<1>6. QED
  BY <1>2, <1>4, <1>5 DEF n

\* When the lines are over, each service has what is meant for it.
LEMMA ReadAtEnd ==
  ASSUME ReaderInv, Reads(at, state), at = Len(file) + 1
  PROVE  /\ \A i \in DOMAIN state.services :
              /\ state.serviceLines[i] \in HeadersNamed("service")
              /\ file[state.serviceLines[i]].name = state.services[i].name
              /\ \A key \in DOMAIN ServiceField :
                   ReadOf(state.services[i], key) = Meant(state.serviceLines[i], key)
              /\ IF state.dependencyLines[i] = 0 THEN PairsUnder(state.serviceLines[i], "depends_on") = {}
                 ELSE PairsUnder(state.serviceLines[i], "depends_on") = {state.dependencyLines[i]}
         /\ \A h \in HeadersNamed("service") : \E i \in DOMAIN state.services : state.serviceLines[i] = h
         /\ InDefaults("depends_on") = {}
<1>1. IsText(file)
  BY DEF ReaderInv, Parsed, IsFile
<1>2. ServicesRead(at, state) /\ ValuesRead(at, state) /\ DependenciesRead(at, state)
  BY DEF Reads
<1>3. /\ HeadersBefore(at) = HeadersNamed("service")
      /\ \A h, key : MeantSoFar(h, key, at) = Meant(h, key)
      /\ \A h, key : LinesOf({h}, key, at) = PairsUnder(h, key)
      /\ LinesOf(HeadersNamed("defaults"), "depends_on", at) = InDefaults("depends_on")
  BY <1>1, MeantAtEnd, LinesEnd
<1>4. /\ \A i \in DOMAIN state.services : state.serviceLines[i] \in HeadersNamed("service")
      /\ \A h \in HeadersNamed("service") : \E i \in DOMAIN state.services : state.serviceLines[i] = h
  BY <1>2, <1>3, ServiceLinesAre
<1>5. \A i \in DOMAIN state.services : file[state.serviceLines[i]].name = state.services[i].name
  BY <1>2 DEF ServicesRead
<1>6. \A i \in DOMAIN state.services : \A key \in DOMAIN ServiceField :
        ReadOf(state.services[i], key) = Meant(state.serviceLines[i], key)
  BY <1>2, <1>3 DEF ValuesRead
<1>7. /\ InDefaults("depends_on") = {}
      /\ \A i \in DOMAIN state.services :
           IF state.dependencyLines[i] = 0 THEN PairsUnder(state.serviceLines[i], "depends_on") = {}
           ELSE PairsUnder(state.serviceLines[i], "depends_on") = {state.dependencyLines[i]}
  BY <1>2, <1>3 DEF DependenciesRead
<1>8. QED
  BY <1>4, <1>5, <1>6, <1>7

\* A service without a binary has no line for one.
LEMMA NoBinaryLine ==
  ASSUME ReaderInv, Reads(at, state), at = Len(file) + 1, NEW i \in DOMAIN state.services,
         state.services[i].binary = <<>>
  PROVE  PairsUnder(state.serviceLines[i], "binary") = {}
<1> DEFINE h == state.serviceLines[i]
           own == PairsUnder(h, "binary")
<1> SUFFICES ASSUME own # {}
             PROVE  FALSE
  OBVIOUS
<1>1. IsText(file) /\ Len(file) \in Nat /\ DOMAIN file = 1..Len(file)
  BY TextFacts DEF ReaderInv, Parsed, IsFile
<1>2. ReadOf(state.services[i], "binary") = <<>>
  BY DEF ReadOf, ServiceField
<1>3. "binary" \in DOMAIN ServiceField
  BY DEF ServiceField
<1>4. Meant(h, "binary") = <<>>
  BY <1>2, <1>3, ReadAtEnd
<1>5. MeantBy(own)[1] = <<>>
  BY <1>4 DEF Meant
<1>6. own \in SUBSET (1..Len(file))
  BY <1>1 DEF PairsUnder
<1>7. \A l \in own : file[l].kind = "pair" /\ file[l].key = "binary"
  BY DEF PairsUnder
<1> HIDE DEF own, h
<1>8. IsFiniteSet(own) /\ Cardinality(own) \in Nat /\ Cardinality(own) # 0
  BY <1>1, <1>6, LinesAreFinite, FS_EmptySet
<1>9. 1 \in 1..Cardinality(own)
  BY <1>8
<1>10. MeantBy(own)[1] = file[InOrder(own)[1]].means
  BY <1>1, <1>6, <1>9, MeantIs
<1>11. IsOrder(InOrder(own), own)
  BY <1>1, <1>6, OrderIs
<1>12. InOrder(own)[1] \in own
  BY <1>9, <1>11 DEF IsOrder
<1>13. InOrder(own)[1] < at /\ InOrder(own)[1] \in DOMAIN file
  BY <1>1, <1>6, <1>12
<1>14. BinariesRead(at)
  BY DEF Reads
<1>15. QED
  BY <1>5, <1>7, <1>10, <1>12, <1>13, <1>14 DEF BinariesRead

\* The dependencies of a service are those of its own line.
LEMMA DependenciesAt ==
  ASSUME ReaderInv, Reads(at, state), at = Len(file) + 1, NEW i \in DOMAIN state.services,
         NEW k \in DOMAIN state.services[i].dependsOn
  PROVE  /\ state.dependencyLines[i] # 0
         /\ file[state.dependencyLines[i]].means = state.services[i].dependsOn
         /\ HeaderOf(state.dependencyLines[i]) = state.serviceLines[i]
<1> DEFINE h == state.serviceLines[i]
           own == PairsUnder(h, "depends_on")
           l == state.dependencyLines[i]
<1>1. IsText(file) /\ Len(file) \in Nat /\ DOMAIN file = 1..Len(file)
  BY TextFacts DEF ReaderInv, Parsed, IsFile
<1>2. "depends_on" \in DOMAIN ServiceField /\ ServiceField["depends_on"] = "dependsOn"
  BY DEF ServiceField
<1>3. ReadOf(state.services[i], "depends_on") = state.services[i].dependsOn
  BY <1>2 DEF ReadOf
<1>4. state.services[i].dependsOn = Meant(h, "depends_on")
  BY <1>2, <1>3, ReadAtEnd
<1>5. InDefaults("depends_on") = {} /\ IF l = 0 THEN own = {} ELSE own = {l}
  BY ReadAtEnd
<1>6. l # 0
  <2> SUFFICES ASSUME l = 0
               PROVE  FALSE
    OBVIOUS
  <2>1. Meant(h, "depends_on") = BuiltInService["dependsOn"]
    BY <1>2, <1>5 DEF Meant
  <2>2. BuiltInService["dependsOn"] = <<>>
    BY DEF BuiltInService
  <2>3. QED
    BY <1>4, <2>1, <2>2, EmptyText
<1>7. own = {l}
  BY <1>5, <1>6
<1>8. Meant(h, "depends_on") = MeantBy({l})[1]
  BY <1>7 DEF Meant
<1>9. l \in 1..Len(file) /\ HeaderOf(l) = h
  BY <1>1, <1>7 DEF PairsUnder
<1> HIDE DEF l, h, own
<1>10. ValueOf({l}, "depends_on", <<>>) = file[l].means
  BY <1>1, <1>9, FirstValue
<1>11. ValueOf({l}, "depends_on", <<>>) = MeantBy({l})[1]
  BY DEF ValueOf
<1>12. QED
  BY <1>4, <1>6, <1>8, <1>9, <1>10, <1>11 DEF l, h

\* The fault that is shown for a service is in the file.
LEMMA FaultHasReason ==
  ASSUME ReaderInv, Reads(at, state), at = Len(file) + 1, Faulty # {}
  PROVE  IsReason(FirstFault.code, FirstFault.line)
<1> DEFINE i == Min(Faulty)
           faults == ServiceFaults(i)
           bad == {k \in DOMAIN faults : faults[k] # NoError}
           service == state.services[i]
           n == Len(service.dependsOn)
           header == state.serviceLines[i]
           line == IF state.dependencyLines[i] # 0 THEN state.dependencyLines[i] ELSE header
           k == Min(bad)
<1>1. IsState(state)
  BY DEF ReaderInv, Parsed
<1>2. Faulty \subseteq DOMAIN state.services /\ Faulty \in SUBSET Nat
  <2>1. DOMAIN state.services = 1..Len(state.services)
    BY <1>1, TextFacts DEF IsState
  <2>2. QED
    BY <2>1 DEF Faulty
<1>3. i \in Faulty
  BY <1>2, MinIs
<1>4. i \in DOMAIN state.services /\ bad # {}
  BY <1>2, <1>3 DEF Faulty
<1>5. FirstFault = faults[k]
  BY DEF FirstFault
<1> HIDE DEF i
<1>6. /\ n \in Nat /\ DOMAIN service.dependsOn = 1..n
      /\ DOMAIN faults = 1..(2 + n)
      /\ faults[1] = IF service.binary = <<>> THEN [code |-> "MissingValue", line |-> header] ELSE NoError
      /\ faults[2] = IF service.restartDelayMax < service.restartDelay
                     THEN [code |-> "InvalidValue", line |-> header] ELSE NoError
      /\ \A j \in 1..n : faults[2 + j] = DependencyFault(service, service.dependsOn[j], line)
  BY <1>1, <1>4, FaultsAre
<1>7. bad \in SUBSET Nat
  BY <1>6
<1> HIDE DEF faults
<1>8. k \in bad
  BY <1>4, <1>7, MinIs
<1>9. k \in 1..(2 + n) /\ faults[k] # NoError
  BY <1>6, <1>8
<1>10. /\ file[header].kind = "section" /\ file[header].name = service.name
       /\ \A key \in DOMAIN ServiceField : ReadOf(service, key) = Meant(header, key)
  BY <1>4, ReadAtEnd DEF HeadersNamed
<1>11. service.binary = <<>> => PairsUnder(header, "binary") = {}
  BY <1>4, NoBinaryLine
<1>12. \A j \in DOMAIN service.dependsOn :
         /\ state.dependencyLines[i] # 0
         /\ file[state.dependencyLines[i]].means = service.dependsOn
         /\ HeaderOf(state.dependencyLines[i]) = header
  BY <1>4, DependenciesAt
<1>13. \A h \in HeadersNamed("service") : \E j \in DOMAIN state.services : state.services[j].name = file[h].name
  <2>1. /\ \A h \in HeadersNamed("service") : \E j \in DOMAIN state.services : state.serviceLines[j] = h
        /\ \A j \in DOMAIN state.services : file[state.serviceLines[j]].name = state.services[j].name
    BY ReadAtEnd
  <2>2. QED
    BY <2>1
<1> HIDE DEF k, bad, service, header, n
<1>14. CASE k = 1
  <2>1. service.binary = <<>> /\ faults[k] = [code |-> "MissingValue", line |-> header]
    BY <1>6, <1>9, <1>14
  <2>2. IsReason("MissingValue", header)
    BY <1>10, <1>11, <2>1 DEF IsReason
  <2>3. QED
    BY <1>5, <2>1, <2>2
<1>15. CASE k = 2
  <2>1. /\ service.restartDelayMax < service.restartDelay
        /\ faults[k] = [code |-> "InvalidValue", line |-> header]
    BY <1>6, <1>9, <1>15
  <2>2. /\ ReadOf(service, "restart_delay_ms") = service.restartDelay
        /\ ReadOf(service, "restart_delay_max_ms") = service.restartDelayMax
        /\ "restart_delay_ms" \in DOMAIN ServiceField /\ "restart_delay_max_ms" \in DOMAIN ServiceField
    BY DEF ReadOf, ServiceField
  <2>3. Meant(header, "restart_delay_max_ms") < Meant(header, "restart_delay_ms")
    BY <1>10, <2>1, <2>2
  <2>4. IsReason("InvalidValue", header)
    BY <1>10, <2>3 DEF IsReason
  <2>5. QED
    BY <1>5, <2>1, <2>4
<1>16. CASE k \notin 1..2
  <2> DEFINE j == k - 2
             name == service.dependsOn[j]
             l == state.dependencyLines[i]
  <2>1. j \in 1..n /\ 2 + j = k
    BY <1>6, <1>9, <1>16
  <2>2. l # 0 /\ file[l].means = service.dependsOn /\ HeaderOf(l) = header /\ line = l
    BY <1>6, <1>12, <2>1
  <2>3. faults[k] = DependencyFault(service, name, l)
    BY <1>6, <2>1, <2>2
  <2>4. name \in ToSet(file[l].means) /\ j \in DOMAIN file[l].means
    BY <1>6, <2>1, <2>2 DEF ToSet
  <2> HIDE DEF j, l
  <2>5. CASE name = service.name
    <3>1. faults[k] = [code |-> "DependencyCycle", line |-> l]
      BY <2>3, <2>5 DEF DependencyFault
    <3>2. IsReason("DependencyCycle", l)
      BY <1>10, <2>2, <2>4, <2>5 DEF IsReason
    <3>3. QED
      BY <1>5, <3>1, <3>2
  <2>6. CASE name # service.name
    <3>1. /\ Named(state.services, name) = {}
          /\ faults[k] = [code |-> "UnknownDependency", line |-> l]
      BY <1>9, <2>3, <2>6 DEF DependencyFault
    <3>2. \A m \in DOMAIN state.services : state.services[m].name # name
      BY <3>1 DEF Named
    <3>3. \A h \in HeadersNamed("service") : file[h].name # name
      BY <1>13, <3>2
    <3>4. file[l].means[j] = name
      BY <2>2
    <3>5. IsReason("UnknownDependency", l)
      BY <2>4, <3>3, <3>4 DEF IsReason
    <3>6. QED
      BY <1>5, <3>1, <3>5
  <2>7. QED
    BY <2>5, <2>6
<1>17. k \in {1, 2} <=> k \in 1..2
  OBVIOUS
<1>18. QED
  BY <1>14, <1>15, <1>16, <1>17

\* When the lines are over, the reader is behind the last one.
LEMMA AtTheEnd ==
  ASSUME ReaderInv, LinesOver
  PROVE  at = Len(file) + 1
<1>1. Len(file) \in Nat
  BY TextFacts DEF ReaderInv, Parsed, IsFile
<1>2. QED
  BY <1>1 DEF ReaderInv, Parsed, LinesOver

\* A file with a fault in a service is refused for it.
LEMMA RefuseServicesReading == ASSUME ReadingInv, RefuseServices PROVE ReadingInv'
<1>1. ReaderInv /\ ReaderInv' /\ Reads(at, state)
  BY RefuseServicesInv DEF ReadingInv
<1>2. LinesOver /\ Faulty # {} /\ Refuse(FirstFault.code, FirstFault.line)
  BY DEF RefuseServices
<1>3. FirstFault.code # "Ok"
  BY <1>1, <1>2, FirstFaultIs DEF ReaderInv, Parsed
<1>4. IsReason(FirstFault.code, FirstFault.line)
  BY <1>1, <1>2, AtTheEnd, FaultHasReason
<1>5. QED
  BY <1>1, <1>2, <1>3, <1>4, RefuseReads

\* A refusal that shows no line needs no reason.
LEMMA CannotReadReading == ASSUME ReadingInv, CannotRead PROVE ReadingInv'
<1>1. ReaderInv' /\ Refuse("Unreadable", 0)
  BY CannotReadInv DEF ReadingInv, CannotRead
<1>2. QED
  BY <1>1, RefuseReads

\* So does one for a cycle, as the search shows no line.
LEMMA RefuseCycleReading == ASSUME ReadingInv, RefuseCycle PROVE ReadingInv'
<1>1. ReaderInv' /\ Refuse("DependencyCycle", 0)
  BY RefuseCycleInv DEF ReadingInv, RefuseCycle
<1>2. QED
  BY <1>1, RefuseReads

\* So does one for an endpoint that is there twice.
LEMMA RefuseEndpointsReading == ASSUME ReadingInv, RefuseEndpoints PROVE ReadingInv'
<1>1. ReaderInv' /\ Refuse("InvalidValue", 0)
  BY RefuseEndpointsInv DEF ReadingInv, RefuseEndpoints
<1>2. QED
  BY <1>1, RefuseReads

\* A step that neither reads nor refuses keeps what is read.
LEMMA OtherStepReads ==
  ASSUME ReadingInv, ReaderInv', UNCHANGED <<file, at, state>>,
         (phase = "cycles" \/ Accepted)' => at = Len(file) + 1,
         phase' = "done" => (phase = "done" /\ error' = error) \/ error' = NoError
  PROVE  ReadingInv'
<1>1. file' = file /\ at' = at /\ state' = state
  OBVIOUS
<1>2. ValuesAsMeant'
  BY <1>1, ValuesStay DEF ReadingInv
<1>3. Reads(at, state)'
  BY <1>1, NowReads DEF ReadingInv
<1>4. (phase = "cycles" \/ Accepted => at = Len(file) + 1)'
  BY <1>1
<1>5. RefusedForAReason'
  <2>1. CASE phase' # "done"
    BY <2>1 DEF RefusedForAReason
  <2>2. CASE error' = NoError
    BY <2>2 DEF RefusedForAReason, NoError
  <2>3. CASE phase = "done" /\ error' = error
    <3>1. IsReason(error.code, error.line)' <=> IsReason(error.code, error.line)
      <4>1. \A code, l : IsReason(code, l)' <=> IsReason(code, l)
        BY <1>1, ReasonStays
      <4>2. QED
        BY <2>3, <4>1
    <3>2. QED
      BY <2>3, <3>1 DEF ReadingInv, RefusedForAReason
  <2>4. QED
    BY <2>1, <2>2, <2>3
<1>6. QED
  BY <1>2, <1>3, <1>4, <1>5 DEF ReadingInv

\* The file is read.
LEMMA ReadFileReading == ASSUME ReadingInv, ReadFile PROVE ReadingInv'
<1>1. ReaderInv'
  BY ReadFileInv DEF ReadingInv
<1>2. phase' = "lines" /\ UNCHANGED <<file, at, state>> /\ ~Accepted'
  BY DEF ReadFile, Accepted
<1>3. QED
  BY <1>1, <1>2, OtherStepReads

\* The services are searched when the lines are over.
LEMMA SearchServicesReading == ASSUME ReadingInv, SearchServices PROVE ReadingInv'
<1>1. ReaderInv'
  BY SearchServicesInv DEF ReadingInv
<1>2. phase' = "cycles" /\ UNCHANGED <<file, at, state>> /\ LinesOver
  BY DEF SearchServices
<1>3. at = Len(file) + 1
  BY <1>2, AtTheEnd DEF ReadingInv
<1>4. QED
  BY <1>1, <1>2, <1>3, OtherStepReads

\* The search leaves what is read alone.
LEMMA SearchReading == ASSUME ReadingInv, Search PROVE ReadingInv'
<1>1. ReaderInv'
  BY SearchInv DEF ReadingInv
<1>2. phase = "cycles" /\ UNCHANGED <<file, at, state, phase, error>>
  BY DEF Search, readerVars
<1>3. at = Len(file) + 1
  BY <1>2 DEF ReadingInv
<1>4. QED
  BY <1>1, <1>2, <1>3, OtherStepReads

\* What is accepted is what is read.
LEMMA AcceptFileReading == ASSUME ReadingInv, AcceptFile PROVE ReadingInv'
<1>1. ReaderInv'
  BY AcceptFileInv DEF ReadingInv
<1>2. phase = "cycles" /\ UNCHANGED <<file, at, state>> /\ error' = NoError
  BY DEF AcceptFile
<1>3. at = Len(file) + 1
  BY <1>2 DEF ReadingInv
<1>4. QED
  BY <1>1, <1>2, <1>3, OtherStepReads

\* Nothing is meant before the first line.
LEMMA NothingReadYet ==
  ASSUME ReaderInv
  PROVE  Reads(1, EmptyState)
<1> DEFINE s == EmptyState
<1>1. IsText(file) /\ Len(file) \in Nat /\ DOMAIN file = 1..Len(file)
  BY TextFacts DEF ReaderInv, Parsed, IsFile
<1>2. \A l \in DOMAIN file : ~(l < 1)
  BY <1>1
<1>3. /\ \A headers, key : LinesOf(headers, key, 1) = {}
      /\ HeadersBefore(1) = {}
  BY <1>2 DEF LinesOf, HeadersBefore, HeadersNamed
<1>4. HeaderOf(1 - 1) = 0
  <2>1. 0 \in 0..Len(file) /\ 1 - 1 = 0
    BY <1>1
  <2>2. HeaderOf(0) \in 0..0
    BY <1>1, <2>1, HeaderIs
  <2>3. QED
    BY <2>1, <2>2
<1>5. /\ s.section = "none" /\ s.seenKeys = {} /\ s.managerSeen = FALSE /\ s.defaultsSeen = FALSE
      /\ s.services = <<>> /\ s.serviceLines = <<>> /\ s.dependencyLines = <<>>
      /\ s.manager = BuiltInManager /\ s.defaults = BuiltInService
  BY DEF EmptyState
<1> HIDE DEF s
<1>6. \A key : (key = "env" => IsText(BuiltInService[ServiceField[key]]))
  BY EmptyText DEF BuiltInService, ServiceField
<1>7. SectionRead(1, s)
  BY <1>2, <1>4, <1>5 DEF SectionRead
<1>8. HeadersRead(1, s)
  <2>1. \A word : \A h \in HeadersNamed(word) : ~(h < 1)
    BY <1>2 DEF HeadersNamed
  <2>2. QED
    BY <1>5, <2>1 DEF HeadersRead
<1>9. ServicesRead(1, s)
  BY <1>3, <1>5, NoOrder, EmptyText DEF ServicesRead
<1>10. DependenciesRead(1, s)
  BY <1>3, <1>5, EmptyText DEF DependenciesRead
<1>11. BinariesRead(1)
  BY <1>2 DEF BinariesRead
<1>12. \A key \in DOMAIN ManagerField : key # "env"
  BY DEF ManagerField
<1>13. \A key \in DOMAIN ManagerField : ManagerSoFar(key, 1) = BuiltInManager[ManagerField[key]]
  BY <1>3, <1>12, NoLines DEF ManagerSoFar
<1>14. \A key : InDefaultsSoFar(key, 1) = BuiltInService[ServiceField[key]]
  BY <1>3, <1>6, NoLines DEF InDefaultsSoFar
<1>15. \A key : ReadOf(BuiltInService, key) = BuiltInService[ServiceField[key]]
  <2>1. BuiltInService.output # "file"
    BY DEF BuiltInService
  <2>2. QED
    BY <2>1 DEF ReadOf
<1>16. ValuesRead(1, s)
  BY <1>5, <1>13, <1>14, <1>15, EmptyText DEF ValuesRead
<1>17. QED
  BY <1>7, <1>8, <1>9, <1>10, <1>11, <1>16 DEF Reads, s

\* The invariant holds before the first line.
LEMMA ReadingInit ==
  ASSUME NEW lines, Open(lines), IsFile, ValuesAsMeant
  PROVE  ReadingInv
<1>1. ReaderInv
  BY ReaderInit
<1>2. at = 1 /\ phase = "open" /\ state = EmptyState
  BY DEF Open
<1>3. Reads(at, state)
  BY <1>1, <1>2, NothingReadYet
<1>4. QED
  BY <1>1, <1>2, <1>3 DEF ReadingInv, Accepted, RefusedForAReason

\* Every state of the reading has it, whatever the file, if its values come out as meant.
THEOREM ReadingInvariant == ReaderSpec /\ ValuesAsMeant => []ReadingInv
<1>1. (\E lines : Open(lines)) /\ IsFile /\ ValuesAsMeant => ReadingInv
  BY ReadingInit
<1>2. ReadingInv /\ [ReaderNext]_<<readerVars, vars>> => ReadingInv'
  <2> SUFFICES ASSUME ReadingInv, [ReaderNext]_<<readerVars, vars>>
               PROVE  ReadingInv'
    OBVIOUS
  <2>1. CASE ReaderNext
    BY <2>1, CannotReadReading, ReadFileReading, BlankLineReading, BadLineReading, OpenManagerReading,
       OpenDefaultsReading, OpenServiceReading, OpenUnknownReading, RefuseKeyReading, ReadPairReading,
       RefuseServicesReading, SearchServicesReading, SearchReading, RefuseCycleReading, RefuseEndpointsReading,
       AcceptFileReading
       DEF ReaderNext
  <2>2. CASE UNCHANGED <<readerVars, vars>>
    <3>1. UNCHANGED <<file, at, phase, state, error, out>>
      BY <2>2 DEF readerVars
    <3>2. ReaderInv'
      BY <2>2, ReaderStutter DEF ReadingInv
    <3>3. Accepted' => Accepted
      BY <3>1 DEF Accepted
    <3>4. (phase = "cycles" \/ Accepted)' => at = Len(file) + 1
      BY <3>1, <3>3 DEF ReadingInv
    <3>5. phase' = "done" => phase = "done" /\ error' = error
      BY <3>1
    <3>6. QED
      BY <3>1, <3>2, <3>4, <3>5, OtherStepReads
  <2>3. QED
    BY <2>1, <2>2
<1>3. QED
  BY <1>1, <1>2, PTL DEF ReaderSpec

\* What the invariant says of an accepted file.
LEMMA AcceptedIsRead == ASSUME ReadingInv PROVE ReadAsWritten
<1> SUFFICES ASSUME Accepted
             PROVE  ReadAsWritten
  BY DEF ReadAsWritten
<1> DEFINE headers == InOrder(HeadersNamed("service"))
<1>1. ReaderInv /\ Reads(at, state) /\ at = Len(file) + 1
  BY DEF ReadingInv
<1>2. IsText(file) /\ Len(file) \in Nat /\ DOMAIN file = 1..Len(file)
  BY <1>1, TextFacts DEF ReaderInv, Parsed, IsFile
<1>3. out.manager = state.manager /\ out.services = state.services
  BY <1>1 DEF ReaderInv, Ended
<1>4. HeadersBefore(at) = HeadersNamed("service")
  BY <1>1, <1>2, MeantAtEnd
<1>5. state.serviceLines = headers
  BY <1>1, <1>4 DEF Reads, ServicesRead
<1>6. Len(out.services) = Len(headers) /\ DOMAIN headers = DOMAIN state.services
  <2>1. Len(state.services) = Cardinality(HeadersNamed("service"))
    BY <1>1, <1>4 DEF Reads, ServicesRead
  <2>2. HeadersNamed("service") \in SUBSET (1..Len(file))
    BY <1>2 DEF HeadersNamed
  <2>3. IsText(headers) /\ Len(headers) = Cardinality(HeadersNamed("service"))
    <3> DEFINE S == HeadersNamed("service")
               n == Cardinality(S)
    <3>1. n \in Nat /\ IsOrder(InOrder(S), S)
      BY <1>2, <2>2, LinesAreFinite, OrderIs
    <3>2. InOrder(S) \in [1..n -> S]
      BY <3>1 DEF IsOrder
    <3> HIDE DEF S, n
    <3>3. InOrder(S) \in Seq(S) /\ Len(InOrder(S)) = n
      BY <3>1, <3>2, SeqDef, LenProperties
    <3>4. IsText(InOrder(S))
      BY <3>3, TextIs
    <3>5. QED
      BY <3>3, <3>4 DEF S, n
  <2>4. IsText(state.services)
    BY <1>1 DEF ReaderInv, Parsed, IsState
  <2> HIDE DEF headers
  <2>5. DOMAIN headers = 1..Len(headers) /\ DOMAIN state.services = 1..Len(state.services)
    BY <2>3, <2>4, TextFacts
  <2>6. QED
    BY <1>3, <2>1, <2>3, <2>5
<1>7. \A i \in DOMAIN headers :
        /\ out.services[i].name = file[headers[i]].name
        /\ \A key \in DOMAIN ServiceField : ReadOf(out.services[i], key) = Meant(headers[i], key)
  BY <1>1, <1>3, <1>5, <1>6, ReadAtEnd
<1>8. \A key \in DOMAIN ManagerField : out.manager[ManagerField[key]] = MeantForManager(key)
  <2> SUFFICES ASSUME NEW key \in DOMAIN ManagerField
               PROVE  out.manager[ManagerField[key]] = MeantForManager(key)
    OBVIOUS
  <2>1. out.manager[ManagerField[key]] = ManagerSoFar(key, at)
    BY <1>1, <1>3 DEF Reads, ValuesRead
  <2>2. ManagerSoFar(key, at) = ValueOf(UNION {PairsUnder(h, key) : h \in HeadersNamed("manager")}, key,
                                        BuiltInManager[ManagerField[key]])
    BY <1>1, <1>2, MeantAtEnd
  <2>3. key # "env"
    BY DEF ManagerField
  <2>4. QED
    BY <2>1, <2>2, <2>3 DEF ValueOf, MeantForManager
<1>9. QED
  BY <1>6, <1>7, <1>8 DEF ReadAsWritten

\* What is read is what was written, field by field, whatever the file and the order of its lines.
THEOREM FilesAreReadAsWritten == ReaderSpec /\ ValuesAsMeant => []ReadAsWritten
<1>1. ReadingInv => ReadAsWritten
  BY AcceptedIsRead
<1> QED
  BY <1>1, ReadingInvariant, PTL

\* A file is only refused for what its author finds at the line shown.
THEOREM RefusalsHaveReasons == ReaderSpec /\ ValuesAsMeant => []RefusedForAReason
<1>1. ReadingInv => RefusedForAReason
  BY DEF ReadingInv
<1> QED
  BY <1>1, ReadingInvariant, PTL

=============================================================================
