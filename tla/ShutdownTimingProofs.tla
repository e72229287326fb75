------------------------ MODULE ShutdownTimingProofs ------------------------
(***************************************************************************)
(* Proofs about ShutdownTiming: whatever the services need of each other,  *)
(* and however many they are, the sum of their stop timeouts is time       *)
(* enough for all of them.                                                 *)
(***************************************************************************)
EXTENDS ShutdownTiming, FiniteSetTheorems, WellFoundedInduction, TLAPS

\* A reload keeps every service that is there, and does not shorten the timeout of one that stops.
KeepsWhatRuns ==
  load' # load =>
    \A n \in AliveNames :
      /\ n \in load'.listed
      /\ phase[n] = "stopping" => load'.stopTimeout[n] >= load.stopTimeout[n]

\* The files the daemon reads list the same services, with the same timeouts.
SameTimes == \A k, l \in Loads : k.listed = l.listed /\ k.stopTimeout = l.stopTimeout

\* The limit on the shutdown's time does not cut the sum off.
BudgetFits == \A l \in Loads : ShutdownBudget(l) < MaxShutdown

----------------------------------------------------------------------------
(* The sum of the timeouts *)

\* Every set of natural numbers that is not empty has a least one.
LEMMA LeastNatural ==
  ASSUME NEW T \in SUBSET Nat, T # {}
  PROVE  \E x \in T : \A y \in T : x <= y
<1>1. IsWellFoundedOn(OpToRel(<, Nat), Nat)
  BY NatLessThanWellFounded
<1>2. PICK x \in T : \A y \in T : ~ (<<y, x>> \in OpToRel(<, Nat))
  BY <1>1, WFMin, Zenon
<1>3. \A y \in T : ~ (y < x)
  BY <1>2 DEF OpToRel
<1>4. QED
  BY <1>3

\* A step of the sum over a set, as the fold of ShutdownBudget takes it.
SumStep(l, f, s) ==
  IF s = {} THEN Slack
  ELSE LET n == CHOOSE n \in s : TRUE
       IN  l.stopTimeout[n] + f[s \ {n}]

\* The sums over all sets of listed services, the slack included.
SumOver(l) == CHOOSE f : f = [s \in SUBSET l.listed |-> SumStep(l, f, s)]

\* The budget is the sum over all that are listed, up to the limit.
LEMMA BudgetIs ==
  ASSUME NEW l
  PROVE  ShutdownBudget(l) = IF SumOver(l)[l.listed] < MaxShutdown THEN SumOver(l)[l.listed] ELSE MaxShutdown
BY DEF ShutdownBudget, MapThenFoldSet, SumOver, SumStep

\* Sets of listed services are finite.
LEMMA SizesAre ==
  ASSUME NEW l \in Loads, NEW s \in SUBSET l.listed
  PROVE  /\ IsFiniteSet(s)
         /\ Cardinality(s) \in Nat
         /\ Cardinality(s) = 0 <=> s = {}
         /\ \A n \in s : Cardinality(s \ {n}) = Cardinality(s) - 1
<1>1. s \subseteq Names
  BY LoadsAssumption DEF Load
<1>2. IsFiniteSet(s)
  BY <1>1, NamesAssumption, FS_Subset
<1>3. Cardinality(s) \in Nat
  BY <1>2, FS_CardinalityType
<1>4. Cardinality(s) = 0 <=> s = {}
  BY <1>2, FS_EmptySet
<1>5. \A n \in s : Cardinality(s \ {n}) = Cardinality(s) - 1
  BY <1>2, FS_RemoveElement
<1>6. QED
  BY <1>2, <1>3, <1>4, <1>5

\* The recursive function of the fold exists: no least size is without one.
LEMMA SumExists ==
  ASSUME NEW l \in Loads
  PROVE  \E f : f = [s \in SUBSET l.listed |-> SumStep(l, f, s)]
<1> DEFINE Upto(k) == {s \in SUBSET l.listed : Cardinality(s) <= k}
           Undefined == {k \in Nat : ~\E f : f = [s \in Upto(k) |-> SumStep(l, f, s)]}
<1>1. Undefined = {}
  <2>1. SUFFICES ASSUME Undefined # {}
                 PROVE  FALSE
    OBVIOUS
  <2>2. PICK k \in Undefined : \A j \in Undefined : k <= j
    BY <2>1, LeastNatural
  <2>3. k \in Nat
    OBVIOUS
  <2>4. \E f : f = [s \in Upto(k) |-> SumStep(l, f, s)]
    <3>1. CASE k = 0
      <4> DEFINE f == [s \in Upto(k) |-> Slack]
      <4>1. \A s \in Upto(k) : s = {}
        BY <3>1, SizesAre
      <4>2. \A s \in Upto(k) : SumStep(l, f, s) = Slack
        BY <4>1 DEF SumStep
      <4>3. f = [s \in Upto(k) |-> SumStep(l, f, s)]
        BY <4>2
      <4>4. QED
        BY <4>3
    <3>2. CASE k # 0
      <4>1. k - 1 \in Nat /\ ~(k <= k - 1)
        BY <2>3, <3>2
      <4>2. k - 1 \notin Undefined
        BY <2>2, <4>1
      <4>3. PICK f : f = [s \in Upto(k - 1) |-> SumStep(l, f, s)]
        BY <4>1, <4>2
      <4> DEFINE g == [s \in Upto(k) |-> SumStep(l, f, s)]
      <4>4. \A s \in Upto(k - 1) : f[s] = SumStep(l, f, s)
        BY <4>3, Zenon
      <4>5. \A s \in Upto(k - 1) : s \in Upto(k)
        <5> SUFFICES ASSUME NEW s \in Upto(k - 1)
                     PROVE  Cardinality(s) <= k
          OBVIOUS
        <5>1. Cardinality(s) \in Nat /\ Cardinality(s) <= k - 1
          BY SizesAre
        <5>2. QED
          BY <2>3, <5>1
      <4>6. \A s \in Upto(k - 1) : g[s] = f[s]
        BY <4>4, <4>5
      <4>7. ASSUME NEW s \in Upto(k)
            PROVE  SumStep(l, f, s) = SumStep(l, g, s)
        <5>1. CASE s = {}
          BY <5>1 DEF SumStep
        <5>2. CASE s # {}
          <6> DEFINE n == CHOOSE n \in s : TRUE
          <6>1. n \in s
            BY <5>2
          <6>2. Cardinality(s \ {n}) = Cardinality(s) - 1 /\ Cardinality(s) \in Nat /\ Cardinality(s) <= k
            BY <6>1, SizesAre
          <6>3. s \ {n} \in Upto(k - 1)
            BY <2>3, <6>2
          <6>4. f[s \ {n}] = g[s \ {n}]
            BY <4>6, <6>3
          <6> HIDE DEF g
          <6>5. QED
            BY <5>2, <6>4 DEF SumStep
        <5>3. QED
          BY <5>1, <5>2
      <4>8. g = [s \in Upto(k) |-> SumStep(l, g, s)]
        BY <4>7
      <4>9. QED
        BY <4>8
    <3>3. QED
      BY <3>1, <3>2
  <2>5. QED
    BY <2>2, <2>4
<1> DEFINE size == Cardinality(l.listed)
<1>2. size \in Nat
  BY SizesAre
<1>3. Upto(size) = SUBSET l.listed
  <2> SUFFICES ASSUME NEW s \in SUBSET l.listed
               PROVE  Cardinality(s) <= size
    OBVIOUS
  <2>1. IsFiniteSet(l.listed)
    BY SizesAre
  <2>2. QED
    BY <2>1, FS_Subset
<1> HIDE DEF size
<1>4. \E f : f = [s \in Upto(size) |-> SumStep(l, f, s)]
  BY <1>1, <1>2
<1>5. QED
  BY <1>3, <1>4

\* The timeouts are natural numbers.
LEMMA TimeoutsAre ==
  ASSUME NEW l \in Loads, NEW n \in l.listed
  PROVE  n \in Names /\ l.stopTimeout[n] \in Nat
BY LoadsAssumption DEF Load

\* A sum is a natural number: no least set has another.
LEMMA SumIs ==
  ASSUME NEW l \in Loads
  PROVE  /\ SumOver(l)[{}] = Slack
         /\ \A s \in SUBSET l.listed : SumOver(l)[s] \in Nat
         /\ \A s \in SUBSET l.listed : s # {} =>
              \E n \in s : SumOver(l)[s] = l.stopTimeout[n] + SumOver(l)[s \ {n}]
<1> DEFINE f == SumOver(l)
<1>1. f = [s \in SUBSET l.listed |-> SumStep(l, f, s)]
  BY SumExists, Zenon DEF SumOver
<1> HIDE DEF f
<1>2. \A s \in SUBSET l.listed : f[s] = SumStep(l, f, s)
  BY <1>1, Zenon
<1>3. f[{}] = Slack
  BY <1>2 DEF SumStep
<1>4. ASSUME NEW s \in SUBSET l.listed, s # {}
      PROVE  \E n \in s : f[s] = l.stopTimeout[n] + f[s \ {n}]
  <2> DEFINE n == CHOOSE n \in s : TRUE
  <2>1. n \in s
    BY <1>4
  <2>2. f[s] = l.stopTimeout[n] + f[s \ {n}]
    BY <1>2, <1>4 DEF SumStep
  <2>3. QED
    BY <2>1, <2>2
<1> DEFINE Bad == {k \in Nat : \E s \in SUBSET l.listed : Cardinality(s) = k /\ f[s] \notin Nat}
<1>5. Bad = {}
  <2>1. SUFFICES ASSUME Bad # {}
                 PROVE  FALSE
    OBVIOUS
  <2>2. PICK k \in Bad : \A j \in Bad : k <= j
    BY <2>1, LeastNatural
  <2>3. PICK s \in SUBSET l.listed : Cardinality(s) = k /\ f[s] \notin Nat
    OBVIOUS
  <2>4. s # {}
    BY <1>3, <2>3, TimesAssumption
  <2>5. PICK n \in s : f[s] = l.stopTimeout[n] + f[s \ {n}]
    BY <1>4, <2>4
  <2>6. Cardinality(s \ {n}) = k - 1 /\ k \in Nat /\ k # 0
    BY <2>3, <2>4, SizesAre
  <2>7. k - 1 \in Nat /\ ~(k <= k - 1)
    BY <2>6
  <2>8. k - 1 \notin Bad
    BY <2>2, <2>7
  <2>9. s \ {n} \in SUBSET l.listed
    OBVIOUS
  <2>10. f[s \ {n}] \in Nat
    BY <2>6, <2>7, <2>8, <2>9
  <2>11. l.stopTimeout[n] \in Nat
    BY TimeoutsAre
  <2>12. QED
    BY <2>3, <2>5, <2>10, <2>11
<1>6. ASSUME NEW s \in SUBSET l.listed
      PROVE  f[s] \in Nat
  <2>1. Cardinality(s) \in Nat
    BY SizesAre
  <2>2. QED
    BY <1>5, <2>1
<1>7. QED
  BY <1>3, <1>4, <1>6 DEF f

\* Whichever service is left out, the sum is less by its timeout: no least set is an exception.
LEMMA SumWithout ==
  ASSUME NEW l \in Loads, NEW s \in SUBSET l.listed, NEW n \in s
  PROVE  SumOver(l)[s] = l.stopTimeout[n] + SumOver(l)[s \ {n}]
<1> DEFINE f == SumOver(l)
           t == l.stopTimeout
           Good(r) == \A m \in r : f[r] = t[m] + f[r \ {m}]
           Bad == {k \in Nat : \E r \in SUBSET l.listed : Cardinality(r) = k /\ ~Good(r)}
<1>1. \A r \in SUBSET l.listed : f[r] \in Nat
  BY SumIs
<1>2. \A m \in l.listed : t[m] \in Nat
  BY TimeoutsAre
<1>3. Bad = {}
  <2>1. SUFFICES ASSUME Bad # {}
                 PROVE  FALSE
    OBVIOUS
  <2>2. PICK k \in Bad : \A j \in Bad : k <= j
    BY <2>1, LeastNatural
  <2>3. PICK r \in SUBSET l.listed : Cardinality(r) = k /\ ~Good(r)
    OBVIOUS
  <2>4. PICK m \in r : f[r] # t[m] + f[r \ {m}]
    BY <2>3
  <2>5. PICK x \in r : f[r] = t[x] + f[r \ {x}]
    BY SumIs
  <2>6. x # m
    BY <2>4, <2>5
  <2>7. /\ Cardinality(r \ {x}) = k - 1
        /\ Cardinality(r \ {m}) = k - 1
        /\ k \in Nat /\ k # 0
    BY <2>3, SizesAre
  <2>8. k - 1 \in Nat /\ ~(k <= k - 1)
    BY <2>7
  <2>9. k - 1 \notin Bad
    BY <2>2, <2>8
  <2> HIDE DEF f, t
  <2>10. Good(r \ {x}) /\ Good(r \ {m})
    BY <2>7, <2>8, <2>9
  <2>11. f[r \ {x}] = t[m] + f[(r \ {x}) \ {m}] /\ f[r \ {m}] = t[x] + f[(r \ {m}) \ {x}]
    BY <2>6, <2>10
  <2>12. (r \ {x}) \ {m} = (r \ {m}) \ {x} /\ (r \ {x}) \ {m} \in SUBSET l.listed
    OBVIOUS
  <2> DEFINE rest == f[(r \ {x}) \ {m}]
  <2>13. /\ f[r] = t[x] + (t[m] + rest)
         /\ f[r \ {m}] = t[x] + rest
         /\ rest \in Nat /\ t[x] \in Nat /\ t[m] \in Nat
    BY <1>1, <1>2, <2>5, <2>11, <2>12
  <2> HIDE DEF rest
  <2>14. f[r] = t[m] + f[r \ {m}]
    BY <2>13
  <2>15. QED
    BY <2>4, <2>14
<1>4. Cardinality(s) \in Nat
  BY SizesAre
<1>5. Good(s)
  BY <1>3, <1>4
<1>6. QED
  BY <1>5

\* Fewer services take no longer: no least set has a part that does.
LEMMA SumOfPart ==
  ASSUME NEW l \in Loads, NEW s \in SUBSET l.listed, NEW part \in SUBSET s
  PROVE  SumOver(l)[part] <= SumOver(l)[s]
<1> DEFINE f == SumOver(l)
           Good(r) == \A p \in SUBSET r : f[p] <= f[r]
           Bad == {k \in Nat : \E r \in SUBSET l.listed : Cardinality(r) = k /\ ~Good(r)}
<1>1. \A r \in SUBSET l.listed : f[r] \in Nat
  BY SumIs
<1>2. Bad = {}
  <2>1. SUFFICES ASSUME Bad # {}
                 PROVE  FALSE
    OBVIOUS
  <2>2. PICK k \in Bad : \A j \in Bad : k <= j
    BY <2>1, LeastNatural
  <2>3. PICK r \in SUBSET l.listed : Cardinality(r) = k /\ ~Good(r)
    OBVIOUS
  <2>4. PICK p \in SUBSET r : ~(f[p] <= f[r])
    BY <2>3
  <2>5. p # r
    BY <1>1, <2>4
  <2>6. PICK x \in r : x \notin p
    BY <2>5
  <2>7. Cardinality(r \ {x}) = k - 1 /\ k \in Nat /\ k # 0
    BY <2>3, SizesAre
  <2>8. k - 1 \in Nat /\ ~(k <= k - 1)
    BY <2>7
  <2>9. k - 1 \notin Bad
    BY <2>2, <2>8
  <2>10. f[r] = l.stopTimeout[x] + f[r \ {x}] /\ l.stopTimeout[x] \in Nat
    BY SumWithout, TimeoutsAre
  <2> HIDE DEF f
  <2>11. Good(r \ {x})
    BY <2>7, <2>8, <2>9
  <2>12. p \in SUBSET (r \ {x})
    BY <2>6
  <2>13. f[p] <= f[r \ {x}]
    BY <2>11, <2>12
  <2>14. f[p] \in Nat /\ f[r \ {x}] \in Nat /\ f[r] \in Nat
    BY <1>1
  <2>15. QED
    BY <2>4, <2>10, <2>13, <2>14
<1>3. Cardinality(s) \in Nat
  BY SizesAre
<1>4. Good(s)
  BY <1>2, <1>3
<1>5. QED
  BY <1>4

----------------------------------------------------------------------------
(* The inductive invariant *)

Types ==
  /\ load \in Loads
  /\ settings \in [Names -> [dependsOn : SUBSET Names, stopTimeout : Nat]]
  /\ phase \in [Names -> {"up", "stopping", "gone"}]
  /\ stopDeadline \in [Names -> Nat]
  /\ shuttingDown \in BOOLEAN
  /\ shutdownDeadline \in Nat
  /\ now \in Nat

\* The services are those listed, with the settings of the file.
AsLoaded ==
  \A n \in Names :
    /\ n \in load.listed => settings[n] = SettingsIn(load, n)
    /\ n \notin load.listed => phase[n] = "gone"

\* Who stops was given no more than its timeout.
DueInTime == \A n \in Names : phase[n] = "stopping" => stopDeadline[n] <= now + load.stopTimeout[n]

Up == {n \in Names : phase[n] = "up"}

\* Until the shutdown's time is up there is time for all that are up to stop one after the other, even
\* if they only begin when one that stops now has used all of its own.
TimeIsLeft ==
  shuttingDown /\ AliveNames # {} =>
    /\ now + SumOver(load)[Up] <= shutdownDeadline
    /\ \A n \in Names : phase[n] = "stopping" => stopDeadline[n] + SumOver(load)[Up] <= shutdownDeadline

IInv == Types /\ AsLoaded /\ DueInTime /\ TimeIsLeft

\* Those up are listed, and the sum over them is a number.
LEMMA UpIs ==
  ASSUME Types, AsLoaded
  PROVE  /\ Up \in SUBSET load.listed
         /\ AliveNames \in SUBSET load.listed
         /\ \A S \in SUBSET load.listed : SumOver(load)[S] \in Nat
<1>1. load \in Loads
  BY DEF Types
<1>2. Up \in SUBSET load.listed
  BY DEF Up, AsLoaded
<1>3. AliveNames \in SUBSET load.listed
  BY DEF AliveNames, AsLoaded
<1>4. QED
  BY <1>1, <1>2, <1>3, SumIs

\* A service goes by what the file says of it.
LEMMA SettingsAre ==
  ASSUME Types, AsLoaded, NEW n \in load.listed
  PROVE  settings[n].dependsOn = load.dependsOn[n] /\ settings[n].stopTimeout = load.stopTimeout[n]
<1>1. n \in Names
  BY TimeoutsAre DEF Types
<1>2. settings[n] = SettingsIn(load, n)
  BY <1>1 DEF AsLoaded
<1>3. SettingsIn(load, n) = [dependsOn |-> load.dependsOn[n], stopTimeout |-> load.stopTimeout[n]]
  BY DEF SettingsIn
<1>4. QED
  BY <1>2, <1>3

\* Among any services there is one that none of the others needs: no least set is without one, as one
\* that needs none of the others can be left out.
LEMMA SomeoneIsNotNeeded ==
  ASSUME NEW l \in Loads, NEW s \in SUBSET l.listed, s # {}
  PROVE  \E n \in s : \A m \in s : n \notin l.dependsOn[m]
<1> DEFINE Good(r) == \E n \in r : \A m \in r : n \notin l.dependsOn[m]
           Bad == {k \in Nat : \E r \in SUBSET l.listed : r # {} /\ Cardinality(r) = k /\ ~Good(r)}
<1>1. Bad = {}
  <2>1. SUFFICES ASSUME Bad # {}
                 PROVE  FALSE
    OBVIOUS
  <2>2. PICK k \in Bad : \A j \in Bad : k <= j
    BY <2>1, LeastNatural
  <2>3. PICK r \in SUBSET l.listed : r # {} /\ Cardinality(r) = k /\ ~Good(r)
    OBVIOUS
  <2>4. PICK x \in r : l.dependsOn[x] \cap r = {}
    BY <2>3, LoadsAssumption DEF Valid
  <2>5. Cardinality(r \ {x}) = k - 1 /\ k \in Nat /\ k # 0
    BY <2>3, SizesAre
  <2>6. k - 1 \in Nat /\ ~(k <= k - 1)
    BY <2>5
  <2>7. k - 1 \notin Bad
    BY <2>2, <2>6
  <2>8. CASE r \ {x} = {}
    BY <2>3, <2>4, <2>8
  <2>9. CASE r \ {x} # {}
    <3>1. r \ {x} \in SUBSET l.listed
      OBVIOUS
    <3>2. Good(r \ {x})
      BY <2>5, <2>6, <2>7, <2>9, <3>1
    <3>3. PICK n \in r \ {x} : \A m \in r \ {x} : n \notin l.dependsOn[m]
      BY <3>2
    <3>4. n \notin l.dependsOn[x]
      BY <2>4
    <3>5. QED
      BY <2>3, <3>3, <3>4
  <2>10. QED
    BY <2>8, <2>9
<1>2. Cardinality(s) \in Nat
  BY SizesAre
<1>3. QED
  BY <1>1, <1>2

\* While a shutdown waits for somebody, somebody is stopping who has time left.
LEMMA SomeoneIsStopping ==
  ASSUME Types, AsLoaded, shuttingDown, AliveNames # {}, NothingDue
  PROVE  \E n \in Names : phase[n] = "stopping" /\ now < stopDeadline[n]
<1>1. load \in Loads /\ AliveNames \in SUBSET load.listed
  BY UpIs DEF Types
<1>2. PICK n \in AliveNames : \A m \in AliveNames : n \notin load.dependsOn[m]
  BY <1>1, SomeoneIsNotNeeded
<1>3. n \in Names /\ phase[n] # "gone"
  BY DEF AliveNames
<1>4. \A m \in AliveNames : settings[m].dependsOn = load.dependsOn[m]
  BY <1>1, SettingsAre
<1>5. DependentsStopped(n)
  BY <1>2, <1>4 DEF DependentsStopped
<1>6. phase[n] # "up"
  BY <1>3, <1>5 DEF NothingDue, StopDue
<1>7. phase[n] = "stopping"
  BY <1>3, <1>6 DEF Types
<1>8. ~(now >= stopDeadline[n])
  BY <1>3, <1>7 DEF NothingDue, KillDue
<1>9. now \in Nat /\ stopDeadline[n] \in Nat
  BY <1>3 DEF Types
<1>10. now < stopDeadline[n]
  BY <1>8, <1>9
<1>11. QED
  BY <1>3, <1>7, <1>10

\* At first nobody stops.
LEMMA InitIInv == Init => IInv
<1> SUFFICES ASSUME Init
             PROVE  IInv
  OBVIOUS
<1>1. /\ load \in Loads
      /\ settings = [n \in Names |-> SettingsIn(load, n)]
      /\ phase = [n \in Names |-> IF n \in load.listed THEN "up" ELSE "gone"]
      /\ stopDeadline = [n \in Names |-> 0]
      /\ ~shuttingDown /\ shuttingDown \in BOOLEAN
      /\ shutdownDeadline = 0
      /\ now = 0
  BY DEF Init
<1>2. load \in Load
  BY <1>1, LoadsAssumption
<1>3. \A n \in Names : SettingsIn(load, n) \in [dependsOn : SUBSET Names, stopTimeout : Nat]
  BY <1>2 DEF SettingsIn, Load
<1>4. Types
  BY <1>1, <1>3 DEF Types
<1>5. AsLoaded
  BY <1>1 DEF AsLoaded
<1>6. DueInTime
  BY <1>1 DEF DueInTime
<1>7. TimeIsLeft
  BY <1>1 DEF TimeIsLeft
<1>8. QED
  BY <1>4, <1>5, <1>6, <1>7 DEF IInv

\* Who is asked to stop has its timeout from now on.
LEMMA StopsOfIs ==
  ASSUME Types, NEW S \in SUBSET Names, StopsOf(S),
         settings' \in [Names -> [dependsOn : SUBSET Names, stopTimeout : Nat]]
  PROVE  /\ phase' \in [Names -> {"up", "stopping", "gone"}]
         /\ stopDeadline' \in [Names -> Nat]
         /\ \A n \in S : phase'[n] = "stopping" /\ stopDeadline'[n] = now + settings'[n].stopTimeout
         /\ \A n \in Names \ S : phase'[n] = phase[n] /\ stopDeadline'[n] = stopDeadline[n]
<1>1. /\ phase' = [n \in Names |-> IF n \in S THEN "stopping" ELSE phase[n]]
      /\ stopDeadline' = [n \in Names |-> IF n \in S THEN now + settings'[n].stopTimeout ELSE stopDeadline[n]]
  BY DEF StopsOf
<1>2. \A n \in Names : now + settings'[n].stopTimeout \in Nat
  <2> SUFFICES ASSUME NEW n \in Names
               PROVE  now + settings'[n].stopTimeout \in Nat
    OBVIOUS
  <2>1. settings'[n].stopTimeout \in Nat /\ now \in Nat
    BY DEF Types
  <2>2. QED
    BY <2>1
<1>3. phase' \in [Names -> {"up", "stopping", "gone"}]
  BY <1>1 DEF Types
<1>4. stopDeadline' \in [Names -> Nat]
  BY <1>1, <1>2 DEF Types
<1>5. QED
  BY <1>1, <1>3, <1>4

\* What is done before the shutdown leaves everybody within its timeout.
LEMMA BeforeShutdown ==
  ASSUME IInv, KeepsWhatRuns, Reload \/ StopCommand \/ Starts
  PROVE  IInv'
<1> USE DEF IInv
<1>1. ~shuttingDown /\ UNCHANGED <<shuttingDown, shutdownDeadline, now>>
  BY DEF Reload, StopCommand, Starts
<1>2. TimeIsLeft'
  BY <1>1 DEF TimeIsLeft
<1>3. CASE Reload
  <2>1. PICK l \in Loads :
          /\ load' = l
          /\ settings' = [n \in Names |-> IF n \in l.listed THEN SettingsIn(l, n) ELSE settings[n]]
          /\ StopsOf({n \in Names \ l.listed : phase[n] = "up"})
    BY <1>3 DEF Reload
  <2>2. /\ l \in Load
        /\ \A n \in AliveNames : n \in l.listed
        /\ \A n \in AliveNames : phase[n] = "stopping" => l.stopTimeout[n] >= load.stopTimeout[n]
    <3>1. l \in Load
      BY LoadsAssumption
    <3>2. CASE l = load
      <4>1. AliveNames \in SUBSET l.listed
        BY <3>2, UpIs
      <4>2. \A n \in l.listed : l.stopTimeout[n] \in Nat
        BY TimeoutsAre
      <4>3. \A n \in l.listed : l.stopTimeout[n] >= load.stopTimeout[n]
        BY <3>2, <4>2
      <4>4. QED
        BY <3>1, <4>1, <4>3
    <3>3. CASE l # load
      BY <2>1, <3>1, <3>3 DEF KeepsWhatRuns
    <3>4. QED
      BY <3>2, <3>3
  <2> DEFINE S == {n \in Names \ l.listed : phase[n] = "up"}
  <2>3. S = {}
    BY <2>2 DEF AliveNames
  <2>4. \A n \in Names : SettingsIn(l, n) \in [dependsOn : SUBSET Names, stopTimeout : Nat]
    BY <2>2 DEF SettingsIn, Load
  <2>5. settings' \in [Names -> [dependsOn : SUBSET Names, stopTimeout : Nat]]
    BY <2>1, <2>4 DEF Types
  <2>6. S \in SUBSET Names
    OBVIOUS
  <2>7. StopsOf(S)
    BY <2>1
  <2> HIDE DEF S
  <2>8. /\ phase' \in [Names -> {"up", "stopping", "gone"}]
        /\ stopDeadline' \in [Names -> Nat]
        /\ \A n \in Names : phase'[n] = phase[n] /\ stopDeadline'[n] = stopDeadline[n]
    BY <2>3, <2>5, <2>6, <2>7, StopsOfIs
  <2>9. Types'
    BY <1>1, <2>1, <2>5, <2>8 DEF Types
  <2>10. AsLoaded'
    BY <2>1, <2>2, <2>8 DEF AsLoaded, AliveNames
  <2>11. DueInTime'
    <3>1. SUFFICES ASSUME NEW n \in Names, phase[n] = "stopping"
                   PROVE  stopDeadline[n] <= now + l.stopTimeout[n]
      BY <1>1, <2>1, <2>8 DEF DueInTime
    <3> DEFINE d == stopDeadline[n]  t == load.stopTimeout[n]  u == l.stopTimeout[n]
    <3>2. n \in AliveNames
      BY <3>1 DEF AliveNames
    <3>3. d <= now + t /\ u >= t
      BY <2>2, <3>1, <3>2 DEF DueInTime
    <3>4. d \in Nat /\ t \in Nat /\ u \in Nat /\ now \in Nat
      BY <2>2, <3>2, TimeoutsAre, UpIs DEF Types
    <3> HIDE DEF d, t, u
    <3>5. d <= now + u
      BY <3>3, <3>4
    <3>6. QED
      BY <3>5 DEF d, u
  <2>12. QED
    BY <1>2, <2>9, <2>10, <2>11
<1>4. CASE StopCommand
  <2>1. PICK n \in Names : phase[n] = "up" /\ UNCHANGED settings /\ StopsOf({n})
    BY <1>4 DEF StopCommand
  <2>2. UNCHANGED load
    BY <1>4 DEF StopCommand
  <2>3. /\ phase' \in [Names -> {"up", "stopping", "gone"}]
        /\ stopDeadline' \in [Names -> Nat]
        /\ phase'[n] = "stopping" /\ stopDeadline'[n] = now + settings[n].stopTimeout
        /\ \A m \in Names \ {n} : phase'[m] = phase[m] /\ stopDeadline'[m] = stopDeadline[m]
    <3>1. {n} \in SUBSET Names
      OBVIOUS
    <3>2. settings' \in [Names -> [dependsOn : SUBSET Names, stopTimeout : Nat]]
      BY <2>1 DEF Types
    <3>3. QED
      BY <2>1, <3>1, <3>2, StopsOfIs
  <2>4. Types'
    BY <1>1, <2>1, <2>2, <2>3 DEF Types
  <2>5. n \in load.listed
    BY <2>1 DEF AsLoaded
  <2>6. AsLoaded'
    BY <2>1, <2>2, <2>3, <2>5 DEF AsLoaded
  <2>7. stopDeadline'[n] = now + load.stopTimeout[n] /\ now + load.stopTimeout[n] \in Nat
    <3>1. settings[n].stopTimeout = load.stopTimeout[n]
      BY <2>5, SettingsAre
    <3>2. load.stopTimeout[n] \in Nat /\ now \in Nat
      BY <2>5, TimeoutsAre DEF Types
    <3>3. QED
      BY <2>3, <3>1, <3>2
  <2>8. DueInTime'
    <3>1. SUFFICES ASSUME NEW m \in Names, phase'[m] = "stopping"
                   PROVE  stopDeadline'[m] <= now + load.stopTimeout[m]
      BY <1>1, <2>2 DEF DueInTime
    <3>2. CASE m = n
      BY <2>7, <3>2
    <3>3. CASE m # n
      BY <2>3, <3>1, <3>3 DEF DueInTime
    <3>4. QED
      BY <3>2, <3>3
  <2>9. QED
    BY <1>2, <2>4, <2>6, <2>8
<1>5. CASE Starts
  <2>1. PICK n \in load.listed : phase[n] = "gone" /\ phase' = [phase EXCEPT ![n] = "up"]
    BY <1>5 DEF Starts
  <2>2. UNCHANGED <<load, settings, stopDeadline>>
    BY <1>5 DEF Starts
  <2>3. n \in Names
    BY TimeoutsAre DEF Types
  <2>4. phase' \in [Names -> {"up", "stopping", "gone"}] /\ phase'[n] = "up"
    BY <2>1, <2>3 DEF Types
  <2>5. \A m \in Names \ {n} : phase'[m] = phase[m]
    BY <2>1 DEF Types
  <2>6. Types'
    BY <1>1, <2>2, <2>4 DEF Types
  <2>7. AsLoaded'
    BY <2>2, <2>4, <2>5 DEF AsLoaded
  <2>8. DueInTime'
    BY <1>1, <2>2, <2>4, <2>5 DEF DueInTime
  <2>9. QED
    BY <1>2, <2>6, <2>7, <2>8
<1>6. QED
  BY <1>3, <1>4, <1>5

\* The shutdown begins: there is time for those up and, beside them, for any that stops already.
LEMMA BeginShutdownIInv ==
  ASSUME IInv, BudgetFits, BeginShutdown
  PROVE  IInv'
<1> USE DEF IInv
<1>1. UNCHANGED <<load, settings, phase, stopDeadline, now>> /\ shuttingDown'
  BY DEF BeginShutdown
<1>2. load \in Loads /\ now \in Nat
  BY DEF Types
<1> DEFINE all == SumOver(load)[load.listed]
           up == SumOver(load)[Up]
<1>3. all \in Nat /\ up \in Nat /\ Up \in SUBSET load.listed
  BY UpIs
<1>4. shutdownDeadline' = now + all
  <2>1. ShutdownBudget(load) < MaxShutdown
    BY <1>2 DEF BudgetFits
  <2>2. ShutdownBudget(load) = all
    <3> HIDE DEF all
    <3>1. ShutdownBudget(load) = IF all < MaxShutdown THEN all ELSE MaxShutdown
      BY BudgetIs DEF all
    <3>2. QED
      BY <1>3, <2>1, <3>1, TimesAssumption
  <2>3. QED
    BY <2>2 DEF BeginShutdown
<1>5. Types'
  <2>1. shutdownDeadline' \in Nat
    <3> HIDE DEF all
    <3>1. QED
      BY <1>2, <1>3, <1>4
  <2>2. shuttingDown' \in BOOLEAN
    BY DEF BeginShutdown
  <2>3. QED
    BY <1>1, <2>1, <2>2 DEF Types
<1>6. AsLoaded' /\ DueInTime'
  BY <1>1 DEF AsLoaded, DueInTime
<1>7. up <= all
  BY <1>2, <1>3, SumOfPart
<1>8. ASSUME NEW n \in Names, phase[n] = "stopping"
      PROVE  stopDeadline[n] + up <= now + all
  <2>1. n \in load.listed /\ n \notin Up
    BY <1>8 DEF AsLoaded, Up
  <2> DEFINE t == load.stopTimeout[n]  rest == SumOver(load)[load.listed \ {n}]  d == stopDeadline[n]
  <2>2. all = t + rest
    <3>1. load.listed \in SUBSET load.listed
      OBVIOUS
    <3>2. QED
      BY <1>2, <2>1, <3>1, SumWithout
  <2>3. up <= rest
    <3>1. Up \in SUBSET (load.listed \ {n}) /\ load.listed \ {n} \in SUBSET load.listed
      BY <1>3, <2>1
    <3>2. QED
      BY <1>2, <3>1, SumOfPart
  <2>4. d <= now + t
    BY <1>8 DEF DueInTime
  <2>5. t \in Nat /\ rest \in Nat /\ d \in Nat
    BY <1>2, <2>1, TimeoutsAre, UpIs DEF Types
  <2> HIDE DEF t, rest, d, all, up
  <2>6. d + up <= now + all
    BY <1>2, <1>3, <2>2, <2>3, <2>4, <2>5
  <2>7. QED
    BY <2>6 DEF d
<1>9. Up' = Up
  BY <1>1 DEF Up
<1>10. now + up <= now + all
  <2> HIDE DEF up, all
  <2>1. QED
    BY <1>2, <1>3, <1>7
<1>11. TimeIsLeft'
  BY <1>1, <1>4, <1>8, <1>9, <1>10 DEF TimeIsLeft
<1>12. QED
  BY <1>5, <1>6, <1>11

\* A service's turn to stop: what it may take is no longer among what those up may.
LEMMA StopNextIInv ==
  ASSUME IInv, StopNext
  PROVE  IInv'
<1> USE DEF IInv
<1>1. PICK n \in Names : StopDue(n) /\ UNCHANGED settings /\ StopsOf({n})
  BY DEF StopNext
<1>2. UNCHANGED <<load, settings, shuttingDown, shutdownDeadline, now>> /\ shuttingDown /\ phase[n] = "up"
  BY <1>1 DEF StopNext, StopDue
<1>3. /\ phase' \in [Names -> {"up", "stopping", "gone"}]
      /\ stopDeadline' \in [Names -> Nat]
      /\ phase'[n] = "stopping" /\ stopDeadline'[n] = now + settings[n].stopTimeout
      /\ \A m \in Names \ {n} : phase'[m] = phase[m] /\ stopDeadline'[m] = stopDeadline[m]
  <2>1. {n} \in SUBSET Names
    OBVIOUS
  <2>2. settings' \in [Names -> [dependsOn : SUBSET Names, stopTimeout : Nat]]
    BY <1>1 DEF Types
  <2>3. QED
    BY <1>1, <2>1, <2>2, StopsOfIs
<1>4. n \in load.listed /\ n \in Up /\ n \in AliveNames /\ load \in Loads /\ now \in Nat
  BY <1>2 DEF AsLoaded, Up, AliveNames, Types
<1>5. Types'
  BY <1>2, <1>3 DEF Types
<1>6. AsLoaded'
  BY <1>2, <1>3, <1>4 DEF AsLoaded
<1> DEFINE t == load.stopTimeout[n]
           up == SumOver(load)[Up]
           rest == SumOver(load)[Up \ {n}]
<1>7. t \in Nat /\ stopDeadline'[n] = now + t
  BY <1>3, <1>4, SettingsAre, TimeoutsAre
<1>8. up = t + rest /\ rest \in Nat /\ up \in Nat
  <2>1. Up \in SUBSET load.listed /\ Up \ {n} \in SUBSET load.listed
    BY UpIs
  <2>2. QED
    BY <1>4, <2>1, SumWithout, UpIs
<1>9. Up' = Up \ {n}
  BY <1>3 DEF Up
<1>10. /\ now + up <= shutdownDeadline
       /\ \A m \in Names : phase[m] = "stopping" => stopDeadline[m] + up <= shutdownDeadline
  BY <1>2, <1>4 DEF TimeIsLeft
<1>11. \A m \in Names : stopDeadline[m] \in Nat
  BY DEF Types
<1> HIDE DEF t, up, rest
<1>12. shutdownDeadline \in Nat
  BY DEF Types
<1>13. DueInTime'
  <2>1. SUFFICES ASSUME NEW m \in Names, phase'[m] = "stopping"
                 PROVE  stopDeadline'[m] <= now + load.stopTimeout[m]
    BY <1>2 DEF DueInTime
  <2>2. CASE m = n
    <3>1. now + t <= now + t
      BY <1>4, <1>7
    <3>2. QED
      BY <1>7, <2>2, <3>1 DEF t
  <2>3. CASE m # n
    BY <1>3, <2>1, <2>3 DEF DueInTime
  <2>4. QED
    BY <2>2, <2>3
<1>14. now + rest <= shutdownDeadline
  BY <1>4, <1>7, <1>8, <1>10, <1>12
<1>15. ASSUME NEW m \in Names, phase'[m] = "stopping"
       PROVE  stopDeadline'[m] + rest <= shutdownDeadline
  <2>1. CASE m = n
    BY <1>4, <1>7, <1>8, <1>10, <1>12, <2>1
  <2>2. CASE m # n
    <3> DEFINE d == stopDeadline[m]
    <3>1. d \in Nat /\ d + up <= shutdownDeadline
      BY <1>3, <1>10, <1>11, <1>15, <2>2
    <3> HIDE DEF d
    <3>2. d + rest <= shutdownDeadline
      BY <1>7, <1>8, <1>12, <3>1
    <3>3. stopDeadline'[m] = d
      BY <1>3, <2>2 DEF d
    <3>4. QED
      BY <3>2, <3>3
  <2>3. QED
    BY <2>1, <2>2
<1>16. TimeIsLeft'
  BY <1>2, <1>9, <1>14, <1>15 DEF TimeIsLeft, rest
<1>17. QED
  BY <1>5, <1>6, <1>13, <1>16

\* Services end: those left have no less time.
LEMMA EndsIInv ==
  ASSUME IInv, KillNext \/ ProcessEnds \/ KillAll
  PROVE  IInv'
<1> USE DEF IInv
<1>1. UNCHANGED <<load, settings, stopDeadline, shuttingDown, shutdownDeadline, now>>
  BY DEF KillNext, ProcessEnds, KillAll
<1>2. /\ phase' \in [Names -> {"up", "stopping", "gone"}]
      /\ \A m \in Names : phase'[m] \in {phase[m], "gone"}
  <2>1. CASE KillAll
    BY <2>1 DEF KillAll
  <2>2. CASE KillNext \/ ProcessEnds
    <3>1. PICK n \in Names : phase' = [phase EXCEPT ![n] = "gone"]
      BY <2>2 DEF KillNext, ProcessEnds, AliveNames
    <3>2. QED
      BY <3>1 DEF Types
  <2>3. QED
    BY <2>1, <2>2
<1>3. Types'
  BY <1>1, <1>2 DEF Types
<1>4. AsLoaded'
  BY <1>1, <1>2 DEF AsLoaded
<1>5. DueInTime'
  BY <1>1, <1>2 DEF DueInTime
<1>6. TimeIsLeft'
  <2>1. SUFFICES ASSUME shuttingDown, AliveNames' # {}
                 PROVE  /\ now + SumOver(load)[Up'] <= shutdownDeadline
                        /\ \A n \in Names : phase'[n] = "stopping" =>
                             stopDeadline[n] + SumOver(load)[Up'] <= shutdownDeadline
    BY <1>1 DEF TimeIsLeft
  <2>2. AliveNames # {}
    BY <1>2, <2>1 DEF AliveNames
  <2> DEFINE up == SumOver(load)[Up]
             rest == SumOver(load)[Up']
  <2>3. Up' \in SUBSET Up /\ Up \in SUBSET load.listed
    BY <1>2, UpIs DEF Up
  <2>4. rest <= up /\ rest \in Nat /\ up \in Nat
    <3>1. load \in Loads /\ Up' \in SUBSET load.listed
      BY <2>3 DEF Types
    <3>2. QED
      BY <2>3, <3>1, SumOfPart, UpIs
  <2>5. /\ now + up <= shutdownDeadline
        /\ \A m \in Names : phase[m] = "stopping" => stopDeadline[m] + up <= shutdownDeadline
    BY <2>1, <2>2 DEF TimeIsLeft
  <2>6. now \in Nat /\ shutdownDeadline \in Nat /\ \A m \in Names : stopDeadline[m] \in Nat
    BY DEF Types
  <2> HIDE DEF up, rest
  <2>7. now + rest <= shutdownDeadline
    BY <2>4, <2>5, <2>6
  <2>8. ASSUME NEW m \in Names, phase'[m] = "stopping"
        PROVE  stopDeadline[m] + rest <= shutdownDeadline
    <3> DEFINE d == stopDeadline[m]
    <3>1. d \in Nat /\ d + up <= shutdownDeadline
      BY <1>2, <2>5, <2>6, <2>8
    <3> HIDE DEF d
    <3>2. d + rest <= shutdownDeadline
      BY <2>4, <2>6, <3>1
    <3>3. QED
      BY <3>2 DEF d
  <2>9. QED
    BY <2>7, <2>8 DEF rest
<1>7. QED
  BY <1>3, <1>4, <1>5, <1>6

\* Time passes only while somebody stops who has time left, and all that are up may begin after it.
LEMMA PassTimeIInv ==
  ASSUME IInv, PassTime
  PROVE  IInv'
<1> USE DEF IInv
<1>1. UNCHANGED <<load, settings, phase, stopDeadline, shuttingDown, shutdownDeadline>> /\ now' = now + 1
  BY DEF PassTime
<1>2. now \in Nat /\ shutdownDeadline \in Nat /\ load \in Loads /\ \A m \in Names : stopDeadline[m] \in Nat
  BY DEF Types
<1>3. Types'
  BY <1>1, <1>2 DEF Types
<1>4. AsLoaded'
  BY <1>1 DEF AsLoaded
<1>5. DueInTime'
  <2>1. SUFFICES ASSUME NEW n \in Names, phase[n] = "stopping"
                 PROVE  stopDeadline[n] <= now + 1 + load.stopTimeout[n]
    BY <1>1 DEF DueInTime
  <2> DEFINE d == stopDeadline[n]  t == load.stopTimeout[n]
  <2>2. n \in load.listed
    BY <2>1 DEF AsLoaded
  <2>3. d <= now + t /\ d \in Nat /\ t \in Nat
    BY <1>2, <2>1, <2>2, TimeoutsAre DEF DueInTime
  <2> HIDE DEF d, t
  <2>4. d <= now + 1 + t
    BY <1>2, <2>3
  <2>5. QED
    BY <2>4 DEF d, t
<1>6. TimeIsLeft'
  <2>1. SUFFICES ASSUME shuttingDown, AliveNames # {}
                 PROVE  now + 1 + SumOver(load)[Up] <= shutdownDeadline
    <3>1. Up' = Up /\ AliveNames' = AliveNames
      BY <1>1 DEF Up, AliveNames
    <3>2. QED
      BY <1>1, <3>1 DEF TimeIsLeft
  <2>2. PICK n \in Names : phase[n] = "stopping" /\ now < stopDeadline[n]
    BY <2>1, SomeoneIsStopping DEF PassTime
  <2> DEFINE d == stopDeadline[n]  up == SumOver(load)[Up]
  <2>3. d + up <= shutdownDeadline /\ d \in Nat /\ now < d
    BY <1>2, <2>1, <2>2 DEF TimeIsLeft
  <2>4. up \in Nat
    BY UpIs
  <2> HIDE DEF d, up
  <2>5. now + 1 + up <= shutdownDeadline
    BY <1>2, <2>3, <2>4
  <2>6. QED
    BY <2>5 DEF up
<1>7. QED
  BY <1>3, <1>4, <1>5, <1>6

----------------------------------------------------------------------------
(* The timeouts *)

\* Each step keeps the invariant, if a reload keeps what runs.
LEMMA NextIInv ==
  ASSUME IInv, BudgetFits, [Next]_vars, [KeepsWhatRuns]_vars
  PROVE  IInv'
<1>1. CASE UNCHANGED vars
  BY <1>1 DEF vars, IInv, Types, AsLoaded, DueInTime, TimeIsLeft, AliveNames, Up
<1>2. CASE KeepsWhatRuns
  BY <1>1, <1>2, BeforeShutdown, BeginShutdownIInv, StopNextIInv, EndsIInv, PassTimeIInv DEF Next
<1>3. QED
  BY <1>1, <1>2

\* With the invariant nobody is left without time when the shutdown's is up.
LEMMA IInvHonoured ==
  ASSUME IInv
  PROVE  TimeoutsHonoured
<1> SUFFICES ASSUME AtDeadline, AliveNames # {}
             PROVE  FALSE
  BY DEF TimeoutsHonoured
<1>1. shuttingDown /\ now >= shutdownDeadline /\ NothingDue
  BY DEF AtDeadline
<1>2. PICK n \in Names : phase[n] = "stopping" /\ now < stopDeadline[n]
  BY <1>1, SomeoneIsStopping DEF IInv
<1> DEFINE d == stopDeadline[n]  up == SumOver(load)[Up]
<1>3. d + up <= shutdownDeadline /\ now < d
  BY <1>1, <1>2 DEF IInv, TimeIsLeft
<1>4. d \in Nat /\ up \in Nat /\ now \in Nat /\ shutdownDeadline \in Nat
  BY UpIs DEF IInv, Types
<1> HIDE DEF d, up
<1>5. QED
  BY <1>1, <1>3, <1>4

\* Every service of a shutdown has its stop_timeout_ms, in whatever order the services need each other
\* and whatever was stopping before or crashes meanwhile: the time that BeginShutdown of Daemon.cpp
\* gives, the sum of the timeouts in the file, is enough for every way they may stop one after the
\* other (StopAll and Tick of ServiceManager.cpp).  Only a reload that drops a service while it runs,
\* or shortens the timeout of one that stops, could make it too short.
THEOREM SumIsTimeEnough == BudgetFits => (Spec /\ [][KeepsWhatRuns]_vars => []TimeoutsHonoured)
<1> SUFFICES ASSUME BudgetFits
             PROVE  Spec /\ [][KeepsWhatRuns]_vars => []TimeoutsHonoured
  OBVIOUS
<1>1. Init => IInv
  BY InitIInv
<1>2. IInv /\ [Next]_vars /\ [KeepsWhatRuns]_vars => IInv'
  BY NextIInv
<1>3. IInv => TimeoutsHonoured
  BY IInvHonoured
<1>4. QED
  BY <1>1, <1>2, <1>3, PTL DEF Spec

\* So it is for files of the same services, however often a reload turns their dependencies round.
THEOREM SameServicesHaveTime == SameTimes /\ BudgetFits => (Spec => []TimeoutsHonoured)
<1> SUFFICES ASSUME SameTimes, BudgetFits
             PROVE  Spec => []TimeoutsHonoured
  OBVIOUS
<1>1. Init => IInv
  BY InitIInv
<1>2. IInv /\ [Next]_vars => IInv'
  <2> SUFFICES ASSUME IInv, [Next]_vars
               PROVE  IInv'
    OBVIOUS
  <2>1. load \in Loads /\ AliveNames \in SUBSET load.listed
    BY UpIs DEF IInv, Types
  <2>2. load' \in Loads
    BY <2>1 DEF Next, Reload, StopCommand, Starts, BeginShutdown, StopNext, KillNext, ProcessEnds,
                KillAll, PassTime, vars
  <2>3. load'.listed = load.listed /\ load'.stopTimeout = load.stopTimeout
    BY <2>1, <2>2 DEF SameTimes
  <2>4. \A n \in load.listed : load.stopTimeout[n] >= load.stopTimeout[n]
    <3>1. \A n \in load.listed : load.stopTimeout[n] \in Nat
      BY <2>1, TimeoutsAre
    <3>2. QED
      BY <3>1
  <2>5. KeepsWhatRuns
    BY <2>1, <2>3, <2>4 DEF KeepsWhatRuns
  <2>6. QED
    BY <2>5, NextIInv
<1>3. IInv => TimeoutsHonoured
  BY IInvHonoured
<1>4. QED
  BY <1>1, <1>2, <1>3, PTL DEF Spec

=============================================================================
