---------------------------- MODULE AiTasksProofs ----------------------------
(***************************************************************************)
(* For any requests, keys, processes, budgets and scenarios: one task at   *)
(* work for a key, and no more of them than a subject may have; and a      *)
(* ledger that shows every call, and every token that is held.             *)
(***************************************************************************)
EXTENDS AiTasksProperties, FiniteSetTheorems, TLAPS

\* What a handler has reserved and left to a task, at each of its points.
Handlers ==
  \A r \in Requests :
    /\ request[r] \in {"idle", "checked"} => bill[r] = "none"
    /\ request[r] \in {"reserved", "refunding", "registered"} => bill[r] = "reserved"
    /\ request[r] \in {"idle", "checked", "reserved", "refunding", "registered"}
         => task[r] = "none"
    /\ task[r] # "none" => Counted(r)
    /\ task[r] \in {"ended", "billed"} => outcome[r] \in Terminal

\* The record is that of the request about to hand over its task, or whose task
\* its process has not seen end; it is unfinished while the task works.
Owned ==
  \A r \in Requests :
    /\ local[r] \in Unfinished \/ request[r] = "registered" => row[IdOf[r]].by = r
    /\ request[r] = "registered" => row[IdOf[r]].status \in Unfinished
    /\ Worker(r) => local[r] \in Unfinished /\ row[IdOf[r]].status \in Unfinished

Bounded == \A s \in Subjects : Cardinality(ActiveOf(s)) <= MaxActive

CallsCounted ==
  \A b \in Buckets, d \in Days :
    calls[b][d] = Cardinality(Holders(b, d)) /\ calls[b][d] <= CallLimit[b]

\* A task that is not billed yet has its reservation whole.
Unbilled == \A r \in Requests : task[r] \in {"spawned", "running", "ended"} => bill[r] = "reserved"

Sound == TypeOK /\ Handlers /\ Owned /\ Bounded /\ CallsCounted /\ Unbilled /\ TokensTrue

-----------------------------------------------------------------------------
\* Sums over finite sets.  SumFunctionOnSet takes the elements one by one, in the
\* order of First; Sums is the function its recursion defines.

First(s) == CHOOSE x \in s : TRUE
Summand(f, g, s) == IF s = {} THEN 0 ELSE f[First(s)] + g[s \ {First(s)}]
Sums(f, S) == CHOOSE g : g = [s \in SUBSET S |-> Summand(f, g, s)]
SumsOf(f, g, s) == \A t \in SUBSET s : g[t] = Summand(f, g, t)

\* What SumFunctionOnSet stands for.
LEMMA SumUnfolded ==
  ASSUME NEW f, NEW S PROVE SumFunctionOnSet(f, S) = Sums(f, S)[S]
  BY DEF SumFunctionOnSet, FoldFunctionOnSet, MapThenFoldSet, Sums, Summand, First

\* Among subsets of a finite set one has none of the others within it.
LEMMA Least ==
  ASSUME NEW S, IsFiniteSet(S), NEW C \in SUBSET SUBSET S, NEW c \in C
  PROVE  \E s \in C : \A t \in C : t \subseteq s => t = s
<1>1. IsWellFoundedOn(StrictSubsetOrdering(S), SUBSET S)
  BY FS_StrictSubsetOrderingWellFounded, FS_FiniteSubsetsOfFinite
<1>2. \E s \in C : \A t \in C : ~(<<t, s>> \in StrictSubsetOrdering(S))
  BY <1>1, WFMin
<1> QED
  BY <1>2 DEF StrictSubsetOrdering

\* The element that is taken is one of the set.
LEMMA FirstIn ==
  ASSUME NEW s, s # {} PROVE First(s) \in s
  BY DEF First

\* Two functions that sum up agree.
LEMMA SumsAgree ==
  ASSUME NEW f, NEW S, IsFiniteSet(S), NEW g, NEW h, SumsOf(f, g, S), SumsOf(f, h, S)
  PROVE  g[S] = h[S]
<1> DEFINE Bad == {t \in SUBSET S : g[t] # h[t]}
<1>1. ASSUME NEW c \in Bad PROVE FALSE
  <2>1. Bad \in SUBSET SUBSET S
    OBVIOUS
  <2>2. PICK s \in Bad : \A t \in Bad : t \subseteq s => t = s
    <3> HIDE DEF Bad
    <3> QED
      BY <1>1, <2>1, Least
  <2>3. s # {} => First(s) \in s
    BY FirstIn
  <2>4. s # {} => s \ {First(s)} \notin Bad
    BY <2>2, <2>3
  <2>5. g[s] = Summand(f, g, s) /\ h[s] = Summand(f, h, s)
    BY <2>2 DEF SumsOf
  <2> QED
    BY <2>2, <2>4, <2>5 DEF Summand
<1> QED
  BY <1>1

\* There is a function that sums up.
LEMMA SumsExist ==
  ASSUME NEW f, NEW S, IsFiniteSet(S)
  PROVE  \E g : SumsOf(f, g, S)
<1> DEFINE Bad == {s \in SUBSET S : ~\E g : SumsOf(f, g, s)}
<1>1. ASSUME NEW c \in Bad PROVE FALSE
  <2>1. Bad \in SUBSET SUBSET S
    OBVIOUS
  <2>2. PICK s \in Bad : \A t \in Bad : t \subseteq s => t = s
    <3> HIDE DEF Bad
    <3> QED
      BY <1>1, <2>1, Least
  <2> DEFINE G(t) == CHOOSE g : SumsOf(f, g, t)
             rest == s \ {First(s)}
             h == [t \in SUBSET s |-> IF t # s THEN G(t)[t]
                                      ELSE IF s = {} THEN 0 ELSE f[First(s)] + G(rest)[rest]]
  <2>3. \A t \in SUBSET s : t # s => SumsOf(f, G(t), t)
    BY <2>2
  <2> HIDE DEF G, Bad
  <2>4. ASSUME NEW t \in SUBSET s PROVE h[t] = Summand(f, h, t)
    <3>1. CASE t = {} /\ t # s
      BY <2>3, <3>1 DEF SumsOf, Summand
    <3>2. CASE t # {} /\ t # s
      <4> DEFINE u == t \ {First(t)}
      <4>1. u \in SUBSET t /\ u # t /\ u \in SUBSET s /\ u # s /\ IsFiniteSet(u)
        BY <3>2, FirstIn, <2>2, FS_Subset DEF Bad
      <4>2. SumsOf(f, G(t), t) /\ SumsOf(f, G(u), u)
        BY <2>3, <3>2, <4>1
      <4>3. SumsOf(f, G(t), u)
        BY <4>1, <4>2 DEF SumsOf
      <4>4. G(t)[u] = G(u)[u]
        BY <4>1, <4>2, <4>3, SumsAgree
      <4>5. G(t)[t] = f[First(t)] + G(t)[u]
        BY <3>2, <4>2 DEF SumsOf, Summand
      <4> QED
        BY <3>2, <4>1, <4>4, <4>5 DEF Summand
    <3>3. CASE t = s /\ s # {}
      BY <3>3, FirstIn DEF Summand
    <3>4. CASE t = s /\ s = {}
      BY <3>4 DEF Summand
    <3> QED
      BY <3>1, <3>2, <3>3, <3>4
  <2>5. SumsOf(f, h, s)
    BY <2>4 DEF SumsOf
  <2> QED
    BY <2>2, <2>5 DEF Bad
<1> QED
  BY <1>1, FS_Subset

\* The recursion defines a function.
LEMMA SumsDefined ==
  ASSUME NEW f, NEW S, IsFiniteSet(S)
  PROVE  SumsOf(f, Sums(f, S), S)
<1>1. PICK g : SumsOf(f, g, S)
  BY SumsExist
<1> DEFINE h == [s \in SUBSET S |-> g[s]]
<1>2. \A s \in SUBSET S : Summand(f, g, s) = Summand(f, h, s)
  BY FirstIn DEF Summand
<1>3. h = [s \in SUBSET S |-> Summand(f, h, s)]
  BY <1>1, <1>2 DEF SumsOf
<1>4. Sums(f, S) = [s \in SUBSET S |-> Summand(f, Sums(f, S), s)]
  <2> HIDE DEF h
  <2> QED
    BY <1>3 DEF Sums
<1> QED
  BY <1>4 DEF SumsOf

\* The sum over nothing.
LEMMA SumEmpty ==
  ASSUME NEW f PROVE SumFunctionOnSet(f, {}) = 0
  BY SumUnfolded, SumsDefined, FS_EmptySet DEF SumsOf, Summand

\* The sum over a set, by the element that is taken first.
LEMMA SumFirst ==
  ASSUME NEW f, NEW S, IsFiniteSet(S), S # {}
  PROVE  SumFunctionOnSet(f, S) = f[First(S)] + SumFunctionOnSet(f, S \ {First(S)})
<1> DEFINE T == S \ {First(S)}
<1>1. IsFiniteSet(T) /\ T \subseteq S
  BY FS_Subset
<1>2. SumsOf(f, Sums(f, S), S) /\ SumsOf(f, Sums(f, T), T)
  BY <1>1, SumsDefined
<1>3. SumsOf(f, Sums(f, S), T)
  BY <1>1, <1>2 DEF SumsOf
<1>4. Sums(f, S)[T] = Sums(f, T)[T]
  BY <1>1, <1>2, <1>3, SumsAgree
<1>5. Sums(f, S)[S] = f[First(S)] + Sums(f, S)[T]
  BY <1>2 DEF SumsOf, Summand
<1> QED
  BY <1>4, <1>5, SumUnfolded

\* Sums of integers are integers.
LEMMA SumTyped ==
  ASSUME NEW f, NEW S, IsFiniteSet(S), \A x \in S : f[x] \in Int
  PROVE  SumFunctionOnSet(f, S) \in Int
<1> DEFINE Bad == {s \in SUBSET S : SumFunctionOnSet(f, s) \notin Int}
<1>1. ASSUME NEW c \in Bad PROVE FALSE
  <2>1. Bad \in SUBSET SUBSET S
    OBVIOUS
  <2>2. PICK s \in Bad : \A t \in Bad : t \subseteq s => t = s
    <3> HIDE DEF Bad
    <3> QED
      BY <1>1, <2>1, Least
  <2>3. IsFiniteSet(s)
    BY <2>2, FS_Subset
  <2>4. s # {} /\ First(s) \in s
    <3>1. SumFunctionOnSet(f, {}) \in Int
      BY SumEmpty
    <3> QED
      BY <2>2, <3>1, FirstIn
  <2>5. s \ {First(s)} \notin Bad
    BY <2>2, <2>4
  <2> QED
    BY <2>2, <2>3, <2>4, <2>5, SumFirst
<1> QED
  BY <1>1

\* Any element may be taken first.
LEMMA SumTaken ==
  ASSUME NEW f, NEW S, IsFiniteSet(S), \A x \in S : f[x] \in Int, NEW y \in S
  PROVE  SumFunctionOnSet(f, S) = f[y] + SumFunctionOnSet(f, S \ {y})
<1> DEFINE Sum(s) == SumFunctionOnSet(f, s)
           Bad == {s \in SUBSET S : \E x \in s : Sum(s) # f[x] + Sum(s \ {x})}
<1>1. ASSUME NEW c \in Bad PROVE FALSE
  <2>1. Bad \in SUBSET SUBSET S
    OBVIOUS
  <2>2. PICK s \in Bad : \A t \in Bad : t \subseteq s => t = s
    <3> HIDE DEF Bad
    <3> QED
      BY <1>1, <2>1, Least
  <2>3. PICK x \in s : Sum(s) # f[x] + Sum(s \ {x})
    BY <2>2
  <2>4. IsFiniteSet(s) /\ s # {} /\ First(s) \in s
    BY <2>3, FS_Subset, FirstIn
  <2> DEFINE c1 == First(s)
  <2>5. Sum(s) = f[c1] + Sum(s \ {c1})
    BY <2>4, SumFirst
  <2>6. c1 # x
    BY <2>3, <2>5
  <2>7. s \ {c1} \notin Bad /\ s \ {x} \notin Bad
    BY <2>2, <2>3, <2>4
  <2>8. Sum(s \ {c1}) = f[x] + Sum((s \ {c1}) \ {x})
    BY <2>3, <2>6, <2>7
  <2>9. Sum(s \ {x}) = f[c1] + Sum((s \ {x}) \ {c1})
    BY <2>4, <2>6, <2>7
  <2>10. (s \ {c1}) \ {x} = (s \ {x}) \ {c1}
    OBVIOUS
  <2>11. f[c1] \in Int /\ f[x] \in Int /\ Sum((s \ {x}) \ {c1}) \in Int
    BY <2>3, <2>4, FS_Subset, SumTyped
  <2>12. Sum(s) = f[c1] + (f[x] + Sum((s \ {x}) \ {c1}))
    BY <2>5, <2>8, <2>10
  <2>13. f[x] + Sum(s \ {x}) = f[x] + (f[c1] + Sum((s \ {x}) \ {c1}))
    BY <2>9
  <2> HIDE DEF Sum, c1, Bad
  <2>14. f[c1] + (f[x] + Sum((s \ {x}) \ {c1})) = f[x] + (f[c1] + Sum((s \ {x}) \ {c1}))
    BY <2>11
  <2> QED
    BY <2>3, <2>12, <2>13, <2>14
<1> QED
  BY <1>1

\* A sum depends on the values that are summed up.
LEMMA SumSame ==
  ASSUME NEW f, NEW g, NEW S, IsFiniteSet(S), \A x \in S : f[x] = g[x]
  PROVE  SumFunctionOnSet(f, S) = SumFunctionOnSet(g, S)
<1> DEFINE Bad == {s \in SUBSET S : SumFunctionOnSet(f, s) # SumFunctionOnSet(g, s)}
<1>1. ASSUME NEW c \in Bad PROVE FALSE
  <2>1. Bad \in SUBSET SUBSET S
    OBVIOUS
  <2>2. PICK s \in Bad : \A t \in Bad : t \subseteq s => t = s
    <3> HIDE DEF Bad
    <3> QED
      BY <1>1, <2>1, Least
  <2>3. s # {} /\ IsFiniteSet(s)
    BY <2>2, SumEmpty, FS_Subset
  <2>4. First(s) \in s
    BY <2>3, FirstIn
  <2>5. s \ {First(s)} \notin Bad
    BY <2>2, <2>4
  <2> QED
    BY <2>2, <2>3, <2>4, <2>5, SumFirst
<1> QED
  BY <1>1

\* What one element has in a sum.
Share(f, S, y) == IF y \in S THEN f[y] ELSE 0

\* A sum is the share of one element and the sum over the others.
LEMMA SumShared ==
  ASSUME NEW f, NEW S, IsFiniteSet(S), \A x \in S : f[x] \in Int, NEW y
  PROVE  /\ SumFunctionOnSet(f, S) = Share(f, S, y) + SumFunctionOnSet(f, S \ {y})
         /\ SumFunctionOnSet(f, S \ {y}) \in Int /\ Share(f, S, y) \in Int
<1>1. SumFunctionOnSet(f, S \ {y}) \in Int
  BY SumTyped, FS_Subset
<1>2. CASE y \in S
  BY <1>1, <1>2, SumTaken DEF Share
<1>3. CASE y \notin S
  <2>1. S \ {y} = S
    BY <1>3
  <2>2. SumFunctionOnSet(f, S) = SumFunctionOnSet(f, S \ {y}) /\ Share(f, S, y) = 0
    BY <1>3, <2>1 DEF Share
  <2> QED
    BY <1>1, <2>2
<1> QED
  BY <1>2, <1>3

\* When one element changes, the sum changes by its share.
LEMMA SumChanged ==
  ASSUME NEW f, NEW g, NEW S, NEW T, IsFiniteSet(S), IsFiniteSet(T), NEW y, S \ {y} = T \ {y},
         \A x \in S : f[x] \in Int, \A x \in T : g[x] \in Int, \A x \in S \ {y} : f[x] = g[x]
  PROVE  SumFunctionOnSet(g, T) = SumFunctionOnSet(f, S) + (Share(g, T, y) - Share(f, S, y))
<1>1. SumFunctionOnSet(f, S \ {y}) = SumFunctionOnSet(g, T \ {y})
  <2>1. IsFiniteSet(S \ {y})
    BY FS_Subset
  <2>2. SumFunctionOnSet(f, S \ {y}) = SumFunctionOnSet(g, S \ {y})
    BY <2>1, SumSame
  <2> QED
    BY <2>2
<1>2. /\ SumFunctionOnSet(f, S) = Share(f, S, y) + SumFunctionOnSet(f, S \ {y})
      /\ SumFunctionOnSet(f, S \ {y}) \in Int /\ Share(f, S, y) \in Int
  BY SumShared
<1>3. /\ SumFunctionOnSet(g, T) = Share(g, T, y) + SumFunctionOnSet(g, T \ {y})
      /\ Share(g, T, y) \in Int
  BY SumShared
<1> QED
  BY <1>1, <1>2, <1>3

-----------------------------------------------------------------------------
\* The types.

LEMMA InitTyped ==
  ASSUME Init
  PROVE  TypeOK
<1>1. /\ scenario.faults \in Nat /\ scenario.drops \in Nat /\ scenario.crashes \in Nat
  BY ScenarioAssumption DEF Init
<1>2. NoRow \in [by : Requests \cup {None},
                status : {"none"} \cup Unfinished \cup Terminal]
  BY DEF NoRow
<1>3. QED
  BY <1>1, <1>2, DayAssumption DEF Init, TypeOK

\* What is added to the ledger leaves integers.
LEMMA AddedTyped ==
  ASSUME NEW r \in Requests, NEW period \in Days, NEW amount \in Int,
         NEW ledger \in [Buckets -> [Days -> Int]]
  PROVE  Added(ledger, r, period, amount) \in [Buckets -> [Days -> Int]]
BY DEF Added

LEMMA AppliedTyped ==
  ASSUME TypeOK, NEW r \in Requests, NEW callAmount \in Int, NEW tokenAmount \in Int,
         NEW what \in {"settled", "released", "refunded"},
         Applied(r, callAmount, tokenAmount, what)
  PROVE  /\ calls' \in [Buckets -> [Days -> Int]]
         /\ tokens' \in [Buckets -> [Days -> Int]]
         /\ bill' \in [Requests -> {"none", "reserved", "settled", "released", "refunded"}]
         /\ pinned' = pinned
         /\ scenario' = scenario /\ drops' = drops /\ crashes' = crashes
         /\ faults' \in 0 .. scenario.faults
<1>1. Period(r) \in Days
  BY DEF TypeOK, Period
<1>2. CASE NoFault
  <2>1. calls' \in [Buckets -> [Days -> Int]] /\ tokens' \in [Buckets -> [Days -> Int]]
    BY <1>1, <1>2, AddedTyped DEF TypeOK, Applied, NoFault, Fault, boundVars, ledgerVars
  <2>2. QED
    BY <2>1, <1>2 DEF TypeOK, Applied, NoFault, Fault, boundVars, ledgerVars
<1>3. CASE Fault
  <2>1. calls' \in [Buckets -> [Days -> Int]] /\ tokens' \in [Buckets -> [Days -> Int]]
    BY <1>1, <1>3, AddedTyped DEF TypeOK, Applied, NoFault, Fault, boundVars, ledgerVars
  <2>2. scenario.faults \in Nat
    BY ScenarioAssumption DEF TypeOK
  <2>3. faults' \in 0 .. scenario.faults
    BY <1>3, <2>2 DEF Fault, TypeOK
  <2>4. QED
    BY <1>3, <2>1, <2>3 DEF TypeOK, Applied, NoFault, Fault, boundVars, ledgerVars
<1>4. QED
  BY <1>2, <1>3 DEF Applied

\* A failing operation is counted within the bound of the scenario.
LEMMA FaultTyped ==
  ASSUME TypeOK, Fault
  PROVE  faults' \in 0 .. scenario.faults /\ UNCHANGED <<scenario, drops, crashes>>
<1>1. scenario.faults \in Nat
  BY ScenarioAssumption DEF TypeOK
<1>2. QED
  BY <1>1 DEF Fault, TypeOK

LEMMA RequestTyped ==
  ASSUME TypeOK, NEW r \in Requests, RequestStep(r)
  PROVE  TypeOK'
<1> USE DEF Moves, NoFault, boundVars, taskVars, ledgerVars, registryVars
<1>1. CASE Preflight(r) \/ Refuse(r) \/ Collect(r)
  BY <1>1 DEF TypeOK, Preflight, Refuse, Collect
<1>2. CASE Reserve(r)
  <2>1. day \in Days /\ Estimate[r] \in Int
    BY BudgetAssumption DEF TypeOK
  <2>2. calls' \in [Buckets -> [Days -> Int]] /\ tokens' \in [Buckets -> [Days -> Int]]
    BY <1>2, <2>1, AddedTyped DEF Reserve, Reserved, TypeOK
  <2>3. CASE NoFault
    BY <1>2, <2>1, <2>2, <2>3 DEF TypeOK, Reserve, Reserved
  <2>4. CASE Fault
    BY <1>2, <2>1, <2>2, <2>4, FaultTyped DEF TypeOK, Reserve, Reserved
  <2>5. QED
    BY <1>2, <2>3, <2>4 DEF Reserve
<1>3. CASE UsageUnread(r)
  BY <1>3, FaultTyped DEF TypeOK, UsageUnread
<1>4. CASE Register(r)
  <2>1. row' \in [Ids -> [by : Requests \cup {None},
                          status : {"none"} \cup Unfinished \cup Terminal]]
    BY <1>4, RequestAssumption DEF TypeOK, Register, Queue, Record, Unfinished
  <2>2. CASE NoFault
    BY <1>4, <2>1, <2>2 DEF TypeOK, Register
  <2>3. CASE Fault
    BY <1>4, <2>1, <2>3, FaultTyped DEF TypeOK, Register
  <2>4. QED
    BY <1>4, <2>2, <2>3 DEF Register
<1>5. CASE Refund(r)
  <2>1. -1 \in Int /\ -Estimate[r] \in Int
    BY BudgetAssumption
  <2>2. Applied(r, -1, -Estimate[r], "refunded")
    BY <1>5 DEF Refund
  <2>3. QED
    BY <1>5, <2>1, <2>2, AppliedTyped DEF TypeOK, Refund
<1>6. CASE Spawn(r)
  BY <1>6 DEF TypeOK, Spawn, Steps, Unfinished
<1>7. CASE Drop(r)
  <2>1. scenario.drops \in Nat
    BY ScenarioAssumption DEF TypeOK
  <2>2. drops' \in 0 .. scenario.drops
    BY <1>7, <2>1 DEF Drop, TypeOK
  <2>3. QED
    BY <1>7, <2>2 DEF TypeOK, Drop
<1>8. QED
  BY <1>1, <1>2, <1>3, <1>4, <1>5, <1>6, <1>7 DEF RequestStep

\* What is written about the end of a task.
LEMMA WrittenTyped ==
  ASSUME TypeOK, NEW r \in Requests, NEW status \in Terminal, Written(r, status)
  PROVE  /\ row' \in [Ids -> [by : Requests \cup {None},
                              status : {"none"} \cup Unfinished \cup Terminal]]
         /\ local' \in [Requests -> {"none"} \cup Unfinished \cup Terminal]
         /\ scenario' = scenario /\ drops' = drops /\ crashes' = crashes
         /\ faults' \in 0 .. scenario.faults
<1>1. row' \in [Ids -> [by : Requests \cup {None},
                        status : {"none"} \cup Unfinished \cup Terminal]]
  <2> DEFINE R == [by : Requests \cup {None},
                   status : {"none"} \cup Unfinished \cup Terminal]
  <2>1. Record(r, status) \in R /\ Record(r, "Failed") \in R
    BY DEF Record, Terminal
  <2>2. row \in [Ids -> R]
    BY DEF TypeOK
  <2>3. \/ row' = row
        \/ row' = [row EXCEPT ![IdOf[r]] = Record(r, status)]
        \/ row' = [row EXCEPT ![IdOf[r]] = Record(r, "Failed")]
    BY DEF Written
  <2> HIDE DEF R
  <2>4. row' \in [Ids -> R]
    BY <2>1, <2>2, <2>3
  <2>5. QED
    BY <2>4 DEF R
<1>2. local' \in [Requests -> {"none"} \cup Unfinished \cup Terminal]
  BY DEF TypeOK, Written, Terminal
<1>3. CASE NoFault
  BY <1>1, <1>2, <1>3 DEF NoFault, boundVars, TypeOK
<1>4. CASE Fault
  BY <1>1, <1>2, <1>4, FaultTyped
<1>5. QED
  BY <1>3, <1>4 DEF Written

LEMMA TaskTyped ==
  ASSUME TypeOK, Handlers, NEW r \in Requests, TaskStep(r)
  PROVE  TypeOK'
<1> USE DEF Steps, boundVars, taskVars, ledgerVars, registryVars
<1>1. CASE Start(r)
  <2>1. row' \in [Ids -> [by : Requests \cup {None},
                          status : {"none"} \cup Unfinished \cup Terminal]]
    BY <1>1, RequestAssumption DEF TypeOK, Start, Record, Unfinished
  <2>2. CASE NoFault
    BY <1>1, <2>1, <2>2 DEF TypeOK, Start, NoFault, Unfinished
  <2>3. CASE Fault
    BY <1>1, <2>1, <2>3, FaultTyped DEF TypeOK, Start, Unfinished
  <2>4. QED
    BY <1>1, <2>2, <2>3 DEF Start
<1>2. CASE Answered(r) \/ ProviderFails(r) \/ HearCancel(r)
  <2>1. PICK what \in Terminal, spent \in Nat : Ends(r, what, spent)
    BY <1>2, BudgetAssumption DEF Answered, ProviderFails, HearCancel, Terminal
  <2>2. QED
    BY <2>1 DEF TypeOK, Ends, Terminal
<1>3. CASE Bill(r)
  <2>1. 0 \in Int /\ -Estimate[r] \in Int /\ used[r] - Estimate[r] \in Int
    BY BudgetAssumption DEF TypeOK
  <2>2. CASE Applied(r, 0, used[r] - Estimate[r], "settled")
    BY <1>3, <2>1, <2>2, AppliedTyped DEF TypeOK, Bill
  <2>3. CASE Applied(r, 0, -Estimate[r], "released")
    BY <1>3, <2>1, <2>3, AppliedTyped DEF TypeOK, Bill
  <2>4. QED
    BY <1>3, <2>2, <2>3 DEF Bill
<1>4. CASE Finish(r)
  <2>1. outcome[r] \in Terminal /\ Written(r, outcome[r])
    BY <1>4 DEF Finish, Handlers
  <2>2. QED
    BY <1>4, <2>1, WrittenTyped DEF TypeOK, Finish
<1>5. CASE Panic(r)
  BY <1>5, FaultTyped DEF TypeOK, Panic
<1>6. CASE Reap(r)
  <2>1. "Cancelled" \in Terminal /\ Written(r, "Cancelled")
    BY <1>6 DEF Reap, Terminal
  <2>2. QED
    BY <1>6, <2>1, WrittenTyped DEF TypeOK, Reap
<1>7. QED
  BY <1>1, <1>2, <1>3, <1>4, <1>5, <1>6 DEF TaskStep

LEMMA OtherTyped ==
  ASSUME TypeOK,
         \/ \E i \in Ids : RegistryStep(i)
         \/ NextDay
         \/ \E p \in Replicas : Crash(p)
  PROVE  TypeOK'
<1> USE DEF boundVars, taskVars, ledgerVars, registryVars
<1>1. ASSUME NEW i \in Ids, NEW p \in Replicas, Cancel(i, p)
      PROVE  TypeOK'
  BY <1>1 DEF TypeOK, Cancel
<1>2. ASSUME NEW i \in Ids, Expire(i)
      PROVE  TypeOK'
  BY <1>2 DEF TypeOK, Expire, NoRow
<1>3. CASE NextDay
  <2>1. scenario.days \in Days
    BY ScenarioAssumption DEF TypeOK
  <2>2. PICK n \in Int : Days = 1 .. n
    BY DayAssumption, FS_CardinalityType
  <2>3. day' \in Days
    BY <1>3, <2>1, <2>2 DEF NextDay, TypeOK
  <2>4. QED
    BY <1>3, <2>3 DEF TypeOK, NextDay
<1>4. ASSUME NEW p \in Replicas, Crash(p)
      PROVE  TypeOK'
  <2>1. scenario.crashes \in Nat
    BY ScenarioAssumption DEF TypeOK
  <2>2. crashes' \in 0 .. scenario.crashes
    BY <1>4, <2>1 DEF Crash, TypeOK
  <2>3. QED
    BY <1>4, <2>2 DEF TypeOK, Crash
<1>5. QED
  BY <1>1, <1>2, <1>3, <1>4 DEF RegistryStep

LEMMA StaysTyped ==
  ASSUME TypeOK, Handlers, [Next]_vars
  PROVE  TypeOK'
<1>1. CASE UNCHANGED vars
  BY <1>1 DEF TypeOK, vars, boundVars, taskVars, ledgerVars, registryVars
<1>2. CASE Next
  BY <1>2, RequestTyped, TaskTyped, OtherTyped DEF Next
<1>3. QED
  BY <1>1, <1>2

-----------------------------------------------------------------------------
\* What handlers reserved.

LEMMA AppliedBills ==
  ASSUME TypeOK, NEW r \in Requests, NEW callAmount, NEW tokenAmount, NEW what,
         Applied(r, callAmount, tokenAmount, what)
  PROVE  bill' = bill \/ bill' = [bill EXCEPT ![r] = what]
BY DEF Applied, ledgerVars

LEMMA StaysHandled ==
  ASSUME TypeOK, Handlers, [Next]_vars
  PROVE  Handlers'
<1> USE DEF Moves, Steps, boundVars, taskVars, ledgerVars, registryVars
<1>1. ASSUME NEW r \in Requests, Preflight(r) \/ Refuse(r) \/ UsageUnread(r)
                                   \/ Register(r) \/ Collect(r) \/ Drop(r)
      PROVE  Handlers'
  BY <1>1 DEF TypeOK, Handlers, Counted, Preflight, Refuse, UsageUnread, Register,
              Collect, Drop
<1>2. ASSUME NEW r \in Requests, Reserve(r)
      PROVE  Handlers'
  BY <1>2 DEF TypeOK, Handlers, Counted, Reserve, Reserved
<1>3. ASSUME NEW r \in Requests, Refund(r)
      PROVE  Handlers'
  <2>1. bill' = bill \/ bill' = [bill EXCEPT ![r] = "refunded"]
    BY <1>3, AppliedBills DEF Refund
  <2>2. QED
    BY <1>3, <2>1 DEF TypeOK, Handlers, Counted, Refund
<1>4. ASSUME NEW r \in Requests, Spawn(r)
      PROVE  Handlers'
  BY <1>4 DEF TypeOK, Handlers, Counted, Spawn
<1>5. ASSUME NEW r \in Requests, Start(r) \/ Finish(r) \/ Panic(r) \/ Reap(r)
      PROVE  Handlers'
  BY <1>5 DEF TypeOK, Handlers, Counted, Start, Finish, Panic, Reap
<1>6. ASSUME NEW r \in Requests, Answered(r) \/ ProviderFails(r) \/ HearCancel(r)
      PROVE  Handlers'
  <2>1. PICK what \in Terminal, spent \in Nat : Ends(r, what, spent)
    BY <1>6, BudgetAssumption DEF Answered, ProviderFails, HearCancel, Terminal
  <2>2. QED
    BY <2>1 DEF TypeOK, Handlers, Counted, Ends
<1>7. ASSUME NEW r \in Requests, Bill(r)
      PROVE  Handlers'
  <2>1. \/ bill' = bill
        \/ bill' = [bill EXCEPT ![r] = "settled"]
        \/ bill' = [bill EXCEPT ![r] = "released"]
    BY <1>7, AppliedBills DEF Bill
  <2>2. QED
    BY <1>7, <2>1 DEF TypeOK, Handlers, Counted, Bill
<1>8. ASSUME NEW i \in Ids, RegistryStep(i)
      PROVE  Handlers'
  BY <1>8 DEF Handlers, Counted, RegistryStep, Expire, Cancel
<1>9. ASSUME NEW p \in Replicas, Crash(p)
      PROVE  Handlers'
  BY <1>9 DEF TypeOK, Handlers, Counted, Crash
<1>10. CASE NextDay \/ UNCHANGED vars
  BY <1>10 DEF Handlers, Counted, NextDay, vars
<1>11. QED
  BY <1>1, <1>2, <1>3, <1>4, <1>5, <1>6, <1>7, <1>8, <1>9, <1>10
     DEF Next, RequestStep, TaskStep

-----------------------------------------------------------------------------
\* Whose record it is.

\* A record nobody has is not owned: by no handler and by no task.
LEMMA FreeOrOwned ==
  ASSUME Owned, NEW q \in Requests, row[IdOf[q]] = NoRow
  PROVE  local[q] \notin Unfinished /\ request[q] # "registered" /\ ~Worker(q)
BY RequestAssumption DEF Owned, NoRow

\* What the end of a task writes is about that task.
LEMMA WrittenBy ==
  ASSUME TypeOK, NEW r \in Requests, NEW status \in Terminal, Written(r, status),
         row[IdOf[r]].by = r
  PROVE  /\ \A i \in Ids \ {IdOf[r]} : row'[i] = row[i]
         /\ row'[IdOf[r]].by = r
         /\ row'[IdOf[r]] = row[IdOf[r]] \/ row'[IdOf[r]].status \in Terminal
         /\ \A q \in Requests \ {r} : local'[q] = local[q]
         /\ local'[r] = local[r] \/ local'[r] \in Terminal
<1>1. IdOf[r] \in Ids
  BY RequestAssumption
<1>2. \/ row' = row
      \/ row' = [row EXCEPT ![IdOf[r]] = Record(r, status)]
      \/ row' = [row EXCEPT ![IdOf[r]] = Record(r, "Failed")]
  BY DEF Written
<1>3. row \in [Ids -> [by : Requests \cup {None},
                       status : {"none"} \cup Unfinished \cup Terminal]]
  BY DEF TypeOK
<1>4. "Failed" \in Terminal
  BY DEF Terminal
<1>5. /\ \A i \in Ids \ {IdOf[r]} : row'[i] = row[i]
      /\ row'[IdOf[r]].by = r
      /\ row'[IdOf[r]] = row[IdOf[r]] \/ row'[IdOf[r]].status \in Terminal
  BY <1>1, <1>2, <1>3, <1>4 DEF Record
<1>6. \/ local' = local
      \/ local' = [local EXCEPT ![r] = status]
      \/ local' = [local EXCEPT ![r] = "Failed"]
  BY DEF Written
<1>7. QED
  BY <1>4, <1>5, <1>6 DEF TypeOK

LEMMA StaysOwned ==
  ASSUME TypeOK, Handlers, Owned, [Next]_vars
  PROVE  Owned'
<1> USE DEF Moves, Steps, boundVars, taskVars, ledgerVars, registryVars
<1>1. ASSUME NEW r \in Requests, Preflight(r) \/ Refuse(r) \/ Reserve(r) \/ UsageUnread(r)
                                   \/ Refund(r) \/ Collect(r) \/ Drop(r)
      PROVE  Owned'
  BY <1>1 DEF TypeOK, Owned, Worker, Preflight, Refuse, Reserve, UsageUnread, Refund,
              Collect, Drop
<1>2. ASSUME NEW r \in Requests, Register(r)
      PROVE  Owned'
  <2>1. IdOf[r] \in Ids /\ local' = local /\ task' = task /\ task[r] = "none"
    BY <1>2, RequestAssumption DEF Register, Handlers
  <2>2. CASE row' = row /\ request' = [request EXCEPT ![r] = "refunding"]
    BY <2>1, <2>2 DEF TypeOK, Owned, Worker
  <2>3. CASE ~Taken(r) /\ Queue(r)
    <3>1. row'[IdOf[r]] = Record(r, "Queued")
          /\ \A i \in Ids \ {IdOf[r]} : row'[i] = row[i]
      BY <2>1, <2>3 DEF Queue, TypeOK
    <3>2. row'[IdOf[r]].by = r /\ row'[IdOf[r]].status \in Unfinished
      BY <3>1 DEF Record, Unfinished
    <3>3. ASSUME NEW q \in Requests \ {r}, IdOf[q] = IdOf[r]
          PROVE  local[q] \notin Unfinished /\ request[q] # "registered" /\ ~Worker(q)
      BY <2>3, <3>3, FreeOrOwned DEF Taken
    <3>4. \A q \in Requests \ {r} : request'[q] = request[q]
      BY <1>2 DEF Register, TypeOK
    <3>5. ASSUME NEW q \in Requests
          PROVE  /\ local'[q] \in Unfinished \/ request'[q] = "registered"
                      => row'[IdOf[q]].by = q
                 /\ request'[q] = "registered" => row'[IdOf[q]].status \in Unfinished
                 /\ Worker(q)' => local'[q] \in Unfinished
                                  /\ row'[IdOf[q]].status \in Unfinished
      <4>1. IdOf[q] \in Ids
        BY RequestAssumption
      <4>2. CASE q = r
        BY <2>1, <3>2, <4>2 DEF Worker
      <4>3. CASE q # r /\ IdOf[q] = IdOf[r]
        BY <2>1, <3>3, <3>4, <4>3 DEF Worker
      <4>4. CASE q # r /\ IdOf[q] # IdOf[r]
        BY <2>1, <3>1, <3>4, <4>1, <4>4 DEF Worker, Owned
      <4>5. QED
        BY <4>2, <4>3, <4>4
    <3>6. QED
      BY <3>5 DEF Owned
  <2>4. QED
    BY <1>2, <2>2, <2>3 DEF Register
<1>3. ASSUME NEW r \in Requests, Spawn(r)
      PROVE  Owned'
  BY <1>3 DEF TypeOK, Owned, Worker, Spawn, Unfinished
<1>4. ASSUME NEW r \in Requests, Start(r)
      PROVE  Owned'
  <2>1. IdOf[r] \in Ids /\ request' = request /\ task[r] = "spawned"
    BY <1>4, RequestAssumption DEF Start
  <2>2. local[r] \in Unfinished /\ row[IdOf[r]].by = r
        /\ row[IdOf[r]].status \in Unfinished
    BY <2>1 DEF Owned, Worker
  <2>3. /\ \A i \in Ids \ {IdOf[r]} : row'[i] = row[i]
        /\ row'[IdOf[r]].by = r /\ row'[IdOf[r]].status \in Unfinished
    BY <1>4, <2>1, <2>2 DEF Start, TypeOK, Record, Unfinished
  <2>4. /\ local'[r] \in Unfinished
        /\ \A q \in Requests \ {r} : local'[q] = local[q] /\ task'[q] = task[q]
    BY <1>4 DEF Start, TypeOK, Unfinished
  <2>5. ASSUME NEW q \in Requests
        PROVE  /\ local'[q] \in Unfinished \/ request'[q] = "registered"
                    => row'[IdOf[q]].by = q
               /\ request'[q] = "registered" => row'[IdOf[q]].status \in Unfinished
               /\ Worker(q)' => local'[q] \in Unfinished
                                /\ row'[IdOf[q]].status \in Unfinished
    <3>1. IdOf[q] \in Ids
      BY RequestAssumption
    <3>2. CASE q = r
      BY <2>3, <2>4, <3>2
    <3>3. CASE q # r /\ IdOf[q] = IdOf[r]
      BY <2>1, <2>2, <2>4, <3>3 DEF Owned, Worker
    <3>4. CASE q # r /\ IdOf[q] # IdOf[r]
      BY <2>1, <2>3, <2>4, <3>1, <3>4 DEF Owned, Worker
    <3>5. QED
      BY <3>2, <3>3, <3>4
  <2>6. QED
    BY <2>5 DEF Owned
<1>5. ASSUME NEW r \in Requests, Answered(r) \/ ProviderFails(r) \/ HearCancel(r)
                                   \/ Bill(r) \/ Panic(r)
      PROVE  Owned'
  BY <1>5 DEF TypeOK, Owned, Worker, Answered, ProviderFails, HearCancel, Ends, Bill, Panic
<1>6. ASSUME NEW r \in Requests, Finish(r) \/ Reap(r)
      PROVE  Owned'
  <2>1. IdOf[r] \in Ids /\ request' = request
    BY <1>6, RequestAssumption DEF Finish, Reap
  <2>2. local[r] \in Unfinished /\ row[IdOf[r]].by = r
        /\ task[r] # "none" /\ request[r] # "registered"
    BY <1>6 DEF Finish, Reap, Abandoned, Owned, Worker, Handlers
  <2>3. PICK status \in Terminal : Written(r, status)
    BY <1>6 DEF Finish, Reap, Handlers, Terminal
  <2>4. task'[r] = "over" /\ \A q \in Requests \ {r} : task'[q] = task[q]
    BY <1>6 DEF Finish, Reap, Abandoned, TypeOK
  <2>5. /\ \A i \in Ids \ {IdOf[r]} : row'[i] = row[i]
        /\ row'[IdOf[r]].by = r
        /\ \A q \in Requests \ {r} : local'[q] = local[q]
    BY <2>2, <2>3, WrittenBy
  <2>6. ASSUME NEW q \in Requests
        PROVE  /\ local'[q] \in Unfinished \/ request'[q] = "registered"
                    => row'[IdOf[q]].by = q
               /\ request'[q] = "registered" => row'[IdOf[q]].status \in Unfinished
               /\ Worker(q)' => local'[q] \in Unfinished
                                /\ row'[IdOf[q]].status \in Unfinished
    <3>1. IdOf[q] \in Ids
      BY RequestAssumption
    <3>2. CASE q = r
      BY <2>1, <2>2, <2>4, <2>5, <3>2 DEF Worker
    <3>3. CASE q # r /\ IdOf[q] = IdOf[r]
      BY <2>1, <2>2, <2>4, <2>5, <3>3 DEF Owned, Worker
    <3>4. CASE q # r /\ IdOf[q] # IdOf[r]
      BY <2>1, <2>4, <2>5, <3>1, <3>4 DEF Owned, Worker
    <3>5. QED
      BY <3>2, <3>3, <3>4
  <2>7. QED
    BY <2>6 DEF Owned
<1>7. ASSUME NEW i \in Ids, NEW p \in Replicas, Cancel(i, p)
      PROVE  Owned'
  BY <1>7 DEF Owned, Worker, Cancel
<1>8. ASSUME NEW i \in Ids, Expire(i)
      PROVE  Owned'
  <2>1. ASSUME NEW q \in Requests
        PROVE  /\ local'[q] \in Unfinished \/ request'[q] = "registered"
                    => row'[IdOf[q]].by = q
               /\ request'[q] = "registered" => row'[IdOf[q]].status \in Unfinished
               /\ Worker(q)' => local'[q] \in Unfinished
                                /\ row'[IdOf[q]].status \in Unfinished
    <3>1. IdOf[q] \in Ids /\ request' = request /\ task' = task
      BY <1>8, RequestAssumption DEF Expire
    <3>2. CASE IdOf[q] = i
      <4>1. local[q] \notin Unfinished /\ request[q] # "registered" /\ ~Worker(q)
        BY <1>8, <3>2 DEF Expire, Worked, Owned
      <4>2. local'[q] = "none"
        BY <1>8, <3>2 DEF Expire
      <4>3. QED
        BY <3>1, <4>1, <4>2 DEF Worker, Unfinished
    <3>3. CASE IdOf[q] # i
      <4>1. row'[IdOf[q]] = row[IdOf[q]] /\ local'[q] = local[q]
        BY <1>8, <3>1, <3>3 DEF Expire, TypeOK
      <4>2. QED
        BY <3>1, <4>1 DEF Owned, Worker
    <3>4. QED
      BY <3>2, <3>3
  <2>2. QED
    BY <2>1 DEF Owned
<1>9. ASSUME NEW p \in Replicas, Crash(p)
      PROVE  Owned'
  BY <1>9 DEF TypeOK, Owned, Worker, Crash, Unfinished
<1>10. CASE NextDay \/ UNCHANGED vars
  BY <1>10 DEF Owned, Worker, NextDay, vars
<1>11. QED
  BY <1>1, <1>2, <1>3, <1>4, <1>5, <1>6, <1>7, <1>8, <1>9, <1>10
     DEF Next, RequestStep, TaskStep, RegistryStep

-----------------------------------------------------------------------------
\* How many records are unfinished.

\* No record becomes unfinished.
Quiet ==
  \A i \in Ids :
    \/ row'[i] = row[i] \/ row'[i] = NoRow \/ row'[i].status \in Terminal
    \/ row[i] # NoRow /\ row[i].status \notin Terminal

LEMMA ActiveFinite ==
  ASSUME NEW s
  PROVE  IsFiniteSet(ActiveOf(s)) /\ Cardinality(ActiveOf(s)) \in Nat
<1>1. ActiveOf(s) \in SUBSET Ids
  BY DEF ActiveOf, RowsOf
<1>2. QED
  BY <1>1, TaskLimitAssumption, FS_Subset, FS_CardinalityType

LEMMA QuietBounded ==
  ASSUME Bounded, Quiet
  PROVE  Bounded'
<1>1. SUFFICES ASSUME NEW s \in Subjects
               PROVE  Cardinality(ActiveOf(s)') <= MaxActive
  BY DEF Bounded
<1>2. ActiveOf(s)' \in SUBSET ActiveOf(s)
  BY DEF ActiveOf, RowsOf, Quiet
<1>3. /\ IsFiniteSet(ActiveOf(s)') /\ Cardinality(ActiveOf(s)') \in Nat
      /\ Cardinality(ActiveOf(s)') <= Cardinality(ActiveOf(s))
  BY <1>2, ActiveFinite, FS_Subset, FS_CardinalityType
<1>4. Cardinality(ActiveOf(s)) <= MaxActive /\ MaxActive \in Nat
  BY TaskLimitAssumption DEF Bounded
<1>5. QED
  BY <1>3, <1>4, ActiveFinite

\* The transaction that registers a task looks at the limit itself.
LEMMA RegisterBounded ==
  ASSUME TypeOK, Bounded, NEW r \in Requests, ~Full(r), Queue(r)
  PROVE  Bounded'
<1>1. SUFFICES ASSUME NEW s \in Subjects
               PROVE  Cardinality(ActiveOf(s)') <= MaxActive
  BY DEF Bounded
<1> DEFINE i == IdOf[r]
<1>2. i \in Ids /\ \A j \in Ids \ {i} : row'[j] = row[j]
  BY RequestAssumption DEF Queue, TypeOK
<1>3. MaxActive \in Nat /\ Cardinality(ActiveOf(s)) <= MaxActive
  BY TaskLimitAssumption DEF Bounded
<1>4. CASE SubjectOf[i] # s
  <2>1. ActiveOf(s)' = ActiveOf(s)
    BY <1>2, <1>4 DEF ActiveOf, RowsOf
  <2>2. QED
    BY <2>1, <1>3
<1>5. CASE SubjectOf[i] = s
  <2>1. ActiveOf(s)' \in SUBSET (ActiveOf(s) \cup {i})
    BY <1>2 DEF ActiveOf, RowsOf
  <2>2. /\ IsFiniteSet(ActiveOf(s) \cup {i})
        /\ Cardinality(ActiveOf(s) \cup {i}) <= Cardinality(ActiveOf(s)) + 1
    BY ActiveFinite, FS_AddElement
  <2>3. Cardinality(ActiveOf(s)') <= Cardinality(ActiveOf(s) \cup {i})
        /\ Cardinality(ActiveOf(s)') \in Nat /\ Cardinality(ActiveOf(s) \cup {i}) \in Nat
    BY <2>1, <2>2, FS_Subset, FS_CardinalityType
  <2>4. ~(Cardinality(ActiveOf(s)) >= MaxActive)
    BY <1>5 DEF Full
  <2>5. QED
    BY <2>2, <2>3, <2>4, <1>3, ActiveFinite
<1>6. QED
  BY <1>4, <1>5

LEMMA StaysBounded ==
  ASSUME TypeOK, Handlers, Owned, Bounded, [Next]_vars
  PROVE  Bounded'
<1> USE DEF boundVars, taskVars, ledgerVars, registryVars
<1>1. ASSUME NEW r \in Requests, Register(r)
      PROVE  Bounded'
  <2>1. CASE row' = row
    BY <2>1, QuietBounded DEF Quiet
  <2>2. QED
    BY <1>1, <2>1, RegisterBounded DEF Register
<1>2. ASSUME NEW r \in Requests, Start(r)
      PROVE  Bounded'
  <2>1. IdOf[r] \in Ids /\ row[IdOf[r]].status \in Unfinished
    BY <1>2, RequestAssumption DEF Start, Steps, Owned, Worker
  <2>2. row[IdOf[r]] # NoRow /\ row[IdOf[r]].status \notin Terminal
    BY <2>1 DEF NoRow, Unfinished, Terminal
  <2>3. \A i \in Ids \ {IdOf[r]} : row'[i] = row[i]
    BY <1>2, <2>1 DEF Start, TypeOK
  <2>4. QED
    BY <2>2, <2>3, QuietBounded DEF Quiet
<1>3. ASSUME NEW r \in Requests, Finish(r) \/ Reap(r)
      PROVE  Bounded'
  <2>1. PICK status \in Terminal : Written(r, status)
    BY <1>3 DEF Finish, Reap, Handlers, Terminal, Steps
  <2>2. row[IdOf[r]].by = r
    BY <1>3 DEF Finish, Reap, Abandoned, Owned, Worker, Steps
  <2>3. Quiet
    BY <2>1, <2>2, WrittenBy DEF Quiet
  <2>4. QED
    BY <2>3, QuietBounded
<1>4. ASSUME NEW i \in Ids, Expire(i)
      PROVE  Bounded'
  <2>1. Quiet
    BY <1>4 DEF Expire, TypeOK, Quiet
  <2>2. QED
    BY <2>1, QuietBounded
<1>5. CASE row' = row
  BY <1>5, QuietBounded DEF Quiet
<1>6. ASSUME NEW r \in Requests,
             \/ Preflight(r) \/ Refuse(r) \/ Reserve(r) \/ UsageUnread(r) \/ Refund(r)
             \/ Spawn(r) \/ Collect(r) \/ Drop(r) \/ Answered(r) \/ ProviderFails(r)
             \/ HearCancel(r) \/ Bill(r) \/ Panic(r)
      PROVE  row' = row
  BY <1>6 DEF Preflight, Refuse, Reserve, UsageUnread, Refund, Spawn, Collect, Drop,
              Answered, ProviderFails, HearCancel, Ends, Bill, Panic
<1>7. ASSUME NEW i \in Ids, NEW p \in Replicas, Cancel(i, p) \/ Crash(p)
      PROVE  row' = row
  BY <1>7 DEF Cancel, Crash
<1>8. ASSUME NextDay \/ UNCHANGED vars
      PROVE  row' = row
  BY <1>8 DEF NextDay, vars
<1>9. CASE \E p \in Replicas : Crash(p)
  BY <1>9, QuietBounded DEF Quiet, Crash
<1>10. QED
  BY <1>1, <1>2, <1>3, <1>4, <1>5, <1>6, <1>7, <1>8, <1>9
     DEF Next, RequestStep, TaskStep, RegistryStep

-----------------------------------------------------------------------------
\* The calls of the ledger.

LEMMA HoldersFinite ==
  ASSUME NEW b, NEW d
  PROVE  IsFiniteSet(Holders(b, d)) /\ Cardinality(Holders(b, d)) \in Nat
<1>1. Holders(b, d) \in SUBSET Requests
  BY DEF Holders
<1>2. QED
  BY <1>1, RequestAssumption, FS_Subset, FS_CardinalityType

LEMMA ReserveCounted ==
  ASSUME TypeOK, Handlers, CallsCounted, NEW r \in Requests, Reserve(r)
  PROVE  CallsCounted'
<1>1. SUFFICES ASSUME NEW b \in Buckets, NEW d \in Days
               PROVE  /\ calls'[b][d] = Cardinality(Holders(b, d)')
                      /\ calls'[b][d] <= CallLimit[b]
  BY DEF CallsCounted
<1>2. calls[b][d] \in Int /\ CallLimit[b] \in Nat
  BY BudgetAssumption DEF TypeOK
<1>3. bill[r] = "none"
  BY DEF Reserve, Moves, Handlers
<1>4. /\ bill' = [bill EXCEPT ![r] = "reserved"] /\ pinned' = [pinned EXCEPT ![r] = day]
      /\ bill'[r] = "reserved" /\ pinned'[r] = day
      /\ \A q \in Requests \ {r} : bill'[q] = bill[q] /\ pinned'[q] = pinned[q]
  BY DEF Reserve, Reserved, TypeOK
<1>5. calls'[b][d] = IF b \in BucketsOf[r] /\ d = day THEN calls[b][d] + 1 ELSE calls[b][d]
  BY DEF Reserve, Reserved, Added
<1>6. CASE b \in BucketsOf[r] /\ d = day
  <2>1. Holders(b, d)' = Holders(b, d) \cup {r}
    BY <1>4, <1>6 DEF Holders, Counted
  <2>2. r \notin Holders(b, d)
    BY <1>3 DEF Holders, Counted
  <2>3. Cardinality(Holders(b, d)') = Cardinality(Holders(b, d)) + 1
    BY <2>1, <2>2, HoldersFinite, FS_AddElement
  <2>4. calls[b][d] < CallLimit[b]
    BY <1>6 DEF Reserve, Fits
  <2>5. QED
    BY <1>2, <1>5, <1>6, <2>3, <2>4 DEF CallsCounted
<1>7. CASE ~(b \in BucketsOf[r] /\ d = day)
  <2>1. Holders(b, d)' = Holders(b, d)
    BY <1>3, <1>4, <1>7 DEF Holders, Counted
  <2>2. QED
    BY <1>5, <1>7, <2>1 DEF CallsCounted
<1>8. QED
  BY <1>6, <1>7

\* Taking a reservation back takes its call out of the day it was reserved on.
LEMMA RefundCounted ==
  ASSUME TypeOK, Handlers, CallsCounted, NEW r \in Requests, Refund(r)
  PROVE  CallsCounted'
<1>1. CASE UNCHANGED ledgerVars
  BY <1>1 DEF CallsCounted, Holders, Counted, ledgerVars
<1>2. CASE /\ calls' = Added(calls, r, Period(r), -1)
           /\ bill' = [bill EXCEPT ![r] = "refunded"] /\ pinned' = pinned
  <2>1. SUFFICES ASSUME NEW b \in Buckets, NEW d \in Days
                 PROVE  /\ calls'[b][d] = Cardinality(Holders(b, d)')
                        /\ calls'[b][d] <= CallLimit[b]
    BY DEF CallsCounted
  <2>2. calls[b][d] \in Int /\ CallLimit[b] \in Nat
    BY BudgetAssumption DEF TypeOK
  <2>3. bill[r] = "reserved"
    BY DEF Refund, Moves, Handlers
  <2>4. bill'[r] = "refunded" /\ \A q \in Requests \ {r} : bill'[q] = bill[q]
    BY <1>2 DEF TypeOK
  <2>5. calls'[b][d] = IF b \in BucketsOf[r] /\ d = pinned[r]
                       THEN calls[b][d] + (-1) ELSE calls[b][d]
    BY <1>2 DEF Added, Period
  <2>6. Holders(b, d)' = Holders(b, d) \ {r}
    BY <1>2, <2>4 DEF Holders, Counted
  <2>7. r \in Holders(b, d) <=> b \in BucketsOf[r] /\ d = pinned[r]
    BY <2>3 DEF Holders, Counted
  <2>8. Cardinality(Holders(b, d)') =
        IF b \in BucketsOf[r] /\ d = pinned[r]
        THEN Cardinality(Holders(b, d)) - 1 ELSE Cardinality(Holders(b, d))
    BY <2>6, <2>7, HoldersFinite, FS_RemoveElement
  <2>9. calls[b][d] = Cardinality(Holders(b, d)) /\ calls[b][d] <= CallLimit[b]
    BY DEF CallsCounted
  <2>10. QED
    BY <2>2, <2>5, <2>8, <2>9
<1>3. QED
  BY <1>1, <1>2 DEF Refund, Applied

\* What is settled or released keeps its call.
LEMMA BillCounted ==
  ASSUME TypeOK, Handlers, CallsCounted, NEW r \in Requests, Bill(r)
  PROVE  CallsCounted'
<1>1. CASE UNCHANGED ledgerVars
  BY <1>1 DEF CallsCounted, Holders, Counted, ledgerVars
<1>2. ASSUME NEW what \in {"settled", "released"},
             calls' = Added(calls, r, Period(r), 0),
             bill' = [bill EXCEPT ![r] = what], pinned' = pinned
      PROVE  CallsCounted'
  <2>1. SUFFICES ASSUME NEW b \in Buckets, NEW d \in Days
                 PROVE  /\ calls'[b][d] = Cardinality(Holders(b, d)')
                        /\ calls'[b][d] <= CallLimit[b]
    BY DEF CallsCounted
  <2>2. Counted(r)
    BY DEF Bill, Steps, Handlers
  <2>3. bill'[r] = what /\ \A q \in Requests \ {r} : bill'[q] = bill[q]
    BY <1>2 DEF TypeOK
  <2>4. Holders(b, d)' = Holders(b, d)
    BY <1>2, <2>2, <2>3 DEF Holders, Counted
  <2>5. calls[b][d] \in Int
    BY DEF TypeOK
  <2>6. calls'[b][d] = calls[b][d]
    BY <1>2, <2>5 DEF Added
  <2>7. QED
    BY <2>4, <2>6 DEF CallsCounted
<1>3. QED
  BY <1>1, <1>2 DEF Bill, Applied

LEMMA StaysCounted ==
  ASSUME TypeOK, Handlers, CallsCounted, [Next]_vars
  PROVE  CallsCounted'
<1> USE DEF boundVars, taskVars, ledgerVars, registryVars
<1>1. CASE UNCHANGED ledgerVars
  BY <1>1 DEF CallsCounted, Holders, Counted
<1>2. ASSUME NEW r \in Requests,
             \/ Preflight(r) \/ Refuse(r) \/ UsageUnread(r) \/ Register(r) \/ Spawn(r)
             \/ Collect(r) \/ Drop(r) \/ Start(r) \/ Answered(r) \/ ProviderFails(r)
             \/ HearCancel(r) \/ Finish(r) \/ Panic(r) \/ Reap(r)
      PROVE  UNCHANGED ledgerVars
  BY <1>2 DEF Preflight, Refuse, UsageUnread, Register, Spawn, Collect, Drop, Start,
              Answered, ProviderFails, HearCancel, Ends, Finish, Panic, Reap
<1>3. ASSUME NEW i \in Ids, NEW p \in Replicas, Cancel(i, p) \/ Expire(i)
      PROVE  UNCHANGED ledgerVars
  BY <1>3 DEF Cancel, Expire
<1>4. ASSUME NEW i \in Ids, Expire(i)
      PROVE  UNCHANGED ledgerVars
  BY <1>4 DEF Expire
<1>5. ASSUME NEW p \in Replicas, Crash(p)
      PROVE  UNCHANGED ledgerVars
  BY <1>5 DEF Crash
<1>6. ASSUME NextDay \/ UNCHANGED vars
      PROVE  UNCHANGED ledgerVars
  BY <1>6 DEF NextDay, vars
<1>7. QED
  BY <1>1, <1>2, <1>3, <1>4, <1>5, <1>6, ReserveCounted, RefundCounted, BillCounted
     DEF Next, RequestStep, TaskStep, RegistryStep

-----------------------------------------------------------------------------
\* The tokens of the ledger.

\* Only Bill changes a reservation that a task has, and it ends the task's work.
LEMMA StaysUnbilled ==
  ASSUME TypeOK, Handlers, Unbilled, [Next]_vars
  PROVE  Unbilled'
<1> USE DEF Moves, Steps, boundVars, taskVars, ledgerVars, registryVars
<1>1. ASSUME NEW r \in Requests, Preflight(r) \/ Refuse(r) \/ UsageUnread(r)
                                   \/ Register(r) \/ Collect(r) \/ Drop(r)
      PROVE  Unbilled'
  BY <1>1 DEF Unbilled, Preflight, Refuse, UsageUnread, Register, Collect, Drop
<1>2. ASSUME NEW r \in Requests, Reserve(r)
      PROVE  Unbilled'
  BY <1>2 DEF TypeOK, Unbilled, Reserve, Reserved
<1>3. ASSUME NEW r \in Requests, Refund(r)
      PROVE  Unbilled'
  <2>1. bill' = bill \/ bill' = [bill EXCEPT ![r] = "refunded"]
    BY <1>3, AppliedBills DEF Refund
  <2>2. QED
    BY <1>3, <2>1 DEF TypeOK, Handlers, Unbilled, Refund
<1>4. ASSUME NEW r \in Requests, Spawn(r)
      PROVE  Unbilled'
  BY <1>4 DEF TypeOK, Handlers, Unbilled, Spawn
<1>5. ASSUME NEW r \in Requests, Start(r) \/ Finish(r) \/ Panic(r) \/ Reap(r)
      PROVE  Unbilled'
  BY <1>5 DEF TypeOK, Unbilled, Start, Finish, Panic, Reap
<1>6. ASSUME NEW r \in Requests, Answered(r) \/ ProviderFails(r) \/ HearCancel(r)
      PROVE  Unbilled'
  <2>1. PICK what \in Terminal, spent \in Nat : Ends(r, what, spent)
    BY <1>6, BudgetAssumption DEF Answered, ProviderFails, HearCancel, Terminal
  <2>2. QED
    BY <2>1 DEF TypeOK, Unbilled, Ends
<1>7. ASSUME NEW r \in Requests, Bill(r)
      PROVE  Unbilled'
  <2>1. \/ bill' = bill
        \/ bill' = [bill EXCEPT ![r] = "settled"]
        \/ bill' = [bill EXCEPT ![r] = "released"]
    BY <1>7, AppliedBills DEF Bill
  <2>2. QED
    BY <1>7, <2>1 DEF TypeOK, Unbilled, Bill
<1>8. ASSUME NEW i \in Ids, RegistryStep(i)
      PROVE  Unbilled'
  BY <1>8 DEF Unbilled, RegistryStep, Expire, Cancel
<1>9. ASSUME NEW p \in Replicas, Crash(p)
      PROVE  Unbilled'
  BY <1>9 DEF TypeOK, Unbilled, Crash
<1>10. CASE NextDay \/ UNCHANGED vars
  BY <1>10 DEF Unbilled, NextDay, vars
<1>11. QED
  BY <1>1, <1>2, <1>3, <1>4, <1>5, <1>6, <1>7, <1>8, <1>9, <1>10
     DEF Next, RequestStep, TaskStep

\* What a request holds of a bucket and day.
Part(r, b, d) == Share(Held, Holders(b, d), r)

\* A step that changes what one request holds adds the difference.
LEMMA TokensMoved ==
  ASSUME TypeOK, TypeOK', TokensTrue, NEW r \in Requests,
         \A q \in Requests \ {r} : bill'[q] = bill[q] /\ pinned'[q] = pinned[q] /\ used'[q] = used[q],
         \A b \in Buckets, d \in Days : tokens'[b][d] = tokens[b][d] + (Part(r, b, d)' - Part(r, b, d))
  PROVE  TokensTrue'
<1> SUFFICES ASSUME NEW b \in Buckets, NEW d \in Days
             PROVE  tokens'[b][d] = SumFunctionOnSet(Held, Holders(b, d))'
  BY DEF TokensTrue
<1>1. IsFiniteSet(Holders(b, d)) /\ IsFiniteSet(Holders(b, d)')
  <2>1. Holders(b, d) \in SUBSET Requests /\ Holders(b, d)' \in SUBSET Requests
    BY DEF Holders
  <2> QED
    BY <2>1, RequestAssumption, FS_Subset
<1>2. Holders(b, d)' \ {r} = Holders(b, d) \ {r}
  BY DEF Holders, Counted
<1>3. \A q \in Requests \ {r} : Held'[q] = Held[q]
  BY DEF Held
<1>4. \A q \in Requests : Held[q] \in Int /\ Held'[q] \in Int
  BY BudgetAssumption DEF Held, TypeOK
<1>5. Holders(b, d) \subseteq Requests /\ Holders(b, d)' \subseteq Requests
  BY DEF Holders
<1> DEFINE S == Holders(b, d)
           T == Holders(b, d)'
           f == Held
           g == Held'
<1>6. SumFunctionOnSet(g, T) = SumFunctionOnSet(f, S) + (Share(g, T, r) - Share(f, S, r))
  <2>1. /\ IsFiniteSet(S) /\ IsFiniteSet(T) /\ S \ {r} = T \ {r}
        /\ \A x \in S : f[x] \in Int
        /\ \A x \in T : g[x] \in Int
        /\ \A x \in S \ {r} : f[x] = g[x]
    BY <1>1, <1>2, <1>3, <1>4, <1>5
  <2> HIDE DEF S, T, f, g
  <2> QED
    BY <2>1, SumChanged
<1>7. tokens[b][d] = SumFunctionOnSet(f, S)
  BY DEF TokensTrue
<1> QED
  BY <1>6, <1>7 DEF Part

\* A request that holds nothing yet, or no more, has no part.
LEMMA PartKnown ==
  ASSUME NEW r \in Requests, NEW b \in Buckets, NEW d \in Days
  PROVE  Part(r, b, d) = IF b \in BucketsOf[r] /\ d = pinned[r] /\ Counted(r) THEN Held[r] ELSE 0
BY DEF Part, Share, Holders

\* A reservation adds its estimate to the rows of the day.
LEMMA ReserveTokens ==
  ASSUME TypeOK, TypeOK', Handlers, TokensTrue, NEW r \in Requests, Reserve(r)
  PROVE  TokensTrue'
<1>1. bill[r] = "none"
  BY DEF Reserve, Moves, Handlers
<1>2. /\ bill' = [bill EXCEPT ![r] = "reserved"] /\ pinned' = [pinned EXCEPT ![r] = day]
      /\ bill'[r] = "reserved" /\ pinned'[r] = day /\ used' = used
      /\ \A q \in Requests \ {r} : bill'[q] = bill[q] /\ pinned'[q] = pinned[q]
  BY DEF Reserve, Reserved, TypeOK, taskVars
<1>3. ASSUME NEW b \in Buckets, NEW d \in Days
      PROVE  tokens'[b][d] = tokens[b][d] + (Part(r, b, d)' - Part(r, b, d))
  <2>1. Part(r, b, d) = 0
    BY <1>1, PartKnown DEF Counted
  <2>2. Part(r, b, d)' = IF b \in BucketsOf[r] /\ d = day THEN Estimate[r] ELSE 0
    BY <1>2 DEF Part, Share, Holders, Counted, Held
  <2>3. tokens'[b][d] = IF b \in BucketsOf[r] /\ d = day
                        THEN tokens[b][d] + Estimate[r] ELSE tokens[b][d]
    BY DEF Reserve, Reserved, Added
  <2>4. tokens[b][d] \in Int /\ Estimate[r] \in Int
    BY BudgetAssumption DEF TypeOK
  <2> QED
    BY <2>1, <2>2, <2>3, <2>4
<1> QED
  BY <1>2, <1>3, TokensMoved

\* What is given back or settled is taken from the rows it was reserved in, and
\* leaves there what the request now holds.
LEMMA AppliedTokens ==
  ASSUME TypeOK, TypeOK', TokensTrue, NEW r \in Requests, bill[r] = "reserved",
         NEW what \in {"settled", "released", "refunded"}, used' = used,
         NEW callAmount, NEW tokenAmount \in Int, Applied(r, callAmount, tokenAmount, what),
         tokenAmount = (IF what = "settled" THEN used[r] ELSE 0) - Estimate[r]
  PROVE  TokensTrue'
<1>1. CASE UNCHANGED ledgerVars
  <2>1. Held' = Held /\ \A b, d : Holders(b, d)' = Holders(b, d)
    BY <1>1 DEF Held, Holders, Counted, ledgerVars
  <2> QED
    BY <1>1, <2>1 DEF TokensTrue, ledgerVars
<1>2. CASE /\ tokens' = Added(tokens, r, Period(r), tokenAmount)
           /\ bill' = [bill EXCEPT ![r] = what] /\ pinned' = pinned
  <2>1. bill'[r] = what /\ \A q \in Requests \ {r} : bill'[q] = bill[q]
    BY <1>2 DEF TypeOK
  <2>2. ASSUME NEW b \in Buckets, NEW d \in Days
        PROVE  tokens'[b][d] = tokens[b][d] + (Part(r, b, d)' - Part(r, b, d))
    <3> DEFINE mine == b \in BucketsOf[r] /\ d = pinned[r]
               left == IF what = "settled" THEN used[r] ELSE 0
    <3>1. Part(r, b, d) = IF mine THEN Estimate[r] ELSE 0
      BY PartKnown DEF Counted, Held
    <3>2. Part(r, b, d)' = IF mine THEN left ELSE 0
      BY <1>2, <2>1 DEF Part, Share, Holders, Counted, Held
    <3>3. tokens'[b][d] = IF mine THEN tokens[b][d] + (left - Estimate[r]) ELSE tokens[b][d]
      BY <1>2 DEF Added, Period
    <3>4. tokens[b][d] \in Int /\ Estimate[r] \in Int /\ left \in Int
      BY BudgetAssumption DEF TypeOK
    <3> HIDE DEF mine, left
    <3> QED
      BY <3>1, <3>2, <3>3, <3>4
  <2> QED
    BY <1>2, <2>1, <2>2, TokensMoved
<1> QED
  BY <1>1, <1>2 DEF Applied

\* No other step changes the tokens, or what a request holds.
LEMMA StaysTokens ==
  ASSUME TypeOK, TypeOK', Handlers, Unbilled, TokensTrue, [Next]_vars
  PROVE  TokensTrue'
<1> USE DEF boundVars, taskVars, ledgerVars, registryVars
<1>1. CASE UNCHANGED <<ledgerVars, used>>
  <2>1. Held' = Held /\ \A b, d : Holders(b, d)' = Holders(b, d)
    BY <1>1 DEF Held, Holders, Counted
  <2> QED
    BY <1>1, <2>1 DEF TokensTrue
<1>2. ASSUME NEW r \in Requests,
             \/ Preflight(r) \/ Refuse(r) \/ UsageUnread(r) \/ Register(r) \/ Spawn(r)
             \/ Collect(r) \/ Drop(r) \/ Start(r) \/ Finish(r) \/ Panic(r) \/ Reap(r)
      PROVE  UNCHANGED <<ledgerVars, used>>
  BY <1>2 DEF Preflight, Refuse, UsageUnread, Register, Spawn, Collect, Drop, Start,
              Finish, Panic, Reap
<1>3. ASSUME NEW r \in Requests, Answered(r) \/ ProviderFails(r) \/ HearCancel(r)
      PROVE  TokensTrue'
  <2>1. PICK what \in Terminal, spent \in Nat : Ends(r, what, spent)
    BY <1>3, BudgetAssumption DEF Answered, ProviderFails, HearCancel, Terminal
  <2>2. bill[r] = "reserved" /\ used' = [used EXCEPT ![r] = spent] /\ UNCHANGED ledgerVars
    BY <2>1 DEF Ends, Steps, Unbilled
  <2>3. Held' = Held /\ \A b, d : Holders(b, d)' = Holders(b, d)
    BY <2>2 DEF Held, Holders, Counted, TypeOK
  <2> QED
    BY <2>2, <2>3 DEF TokensTrue
<1>4. ASSUME NEW r \in Requests, Refund(r)
      PROVE  TokensTrue'
  <2>1. bill[r] = "reserved" /\ used' = used /\ Applied(r, -1, -Estimate[r], "refunded")
    BY <1>4 DEF Refund, Moves, Handlers
  <2>2. -Estimate[r] \in Int /\ -Estimate[r] = 0 - Estimate[r]
    BY BudgetAssumption
  <2> QED
    BY <2>1, <2>2, AppliedTokens
<1>5. ASSUME NEW r \in Requests, Bill(r)
      PROVE  TokensTrue'
  <2>1. bill[r] = "reserved" /\ used' = used
    BY <1>5 DEF Bill, Steps, Unbilled
  <2>2. /\ -Estimate[r] \in Int /\ -Estimate[r] = 0 - Estimate[r]
        /\ used[r] - Estimate[r] \in Int
    BY BudgetAssumption DEF TypeOK
  <2>3. CASE Applied(r, 0, used[r] - Estimate[r], "settled")
    BY <2>1, <2>2, <2>3, AppliedTokens
  <2>4. CASE Applied(r, 0, -Estimate[r], "released")
    BY <2>1, <2>2, <2>4, AppliedTokens
  <2> QED
    BY <1>5, <2>3, <2>4 DEF Bill
<1>6. ASSUME NEW i \in Ids, NEW p \in Replicas, Cancel(i, p)
      PROVE  UNCHANGED <<ledgerVars, used>>
  BY <1>6 DEF Cancel
<1>7. ASSUME NEW i \in Ids, Expire(i)
      PROVE  UNCHANGED <<ledgerVars, used>>
  BY <1>7 DEF Expire
<1>8. ASSUME NEW p \in Replicas, Crash(p)
      PROVE  UNCHANGED <<ledgerVars, used>>
  BY <1>8 DEF Crash
<1>9. ASSUME NextDay \/ UNCHANGED vars
      PROVE  UNCHANGED <<ledgerVars, used>>
  BY <1>9 DEF NextDay, vars
<1> QED
  BY <1>1, <1>2, <1>3, <1>4, <1>5, <1>6, <1>7, <1>8, <1>9, ReserveTokens
     DEF Next, RequestStep, TaskStep, RegistryStep

-----------------------------------------------------------------------------
\* The theorems.

LEMMA InitSound ==
  ASSUME Init
  PROVE  Sound
<1>1. TypeOK
  BY InitTyped
<1>2. Handlers /\ Owned
  BY DEF Init, Handlers, Owned, Counted, Worker, Unfinished
<1>3. Bounded
  <2>1. \A s \in Subjects : ActiveOf(s) = {}
    BY DEF Init, ActiveOf, RowsOf
  <2>2. QED
    BY <2>1, FS_EmptySet, TaskLimitAssumption DEF Bounded
<1>4. CallsCounted
  <2>1. \A b \in Buckets, d \in Days : Holders(b, d) = {} /\ calls[b][d] = 0
    BY DEF Init, Holders, Counted
  <2>2. Cardinality({}) = 0 /\ \A b \in Buckets : 0 <= CallLimit[b]
    BY FS_EmptySet, BudgetAssumption
  <2>3. QED
    BY <2>1, <2>2, Zenon DEF CallsCounted
<1>5. Unbilled
  BY DEF Init, Unbilled
<1>6. TokensTrue
  <2>1. \A b \in Buckets, d \in Days : Holders(b, d) = {} /\ tokens[b][d] = 0
    BY DEF Init, Holders, Counted
  <2>2. QED
    BY <2>1, SumEmpty DEF TokensTrue
<1>7. QED
  BY <1>1, <1>2, <1>3, <1>4, <1>5, <1>6 DEF Sound

LEMMA StaysSound ==
  ASSUME Sound, [Next]_vars
  PROVE  Sound'
BY StaysTyped, StaysHandled, StaysOwned, StaysBounded, StaysCounted, StaysUnbilled, StaysTokens DEF Sound

LEMMA IsSound ==
  Spec => []Sound
BY InitSound, StaysSound, PTL DEF Spec

\* Handlers, tasks, ledger and registry keep their types.
THEOREM AiTasksTyped ==
  Spec => []TypeOK
<1>1. Sound => TypeOK
  BY DEF Sound
<1>2. QED
  BY <1>1, IsSound, PTL

\* The tasks at work of a subject have an unfinished record each.
LEMMA SoundRunsOnce ==
  ASSUME Sound
  PROVE  OneRunEach
<1>1. \A r, q \in Requests : Worker(r) /\ Worker(q) /\ IdOf[r] = IdOf[q] => r = q
  BY DEF Sound, Owned
<1>2. ASSUME NEW s \in Subjects
      PROVE  Cardinality({r \in Requests : Worker(r) /\ SubjectOf[IdOf[r]] = s}) <= MaxActive
  <2> DEFINE W == {r \in Requests : Worker(r) /\ SubjectOf[IdOf[r]] = s}
             f == [r \in W |-> IdOf[r]]
  <2>1. ASSUME NEW r \in W
        PROVE  IdOf[r] \in ActiveOf(s)
    <3>1. IdOf[r] \in Ids /\ row[IdOf[r]].status \in Unfinished
      BY RequestAssumption DEF Sound, Owned
    <3>2. QED
      BY <3>1 DEF ActiveOf, RowsOf, NoRow, Unfinished, Terminal
  <2>2. f \in Injection(W, ActiveOf(s))
    BY <1>1, <2>1 DEF Injection, IsInjective
  <2>3. /\ Cardinality(W) <= Cardinality(ActiveOf(s))
        /\ Cardinality(W) \in Nat
    BY <2>2, ActiveFinite, FS_Injection, FS_CardinalityType
  <2>4. Cardinality(ActiveOf(s)) <= MaxActive /\ MaxActive \in Nat
    BY TaskLimitAssumption DEF Sound, Bounded
  <2>5. QED
    BY <2>3, <2>4, ActiveFinite
<1>3. QED
  BY <1>1, <1>2 DEF OneRunEach

\* No two tasks work under one key, and no subject has more at work than it may:
\* the transaction of register_ai_task_atomically is enough for that, whatever
\* requests race, fail, are dropped or expire, and whichever processes die.
THEOREM AiTasksRunOnce ==
  Spec => []OneRunEach
<1>1. QED
  BY SoundRunsOnce, IsSound, PTL

\* Nothing works whose call is not counted, and the calls of every budget and day
\* are those not taken back, within the limit: the half of LedgerTrue about calls.
THEOREM AiTasksCallsTrue ==
  Spec => []CallsTrue
<1>1. Sound => CallsTrue
  BY DEF Sound, Handlers, CallsCounted, CallsTrue
<1>2. QED
  BY <1>1, IsSound, PTL

\* The ledger is true, calls and tokens alike: in every bucket and on every day it
\* shows each call that is not taken back, within the limit, and the tokens these
\* requests hold, whatever fails, dies or is given back in between.
THEOREM AiTasksLedgerTrue ==
  Spec => []LedgerTrue
<1>1. Sound => LedgerTrue
  BY DEF Sound, Handlers, CallsCounted, CallsTrue, LedgerTrue
<1>2. QED
  BY <1>1, IsSound, PTL

\* One step and an outcome that its process knows to be recorded.
LEMMA SoundStands ==
  ASSUME Sound, [Next]_vars, NEW i \in Ids,
         row[i].status \in Terminal, local[row[i].by] = row[i].status
  PROVE  row'[i] \in {row[i], NoRow}
<1> USE DEF Sound, boundVars, taskVars, ledgerVars, registryVars
<1>1. ASSUME NEW r \in Requests, Register(r)
      PROVE  row'[i] = row[i]
  <2>1. row' = row \/ (~Taken(r) /\ Queue(r))
    BY <1>1 DEF Register
  <2>2. CASE ~Taken(r) /\ Queue(r)
    <3>1. i # IdOf[r]
      BY <2>2 DEF Taken, NoRow, Terminal
    <3>2. QED
      BY <2>2, <3>1 DEF Queue, TypeOK
  <2>3. QED
    BY <2>1, <2>2
<1>2. ASSUME NEW r \in Requests, Start(r)
      PROVE  row'[i] = row[i]
  <2>1. row[IdOf[r]].status \in Unfinished
    BY <1>2 DEF Start, Steps, Owned, Worker
  <2>2. i # IdOf[r]
    BY <2>1 DEF Unfinished, Terminal
  <2>3. QED
    BY <1>2, <2>2 DEF Start, TypeOK
<1>3. ASSUME NEW r \in Requests, Finish(r) \/ Reap(r)
      PROVE  row'[i] = row[i]
  <2>1. local[r] \in Unfinished /\ row[IdOf[r]].by = r
    BY <1>3 DEF Finish, Reap, Abandoned, Owned, Worker, Steps
  <2>2. i # IdOf[r]
    BY <2>1 DEF Unfinished, Terminal
  <2>3. PICK status \in Terminal : Written(r, status)
    BY <1>3 DEF Finish, Reap, Handlers, Terminal, Steps
  <2>4. QED
    BY <2>1, <2>2, <2>3, WrittenBy
<1>4. ASSUME NEW j \in Ids, Expire(j)
      PROVE  row'[i] \in {row[i], NoRow}
  BY <1>4 DEF Expire, TypeOK
<1>5. ASSUME NEW r \in Requests,
             \/ Preflight(r) \/ Refuse(r) \/ Reserve(r) \/ UsageUnread(r) \/ Refund(r)
             \/ Spawn(r) \/ Collect(r) \/ Drop(r) \/ Answered(r) \/ ProviderFails(r)
             \/ HearCancel(r) \/ Bill(r) \/ Panic(r)
      PROVE  row' = row
  BY <1>5 DEF Preflight, Refuse, Reserve, UsageUnread, Refund, Spawn, Collect, Drop,
              Answered, ProviderFails, HearCancel, Ends, Bill, Panic
<1>6. ASSUME NEW j \in Ids, NEW p \in Replicas, Cancel(j, p)
      PROVE  row' = row
  BY <1>6 DEF Cancel
<1>7. ASSUME NEW p \in Replicas, Crash(p)
      PROVE  row' = row
  BY <1>7 DEF Crash
<1>8. ASSUME NextDay \/ UNCHANGED vars
      PROVE  row' = row
  BY <1>8 DEF NextDay, vars
<1>9. QED
  BY <1>1, <1>2, <1>3, <1>4, <1>5, <1>6, <1>7, <1>8
     DEF Next, RequestStep, TaskStep, RegistryStep

\* An outcome that its process knows to be recorded stands until it expires: no late
\* task, no repeated request and no sweep of cleanup_local_tasks writes another.
THEOREM AiTasksOutcomeStands ==
  Spec => OutcomeStands
<1>1. Sound /\ [Next]_vars =>
        [\A i \in Ids :
           row[i].status \in Terminal /\ local[row[i].by] = row[i].status
             => row'[i] \in {row[i], NoRow}]_vars
  BY SoundStands
<1>2. QED
  BY <1>1, IsSound, PTL DEF Spec, OutcomeStands

=============================================================================
