-------------------------- MODULE ReleaseRun_proofs --------------------------
(***************************************************************************)
(* Proofs about a whole normalization run, for any roots, workers, memory  *)
(* samples, file sizes and damage: the tables are those of a serial run    *)
(* (SameAsSerial), a scope is done only when every root is stored          *)
(* (FailClosed), the memory and the validation budget are respected        *)
(* (BudgetRespected, AuditBounded), and the verdict is deserved            *)
(* (ReleaseExact).                                                         *)
(*                                                                         *)
(* None of them is inductive.  BInv says that the pending roots are an     *)
(* interval that begins after the last stored one, and that every failure  *)
(* lies in it; SInv that the reservation is a sum over that interval and   *)
(* the tables the serial ones so far.  NInv says that no row is discarded  *)
(* without a source being counted as skipped: its leaf, which no other row *)
(* can claim.  AInv says that the validator's accumulator is that of a     *)
(* prefix of the manifest and its budget the weight of its window.         *)
(*                                                                         *)
(* The serial tables, the sums and the accumulator are recursive           *)
(* functions: Recursion proves that they exist, IntervalInduction is what  *)
(* the inductions over them use.                                           *)
(***************************************************************************)
EXTENDS ReleaseRun, FiniteSetTheorems, NaturalsInduction, WellFoundedInduction, TLAPS

-----------------------------------------------------------------------------
(* Induction and recursion                                                 *)

(* Induction over an interval, for a set in place of a predicate.          *)
LEMMA IntervalInduction ==
  ASSUME NEW N \in Nat, NEW S,
         0 \in S, \A n \in 0..N : n \in S /\ n < N => n + 1 \in S
  PROVE  \A n \in 0..N : n \in S
<1> DEFINE R == OpToRel(<, Nat)
           Bad == {n \in 0..N : n \notin S}
<1> SUFFICES ASSUME Bad # {} PROVE FALSE
  OBVIOUS
<1>1. IsWellFoundedOn(R, Nat)
  BY NatLessThanWellFounded, Zenon
<1>2. \A m, n \in Nat : m < n => <<m, n>> \in R
  BY Zenon DEF OpToRel
<1>3. Bad \subseteq Nat
  OBVIOUS
<1> HIDE DEF R
<1>4. \E n \in Bad : \A m \in Bad : ~ (<<m, n>> \in R)
  <2> HIDE DEF Bad
  <2> QED
    BY <1>1, <1>3, WFMin
<1>5. PICK n \in Bad : \A m \in Bad : ~ (<<m, n>> \in R)
  BY <1>4
<1>6. n # 0
  OBVIOUS
<1>7. n - 1 \in 0..N /\ n - 1 < n
  BY <1>6
<1>8. n - 1 \in S
  BY <1>2, <1>3, <1>5, <1>7
<1> QED
  BY <1>7, <1>8

Follows(f, N, e, step) ==
  f[0] = e /\ \A n \in 1..N : f[n] = step[<<f[n - 1], n>>]

(* A recursive definition over an interval has a solution: what CHOOSE, by *)
(* which TLA+ defines recursive functions, needs to be worth anything.     *)
LEMMA Recursion ==
  ASSUME NEW N \in Nat, NEW Acc, NEW e \in Acc,
         NEW step \in [Acc \X (1..N) -> Acc]
  PROVE  \E f \in [0..N -> Acc] : Follows(f, N, e, step)
<1> DEFINE Solves(f, n) == /\ f \in [0..n -> Acc]
                           /\ f[0] = e
                           /\ \A k \in 1..n : f[k] = step[<<f[k - 1], k>>]
           S == {n \in 0..N : \E f : Solves(f, n)}
<1>1. 0 \in S
  <2> DEFINE f == [k \in 0..0 |-> e]
  <2>1. Solves(f, 0)
    OBVIOUS
  <2> HIDE DEF Solves, f
  <2> QED
    BY <2>1
<1>2. ASSUME NEW n \in 0..N, n \in S, n < N
      PROVE  n + 1 \in S
  <2>1. PICK f : Solves(f, n)
    BY <1>2
  <2> DEFINE g == [k \in 0..n + 1 |-> IF k <= n THEN f[k] ELSE step[<<f[n], n + 1>>]]
  <2>2. f[n] \in Acc /\ n + 1 \in 1..N
    BY <1>2, <2>1
  <2>3. step[<<f[n], n + 1>>] \in Acc
    BY <2>2
  <2>4. g \in [0..n + 1 -> Acc] /\ g[0] = e
    BY <2>1, <2>3
  <2>5. ASSUME NEW k \in 1..n + 1 PROVE g[k] = step[<<g[k - 1], k>>]
    <3>1. CASE k <= n
      <4>1. k \in 1..n /\ k - 1 \in 0..n
        BY <3>1
      <4>2. g[k] = f[k] /\ g[k - 1] = f[k - 1]
        BY <3>1, <4>1
      <4>3. f[k] = step[<<f[k - 1], k>>]
        BY <2>1, <4>1
      <4> HIDE DEF g
      <4> QED
        BY <4>2, <4>3
    <3>2. CASE k = n + 1
      <4>1. g[k] = step[<<f[n], n + 1>>] /\ g[k - 1] = f[n]
        BY <3>2
      <4> HIDE DEF g
      <4> QED
        BY <4>1, <3>2
    <3> QED
      BY <3>1, <3>2
  <2>6. Solves(g, n + 1)
    BY <2>4, <2>5
  <2> HIDE DEF Solves, g
  <2> QED
    BY <1>2, <2>6
<1>3. N \in S
  <2> HIDE DEF S
  <2> QED
    BY <1>1, <1>2, IntervalInduction
<1>4. PICK f : Solves(f, N)
  BY <1>3
<1> QED
  BY <1>4 DEF Follows

-----------------------------------------------------------------------------
(* The scheduler                                                           *)
Typed == /\ pc \in {"fill", "wait", "drain", "done", "refused"}
         /\ workers \in Nat \ {0}
         /\ next \in 1..Last + 1
         /\ pending \in Seq(1..Last)
         /\ failed \subseteq 1..Last
         /\ reserved \in Int
         /\ baseline \in Nat \cup {Unknown}
         /\ stored \in Nat

Pooled == pending # <<>> => baseline # Unknown /\ workers > 1

Window == pc # "refused" =>
            /\ next = stored + Len(pending) + 1
            /\ \A i \in 1..Len(pending) : pending[i] = stored + i

Outstanding == pc # "refused" => \A k \in failed : stored < k /\ k < next

Exhausted == pc = "done" => next > Last /\ pending = <<>>

BInv == Typed /\ Pooled /\ Window /\ Outstanding /\ Exhausted /\ BudgetRespected

-----------------------------------------------------------------------------
LEMMA ConstantTypes ==
  /\ Last \in Nat
  /\ WorkerCounts \subseteq Nat \ {0}
  /\ \A i \in 1..Last : Estimates[i] \in Nat
  /\ Unknown \notin Nat
BY SchedulerAssumption DEF Last

(* What admission guarantees: the reservation that results stays below the *)
(* elastic ceiling, whatever the sample.                                   *)
LEMMA AdmittedFits ==
  ASSUME NEW s \in Samples, NEW estimate \in Nat, Admitted(s, estimate),
         reserved \in Int, baseline \in Nat \cup {Unknown}
  PROVE  Baseline(s) \in Nat /\ Baseline(s) + reserved + estimate <= Elastic
<1>1. /\ Tree(s) \in Nat /\ Idle(s) \in Nat
      /\ s.limit \in Nat \cup {Unknown}
  BY SchedulerAssumption DEF Tree, Idle
<1>2. Baseline(s) \in Nat
  BY <1>1 DEF Baseline
<1>3. Ceiling(s) \in Int /\ Ceiling(s) <= Elastic
  BY <1>1, SchedulerAssumption DEF Ceiling, Least
<1>4. Baseline(s) + reserved + estimate <= Projected(s, estimate)
  BY <1>1, <1>2 DEF Projected, Greatest
<1>5. Projected(s, estimate) <= Ceiling(s)
  <2> DEFINE room == Available(s)
             nominal == IF room = Unknown \/ room >= Projected(s, estimate)
                        THEN Ceiling(s) ELSE Least(Target, Ceiling(s))
  <2>1. Projected(s, estimate) <= nominal
    BY DEF Admitted
  <2>2. nominal \in Int /\ nominal <= Ceiling(s)
    BY <1>3, SchedulerAssumption DEF Least
  <2>3. Projected(s, estimate) \in Int
    BY <1>1, <1>2 DEF Projected, Greatest
  <2> HIDE DEF nominal
  <2> QED
    BY <1>3, <2>1, <2>2, <2>3
<1>6. Projected(s, estimate) \in Int
  BY <1>1, <1>2 DEF Projected, Greatest
<1> QED
  BY <1>2, <1>3, <1>4, <1>5, <1>6, SchedulerAssumption

LEMMA InitBInv == Init => BInv
BY ConstantTypes
DEF Init, BInv, Typed, Pooled, Window, Outstanding, Exhausted, BudgetRespected

LEMMA SubmitStep ==
  ASSUME BInv, NEW s \in Samples, Submit(s)
  PROVE  BInv'
<1> USE ConstantTypes DEF BInv
<1>1. /\ pc = "fill" /\ next <= Last /\ workers > 1
      /\ pending' = Append(pending, next)
      /\ reserved' = reserved + Estimates[next]
      /\ baseline' = Baseline(s)
      /\ next' = next + 1
      /\ UNCHANGED <<pc, workers, finished, failed, stored>>
  BY DEF Submit, Fillable, tables
<1>2. Baseline(s) \in Nat /\ Baseline(s) + reserved + Estimates[next] <= Elastic
  BY AdmittedFits DEF Submit, Typed, Fillable
<1>3. Typed'
  BY <1>1, <1>2 DEF Typed
<1>4. Pooled' /\ BudgetRespected' /\ Exhausted'
  BY <1>1, <1>2 DEF Typed, Pooled, BudgetRespected, Exhausted
<1>5. Window'
  <2>1. /\ Len(pending') = Len(pending) + 1
        /\ \A i \in 1..Len(pending) : pending'[i] = pending[i]
        /\ pending'[Len(pending) + 1] = next
    BY <1>1 DEF Typed
  <2>2. /\ next = stored + Len(pending) + 1
        /\ \A i \in 1..Len(pending) : pending[i] = stored + i
    BY <1>1 DEF Window
  <2>3. Len(pending) \in Nat /\ stored \in Nat /\ next \in Nat
    BY DEF Typed
  <2>4. next' = next + 1 /\ stored' = stored
    BY <1>1
  <2>5. next' = stored' + Len(pending') + 1
    BY <2>1, <2>2, <2>3, <2>4
  <2>6. ASSUME NEW i \in 1..Len(pending') PROVE pending'[i] = stored' + i
    <3>1. i \in 1..Len(pending) \/ i = Len(pending) + 1
      BY <2>1, <2>3
    <3> QED
      BY <2>1, <2>2, <2>3, <2>4, <3>1
  <2> QED
    BY <2>5, <2>6 DEF Window
<1>6. Outstanding'
  BY <1>1 DEF Typed, Outstanding
<1> QED
  BY <1>3, <1>4, <1>5, <1>6

LEMMA InlineStep ==
  ASSUME BInv, NEW s \in Samples, RunInline(s)
  PROVE  BInv'
<1> USE ConstantTypes DEF BInv
<1>1. /\ pc = "fill" /\ next <= Last /\ workers = 1 /\ pending = <<>>
      /\ baseline' = Baseline(s)
      /\ next' = next + 1
      /\ UNCHANGED <<workers, pending, reserved>>
  BY DEF RunInline, Fillable, Pooled, Typed
<1>2. Baseline(s) \in Nat
  BY AdmittedFits DEF RunInline, Typed, Fillable
<1>3. \/ stored' = stored + 1 /\ UNCHANGED <<pc, failed>>
      \/ pc' = "refused" /\ failed' = failed \cup {next} /\ stored' = stored
  BY DEF RunInline, StoreRoot, tables
<1>4. Typed'
  <2>1. next' \in 1..Last + 1 /\ baseline' \in Nat
    BY <1>1, <1>2 DEF Typed
  <2>2. pc' \in {"fill", "refused"} /\ stored' \in Nat /\ failed' \subseteq 1..Last
    <3>1. pc' \in {"fill", "refused"}
      BY <1>1, <1>3
    <3>2. stored' \in Nat
      BY <1>3 DEF Typed
    <3>3. failed' \subseteq 1..Last
      <4>1. next \in 1..Last
        BY <1>1 DEF Typed
      <4> QED
        BY <1>3, <4>1 DEF Typed
    <3> QED
      BY <3>1, <3>2, <3>3
  <2> QED
    BY <1>1, <2>1, <2>2 DEF Typed
<1>5. Len(pending) = 0 /\ next = stored + 1
  <2>1. Len(pending) = 0 /\ next \in Nat /\ stored \in Nat
    BY <1>1 DEF Typed
  <2>2. next = stored + Len(pending) + 1
    BY <1>1 DEF Window
  <2> QED
    BY <2>1, <2>2
<1>6. failed = {}
  BY <1>1, <1>5 DEF Typed, Outstanding
<1>7. Window' /\ Outstanding'
  BY <1>1, <1>3, <1>5, <1>6 DEF Typed, Window, Outstanding
<1> QED
  BY <1>1, <1>3, <1>4, <1>7 DEF Pooled, BudgetRespected, Exhausted

LEMMA StoreStep == BInv /\ StoreOldest => BInv'
<1> SUFFICES ASSUME BInv, StoreOldest PROVE BInv'
  OBVIOUS
<1> USE ConstantTypes DEF BInv
<1>1. /\ pc = "drain" /\ pending # <<>>
      /\ pending' = Tail(pending)
      /\ reserved' = reserved - Estimates[Head(pending)]
      /\ UNCHANGED <<workers, next, failed, baseline>>
  BY DEF StoreOldest, OldestDone
<1>2. \/ Head(pending) \in failed /\ pc' = "refused" /\ stored' = stored
      \/ Head(pending) \notin failed /\ stored' = stored + 1 /\ pc' = pc
  BY DEF StoreOldest, StoreRoot, tables
<1>3. Head(pending) \in 1..Last /\ Estimates[Head(pending)] \in Nat
  BY <1>1 DEF Typed
<1>4. Typed'
  <2>1. pending' \in Seq(1..Last)
    BY <1>1 DEF Typed
  <2>2. reserved' \in Int
    BY <1>1, <1>3 DEF Typed
  <2>3. stored' \in Nat /\ pc' \in {"drain", "refused"}
    BY <1>1, <1>2 DEF Typed
  <2> QED
    BY <1>1, <2>1, <2>2, <2>3 DEF Typed
<1>5. Pooled' /\ BudgetRespected'
  BY <1>1, <1>3, SchedulerAssumption DEF Typed, Pooled, BudgetRespected
<1>6. Head(pending) = stored + 1
  BY <1>1 DEF Typed, Window
<1>7. Window'
  <2> SUFFICES ASSUME pc' # "refused"
               PROVE  /\ next' = stored' + Len(pending') + 1
                      /\ \A i \in 1..Len(pending') : pending'[i] = stored' + i
    BY DEF Window
  <2>1. /\ Len(pending) \in Nat /\ Len(pending) >= 1
        /\ Len(pending') = Len(pending) - 1
        /\ \A i \in 1..Len(pending') : pending'[i] = pending[i + 1]
    BY <1>1 DEF Typed
  <2>2. stored' = stored + 1 /\ stored \in Nat /\ next \in Nat /\ next' = next
    BY <1>1, <1>2 DEF Typed
  <2>3. /\ next = stored + Len(pending) + 1
        /\ \A i \in 1..Len(pending) : pending[i] = stored + i
    BY <1>1 DEF Window
  <2> QED
    BY <2>1, <2>2, <2>3
<1>8. Outstanding'
  BY <1>1, <1>2, <1>6 DEF Typed, Outstanding
<1> QED
  BY <1>1, <1>2, <1>4, <1>5, <1>7, <1>8 DEF Exhausted

LEMMA FinishStep ==
  ASSUME BInv, NEW i \in 1..Last, Finish(i)
  PROVE  BInv'
<1> USE ConstantTypes DEF BInv
<1>1. /\ pc \notin {"done", "refused"} /\ i \in Pending
      /\ failed' \in {failed, failed \cup {i}}
      /\ UNCHANGED <<pc, workers, next, pending, reserved, baseline, stored>>
  BY DEF Finish, Unfinished, tables
<1>2. PICK k \in 1..Len(pending) : i = pending[k]
  BY <1>1 DEF Pending, Typed
<1>3. Len(pending) \in Nat /\ stored \in Nat
  BY DEF Typed
<1>4. i = stored + k /\ next = stored + Len(pending) + 1
  BY <1>1, <1>2 DEF Window
<1>5. stored < i /\ i < next
  BY <1>3, <1>4
<1> QED
  BY <1>1, <1>5
  DEF Typed, Pooled, Window, Outstanding, Exhausted, BudgetRespected

(* The steps that only move the coordinator, or refuse the build.          *)
LEMMA OtherStep ==
  ASSUME BInv,
         \/ \E s \in Samples : RefuseMemory(s)
         \/ RefuseUnknownSize \/ StopFilling \/ Wait \/ StopDraining
         \/ EndScope \/ UNCHANGED vars
  PROVE  BInv'
<1> USE ConstantTypes DEF BInv, Typed, Pooled, Window, Outstanding, Exhausted,
                          BudgetRespected, tables
<1>1. ASSUME NEW s \in Samples, RefuseMemory(s) PROVE BInv'
  <2>1. baseline' \in {baseline, Baseline(s)}
    BY <1>1 DEF RefuseMemory
  <2>2. Idle(s) \in Nat
    BY SchedulerAssumption DEF Idle, Tree
  <2> QED
    BY <1>1, <2>1, <2>2 DEF RefuseMemory, Baseline
<1>2. CASE RefuseUnknownSize
  BY <1>2 DEF RefuseUnknownSize
<1>3. CASE StopFilling
  BY <1>3 DEF StopFilling
<1>4. CASE Wait
  BY <1>4 DEF Wait
<1>5. CASE StopDraining
  BY <1>5 DEF StopDraining
<1>6. CASE EndScope
  BY <1>6 DEF EndScope
<1>7. CASE UNCHANGED vars
  BY <1>7 DEF vars
<1> QED
  BY <1>1, <1>2, <1>3, <1>4, <1>5, <1>6, <1>7

THEOREM Scheduling == Spec => []BInv
<1>1. BInv /\ [Next]_vars => BInv'
  BY SubmitStep, InlineStep, StoreStep, FinishStep, OtherStep
  DEF Next, Coordinate
<1> QED
  BY InitBInv, <1>1, PTL DEF Spec

(* The pending roots and the idle process tree stay below the elastic      *)
(* ceiling, although samples change between one admission and the next.    *)
THEOREM Budget == Spec => []BudgetRespected
<1>1. BInv => BudgetRespected
  BY DEF BInv
<1> QED
  BY <1>1, Scheduling, PTL

(* A scope that ends has stored every root; a failed root refuses it.      *)
THEOREM ScopeComplete == Spec => []FailClosed
<1>1. BInv => FailClosed
  <2> SUFFICES ASSUME BInv, pc = "done" PROVE stored = Last /\ failed = {}
    BY DEF FailClosed
  <2>1. next = Last + 1 /\ Len(pending) = 0
    BY ConstantTypes DEF BInv, Typed, Exhausted
  <2>2. stored = Last
    BY <2>1, ConstantTypes DEF BInv, Typed, Window
  <2> QED
    BY <2>1, <2>2, ConstantTypes DEF BInv, Typed, Outstanding
<1> QED
  BY <1>1, Scheduling, PTL

-----------------------------------------------------------------------------
(* Why the nominal budget has no effect: when the room left in the         *)
(* container is known and too small, admission fails anyway; in every      *)
(* other case the nominal budget is the ceiling (build_budget.py,          *)
(* can_submit).                                                            *)
THEOREM NominalBudgetInert ==
  ASSUME NEW s \in Samples, NEW estimate \in Nat,
         reserved \in Int, baseline \in Nat \cup {Unknown}
  PROVE  Admitted(s, estimate) <=>
           /\ Projected(s, estimate) <= Ceiling(s)
           /\ Available(s) # Unknown => Projected(s, estimate) <= Available(s)
<1>1. /\ Tree(s) \in Nat /\ Idle(s) \in Nat
      /\ s.limit \in Nat \cup {Unknown} /\ s.other \in Nat \cup {Unknown}
  BY SchedulerAssumption DEF Tree, Idle
<1>2. Baseline(s) \in Nat
  BY <1>1 DEF Baseline
<1>3. Projected(s, estimate) \in Int
  BY <1>1, <1>2 DEF Projected, Greatest
<1>4. Available(s) \in Int \cup {Unknown}
  BY <1>1 DEF Available, Greatest
<1>5. Ceiling(s) \in Int
  BY <1>1, SchedulerAssumption DEF Ceiling, Least
<1> QED
  BY <1>3, <1>4, <1>5, SchedulerAssumption DEF Admitted, Least

-----------------------------------------------------------------------------
(* The tables: recursion of Serial                                         *)
Root == [id : STRING, rank : 0..2, key : Nat, sources : SUBSET STRING]
Payloads == UNION {[S -> (0..2) \X Nat] : S \in SUBSET STRING}
Tables == [trajectories : Payloads,
           origins : SUBSET [id : STRING, source : STRING, rank : 0..2]]
NoTables == [trajectories |-> <<>>, origins |-> {}]

LEMMA NoTablesTyped == NoTables \in Tables
<1>1. <<>> \in [{} -> (0..2) \X Nat]
  OBVIOUS
<1>2. <<>> \in Payloads
  BY <1>1 DEF Payloads
<1> QED
  BY <1>2 DEF NoTables, Tables

LEMMA PutTyped ==
  ASSUME NEW d \in Tables, NEW r \in Root
  PROVE  PutTrajectory(d, r) \in Tables
<1> DEFINE new  == <<r.rank, r.key>>
           wins == r.id \notin DOMAIN d.trajectories \/ Before(new, d.trajectories[r.id])
           put  == [t \in DOMAIN d.trajectories \cup {r.id} |->
                      IF t = r.id /\ wins THEN new ELSE d.trajectories[t]]
           links == d.origins \cup
                      {[id |-> r.id, source |-> s, rank |-> r.rank] :
                         s \in {u \in r.sources : \A o \in d.origins :
                                  ~(o.id = r.id /\ o.source = u)}}
<1>1. PICK S \in SUBSET STRING : d.trajectories \in [S -> (0..2) \X Nat]
  BY DEF Tables, Payloads
<1>2. new \in (0..2) \X Nat /\ r.id \in STRING
  BY DEF Root
<1>3. ASSUME NEW t \in S \cup {r.id} 
      PROVE  (IF t = r.id /\ wins THEN new ELSE d.trajectories[t]) \in (0..2) \X Nat
  <2>1. CASE t \in S
    <3> HIDE DEF new, wins
    <3> QED
      BY <1>1, <1>2, <2>1
  <2>2. CASE t \notin S
    <3>1. t = r.id /\ wins
      BY <1>1, <2>2
    <3> HIDE DEF new, wins
    <3> QED
      BY <1>2, <3>1
  <2> QED
    BY <2>1, <2>2
<1>4. put \in [S \cup {r.id} -> (0..2) \X Nat]
  <2> HIDE DEF new, wins
  <2> QED
    BY <1>1, <1>3
<1>5. put \in Payloads
  <2>1. S \cup {r.id} \in SUBSET STRING
    BY <1>2
  <2> HIDE DEF put
  <2> QED
    BY <1>4, <2>1 DEF Payloads
<1>6. links \subseteq [id : STRING, source : STRING, rank : 0..2]
  BY DEF Tables, Root
<1>7. PutTrajectory(d, r) = [trajectories |-> put, origins |-> links]
  BY DEF PutTrajectory
<1> HIDE DEF put, links
<1> QED
  BY <1>5, <1>6, <1>7 DEF Tables

(* Serial is what its recursion says.                                      *)
LEMMA SerialEquation ==
  /\ Serial \in [0..Last -> Tables]
  /\ Serial[0] = NoTables
  /\ \A n \in 1..Last : Serial[n] = PutTrajectory(Serial[n - 1], Roots[n])
<1> DEFINE step == [p \in Tables \X (1..Last) |-> PutTrajectory(p[1], Roots[p[2]])]
           Solves(f) == f = [n \in 0..Last |->
                               IF n = 0 THEN [trajectories |-> <<>>, origins |-> {}]
                               ELSE PutTrajectory(f[n - 1], Roots[n])]
<1>1. Last \in Nat /\ \A i \in 1..Last : Roots[i] \in Root
  <2>1. Roots \in Seq(Root)
    BY SchedulerAssumption DEF Root
  <2> QED
    BY <2>1 DEF Last
<1>2. step \in [Tables \X (1..Last) -> Tables]
  BY <1>1, PutTyped
<1>3. PICK f \in [0..Last -> Tables] : Follows(f, Last, NoTables, step)
  <2> HIDE DEF step
  <2> QED
    BY <1>1, <1>2, NoTablesTyped, Recursion
<1>4. ASSUME NEW n \in 1..Last
      PROVE  f[n] = PutTrajectory(f[n - 1], Roots[n])
  <2>1. n - 1 \in 0..Last
    BY <1>1
  <2>2. f[n - 1] \in Tables
    BY <2>1
  <2> QED
    BY <1>3, <2>2 DEF Follows
<1>5. Solves(f)
  <2>1. \A n \in 0..Last : f[n] = (IF n = 0 THEN [trajectories |-> <<>>, origins |-> {}]
                                   ELSE PutTrajectory(f[n - 1], Roots[n]))
    BY <1>1, <1>3, <1>4 DEF NoTables, Follows
  <2> QED
    BY <2>1
<1>6. Serial = CHOOSE g : Solves(g)
  BY DEF Serial
<1>7. Solves(Serial)
  <2> HIDE DEF Solves
  <2> QED
    BY <1>5, <1>6
<1> DEFINE F == Serial
<1>8. F = [n \in 0..Last |-> IF n = 0 THEN NoTables ELSE PutTrajectory(F[n - 1], Roots[n])]
  BY <1>7 DEF NoTables
<1> HIDE DEF F
<1>9. F[0] = NoTables /\ \A n \in 1..Last : F[n] = PutTrajectory(F[n - 1], Roots[n])
  BY <1>1, <1>8
<1>10. \A n \in 0..Last : F[n] \in Tables
  <2> DEFINE S == {n \in 0..Last : F[n] \in Tables}
  <2>1. 0 \in S
    BY <1>1, <1>9, NoTablesTyped
  <2>2. \A n \in 0..Last : n \in S /\ n < Last => n + 1 \in S
    BY <1>1, <1>9, PutTyped
  <2>3. \A n \in 0..Last : n \in S
    <3> HIDE DEF S
    <3> QED
      BY <1>1, <2>1, <2>2, IntervalInduction
  <2> QED
    BY <2>3
<1>11. F \in [0..Last -> Tables]
  BY <1>8, <1>10
<1> QED
  BY <1>9, <1>11 DEF F

-----------------------------------------------------------------------------
(* Sums of the first weights of a list                                     *)
IsSum(f, N, w) ==
  /\ f \in [0..N -> Nat]
  /\ f[0] = 0
  /\ \A n \in 1..N : f[n] = f[n - 1] + w[n]

LEMMA SumExists ==
  ASSUME NEW N \in Nat, NEW w, \A i \in 1..N : w[i] \in Nat
  PROVE  \E f : IsSum(f, N, w)
<1> DEFINE step == [p \in Nat \X (1..N) |-> p[1] + w[p[2]]]
<1>1. step \in [Nat \X (1..N) -> Nat]
  OBVIOUS
<1>2. PICK f \in [0..N -> Nat] : Follows(f, N, 0, step)
  <2> HIDE DEF step
  <2> QED
    BY <1>1, Recursion
<1>3. ASSUME NEW n \in 1..N PROVE f[n] = f[n - 1] + w[n]
  <2>1. n - 1 \in 0..N
    OBVIOUS
  <2>2. f[n - 1] \in Nat
    BY <2>1
  <2> QED
    BY <1>2, <2>2 DEF Follows
<1> QED
  BY <1>2, <1>3 DEF Follows, IsSum

LEMMA SumEquation ==
  ASSUME NEW N \in Nat, NEW w, \A i \in 1..N : w[i] \in Nat
  PROVE  IsSum(SumOf(N, w), N, w)
<1> DEFINE Solves(f) == f = [n \in 0..N |-> IF n = 0 THEN 0 ELSE f[n - 1] + w[n]]
           F == SumOf(N, w)
<1>1. PICK f : IsSum(f, N, w)
  BY SumExists
<1>2. Solves(f)
  <2>1. \A n \in 0..N : f[n] = IF n = 0 THEN 0 ELSE f[n - 1] + w[n]
    BY <1>1 DEF IsSum
  <2> QED
    BY <1>1, <2>1 DEF IsSum
<1>3. F = CHOOSE g : Solves(g)
  BY DEF SumOf
<1>4. Solves(F)
  <2> HIDE DEF Solves, F
  <2> QED
    BY <1>2, <1>3
<1> HIDE DEF F
<1>5. F[0] = 0 /\ \A n \in 1..N : F[n] = F[n - 1] + w[n]
  BY <1>4
<1> DEFINE S == {n \in 0..N : F[n] \in Nat}
<1>6. 0 \in S
  BY <1>5
<1>7. \A n \in 0..N : n \in S /\ n < N => n + 1 \in S
  BY <1>5
<1>8. \A n \in 0..N : n \in S
  <2> HIDE DEF S
  <2> QED
    BY <1>6, <1>7, IntervalInduction
<1>9. F \in [0..N -> Nat]
  BY <1>4, <1>8
<1> QED
  BY <1>5, <1>9 DEF IsSum, F

LEMMA SumGrows ==
  ASSUME NEW N \in Nat, NEW w, \A i \in 1..N : w[i] \in Nat,
         NEW f, IsSum(f, N, w)
  PROVE  \A n \in 0..N : \A m \in 0..n : f[m] <= f[n]
<1> DEFINE S == {n \in 0..N : \A m \in 0..n : f[m] <= f[n]}
<1>1. f \in [0..N -> Nat] /\ f[0] = 0 /\ \A n \in 1..N : f[n] = f[n - 1] + w[n]
  BY DEF IsSum
<1>2. 0 \in S
  BY <1>1
<1>3. ASSUME NEW n \in 0..N, n \in S, n < N PROVE n + 1 \in S
  <2>1. f[n + 1] = f[n] + w[n + 1] /\ w[n + 1] \in Nat /\ f[n] \in Nat
    BY <1>1, <1>3
  <2>2. ASSUME NEW m \in 0..n + 1 PROVE f[m] <= f[n + 1]
    <3>1. CASE m <= n
      <4>1. f[m] <= f[n] /\ f[m] \in Nat
        BY <1>1, <1>3, <3>1
      <4> QED
        BY <2>1, <4>1
    <3>2. CASE m = n + 1
      BY <2>1, <3>2
    <3> QED
      BY <3>1, <3>2
  <2> QED
    BY <1>3, <2>2
<1>4. \A n \in 0..N : n \in S
  <2> HIDE DEF S
  <2> QED
    BY <1>2, <1>3, IntervalInduction
<1> QED
  BY <1>4

-----------------------------------------------------------------------------
(* Any order of completion leaves the tables of a serial run.              *)
Claimed == SumOf(Last, Estimates)

LEMMA ClaimedSums ==
  /\ IsSum(Claimed, Last, Estimates)
  /\ \A n \in 0..Last : \A m \in 0..n : Claimed[m] <= Claimed[n]
<1>1. IsSum(Claimed, Last, Estimates)
  BY ConstantTypes, SumEquation DEF Claimed
<1> QED
  BY <1>1, ConstantTypes, SumGrows

Sized ==
  /\ reserved >= 0
  /\ pc # "refused" => reserved = Claimed[next - 1] - Claimed[stored]

Stored ==
  /\ stored \in 0..Last
  /\ [trajectories |-> trajectories, origins |-> origins] = Serial[stored]

SInv ==
  /\ workers \in WorkerCounts
  /\ finished \subseteq 1..Last /\ failed \subseteq finished
  /\ Sized /\ Stored

LEMMA InitSInv == Init => SInv
<1> SUFFICES ASSUME Init PROVE SInv
  OBVIOUS
<1>1. 0 \in 0..Last /\ Claimed[0] \in Nat
  BY ConstantTypes, ClaimedSums DEF IsSum
<1>2. Sized
  BY <1>1 DEF Init, Sized
<1>3. Stored
  BY <1>1, SerialEquation DEF Init, Stored, NoTables
<1> QED
  BY <1>2, <1>3 DEF Init, SInv

(* Storing the next root is one step of the recursion.                     *)
LEMMA StoreNext ==
  ASSUME Stored, stored + 1 \in 1..Last, StoreRoot(stored + 1)
  PROVE  Stored'
<1> DEFINE d == [trajectories |-> trajectories, origins |-> origins]
           e == PutTrajectory(d, Roots[stored + 1])
<1>1. trajectories' = e.trajectories /\ origins' = e.origins /\ stored' = stored + 1
  BY DEF StoreRoot
<1>2. d = Serial[stored] /\ stored \in 0..Last
  BY DEF Stored
<1>3. e = Serial[stored + 1]
  <2>1. Serial[stored + 1] = PutTrajectory(Serial[(stored + 1) - 1], Roots[stored + 1])
    BY SerialEquation
  <2>2. (stored + 1) - 1 = stored
    BY <1>2
  <2> QED
    BY <1>2, <2>1, <2>2
<1>4. e = [trajectories |-> e.trajectories, origins |-> e.origins]
  BY DEF PutTrajectory
<1> HIDE DEF e
<1> QED
  BY <1>1, <1>3, <1>4, ConstantTypes DEF Stored

LEMMA SameTables == Stored /\ UNCHANGED tables => Stored'
BY DEF Stored, tables

(* In the window the reservations are the difference of two sums.          *)
LEMMA SInvSubmit ==
  ASSUME BInv, SInv, NEW s \in Samples, Submit(s)
  PROVE  SInv'
<1>1. /\ pc = "fill" /\ next \in 1..Last
      /\ reserved' = reserved + Estimates[next] /\ next' = next + 1
      /\ UNCHANGED <<pc, workers, finished, failed, tables>>
  BY DEF Submit, Fillable, BInv, Typed
<1>2. Stored'
  BY <1>1, SameTables DEF SInv
<1>3. Sized'
  <2>1. reserved = Claimed[next - 1] - Claimed[stored] /\ reserved >= 0
    BY <1>1 DEF SInv, Sized
  <2>2. Claimed[next] = Claimed[next - 1] + Estimates[next]
    BY <1>1, ClaimedSums DEF IsSum
  <2>3. Claimed[next - 1] \in Nat /\ Claimed[stored] \in Nat /\ Estimates[next] \in Nat
    <3>1. next - 1 \in 0..Last /\ stored \in 0..Last
      BY <1>1, ConstantTypes DEF SInv, Stored
    <3> QED
      BY <1>1, <3>1, ClaimedSums, ConstantTypes DEF IsSum
  <2>4. next' - 1 = next /\ stored' = stored /\ pc' = pc
    BY <1>1 DEF tables
  <2> QED
    BY <1>1, <2>1, <2>2, <2>3, <2>4 DEF Sized
<1> QED
  BY <1>1, <1>2, <1>3 DEF SInv

LEMMA SInvInline ==
  ASSUME BInv, SInv, NEW s \in Samples, RunInline(s)
  PROVE  SInv'
<1>1. /\ pc = "fill" /\ next \in 1..Last /\ workers = 1 /\ pending = <<>>
      /\ next' = next + 1
      /\ UNCHANGED <<workers, reserved>>
  BY DEF RunInline, Fillable, BInv, Typed, Pooled
<1>2. next = stored + 1
  <2>1. Len(pending) = 0 /\ next \in Nat /\ stored \in Nat
    BY <1>1 DEF BInv, Typed
  <2>2. next = stored + Len(pending) + 1
    BY <1>1 DEF BInv, Window
  <2> QED
    BY <2>1, <2>2
<1>3. \/ /\ StoreRoot(next) /\ finished' = finished \cup {next}
         /\ UNCHANGED <<pc, failed>>
      \/ /\ pc' = "refused" /\ finished' = finished \cup {next}
         /\ failed' = failed \cup {next} /\ UNCHANGED tables
  BY DEF RunInline
<1>4. Stored'
  <2>1. CASE StoreRoot(next)
    BY <1>1, <1>2, <2>1, StoreNext DEF SInv
  <2>2. CASE UNCHANGED tables
    BY <2>2, SameTables DEF SInv
  <2> QED
    BY <1>3, <2>1, <2>2
<1>5. Sized'
  <2>1. stored \in 0..Last /\ next - 1 = stored /\ Claimed[stored] \in Nat
    BY <1>1, <1>2, ClaimedSums DEF SInv, Stored, IsSum
  <2>2. reserved >= 0 /\ reserved = Claimed[next - 1] - Claimed[stored]
    BY <1>1 DEF SInv, Sized
  <2>3. reserved = 0 /\ reserved' = 0
    BY <1>1, <2>1, <2>2
  <2>4. CASE StoreRoot(next)
    <3>1. stored' = next' - 1 /\ stored' \in 0..Last
      BY <1>1, <1>2, <2>1, <2>4 DEF StoreRoot
    <3>2. Claimed[stored'] \in Nat
      BY <3>1, ClaimedSums DEF IsSum
    <3> QED
      BY <2>3, <3>1, <3>2 DEF Sized
  <2>5. CASE pc' = "refused"
    BY <2>3, <2>5 DEF Sized
  <2> QED
    BY <1>3, <2>4, <2>5
<1>6. finished' \subseteq 1..Last /\ failed' \subseteq finished'
  BY <1>1, <1>3 DEF SInv
<1> QED
  BY <1>1, <1>4, <1>5, <1>6 DEF SInv

LEMMA SInvStore ==
  ASSUME BInv, SInv, StoreOldest
  PROVE  SInv'
<1> DEFINE h == stored + 1
<1>1. /\ pc = "drain" /\ pending # <<>>
      /\ reserved' = reserved - Estimates[Head(pending)]
      /\ \/ pc' = "refused" /\ UNCHANGED tables
         \/ StoreRoot(Head(pending)) /\ UNCHANGED pc
      /\ UNCHANGED <<workers, next, finished, failed>>
  BY DEF StoreOldest, OldestDone
<1>2. /\ Head(pending) = h /\ h \in 1..Last
      /\ h <= next - 1 /\ next - 1 \in 0..Last
  <2>1. /\ Len(pending) \in Nat /\ Len(pending) >= 1 /\ Head(pending) = pending[1]
        /\ pending[1] \in 1..Last
    <3>1. pending \in Seq(1..Last) /\ pending # <<>>
      BY <1>1 DEF BInv, Typed
    <3>2. Len(pending) \in Nat /\ Len(pending) # 0
      BY <3>1
    <3>3. 1 \in 1..Len(pending)
      BY <3>2
    <3>4. pending[1] \in 1..Last
      BY <3>1, <3>3, ConstantTypes
    <3>5. Head(pending) = pending[1]
      BY <3>1
    <3> QED
      BY <3>2, <3>4, <3>5
  <2>2. next = stored + Len(pending) + 1 /\ pending[1] = stored + 1
    BY <1>1, <2>1 DEF BInv, Window
  <2>3. next \in 1..Last + 1 /\ stored \in Nat
    BY DEF BInv, Typed
  <2> QED
    BY <2>1, <2>2, <2>3, ConstantTypes
<1> HIDE DEF h
<1>3. Claimed[h] <= Claimed[next - 1]
  BY <1>2, ClaimedSums
<1>4. /\ Claimed[h] = Claimed[stored] + Estimates[h]
      /\ Claimed[h] \in Nat /\ Claimed[next - 1] \in Nat
      /\ Claimed[stored] \in Nat /\ Estimates[h] \in Nat
  <2>1. h - 1 = stored /\ stored \in 0..Last /\ h \in 0..Last
    BY <1>2 DEF h, SInv, Stored
  <2>2. Claimed \in [0..Last -> Nat]
    BY ClaimedSums DEF IsSum
  <2>3. Claimed[h] = Claimed[h - 1] + Estimates[h]
    BY <1>2, ClaimedSums DEF IsSum
  <2> QED
    BY <1>2, <2>1, <2>2, <2>3, ConstantTypes
<1>5. reserved = Claimed[next - 1] - Claimed[stored]
  BY <1>1 DEF SInv, Sized
<1>6. reserved' = Claimed[next - 1] - Claimed[h] /\ reserved' >= 0
  BY <1>1, <1>2, <1>3, <1>4, <1>5
<1>7. CASE pc' = "refused" /\ UNCHANGED tables
  <2>1. Stored'
    BY <1>7, SameTables DEF SInv
  <2>2. Sized'
    BY <1>6, <1>7 DEF Sized
  <2> QED
    BY <1>1, <2>1, <2>2 DEF SInv
<1>8. CASE StoreRoot(Head(pending)) /\ UNCHANGED pc
  <2>1. Stored'
    BY <1>2, <1>8, StoreNext DEF SInv, h
  <2>2. stored' = h
    BY <1>8 DEF StoreRoot, h
  <2>3. Sized'
    BY <1>1, <1>6, <2>2 DEF Sized
  <2> QED
    BY <1>1, <2>1, <2>3 DEF SInv
<1> QED
  BY <1>1, <1>7, <1>8

LEMMA SInvOther ==
  ASSUME BInv, SInv,
         \/ \E s \in Samples : RefuseMemory(s)
         \/ RefuseUnknownSize \/ StopFilling \/ Wait \/ StopDraining
         \/ EndScope \/ UNCHANGED vars \/ \E i \in 1..Last : Finish(i)
  PROVE  SInv'
<1>1. /\ UNCHANGED <<workers, next, reserved, tables>>
      /\ pc' # "refused" => pc # "refused"
  BY DEF RefuseMemory, RefuseUnknownSize, StopFilling, Wait, StopDraining, EndScope,
         vars, Finish
<1>2. finished' \subseteq 1..Last /\ failed' \subseteq finished'
  <2>1. CASE \E i \in 1..Last : Finish(i)
    BY <2>1 DEF Finish, SInv
  <2>2. CASE UNCHANGED <<finished, failed>>
    BY <2>2 DEF SInv
  <2> QED
    BY <2>1, <2>2 DEF RefuseMemory, RefuseUnknownSize, StopFilling, Wait, StopDraining,
                      EndScope, vars
<1>3. Stored'
  BY <1>1, SameTables DEF SInv
<1>4. Sized'
  BY <1>1 DEF SInv, Sized, tables
<1> QED
  BY <1>1, <1>2, <1>3, <1>4 DEF SInv

THEOREM StoredInOrder == Spec => [](BInv /\ SInv)
<1>1. BInv /\ SInv /\ [Next]_vars => SInv'
  BY SInvSubmit, SInvInline, SInvStore, SInvOther DEF Next, Coordinate
<1> QED
  BY InitSInv, <1>1, Scheduling, PTL DEF Spec

(* Whatever order the roots finish in, the tables are those of a serial    *)
(* run after every root; with the types of the scheduler's state.          *)
THEOREM Serializable == Spec => []SameAsSerial
<1>1. BInv /\ SInv => SameAsSerial
  <2> SUFFICES ASSUME BInv, SInv PROVE SameAsSerial
    OBVIOUS
  <2>1. reserved \in Nat
    BY DEF BInv, Typed, SInv, Sized
  <2>2. \A t \in DOMAIN trajectories : trajectories[t] \in (0..2) \X Nat
    <3>1. [trajectories |-> trajectories, origins |-> origins] \in Tables
      BY SerialEquation DEF SInv, Stored
    <3>2. trajectories \in Payloads
      BY <3>1 DEF Tables
    <3> QED
      BY <3>2 DEF Payloads
  <2>3. TypeOK
    BY <2>1, <2>2 DEF TypeOK, BInv, Typed, SInv, Stored
  <2> QED
    BY <2>3 DEF SameAsSerial, SInv, Stored
<1> QED
  BY <1>1, StoredInOrder, PTL

-----------------------------------------------------------------------------
(* The whole run: what the finished tables contain                         *)

LEMMA RunsAScheduler == ReleaseSpec => Spec
<1>1. ReleaseInit => Init
  BY DEF ReleaseInit
<1>2. [ReleaseNext]_<<vars, releaseVars>> => [Next]_vars
  BY DEF ReleaseNext, BuildStep, WorkerStep, MainStep, FileStep, Next
<1> QED
  BY <1>1, <1>2, PTL DEF ReleaseSpec, Spec

(* What holds of the scheduler holds of it inside a run.                   *)
THEOREM SchedulerInRun ==
  ReleaseSpec => [](SameAsSerial /\ FailClosed /\ BudgetRespected)
BY RunsAScheduler, Serializable, ScopeComplete, Budget, PTL

LEMMA InputTypes ==
  /\ IsFiniteSet(DOMAIN Inputs)
  /\ \A i \in 1..Last : Roots[i] \in Root
  /\ \A i \in 1..Last : \A s \in Roots[i].sources :
       s \in DOMAIN Inputs /\ Inputs[s] = "eligible"
  /\ \A s \in DOMAIN Inputs : Inputs[s] = "eligible" =>
       \E i \in 1..Last : s \in Roots[i].sources
<1>1. \A i \in 1..Last : Roots[i] \in Root
  <2>1. Roots \in Seq(Root)
    BY SchedulerAssumption DEF Root
  <2> QED
    BY <2>1 DEF Last
<1>2. {s \in DOMAIN Inputs : Inputs[s] = "eligible"} = UNION {Roots[i].sources : i \in 1..Last}
  BY ReleaseAssumption
<1> QED
  BY <1>1, <1>2, ReleaseAssumption

(* A row for every root stored so far, an origin row for each of their     *)
(* sources and no other.                                                   *)
Contains(d, n) ==
  /\ DOMAIN d.trajectories = {Roots[i].id : i \in 1..n}
  /\ \A t, s : (\E o \in d.origins : o.id = t /\ o.source = s)
              <=> \E i \in 1..n : Roots[i].id = t /\ s \in Roots[i].sources
  /\ \A t \in DOMAIN d.trajectories : \E i \in 1..n : d.trajectories[t][2] = Roots[i].key

LEMMA PutContains ==
  ASSUME NEW d, NEW n \in Nat, Contains(d, n)
  PROVE  Contains(PutTrajectory(d, Roots[n + 1]), n + 1)
<1> DEFINE r == Roots[n + 1]
           e == PutTrajectory(d, r)
           fresh == {u \in r.sources : \A o \in d.origins : ~(o.id = r.id /\ o.source = u)}
           links == {[id |-> r.id, source |-> s, rank |-> r.rank] : s \in fresh}
<1>1. \A i : i \in 1..n + 1 <=> i \in 1..n \/ i = n + 1
  OBVIOUS
<1>2. DOMAIN e.trajectories = DOMAIN d.trajectories \cup {r.id}
  BY DEF PutTrajectory
<1>3. DOMAIN e.trajectories = {Roots[i].id : i \in 1..n + 1}
  BY <1>1, <1>2 DEF Contains
<1>4. e.origins = d.origins \cup links
  BY DEF PutTrajectory
<1> DEFINE Linked(x, t, s) == \E o \in x.origins : o.id = t /\ o.source = s
<1>5. ASSUME NEW t, NEW s
      PROVE  Linked(e, t, s) <=> Linked(d, t, s) \/ (t = r.id /\ s \in r.sources)
  <2>1. (\E o \in links : o.id = t /\ o.source = s) <=> t = r.id /\ s \in fresh
    <3> HIDE DEF fresh, r
    <3>1. ASSUME t = r.id, s \in fresh PROVE \E o \in links : o.id = t /\ o.source = s
      <4>1. [id |-> r.id, source |-> s, rank |-> r.rank] \in links
        BY <3>1
      <4> QED
        BY <3>1, <4>1
    <3>2. ASSUME NEW o \in links, o.id = t, o.source = s PROVE t = r.id /\ s \in fresh
      BY <3>2
    <3> QED
      BY <3>1, <3>2
  <2>2. Linked(e, t, s) <=> Linked(d, t, s) \/ (t = r.id /\ s \in fresh)
    <3> HIDE DEF links, fresh
    <3> QED
      BY <1>4, <2>1
  <2>3. s \in r.sources => s \in fresh \/ Linked(d, r.id, s)
    OBVIOUS
  <2>4. s \in fresh => s \in r.sources
    OBVIOUS
  <2> QED
    BY <2>2, <2>3, <2>4
<1>6. ASSUME NEW t, NEW s
      PROVE  Linked(e, t, s) <=> \E i \in 1..n + 1 : Roots[i].id = t /\ s \in Roots[i].sources
  <2>1. Linked(d, t, s) <=> \E i \in 1..n : Roots[i].id = t /\ s \in Roots[i].sources
    BY DEF Contains
  <2> HIDE DEF Linked
  <2> QED
    BY <1>1, <1>5, <2>1
<1>7. ASSUME NEW t \in DOMAIN e.trajectories
      PROVE  \E i \in 1..n + 1 : e.trajectories[t][2] = Roots[i].key
  <2>1. \/ e.trajectories[t] = <<r.rank, r.key>>
        \/ t \in DOMAIN d.trajectories /\ e.trajectories[t] = d.trajectories[t]
    BY <1>7 DEF PutTrajectory
  <2>2. e.trajectories[t] = <<r.rank, r.key>> => e.trajectories[t][2] = r.key
    OBVIOUS
  <2> HIDE DEF e
  <2> QED
    BY <1>1, <2>1, <2>2 DEF Contains
<1> HIDE DEF e
<1> QED
  BY <1>3, <1>6, <1>7 DEF Contains, e

LEMMA SerialContains == \A n \in 0..Last : Contains(Serial[n], n)
<1> DEFINE S == {n \in 0..Last : Contains(Serial[n], n)}
<1>1. 0 \in S
  <2>1. Contains(NoTables, 0)
    BY DEF Contains, NoTables
  <2> QED
    BY <2>1, SerialEquation, ConstantTypes
<1>2. ASSUME NEW n \in 0..Last, n \in S, n < Last PROVE n + 1 \in S
  <2>1. n + 1 \in 1..Last /\ (n + 1) - 1 = n /\ n \in Nat
    BY <1>2, ConstantTypes
  <2>2. Serial[n + 1] = PutTrajectory(Serial[n], Roots[n + 1])
    BY <2>1, SerialEquation
  <2> QED
    BY <1>2, <2>1, <2>2, PutContains
<1>3. \A n \in 0..Last : n \in S
  <2> HIDE DEF S
  <2> QED
    BY <1>1, <1>2, ConstantTypes, IntervalInduction
<1> QED
  BY <1>3

RootIds == {Roots[i].id : i \in 1..Last}

Ready ==
  /\ DOMAIN trajectories = RootIds
  /\ \A t, s : s \in Origins(t) <=> \E i \in 1..Last : Roots[i].id = t /\ s \in Roots[i].sources
  /\ \A t \in RootIds : \E i \in 1..Last : trajectories[t][2] = Roots[i].key

LEMMA DoneReady ==
  ASSUME BInv, SInv, pc = "done"
  PROVE  Ready
<1>1. stored = Last
  <2>1. next = Last + 1 /\ Len(pending) = 0
    BY ConstantTypes DEF BInv, Typed, Exhausted
  <2> QED
    BY <2>1, ConstantTypes DEF BInv, Typed, Window
<1>2. Contains([trajectories |-> trajectories, origins |-> origins], Last)
  BY <1>1, SerialContains, ConstantTypes DEF SInv, Stored
<1>3. ASSUME NEW t, NEW s
      PROVE  s \in Origins(t) <=> \E o \in origins : o.id = t /\ o.source = s
  BY DEF Origins
<1> QED
  BY <1>2, <1>3 DEF Contains, Ready, RootIds

-----------------------------------------------------------------------------
(* Numbering: no row is discarded without a source being counted skipped.  *)
(* The leaf of a root is what makes it so: no other root covers it.        *)
Leaf(i, s) == s \in Roots[i].sources /\ \A k \in (1..Last) \ {i} : s \notin Roots[k].sources

Released == {"export", "publish", "audit", "leaving", "aborted", "accepted", "rejected", "failed"}

NInv ==
  /\ phase \in {"build", "number", "rewrite", "refused"} \cup Released
  /\ phase # "build" => pc = "done"
  /\ discarded \subseteq RootIds
  /\ DOMAIN status = DOMAIN Inputs
  /\ skipped \in Nat
  /\ discarded # {} => skipped > 0
  /\ discarded = {} => status = Inputs
  /\ phase = "build" => discarded = {}
  /\ phase \in Released => discarded = {}
  /\ \A i \in 1..Last : Roots[i].id \notin discarded =>
       \E s \in Roots[i].sources : Leaf(i, s) /\ status[s] = "eligible"

Counted ==
  /\ discarded \subseteq RootIds /\ discarded # {}
  /\ DOMAIN status = DOMAIN Inputs
  /\ skipped \in Nat /\ skipped > 0
  /\ \A i \in 1..Last : Roots[i].id \notin discarded =>
       \E s \in Roots[i].sources : Leaf(i, s) /\ status[s] = "eligible"

LEMMA DiscardStep ==
  ASSUME NInv, Ready, NEW bad \in SUBSET Rows, bad # {}, Discard(bad)
  PROVE  Counted'
<1> DEFINE kept == UNION {Origins(t) : t \in Rows \ bad}
           lost == {s \in (UNION {Origins(t) : t \in bad}) \ kept : status[s] = "eligible"}
<1>1. /\ discarded' = discarded \cup bad
      /\ status' = [s \in DOMAIN status |-> IF s \in lost THEN "skipped" ELSE status[s]]
      /\ skipped' = skipped + Cardinality(lost)
  BY DEF Discard
<1>10. \A s : s \in lost <=> /\ \E t \in bad : s \in Origins(t)
                             /\ \A t \in Rows \ bad : s \notin Origins(t)
                             /\ status[s] = "eligible"
  OBVIOUS
<1>2. Rows = RootIds \ discarded
  BY DEF Ready, Rows
<1>3. \A t \in RootIds : Origins(t) \subseteq DOMAIN Inputs
  BY InputTypes DEF Ready
<1>4. lost \subseteq DOMAIN Inputs
  BY <1>2, <1>3
<1>5. IsFiniteSet(lost)
  <2> HIDE DEF lost
  <2> QED
    BY <1>4, InputTypes, FS_Subset
<1>6. lost # {}
  <2>1. PICK i \in 1..Last : Roots[i].id \in bad
    BY <1>2 DEF RootIds
  <2>2. Roots[i].id \notin discarded
    BY <1>2, <2>1
  <2>3. PICK s \in Roots[i].sources : Leaf(i, s) /\ status[s] = "eligible"
    BY <2>2 DEF NInv
  <2>4. s \in Origins(Roots[i].id)
    BY DEF Ready
  <2>5. ASSUME NEW t \in Rows \ bad PROVE s \notin Origins(t)
    BY <2>1, <2>3, <2>5 DEF Ready, Leaf
  <2> HIDE DEF lost
  <2> QED
    BY <1>10, <2>1, <2>3, <2>4, <2>5
<1>7. Cardinality(lost) \in Nat /\ Cardinality(lost) > 0
  <2> HIDE DEF lost
  <2>1. Cardinality(lost) \in Nat
    BY <1>5, FS_CardinalityType
  <2>2. Cardinality(lost) # 0
    BY <1>5, <1>6, FS_EmptySet
  <2> QED
    BY <2>1, <2>2
<1>8. ASSUME NEW i \in 1..Last, Roots[i].id \notin discarded'
      PROVE  \E s \in Roots[i].sources : Leaf(i, s) /\ status'[s] = "eligible"
  <2>1. Roots[i].id \in Rows \ bad
    BY <1>1, <1>2, <1>8 DEF RootIds
  <2>2. PICK s \in Roots[i].sources : Leaf(i, s) /\ status[s] = "eligible"
    BY <1>1, <1>8 DEF NInv
  <2>3. s \in Origins(Roots[i].id)
    BY DEF Ready
  <2>4. s \notin lost /\ s \in DOMAIN status
    <3>1. s \notin lost
      <4> HIDE DEF lost
      <4> QED
        BY <1>10, <2>1, <2>3
    <3>2. s \in DOMAIN status
      BY InputTypes DEF NInv
    <3> QED
      BY <3>1, <3>2
  <2> HIDE DEF lost
  <2>5. status'[s] = "eligible"
    BY <1>1, <2>2, <2>4
  <2> QED
    BY <2>2, <2>5
<1> HIDE DEF lost
<1> QED
  BY <1>1, <1>2, <1>7, <1>8 DEF NInv, Counted, RootIds, Leaf

LEMMA InitNInv == ReleaseInit => NInv
<1> SUFFICES ASSUME ReleaseInit PROVE NInv
  OBVIOUS
<1>1. phase = "build" /\ discarded = {} /\ status = Inputs /\ skipped = 0
  BY DEF ReleaseInit
<1>2. ASSUME NEW i \in 1..Last
      PROVE  \E s \in Roots[i].sources : Leaf(i, s) /\ Inputs[s] = "eligible"
  BY ReleaseAssumption, InputTypes DEF Leaf
<1> QED
  BY <1>1, <1>2 DEF NInv

LEMMA NInvStep ==
  ASSUME BInv, SInv, NInv, [ReleaseNext]_<<vars, releaseVars>>
  PROVE  NInv'
<1> USE DEF Released
<1>1. CASE UNCHANGED <<vars, releaseVars>>
  BY <1>1 DEF vars, releaseVars, numbering, NInv, Leaf, RootIds
<1>2. CASE BuildStep \/ \E i \in 1..Last : WorkerStep(i)
  <2>1. phase = "build"
    <3>1. pc # "done"
      BY <1>2 DEF BuildStep, WorkerStep, Coordinate, Submit, RunInline, RefuseMemory,
                  Fillable, RefuseUnknownSize, StopFilling, Wait, StoreOldest,
                  StopDraining, EndScope, Finish
    <3> QED
      BY <3>1 DEF NInv
  <2> QED
    BY <1>2, <2>1 DEF BuildStep, WorkerStep, releaseVars, numbering, NInv, Leaf, RootIds
<1>3. CASE \E i \in Positions : FileStep(i)
  BY <1>3 DEF FileStep, EndFile, vars, numbering, NInv, Leaf, RootIds
<1>4. ASSUME NEW bad \in SUBSET Rows, ReadRows(bad), UNCHANGED vars PROVE NInv'
  <2>1. pc = "done" /\ pc' = pc
    BY <1>4 DEF ReadRows, NInv, vars
  <2>2. Ready
    BY <2>1, DoneReady
  <2>3. CASE bad = {}
    BY <1>4, <2>1, <2>3 DEF ReadRows, NInv
  <2>4. CASE bad # {}
    <3>1. Discard(bad) /\ phase' = "number"
      BY <1>4, <2>4 DEF ReadRows
    <3>2. Counted'
      BY <2>2, <2>4, <3>1, DiscardStep
    <3> QED
      BY <2>1, <3>1, <3>2 DEF NInv, Counted
  <2> QED
    BY <2>3, <2>4
<1>5. ASSUME NEW bad \in SUBSET Rows, RewriteRows(bad), UNCHANGED vars PROVE NInv'
  <2>1. pc = "done" /\ pc' = pc
    BY <1>5 DEF RewriteRows, NInv, vars
  <2>2. Ready
    BY <2>1, DoneReady
  <2>3. CASE bad = {}
    BY <1>5, <2>1, <2>3 DEF RewriteRows, NInv
  <2>4. CASE bad # {}
    <3>1. Discard(bad) /\ phase' = "number"
      BY <1>5, <2>4 DEF RewriteRows
    <3>2. Counted'
      BY <2>2, <2>4, <3>1, DiscardStep
    <3> QED
      BY <2>1, <3>1, <3>2 DEF NInv, Counted
  <2> QED
    BY <2>3, <2>4
<1>6. CASE /\ \/ \E limit \in ShardLimits, bad \in BOOLEAN : Export(limit, bad)
              \/ Publish \/ ScanNext \/ OpenFile \/ MergeOldest \/ TimeOut \/ AskAgain
              \/ Leave \/ Conclude
           /\ UNCHANGED vars
  <2>1. /\ UNCHANGED <<discarded, status, skipped>>
        /\ phase \in Released /\ phase' \in Released
    BY <1>6 DEF Export, Publish, ScanNext, OpenFile, MergeOldest, TimeOut, AskAgain,
                Leave, Conclude, numbering, Waiting
  <2>2. pc' = pc
    BY <1>6 DEF vars
  <2> QED
    BY <2>1, <2>2 DEF NInv, Leaf, RootIds
<1> QED
  BY <1>1, <1>2, <1>3, <1>4, <1>5, <1>6 DEF ReleaseNext, MainStep, ReleaseStep

THEOREM Numbered == ReleaseSpec => [](BInv /\ SInv /\ NInv)
<1>1. ReleaseSpec => [](BInv /\ SInv)
  BY RunsAScheduler, StoredInOrder, PTL
<1> QED
  BY <1>1, InitNInv, NInvStep, PTL DEF ReleaseSpec

-----------------------------------------------------------------------------
(* The files of the manifest: one for each row, and the lineage.           *)
LEMMA RowFacts ==
  ASSUME Ready, discarded = {}
  PROVE  /\ Rows = RootIds /\ Rows = {Ids[n] : n \in 1..Len(Ids)}
         /\ IsFiniteSet(Rows) /\ Cardinality(Rows) = Len(Ids) /\ Len(Ids) \in Nat
<1>1. Rows = RootIds /\ Rows = {Ids[n] : n \in 1..Len(Ids)}
  BY ReleaseAssumption DEF Ready, Rows, RootIds
<1>2. Len(Ids) \in Nat
  BY ReleaseAssumption
<1> DEFINE f == [n \in 1..Len(Ids) |-> Ids[n]]
<1>3. f \in Bijection(1..Len(Ids), Rows)
  <2>1. f \in [1..Len(Ids) -> Rows]
    BY <1>1
  <2>2. \A m, n \in 1..Len(Ids) : f[m] = f[n] => m = n
    BY ReleaseAssumption
  <2>3. \A t \in Rows : \E n \in 1..Len(Ids) : f[n] = t
    BY <1>1
  <2> HIDE DEF f
  <2> QED
    BY <2>1, <2>2, <2>3 DEF Bijection, Injection, Surjection, IsInjective
<1>4. IsFiniteSet(1..Len(Ids)) /\ Cardinality(1..Len(Ids)) = Len(Ids)
  BY <1>2, FS_Interval
<1>5. ExistsBijection(1..Len(Ids), Rows)
  BY <1>3 DEF ExistsBijection
<1> QED
  BY <1>1, <1>2, <1>4, <1>5, FS_Bijection

LEMMA RankOf ==
  /\ \A n \in 1..Len(Ids) : Rank(Ids[n]) = n
  /\ \A t \in RootIds : Rank(t) \in 1..Len(Ids) /\ Ids[Rank(t)] = t
<1>1. \A t : (\E n \in 1..Len(Ids) : Ids[n] = t) => Rank(t) \in 1..Len(Ids) /\ Ids[Rank(t)] = t
  BY DEF Rank
<1>2. \A m, n \in 1..Len(Ids) : Ids[m] = Ids[n] => m = n
  BY ReleaseAssumption
<1>3. RootIds = {Ids[n] : n \in 1..Len(Ids)}
  BY ReleaseAssumption DEF RootIds
<1> QED
  BY <1>1, <1>2, <1>3

LEMMA ListingFacts ==
  ASSUME Ready, discarded = {}
  PROVE  /\ Listing(Rows) \in [1..Len(Ids) -> Rows]
         /\ \A m, n \in 1..Len(Ids) : Listing(Rows)[m] = Listing(Rows)[n] => m = n
         /\ \A t \in Rows : \E n \in 1..Len(Ids) : Listing(Rows)[n] = t
<1> DEFINE N == Len(Ids)
           Ordered(ids) == \A m, n \in DOMAIN ids : m < n => Rank(ids[m]) < Rank(ids[n])
<1>1. /\ Rows = RootIds /\ Rows = {Ids[n] : n \in 1..N}
      /\ IsFiniteSet(Rows) /\ Cardinality(Rows) = N /\ N \in Nat
  BY RowFacts
<1>2. Listing(Rows) = CHOOSE ids \in [1..N -> Rows] : Ordered(ids)
  BY <1>1 DEF Listing
<1> DEFINE f == [n \in 1..N |-> Ids[n]]
<1>3. f \in [1..N -> Rows] /\ Ordered(f)
  BY <1>1, RankOf
<1>4. Listing(Rows) \in [1..N -> Rows] /\ Ordered(Listing(Rows))
  <2> HIDE DEF f, Ordered
  <2> QED
    BY <1>2, <1>3
<1>5. \A m, n \in 1..N : m < n => Rank(Listing(Rows)[m]) < Rank(Listing(Rows)[n])
  BY <1>4
<1>6. ASSUME NEW n \in 1..N PROVE Rank(Listing(Rows)[n]) \in Nat
  <2>1. Listing(Rows)[n] \in RootIds
    BY <1>1, <1>4
  <2>2. Rank(Listing(Rows)[n]) \in 1..Len(Ids)
    BY <2>1, RankOf
  <2> QED
    BY <2>2
<1>7. ASSUME NEW m \in 1..N, NEW n \in 1..N, Listing(Rows)[m] = Listing(Rows)[n] PROVE m = n
  <2>1. m < n \/ n < m \/ m = n
    OBVIOUS
  <2> QED
    BY <1>5, <1>6, <1>7, <2>1
<1>8. Listing(Rows) \in Injection(1..N, Rows)
  BY <1>4, <1>7 DEF Injection, IsInjective
<1>9. IsFiniteSet(1..N) /\ Cardinality(1..N) = N
  <2>1. N \in Nat
    BY <1>1
  <2> HIDE DEF N
  <2> QED
    BY <2>1, FS_Interval
<1>10. Listing(Rows) \in Surjection(1..N, Rows)
  BY <1>1, <1>8, <1>9, FS_Injection
<1> QED
  BY <1>4, <1>7, <1>10 DEF Surjection

LEMMA FilesFacts ==
  ASSUME Ready, discarded = {}
  PROVE  /\ Len(Files) = Len(Ids) + 1
         /\ DOMAIN Files = 1..Len(Ids) + 1
         /\ \A n \in 1..Len(Ids) : Files[n] = [kind |-> "trajectory", id |-> Listing(Rows)[n],
                                               bytes |-> Bytes[Listing(Rows)[n]]]
         /\ Files[Len(Ids) + 1] = [kind |-> "lineage", id |-> "lineage",
                                   bytes |-> Cardinality(Links(Rows))]
<1> DEFINE N == Len(Ids)
           f == [n \in 1..N |-> [kind |-> "trajectory", id |-> Listing(Rows)[n],
                                 bytes |-> Bytes[Listing(Rows)[n]]]]
           last == [kind |-> "lineage", id |-> "lineage", bytes |-> Cardinality(Links(Rows))]
           All == {f[n] : n \in 1..N} \cup {last}
<1>1. N \in Nat /\ DOMAIN Listing(Rows) = 1..N
  BY ListingFacts, RowFacts
<1>2. Files = Append(f, last)
  BY <1>1 DEF Files
<1>3. f \in Seq(All) /\ Len(f) = N
  <2>1. \A n \in 1..N : f[n] \in All
    OBVIOUS
  <2>2. f = [n \in 1..N |-> f[n]]
    OBVIOUS
  <2> HIDE DEF All
  <2> QED
    BY <1>1, <2>1, <2>2
<1>4. \A n \in 1..N : f[n] = [kind |-> "trajectory", id |-> Listing(Rows)[n], bytes |-> Bytes[Listing(Rows)[n]]]
  OBVIOUS
<1>5. last \in All
  OBVIOUS
<1> HIDE DEF f, All, last
<1>6. /\ Len(Append(f, last)) = N + 1
      /\ DOMAIN Append(f, last) = 1..N + 1
      /\ \A n \in 1..N : Append(f, last)[n] = f[n]
      /\ Append(f, last)[N + 1] = last
  BY <1>1, <1>3, <1>5
<1> QED
  BY <1>2, <1>4, <1>6 DEF last

LEMMA LinksFinite ==
  ASSUME Ready, discarded = {}, NEW rows \in SUBSET Rows
  PROVE  /\ Cardinality(Links(rows)) \in Nat /\ Cardinality(rows) \in Nat
         /\ Cardinality(Rows \ rows) \in Nat
         /\ IsFiniteSet(rows)
<1>1. IsFiniteSet(Rows) /\ Rows = RootIds
  BY RowFacts
<1>2. IsFiniteSet(rows) /\ IsFiniteSet(Rows \ rows)
  BY <1>1, FS_Subset, FS_Difference
<1>3. IsFiniteSet(Rows \X DOMAIN Inputs)
  BY <1>1, InputTypes, FS_Product
<1>4. ASSUME NEW o \in origins, o.id \in rows
      PROVE  <<o.id, o.source>> \in Rows \X DOMAIN Inputs
  <2>1. o.source \in Origins(o.id)
    BY DEF Origins
  <2>2. o.source \in DOMAIN Inputs
    BY <2>1, InputTypes DEF Ready
  <2> QED
    BY <1>4, <2>2
<1>5. Links(rows) \subseteq Rows \X DOMAIN Inputs
  BY <1>4 DEF Links
<1>6. IsFiniteSet(Links(rows))
  BY <1>3, <1>5, FS_Subset
<1> QED
  BY <1>2, <1>6, FS_CardinalityType

-----------------------------------------------------------------------------
(* The accumulator of the validation                                       *)
Known == RootIds \cup {Foreign}
Multisets == UNION {[S -> Nat] : S \in SUBSET Known}

Acc == [ ids : Multisets, lineageIds : Multisets,
         covered : SUBSET (DOMAIN Inputs \cup {"foreign"}),
         accepted : Nat, quarantined : Nat, lineageRows : Nat, duplicates : Int,
         reasons : Nat, trajectoriesValid : BOOLEAN, lineageValid : BOOLEAN, errors : Nat ]

Audited ==
  /\ Ready /\ discarded = {} /\ status = Inputs
  /\ manifest = Candidate
  /\ objects \in [1..Len(Ids) + 1 -> Damages \cup {"whole"}]
  /\ setting \in [workers : Nat \ {0}, limit : Nat \cup {Unknown}]

LEMMA SingleTyped == \A S \in SUBSET Known : SetToBag(S) \in Multisets
<1> SUFFICES ASSUME NEW S \in SUBSET Known PROVE SetToBag(S) \in Multisets
  OBVIOUS
<1>1. SetToBag(S) \in [S -> Nat]
  BY DEF SetToBag
<1> QED
  BY <1>1 DEF Multisets

LEMMA UnionTyped ==
  ASSUME NEW a \in Multisets, NEW b \in Multisets
  PROVE  a (+) b \in Multisets
<1>1. PICK A \in SUBSET Known : a \in [A -> Nat]
  BY DEF Multisets
<1>2. PICK B \in SUBSET Known : b \in [B -> Nat]
  BY DEF Multisets
<1>3. a (+) b \in [A \cup B -> Nat]
  BY <1>1, <1>2 DEF (+)
<1>4. A \cup B \in SUBSET Known
  OBVIOUS
<1> QED
  BY <1>3, <1>4 DEF Multisets

LEMMA NothingTyped == Nothing \in Acc
<1>1. EmptyBag \in Multisets
  BY SingleTyped DEF EmptyBag
<1> QED
  BY <1>1 DEF Nothing, Acc

LEMMA MergeTyped ==
  ASSUME NEW a \in Acc, NEW b \in Acc
  PROVE  Merge(a, b) \in Acc
<1>1. a.ids (+) b.ids \in Multisets /\ a.lineageIds (+) b.lineageIds \in Multisets
  BY UnionTyped DEF Acc
<1> QED
  BY <1>1 DEF Merge, Acc

LEMMA FileFacts ==
  ASSUME Audited
  PROVE  /\ Len(Ids) \in Nat
         /\ DOMAIN manifest.files = 1..Len(Ids) + 1 /\ Len(manifest.files) = Len(Ids) + 1
         /\ \A n \in 1..Len(Ids) : /\ File(n).kind = "trajectory"
                                   /\ File(n).id = Listing(Rows)[n] /\ Listing(Rows)[n] \in Rows
                                   /\ File(n).bytes \in Nat
         /\ File(Len(Ids) + 1).kind = "lineage" /\ File(Len(Ids) + 1).bytes \in Nat
<1>1. manifest.files = Files
  BY DEF Audited, Candidate
<1>2. Len(Ids) \in Nat /\ Rows = RootIds
  BY RowFacts DEF Audited
<1>3. \A n \in 1..Len(Ids) : Listing(Rows)[n] \in Rows /\ Bytes[Listing(Rows)[n]] \in Nat
  <2>1. \A t \in RootIds : Bytes[t] \in Nat
    BY ReleaseAssumption DEF RootIds
  <2>2. Listing(Rows) \in [1..Len(Ids) -> Rows]
    BY ListingFacts DEF Audited
  <2> QED
    BY <1>2, <2>1, <2>2
<1>4. Cardinality(Links(Rows)) \in Nat
  BY LinksFinite DEF Audited
<1>5. /\ Len(Files) = Len(Ids) + 1 /\ DOMAIN Files = 1..Len(Ids) + 1
      /\ \A n \in 1..Len(Ids) : Files[n] = [kind |-> "trajectory", id |-> Listing(Rows)[n],
                                            bytes |-> Bytes[Listing(Rows)[n]]]
      /\ Files[Len(Ids) + 1] = [kind |-> "lineage", id |-> "lineage",
                                bytes |-> Cardinality(Links(Rows))]
  BY FilesFacts DEF Audited
<1>6. \A n : File(n) = Files[n]
  BY <1>1 DEF File
<1>7. ASSUME NEW n \in 1..Len(Ids)
      PROVE  /\ File(n).kind = "trajectory" /\ File(n).id = Listing(Rows)[n]
             /\ Listing(Rows)[n] \in Rows /\ File(n).bytes \in Nat
  <2>1. File(n) = [kind |-> "trajectory", id |-> Listing(Rows)[n], bytes |-> Bytes[Listing(Rows)[n]]]
    BY <1>5, <1>6
  <2>2. Listing(Rows)[n] \in Rows /\ Bytes[Listing(Rows)[n]] \in Nat
    BY <1>3
  <2> QED
    BY <2>1, <2>2
<1>8. File(Len(Ids) + 1).kind = "lineage" /\ File(Len(Ids) + 1).bytes \in Nat
  BY <1>4, <1>5, <1>6
<1>9. DOMAIN manifest.files = 1..Len(Ids) + 1 /\ Len(manifest.files) = Len(Ids) + 1
  BY <1>1, <1>5
<1> QED
  BY <1>2, <1>7, <1>8, <1>9

LEMMA ScanTyped ==
  ASSUME Audited, NEW i \in 1..Len(Ids) + 1
  PROVE  Scan(i) \in Acc
<1>1. objects[i] \in {"missing", "foreign", "broken", "whole"}
  BY DEF Audited, Damages
<1>2. SetToBag({Foreign}) \in Multisets
  BY SingleTyped DEF Known
<1>3. Rows = RootIds /\ Len(Ids) \in Nat
  BY RowFacts DEF Audited
<1>4. CASE i \in 1..Len(Ids)
  <2>1. File(i).kind = "trajectory" /\ File(i).id \in Rows
    BY <1>4, FileFacts
  <2>2. SetToBag({File(i).id}) \in Multisets
    BY <1>3, <2>1, SingleTyped DEF Known
  <2>3. ScanTrajectory(i) \in Acc
    BY <1>1, <1>2, <2>2, NothingTyped DEF ScanTrajectory, Nothing, Acc
  <2> QED
    BY <2>1, <2>3 DEF Scan
<1>5. CASE i = Len(Ids) + 1
  <2> DEFINE read == {t \in Rows : Legible(t)}
  <2>1. read \in SUBSET Rows
    OBVIOUS
  <2>2. /\ Cardinality(Links(read)) \in Nat /\ Cardinality(read) \in Nat
        /\ Cardinality(Rows \ read) \in Nat
    BY <2>1, LinksFinite DEF Audited
  <2>3. Cardinality(Rows) \in Nat
    BY RowFacts DEF Audited
  <2>4. UNION {Origins(t) : t \in read} \subseteq DOMAIN Inputs
    BY <1>3, InputTypes DEF Audited, Ready
  <2>5. SetToBag(read) \in Multisets
    BY <1>3, <2>1, SingleTyped DEF Known
  <2>6. Duplicates(read) \in Int
    BY <2>2 DEF Duplicates
  <2> HIDE DEF read
  <2>7. ScanLineage(i) \in Acc
    BY <1>1, <1>2, <2>2, <2>3, <2>4, <2>5, <2>6, NothingTyped
    DEF ScanLineage, Nothing, Acc, read
  <2>8. File(i).kind = "lineage"
    BY <1>5, FileFacts
  <2> QED
    BY <2>7, <2>8 DEF Scan
<1> QED
  BY <1>3, <1>4, <1>5

(* What is scanned and weighed stays the same while the rows, the manifest *)
(* and the store do.                                                       *)
LEMMA ScansKept ==
  ASSUME UNCHANGED <<trajectories, origins, discarded, manifest, setting, objects>>
  PROVE  UNCHANGED <<Weights, Scans>>
<1>1. Rows' = Rows /\ \A t : Origins(t)' = Origins(t) /\ Strict(t)' = Strict(t)
  BY DEF Rows, Origins, Strict
<1>2. \A t : Legible(t)' = Legible(t)
  BY <1>1 DEF Legible, Local
<1>3. \A rows : Links(rows)' = Links(rows)
  BY DEF Links
<1>4. \A i : Weight(i)' = Weight(i)
  BY DEF Weight, File, Local
<1>5. ASSUME NEW i PROVE Scan(i)' = Scan(i)
  BY <1>1, <1>2, <1>3 DEF Scan, ScanTrajectory, ScanLineage, File, Duplicates
<1> QED
  BY <1>4, <1>5 DEF Weights, Scans

LEMMA CandidateKept ==
  ASSUME UNCHANGED <<trajectories, origins, discarded, status>>
  PROVE  Candidate' = Candidate
<1>1. Rows' = Rows /\ \A t : Strict(t)' = Strict(t)
  BY DEF Rows, Strict
<1>2. \A rows : Links(rows)' = Links(rows)
  BY DEF Links
<1>3. Files' = Files
  BY <1>1, <1>2 DEF Files
<1>4. \A outcomes : Of(outcomes)' = Of(outcomes)
  BY DEF Of
<1> QED
  BY <1>1, <1>2, <1>3, <1>4 DEF Candidate, Duplicates, Records

ScansTyped ==
  /\ Len(Ids) \in Nat
  /\ DOMAIN manifest.files = 1..Len(Ids) + 1 /\ Len(manifest.files) = Len(Ids) + 1
  /\ \A i \in 1..Len(Ids) + 1 : Weights[i] = Weight(i) /\ Weight(i) \in Nat
  /\ \A i \in 1..Len(Ids) + 1 : Scans[i] = Scan(i) /\ Scan(i) \in Acc

LEMMA AuditedTyped == Audited => ScansTyped
<1> SUFFICES ASSUME Audited PROVE ScansTyped
  OBVIOUS
<1>1. /\ Len(Ids) \in Nat
      /\ DOMAIN manifest.files = 1..Len(Ids) + 1 /\ Len(manifest.files) = Len(Ids) + 1
  BY FileFacts
<1>2. ASSUME NEW i \in 1..Len(Ids) + 1 PROVE Weight(i) \in Nat
  <2>1. File(i).bytes \in Nat
    <3>1. i \in 1..Len(Ids) \/ i = Len(Ids) + 1
      BY <1>1
    <3> QED
      BY <3>1, FileFacts
  <2>2. setting.limit \in Nat \/ Local
    BY DEF Audited, Local
  <2> QED
    BY <2>1, <2>2 DEF Weight, Greatest, Least
<1>3. \A i \in 1..Len(Ids) + 1 : Scan(i) \in Acc
  BY ScanTyped
<1> QED
  BY <1>1, <1>2, <1>3 DEF ScansTyped, Weights, Scans

LEMMA AccumulatedEquation ==
  ASSUME NEW N \in Nat, NEW scans, \A i \in 1..N : scans[i] \in Acc
  PROVE  /\ Accumulated(N, scans) \in [0..N -> Acc]
         /\ Accumulated(N, scans)[0] = Nothing
         /\ \A n \in 1..N :
              Accumulated(N, scans)[n] = Merge(Accumulated(N, scans)[n - 1], scans[n])
<1> DEFINE Solves(f) == f = [n \in 0..N |-> IF n = 0 THEN Nothing ELSE Merge(f[n - 1], scans[n])]
           F == Accumulated(N, scans)
           step == [p \in Acc \X (1..N) |-> Merge(p[1], scans[p[2]])]
<1>1. step \in [Acc \X (1..N) -> Acc]
  BY MergeTyped
<1>2. PICK f \in [0..N -> Acc] : Follows(f, N, Nothing, step)
  <2> HIDE DEF step
  <2> QED
    BY <1>1, NothingTyped, Recursion
<1>3. ASSUME NEW n \in 1..N PROVE f[n] = Merge(f[n - 1], scans[n])
  <2>1. f[n - 1] \in Acc
    <3>1. n - 1 \in 0..N
      OBVIOUS
    <3> QED
      BY <3>1
  <2> QED
    BY <1>2, <2>1 DEF Follows
<1>4. Solves(f)
  <2>1. \A n \in 0..N : f[n] = IF n = 0 THEN Nothing ELSE Merge(f[n - 1], scans[n])
    BY <1>2, <1>3 DEF Follows
  <2> QED
    BY <2>1
<1>5. F = CHOOSE g : Solves(g)
  BY DEF Accumulated
<1>6. Solves(F)
  <2> HIDE DEF Solves, F
  <2> QED
    BY <1>4, <1>5
<1> HIDE DEF F
<1>7. F[0] = Nothing /\ \A n \in 1..N : F[n] = Merge(F[n - 1], scans[n])
  BY <1>6
<1> DEFINE S == {n \in 0..N : F[n] \in Acc}
<1>8. 0 \in S
  BY <1>7, NothingTyped
<1>9. \A n \in 0..N : n \in S /\ n < N => n + 1 \in S
  BY <1>7, MergeTyped
<1>10. \A n \in 0..N : n \in S
  <2> HIDE DEF S
  <2> QED
    BY <1>8, <1>9, IntervalInduction
<1>11. F \in [0..N -> Acc]
  BY <1>6, <1>10
<1> QED
  BY <1>7, <1>11 DEF F

-----------------------------------------------------------------------------
(* The window of the validator                                             *)
Scanning == {"audit", "leaving", "accepted", "rejected", "failed"}

Total == SumOf(Len(Ids) + 1, Weights)
After == Accumulated(Len(Ids) + 1, Scans)

Budgeted ==
  /\ opened \in 0..Len(Ids) + 1
  /\ window \in Seq(Nat) /\ Len(window) <= opened
  /\ \A k \in 1..Len(window) : window[k] = opened - Len(window) + k
  /\ Len(window) <= 2 * setting.workers
  /\ pendingBytes = Total[opened] - Total[opened - Len(window)]
  /\ Len(window) > 1 => pendingBytes <= PendingLimit
  /\ observed = After[opened - Len(window)]

Idle0 == opened = 0 /\ window = <<>> /\ pendingBytes = 0 /\ observed = Nothing

AInv ==
  /\ phase \notin Scanning => Idle0
  /\ phase = "publish" => /\ manifest = Candidate
                          /\ setting \in [workers : Nat \ {0}, limit : Nat \cup {Unknown}]
  /\ phase \in Scanning => Audited /\ Budgeted /\ (Serial1 => window = <<>>)

Totals ==
  /\ Len(Ids) \in Nat
  /\ \A n \in 0..Len(Ids) + 1 : Total[n] \in Nat /\ After[n] \in Acc
  /\ Total[0] = 0 /\ After[0] = Nothing
  /\ \A n \in 1..Len(Ids) + 1 : /\ Total[n] = Total[n - 1] + Weight(n) /\ Weight(n) \in Nat
                               /\ After[n] = Merge(After[n - 1], Scan(n))

LEMMA AuditTotals == Audited => Totals
<1> SUFFICES ASSUME Audited PROVE Totals
  OBVIOUS
<1> DEFINE N == Len(Ids) + 1
<1>1. /\ N \in Nat /\ Len(Ids) \in Nat
      /\ \A i \in 1..N : Weights[i] = Weight(i) /\ Weight(i) \in Nat
      /\ \A i \in 1..N : Scans[i] = Scan(i) /\ Scan(i) \in Acc
  BY AuditedTyped DEF ScansTyped
<1> HIDE DEF N
<1>2. IsSum(SumOf(N, Weights), N, Weights)
  BY <1>1, SumEquation
<1>3. /\ Accumulated(N, Scans) \in [0..N -> Acc]
      /\ Accumulated(N, Scans)[0] = Nothing
      /\ \A n \in 1..N : Accumulated(N, Scans)[n] = Merge(Accumulated(N, Scans)[n - 1], Scans[n])
  BY <1>1, AccumulatedEquation
<1>4. Total = SumOf(N, Weights) /\ After = Accumulated(N, Scans)
  BY DEF Total, After, N
<1>5. \A n \in 0..N : Total[n] \in Nat /\ After[n] \in Acc
  BY <1>2, <1>3, <1>4 DEF IsSum
<1>6. \A n \in 1..N : /\ Total[n] = Total[n - 1] + Weight(n) /\ Weight(n) \in Nat
                      /\ After[n] = Merge(After[n - 1], Scan(n))
  BY <1>1, <1>2, <1>3, <1>4 DEF IsSum
<1>7. Total[0] = 0 /\ After[0] = Nothing
  BY <1>2, <1>3, <1>4 DEF IsSum
<1> QED
  BY <1>1, <1>5, <1>6, <1>7 DEF Totals, N

Held == <<vars, numbering, release, published>>

LEMMA AuditKept ==
  ASSUME Audited, UNCHANGED Held
  PROVE  Audited' /\ UNCHANGED <<Total, After>>
<1>1. UNCHANGED <<trajectories, origins, discarded, status, manifest, setting, objects>>
  BY DEF Held, vars, tables, numbering, release, published
<1>2. UNCHANGED <<Weights, Scans>>
  BY <1>1, ScansKept
<1>3. \A t : Origins(t)' = Origins(t)
  BY <1>1 DEF Origins
<1>4. Ready'
  BY <1>1, <1>3 DEF Audited, Ready, RootIds
<1>5. Candidate' = Candidate
  BY <1>1, CandidateKept
<1> QED
  BY <1>1, <1>2, <1>4, <1>5 DEF Audited, Total, After

LEMMA OpenStep ==
  ASSUME Audited, Budgeted, OpenFile, UNCHANGED vars
  PROVE  Audited' /\ Budgeted'
<1> DEFINE N == Len(Ids) + 1
           L == Len(window)
<1>1. /\ phase' = phase /\ opened' = opened + 1 /\ window' = Append(window, opened + 1)
      /\ pendingBytes' = pendingBytes + Weight(opened + 1) /\ observed' = observed
      /\ UNCHANGED Held /\ opened < N /\ L < 2 * setting.workers
      /\ window = <<>> \/ pendingBytes + Weight(opened + 1) <= PendingLimit
  BY AuditedTyped DEF OpenFile, CanOpen, Held, ScansTyped
<1>2. Audited' /\ Total' = Total /\ After' = After
  BY <1>1, AuditKept
<1>3. Totals
  BY AuditTotals
<1>4. /\ L \in Nat /\ N \in Nat /\ opened \in 0..N /\ L <= opened
      /\ opened + 1 \in 1..N /\ opened' \in 0..N
  <2>1. L \in Nat /\ opened \in 0..N /\ L <= opened
    BY DEF Budgeted
  <2>2. N \in Nat
    BY <1>3 DEF Totals
  <2> HIDE DEF N, L
  <2> QED
    BY <1>1, <2>1, <2>2
<1>5. /\ window' \in Seq(Nat) /\ Len(window') = L + 1
      /\ \A k \in 1..L : window'[k] = window[k]
      /\ window'[L + 1] = opened + 1
  <2>1. window \in Seq(Nat) /\ opened + 1 \in Nat
    BY <1>4 DEF Budgeted
  <2> QED
    BY <1>1, <2>1
<1>6. opened' - Len(window') = opened - L
  BY <1>1, <1>4, <1>5
<1>7. \A k \in 1..Len(window') : window'[k] = opened' - Len(window') + k
  <2>1. \A k \in 1..L : window[k] = opened - L + k
    BY DEF Budgeted
  <2>2. ASSUME NEW k \in 1..L + 1 PROVE window'[k] = opened - L + k
    <3>1. k \in 1..L \/ k = L + 1
      BY <1>4
    <3>2. CASE k \in 1..L
      BY <1>5, <2>1, <3>2
    <3>3. CASE k = L + 1
      <4>1. window'[k] = opened + 1
        BY <1>5, <3>3
      <4> HIDE DEF L
      <4> QED
        BY <1>4, <3>3, <4>1
    <3> QED
      BY <3>1, <3>2, <3>3
  <2> QED
    BY <1>5, <1>6, <2>2
<1>8. pendingBytes' = Total[opened'] - Total[opened' - Len(window')]
  <2>1. pendingBytes = Total[opened] - Total[opened - L]
    BY DEF Budgeted
  <2>2. Total[opened + 1] = Total[opened] + Weight(opened + 1) /\ Weight(opened + 1) \in Nat
    <3>1. (opened + 1) - 1 = opened
      BY <1>4
    <3>2. Total[opened + 1] = Total[(opened + 1) - 1] + Weight(opened + 1)
          /\ Weight(opened + 1) \in Nat
      BY <1>3, <1>4 DEF Totals
    <3> QED
      BY <3>1, <3>2
  <2>3. Total[opened] \in Nat /\ Total[opened - L] \in Nat
    <3>1. opened - L \in 0..N
      BY <1>4
    <3> QED
      BY <1>3, <1>4, <3>1 DEF Totals
  <2> HIDE DEF L
  <2>4. pendingBytes' = Total[opened + 1] - Total[opened - L]
    BY <1>1, <2>1, <2>2, <2>3
  <2> QED
    BY <1>1, <1>6, <2>4
<1>9. Len(window') > 1 => pendingBytes' <= PendingLimit
  <2>1. window = <<>> => L = 0
    OBVIOUS
  <2> HIDE DEF L
  <2> QED
    BY <1>1, <1>4, <1>5, <2>1
<1>10. Len(window') <= 2 * setting'.workers
  <2>1. setting' = setting /\ setting.workers \in Nat
    BY <1>1 DEF Held, published, Audited
  <2> HIDE DEF L
  <2> QED
    BY <1>1, <1>4, <1>5, <2>1
<1>11. observed' = After[opened' - Len(window')]
  BY <1>1, <1>6 DEF Budgeted
<1>12. Len(window') <= opened'
  BY <1>1, <1>4, <1>5
<1> QED
  BY <1>2, <1>4, <1>5, <1>7, <1>8, <1>9, <1>10, <1>11, <1>12 DEF Budgeted

LEMMA MergeStep ==
  ASSUME Audited, Budgeted, MergeOldest, UNCHANGED vars
  PROVE  Audited' /\ Budgeted'
<1> DEFINE N == Len(Ids) + 1
           L == Len(window)
           h == opened - L + 1
<1>1. /\ phase' = phase /\ opened' = opened /\ window' = Tail(window) /\ window # <<>>
      /\ pendingBytes' = pendingBytes - Weight(Head(window))
      /\ observed' = Merge(observed, Scan(Head(window)))
      /\ UNCHANGED Held
  BY DEF MergeOldest, Waiting, Held
<1>2. Audited' /\ Total' = Total /\ After' = After
  BY <1>1, AuditKept
<1>3. Totals
  BY AuditTotals
<1>4. /\ window \in Seq(Nat) /\ L \in Nat /\ L >= 1
      /\ Head(window) = window[1] /\ 1 \in 1..L
      /\ window' \in Seq(Nat) /\ Len(window') = L - 1
      /\ \A k \in 1..L - 1 : window'[k] = window[k + 1]
  <2>1. window \in Seq(Nat)
    BY DEF Budgeted
  <2>2. L \in Nat /\ L # 0
    BY <1>1, <2>1
  <2> QED
    BY <1>1, <2>1, <2>2
<1>5. N \in Nat /\ opened \in 0..N /\ L <= opened
  BY <1>3 DEF Totals, Budgeted
<1>6. Head(window) = h /\ h \in 1..N /\ h - 1 = opened - L /\ opened' - Len(window') = h
  <2>1. window[1] = opened - L + 1
    BY <1>4 DEF Budgeted
  <2> HIDE DEF L, N
  <2> QED
    BY <1>1, <1>4, <1>5, <2>1
<1>7. \A k \in 1..Len(window') : window'[k] = opened' - Len(window') + k
  <2>1. \A k \in 1..L : window[k] = opened - L + k
    BY DEF Budgeted
  <2>2. ASSUME NEW k \in 1..L - 1 PROVE window'[k] = opened - (L - 1) + k
    <3>1. k + 1 \in 1..L
      BY <1>4
    <3>2. window'[k] = opened - L + (k + 1)
      BY <1>4, <2>1, <3>1
    <3> HIDE DEF L
    <3> QED
      BY <1>4, <1>5, <3>2
  <2> QED
    BY <1>1, <1>4, <2>2
<1>8. /\ Total[h] = Total[h - 1] + Weight(h) /\ Weight(h) \in Nat
      /\ After[h] = Merge(After[h - 1], Scan(h))
      /\ Total[h] \in Nat /\ Total[h - 1] \in Nat /\ Total[opened] \in Nat
  <2>1. h \in 0..N /\ h - 1 \in 0..N
    BY <1>5, <1>6
  <2> HIDE DEF h
  <2> QED
    BY <1>3, <1>5, <1>6, <2>1 DEF Totals
<1>9. pendingBytes = Total[opened] - Total[h - 1]
  BY <1>6 DEF Budgeted
<1>10. pendingBytes' = Total[opened'] - Total[opened' - Len(window')]
  <2> HIDE DEF h
  <2>1. pendingBytes' = Total[opened] - Total[h]
    BY <1>1, <1>6, <1>8, <1>9
  <2> QED
    BY <1>1, <1>6, <2>1
<1>11. Len(window') > 1 => pendingBytes' <= PendingLimit
  <2>1. Len(window') > 1 => L > 1
    BY <1>4
  <2>2. L > 1 => pendingBytes <= PendingLimit
    BY DEF Budgeted
  <2>3. PendingLimit \in Nat
    BY ReleaseAssumption
  <2> HIDE DEF h, L
  <2>4. pendingBytes \in Int /\ pendingBytes' <= pendingBytes
    BY <1>1, <1>6, <1>8, <1>9
  <2>5. pendingBytes' \in Int
    BY <1>1, <1>6, <1>8, <2>4
  <2> QED
    BY <2>1, <2>2, <2>3, <2>4, <2>5
<1>12. Len(window') <= 2 * setting'.workers
  <2>1. setting' = setting /\ setting.workers \in Nat
    BY <1>1 DEF Held, published, Audited
  <2>2. L <= 2 * setting.workers
    BY DEF Budgeted
  <2> HIDE DEF L
  <2> QED
    BY <1>4, <2>1, <2>2
<1>13. observed' = After[opened' - Len(window')]
  <2>1. observed = After[h - 1]
    BY <1>6 DEF Budgeted
  <2> HIDE DEF h
  <2> QED
    BY <1>1, <1>6, <1>8, <2>1
<1>14. Len(window') <= opened'
  BY <1>1, <1>4, <1>5
<1> QED
  BY <1>1, <1>2, <1>4, <1>5, <1>7, <1>10, <1>11, <1>12, <1>13, <1>14 DEF Budgeted

LEMMA ScanNextStep ==
  ASSUME Audited, Budgeted, ScanNext, UNCHANGED vars, window = <<>>
  PROVE  Audited' /\ Budgeted'
<1> DEFINE N == Len(Ids) + 1
<1>1. /\ opened' = opened + 1 /\ observed' = Merge(observed, Scan(opened + 1))
      /\ UNCHANGED <<window, pendingBytes>> /\ UNCHANGED Held /\ opened < N
  BY AuditedTyped DEF ScanNext, Held, ScansTyped
<1>2. Audited' /\ Total' = Total /\ After' = After
  BY <1>1, AuditKept
<1>3. Totals
  BY AuditTotals
<1>4. Len(window) = 0
  OBVIOUS
<1>5. N \in Nat /\ opened \in 0..N /\ opened + 1 \in 1..N /\ (opened + 1) - 1 = opened
  <2>1. N \in Nat /\ opened \in 0..N
    BY <1>3 DEF Totals, Budgeted
  <2> HIDE DEF N
  <2> QED
    BY <1>1, <2>1
<1>6. opened - 0 = opened /\ opened' - 0 = opened'
  BY <1>1, <1>5
<1>7. /\ pendingBytes = Total[opened] - Total[opened - 0] /\ observed = After[opened - 0]
      /\ Len(window) <= 2 * setting.workers
  BY <1>4 DEF Budgeted
<1>8. /\ After[opened + 1] = Merge(After[opened], Scan(opened + 1))
      /\ Total[opened] \in Nat /\ Total[opened + 1] \in Nat
  <2>1. opened + 1 \in 0..N
    BY <1>5
  <2> QED
    BY <1>3, <1>5, <2>1 DEF Totals
<1>9. pendingBytes' = Total[opened'] - Total[opened' - 0]
  BY <1>1, <1>6, <1>7, <1>8
<1>10. observed' = After[opened' - 0]
  BY <1>1, <1>6, <1>7, <1>8
<1>11. setting' = setting
  BY <1>1 DEF Held, published
<1>12. /\ window' \in Seq(Nat) /\ Len(window') = 0
  BY <1>1, <1>4
<1>13. Len(window') <= opened' /\ opened' \in 0..N
  BY <1>1, <1>5, <1>12
<1> QED
  BY <1>2, <1>7, <1>9, <1>10, <1>11, <1>12, <1>13, <1>4 DEF Budgeted

(* The other steps leave what has been merged and what is in flight.       *)
LEMMA BudgetedKept ==
  ASSUME Audited, Budgeted, UNCHANGED <<Held, opened, window, pendingBytes, observed>>
  PROVE  Audited' /\ Budgeted'
<1>1. UNCHANGED Held /\ UNCHANGED setting
  BY DEF Held, published
<1>2. Audited' /\ Total' = Total /\ After' = After
  BY <1>1, AuditKept
<1> QED
  BY <1>1, <1>2 DEF Budgeted

LEMMA PublishStep ==
  ASSUME NInv, Ready, AInv, Publish, UNCHANGED vars
  PROVE  Audited' /\ Budgeted'
<1>1. /\ manifest = Candidate /\ discarded = {} /\ status = Inputs
      /\ setting \in [workers : Nat \ {0}, limit : Nat \cup {Unknown}]
      /\ Idle0
  BY DEF Publish, NInv, AInv, Released, Scanning
<1>2. /\ UNCHANGED <<trajectories, origins, discarded, status, manifest, setting>>
      /\ UNCHANGED <<opened, window, pendingBytes, observed>>
  BY DEF Publish, vars, tables, numbering, release, scan
<1>3. DOMAIN manifest.files = 1..Len(Ids) + 1
  BY <1>1, FilesFacts DEF Candidate
<1>4. objects' \in [1..Len(Ids) + 1 -> Damages \cup {"whole"}]
  BY <1>3 DEF Publish
<1>5. Candidate' = Candidate
  BY <1>2, CandidateKept
<1>6. Ready'
  <2>1. \A t : Origins(t)' = Origins(t)
    BY <1>2 DEF Origins
  <2> QED
    BY <1>2, <2>1 DEF Ready, RootIds
<1>7. Audited'
  BY <1>1, <1>2, <1>4, <1>5, <1>6 DEF Audited
<1>8. Totals'
  BY <1>7, AuditTotals, PTL
<1>9. /\ Len(Ids) \in Nat /\ (Total')[0] = 0 /\ (After')[0] = Nothing
  BY <1>8 DEF Totals
<1>10. /\ opened' = 0 /\ window' = <<>> /\ pendingBytes' = 0 /\ observed' = Nothing
       /\ setting'.workers \in Nat
  BY <1>1, <1>2 DEF Idle0
<1>11. window' \in Seq(Nat) /\ Len(window') = 0
  BY <1>10
<1> QED
  BY <1>7, <1>9, <1>10, <1>11 DEF Budgeted

LEMMA InitAInv == ReleaseInit => AInv
BY DEF ReleaseInit, AInv, Scanning, Idle0

LEMMA AInvStep ==
  ASSUME BInv, SInv, NInv, AInv, [ReleaseNext]_<<vars, releaseVars>>
  PROVE  AInv'
<1>1. phase \in Scanning => Audited /\ Budgeted /\ (Serial1 => window = <<>>)
  BY DEF AInv
<1>2. UNCHANGED published /\ UNCHANGED release => Serial1' = Serial1
  BY DEF Serial1, published, release
<1>3. CASE UNCHANGED <<Held, phase, opened, window, pendingBytes, observed>>
  <2>1. /\ UNCHANGED <<phase, opened, window, pendingBytes, observed, setting, manifest>>
        /\ Serial1' = Serial1
    BY <1>2, <1>3 DEF Held, published, release
  <2>2. phase \in Scanning => Audited' /\ Budgeted'
    BY <1>1, <1>3, BudgetedKept
  <2>3. Candidate' = Candidate
    BY <1>3, CandidateKept DEF Held, vars, tables, numbering
  <2> QED
    BY <1>1, <2>1, <2>2, <2>3 DEF AInv, Idle0
<1>4. CASE BuildStep \/ \E i \in 1..Last : WorkerStep(i)
  <2>1. phase = "build"
    <3>1. pc # "done"
      BY <1>4 DEF BuildStep, WorkerStep, Coordinate, Submit, RunInline, RefuseMemory,
                  Fillable, RefuseUnknownSize, StopFilling, Wait, StoreOldest,
                  StopDraining, EndScope, Finish
    <3> QED
      BY <3>1 DEF NInv
  <2> QED
    BY <1>4, <2>1 DEF BuildStep, WorkerStep, releaseVars, scan, AInv, Idle0, Scanning
<1>5. CASE \E bad \in SUBSET Rows : ReadRows(bad) \/ RewriteRows(bad)
  BY <1>5 DEF ReadRows, RewriteRows, scan, AInv, Idle0, Scanning
<1>6. CASE \E limit \in ShardLimits, bad \in BOOLEAN : Export(limit, bad) /\ UNCHANGED vars
  <2>1. PICK limit \in ShardLimits, bad \in BOOLEAN : Export(limit, bad) /\ UNCHANGED vars
    BY <1>6
  <2>2. Candidate' = Candidate
    BY <2>1, CandidateKept DEF Export, vars, tables, numbering
  <2>3. /\ UNCHANGED <<opened, window, pendingBytes, observed>>
        /\ phase = "export"
        /\ \/ phase' = "aborted"
           \/ /\ phase' = "publish" /\ manifest' = Candidate
              /\ setting' \in {[workers |-> w, limit |-> limit] : w \in AuditWorkers}
                              \cup {[workers |-> 1, limit |-> Unknown]}
    BY <2>1 DEF Export, scan
  <2>4. phase' = "publish" =>
          setting' \in [workers : Nat \ {0}, limit : Nat \cup {Unknown}]
    BY <2>3, ReleaseAssumption
  <2> QED
    BY <2>2, <2>3, <2>4 DEF AInv, Idle0, Scanning
<1>7. CASE Publish /\ UNCHANGED vars
  <2>1. pc = "done" /\ phase' \in {"audit", "rejected"}
    BY <1>7 DEF Publish, NInv
  <2>2. Audited' /\ Budgeted'
    BY <1>7, <2>1, DoneReady, PublishStep
  <2>3. window' = <<>>
    BY <1>7 DEF Publish, AInv, Idle0, Scanning, scan
  <2> QED
    BY <2>1, <2>2, <2>3 DEF AInv, Scanning
<1>8. CASE ScanNext /\ UNCHANGED vars
  <2>1. phase = "audit" /\ phase' = phase /\ Serial1 /\ UNCHANGED <<published, release, window>>
    BY <1>8 DEF ScanNext
  <2>2. window = <<>>
    BY <1>1, <2>1 DEF Scanning
  <2>3. Audited' /\ Budgeted'
    BY <1>1, <1>8, <2>1, <2>2, ScanNextStep DEF Scanning
  <2> QED
    BY <2>1, <2>2, <2>3 DEF AInv, Scanning
<1>9. CASE OpenFile /\ UNCHANGED vars
  <2>1. phase = "audit" /\ phase' = phase /\ ~Serial1 /\ UNCHANGED <<published, release>>
    BY <1>9 DEF OpenFile
  <2>2. Audited' /\ Budgeted'
    BY <1>1, <1>9, <2>1, OpenStep DEF Scanning
  <2> QED
    BY <1>2, <2>1, <2>2 DEF AInv, Scanning
<1>10. CASE MergeOldest /\ UNCHANGED vars
  <2>1. /\ phase = "audit" /\ phase' = phase /\ window # <<>>
        /\ UNCHANGED <<published, release>>
    BY <1>10 DEF MergeOldest, Waiting
  <2>2. Audited' /\ Budgeted'
    BY <1>1, <1>10, <2>1, MergeStep DEF Scanning
  <2> QED
    BY <1>1, <1>2, <2>1, <2>2 DEF AInv, Scanning
<1>11. CASE /\ \/ TimeOut \/ AskAgain \/ Leave \/ Conclude
               \/ \E i \in Positions : EndFile(i)
            /\ UNCHANGED vars
  <2>1. /\ UNCHANGED <<Held, opened, window, pendingBytes, observed>>
        /\ phase \in Scanning /\ phase' \in Scanning
    BY <1>11 DEF TimeOut, AskAgain, Leave, Conclude, EndFile, Waiting, Held, scan, Scanning
  <2>2. Audited' /\ Budgeted'
    BY <1>1, <2>1, BudgetedKept
  <2>3. Serial1' = Serial1 /\ window' = window
    BY <1>2, <2>1 DEF Held
  <2> QED
    BY <1>1, <2>1, <2>2, <2>3 DEF AInv, Scanning
<1> QED
  BY <1>3, <1>4, <1>5, <1>6, <1>7, <1>8, <1>9, <1>10, <1>11
  DEF ReleaseNext, MainStep, ReleaseStep, FileStep, Held, releaseVars, scan

THEOREM AuditInvariant == ReleaseSpec => [](BInv /\ SInv /\ NInv /\ AInv)
BY Numbered, InitAInv, AInvStep, PTL DEF ReleaseSpec

(* The validator keeps to its window and its budget of bytes, whatever the *)
(* damage; the budget counts what is in flight; and what it has merged is  *)
(* a prefix of the manifest, each file once.                               *)
THEOREM Bounded == ReleaseSpec => []AuditBounded
<1>1. AInv => AuditBounded
  <2> SUFFICES ASSUME AInv, phase \in Scanning PROVE
        /\ Len(window) <= 2 * setting.workers
        /\ LET total == SumOf(Len(manifest.files), Weights)
           IN pendingBytes = total[opened] - total[opened - Len(window)]
        /\ Len(window) > 1 => pendingBytes <= PendingLimit
        /\ window = [k \in 1 .. Len(window) |-> opened - Len(window) + k]
        /\ observed = Accumulated(Len(manifest.files), Scans)[opened - Len(window)]
    BY DEF AuditBounded, Scanning
  <2>1. Audited /\ Budgeted
    BY DEF AInv
  <2>2. Len(manifest.files) = Len(Ids) + 1
    BY <2>1, AuditedTyped DEF ScansTyped
  <2>3. window = [k \in 1..Len(window) |-> opened - Len(window) + k]
    <3>1. /\ window = [k \in 1..Len(window) |-> window[k]]
          /\ \A k \in 1..Len(window) : window[k] = opened - Len(window) + k
      BY <2>1 DEF Budgeted
    <3> QED
      BY <3>1, Zenon
  <2> QED
    BY <2>1, <2>2, <2>3 DEF Budgeted, Total, After
<1> QED
  BY <1>1, AuditInvariant, PTL

-----------------------------------------------------------------------------
(* What an accumulator without errors says of the store                    *)
LEMMA ScanErrors ==
  ASSUME Audited, NEW i \in 1..Len(Ids) + 1, Scan(i).errors = 0
  PROVE  objects[i] = "whole"
<1>1. objects[i] \in {"missing", "foreign", "broken", "whole"}
  BY DEF Audited, Damages
<1>2. objects[i] # "whole" => ScanTrajectory(i).errors = 1 /\ ScanLineage(i).errors = 1
  BY <1>1 DEF ScanTrajectory, ScanLineage, Nothing
<1> QED
  BY <1>2 DEF Scan

LEMMA ErrorsTell ==
  ASSUME Audited, After[Len(Ids) + 1].errors = 0
  PROVE  \A i \in 1..Len(Ids) + 1 : objects[i] = "whole"
<1> DEFINE N == Len(Ids) + 1
           S == {n \in 0..N : After[n].errors = 0 => \A i \in 1..n : objects[i] = "whole"}
<1>1. N \in Nat /\ Totals
  BY AuditTotals DEF Totals
<1>2. 0 \in S
  BY <1>1
<1>3. ASSUME NEW n \in 0..N, n \in S, n < N PROVE n + 1 \in S
  <2>1. n + 1 \in 1..N /\ (n + 1) - 1 = n /\ n + 1 \in 0..N
    BY <1>1, <1>3
  <2>2. After[n + 1] = Merge(After[n], Scan(n + 1))
    BY <1>1, <2>1 DEF Totals
  <2>3. After[n].errors \in Nat /\ Scan(n + 1).errors \in Nat
    <3>1. After[n] \in Acc
      BY <1>1, <1>3 DEF Totals
    <3>2. Scan(n + 1) \in Acc
      BY <2>1, ScanTyped
    <3> QED
      BY <3>1, <3>2 DEF Acc
  <2>4. After[n + 1].errors = After[n].errors + Scan(n + 1).errors
    BY <2>2 DEF Merge
  <2>5. ASSUME After[n + 1].errors = 0, NEW i \in 1..n + 1 PROVE objects[i] = "whole"
    <3>1. After[n].errors = 0 /\ Scan(n + 1).errors = 0
      BY <2>3, <2>4, <2>5
    <3>2. i \in 1..n \/ i = n + 1
      BY <1>3
    <3> QED
      BY <1>3, <2>1, <3>1, <3>2, ScanErrors
  <2> QED
    BY <2>1, <2>5
<1>4. \A n \in 0..N : n \in S
  <2> HIDE DEF S, N
  <2> QED
    BY <1>1, <1>2, <1>3, IntervalInduction
<1>5. N \in S
  <2> HIDE DEF S, N
  <2> QED
    BY <1>1, <1>4
<1> QED
  BY <1>5

LEMMA AuditedComplete == ASSUME Audited PROVE Complete
<1>1. Rows = RootIds /\ status = Inputs
  BY RowFacts DEF Audited
<1>2. UNION {Origins(t) : t \in Rows} = {s \in DOMAIN Inputs : Inputs[s] = "eligible"}
  <2>1. ASSUME NEW t \in Rows, NEW s \in Origins(t)
        PROVE  s \in DOMAIN Inputs /\ Inputs[s] = "eligible"
    BY InputTypes DEF Audited, Ready
  <2>2. ASSUME NEW s \in DOMAIN Inputs, Inputs[s] = "eligible"
        PROVE  \E t \in Rows : s \in Origins(t)
    <3>1. PICK i \in 1..Last : s \in Roots[i].sources
      BY <2>2, InputTypes
    <3>2. Roots[i].id \in Rows /\ s \in Origins(Roots[i].id)
      BY <1>1, <3>1 DEF Audited, Ready, RootIds
    <3> QED
      BY <3>2
  <2> QED
    BY <2>1, <2>2
<1> QED
  BY <1>1, <1>2 DEF Complete, RootIds

-----------------------------------------------------------------------------
(* What an undamaged release adds up to                                    *)
Clean == /\ \A i \in 1..Len(Ids) + 1 : objects[i] = "whole"
         /\ \A t \in Rows : Legible(t)

StrictIn(S) == Cardinality({t \in S : Strict(t)})
OthersIn(S) == Cardinality({t \in S : ~Strict(t)})

LEMMA CountOne ==
  ASSUME NEW S, IsFiniteSet(S), NEW t, t \notin S
  PROVE  /\ IsFiniteSet(S \cup {t})
         /\ StrictIn(S \cup {t}) = StrictIn(S) + (IF Strict(t) THEN 1 ELSE 0)
         /\ OthersIn(S \cup {t}) = OthersIn(S) + (IF Strict(t) THEN 0 ELSE 1)
         /\ StrictIn(S) \in Nat /\ OthersIn(S) \in Nat
<1> DEFINE A == {x \in S : Strict(x)}
           B == {x \in S : ~Strict(x)}
<1>1. IsFiniteSet(A) /\ IsFiniteSet(B)
  <2>1. A \in SUBSET S /\ B \in SUBSET S
    OBVIOUS
  <2> HIDE DEF A, B
  <2> QED
    BY <2>1, FS_Subset
<1>2. Cardinality(A) \in Nat /\ Cardinality(B) \in Nat
  <2> HIDE DEF A, B
  <2> QED
    BY <1>1, FS_CardinalityType
<1>3. t \notin A /\ t \notin B
  OBVIOUS
<1>4. Cardinality(A \cup {t}) = Cardinality(A) + 1 /\ Cardinality(B \cup {t}) = Cardinality(B) + 1
  <2> HIDE DEF A, B
  <2> QED
    BY <1>1, <1>3, FS_AddElement
<1>5. CASE Strict(t)
  <2>1. {x \in S \cup {t} : Strict(x)} = A \cup {t} /\ {x \in S \cup {t} : ~Strict(x)} = B
    BY <1>5
  <2> HIDE DEF A, B
  <2>2. StrictIn(S \cup {t}) = Cardinality(A) + 1 /\ OthersIn(S \cup {t}) = Cardinality(B)
    BY <1>4, <2>1 DEF StrictIn, OthersIn
  <2>3. StrictIn(S) = Cardinality(A) /\ OthersIn(S) = Cardinality(B)
    BY DEF StrictIn, OthersIn, A, B
  <2> QED
    BY <1>2, <1>5, <2>2, <2>3, FS_AddElement
<1>6. CASE ~Strict(t)
  <2>1. {x \in S \cup {t} : Strict(x)} = A /\ {x \in S \cup {t} : ~Strict(x)} = B \cup {t}
    BY <1>6
  <2> HIDE DEF A, B
  <2>2. StrictIn(S \cup {t}) = Cardinality(A) /\ OthersIn(S \cup {t}) = Cardinality(B) + 1
    BY <1>4, <2>1 DEF StrictIn, OthersIn
  <2>3. StrictIn(S) = Cardinality(A) /\ OthersIn(S) = Cardinality(B)
    BY DEF StrictIn, OthersIn, A, B
  <2> QED
    BY <1>2, <1>6, <2>2, <2>3, FS_AddElement
<1> QED
  BY <1>5, <1>6

LEMMA BagOne ==
  ASSUME NEW S, NEW t, t \notin S
  PROVE  /\ SetToBag(S) (+) SetToBag({t}) = SetToBag(S \cup {t})
         /\ SetToBag(S) (+) EmptyBag = SetToBag(S)
         /\ EmptyBag (+) SetToBag(S) = SetToBag(S)
         /\ EmptyBag (+) EmptyBag = EmptyBag
BY DEF SetToBag, EmptyBag, (+)

(* The rows of the first n files, and what merging their scans gives.      *)
First(n) == {Listing(Rows)[k] : k \in 1..n}

Expected(n) ==
  [ ids |-> SetToBag(First(n)), lineageIds |-> EmptyBag, covered |-> {},
    accepted |-> StrictIn(First(n)), quarantined |-> OthersIn(First(n)),
    lineageRows |-> 0, duplicates |-> 0, reasons |-> OthersIn(First(n)),
    trajectoriesValid |-> TRUE, lineageValid |-> TRUE, errors |-> 0 ]

LEMMA CleanPrefix ==
  ASSUME Audited, Clean
  PROVE  \A n \in 0..Len(Ids) : After[n] = Expected(n) /\ IsFiniteSet(First(n))
<1> DEFINE N == Len(Ids)
           S == {n \in 0..N : After[n] = Expected(n) /\ IsFiniteSet(First(n))}
<1>1. N \in Nat /\ Totals
  BY AuditTotals DEF Totals
<1>2. 0 \in S
  <2>1. First(0) = {}
    BY DEF First
  <2>2. IsFiniteSet({}) /\ Cardinality({}) = 0
    BY FS_EmptySet
  <2>3. StrictIn({}) = 0 /\ OthersIn({}) = 0
    <3>1. {t \in {} : Strict(t)} = {} /\ {t \in {} : ~Strict(t)} = {}
      OBVIOUS
    <3> QED
      BY <2>2, <3>1 DEF StrictIn, OthersIn
  <2>4. SetToBag({}) = EmptyBag
    BY DEF EmptyBag
  <2>5. Expected(0) = Nothing
    BY <2>1, <2>3, <2>4 DEF Expected, Nothing
  <2>6. After[0] = Expected(0)
    BY <1>1, <2>5 DEF Totals
  <2> QED
    BY <1>1, <2>1, <2>2, <2>6
<1>3. ASSUME NEW n \in 0..N, n \in S, n < N PROVE n + 1 \in S
  <2> DEFINE t == Listing(Rows)[n + 1]
  <2>1. n + 1 \in 1..N /\ (n + 1) - 1 = n /\ n + 1 \in 0..N /\ n + 1 \in 1..Len(Ids) + 1
    BY <1>1, <1>3
  <2>2. After[n + 1] = Merge(After[n], Scan(n + 1))
    BY <1>1, <2>1 DEF Totals
  <2>3. t \notin First(n)
    <3>1. \A k \in 1..n : k \in 1..Len(Ids) /\ k # n + 1
      BY <1>1, <1>3
    <3> QED
      BY <2>1, <3>1, ListingFacts DEF Audited, First
  <2>4. First(n + 1) = First(n) \cup {t}
    <3>1. \A k : k \in 1..n + 1 <=> k \in 1..n \/ k = n + 1
      BY <1>3
    <3> QED
      BY <3>1 DEF First
  <2>5. Scan(n + 1) = [Nothing EXCEPT !.ids = SetToBag({t}),
                                      !.accepted = IF Strict(t) THEN 1 ELSE 0,
                                      !.quarantined = IF Strict(t) THEN 0 ELSE 1,
                                      !.reasons = IF Strict(t) THEN 0 ELSE 1]
    <3>1. objects[n + 1] = "whole"
      BY <2>1 DEF Clean
    <3>2. File(n + 1).kind = "trajectory" /\ File(n + 1).id = t
      BY <2>1, FileFacts
    <3> QED
      BY <3>1, <3>2 DEF Scan, ScanTrajectory
  <2>6. /\ IsFiniteSet(First(n + 1))
        /\ StrictIn(First(n + 1)) = StrictIn(First(n)) + (IF Strict(t) THEN 1 ELSE 0)
        /\ OthersIn(First(n + 1)) = OthersIn(First(n)) + (IF Strict(t) THEN 0 ELSE 1)
    BY <1>3, <2>3, <2>4, CountOne
  <2>7. /\ SetToBag(First(n + 1)) = SetToBag(First(n)) (+) SetToBag({t})
        /\ EmptyBag (+) EmptyBag = EmptyBag
    BY <2>3, <2>4, BagOne
  <2> HIDE DEF t
  <2>8. After[n] = Expected(n)
    BY <1>3
  <2>9. Merge(Expected(n), Scan(n + 1)) = Expected(n + 1)
    <3> DEFINE b == Scan(n + 1)
    <3>1. /\ b.ids = SetToBag({t}) /\ b.lineageIds = EmptyBag /\ b.covered = {}
          /\ b.accepted = IF Strict(t) THEN 1 ELSE 0
          /\ b.quarantined = IF Strict(t) THEN 0 ELSE 1
          /\ b.reasons = IF Strict(t) THEN 0 ELSE 1
          /\ b.lineageRows = 0 /\ b.duplicates = 0 /\ b.errors = 0
          /\ b.trajectoriesValid = TRUE /\ b.lineageValid = TRUE
      BY <2>5 DEF Nothing
    <3> HIDE DEF b
    <3>2. /\ Expected(n).ids (+) b.ids = Expected(n + 1).ids
          /\ Expected(n).lineageIds (+) b.lineageIds = Expected(n + 1).lineageIds
      BY <2>7, <3>1 DEF Expected
    <3>3. Expected(n).covered \cup b.covered = Expected(n + 1).covered
      BY <3>1 DEF Expected
    <3>4. /\ Expected(n).accepted + b.accepted = Expected(n + 1).accepted
          /\ Expected(n).quarantined + b.quarantined = Expected(n + 1).quarantined
          /\ Expected(n).reasons + b.reasons = Expected(n + 1).reasons
      BY <2>6, <3>1 DEF Expected
    <3>5. /\ Expected(n).lineageRows + b.lineageRows = Expected(n + 1).lineageRows
          /\ Expected(n).duplicates + b.duplicates = Expected(n + 1).duplicates
          /\ Expected(n).errors + b.errors = Expected(n + 1).errors
      BY <3>1 DEF Expected
    <3>7. /\ (Expected(n).trajectoriesValid /\ b.trajectoriesValid) = Expected(n + 1).trajectoriesValid
          /\ (Expected(n).lineageValid /\ b.lineageValid) = Expected(n + 1).lineageValid
      <4>1. /\ Expected(n).trajectoriesValid = TRUE /\ Expected(n).lineageValid = TRUE
            /\ Expected(n + 1).trajectoriesValid = TRUE /\ Expected(n + 1).lineageValid = TRUE
        BY DEF Expected
      <4> QED
        BY <3>1, <4>1, Zenon
    <3>6. Merge(Expected(n), b) =
            [ ids |-> Expected(n + 1).ids, lineageIds |-> Expected(n + 1).lineageIds,
              covered |-> Expected(n + 1).covered,
              accepted |-> Expected(n + 1).accepted, quarantined |-> Expected(n + 1).quarantined,
              lineageRows |-> Expected(n + 1).lineageRows, duplicates |-> Expected(n + 1).duplicates,
              reasons |-> Expected(n + 1).reasons,
              trajectoriesValid |-> Expected(n + 1).trajectoriesValid,
              lineageValid |-> Expected(n + 1).lineageValid,
              errors |-> Expected(n + 1).errors ]
      BY <3>2, <3>3, <3>4, <3>5, <3>7, Zenon DEF Merge
    <3> QED
      BY <3>6 DEF b, Expected
  <2> QED
    BY <2>1, <2>2, <2>6, <2>8, <2>9
<1>4. \A n \in 0..N : n \in S
  <2> HIDE DEF S, N
  <2> QED
    BY <1>1, <1>2, <1>3, IntervalInduction
<1> QED
  BY <1>4

LEMMA Parted ==
  ASSUME NEW A, NEW B, IsFiniteSet(A), IsFiniteSet(B), A \cap B = {}
  PROVE  /\ IsFiniteSet(A \cup B) /\ Cardinality(A \cup B) = Cardinality(A) + Cardinality(B)
         /\ Cardinality(A) \in Nat /\ Cardinality(B) \in Nat
<1>1. Cardinality(A) \in Nat /\ Cardinality(B) \in Nat
  BY FS_CardinalityType
<1>2. /\ IsFiniteSet(A \cup B)
      /\ Cardinality(A \cup B) = Cardinality(A) + Cardinality(B) - Cardinality(A \cap B)
  BY FS_Union
<1> QED
  BY <1>1, <1>2, FS_EmptySet

(* The counts of the manifest, of every release: each row has a            *)
(* disposition and each source one outcome.                                *)
LEMMA Counts ==
  ASSUME Audited
  PROVE  /\ StrictIn(Rows) + OthersIn(Rows) = Cardinality(Rows)
         /\ StrictIn(Rows) \in Nat /\ OthersIn(Rows) \in Nat
         /\ Cardinality(Of({"eligible"})) + manifest.skipped + manifest.records = manifest.inputs
         /\ manifest.records \in Nat /\ manifest.skipped \in Nat /\ manifest.inputs \in Nat
         /\ WellFormed
<1>1. IsFiniteSet(Rows)
  BY RowFacts DEF Audited
<1>2. StrictIn(Rows) + OthersIn(Rows) = Cardinality(Rows) /\ StrictIn(Rows) \in Nat /\ OthersIn(Rows) \in Nat
  <2> DEFINE A == {t \in Rows : Strict(t)}
             B == {t \in Rows : ~Strict(t)}
  <2>1. A \in SUBSET Rows /\ B \in SUBSET Rows /\ A \cap B = {} /\ A \cup B = Rows
    OBVIOUS
  <2> HIDE DEF A, B
  <2>2. IsFiniteSet(A) /\ IsFiniteSet(B)
    BY <1>1, <2>1, FS_Subset
  <2>3. Cardinality(Rows) = Cardinality(A) + Cardinality(B) /\ Cardinality(A) \in Nat /\ Cardinality(B) \in Nat
    BY <2>1, <2>2, Parted
  <2> QED
    BY <2>3 DEF A, B, StrictIn, OthersIn
<1> DEFINE E == Of({"eligible"})
           K == Of({"skipped"})
           X == Of({"excluded"})
           F == Of({"failed"})
           D == DOMAIN Inputs
<1>3. /\ E \cup (K \cup Records) = D /\ E \cap (K \cup Records) = {} /\ K \cap Records = {}
      /\ X \subseteq Records /\ F \subseteq Records
      /\ E \subseteq D /\ K \subseteq D /\ Records \subseteq D /\ F \subseteq D /\ X \subseteq D
  <2>1. status = Inputs /\ \A s \in D : Inputs[s] \in {"eligible", "failed", "incomplete", "excluded", "skipped"}
    BY ReleaseAssumption DEF Audited, Outcomes
  <2> QED
    BY <2>1 DEF Of, Records
<1>4. /\ manifest.skipped = Cardinality(K) /\ manifest.records = Cardinality(Records)
      /\ manifest.excluded = Cardinality(X) /\ manifest.failures = Cardinality(F)
      /\ manifest.inputs = Cardinality(D)
  BY DEF Audited, Candidate
<1> HIDE DEF E, K, X, F, D
<1>5. IsFiniteSet(D)
  BY ReleaseAssumption DEF D
<1>6. IsFiniteSet(E) /\ IsFiniteSet(K) /\ IsFiniteSet(Records)
  BY <1>3, <1>5, FS_Subset
<1>7. /\ Cardinality(D) = Cardinality(E) + Cardinality(K) + Cardinality(Records)
      /\ Cardinality(E) \in Nat /\ Cardinality(K) \in Nat /\ Cardinality(Records) \in Nat
  <2>1. /\ IsFiniteSet(K \cup Records) /\ Cardinality(K) \in Nat /\ Cardinality(Records) \in Nat
        /\ Cardinality(K \cup Records) = Cardinality(K) + Cardinality(Records)
    BY <1>3, <1>6, Parted
  <2>2. /\ Cardinality(E \cup (K \cup Records)) = Cardinality(E) + Cardinality(K \cup Records)
        /\ Cardinality(E) \in Nat
    BY <1>3, <1>6, <2>1, Parted
  <2>3. Cardinality(E \cup (K \cup Records)) = Cardinality(D)
    BY <1>3
  <2> HIDE DEF Records
  <2> QED
    BY <2>1, <2>2, <2>3
<1>8. Cardinality(X) <= Cardinality(Records) /\ Cardinality(F) <= Cardinality(Records)
  BY <1>3, <1>6, FS_Subset
<1>9. Cardinality(X) \in Nat /\ Cardinality(F) \in Nat
  BY <1>3, <1>5, FS_Subset, FS_CardinalityType
<1>10. WellFormed
  BY <1>4, <1>7, <1>8, <1>9 DEF WellFormed, Least
<1> QED
  BY <1>2, <1>4, <1>7, <1>10 DEF E

LEMMA CleanAgrees ==
  ASSUME Audited, Clean, unlisted \in {"none", "before"}, observed = After[Len(Ids) + 1]
  PROVE  Agrees /\ observed.errors = 0
<1> DEFINE L == Len(Ids)
           a == Expected(L)
           b == Scan(L + 1)
<1>1. L \in Nat /\ Totals
  BY AuditTotals DEF Totals
<1>2. After[L] = a /\ observed = Merge(a, b)
  <2>1. L \in 0..L /\ L + 1 \in 1..L + 1 /\ (L + 1) - 1 = L
    BY <1>1
  <2> QED
    BY <1>1, <2>1, CleanPrefix DEF Totals
<1>3. First(L) = Rows
  BY ListingFacts DEF Audited, First
<1>4. b = [Nothing EXCEPT !.lineageIds = SetToBag(Rows), !.lineageRows = Cardinality(Rows),
                          !.covered = UNION {Origins(t) : t \in Rows},
                          !.duplicates = Duplicates(Rows), !.lineageValid = TRUE,
                          !.errors = 0]
  <2>1. objects[L + 1] = "whole" /\ File(L + 1).kind = "lineage"
    BY <1>1, FileFacts DEF Clean
  <2>2. {t \in Rows : Legible(t)} = Rows
    BY DEF Clean
  <2>3. Cardinality(Rows \ Rows) = 0
    <3>1. Rows \ Rows = {}
      OBVIOUS
    <3> QED
      BY <3>1, FS_EmptySet
  <2> QED
    BY <2>1, <2>2, <2>3 DEF Scan, ScanLineage
<1>5. /\ b.ids = EmptyBag /\ b.lineageIds = SetToBag(Rows) /\ b.covered = UNION {Origins(t) : t \in Rows}
      /\ b.accepted = 0 /\ b.quarantined = 0 /\ b.reasons = 0
      /\ b.lineageRows = Cardinality(Rows) /\ b.duplicates = Duplicates(Rows)
      /\ b.errors = 0
  <2> HIDE DEF b
  <2>1. /\ Nothing.ids = EmptyBag
        /\ Nothing.accepted = 0 /\ Nothing.quarantined = 0 /\ Nothing.reasons = 0
        /\ DOMAIN Nothing = { "ids", "lineageIds", "covered", "accepted", "quarantined",
                              "lineageRows", "duplicates", "reasons", "trajectoriesValid",
                              "lineageValid", "errors" }
    BY DEF Nothing
  <2> QED
    BY <1>4, <2>1
<1>6. /\ a.ids = SetToBag(Rows) /\ a.lineageIds = EmptyBag /\ a.covered = {}
      /\ a.accepted = StrictIn(Rows) /\ a.quarantined = OthersIn(Rows) /\ a.reasons = OthersIn(Rows)
      /\ a.lineageRows = 0 /\ a.duplicates = 0 /\ a.errors = 0
  BY <1>3 DEF Expected
<1> HIDE DEF a, b, L
<1>7. /\ Cardinality(Rows) \in Nat /\ Duplicates(Rows) \in Int
      /\ StrictIn(Rows) \in Nat /\ OthersIn(Rows) \in Nat
      /\ StrictIn(Rows) + OthersIn(Rows) = Cardinality(Rows)
  <2>1. Rows \in SUBSET Rows
    OBVIOUS
  <2>2. Cardinality(Rows) \in Nat /\ Cardinality(Links(Rows)) \in Nat
    BY <2>1, LinksFinite DEF Audited
  <2> QED
    BY <2>2, Counts DEF Duplicates
<1>8. /\ observed.ids = SetToBag(Rows) /\ observed.lineageIds = SetToBag(Rows)
  <2>1. Foreign \notin Rows
    BY ReleaseAssumption, RowFacts DEF Audited
  <2>2. SetToBag(Rows) (+) EmptyBag = SetToBag(Rows) /\ EmptyBag (+) SetToBag(Rows) = SetToBag(Rows)
    BY <2>1, BagOne
  <2> QED
    BY <1>2, <1>5, <1>6, <2>2 DEF Merge
<1>9. observed.covered = UNION {Origins(t) : t \in Rows}
  BY <1>2, <1>5, <1>6 DEF Merge
<1>10. /\ observed.accepted = StrictIn(Rows) /\ observed.quarantined = OthersIn(Rows)
       /\ observed.reasons = OthersIn(Rows) /\ observed.lineageRows = Cardinality(Rows)
       /\ observed.duplicates = Duplicates(Rows) /\ observed.errors = 0
  BY <1>2, <1>5, <1>6, <1>7 DEF Merge
<1>11. Unique(SetToBag(Rows))
  BY DEF Unique, SetToBag, BagToSet
<1>12. UNION {Origins(t) : t \in Rows} = Of({"eligible"})
  BY AuditedComplete DEF Audited, Complete, Of
<1>13. Cardinality({i \in DOMAIN manifest.files : File(i).kind = "lineage"}) = 1
  <2>1. {i \in DOMAIN manifest.files : File(i).kind = "lineage"} = {L + 1}
    <3>1. /\ DOMAIN manifest.files = 1..L + 1 /\ File(L + 1).kind = "lineage"
          /\ \A n \in 1..L : File(n).kind # "lineage"
      BY FileFacts DEF L
    <3>2. \A n \in 1..L + 1 : n \in 1..L \/ n = L + 1
      BY <1>1
    <3>3. L + 1 \in 1..L + 1
      BY <1>1
    <3> QED
      BY <3>1, <3>2, <3>3
  <2> QED
    BY <2>1, FS_Singleton
<1>14. /\ manifest.accepted = StrictIn(Rows) /\ manifest.quarantined = OthersIn(Rows)
       /\ manifest.duplicates = Duplicates(Rows)
       /\ manifest.reasons = OthersIn(Rows) + manifest.records
  BY DEF Audited, Candidate, StrictIn, OthersIn
<1>15. /\ Cardinality(Of({"eligible"})) + manifest.skipped + manifest.records = manifest.inputs
       /\ manifest.records \in Nat
  BY Counts
<1>16. observed.reasons + manifest.records <= manifest.reasons
  BY <1>7, <1>10, <1>14, <1>15
<1> QED
  BY <1>7, <1>8, <1>9, <1>10, <1>11, <1>12, <1>13, <1>14, <1>15, <1>16 DEF Agrees

-----------------------------------------------------------------------------
(* Branches of one session are numbered apart: Earlier is a strict order   *)
(* of the rows, so that of two branches the earlier has fewer before it.   *)
Made(t) == CreatedAt[trajectories[t][2]]

LEMMA EarlierOrders ==
  ASSUME Ready
  PROVE  /\ \A t \in RootIds : ~Earlier(t, t)
         /\ \A t, u \in RootIds : t # u => Earlier(t, u) \/ Earlier(u, t)
         /\ \A t, u, v \in RootIds : Earlier(t, u) /\ Earlier(u, v) => Earlier(t, v)
<1>1. \A t \in RootIds : Made(t) \in Nat
  BY ReleaseAssumption DEF Ready, Made
<1>2. \A t \in RootIds : Rank(t) \in Nat
  <2>1. Len(Ids) \in Nat
    BY ReleaseAssumption
  <2> QED
    BY <2>1, RankOf
<1>3. \A t, u \in RootIds : Rank(t) = Rank(u) => t = u
  BY RankOf
<1>4. \A t, u : Earlier(t, u) <=> Made(t) < Made(u) \/ (Made(t) = Made(u) /\ Rank(t) < Rank(u))
  BY DEF Earlier, Made
<1>5. ASSUME NEW t \in RootIds, NEW u \in RootIds, t # u PROVE Earlier(t, u) \/ Earlier(u, t)
  <2>1. Made(t) < Made(u) \/ Made(u) < Made(t) \/ Made(t) = Made(u)
    BY <1>1
  <2>2. Rank(t) < Rank(u) \/ Rank(u) < Rank(t)
    BY <1>2, <1>3, <1>5
  <2> QED
    BY <1>4, <2>1, <2>2
<1>6. ASSUME NEW t \in RootIds, NEW u \in RootIds, NEW v \in RootIds, Earlier(t, u), Earlier(u, v)
      PROVE  Earlier(t, v)
  BY <1>1, <1>2, <1>4, <1>6
<1>7. ASSUME NEW t \in RootIds PROVE ~Earlier(t, t)
  BY <1>1, <1>2, <1>4
<1> QED
  BY <1>5, <1>6, <1>7

LEMMA OrdinalsDiffer ==
  ASSUME Ready, discarded = {}, NEW t \in Rows, NEW u \in Rows,
         t \notin Synthesized, u \notin Synthesized, SessionOf[t] = SessionOf[u],
         Earlier(t, u)
  PROVE  Ordinal(t) # Ordinal(u)
<1> DEFINE A == {r \in Rows \ Synthesized : SessionOf[r] = SessionOf[t] /\ Earlier(r, t)}
           B == {r \in Rows \ Synthesized : SessionOf[r] = SessionOf[u] /\ Earlier(r, u)}
<1>1. Rows = RootIds /\ IsFiniteSet(Rows)
  BY RowFacts
<1>2. A \in SUBSET B /\ B \in SUBSET Rows
  BY <1>1, EarlierOrders
<1>3. t \in B /\ t \notin A
  BY <1>1, EarlierOrders
<1>4. Ordinal(t) = Cardinality(A) /\ Ordinal(u) = Cardinality(B)
  BY DEF Ordinal
<1> HIDE DEF A, B
<1>5. IsFiniteSet(B)
  BY <1>1, <1>2, FS_Subset
<1>6. Cardinality(B) = Cardinality(A) => B = A
  BY <1>2, <1>5, FS_Subset
<1> QED
  BY <1>3, <1>4, <1>6

LEMMA NamesDiffer ==
  ASSUME Ready, discarded = {}, number = [t \in Rows |-> Ordinal(t)]
  PROVE  \A t, u \in Rows : Name(t) = Name(u) => t = u
<1> SUFFICES ASSUME NEW t \in Rows, NEW u \in Rows, Name(t) = Name(u), t # u PROVE FALSE
  OBVIOUS
<1>1. Rows = RootIds
  BY RowFacts
<1>2. \A r \in Rows : r \in Synthesized \/ SessionOf[r] # "no_session_id"
  BY <1>1, ReleaseAssumption DEF RootIds
<1>3. Name(t).session = Name(u).session /\ Name(t).branch = Name(u).branch
  OBVIOUS
<1>4. ASSUME NEW r \in Rows
      PROVE  IF r \in Synthesized THEN Name(r).session = "no_session_id" /\ Name(r).branch = r
             ELSE Name(r).session = SessionOf[r] /\ Name(r).branch = Ordinal(r)
  BY DEF Name
<1>5. t \notin Synthesized /\ u \notin Synthesized
  BY <1>2, <1>3, <1>4
<1>6. SessionOf[t] = SessionOf[u] /\ Ordinal(t) = Ordinal(u)
  BY <1>3, <1>4, <1>5
<1>7. Earlier(t, u) \/ Earlier(u, t)
  BY <1>1, EarlierOrders
<1> QED
  BY <1>5, <1>6, <1>7, OrdinalsDiffer

-----------------------------------------------------------------------------
(* The verdicts                                                            *)
NumberedApart == phase = "export" => number = [t \in Rows |-> Ordinal(t)]

Deserved ==
  /\ phase = "accepted" => Whole
  /\ phase = "rejected" => ~Whole \/ \E t \in Rows : ~Legible(t)
  /\ phase = "aborted" =>
       unusable \/ \E t \in Rows : Bytes[t] > shardLimit

LEMMA InitDeserved == ReleaseInit => NumberedApart /\ Deserved
BY DEF ReleaseInit, NumberedApart, Deserved

LEMMA DeservedKept ==
  ASSUME Deserved, UNCHANGED <<Held, phase>>
  PROVE  Deserved'
<1>1. /\ Rows' = Rows /\ Whole' = Whole /\ phase' = phase
      /\ unusable' = unusable /\ shardLimit' = shardLimit
  BY DEF Rows, Whole, Held, vars, tables, numbering, release, published
<1>2. \A t : Legible(t)' = Legible(t)
  BY DEF Legible, Local, Origins, Held, vars, tables, numbering, release, published
<1> QED
  BY <1>1, <1>2 DEF Deserved

LEMMA ConcludeStep ==
  ASSUME Audited, Budgeted, Conclude, UNCHANGED vars
  PROVE  Deserved'
<1>1. /\ UNCHANGED Held /\ phase' = IF Agrees /\ observed.errors = 0 THEN "accepted" ELSE "rejected"
      /\ opened = Len(manifest.files) /\ Len(window) = 0
  BY DEF Conclude, Held
<1>2. Len(manifest.files) = Len(Ids) + 1 /\ Len(Ids) \in Nat
  BY AuditedTyped DEF ScansTyped
<1>3. observed = After[Len(Ids) + 1]
  BY <1>1, <1>2 DEF Budgeted
<1>4. DOMAIN objects = 1..Len(Ids) + 1
  BY DEF Audited
<1>5. Agrees /\ observed.errors = 0 => Whole
  BY <1>3, <1>4, ErrorsTell DEF Agrees, Whole
<1>6. Whole /\ (\A t \in Rows : Legible(t)) => Agrees /\ observed.errors = 0
  BY <1>3, <1>4, CleanAgrees DEF Clean, Whole
<1>7. Rows' = Rows /\ Whole' = Whole
  BY <1>1 DEF Rows, Whole, Held, vars, tables, numbering, published
<1>8. \A t : Legible(t)' = Legible(t)
  BY <1>1 DEF Legible, Local, Origins, Held, vars, tables, published
<1> QED
  BY <1>1, <1>5, <1>6, <1>7, <1>8 DEF Deserved

LEMMA DeservedStep ==
  ASSUME BInv, SInv, NInv, AInv, NumberedApart, Deserved, [ReleaseNext]_<<vars, releaseVars>>
  PROVE  NumberedApart' /\ Deserved'
<1>1. CASE UNCHANGED <<vars, releaseVars>>
  <2>1. Rows' = Rows /\ (\A t : Ordinal(t)' = Ordinal(t)) /\ phase' = phase /\ number' = number
    BY <1>1 DEF Rows, Ordinal, Earlier, vars, tables, releaseVars, numbering
  <2>2. UNCHANGED <<Held, phase>>
    BY <1>1 DEF Held, releaseVars
  <2> QED
    BY <2>1, <2>2, DeservedKept DEF NumberedApart
<1>2. CASE BuildStep \/ \E i \in 1..Last : WorkerStep(i)
  <2>1. phase = "build"
    <3>1. pc # "done"
      BY <1>2 DEF BuildStep, WorkerStep, Coordinate, Submit, RunInline, RefuseMemory,
                  Fillable, RefuseUnknownSize, StopFilling, Wait, StoreOldest,
                  StopDraining, EndScope, Finish
    <3> QED
      BY <3>1 DEF NInv
  <2> QED
    BY <1>2, <2>1 DEF BuildStep, WorkerStep, releaseVars, NumberedApart, Deserved
<1>3. CASE \E bad \in SUBSET Rows : ReadRows(bad)
  BY <1>3 DEF ReadRows, NumberedApart, Deserved
<1>4. ASSUME NEW bad \in SUBSET Rows, RewriteRows(bad), UNCHANGED vars
      PROVE  NumberedApart' /\ Deserved'
  <2>1. CASE phase' = "export"
    <3>1. discarded' = discarded /\ number' = [t \in Rows |-> Ordinal(t)]
      BY <1>4, <2>1 DEF RewriteRows
    <3>2. Rows' = Rows /\ \A t : Ordinal(t)' = Ordinal(t)
      BY <1>4, <3>1 DEF Rows, Ordinal, Earlier, vars, tables
    <3> QED
      BY <2>1, <3>1, <3>2 DEF NumberedApart, Deserved
  <2>2. CASE phase' # "export"
    <3>1. phase' \in {"number", "refused"}
      BY <1>4, <2>2 DEF RewriteRows
    <3> QED
      BY <3>1 DEF NumberedApart, Deserved
  <2> QED
    BY <2>1, <2>2
<1>5. ASSUME NEW limit \in ShardLimits, NEW bad \in BOOLEAN, Export(limit, bad), UNCHANGED vars
      PROVE  NumberedApart' /\ Deserved'
  <2>1. /\ phase = "export" /\ unusable' = bad /\ shardLimit' = limit
        /\ UNCHANGED <<numbering, vars>>
        /\ phase' = IF bad \/ ~Writable(limit) THEN "aborted" ELSE "publish"
    BY <1>5 DEF Export
  <2>2. Ready /\ discarded = {} /\ number = [t \in Rows |-> Ordinal(t)]
    BY <2>1, DoneReady DEF NInv, NumberedApart, Released
  <2>3. \A t, u \in Rows : Name(t) = Name(u) => t = u
    BY <2>2, NamesDiffer
  <2>4. \A t \in Rows : Bytes[t] \in Nat
    BY <2>2, RowFacts, ReleaseAssumption DEF RootIds
  <2>5. ASSUME ~Writable(limit) PROVE \E t \in Rows : Bytes[t] > limit
    <3>1. limit \in Nat
      BY ReleaseAssumption
    <3> QED
      BY <2>3, <2>4, <2>5, <3>1 DEF Writable
  <2>6. Rows' = Rows
    BY <2>1 DEF Rows, numbering, vars, tables
  <2> QED
    BY <2>1, <2>5, <2>6 DEF NumberedApart, Deserved
<1>6. CASE Publish /\ UNCHANGED vars
  <2>1. WellFormed
    <3>1. Audited'
      BY <1>6, DoneReady, PublishStep DEF Publish, NInv
    <3>2. WellFormed'
      BY <3>1, Counts, PTL
    <3> QED
      BY <1>6, <3>2 DEF Publish, WellFormed, release
  <2>2. phase' = "audit"
    BY <1>6, <2>1 DEF Publish
  <2> QED
    BY <2>2 DEF NumberedApart, Deserved
<1>7. CASE ScanNext \/ OpenFile \/ MergeOldest \/ TimeOut \/ AskAgain \/ Leave
           \/ \E i \in Positions : EndFile(i)
  BY <1>7 DEF ScanNext, OpenFile, MergeOldest, TimeOut, AskAgain, Leave, EndFile, Waiting,
              NumberedApart, Deserved
<1>8. CASE Conclude /\ UNCHANGED vars
  <2>1. Deserved'
    BY <1>8, ConcludeStep DEF AInv, Scanning, Conclude
  <2>2. phase' # "export"
    BY <1>8 DEF Conclude
  <2> QED
    BY <2>1, <2>2 DEF NumberedApart
<1> QED
  BY <1>1, <1>2, <1>3, <1>4, <1>5, <1>6, <1>7, <1>8
  DEF ReleaseNext, MainStep, ReleaseStep, FileStep

(* For every set of captures, whatever is damaged, late, too large or      *)
(* unreadable: validation accepts no release that is not whole and         *)
(* complete and rejects none that is, unless a lineage row is above the    *)
(* row limit; an export is aborted only by an unusable row or one above    *)
(* its own limit, so never because two branches share a name; and          *)
(* nothing is exported once a row has been discarded.                      *)
THEOREM VerdictDeserved == ReleaseSpec => []ReleaseExact
<1>1. ReleaseSpec => [](NumberedApart /\ Deserved)
  BY AuditInvariant, InitDeserved, DeservedStep, PTL DEF ReleaseSpec
<1>2. NInv /\ AInv /\ Deserved => ReleaseExact
  <2> SUFFICES ASSUME NInv, AInv, Deserved PROVE ReleaseExact
    OBVIOUS
  <2>1. phase = "accepted" => Complete
    BY AuditedComplete DEF AInv, Scanning
  <2>2. phase \in {"export", "publish", "audit"} => discarded = {}
    BY DEF NInv, Released
  <2> QED
    BY <2>1, <2>2 DEF Deserved, ReleaseExact
<1> QED
  BY <1>1, <1>2, AuditInvariant, PTL
=============================================================================
