---------------------------- MODULE PartitionsProofs ----------------------------
(***************************************************************************)
(* The partition job for any number of replicas and any months: its types, *)
(* that no partition is dropped before its retention has passed, and that  *)
(* a run on an ordinary day leaves its months covered.                     *)
(***************************************************************************)
EXTENDS Partitions, TLAPS

\* Month n has its partition, or needs it no more.
Covered(n) == n \in partitions \/ Elapsed(n)

\* A run whose dates were all ordinary days of one month has covered the months
\* before its offset, and after its statement the month at it.
RunOK(m) ==
  /\ pc[m] \in {"down", "idle", "drop"} => offset[m] = 0
  /\ plain[m] # 0 =>
       /\ pc[m] \in {"create", "next"} => month[m] = plain[m] + offset[m]
       /\ \A n \in plain[m]..(plain[m] + offset[m]) :
            n < plain[m] + offset[m] \/ pc[m] = "next" => Covered(n)

RunInv == \A m \in Managers : RunOK(m)

\* createPartition is about to make a partition for a month it computed.
MonthInv == \A m \in Managers : pc[m] = "create" => month[m] \in Months

IInv == TypeOK /\ MonthInv /\ CoveredAhead /\ RunInv

--------------------------------------------------------------------------------
\* Every month has 28 to 31 days.
LEMMA LengthRange == ASSUME NEW m \in Int PROVE Length(m) \in 28..31
BY DEF Length

\* The configurations, in numbers.
LEMMA ConfigRange ==
  ASSUME TypeOK
  PROVE  config.retention \in Nat /\ config.pre \in 0..3
BY DEF TypeOK, Configs

\* A retention that has passed stays passed.
LEMMA ElapsedStable ==
  ASSUME TypeOK, TypeOK', config' = config, NEW n \in Int, Elapsed(n),
         \/ today'.month > today.month
         \/ today'.month = today.month /\ today'.day >= today.day
  PROVE  Elapsed(n)'
<1> DEFINE e == PlusMonths([month |-> n, day |-> Length(n)], config.retention)
<1>1. Length(n) \in Int /\ Length(n + config.retention) \in Int
  BY LengthRange, ConfigRange
<1>2. e.month \in Int /\ e.day \in Int
  BY <1>1, ConfigRange DEF PlusMonths
<1>3. today.month \in Int /\ today.day \in Int /\ today'.month \in Int /\ today'.day \in Int
  BY PartitionsAssumption DEF TypeOK, Dates
<1>4. NotAfter(e, today)
  BY DEF Elapsed
<1>5. NotAfter(e, today')
  BY <1>2, <1>3, <1>4 DEF NotAfter
<1> QED BY <1>5 DEF Elapsed

\* What lies below the cutoff has its retention behind it, although AddDate may
\* carry the cutoff into the next month.
LEMMA OldIsElapsed ==
  ASSUME TypeOK, NEW p \in Old(AddDateMonth(today, -config.retention))
  PROVE  Elapsed(p)
<1> DEFINE k == config.retention
           d == today.day
           t == today.month
<1>1. k \in Nat /\ t \in Int /\ d \in Int /\ p \in Int
  BY ConfigRange, PartitionsAssumption DEF TypeOK, Dates, Old, Months
<1>2. p < (IF d > Length(t + (-k)) THEN t + (-k) + 1 ELSE t + (-k))
  BY DEF Old, AddDateMonth
<1>3. Length(p) \in Int /\ Length(p + k) \in Int /\ Length(t + (-k)) \in Int
  BY <1>1, LengthRange
<1>4. CASE p + k < t
  BY <1>1, <1>4 DEF Elapsed, NotAfter, PlusMonths
<1>5. CASE p + k = t /\ d > Length(p)
  BY <1>1, <1>3, <1>5 DEF Elapsed, NotAfter, PlusMonths
<1>6. p + k < t \/ (p = t + (-k) /\ d > Length(t + (-k)))
  BY <1>1, <1>2, <1>3
<1> QED BY <1>1, <1>4, <1>5, <1>6

\* A partition goes only in DropOldPartitions.
LEMMA DroppedIsOld ==
  ASSUME TypeOK, Next, NEW p \in partitions, p \notin partitions'
  PROVE  p \in Old(AddDateMonth(today, -config.retention)) /\ UNCHANGED <<config, today>>
<1>1. PICK m \in Managers : DropOldPartitions(m)
  BY DEF Next, NextDay, ManagerStep, Ensure, Check, CreatePartition, NextOffset, EnsureFails, Stop
<1> QED BY <1>1 DEF DropOldPartitions

\* Time never goes back.
LEMMA TimePasses ==
  ASSUME TypeOK, Next
  PROVE  /\ config' = config
         /\ \/ today'.month > today.month
            \/ today'.month = today.month /\ today'.day >= today.day
<1>1. today.month \in Int /\ today.day \in Int /\ today \in Dates
  BY PartitionsAssumption DEF TypeOK, Dates
<1>2. ASSUME NEW d \in Days, NextDay(d)
      PROVE  /\ config' = config
             /\ \/ today'.month > today.month
                \/ today'.month = today.month /\ today'.day >= today.day
  BY <1>1, <1>2, PartitionsAssumption DEF NextDay, Later, Dates
<1>3. ASSUME NEW m \in Managers, ManagerStep(m) PROVE UNCHANGED <<config, today>>
  BY <1>3 DEF ManagerStep, Ensure, Check, CreatePartition, NextOffset, EnsureFails,
     DropOldPartitions, Stop
<1> QED BY <1>1, <1>2, <1>3 DEF Next

\* A covered month stays covered.
LEMMA CoveredStable ==
  ASSUME TypeOK, TypeOK', Next, NEW n \in Int, Covered(n)
  PROVE  Covered(n)'
<1>1. CASE Elapsed(n)
  BY <1>1, ElapsedStable, TimePasses DEF Covered
<1>2. CASE n \in partitions
  <2>1. CASE n \notin partitions'
    BY <1>2, <2>1, DroppedIsOld, OldIsElapsed, ElapsedStable, TimePasses DEF Covered
  <2> QED BY <2>1 DEF Covered
<1> QED BY <1>1, <1>2 DEF Covered

--------------------------------------------------------------------------------
\* The month of a partition to be made is one the tables may have.
LEMMA TargetInRange ==
  ASSUME TypeOK, NEW m \in Managers
  PROVE  AddDateMonth(today, offset[m]) \in Months
<1>1. today.month \in FirstMonth..LastMonth /\ offset[m] \in 0..3
  <2>1. offset[m] \in 0..config.pre
    BY DEF TypeOK
  <2> QED BY <2>1, ConfigRange DEF TypeOK, Dates
<1>2. FirstMonth \in Int /\ LastMonth \in Int
  BY PartitionsAssumption
<1> QED BY <1>1, <1>2 DEF AddDateMonth, Months

\* Every step keeps the types, of the month of createPartition too.
LEMMA Typing == ASSUME TypeOK, MonthInv, Next PROVE TypeOK' /\ MonthInv'
<1> DEFINE Pcs == {"down", "idle", "check", "create", "next", "drop"}
<1>0. /\ FirstMonth \in Int /\ LastMonth \in Int /\ FirstMonth <= LastMonth
      /\ config.pre \in 0..3
  BY PartitionsAssumption, ConfigRange
<1>1. ASSUME NEW d \in Days, NextDay(d) PROVE TypeOK' /\ MonthInv'
  <2>1. today' \in Dates /\ today'.day <= Length(today'.month)
    <3>0. /\ d \in 1..31 /\ today \in Dates
          /\ today.month \in FirstMonth..LastMonth /\ today.day \in 1..31
      BY PartitionsAssumption DEF TypeOK, Dates
    <3>1. CASE Later(d) /\ today' = [today EXCEPT !.day = d]
      BY <3>0, <3>1 DEF Later, Dates
    <3>2. CASE FirstOfNext(d) /\ today.month < LastMonth /\ today' = [month |-> today.month + 1, day |-> d]
      <4>1. PICK e \in Days : e \in 1..28
        BY PartitionsAssumption
      <4>2. d <= 28
        BY <3>0, <3>2, <4>1 DEF FirstOfNext
      <4>3. Length(today.month + 1) \in 28..31
        BY <1>0, <3>0, LengthRange
      <4> QED BY <1>0, <3>0, <3>2, <4>2, <4>3 DEF Dates
    <3> QED BY <1>1, <3>1, <3>2 DEF NextDay
  <2> QED BY <1>1, <2>1 DEF NextDay, TypeOK, mgrVars, MonthInv
<1>2. ASSUME NEW m \in Managers, ManagerStep(m) PROVE TypeOK' /\ MonthInv'
  <2>0. UNCHANGED <<config, today>>
    BY <1>2 DEF ManagerStep, Ensure, Check, CreatePartition, NextOffset, EnsureFails,
       DropOldPartitions, Stop
  <2>1. ASSUME NEW next \in Pcs \ {"create"}, Goto(m, next), partitions' \subseteq Months, ensured' \in Months \cup {0}
        PROVE  TypeOK' /\ MonthInv'
    BY <1>0, <2>0, <2>1 DEF Goto, TypeOK, MonthInv
  <2>2. AfterEnsure(m) \in Pcs \ {"create"}
    BY DEF AfterEnsure
  <2>3. ASSUME NEW loop \in BOOLEAN, Ensure(m, loop) PROVE TypeOK' /\ MonthInv'
    <3>1. today.month \in Months
      BY <1>0 DEF TypeOK, Dates, Months
    <3> QED BY <2>3, <3>1 DEF Ensure, TypeOK, MonthInv
  <2>4. ASSUME Check(m) PROVE TypeOK' /\ MonthInv'
    BY <2>4, TargetInRange DEF Check, TypeOK, MonthInv
  <2>5. ASSUME CreatePartition(m) PROVE TypeOK' /\ MonthInv'
    <3>1. partitions' \subseteq Months
      BY <2>5 DEF CreatePartition, TypeOK, MonthInv
    <3> QED BY <2>5, <3>1 DEF CreatePartition, TypeOK, MonthInv
  <2>6. ASSUME NextOffset(m) PROVE TypeOK' /\ MonthInv'
    <3>1. CASE offset[m] < LastOffset /\ offset' = [offset EXCEPT ![m] = @ + 1]
      BY <1>0, <2>6, <3>1 DEF NextOffset, LastOffset, TypeOK, MonthInv
    <3>2. CASE offset[m] >= LastOffset /\ Goto(m, AfterEnsure(m))
      BY <1>0, <2>1, <2>2, <2>6, <3>2 DEF NextOffset, LastOffset, TypeOK
    <3> QED BY <2>6, <3>1, <3>2 DEF NextOffset
  <2>7. ASSUME EnsureFails(m) PROVE TypeOK' /\ MonthInv'
    BY <2>1, <2>2, <2>7 DEF EnsureFails, TypeOK
  <2>8. ASSUME DropOldPartitions(m) PROVE TypeOK' /\ MonthInv'
    BY <2>1, <2>8 DEF DropOldPartitions, TypeOK
  <2>9. ASSUME Stop(m) PROVE TypeOK' /\ MonthInv'
    BY <2>1, <2>9 DEF Stop, TypeOK
  <2> QED BY <1>2, <2>3, <2>4, <2>5, <2>6, <2>7, <2>8, <2>9 DEF ManagerStep
<1> QED BY <1>1, <1>2 DEF Next

--------------------------------------------------------------------------------
\* The numbers of a manager.
LEMMA Numbers ==
  ASSUME TypeOK, NEW m \in Managers
  PROVE  plain[m] \in Int /\ offset[m] \in 0..config.pre /\ month[m] \in Int
BY PartitionsAssumption DEF TypeOK, Months

\* Whatever the others do, a manager that does not move keeps what it covered.
LEMMA RunFrame ==
  ASSUME TypeOK, TypeOK', Next, NEW m \in Managers, RunOK(m),
         pc'[m] = pc[m], offset'[m] = offset[m], month'[m] = month[m], plain'[m] = plain[m]
  PROVE  RunOK(m)'
<1>1. plain[m] \in Int /\ offset[m] \in Int /\ month[m] \in Int
  BY Numbers, ConfigRange
<1>2. \A n \in Int : Covered(n) => Covered(n)'
  BY CoveredStable
<1> QED BY <1>1, <1>2 DEF RunOK

\* A manager that ends its run has nothing to keep.
LEMMA RunEnds ==
  ASSUME TypeOK, NEW m \in Managers, NEW next \in {"down", "idle", "drop"}, Goto(m, next)
  PROVE  RunOK(m)'
BY DEF Goto, RunOK, TypeOK

\* The step of a manager keeps its own run.
LEMMA RunStep ==
  ASSUME IInv, TypeOK', Next, NEW m \in Managers, ManagerStep(m)
  PROVE  RunOK(m)'
<1>0. TypeOK /\ RunOK(m)
  BY DEF IInv, RunInv
<1>1. plain[m] \in Int /\ offset[m] \in 0..config.pre /\ offset[m] \in Nat /\ month[m] \in Int /\ today.month \in Int
  BY <1>0, Numbers, ConfigRange, PartitionsAssumption DEF TypeOK, Dates
<1>2. \A n \in Int : Covered(n) => Covered(n)'
  BY <1>0, CoveredStable
<1>3. ASSUME NEW loop \in BOOLEAN, Ensure(m, loop) PROVE RunOK(m)'
  BY <1>0, <1>1, <1>3 DEF Ensure, RunOK, TypeOK
<1>4. ASSUME Check(m) PROVE RunOK(m)'
  <2> DEFINE target == AddDateMonth(today, offset[m])
  <2>1. /\ pc[m] = "check" /\ offset'[m] = offset[m] /\ month'[m] = target
        /\ pc'[m] = IF target \in partitions THEN "next" ELSE "create"
        /\ plain'[m] = IF today.month = plain[m] /\ today.day <= 28 THEN plain[m] ELSE 0
        /\ partitions' = partitions
    BY <1>0, <1>4 DEF Check, TypeOK
  <2>2. ASSUME plain'[m] # 0 PROVE target = plain[m] + offset[m] /\ plain'[m] = plain[m]
    <3>1. today.month = plain[m] /\ today.day <= 28
      BY <2>1, <2>2
    <3>2. Length(today.month + offset[m]) \in 28..31
      BY <1>1, LengthRange
    <3>3. today.day \in Int
      BY <1>0 DEF TypeOK, Dates
    <3> QED BY <1>1, <2>1, <3>1, <3>2, <3>3 DEF AddDateMonth
  <2>3. ASSUME plain'[m] # 0, NEW n \in plain[m]..(plain[m] + offset[m]),
               n < plain[m] + offset[m] \/ pc'[m] = "next"
        PROVE  Covered(n)'
    <3>1. CASE n < plain[m] + offset[m]
      BY <1>0, <1>1, <1>2, <2>2, <2>3, <3>1 DEF RunOK
    <3>2. CASE n = plain[m] + offset[m] /\ pc'[m] = "next"
      BY <2>1, <2>2, <2>3, <3>2 DEF Covered
    <3> QED BY <1>1, <2>3, <3>1, <3>2
  <2> QED BY <2>1, <2>2, <2>3 DEF RunOK
<1>5. ASSUME CreatePartition(m) PROVE RunOK(m)'
  <2>1. /\ pc[m] = "create" /\ pc'[m] = "next" /\ month[m] \in partitions'
        /\ offset' = offset /\ plain' = plain /\ month' = month
    BY <1>0, <1>5 DEF CreatePartition, TypeOK
  <2>2. ASSUME plain[m] # 0, NEW n \in plain[m]..(plain[m] + offset[m]) PROVE Covered(n)'
    <3>1. CASE n < plain[m] + offset[m]
      BY <1>0, <1>1, <1>2, <2>2, <3>1 DEF RunOK
    <3>2. CASE n = plain[m] + offset[m]
      BY <1>0, <2>1, <2>2, <3>2 DEF RunOK, Covered
    <3> QED BY <1>1, <2>2, <3>1, <3>2
  <2> QED BY <1>0, <2>1, <2>2 DEF RunOK
<1>6. ASSUME NextOffset(m) PROVE RunOK(m)'
  <2>1. CASE offset' = [offset EXCEPT ![m] = @ + 1] /\ pc' = [pc EXCEPT ![m] = "check"] /\ UNCHANGED <<month, plain>>
    <3>1. offset'[m] = offset[m] + 1 /\ pc'[m] = "check" /\ pc[m] = "next"
      BY <1>0, <1>6, <2>1 DEF NextOffset, TypeOK
    <3>2. ASSUME plain[m] # 0, NEW n \in plain[m]..(plain[m] + offset[m]) PROVE Covered(n)'
      BY <1>0, <1>1, <1>2, <3>1, <3>2 DEF RunOK
    <3> QED BY <1>1, <2>1, <3>1, <3>2 DEF RunOK
  <2>2. CASE Goto(m, AfterEnsure(m))
    BY <1>0, <2>2, RunEnds DEF AfterEnsure
  <2> QED BY <1>6, <2>1, <2>2 DEF NextOffset
<1>7. ASSUME EnsureFails(m) \/ DropOldPartitions(m) \/ Stop(m) PROVE RunOK(m)'
  BY <1>0, <1>7, RunEnds DEF EnsureFails, DropOldPartitions, Stop, AfterEnsure
<1> QED BY <1>3, <1>4, <1>5, <1>6, <1>7 DEF ManagerStep

\* The run that got through covered all its months, and what is covered stays so.
LEMMA CoveredStep ==
  ASSUME IInv, TypeOK', Next
  PROVE  CoveredAhead'
<1>0. TypeOK /\ RunInv /\ CoveredAhead
  BY DEF IInv
<1>1. \A n \in Int : Covered(n) => Covered(n)'
  BY <1>0, CoveredStable
<1>2. config' = config /\ config.pre \in 0..3
  BY <1>0, TimePasses, ConfigRange
<1>3. CASE ensured' = ensured
  <2>1. ensured \in Int
    BY <1>0, PartitionsAssumption DEF TypeOK, Months
  <2>2. ASSUME ensured # 0, NEW n \in ensured..(ensured + config.pre) PROVE Covered(n)'
    BY <1>0, <1>1, <1>2, <2>1, <2>2 DEF CoveredAhead, Covered
  <2> QED BY <1>2, <1>3, <2>2 DEF CoveredAhead, Covered
<1>4. CASE ensured' # ensured
  <2>1. PICK m \in Managers : /\ pc[m] = "next" /\ offset[m] >= LastOffset
                              /\ plain[m] # 0 /\ ensured' = plain[m]
    BY <1>4 DEF Next, NextDay, ManagerStep, Ensure, Check, CreatePartition, NextOffset,
       EnsureFails, DropOldPartitions, Stop
  <2>2. plain[m] \in Int /\ offset[m] = config.pre
    BY <1>0, <1>2, <2>1, Numbers DEF LastOffset
  <2>3. ASSUME NEW n \in plain[m]..(plain[m] + config.pre) PROVE Covered(n)'
    <3>1. RunOK(m)
      BY <1>0 DEF RunInv
    <3> QED BY <1>1, <1>2, <2>1, <2>2, <2>3, <3>1 DEF RunOK
  <2> QED BY <1>2, <2>1, <2>3 DEF CoveredAhead, Covered
<1> QED BY <1>3, <1>4

--------------------------------------------------------------------------------
\* The inductive invariant of the partition job.
THEOREM Invariance == Spec => []IInv
<1>1. Init => IInv
  <2> SUFFICES ASSUME Init PROVE IInv
    OBVIOUS
  <2>0. /\ FirstMonth \in Nat /\ LastMonth \in Nat /\ FirstMonth <= LastMonth
        /\ config \in Configs /\ config.pre \in 0..3
    BY PartitionsAssumption DEF Init, Configs
  <2>1. TypeOK
    <3>1. Length(FirstMonth) \in 28..31
      BY <2>0, LengthRange
    <3> QED BY <2>0, <3>1 DEF Init, TypeOK, Dates, Months
  <2>2. MonthInv /\ CoveredAhead /\ RunInv
    BY DEF Init, MonthInv, CoveredAhead, RunInv, RunOK
  <2> QED BY <2>1, <2>2 DEF IInv
<1>2. IInv /\ [Next]_vars => IInv'
  <2> SUFFICES ASSUME IInv, [Next]_vars PROVE IInv'
    OBVIOUS
  <2>1. CASE UNCHANGED vars
    BY <2>1 DEF vars, mgrVars, IInv, TypeOK, MonthInv, CoveredAhead, RunInv, RunOK, Covered, Elapsed
  <2>2. CASE Next
    <3>1. TypeOK' /\ MonthInv'
      BY <2>2, Typing DEF IInv
    <3>2. CoveredAhead'
      BY <2>2, <3>1, CoveredStep
    <3>3. ASSUME NEW m \in Managers PROVE RunOK(m)'
      <4>1. CASE ManagerStep(m)
        BY <2>2, <3>1, <4>1, RunStep
      <4>2. CASE ~ManagerStep(m)
        <5>1. pc'[m] = pc[m] /\ offset'[m] = offset[m] /\ month'[m] = month[m] /\ plain'[m] = plain[m]
          <6>1. CASE \E d \in Days : NextDay(d)
            BY <6>1 DEF NextDay, mgrVars
          <6>2. ASSUME NEW q \in Managers, q # m, ManagerStep(q)
                PROVE  pc'[m] = pc[m] /\ offset'[m] = offset[m] /\ month'[m] = month[m] /\ plain'[m] = plain[m]
            BY <6>2 DEF IInv, TypeOK, ManagerStep, Ensure, Check, CreatePartition, NextOffset,
               EnsureFails, DropOldPartitions, Stop, Goto
          <6> QED BY <2>2, <4>2, <6>1, <6>2 DEF Next
        <5> QED BY <2>2, <3>1, <5>1, RunFrame DEF IInv, RunInv
      <4> QED BY <4>1, <4>2
    <3> QED BY <3>1, <3>2, <3>3 DEF IInv, RunInv
  <2> QED BY <2>1, <2>2
<1> QED BY <1>1, <1>2, PTL DEF Spec

\* The clock, the partitions and the managers keep their types.
THEOREM TypeCorrect == Spec => []TypeOK
<1>1. IInv => TypeOK
  BY DEF IInv
<1> QED BY <1>1, Invariance, PTL

\* A run that got through on an ordinary day leaves its months covered.
THEOREM MonthsCovered == Spec => []CoveredAhead
<1>1. IInv => CoveredAhead
  BY DEF IInv
<1> QED BY <1>1, Invariance, PTL

\* No partition goes before its retention has passed, whatever the day of the month.
THEOREM RetentionObserved == Spec => RetentionKept
<1>1. IInv /\ [Next]_vars => [\A p \in partitions \ partitions' : Elapsed(p)]_vars
  BY DroppedIsOld, OldIsElapsed DEF IInv, vars
<1> QED BY <1>1, Invariance, PTL DEF Spec, RetentionKept

================================================================================
