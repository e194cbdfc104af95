------------------------------- MODULE Partitions -------------------------------
(***************************************************************************)
(* The monthly partitions of one table under PartitionManager              *)
(* (repository/partition_manager.go) and the maintenance job of supply-api *)
(* (app/background.go), which several replicas run: partitions are created *)
(* at start-up, and created and dropped again every hour.  Which month a   *)
(* partition is made for or dropped by is decided by time.AddDate, which   *)
(* carries a day the month does not have into the next month.              *)
(*                                                                         *)
(* A month is the number 12 * year + (month - 1).  The clock stops only at *)
(* the days of the month in Days: on the others nobody acts.  One table is *)
(* followed; a run ends early when a statement fails, for this table or    *)
(* for one before it.  The session is in UTC.                              *)
(***************************************************************************)
EXTENDS Integers

CONSTANTS
  Managers,     \* replicas that run the maintenance job
  FirstMonth,   \* the month in which the schema was installed
  LastMonth,    \* bound of the clock
  Days,         \* days of the month at which something may happen
  MaxLeft       \* bound of what a DropOldPartitions that breaks off leaves

ASSUME PartitionsAssumption ==
  /\ FirstMonth \in Nat /\ LastMonth \in Nat /\ FirstMonth <= LastMonth
  /\ Days \subseteq 1..31 /\ Days \cap 1..28 # {}
  /\ MaxLeft \in Nat

VARIABLES
  config,       \* the PartitionConfig of the table
  today,
  partitions,   \* the months that have a partition
  pc,           \* the statement each manager runs next
  hourly,       \* its run is one of the hourly loop, which goes on to drop
  offset,       \* i of EnsureFuturePartitions
  month,        \* the month of createPartition
  plain,        \* the month of all dates of the run, if their day is one that
                \* every month has, else 0 (history)
  ensured       \* plain of the last run that had one and got through (history)

mgrVars == <<pc, hourly, offset, month, plain>>
vars    == <<config, today, partitions, mgrVars, ensured>>

--------------------------------------------------------------------------------
Leap(y) == y % 4 = 0 /\ (y % 100 # 0 \/ y % 400 = 0)

\* The length of a month.
Length(m) ==
  CASE m % 12 = 1 -> IF Leap(m \div 12) THEN 29 ELSE 28
    [] m % 12 \in {3, 5, 8, 10} -> 30
    [] OTHER -> 31

Dates == [month : FirstMonth..LastMonth, day : 1..31]

NotAfter(d, e) == d.month < e.month \/ (d.month = e.month /\ d.day <= e.day)

\* The month of d.AddDate(0, k, 0): a day that month k does not have is carried over.
AddDateMonth(d, k) == IF d.day > Length(d.month + k) THEN d.month + k + 1 ELSE d.month + k

\* PostgreSQL's d + k months: such a day becomes the last of the month.
PlusMonths(d, k) ==
  [month |-> d.month + k,
   day   |-> IF d.day > Length(d.month + k) THEN Length(d.month + k) ELSE d.day]

Months == (FirstMonth - 12)..(LastMonth + 4)

\* NewPartitionManager: the configurations of the three tables.
Configs ==
  { [table |-> "audit_events",               retention |-> 12, pre |-> 3],
    [table |-> "supply_usage_records",       retention |-> 3,  pre |-> 3],
    [table |-> "supply_idempotency_records", retention |-> 1,  pre |-> 1] }

TypeOK ==
  /\ config \in Configs
  /\ today \in Dates /\ today.day <= Length(today.month)
  /\ partitions \subseteq Months
  /\ pc \in [Managers -> {"down", "idle", "check", "create", "next", "drop"}]
  /\ hourly \in [Managers -> BOOLEAN]
  /\ offset \in [Managers -> 0..config.pre]
  /\ month \in [Managers -> Months \cup {0}]
  /\ plain \in [Managers -> Months \cup {0}]
  /\ ensured \in Months \cup {0}

\* The schema script makes the partitions of the last 12 months and the next 3.
Init ==
  /\ config \in Configs
  /\ today = [month |-> FirstMonth, day |-> 1]
  /\ partitions = (FirstMonth - 12)..(FirstMonth + 3)
  /\ pc = [m \in Managers |-> "down"]
  /\ hourly = [m \in Managers |-> FALSE]
  /\ offset = [m \in Managers |-> 0]
  /\ month = [m \in Managers |-> 0]
  /\ plain = [m \in Managers |-> 0]
  /\ ensured = 0

--------------------------------------------------------------------------------
\* Manager m goes on with statement next, its run's variables cleared.
Goto(m, next) ==
  /\ pc' = [pc EXCEPT ![m] = next]
  /\ hourly' = [hourly EXCEPT ![m] = FALSE]
  /\ offset' = [offset EXCEPT ![m] = 0]
  /\ month' = [month EXCEPT ![m] = 0]
  /\ plain' = [plain EXCEPT ![m] = 0]

\* EnsureFuturePartitions begins, at start-up or at a tick of the loop.
Ensure(m, loop) ==
  /\ pc[m] = (IF loop THEN "idle" ELSE "down")
  /\ pc' = [pc EXCEPT ![m] = "check"]
  /\ hourly' = [hourly EXCEPT ![m] = loop]
  /\ plain' = [plain EXCEPT ![m] = today.month]
  /\ UNCHANGED <<config, today, partitions, offset, month, ensured>>

\* What follows EnsureFuturePartitions, whatever its result.
AfterEnsure(m) == IF hourly[m] THEN "drop" ELSE "idle"

\* createPartition for the date of now: the existence check.
Check(m) ==
  LET target == AddDateMonth(today, offset[m]) IN
  /\ pc[m] = "check"
  /\ month' = [month EXCEPT ![m] = target]
  /\ pc' = [pc EXCEPT ![m] = IF target \in partitions THEN "next" ELSE "create"]
  /\ plain' = [plain EXCEPT ![m] = IF today.month = @ /\ today.day <= 28 THEN @ ELSE 0]
  /\ UNCHANGED <<config, today, partitions, hourly, offset, ensured>>

\* The CREATE TABLE, which fails when another replica was faster.
CreatePartition(m) ==
  /\ pc[m] = "create" /\ month[m] \notin partitions
  /\ partitions' = partitions \cup {month[m]}
  /\ pc' = [pc EXCEPT ![m] = "next"]
  /\ UNCHANGED <<config, today, hourly, offset, month, plain, ensured>>

\* Mutant: the loop ends before PreCreateMonths.
LastOffsetShort == IF config.pre = 0 THEN 0 ELSE config.pre - 1

\* Mutant: the loop passes over its end.
LastOffsetLong == config.pre + 1

\* EnsureFuturePartitions looks PreCreateMonths ahead, the month of now included.
LastOffset == config.pre

\* The next offset, or the end of a run without errors.
NextOffset(m) ==
  /\ pc[m] = "next"
  /\ \/ /\ offset[m] < LastOffset
        /\ offset' = [offset EXCEPT ![m] = @ + 1]
        /\ pc' = [pc EXCEPT ![m] = "check"]
        /\ UNCHANGED <<hourly, month, plain, ensured>>
     \/ /\ offset[m] >= LastOffset
        /\ ensured' = IF plain[m] = 0 THEN ensured ELSE plain[m]
        /\ Goto(m, AfterEnsure(m))
  /\ UNCHANGED <<config, today, partitions>>

\* A statement of the run fails: the rest of it is left out.
EnsureFails(m) ==
  /\ pc[m] \in {"check", "create"}
  /\ Goto(m, AfterEnsure(m))
  /\ UNCHANGED <<config, today, partitions, ensured>>

\* Mutant: the partition of the cutoff goes too.
OldInclusive(cutoff) == {p \in partitions : p <= cutoff}

\* relname < cutoffPrefix.
Old(cutoff) == {p \in partitions : p < cutoff}

\* What a run that breaks off leaves of the partitions it meant to drop: the list has
\* no order, so it may be any of them; more than MaxLeft only if it is all of them.
LeftOver(old) == {old, {}} \cup {{f[i] : i \in DOMAIN f} : f \in [1..MaxLeft -> old]}

\* DropOldPartitions: lists the partitions below the cutoff and drops them, up to the
\* first statement that fails and but for names that cannot be read.  The statements
\* are one step: meanwhile the others create newer partitions or drop the same ones.
DropOldPartitions(m) ==
  LET old == Old(AddDateMonth(today, -config.retention)) IN
  /\ pc[m] = "drop"
  /\ \E left \in LeftOver(old) : partitions' = partitions \ (old \ left)
  /\ Goto(m, "idle")
  /\ UNCHANGED <<config, today, ensured>>

\* The process of m ends.
Stop(m) ==
  /\ pc[m] # "down"
  /\ Goto(m, "down")
  /\ UNCHANGED <<config, today, partitions, ensured>>

\* d is the day of Days that follows today, in this month or at the start of the next.
Later(d) ==
  /\ d > today.day /\ d <= Length(today.month)
  /\ \A e \in Days : e > today.day => d <= e

FirstOfNext(d) ==
  /\ \A e \in Days : e <= today.day \/ e > Length(today.month)
  /\ \A e \in Days : d <= e

\* Time passes, on to day d.  A run takes less than a day, so one under way sees at
\* most a single midnight.
NextDay(d) ==
  /\ \/ /\ Later(d)
        /\ today' = [today EXCEPT !.day = d]
        /\ d = today.day + 1 \/ \A m \in Managers : pc[m] \in {"down", "idle"}
     \/ /\ FirstOfNext(d) /\ today.month < LastMonth
        /\ today' = [month |-> today.month + 1, day |-> d]
        /\ \/ today.day = Length(today.month) /\ d = 1
           \/ \A m \in Managers : pc[m] \in {"down", "idle"}
  /\ UNCHANGED <<config, partitions, mgrVars, ensured>>

ManagerStep(m) ==
  \/ \E loop \in BOOLEAN : Ensure(m, loop)
  \/ Check(m) \/ CreatePartition(m) \/ NextOffset(m) \/ EnsureFails(m)
  \/ DropOldPartitions(m) \/ Stop(m)

Next ==
  \/ \E d \in Days : NextDay(d)
  \/ \E m \in Managers : ManagerStep(m)

Spec == Init /\ [][Next]_vars

--------------------------------------------------------------------------------
\* The last day of month p is RetentionMonths or more ago.
Elapsed(p) == NotAfter(PlusMonths([month |-> p, day |-> Length(p)], config.retention), today)

\* No row is dropped before its retention has passed: when a partition goes, its
\* last day is RetentionMonths or more ago, although the cutoff is computed with
\* AddDate, which at the end of a month may name a later month.
RetentionKept ==
  [][\A p \in partitions \ partitions' : Elapsed(p)]_vars

\* A run of EnsureFuturePartitions that got through on the 1st to the 28th leaves a
\* partition for its month and the PreCreateMonths after it, for as long as their
\* rows are retained, whatever other replicas create, drop or fail to do.
CoveredAhead ==
  ensured # 0 =>
    \A n \in ensured..(ensured + config.pre) : n \in partitions \/ Elapsed(n)

================================================================================
