------------------------------- MODULE Settlement -------------------------------
(***************************************************************************)
(* Withdrawals of supply-api with the database store: Withdraw and Cancel  *)
(* of settlementService (domain/settlement.go) over the statements of      *)
(* SettlementRepository (repository/settlement.go) as DBSettlementStore    *)
(* groups them into transactions (adapter/adapter.go).  Requests           *)
(* interleave between any two SQL statements.                              *)
(*                                                                         *)
(* PostgreSQL runs at READ COMMITTED: a statement sees committed rows, a   *)
(* row lock is held until the transaction ends, an UPDATE waits for it and *)
(* SKIP LOCKED passes it over.  settlement_no is UNIQUE                    *)
(* (sql/postgresql/supply_core_schema_v2.sql:111).  Nothing in this        *)
(* repository moves a settlement to processing or completed; the payer     *)
(* that does is external, and uses the repository's Update.                *)
(***************************************************************************)
EXTENDS Integers, FiniteSets

CONSTANTS
  Suppliers,   \* suppliers that withdraw
  Ids,         \* values of the id sequence
  NoId,        \* no settlement
  Reqs,        \* requests that may arrive
  Amounts,     \* amounts that are asked for
  Balance,     \* GetWithdrawableBalance of every supplier
  MaxTime      \* bound of the clock, in seconds

ASSUME SettlementAssumption ==
  /\ NoId \notin Ids
  /\ Amounts \subseteq Int /\ Balance \in Int /\ MaxTime \in Nat

VARIABLES
  clock,       \* time.Now(), at the granularity of generateSettlementNo
  status,      \* the committed rows of supply_settlements, "none" without one
  version,
  owner,
  number,
  pc,          \* the statement each request runs next
  op,          \* what the request does: withdraw, cancel or pay
  sup,         \* its supplier
  row,         \* the id it reads or inserts
  seen,        \* the status and version GetByID returned
  num,         \* the settlement number it drew
  held,        \* rows its transaction has locked
  missed,      \* withdrawals its SELECT did not see (history)
  out,         \* its answer
  audit        \* events of the audit store: <<action, settlement>>

rowVars == <<status, version, owner, number>>
reqVars == <<pc, op, sup, row, seen, num, held, missed, out>>
vars    == <<clock, rowVars, reqVars, audit>>

Statuses == {"none", "pending", "processing", "completed", "failed"}
Ops      == {"none", "withdraw", "cancel", "pay"}
Pcs      == {"idle", "balance", "lock", "rollback", "insert", "commit", "update",
             "audit", "done"}
Outs     == {"none", "bad_code", "bad_amount", "exceeds_balance", "not_found",
             "already_processing", "duplicate_no", "commit_failed", "cannot_cancel",
             "conflict", "ok"}

TypeOK ==
  /\ clock \in 0..MaxTime
  /\ status \in [Ids -> Statuses]
  /\ version \in [Ids -> Nat]
  /\ owner \in [Ids -> Suppliers \cup {NoId}]
  /\ number \in [Ids -> 0..MaxTime]
  /\ pc \in [Reqs -> Pcs]
  /\ op \in [Reqs -> Ops]
  /\ sup \in [Reqs -> Suppliers \cup {NoId}]
  /\ row \in [Reqs -> Ids \cup {NoId}]
  /\ seen \in [Reqs -> [status : Statuses, version : Nat]]
  /\ num \in [Reqs -> 0..MaxTime]
  /\ held \in [Reqs -> SUBSET Ids]
  /\ missed \in [Reqs -> SUBSET Reqs]
  /\ out \in [Reqs -> Outs]
  /\ audit \subseteq {"withdraw", "cancel"} \X Ids

Init ==
  /\ clock = 0
  /\ status = [i \in Ids |-> "none"]
  /\ version = [i \in Ids |-> 0]
  /\ owner = [i \in Ids |-> NoId]
  /\ number = [i \in Ids |-> 0]
  /\ pc = [r \in Reqs |-> "idle"]
  /\ op = [r \in Reqs |-> "none"]
  /\ sup = [r \in Reqs |-> NoId]
  /\ row = [r \in Reqs |-> NoId]
  /\ seen = [r \in Reqs |-> [status |-> "none", version |-> 0]]
  /\ num = [r \in Reqs |-> 0]
  /\ held = [r \in Reqs |-> {}]
  /\ missed = [r \in Reqs |-> {}]
  /\ out = [r \in Reqs |-> "none"]
  /\ audit = {}

--------------------------------------------------------------------------------
Goto(r, next) == pc' = [pc EXCEPT ![r] = next] /\ UNCHANGED out

Answer(r, o) == pc' = [pc EXCEPT ![r] = "done"] /\ out' = [out EXCEPT ![r] = o]

\* The withdrawals of a supplier that are pending or processing.
Open(s) == {i \in Ids : owner[i] = s /\ status[i] \in {"pending", "processing"}}

Locked(r) == UNION {held[q] : q \in Reqs \ {r}}

\* The ids the sequence has not produced yet, for a row or for a failed INSERT.
FreeIds ==
  {i \in Ids : status[i] = "none" /\ \A q \in Reqs : op[q] = "withdraw" => row[q] # i}

\* Withdraw: the SMS code, then HasPendingOrProcessingWithdraw.
CheckPending(r) ==
  /\ pc[r] = "idle"
  /\ op' = [op EXCEPT ![r] = "withdraw"]
  /\ \E s \in Suppliers :
       /\ sup' = [sup EXCEPT ![r] = s]
       /\ \/ Answer(r, "bad_code")
          \/ Open(s) # {} /\ Answer(r, "already_processing")
          \/ Open(s) = {} /\ Goto(r, "balance")
  /\ UNCHANGED <<clock, rowVars, row, seen, num, held, missed, audit>>

\* Withdraw: the amount against the balance, then generateSettlementNo.
CheckBalance(r) ==
  /\ pc[r] = "balance"
  /\ \E a \in Amounts :
       \/ a <= 0 /\ Answer(r, "bad_amount") /\ UNCHANGED num
       \/ a > 0 /\ a > Balance /\ Answer(r, "exceeds_balance") /\ UNCHANGED num
       \/ a > 0 /\ a <= Balance /\ Goto(r, "lock") /\ num' = [num EXCEPT ![r] = clock]
  /\ UNCHANGED <<clock, rowVars, op, sup, row, seen, held, missed, audit>>

\* The withdrawals of its supplier that the SELECT of r does not see: past their own
\* SELECT and not committed, or open in a row that SKIP LOCKED passes over.
Missed(r) ==
  {q \in Reqs \ {r} :
     /\ op[q] = "withdraw" /\ sup[q] = sup[r]
     /\ pc[q] \in {"insert", "commit"} \/ row[q] \in Open(sup[r]) \cap Locked(r)}

\* Mutant: the INSERT is not preceded by the SELECT.
InsertAtOnce(r) ==
  /\ pc[r] = "lock"
  /\ missed' = [missed EXCEPT ![r] = Missed(r)]
  /\ Goto(r, "insert")
  /\ UNCHANGED <<clock, rowVars, op, sup, row, seen, num, held, audit>>

\* CreateWithdrawTx, first statement: SELECT ... FOR UPDATE SKIP LOCKED.
LockExisting(r) ==
  LET found == Open(sup[r]) \ Locked(r) IN
  /\ pc[r] = "lock"
  /\ held' = [held EXCEPT ![r] = found]
  /\ missed' = [missed EXCEPT ![r] = Missed(r)]
  /\ Goto(r, IF found = {} THEN "insert" ELSE "rollback")
  /\ UNCHANGED <<clock, rowVars, op, sup, row, seen, num, audit>>

\* The deferred Rollback after a row was found.
Rollback(r) ==
  /\ pc[r] = "rollback"
  /\ held' = [held EXCEPT ![r] = {}]
  /\ Answer(r, "already_processing")
  /\ UNCHANGED <<clock, rowVars, op, sup, row, seen, num, missed, audit>>

\* CreateWithdrawTx, second statement: INSERT, which waits for another transaction
\* that has inserted the same settlement_no and fails on a committed one.
Insert(r) ==
  /\ pc[r] = "insert"
  /\ \A q \in Reqs : pc[q] = "commit" => num[q] # num[r]
  /\ \/ /\ \E i \in Ids : status[i] # "none" /\ number[i] = num[r]
        /\ Answer(r, "duplicate_no")
        /\ UNCHANGED row
     \/ /\ \A i \in Ids : status[i] # "none" => number[i] # num[r]
        /\ \E i \in FreeIds : row' = [row EXCEPT ![r] = i]
        /\ Goto(r, "commit")
  /\ UNCHANGED <<clock, rowVars, op, sup, seen, num, held, missed, audit>>

\* The row of r becomes visible.
InsertRow(r) ==
  /\ status' = [status EXCEPT ![row[r]] = "pending"]
  /\ version' = [version EXCEPT ![row[r]] = 0]
  /\ owner' = [owner EXCEPT ![row[r]] = sup[r]]
  /\ number' = [number EXCEPT ![row[r]] = num[r]]

Commit(r) ==
  /\ pc[r] = "commit"
  /\ InsertRow(r)
  /\ Goto(r, "audit")
  /\ UNCHANGED <<clock, op, sup, row, seen, num, held, missed, audit>>

\* Mutant: the error of Commit is ignored.
CommitUnchecked(r) ==
  /\ pc[r] = "commit"
  /\ Goto(r, "audit")
  /\ UNCHANGED <<clock, rowVars, op, sup, row, seen, num, held, missed, audit>>

\* Commit fails: the connection is lost before it, or after it took effect.
CommitFails(r) ==
  /\ pc[r] = "commit"
  /\ UNCHANGED rowVars \/ InsertRow(r)
  /\ Answer(r, "commit_failed")
  /\ UNCHANGED <<clock, op, sup, row, seen, num, held, missed, audit>>

\* Cancel: GetByID and the status test.
CancelRead(r) ==
  /\ pc[r] = "idle"
  /\ op' = [op EXCEPT ![r] = "cancel"]
  /\ \E s \in Suppliers, i \in Ids :
       /\ sup' = [sup EXCEPT ![r] = s]
       /\ row' = [row EXCEPT ![r] = i]
       /\ \/ /\ status[i] = "none" \/ owner[i] # s
             /\ Answer(r, "not_found") /\ UNCHANGED seen
          \/ /\ owner[i] = s /\ status[i] \in {"processing", "completed"}
             /\ Answer(r, "cannot_cancel") /\ UNCHANGED seen
          \/ /\ owner[i] = s /\ status[i] \in {"pending", "failed"}
             /\ seen' = [seen EXCEPT ![r] = [status |-> status[i], version |-> version[i]]]
             /\ Goto(r, "update")
  /\ UNCHANGED <<clock, rowVars, num, held, missed, audit>>

\* The payer reads a settlement that is still to be paid.  External.
PayRead(r) ==
  /\ pc[r] = "idle"
  /\ op' = [op EXCEPT ![r] = "pay"]
  /\ \E i \in Ids :
       /\ status[i] \in {"pending", "processing"}
       /\ sup' = [sup EXCEPT ![r] = owner[i]]
       /\ row' = [row EXCEPT ![r] = i]
       /\ seen' = [seen EXCEPT ![r] = [status |-> status[i], version |-> version[i]]]
  /\ Goto(r, "update")
  /\ UNCHANGED <<clock, rowVars, num, held, missed, audit>>

\* Mutant: Cancel writes a status that the table does not have.
NewStatusCancelled(r) ==
  CASE op[r] = "cancel"                               -> "cancelled"
    [] op[r] = "pay" /\ seen[r].status = "pending"    -> "processing"
    [] op[r] = "pay" /\ seen[r].status = "processing" -> "completed"

\* The status a request writes with Update.
NewStatus(r) ==
  CASE op[r] = "cancel"                               -> "failed"
    [] op[r] = "pay" /\ seen[r].status = "pending"    -> "processing"
    [] op[r] = "pay" /\ seen[r].status = "processing" -> "completed"

\* Mutant: UPDATE ... WHERE id = $10 AND user_id = $11, without the version.
UpdateByIdOnly(r) ==
  /\ pc[r] = "update"
  /\ row[r] \notin Locked(r)
  /\ status' = [status EXCEPT ![row[r]] = NewStatus(r)]
  /\ version' = [version EXCEPT ![row[r]] = seen[r].version + 1]
  /\ IF op[r] = "cancel" THEN Goto(r, "audit") ELSE Answer(r, "ok")
  /\ UNCHANGED <<clock, owner, number, op, sup, row, seen, num, held, missed, audit>>

\* UPDATE ... WHERE id = $10 AND user_id = $11 AND version = $12.
Update(r) ==
  /\ pc[r] = "update"
  /\ row[r] \notin Locked(r)
  /\ \/ /\ version[row[r]] = seen[r].version
        /\ status' = [status EXCEPT ![row[r]] = NewStatus(r)]
        /\ version' = [version EXCEPT ![row[r]] = seen[r].version + 1]
        /\ IF op[r] = "cancel" THEN Goto(r, "audit") ELSE Answer(r, "ok")
     \/ /\ version[row[r]] # seen[r].version
        /\ Answer(r, "conflict")
        /\ UNCHANGED <<status, version>>
  /\ UNCHANGED <<clock, owner, number, op, sup, row, seen, num, held, missed, audit>>

\* emitAudit: a failure of the audit store is only logged.
EmitAudit(r) ==
  /\ pc[r] = "audit"
  /\ \/ audit' = audit \cup {<<op[r], row[r]>>}
     \/ UNCHANGED audit
  /\ Answer(r, "ok")
  /\ UNCHANGED <<clock, rowVars, op, sup, row, seen, num, held, missed>>

Tick ==
  /\ clock < MaxTime
  /\ clock' = clock + 1
  /\ UNCHANGED <<rowVars, reqVars, audit>>

Next ==
  \/ Tick
  \/ \E r \in Reqs :
       \/ CheckPending(r) \/ CheckBalance(r) \/ LockExisting(r) \/ Rollback(r)
       \/ Insert(r)       \/ Commit(r)       \/ CommitFails(r)
       \/ CancelRead(r)   \/ PayRead(r)      \/ Update(r)
       \/ EmitAudit(r)

Spec == Init /\ [][Next]_vars

--------------------------------------------------------------------------------
\* INV-SET-001, for concurrent requests: a settlement that is being paid or has
\* been paid is never failed by a Cancel that read it earlier, and a settlement
\* that a Cancel failed is never paid (the optimistic lock of Update).
PaidOrCancelled ==
  [][\A i \in Ids :
       /\ status[i] \in {"processing", "completed"} => status'[i] # "failed"
       /\ status[i] = "failed" => status'[i] = "failed"]_vars

\* The audit trail never claims what did not happen: an audited withdrawal is in
\* the table, and an audited cancellation stays cancelled.
AuditTellsTruth ==
  /\ \A e \in audit : status[e[2]] # "none"
  /\ \A e \in audit : e[1] = "cancel" => status[e[2]] = "failed"

\* Two withdrawals of one supplier are open at once only if the SELECT of one of the
\* two did not see the other: it had not committed, or a third transaction had its
\* row locked.  A withdrawal that was committed and free when the SELECT ran excludes
\* the second, even if HasPendingOrProcessingWithdraw had let it pass before.
DoubleWithdrawOnlyByRace ==
  \A p, q \in Reqs :
    /\ p # q /\ sup[p] = sup[q]
    /\ op[p] = "withdraw" /\ row[p] \in Open(sup[p])
    /\ op[q] = "withdraw" /\ row[q] \in Open(sup[q])
    => p \in missed[q] \/ q \in missed[p]

\* repository/settlement.go:295: CreateWithdrawTx makes sure that a supplier has
\* at most one withdrawal that is pending or processing.
OneOpenWithdrawal == \A s \in Suppliers : Cardinality(Open(s)) <= 1
================================================================================
