---------------------------- MODULE SettlementProofs ----------------------------
(***************************************************************************)
(* Withdrawals, cancellations and payments, for any suppliers, ids and     *)
(* requests: the types, that the audit trail tells the truth, that of two  *)
(* open withdrawals one SELECT missed the other, and that a settlement is  *)
(* paid or cancelled and never both.                                       *)
(***************************************************************************)
EXTENDS Settlement, TLAPS

\* What request r knows when it runs its next statement.  What Cancel and the payer
\* read is still true of the row as long as the version is the one they read.
RequestOK(r) ==
  /\ pc[r] = "idle" => op[r] = "none" /\ row[r] = NoId
  /\ pc[r] \in {"balance", "lock", "rollback", "insert"} => op[r] = "withdraw" /\ row[r] = NoId
  /\ pc[r] = "commit" => op[r] = "withdraw" /\ row[r] \in Ids /\ status[row[r]] = "none"
  /\ pc[r] = "update" =>
       /\ row[r] \in Ids /\ status[row[r]] # "none"
       /\ seen[r].version <= version[row[r]]
       /\ seen[r].version = version[row[r]] => seen[r].status = status[row[r]]
       /\ \/ op[r] = "cancel" /\ seen[r].status \in {"pending", "failed"}
          \/ op[r] = "pay" /\ seen[r].status \in {"pending", "processing"}
  /\ pc[r] = "audit" =>
       /\ op[r] \in {"withdraw", "cancel"} /\ row[r] \in Ids /\ status[row[r]] # "none"
       /\ op[r] = "cancel" => status[row[r]] = "failed"

Requests == \A r \in Reqs : RequestOK(r)

\* Every withdrawal inserts a row of its own.
OwnRows ==
  \A p, q \in Reqs :
    p # q /\ op[p] = "withdraw" /\ op[q] = "withdraw" /\ row[p] = row[q] => row[p] = NoId

\* Request r has passed the SELECT of its transaction, and its withdrawal is or may
\* still become open.
Live(r) ==
  op[r] = "withdraw" /\ (pc[r] \in {"insert", "commit"} \/ row[r] \in Open(sup[r]))

\* DoubleWithdrawOnlyByRace from the moment both transactions have run their SELECT.
Races ==
  \A p, q \in Reqs :
    p # q /\ sup[p] = sup[q] /\ Live(p) /\ Live(q) => p \in missed[q] \/ q \in missed[p]

\* Races needs OwnRows (nobody else reopens a row); PaidOrCancelled and the audit
\* trail need what RequestOK says of Update.
IInv == TypeOK /\ Requests /\ OwnRows /\ Races /\ AuditTellsTruth

--------------------------------------------------------------------------------
\* A settlement is open only under an id.
LEMMA OpenIds == \A s : Open(s) \subseteq Ids
BY DEF Open

\* What is left to show for a step of request r that changes no row: what r then
\* knows, that the id it takes is its own, and that its SELECT missed whoever is live
\* beside it.
LEMMA RequestFrame ==
  ASSUME IInv, NEW r \in Reqs, TypeOK', UNCHANGED rowVars, AuditTellsTruth',
         \A q \in Reqs \ {r} :
           /\ pc'[q] = pc[q] /\ op'[q] = op[q] /\ sup'[q] = sup[q] /\ row'[q] = row[q]
           /\ seen'[q] = seen[q] /\ missed'[q] = missed[q],
         RequestOK(r)',
         op'[r] = "withdraw" /\ row'[r] # NoId =>
           \A q \in Reqs \ {r} : op[q] = "withdraw" => row[q] # row'[r],
         \/ ~Live(r)'
         \/ Live(r) /\ sup'[r] = sup[r] /\ missed'[r] = missed[r]
         \/ \A q \in Reqs \ {r} : Live(q) /\ sup[q] = sup'[r] => q \in missed'[r]
  PROVE  IInv'
<1>0. TypeOK /\ Requests /\ OwnRows /\ Races /\ AuditTellsTruth
  BY DEF IInv
<1>1. status' = status /\ version' = version /\ owner' = owner /\ number' = number
  BY DEF rowVars
<1>2. Requests'
  <2> SUFFICES ASSUME NEW q \in Reqs, q # r PROVE RequestOK(q)'
    BY DEF Requests
  <2>1. RequestOK(q)
    BY <1>0 DEF Requests
  <2> QED BY <1>1, <2>1 DEF RequestOK
<1>3. OwnRows'
  BY <1>0 DEF OwnRows
<1>4. \A q \in Reqs \ {r} : Live(q)' <=> Live(q)
  BY <1>1 DEF Live, Open
<1>5. Races'
  <2> SUFFICES ASSUME NEW p \in Reqs, NEW q \in Reqs, p # q, sup'[p] = sup'[q],
                      Live(p)', Live(q)'
               PROVE  p \in missed'[q] \/ q \in missed'[p]
    BY DEF Races
  <2>1. CASE p # r /\ q # r
    BY <1>0, <1>4, <2>1 DEF Races
  <2>2. CASE p = r
    BY <1>0, <1>4, <2>2 DEF Races
  <2>3. CASE q = r
    BY <1>0, <1>4, <2>3 DEF Races
  <2> QED BY <2>1, <2>2, <2>3
<1> QED BY <1>2, <1>3, <1>5 DEF IInv

\* A request that is answered keeps the types.
LEMMA AnswerTyping ==
  ASSUME TypeOK, NEW r \in Reqs, NEW o \in Outs, Answer(r, o)
  PROVE  /\ pc' \in [Reqs -> Pcs] /\ out' \in [Reqs -> Outs] /\ pc'[r] = "done"
         /\ \A q \in Reqs \ {r} : pc'[q] = pc[q]
BY DEF Answer, TypeOK, Pcs

\* A request that goes on to its next statement keeps the types.
LEMMA GotoTyping ==
  ASSUME TypeOK, NEW r \in Reqs, NEW next \in Pcs, Goto(r, next)
  PROVE  /\ pc' \in [Reqs -> Pcs] /\ out' \in [Reqs -> Outs] /\ pc'[r] = next
         /\ \A q \in Reqs \ {r} : pc'[q] = pc[q]
BY DEF Goto, TypeOK

\* The audit trail and the rows are left alone.
LEMMA AuditFrame ==
  ASSUME AuditTellsTruth, UNCHANGED <<rowVars, audit>>
  PROVE  AuditTellsTruth'
BY DEF AuditTellsTruth, rowVars

--------------------------------------------------------------------------------
\* HasPendingOrProcessingWithdraw changes no row.
LEMMA CheckPendingKeeps ==
  ASSUME IInv, NEW r \in Reqs, CheckPending(r)
  PROVE  IInv'
<1>0. TypeOK /\ Requests /\ AuditTellsTruth
  BY DEF IInv
<1>1. PICK s \in Suppliers :
        /\ sup' = [sup EXCEPT ![r] = s]
        /\ \/ Answer(r, "bad_code")
           \/ Open(s) # {} /\ Answer(r, "already_processing")
           \/ Open(s) = {} /\ Goto(r, "balance")
  BY DEF CheckPending
<1>2. /\ pc[r] = "idle" /\ op' = [op EXCEPT ![r] = "withdraw"]
      /\ UNCHANGED <<clock, rowVars, row, seen, num, held, missed, audit>>
  BY DEF CheckPending
<1>3. /\ pc' \in [Reqs -> Pcs] /\ out' \in [Reqs -> Outs] /\ pc'[r] \in {"done", "balance"}
      /\ \A q \in Reqs \ {r} : pc'[q] = pc[q]
  BY <1>0, <1>1, AnswerTyping, GotoTyping DEF Pcs, Outs
<1>4. /\ op' \in [Reqs -> Ops] /\ op'[r] = "withdraw" /\ \A q \in Reqs \ {r} : op'[q] = op[q]
      /\ sup' \in [Reqs -> Suppliers \cup {NoId}] /\ \A q \in Reqs \ {r} : sup'[q] = sup[q]
  BY <1>0, <1>1, <1>2 DEF TypeOK, Ops
<1>5. row'[r] = NoId
  BY <1>0, <1>2 DEF Requests, RequestOK
<1>6. TypeOK'
  BY <1>0, <1>2, <1>3, <1>4 DEF TypeOK, rowVars
<1>7. RequestOK(r)'
  BY <1>3, <1>4, <1>5 DEF RequestOK
<1>8. ~Live(r)'
  BY <1>3, <1>5, OpenIds, SettlementAssumption DEF Live, Open
<1>9. AuditTellsTruth'
  BY <1>0, <1>2, AuditFrame
<1> QED BY <1>2, <1>3, <1>4, <1>5, <1>6, <1>7, <1>8, <1>9, RequestFrame

\* The amount is compared with the balance and the number drawn; no row changes.
LEMMA CheckBalanceKeeps ==
  ASSUME IInv, NEW r \in Reqs, CheckBalance(r)
  PROVE  IInv'
<1>0. TypeOK /\ Requests /\ AuditTellsTruth
  BY DEF IInv
<1>1. /\ pc[r] = "balance"
      /\ UNCHANGED <<clock, rowVars, op, sup, row, seen, held, missed, audit>>
      /\ \/ Answer(r, "bad_amount") /\ UNCHANGED num
         \/ Answer(r, "exceeds_balance") /\ UNCHANGED num
         \/ Goto(r, "lock") /\ num' = [num EXCEPT ![r] = clock]
  BY DEF CheckBalance
<1>2. /\ pc' \in [Reqs -> Pcs] /\ out' \in [Reqs -> Outs] /\ pc'[r] \in {"done", "lock"}
      /\ \A q \in Reqs \ {r} : pc'[q] = pc[q]
  BY <1>0, <1>1, AnswerTyping, GotoTyping DEF Pcs, Outs
<1>3. num' \in [Reqs -> 0..MaxTime]
  BY <1>0, <1>1 DEF TypeOK
<1>4. op[r] = "withdraw" /\ row[r] = NoId
  BY <1>0, <1>1 DEF Requests, RequestOK
<1>5. TypeOK'
  BY <1>0, <1>1, <1>2, <1>3 DEF TypeOK, rowVars
<1>6. RequestOK(r)'
  BY <1>1, <1>2, <1>4 DEF RequestOK
<1>7. ~Live(r)'
  BY <1>1, <1>2, <1>4, OpenIds, SettlementAssumption DEF Live, Open
<1>8. AuditTellsTruth'
  BY <1>0, <1>1, AuditFrame
<1> QED BY <1>1, <1>2, <1>4, <1>5, <1>6, <1>7, <1>8, RequestFrame

\* The SELECT ... FOR UPDATE SKIP LOCKED: whoever is past its own SELECT and still
\* live is either found, or missed.
LEMMA LockExistingKeeps ==
  ASSUME IInv, NEW r \in Reqs, LockExisting(r)
  PROVE  IInv'
<1>0. TypeOK /\ Requests /\ AuditTellsTruth
  BY DEF IInv
<1> DEFINE found == Open(sup[r]) \ Locked(r)
<1>1. /\ pc[r] = "lock"
      /\ held' = [held EXCEPT ![r] = found]
      /\ missed' = [missed EXCEPT ![r] = Missed(r)]
      /\ pc' = [pc EXCEPT ![r] = IF found = {} THEN "insert" ELSE "rollback"]
      /\ UNCHANGED <<clock, rowVars, op, sup, row, seen, num, audit, out>>
  BY DEF LockExisting, Goto
<1>2. /\ pc' \in [Reqs -> Pcs] /\ pc'[r] = IF found = {} THEN "insert" ELSE "rollback"
      /\ \A q \in Reqs \ {r} : pc'[q] = pc[q]
  BY <1>0, <1>1 DEF TypeOK, Pcs
<1>3. /\ missed' \in [Reqs -> SUBSET Reqs] /\ missed'[r] = Missed(r)
      /\ \A q \in Reqs \ {r} : missed'[q] = missed[q]
  <2>1. Missed(r) \subseteq Reqs
    BY DEF Missed
  <2> QED BY <1>0, <1>1, <2>1 DEF TypeOK
<1>4. op[r] = "withdraw" /\ row[r] = NoId
  BY <1>0, <1>1 DEF Requests, RequestOK
<1>5. TypeOK'
  <2>1. held' \in [Reqs -> SUBSET Ids]
    BY <1>0, <1>1, OpenIds DEF TypeOK
  <2> QED BY <1>0, <1>1, <1>2, <1>3, <2>1 DEF TypeOK, rowVars
<1>6. RequestOK(r)'
  BY <1>1, <1>2, <1>4 DEF RequestOK
<1>7. AuditTellsTruth'
  BY <1>0, <1>1, AuditFrame
<1>8. \/ ~Live(r)'
      \/ \A q \in Reqs \ {r} : Live(q) /\ sup[q] = sup'[r] => q \in missed'[r]
  <2>1. CASE found # {}
    <3>1. pc'[r] = "rollback" /\ row'[r] = NoId
      BY <1>1, <1>2, <1>4, <2>1
    <3> QED BY <3>1, OpenIds, SettlementAssumption DEF Live, Open
  <2>2. CASE found = {}
    <3> SUFFICES ASSUME NEW q \in Reqs \ {r}, Live(q), sup[q] = sup[r] PROVE q \in Missed(r)
      BY <1>1, <1>3
    <3>1. CASE pc[q] \in {"insert", "commit"}
      BY <3>1 DEF Missed, Live
    <3>2. CASE row[q] \in Open(sup[r])
      BY <2>2, <3>2 DEF Missed, Live
    <3> QED BY <3>1, <3>2 DEF Live
  <2> QED BY <2>1, <2>2
<1> QED BY <1>1, <1>2, <1>3, <1>4, <1>5, <1>6, <1>7, <1>8, RequestFrame

\* A rollback leaves the rows as they were.
LEMMA RollbackKeeps ==
  ASSUME IInv, NEW r \in Reqs, Rollback(r)
  PROVE  IInv'
<1>0. TypeOK /\ Requests /\ AuditTellsTruth
  BY DEF IInv
<1>1. /\ pc[r] = "rollback" /\ held' = [held EXCEPT ![r] = {}]
      /\ Answer(r, "already_processing")
      /\ UNCHANGED <<clock, rowVars, op, sup, row, seen, num, missed, audit>>
  BY DEF Rollback
<1>2. /\ pc' \in [Reqs -> Pcs] /\ out' \in [Reqs -> Outs] /\ pc'[r] = "done"
      /\ \A q \in Reqs \ {r} : pc'[q] = pc[q]
  BY <1>0, <1>1, AnswerTyping DEF Outs
<1>3. op[r] = "withdraw" /\ row[r] = NoId
  BY <1>0, <1>1 DEF Requests, RequestOK
<1>4. TypeOK'
  BY <1>0, <1>1, <1>2 DEF TypeOK, rowVars
<1>5. RequestOK(r)'
  BY <1>2 DEF RequestOK
<1>6. ~Live(r)'
  BY <1>1, <1>2, <1>3, OpenIds, SettlementAssumption DEF Live, Open
<1>7. AuditTellsTruth'
  BY <1>0, <1>1, AuditFrame
<1> QED BY <1>1, <1>2, <1>3, <1>4, <1>5, <1>6, <1>7, RequestFrame

\* The INSERT draws an id that no other withdrawal has drawn.
LEMMA InsertKeeps ==
  ASSUME IInv, NEW r \in Reqs, Insert(r)
  PROVE  IInv'
<1>0. TypeOK /\ Requests /\ AuditTellsTruth
  BY DEF IInv
<1>1. /\ pc[r] = "insert"
      /\ UNCHANGED <<clock, rowVars, op, sup, seen, num, held, missed, audit>>
  BY DEF Insert
<1>2. op[r] = "withdraw" /\ row[r] = NoId
  BY <1>0, <1>1 DEF Requests, RequestOK
<1>3. AuditTellsTruth'
  BY <1>0, <1>1, AuditFrame
<1>4. CASE Answer(r, "duplicate_no") /\ UNCHANGED row
  <2>1. /\ pc' \in [Reqs -> Pcs] /\ out' \in [Reqs -> Outs] /\ pc'[r] = "done"
        /\ \A q \in Reqs \ {r} : pc'[q] = pc[q]
    BY <1>0, <1>4, AnswerTyping DEF Outs
  <2>2. TypeOK'
    BY <1>0, <1>1, <1>4, <2>1 DEF TypeOK, rowVars
  <2>3. RequestOK(r)'
    BY <2>1 DEF RequestOK
  <2>4. ~Live(r)'
    BY <1>2, <1>4, <2>1, OpenIds, SettlementAssumption DEF Live, Open
  <2> QED BY <1>1, <1>2, <1>3, <1>4, <2>1, <2>2, <2>3, <2>4, RequestFrame
<1>5. CASE (\E i \in FreeIds : row' = [row EXCEPT ![r] = i]) /\ Goto(r, "commit")
  <2>0. PICK i \in FreeIds : row' = [row EXCEPT ![r] = i]
    BY <1>5
  <2>1. /\ pc' \in [Reqs -> Pcs] /\ out' \in [Reqs -> Outs] /\ pc'[r] = "commit"
        /\ \A q \in Reqs \ {r} : pc'[q] = pc[q]
    BY <1>0, <1>5, GotoTyping DEF Pcs
  <2>2. /\ i \in Ids /\ status[i] = "none"
        /\ \A q \in Reqs : op[q] = "withdraw" => row[q] # i
    BY DEF FreeIds
  <2>3. /\ row' \in [Reqs -> Ids \cup {NoId}] /\ row'[r] = i
        /\ \A q \in Reqs \ {r} : row'[q] = row[q]
    BY <1>0, <2>0, <2>2 DEF TypeOK
  <2>4. TypeOK'
    BY <1>0, <1>1, <2>1, <2>3 DEF TypeOK, rowVars
  <2>5. RequestOK(r)'
    BY <1>1, <1>2, <2>1, <2>2, <2>3 DEF RequestOK, rowVars
  <2>6. Live(r)
    BY <1>1, <1>2 DEF Live
  <2> QED BY <1>1, <1>3, <2>1, <2>2, <2>3, <2>4, <2>5, <2>6, RequestFrame
<1> QED BY <1>4, <1>5 DEF Insert

\* GetByID and the status test of Cancel.
LEMMA CancelReadKeeps ==
  ASSUME IInv, NEW r \in Reqs, CancelRead(r)
  PROVE  IInv'
<1>0. TypeOK /\ Requests /\ AuditTellsTruth
  BY DEF IInv
<1>1. PICK s \in Suppliers, i \in Ids :
        /\ sup' = [sup EXCEPT ![r] = s]
        /\ row' = [row EXCEPT ![r] = i]
        /\ \/ Answer(r, "not_found") /\ UNCHANGED seen
           \/ Answer(r, "cannot_cancel") /\ UNCHANGED seen
           \/ /\ status[i] \in {"pending", "failed"}
              /\ seen' = [seen EXCEPT ![r] = [status |-> status[i], version |-> version[i]]]
              /\ Goto(r, "update")
  BY DEF CancelRead
<1>2. /\ pc[r] = "idle" /\ op' = [op EXCEPT ![r] = "cancel"]
      /\ UNCHANGED <<clock, rowVars, num, held, missed, audit>>
  BY DEF CancelRead
<1>3. /\ op' \in [Reqs -> Ops] /\ op'[r] = "cancel" /\ \A q \in Reqs \ {r} : op'[q] = op[q]
      /\ sup' \in [Reqs -> Suppliers \cup {NoId}] /\ \A q \in Reqs \ {r} : sup'[q] = sup[q]
      /\ row' \in [Reqs -> Ids \cup {NoId}] /\ row'[r] = i
      /\ \A q \in Reqs \ {r} : row'[q] = row[q]
  BY <1>0, <1>1, <1>2 DEF TypeOK, Ops
<1>4. AuditTellsTruth'
  BY <1>0, <1>2, AuditFrame
<1>5. ~Live(r)'
  BY <1>3 DEF Live
<1>6. CASE UNCHANGED seen /\ (Answer(r, "not_found") \/ Answer(r, "cannot_cancel"))
  <2>1. /\ pc' \in [Reqs -> Pcs] /\ out' \in [Reqs -> Outs] /\ pc'[r] = "done"
        /\ \A q \in Reqs \ {r} : pc'[q] = pc[q]
    BY <1>0, <1>6, AnswerTyping DEF Outs
  <2>2. TypeOK'
    BY <1>0, <1>2, <1>3, <1>6, <2>1 DEF TypeOK, rowVars
  <2>3. RequestOK(r)'
    BY <2>1 DEF RequestOK
  <2> QED BY <1>2, <1>3, <1>4, <1>5, <1>6, <2>1, <2>2, <2>3, RequestFrame
<1>7. CASE /\ status[i] \in {"pending", "failed"}
           /\ seen' = [seen EXCEPT ![r] = [status |-> status[i], version |-> version[i]]]
           /\ Goto(r, "update")
  <2>1. /\ pc' \in [Reqs -> Pcs] /\ out' \in [Reqs -> Outs] /\ pc'[r] = "update"
        /\ \A q \in Reqs \ {r} : pc'[q] = pc[q]
    BY <1>0, <1>7, GotoTyping DEF Pcs
  <2>2. /\ seen' \in [Reqs -> [status : Statuses, version : Nat]]
        /\ seen'[r] = [status |-> status[i], version |-> version[i]]
        /\ \A q \in Reqs \ {r} : seen'[q] = seen[q]
    BY <1>0, <1>7 DEF TypeOK
  <2>3. TypeOK'
    BY <1>0, <1>2, <1>3, <2>1, <2>2 DEF TypeOK, rowVars
  <2>4. RequestOK(r)'
    <3>1. version[i] \in Nat
      BY <1>0 DEF TypeOK
    <3>2. seen'[r].status = status[i] /\ seen'[r].version = version[i]
      BY <2>2
    <3> QED BY <1>2, <1>3, <1>7, <2>1, <3>1, <3>2 DEF RequestOK, rowVars
  <2> QED BY <1>2, <1>3, <1>4, <1>5, <2>1, <2>2, <2>3, <2>4, RequestFrame
<1> QED BY <1>1, <1>6, <1>7

\* The payer reads a settlement that is still to be paid.
LEMMA PayReadKeeps ==
  ASSUME IInv, NEW r \in Reqs, PayRead(r)
  PROVE  IInv'
<1>0. TypeOK /\ Requests /\ AuditTellsTruth
  BY DEF IInv
<1>1. PICK i \in Ids :
        /\ status[i] \in {"pending", "processing"}
        /\ sup' = [sup EXCEPT ![r] = owner[i]]
        /\ row' = [row EXCEPT ![r] = i]
        /\ seen' = [seen EXCEPT ![r] = [status |-> status[i], version |-> version[i]]]
  BY DEF PayRead
<1>2. /\ pc[r] = "idle" /\ op' = [op EXCEPT ![r] = "pay"] /\ Goto(r, "update")
      /\ UNCHANGED <<clock, rowVars, num, held, missed, audit>>
  BY DEF PayRead
<1>3. /\ op' \in [Reqs -> Ops] /\ op'[r] = "pay" /\ \A q \in Reqs \ {r} : op'[q] = op[q]
      /\ sup' \in [Reqs -> Suppliers \cup {NoId}] /\ \A q \in Reqs \ {r} : sup'[q] = sup[q]
      /\ row' \in [Reqs -> Ids \cup {NoId}] /\ row'[r] = i
      /\ \A q \in Reqs \ {r} : row'[q] = row[q]
  BY <1>0, <1>1, <1>2 DEF TypeOK, Ops
<1>4. AuditTellsTruth'
  BY <1>0, <1>2, AuditFrame
<1>5. ~Live(r)'
  BY <1>3 DEF Live
<1>6. /\ pc' \in [Reqs -> Pcs] /\ out' \in [Reqs -> Outs] /\ pc'[r] = "update"
      /\ \A q \in Reqs \ {r} : pc'[q] = pc[q]
  BY <1>0, <1>2, GotoTyping DEF Pcs
<1>7. /\ seen' \in [Reqs -> [status : Statuses, version : Nat]]
      /\ seen'[r] = [status |-> status[i], version |-> version[i]]
      /\ \A q \in Reqs \ {r} : seen'[q] = seen[q]
  BY <1>0, <1>1 DEF TypeOK
<1>8. TypeOK'
  BY <1>0, <1>2, <1>3, <1>6, <1>7 DEF TypeOK, rowVars
<1>9. RequestOK(r)'
  <2>1. version[i] \in Nat
    BY <1>0 DEF TypeOK
  <2>2. seen'[r].status = status[i] /\ seen'[r].version = version[i]
    BY <1>7
  <2> QED BY <1>1, <1>2, <1>3, <1>6, <2>1, <2>2 DEF RequestOK, rowVars
<1> QED BY <1>2, <1>3, <1>4, <1>5, <1>6, <1>7, <1>8, <1>9, RequestFrame

\* emitAudit reports what RequestOK says has happened.
LEMMA EmitAuditKeeps ==
  ASSUME IInv, NEW r \in Reqs, EmitAudit(r)
  PROVE  IInv'
<1>0. TypeOK /\ Requests /\ OwnRows /\ AuditTellsTruth
  BY DEF IInv
<1>1. /\ pc[r] = "audit" /\ Answer(r, "ok")
      /\ audit' = audit \cup {<<op[r], row[r]>>} \/ audit' = audit
      /\ UNCHANGED <<clock, rowVars, op, sup, row, seen, num, held, missed>>
  BY DEF EmitAudit
<1>2. /\ op[r] \in {"withdraw", "cancel"} /\ row[r] \in Ids /\ status[row[r]] # "none"
      /\ op[r] = "cancel" => status[row[r]] = "failed"
  BY <1>0, <1>1 DEF Requests, RequestOK
<1>3. /\ pc' \in [Reqs -> Pcs] /\ out' \in [Reqs -> Outs] /\ pc'[r] = "done"
      /\ \A q \in Reqs \ {r} : pc'[q] = pc[q]
  BY <1>0, <1>1, AnswerTyping DEF Outs
<1>4. TypeOK'
  <2>1. audit' \subseteq {"withdraw", "cancel"} \X Ids
    BY <1>0, <1>1, <1>2 DEF TypeOK
  <2> QED BY <1>0, <1>1, <1>3, <2>1 DEF TypeOK, rowVars
<1>5. AuditTellsTruth'
  <2>1. status' = status
    BY <1>1 DEF rowVars
  <2> QED BY <1>0, <1>1, <1>2, <2>1 DEF AuditTellsTruth
<1>6. RequestOK(r)'
  BY <1>3 DEF RequestOK
<1>7. Live(r)' => Live(r)
  BY <1>1, <1>3 DEF Live, Open, rowVars
<1>8. op[r] = "withdraw" /\ row[r] # NoId =>
        \A q \in Reqs \ {r} : op[q] = "withdraw" => row[q] # row[r]
  BY <1>0 DEF OwnRows
<1> QED BY <1>1, <1>3, <1>4, <1>5, <1>6, <1>7, <1>8, RequestFrame

--------------------------------------------------------------------------------
\* A step of r that makes its row visible: the row was nobody else's, so what the
\* others know stays true and no other withdrawal becomes live.
LEMMA InsertRowKeeps ==
  ASSUME IInv, NEW r \in Reqs, pc[r] = "commit", InsertRow(r),
         UNCHANGED <<clock, op, sup, row, seen, num, held, missed, audit>>,
         \/ Goto(r, "audit")
         \/ Answer(r, "commit_failed")
  PROVE  IInv'
<1>0. TypeOK /\ Requests /\ OwnRows /\ Races /\ AuditTellsTruth
  BY DEF IInv
<1> DEFINE i == row[r]
<1>1. op[r] = "withdraw" /\ i \in Ids /\ status[i] = "none" /\ i # NoId
  BY <1>0, SettlementAssumption DEF Requests, RequestOK
<1>2. /\ pc' \in [Reqs -> Pcs] /\ out' \in [Reqs -> Outs] /\ pc'[r] \in {"audit", "done"}
      /\ \A q \in Reqs \ {r} : pc'[q] = pc[q]
  BY <1>0, AnswerTyping, GotoTyping DEF Pcs, Outs
<1>3. /\ status' \in [Ids -> Statuses] /\ status'[i] = "pending"
      /\ version' \in [Ids -> Nat]
      /\ owner' \in [Ids -> Suppliers \cup {NoId}]
      /\ number' \in [Ids -> 0..MaxTime]
      /\ \A j \in Ids \ {i} :
           status'[j] = status[j] /\ version'[j] = version[j] /\ owner'[j] = owner[j]
  <2>1. /\ status' = [status EXCEPT ![i] = "pending"] /\ version' = [version EXCEPT ![i] = 0]
        /\ owner' = [owner EXCEPT ![i] = sup[r]] /\ number' = [number EXCEPT ![i] = num[r]]
    BY DEF InsertRow
  <2> QED BY <1>0, <1>1, <2>1 DEF TypeOK, Statuses
<1>4. \A q \in Reqs \ {r} : op[q] = "withdraw" => row[q] # i
  BY <1>0, <1>1 DEF OwnRows
<1>5. TypeOK'
  BY <1>0, <1>2, <1>3 DEF TypeOK
<1>6. Requests'
  <2> SUFFICES ASSUME NEW q \in Reqs PROVE RequestOK(q)'
    BY DEF Requests
  <2>1. CASE q = r
    BY <1>1, <1>2, <1>3, <2>1 DEF RequestOK
  <2>2. CASE q # r
    <3>1. RequestOK(q) /\ pc'[q] = pc[q]
      BY <1>0, <1>2, <2>2 DEF Requests
    <3>2. pc[q] \in {"commit", "update", "audit"} => row[q] \in Ids \ {i}
      BY <1>1, <1>4, <2>2, <3>1 DEF RequestOK
    <3>3. row[q] \in Ids \ {i} =>
            status'[row[q]] = status[row[q]] /\ version'[row[q]] = version[row[q]]
      BY <1>3
    <3> HIDE DEF i
    <3> QED BY <3>1, <3>2, <3>3 DEF RequestOK
  <2> QED BY <2>1, <2>2
<1>7. OwnRows'
  BY <1>0 DEF OwnRows
<1>8. \A q \in Reqs : Live(q)' => Live(q)
  <2> SUFFICES ASSUME NEW q \in Reqs, Live(q)' PROVE Live(q)
    OBVIOUS
  <2>1. CASE q = r
    BY <1>1, <2>1 DEF Live
  <2>2. CASE q # r
    <3>1. op[q] = "withdraw" /\ row[q] # i
      BY <1>4, <2>2 DEF Live
    <3>2. row'[q] \in Open(sup[q])' => row[q] \in Open(sup[q])
      BY <1>3, <3>1 DEF Open
    <3> QED BY <1>2, <2>2, <3>1, <3>2 DEF Live
  <2> QED BY <2>1, <2>2
<1>9. Races'
  BY <1>0, <1>8 DEF Races
<1>10. AuditTellsTruth'
  <2>1. \A e \in audit : e[2] \in Ids
    BY <1>0 DEF TypeOK
  <2> QED BY <1>0, <1>1, <1>3, <2>1 DEF AuditTellsTruth
<1> QED BY <1>5, <1>6, <1>7, <1>9, <1>10 DEF IInv

\* Commit makes the inserted row visible; one that fails may have done so or not.
LEMMA CommitKeeps ==
  ASSUME IInv, NEW r \in Reqs, Commit(r) \/ CommitFails(r)
  PROVE  IInv'
<1>0. TypeOK /\ Requests /\ OwnRows /\ AuditTellsTruth
  BY DEF IInv
<1>1. CASE InsertRow(r)
  BY <1>1, InsertRowKeeps DEF Commit, CommitFails
<1>2. CASE CommitFails(r) /\ UNCHANGED rowVars
  <2>1. /\ pc[r] = "commit" /\ Answer(r, "commit_failed")
        /\ UNCHANGED <<clock, op, sup, row, seen, num, held, missed, audit, rowVars>>
    BY <1>2 DEF CommitFails
  <2>2. op[r] = "withdraw" /\ row[r] \in Ids /\ status[row[r]] = "none"
    BY <1>0, <2>1 DEF Requests, RequestOK
  <2>3. /\ pc' \in [Reqs -> Pcs] /\ out' \in [Reqs -> Outs] /\ pc'[r] = "done"
        /\ \A q \in Reqs \ {r} : pc'[q] = pc[q]
    BY <1>0, <2>1, AnswerTyping DEF Outs
  <2>4. TypeOK'
    BY <1>0, <2>1, <2>3 DEF TypeOK, rowVars
  <2>5. RequestOK(r)'
    BY <2>3 DEF RequestOK
  <2>6. ~Live(r)'
    BY <2>1, <2>2, <2>3 DEF Live, Open, rowVars
  <2>7. AuditTellsTruth'
    BY <1>0, <2>1, AuditFrame
  <2>8. op[r] = "withdraw" /\ row[r] # NoId =>
          \A q \in Reqs \ {r} : op[q] = "withdraw" => row[q] # row[r]
    BY <1>0 DEF OwnRows
  <2> QED BY <2>1, <2>3, <2>4, <2>5, <2>6, <2>7, <2>8, RequestFrame
<1> QED BY <1>1, <1>2 DEF Commit, CommitFails

\* What an UPDATE that finds its version does to the row: it is open afterwards only
\* if it was before, and the order pending, processing, completed, or failed for good.
LEMMA UpdateEffect ==
  ASSUME IInv, NEW r \in Reqs, pc[r] = "update", version[row[r]] = seen[r].version
  PROVE  /\ row[r] \in Ids
         /\ \/ status[row[r]] = "pending" /\ NewStatus(r) \in {"failed", "processing"}
            \/ status[row[r]] = "processing" /\ NewStatus(r) = "completed"
            \/ status[row[r]] = "failed" /\ NewStatus(r) = "failed"
         /\ op[r] = "cancel" => NewStatus(r) = "failed"
<1>1. RequestOK(r)
  BY DEF IInv, Requests
<1>2. /\ row[r] \in Ids /\ seen[r].status = status[row[r]]
      /\ \/ op[r] = "cancel" /\ seen[r].status \in {"pending", "failed"}
         \/ op[r] = "pay" /\ seen[r].status \in {"pending", "processing"}
  BY <1>1 DEF RequestOK
<1>3. CASE op[r] = "cancel"
  <2>1. NewStatus(r) = "failed"
    BY <1>3 DEF NewStatus
  <2> QED BY <1>2, <1>3, <2>1
<1>4. CASE op[r] = "pay" /\ seen[r].status = "pending"
  <2>1. NewStatus(r) = "processing"
    BY <1>4 DEF NewStatus
  <2> QED BY <1>2, <1>4, <2>1
<1>5. CASE op[r] = "pay" /\ seen[r].status = "processing"
  <2>1. NewStatus(r) = "completed"
    BY <1>5 DEF NewStatus
  <2> QED BY <1>2, <1>5, <2>1
<1> QED BY <1>2, <1>3, <1>4, <1>5

\* UPDATE: the version grows, so that whoever read the row before will not find its
\* version any more.
LEMMA UpdateKeeps ==
  ASSUME IInv, NEW r \in Reqs, Update(r)
  PROVE  IInv'
<1>0. TypeOK /\ Requests /\ OwnRows /\ Races /\ AuditTellsTruth
  BY DEF IInv
<1> DEFINE i == row[r]
<1>1. /\ pc[r] = "update"
      /\ UNCHANGED <<clock, owner, number, op, sup, row, seen, num, held, missed, audit>>
  BY DEF Update
<1>2. i \in Ids /\ status[i] # "none" /\ op[r] \in {"cancel", "pay"}
  BY <1>0, <1>1 DEF Requests, RequestOK
<1>3. CASE Answer(r, "conflict") /\ UNCHANGED <<status, version>>
  <2>1. /\ pc' \in [Reqs -> Pcs] /\ out' \in [Reqs -> Outs] /\ pc'[r] = "done"
        /\ \A q \in Reqs \ {r} : pc'[q] = pc[q]
    BY <1>0, <1>3, AnswerTyping DEF Outs
  <2>2. UNCHANGED rowVars
    BY <1>1, <1>3 DEF rowVars
  <2>3. TypeOK'
    BY <1>0, <1>1, <1>3, <2>1 DEF TypeOK
  <2>4. RequestOK(r)'
    BY <2>1 DEF RequestOK
  <2>5. ~Live(r)'
    BY <1>1, <1>2 DEF Live
  <2>6. AuditTellsTruth'
    BY <1>0, <1>1, <2>2, AuditFrame
  <2> QED BY <1>1, <1>2, <2>1, <2>2, <2>3, <2>4, <2>5, <2>6, RequestFrame
<1>4. CASE /\ version[i] = seen[r].version
           /\ status' = [status EXCEPT ![i] = NewStatus(r)]
           /\ version' = [version EXCEPT ![i] = seen[r].version + 1]
           /\ IF op[r] = "cancel" THEN Goto(r, "audit") ELSE Answer(r, "ok")
  <2>1. /\ \/ status[i] = "pending" /\ NewStatus(r) \in {"failed", "processing"}
           \/ status[i] = "processing" /\ NewStatus(r) = "completed"
           \/ status[i] = "failed" /\ NewStatus(r) = "failed"
        /\ op[r] = "cancel" => NewStatus(r) = "failed"
    BY <1>1, <1>4, UpdateEffect
  <2>2. /\ pc' \in [Reqs -> Pcs] /\ out' \in [Reqs -> Outs]
        /\ pc'[r] = IF op[r] = "cancel" THEN "audit" ELSE "done"
        /\ \A q \in Reqs \ {r} : pc'[q] = pc[q]
    BY <1>0, <1>4, AnswerTyping, GotoTyping DEF Pcs, Outs
  <2>3. /\ status' \in [Ids -> Statuses] /\ status'[i] = NewStatus(r)
        /\ version' \in [Ids -> Nat] /\ version'[i] = version[i] + 1
        /\ \A j \in Ids \ {i} : status'[j] = status[j] /\ version'[j] = version[j]
    BY <1>0, <1>2, <1>4, <2>1 DEF TypeOK, Statuses
  <2>4. TypeOK'
    BY <1>0, <1>1, <2>2, <2>3 DEF TypeOK
  <2>5. Requests'
    <3> SUFFICES ASSUME NEW q \in Reqs PROVE RequestOK(q)'
      BY DEF Requests
    <3>1. CASE q = r
      BY <1>1, <1>2, <2>1, <2>2, <2>3, <3>1 DEF RequestOK
    <3>2. CASE q # r
      <4>1. RequestOK(q) /\ pc'[q] = pc[q]
        BY <1>0, <2>2, <3>2 DEF Requests
      <4>2. CASE row[q] # i
        <5>1. row[q] \in Ids => status'[row[q]] = status[row[q]] /\ version'[row[q]] = version[row[q]]
          BY <2>3, <4>2
        <5> HIDE DEF i
        <5> QED BY <1>1, <4>1, <5>1 DEF RequestOK
      <4>3. CASE row[q] = i
        <5>1. pc[q] # "commit"
          BY <1>2, <4>1, <4>3 DEF RequestOK
        <5>2. status'[row[q]] # "none"
          BY <2>1, <2>3, <4>3
        <5>3. status[row[q]] = "failed" => status'[row[q]] = "failed"
          BY <2>1, <2>3, <4>3
        <5>4. pc[q] = "update" => seen[q].version <= version'[row[q]] /\ seen[q].version # version'[row[q]]
          <6>1. version[i] \in Nat /\ seen[q].version \in Nat
            BY <1>0, <1>2 DEF TypeOK
          <6>2. pc[q] = "update" => seen[q].version <= version[i]
            BY <4>1, <4>3 DEF RequestOK
          <6> QED BY <2>3, <4>3, <6>1, <6>2
        <5> HIDE DEF i
        <5> QED BY <1>1, <4>1, <5>1, <5>2, <5>3, <5>4 DEF RequestOK
      <4> QED BY <4>2, <4>3
    <3> QED BY <3>1, <3>2
  <2>6. OwnRows'
    BY <1>0, <1>1 DEF OwnRows
  <2>7. \A q \in Reqs : Live(q)' => Live(q)
    <3> SUFFICES ASSUME NEW q \in Reqs, Live(q)' PROVE Live(q)
      OBVIOUS
    <3>1. q # r
      BY <1>1, <1>2 DEF Live
    <3>2. row'[q] \in Open(sup[q])' => row[q] \in Open(sup[q])
      BY <1>1, <2>1, <2>3 DEF Open
    <3> QED BY <1>1, <2>2, <3>1, <3>2 DEF Live
  <2>8. Races'
    BY <1>0, <1>1, <2>7 DEF Races
  <2>9. AuditTellsTruth'
    <3>1. \A e \in audit : e[2] \in Ids
      BY <1>0 DEF TypeOK
    <3> QED BY <1>0, <1>1, <2>1, <2>3, <3>1 DEF AuditTellsTruth
  <2> QED BY <2>4, <2>5, <2>6, <2>8, <2>9 DEF IInv
<1> QED BY <1>3, <1>4 DEF Update

\* The clock touches nothing else.
LEMMA TickKeeps == IInv /\ Tick => IInv'
<1> SUFFICES ASSUME IInv, Tick PROVE IInv'
  OBVIOUS
<1>1. clock' \in 0..MaxTime
  BY SettlementAssumption DEF IInv, TypeOK, Tick
<1>2. UNCHANGED <<status, version, owner, number, pc, op, sup, row, seen, num, held, missed, out,
                  audit>>
  BY DEF Tick, rowVars, reqVars
<1>3. TypeOK'
  BY <1>1, <1>2 DEF IInv, TypeOK
<1>4. Requests' /\ OwnRows' /\ Races' /\ AuditTellsTruth'
  BY <1>2 DEF IInv, Requests, RequestOK, OwnRows, Races, Live, Open, AuditTellsTruth
<1> QED BY <1>3, <1>4 DEF IInv

--------------------------------------------------------------------------------
\* The inductive invariant, kept by every interleaving of the statements.
THEOREM Invariance == Spec => []IInv
<1>1. Init => IInv
  <2> SUFFICES ASSUME Init PROVE IInv
    OBVIOUS
  <2>1. TypeOK
    BY SettlementAssumption DEF Init, TypeOK, Statuses, Ops, Pcs, Outs
  <2>2. Requests /\ OwnRows /\ Races /\ AuditTellsTruth
    BY DEF Init, Requests, RequestOK, OwnRows, Races, Live, AuditTellsTruth
  <2> QED BY <2>1, <2>2 DEF IInv
<1>2. IInv /\ [Next]_vars => IInv'
  <2> SUFFICES ASSUME IInv, [Next]_vars PROVE IInv'
    OBVIOUS
  <2>1. CASE Tick
    BY <2>1, TickKeeps
  <2>2. ASSUME NEW r \in Reqs,
               \/ CheckPending(r) \/ CheckBalance(r) \/ LockExisting(r) \/ Rollback(r)
               \/ Insert(r)       \/ Commit(r)       \/ CommitFails(r)
               \/ CancelRead(r)   \/ PayRead(r)      \/ Update(r)
               \/ EmitAudit(r)
        PROVE  IInv'
    <3>1. CASE CheckPending(r) BY <3>1, CheckPendingKeeps
    <3>2. CASE CheckBalance(r) BY <3>2, CheckBalanceKeeps
    <3>3. CASE LockExisting(r) BY <3>3, LockExistingKeeps
    <3>4. CASE Rollback(r) BY <3>4, RollbackKeeps
    <3>5. CASE Insert(r) BY <3>5, InsertKeeps
    <3>6. CASE Commit(r) \/ CommitFails(r) BY <3>6, CommitKeeps
    <3>7. CASE CancelRead(r) BY <3>7, CancelReadKeeps
    <3>8. CASE PayRead(r) BY <3>8, PayReadKeeps
    <3>9. CASE Update(r) BY <3>9, UpdateKeeps
    <3>10. CASE EmitAudit(r) BY <3>10, EmitAuditKeeps
    <3> QED BY <2>2, <3>1, <3>2, <3>3, <3>4, <3>5, <3>6, <3>7, <3>8, <3>9, <3>10
  <2>3. CASE UNCHANGED vars
    BY <2>3 DEF vars, rowVars, reqVars, IInv, TypeOK, Requests, RequestOK, OwnRows, Races, Live,
       Open, AuditTellsTruth
  <2> QED BY <2>1, <2>2, <2>3 DEF Next
<1> QED BY <1>1, <1>2, PTL DEF Spec

\* Every column and every request keeps its type.
THEOREM TypeCorrect == Spec => []TypeOK
BY Invariance, PTL DEF IInv

\* The audit store never claims a withdrawal or a cancellation that did not happen.
THEOREM AuditTruth == Spec => []AuditTellsTruth
BY Invariance, PTL DEF IInv

\* Of two open withdrawals of one supplier, the SELECT of one did not see the other,
\* which was uncommitted or locked by a third transaction when it ran.
THEOREM OnlyRacesDouble == Spec => []DoubleWithdrawOnlyByRace
<1>1. IInv => DoubleWithdrawOnlyByRace
  BY DEF IInv, Races, Live, DoubleWithdrawOnlyByRace
<1> QED BY <1>1, Invariance, PTL

\* A settlement that is being paid or has been paid is never failed by a Cancel, and
\* a cancelled one is never paid, whoever read it when.
THEOREM NeverBoth == Spec => PaidOrCancelled
<1> DEFINE Kept ==
      \A i \in Ids :
        /\ status[i] \in {"processing", "completed"} => status'[i] # "failed"
        /\ status[i] = "failed" => status'[i] = "failed"
<1>1. IInv /\ [Next]_vars => [Kept]_vars
  <2> SUFFICES ASSUME IInv, Next, NEW i \in Ids
               PROVE  /\ status[i] \in {"processing", "completed"} => status'[i] # "failed"
                      /\ status[i] = "failed" => status'[i] = "failed"
    OBVIOUS
  <2>0. TypeOK
    BY DEF IInv
  <2>1. CASE status' = status
    BY <2>1
  <2>2. ASSUME NEW r \in Reqs, Commit(r) \/ CommitFails(r), status' # status
        PROVE  status[row[r]] = "none" /\ status' = [status EXCEPT ![row[r]] = "pending"]
    BY <2>2 DEF Commit, CommitFails, InsertRow, rowVars, IInv, Requests, RequestOK
  <2>3. ASSUME NEW r \in Reqs, Update(r), status' # status
        PROVE  /\ \/ status[row[r]] = "pending" /\ NewStatus(r) \in {"failed", "processing"}
                  \/ status[row[r]] = "processing" /\ NewStatus(r) = "completed"
                  \/ status[row[r]] = "failed" /\ NewStatus(r) = "failed"
               /\ status' = [status EXCEPT ![row[r]] = NewStatus(r)]
    BY <2>3, UpdateEffect DEF Update
  <2>4. status' = status \/ \E r \in Reqs : Commit(r) \/ CommitFails(r) \/ Update(r)
    BY DEF Next, Tick, CheckPending, CheckBalance, LockExisting, Rollback, Insert, CancelRead,
       PayRead, EmitAudit, rowVars
  <2> QED BY <2>0, <2>1, <2>2, <2>3, <2>4 DEF TypeOK
<1> QED BY <1>1, Invariance, PTL DEF Spec, PaidOrCancelled

================================================================================
