---------------------------- MODULE IdempotencyProofs ----------------------------
(***************************************************************************)
(* The idempotency middleware, for any requests, payloads and lifetimes,   *)
(* with and without the unique key: its types, that a recorded effect is   *)
(* not repeated while its record is valid, and, with the key, that a free  *)
(* key turns nobody away.                                                  *)
(***************************************************************************)
EXTENDS Idempotency, TLAPS

\* The stages of request r.
StageOK(r) ==
  /\ pc[r] \in {"idle", "acquire", "recheck", "execute"} => out[r] = "none"
  /\ pc[r] = "update" => out[r] \in {"created", "failed"}
  /\ pc[r] \in {"execute", "update"} => lock[r] # 0
  /\ lookedAt[r] <= clock
  /\ r \in effects => pc[r] \in {"update", "done"}
  /\ r \in effects /\ pc[r] = "update" => r \in lost \/ out[r] = "created"
  /\ r \in owed => pc[r] # "idle"
  /\ stray[r] # 0 => r \in lost
  /\ r \in lost => pc[r] \notin {"idle", "acquire"}
  /\ earlier[r] \subseteq effects

Stages ==
  /\ nextId # 0
  /\ row.id # 0 => row.status # "none"
  /\ \A r \in Reqs : StageOK(r)

\* A request that is not in raced is alone past GetByKey.
Overlaps == \A p, q \in InFlight : p # q => p \in raced

\* While a request is alone the row stays as it got it until it ends, or its lease
\* does; a key it found free stays free until it is taken, and then is taken.
Locks ==
  \A r \in Reqs \ raced :
    /\ pc[r] \in {"execute", "update"} /\ r \notin lost =>
         \/ row.id = lock[r] /\ lease[r] <= row.expiresAt
         \/ lease[r] <= clock
    /\ pc[r] = "acquire" /\ r \in owed => row.id = 0 \/ row.expiresAt <= lookedAt[r]
    /\ pc[r] = "recheck" /\ r \in owed => ~UniqueKey

\* The effect of a request that was alone and whose outcome was written is on record
\* until its lease ends, and nobody passes GetByKey before that.
Recorded ==
  \A p \in effects \ (raced \cup lost) : pc[p] = "done" =>
    /\ \/ lease[p] <= clock
       \/ /\ row.id # 0 /\ row.status = "succeeded" /\ row.hasCode
          /\ lease[p] <= row.expiresAt
    /\ \A q \in InFlight : lease[p] <= lookedAt[q]

\* Overlaps turns the interleaving into a sequence for the requests that were alone;
\* Recorded is what the sequence keeps between two of them, Locks what it keeps
\* within one.
IInv ==
  /\ TypeOK /\ Stages /\ Overlaps /\ Locks /\ Recorded
  /\ RecordedEffectOnce /\ (UniqueKey => FreeKeyIsHandled)

--------------------------------------------------------------------------------
\* The answers GetByKey may lead to; a visible record of a recorded success stops
\* every request.
LEMMA Verdicts ==
  ASSUME TypeOK, row.id # 0 => row.status # "none", NEW b \in Payloads
  PROVE  /\ LookupVerdict(b) \in {"pass", "check_failed", "replay", "mismatch", "in_progress"}
         /\ ~Visible => LookupVerdict(b) = "pass"
         /\ Visible /\ row.hasCode /\ row.status = "succeeded" => LookupVerdict(b) # "pass"
<1>1. CASE ~Visible
  BY <1>1 DEF LookupVerdict
<1>2. CASE Visible /\ ~row.hasCode
  BY <1>2 DEF LookupVerdict
<1>3. CASE Visible /\ row.hasCode
  <2>1. row.status \in {"processing", "succeeded", "failed"}
    BY <1>3 DEF Visible, TypeOK, Record, Status
  <2>2. CASE row.status = "succeeded"
    BY <1>3, <2>2 DEF LookupVerdict
  <2>3. CASE row.status = "processing"
    BY <1>3, <2>3 DEF LookupVerdict
  <2>4. CASE row.status = "failed"
    BY <1>3, <2>4 DEF LookupVerdict
  <2> QED BY <2>1, <2>2, <2>3, <2>4
<1> QED BY <1>1, <1>2, <1>3

\* The numbers of the model are naturals, and so comparable.
LEMMA Numbers ==
  ASSUME TypeOK
  PROVE  /\ clock \in Nat /\ row.id \in Nat /\ row.expiresAt \in Nat /\ nextId \in Nat
         /\ TTL \in Nat /\ TTL > 0
         /\ \A r \in Reqs : lookedAt[r] \in Nat /\ lease[r] \in Nat /\ lock[r] \in Nat
BY IdempotencyAssumption DEF TypeOK, Record

\* An INSERT that returns a row leaves a record in processing with the new expiry.
LEMMA Claiming ==
  ASSUME TypeOK, nextId # 0, NEW e \in Nat, Claim(e)
  PROVE  /\ row' \in Record /\ nextId' \in Nat /\ nextId' # 0
         /\ row'.id \in Nat /\ row'.id # 0 /\ row'.status = "processing" /\ row'.expiresAt = e
<1>1. row \in Record /\ row.id \in Nat /\ clock \in Nat /\ nextId \in Nat
  BY Numbers DEF TypeOK
<1>2. CASE row.id = 0
  <2>1. /\ row' = [id |-> nextId, status |-> "processing", hash |-> Blank,
                   hasCode |-> FALSE, updatedAt |-> clock, expiresAt |-> e]
        /\ nextId' = nextId + 1
    BY <1>2 DEF Claim
  <2>2. nextId' \in Nat /\ nextId' # 0
    BY <1>1, <2>1
  <2> QED BY <1>1, <2>1, <2>2 DEF Record, Status
<1>3. CASE row.id # 0
  <2>1. /\ row' = [row EXCEPT !.status = "processing", !.hash = Blank,
                              !.updatedAt = clock, !.expiresAt = e]
        /\ nextId' = nextId
    BY <1>3 DEF Claim
  <2> QED BY <1>1, <1>3, <2>1 DEF Record, Status
<1> QED BY <1>2, <1>3

--------------------------------------------------------------------------------
\* A request that GetByKey answers leaves everything to the others.
LEMMA AnsweredKeeps ==
  ASSUME IInv, NEW r \in Reqs, pc[r] = "idle", NEW o \in Outs, Answer(r, o),
         NEW b \in Payloads, payload' = [payload EXCEPT ![r] = b],
         UNCHANGED <<clock, row, nextId, lookedAt, lock, lease, stray, effects, earlier,
                     raced, lost, owed>>
  PROVE  IInv'
<1>0. /\ TypeOK /\ Stages /\ Overlaps /\ Locks /\ Recorded
      /\ RecordedEffectOnce /\ (UniqueKey => FreeKeyIsHandled)
  BY DEF IInv
<1>1. /\ pc' \in [Reqs -> Stage] /\ pc'[r] = "done" /\ \A q \in Reqs \ {r} : pc'[q] = pc[q]
      /\ out' \in [Reqs -> Outs] /\ \A q \in Reqs \ {r} : out'[q] = out[q]
  BY <1>0 DEF TypeOK, Answer, Stage
<1>2. /\ StageOK(r) /\ r \notin effects /\ r \notin owed /\ r \notin lost
      /\ stray[r] = 0
  BY <1>0 DEF Stages, StageOK
<1>3. TypeOK'
  BY <1>0, <1>1 DEF TypeOK
<1>4. Stages'
  <2>1. ASSUME NEW q \in Reqs PROVE StageOK(q)'
    <3>1. StageOK(q)
      BY <1>0 DEF Stages
    <3> QED BY <1>1, <1>2, <3>1 DEF StageOK
  <2> QED BY <1>0, <2>1 DEF Stages
<1>5. InFlight' = InFlight
  BY <1>1 DEF InFlight
<1>6. Overlaps' /\ Recorded' /\ RecordedEffectOnce'
  BY <1>0, <1>1, <1>2, <1>5 DEF Overlaps, Recorded, RecordedEffectOnce, TypeOK
<1>7. Locks'
  BY <1>0, <1>1 DEF Locks
<1>8. UniqueKey => FreeKeyIsHandled'
  BY <1>0, <1>1, <1>2 DEF FreeKeyIsHandled, TypeOK
<1> QED BY <1>3, <1>4, <1>6, <1>7, <1>8 DEF IInv

\* GetByKey: a request passes only a record that says nothing any more.
LEMMA LookupKeeps ==
  ASSUME IInv, NEW r \in Reqs, Lookup(r)
  PROVE  IInv'
<1>0. /\ TypeOK /\ Stages /\ Overlaps /\ Locks /\ Recorded
      /\ RecordedEffectOnce /\ (UniqueKey => FreeKeyIsHandled)
  BY DEF IInv
<1>1. PICK b \in Payloads :
        /\ payload' = [payload EXCEPT ![r] = b]
        /\ \/ /\ LookupVerdict(b) = "pass"
              /\ Goto(r, "acquire") /\ Meet(r) /\ Owe(r)
              /\ lookedAt' = [lookedAt EXCEPT ![r] = clock]
           \/ /\ LookupVerdict(b) # "pass"
              /\ Answer(r, LookupVerdict(b)) /\ Owe(r)
              /\ UNCHANGED <<lookedAt, raced>>
           \/ /\ Answer(r, "check_failed")
              /\ UNCHANGED <<lookedAt, raced, owed>>
  BY DEF Lookup
<1>2. /\ pc[r] = "idle"
      /\ UNCHANGED <<clock, row, nextId, lock, lease, stray, effects, earlier, lost>>
  BY DEF Lookup
<1>3. /\ StageOK(r) /\ r \notin effects /\ r \notin owed /\ r \notin lost
      /\ stray[r] = 0 /\ out[r] = "none"
  BY <1>0, <1>2 DEF Stages, StageOK
<1>4. /\ LookupVerdict(b) \in {"pass", "check_failed", "replay", "mismatch", "in_progress"}
      /\ ~Visible => LookupVerdict(b) = "pass"
      /\ Visible /\ row.hasCode /\ row.status = "succeeded" => LookupVerdict(b) # "pass"
  BY <1>0, Verdicts DEF Stages
<1>5. /\ clock \in Nat /\ row.expiresAt \in Nat
      /\ \A q \in Reqs : lookedAt[q] \in Nat /\ lease[q] \in Nat
  BY <1>0, Numbers
<1>6. CASE /\ LookupVerdict(b) # "pass" /\ Answer(r, LookupVerdict(b)) /\ Owe(r)
           /\ UNCHANGED <<lookedAt, raced>>
  <2>1. owed' = owed
    BY <1>4, <1>5, <1>6 DEF Owe, Visible
  <2>2. LookupVerdict(b) \in Outs
    BY <1>4, <1>6 DEF Outs
  <2> QED BY <1>1, <1>2, <1>6, <2>1, <2>2, AnsweredKeeps
<1>7. CASE Answer(r, "check_failed") /\ UNCHANGED <<lookedAt, raced, owed>>
  <2>1. "check_failed" \in Outs
    BY DEF Outs
  <2> QED BY <1>1, <1>2, <1>7, <2>1, AnsweredKeeps
<1>8. CASE /\ LookupVerdict(b) = "pass" /\ Goto(r, "acquire") /\ Meet(r) /\ Owe(r)
           /\ lookedAt' = [lookedAt EXCEPT ![r] = clock]
  <2>1. /\ pc' \in [Reqs -> Stage] /\ pc'[r] = "acquire" /\ out' = out
        /\ \A q \in Reqs \ {r} : pc'[q] = pc[q]
    BY <1>0, <1>8 DEF TypeOK, Goto, Stage
  <2>2. /\ lookedAt' \in [Reqs -> Nat] /\ lookedAt'[r] = clock
        /\ \A q \in Reqs \ {r} : lookedAt'[q] = lookedAt[q]
    BY <1>0, <1>5, <1>8 DEF TypeOK
  <2>3. /\ raced \subseteq raced' /\ raced' \subseteq Reqs
        /\ \A q \in Reqs : q \in raced' => q \in raced \/ q \in InFlight \/ q = r
        /\ InFlight # {} => InFlight \subseteq raced' /\ r \in raced'
    BY <1>0, <1>8 DEF Meet, TypeOK, InFlight
  <2>4. /\ owed' \subseteq owed \cup {r} /\ owed' \subseteq Reqs
        /\ r \in owed' => row.id = 0 \/ row.expiresAt <= clock
    BY <1>0, <1>3, <1>8 DEF Owe, TypeOK
  <2>5. InFlight' = InFlight \cup {r} /\ r \notin InFlight
    BY <1>2, <1>3, <2>1 DEF InFlight
  <2>6. TypeOK'
    BY <1>0, <1>1, <1>2, <2>1, <2>2, <2>3, <2>4 DEF TypeOK
  <2>7. Stages'
    <3>1. ASSUME NEW q \in Reqs PROVE StageOK(q)'
      <4>1. CASE q = r
        BY <1>2, <1>3, <1>5, <2>1, <2>2, <4>1 DEF StageOK
      <4>2. CASE q # r
        <5>1. StageOK(q)
          BY <1>0 DEF Stages
        <5> QED BY <1>2, <2>1, <2>2, <2>4, <4>2, <5>1 DEF StageOK
      <4> QED BY <4>1, <4>2
    <3> QED BY <1>0, <1>2, <3>1 DEF Stages
  <2>8. Overlaps'
    BY <2>3, <2>5 DEF Overlaps
  <2>9. Locks'
    <3> SUFFICES ASSUME NEW q \in Reqs, q \notin raced'
                 PROVE  /\ pc'[q] \in {"execute", "update"} /\ q \notin lost' =>
                             \/ row'.id = lock'[q] /\ lease'[q] <= row'.expiresAt
                             \/ lease'[q] <= clock'
                        /\ pc'[q] = "acquire" /\ q \in owed' =>
                             row'.id = 0 \/ row'.expiresAt <= lookedAt'[q]
                        /\ pc'[q] = "recheck" /\ q \in owed' => ~UniqueKey
      BY DEF Locks
    <3>1. CASE q = r
      BY <1>2, <2>1, <2>2, <2>4, <3>1
    <3>2. CASE q # r
      <4>1. q \notin raced /\ pc'[q] = pc[q] /\ lookedAt'[q] = lookedAt[q] /\ (q \in owed' => q \in owed)
        BY <2>1, <2>2, <2>3, <2>4, <3>2
      <4> QED BY <1>0, <1>2, <4>1 DEF Locks
    <3> QED BY <3>1, <3>2
  \* Whoever is on record is so no longer when a request passes.
  <2>10. ASSUME NEW p \in effects, p \notin raced, p \notin lost, pc[p] = "done"
         PROVE  lease[p] <= clock
    <3>1. p \in Reqs
      BY <1>0 DEF TypeOK
    <3>2. \/ lease[p] <= clock
          \/ row.id # 0 /\ row.status = "succeeded" /\ row.hasCode /\ lease[p] <= row.expiresAt
      BY <1>0, <2>10 DEF Recorded
    <3>3. ASSUME row.id # 0, row.status = "succeeded", row.hasCode PROVE row.expiresAt <= clock
      BY <1>4, <1>5, <1>8, <3>3 DEF Visible
    <3> QED BY <1>5, <3>1, <3>2, <3>3
  <2>11. Recorded'
    <3> SUFFICES ASSUME NEW p \in effects', p \notin raced', p \notin lost', pc'[p] = "done"
                 PROVE  /\ lease'[p] <= clock'
                        /\ \A q \in InFlight' : lease'[p] <= lookedAt'[q]
      BY DEF Recorded
    <3>1. p \in effects /\ p # r /\ p \in Reqs /\ p \notin raced /\ p \notin lost /\ pc[p] = "done"
      BY <1>0, <1>2, <1>3, <2>1, <2>3 DEF TypeOK
    <3>2. lease[p] <= clock /\ \A q \in InFlight : lease[p] <= lookedAt[q]
      BY <1>0, <2>10, <3>1 DEF Recorded
    <3> QED BY <1>2, <2>2, <2>5, <3>2 DEF InFlight
  <2>12. RecordedEffectOnce'
    BY <1>0, <1>2, <1>3, <2>2, <2>3 DEF RecordedEffectOnce, TypeOK
  <2>13. UniqueKey => FreeKeyIsHandled'
    BY <1>0, <1>3, <2>1, <2>3, <2>4 DEF FreeKeyIsHandled
  <2> QED BY <2>6, <2>7, <2>8, <2>9, <2>11, <2>12, <2>13 DEF IInv
<1> QED BY <1>1, <1>6, <1>7, <1>8

\* AcquireLock or its GetByKey give a request the row, as it is then: lockedRecord.
LEMMA LockedKeeps ==
  ASSUME IInv, NEW r \in Reqs, pc[r] \in {"acquire", "recheck"}, Goto(r, "execute"),
         row' \in Record, nextId' \in Nat, nextId' # 0, row'.id # 0, row'.status # "none",
         row' = row \/ row'.expiresAt = lease'[r],
         lock' = [lock EXCEPT ![r] = row'.id], lease' = [lease EXCEPT ![r] = row'.expiresAt],
         UNCHANGED <<clock, payload, lookedAt, stray, effects, earlier, raced, lost, owed>>
  PROVE  IInv'
<1>0. /\ TypeOK /\ Stages /\ Overlaps /\ Locks /\ Recorded
      /\ RecordedEffectOnce /\ (UniqueKey => FreeKeyIsHandled)
  BY DEF IInv
<1>1. /\ pc' \in [Reqs -> Stage] /\ pc'[r] = "execute" /\ out' = out
      /\ \A q \in Reqs \ {r} : pc'[q] = pc[q]
  BY <1>0 DEF TypeOK, Goto, Stage
<1>2. row'.id \in Nat /\ row'.expiresAt \in Nat
  BY DEF Record
<1>3. /\ lock' \in [Reqs -> Nat] /\ lease' \in [Reqs -> Nat]
      /\ lock'[r] = row'.id /\ lease'[r] = row'.expiresAt
      /\ \A q \in Reqs \ {r} : lock'[q] = lock[q] /\ lease'[q] = lease[q]
  BY <1>0, <1>2 DEF TypeOK
<1>4. StageOK(r) /\ r \notin effects /\ out[r] = "none"
  BY <1>0 DEF Stages, StageOK
<1>5. /\ clock \in Nat
      /\ \A q \in Reqs : lookedAt[q] \in Nat /\ lease[q] \in Nat /\ lookedAt[q] <= clock
  BY <1>0, Numbers DEF Stages, StageOK
<1>6. InFlight' = InFlight /\ r \in InFlight
  BY <1>1 DEF InFlight
<1>7. TypeOK'
  BY <1>0, <1>1, <1>3 DEF TypeOK
<1>8. Stages'
  <2>1. ASSUME NEW q \in Reqs PROVE StageOK(q)'
    <3>1. StageOK(q)
      BY <1>0 DEF Stages
    <3>2. CASE q = r
      BY <1>1, <1>3, <1>4, <3>1, <3>2 DEF StageOK
    <3>3. CASE q # r
      BY <1>1, <1>3, <3>1, <3>3 DEF StageOK
    <3> QED BY <3>2, <3>3
  <2> QED BY <2>1 DEF Stages
<1>9. Overlaps'
  BY <1>0, <1>6 DEF Overlaps
<1>10. Locks'
  <2> SUFFICES ASSUME NEW q \in Reqs, q \notin raced'
               PROVE  /\ pc'[q] \in {"execute", "update"} /\ q \notin lost' =>
                           \/ row'.id = lock'[q] /\ lease'[q] <= row'.expiresAt
                           \/ lease'[q] <= clock'
                      /\ pc'[q] = "acquire" /\ q \in owed' =>
                           row'.id = 0 \/ row'.expiresAt <= lookedAt'[q]
                      /\ pc'[q] = "recheck" /\ q \in owed' => ~UniqueKey
    BY DEF Locks
  <2>1. CASE q = r
    BY <1>1, <1>2, <1>3, <2>1
  <2>2. CASE q # r
    BY <1>0, <1>1, <1>6, <2>2 DEF Overlaps, InFlight
  <2> QED BY <2>1, <2>2
<1>11. Recorded'
  <2> SUFFICES ASSUME NEW p \in effects', p \notin raced', p \notin lost', pc'[p] = "done"
               PROVE  /\ lease'[p] <= clock'
                      /\ \A q \in InFlight' : lease'[p] <= lookedAt'[q]
    BY DEF Recorded
  <2>1. p \in effects /\ p # r /\ p \in Reqs /\ pc[p] = "done"
    BY <1>0, <1>1, <1>4 DEF TypeOK
  <2>2. \A q \in InFlight : lease[p] <= lookedAt[q]
    BY <1>0, <2>1 DEF Recorded
  <2>3. lease[p] <= clock
    BY <1>5, <1>6, <2>1, <2>2
  <2> QED BY <1>3, <1>6, <2>1, <2>2, <2>3
<1>12. RecordedEffectOnce'
  <2>1. \A q \in effects : q \in Reqs /\ earlier[q] \subseteq effects
    BY <1>0 DEF TypeOK, Stages, StageOK
  <2> QED BY <1>0, <1>3, <1>4, <2>1 DEF RecordedEffectOnce
<1>13. UniqueKey => FreeKeyIsHandled'
  BY <1>0, <1>1 DEF FreeKeyIsHandled
<1> QED BY <1>7, <1>8, <1>9, <1>10, <1>11, <1>12, <1>13 DEF IInv

\* The INSERT of AcquireLock fails: without a failure of the database it does so only
\* for want of the key or after a race.
LEMMA RefusedKeeps ==
  ASSUME IInv, NEW r \in Reqs, pc[r] = "acquire", Goto(r, "recheck"),
         NEW e \in Nat, e > lookedAt[r],
         \/ ~Claims(e) /\ UNCHANGED <<stray, lost, owed>>
         \/ /\ owed' = owed \ {r}
            /\ \/ UNCHANGED <<stray, lost>>
               \/ stray' = [stray EXCEPT ![r] = e] /\ lost' = lost \cup {r},
         UNCHANGED <<clock, row, nextId, payload, lookedAt, lock, lease, effects, earlier, raced>>
  PROVE  IInv'
<1>0. /\ TypeOK /\ Stages /\ Overlaps /\ Locks /\ Recorded
      /\ RecordedEffectOnce /\ (UniqueKey => FreeKeyIsHandled)
  BY DEF IInv
<1>1. /\ pc' \in [Reqs -> Stage] /\ pc'[r] = "recheck" /\ out' = out
      /\ \A q \in Reqs \ {r} : pc'[q] = pc[q]
  BY <1>0 DEF TypeOK, Goto, Stage
<1>2. /\ stray' \in [Reqs -> Nat] /\ lost' \subseteq lost \cup {r} /\ lost \subseteq lost'
      /\ owed' \subseteq owed /\ (stray'[r] # 0 => r \in lost')
      /\ \A q \in Reqs \ {r} : stray'[q] = stray[q]
  <2>1. stray[r] # 0 => r \in lost
    BY <1>0 DEF Stages, StageOK
  <2> QED BY <1>0, <2>1 DEF TypeOK
<1>3. StageOK(r) /\ r \notin effects /\ out[r] = "none"
  BY <1>0 DEF Stages, StageOK
<1>4. InFlight' = InFlight /\ r \in InFlight
  BY <1>1, <1>2 DEF InFlight
<1>5. TypeOK'
  BY <1>0, <1>1, <1>2 DEF TypeOK
<1>6. Stages'
  <2>1. ASSUME NEW q \in Reqs PROVE StageOK(q)'
    <3>1. StageOK(q)
      BY <1>0 DEF Stages
    <3>2. CASE q = r
      BY <1>1, <1>2, <1>3, <3>1, <3>2 DEF StageOK
    <3>3. CASE q # r
      BY <1>1, <1>2, <3>1, <3>3 DEF StageOK
    <3> QED BY <3>2, <3>3
  <2> QED BY <1>0, <2>1 DEF Stages
<1>7. Overlaps'
  BY <1>0, <1>4 DEF Overlaps
<1>8. Locks'
  <2> SUFFICES ASSUME NEW q \in Reqs, q \notin raced'
               PROVE  /\ pc'[q] \in {"execute", "update"} /\ q \notin lost' =>
                           \/ row'.id = lock'[q] /\ lease'[q] <= row'.expiresAt
                           \/ lease'[q] <= clock'
                      /\ pc'[q] = "acquire" /\ q \in owed' =>
                           row'.id = 0 \/ row'.expiresAt <= lookedAt'[q]
                      /\ pc'[q] = "recheck" /\ q \in owed' => ~UniqueKey
    BY DEF Locks
  <2>1. CASE q = r
    <3> SUFFICES ASSUME r \in owed', UniqueKey PROVE FALSE
      BY <1>1, <2>1
    <3>1. ~Claims(e) /\ r \in owed
      BY <1>2
    <3>2. row.id = 0 \/ row.expiresAt <= lookedAt[r]
      BY <1>0, <2>1, <3>1 DEF Locks
    <3>3. row.expiresAt \in Nat /\ lookedAt[r] \in Nat
      BY <1>0, Numbers
    <3> QED BY <3>1, <3>2, <3>3 DEF Claims, TakeOver
  <2>2. CASE q # r
    BY <1>0, <1>1, <1>4, <2>2 DEF Overlaps, InFlight
  <2> QED BY <2>1, <2>2
<1>9. Recorded'
  <2> SUFFICES ASSUME NEW p \in effects', p \notin raced', p \notin lost', pc'[p] = "done"
               PROVE  /\ \/ lease'[p] <= clock'
                         \/ /\ row'.id # 0 /\ row'.status = "succeeded" /\ row'.hasCode
                            /\ lease'[p] <= row'.expiresAt
                      /\ \A q \in InFlight' : lease'[p] <= lookedAt'[q]
    BY DEF Recorded
  <2>1. p \in effects /\ p \in Reqs /\ pc[p] = "done" /\ p \notin lost
    BY <1>0, <1>1, <1>2, <1>3 DEF TypeOK
  <2> QED BY <1>0, <1>4, <2>1 DEF Recorded
<1>10. RecordedEffectOnce'
  BY <1>0, <1>2 DEF RecordedEffectOnce
<1>11. UniqueKey => FreeKeyIsHandled'
  BY <1>0, <1>1, <1>2 DEF FreeKeyIsHandled
<1> QED BY <1>5, <1>6, <1>7, <1>8, <1>9, <1>10, <1>11 DEF IInv

\* AcquireLock up to the answer to its INSERT.
LEMMA AcquireLockKeeps ==
  ASSUME IInv, NEW r \in Reqs, AcquireLock(r)
  PROVE  IInv'
<1>0. TypeOK /\ nextId # 0
  BY DEF IInv, Stages
<1>1. PICK now \in lookedAt[r]..clock :
       \/ /\ Claims(now + TTL) /\ Claim(now + TTL)
          /\ lock' = [lock EXCEPT ![r] = row'.id]
          /\ lease' = [lease EXCEPT ![r] = now + TTL]
          /\ Goto(r, "execute")
          /\ UNCHANGED <<stray, lost, owed>>
       \/ /\ ~Claims(now + TTL)
          /\ Goto(r, "recheck")
          /\ UNCHANGED <<row, nextId, lock, lease, stray, lost, owed>>
       \/ /\ Goto(r, "recheck")
          /\ owed' = owed \ {r}
          /\ \/ UNCHANGED <<stray, lost>>
             \/ stray' = [stray EXCEPT ![r] = now + TTL] /\ lost' = lost \cup {r}
          /\ UNCHANGED <<row, nextId, lock, lease>>
  BY DEF AcquireLock
<1>2. pc[r] = "acquire" /\ UNCHANGED <<clock, payload, lookedAt, effects, earlier, raced>>
  BY DEF AcquireLock
<1>3. now + TTL \in Nat /\ now + TTL > lookedAt[r]
  BY <1>0, <1>1, Numbers
<1>4. CASE /\ Claims(now + TTL) /\ Claim(now + TTL)
           /\ lock' = [lock EXCEPT ![r] = row'.id]
           /\ lease' = [lease EXCEPT ![r] = now + TTL]
           /\ Goto(r, "execute")
           /\ UNCHANGED <<stray, lost, owed>>
  <2>1. /\ row' \in Record /\ nextId' \in Nat /\ nextId' # 0
        /\ row'.id # 0 /\ row'.status # "none" /\ row'.expiresAt = now + TTL
    BY <1>0, <1>3, <1>4, Claiming
  <2>2. lease'[r] = now + TTL
    BY <1>0, <1>4 DEF TypeOK
  <2> QED BY <1>2, <1>4, <2>1, <2>2, LockedKeeps
<1>5. CASE /\ ~Claims(now + TTL)
           /\ Goto(r, "recheck")
           /\ UNCHANGED <<row, nextId, lock, lease, stray, lost, owed>>
  BY <1>2, <1>3, <1>5, RefusedKeeps
<1>6. CASE /\ Goto(r, "recheck")
           /\ owed' = owed \ {r}
           /\ \/ UNCHANGED <<stray, lost>>
              \/ stray' = [stray EXCEPT ![r] = now + TTL] /\ lost' = lost \cup {r}
           /\ UNCHANGED <<row, nextId, lock, lease>>
  BY <1>2, <1>3, <1>6, RefusedKeeps
<1> QED BY <1>1, <1>4, <1>5, <1>6

\* The GetByKey of AcquireLock: a request that gets here without a failure of the
\* database had a rival, or the table has no key.
LEMMA RecheckKeeps ==
  ASSUME IInv, NEW r \in Reqs, Recheck(r)
  PROVE  IInv'
<1>0. /\ TypeOK /\ Stages /\ Overlaps /\ Locks /\ Recorded
      /\ RecordedEffectOnce /\ (UniqueKey => FreeKeyIsHandled)
  BY DEF IInv
<1>1. /\ pc[r] = "recheck"
      /\ UNCHANGED <<clock, row, nextId, payload, lookedAt, stray, effects, earlier, raced, lost>>
  BY DEF Recheck
<1>2. CASE /\ Visible /\ row.hasCode
           /\ lock' = [lock EXCEPT ![r] = row.id]
           /\ lease' = [lease EXCEPT ![r] = row.expiresAt]
           /\ Goto(r, "execute")
           /\ UNCHANGED owed
  <2>1. row \in Record /\ row.id # 0 /\ row.status # "none" /\ nextId \in Nat /\ nextId # 0
    BY <1>0, <1>2 DEF Visible, TypeOK, Stages
  <2> QED BY <1>1, <1>2, <2>1, LockedKeeps
<1>3. CASE Answer(r, "lock_failed") /\ UNCHANGED <<lock, lease>> /\ owed' \subseteq owed
           /\ (r \in owed' => ~UniqueKey \/ r \in raced)
  <2>1. /\ pc' \in [Reqs -> Stage] /\ pc'[r] = "done" /\ \A q \in Reqs \ {r} : pc'[q] = pc[q]
        /\ out' \in [Reqs -> Outs] /\ \A q \in Reqs \ {r} : out'[q] = out[q]
    BY <1>0, <1>3 DEF TypeOK, Answer, Stage, Outs
  <2>2. StageOK(r) /\ r \notin effects
    BY <1>0, <1>1 DEF Stages, StageOK
  <2>3. InFlight' \subseteq InFlight
    BY <1>1, <2>1 DEF InFlight
  <2>4. TypeOK'
    BY <1>0, <1>1, <1>3, <2>1 DEF TypeOK
  <2>5. Stages'
    <3>1. ASSUME NEW q \in Reqs PROVE StageOK(q)'
      <4>1. StageOK(q)
        BY <1>0 DEF Stages
      <4>2. q \in owed' => q \in owed
        BY <1>3
      <4> QED BY <1>1, <1>3, <2>1, <2>2, <4>1, <4>2 DEF StageOK
    <3> QED BY <1>0, <1>1, <3>1 DEF Stages
  <2>6. Overlaps'
    BY <1>0, <1>1, <2>3 DEF Overlaps
  <2>7. Locks'
    BY <1>0, <1>1, <1>3, <2>1 DEF Locks
  <2>8. Recorded'
    BY <1>0, <1>1, <1>3, <2>1, <2>2, <2>3 DEF Recorded, TypeOK
  <2>9. RecordedEffectOnce'
    BY <1>0, <1>1, <1>3 DEF RecordedEffectOnce
  <2>10. UniqueKey => FreeKeyIsHandled'
    BY <1>0, <1>1, <1>3, <2>1 DEF FreeKeyIsHandled, TypeOK
  <2> QED BY <2>4, <2>5, <2>6, <2>7, <2>8, <2>9, <2>10 DEF IInv
<1>4. r \in owed => ~UniqueKey \/ r \in raced
  BY <1>0, <1>1 DEF Locks
<1> QED BY <1>2, <1>3, <1>4 DEF Recheck

\* An INSERT that comes late meets only requests that overlap with its own.
LEMMA StrayInsertKeeps ==
  ASSUME IInv, NEW r \in Reqs, StrayInsert(r)
  PROVE  IInv'
<1>0. /\ TypeOK /\ Stages /\ Overlaps /\ Locks /\ Recorded
      /\ RecordedEffectOnce /\ (UniqueKey => FreeKeyIsHandled)
  BY DEF IInv
<1>1. /\ stray[r] # 0 /\ stray' = [stray EXCEPT ![r] = 0]
      /\ IF Claims(stray[r]) THEN Claim(stray[r]) ELSE UNCHANGED <<row, nextId>>
      /\ UNCHANGED <<clock, pc, payload, lookedAt, lock, lease, out,
                     effects, earlier, raced, lost, owed>>
  BY DEF StrayInsert, histVars
<1>2. /\ stray' \in [Reqs -> Nat] /\ stray[r] \in Nat
      /\ \A q \in Reqs : stray'[q] # 0 => stray[q] # 0
  BY <1>0, <1>1 DEF TypeOK
<1>3. row' \in Record /\ nextId' \in Nat /\ nextId' # 0 /\ (row'.id # 0 => row'.status # "none")
  <2>1. CASE Claims(stray[r])
    <3>1. Claim(stray[r]) /\ nextId # 0
      BY <1>0, <1>1, <2>1 DEF Stages
    <3> QED BY <1>0, <1>2, <3>1, Claiming
  <2>2. CASE ~Claims(stray[r])
    BY <1>0, <1>1, <2>2 DEF TypeOK, Stages
  <2> QED BY <2>1, <2>2
<1>4. StageOK(r) /\ r \in lost /\ pc[r] \notin {"idle", "acquire"}
  BY <1>0, <1>1 DEF Stages, StageOK
<1>5. InFlight' \subseteq InFlight /\ r \in InFlight
  BY <1>1, <1>2 DEF InFlight
<1>6. TypeOK'
  BY <1>0, <1>1, <1>2, <1>3 DEF TypeOK
<1>7. Stages'
  BY <1>0, <1>1, <1>2, <1>3 DEF Stages, StageOK
<1>8. Overlaps'
  BY <1>0, <1>1, <1>5 DEF Overlaps
<1>9. Locks'
  <2> SUFFICES ASSUME NEW q \in Reqs, q \notin raced'
               PROVE  /\ pc'[q] \in {"execute", "update"} /\ q \notin lost' =>
                           \/ row'.id = lock'[q] /\ lease'[q] <= row'.expiresAt
                           \/ lease'[q] <= clock'
                      /\ pc'[q] = "acquire" /\ q \in owed' =>
                           row'.id = 0 \/ row'.expiresAt <= lookedAt'[q]
                      /\ pc'[q] = "recheck" /\ q \in owed' => ~UniqueKey
    BY DEF Locks
  <2>1. CASE q = r
    BY <1>0, <1>1, <1>4, <2>1 DEF Locks
  <2>2. CASE q # r
    BY <1>0, <1>1, <1>5, <2>2 DEF Overlaps, InFlight
  <2> QED BY <2>1, <2>2
<1>10. Recorded'
  <2> SUFFICES ASSUME NEW p \in effects', p \notin raced', p \notin lost', pc'[p] = "done"
               PROVE  /\ lease'[p] <= clock'
                      /\ \A q \in InFlight' : lease'[p] <= lookedAt'[q]
    BY DEF Recorded
  <2>1. /\ p \in Reqs /\ lease[p] \in Nat /\ clock \in Nat
        /\ lookedAt[r] \in Nat /\ lookedAt[r] <= clock
    BY <1>0, <1>1, Numbers DEF TypeOK, Stages, StageOK
  <2>2. \A q \in InFlight : lease[p] <= lookedAt[q]
    BY <1>0, <1>1 DEF Recorded
  <2> QED BY <1>1, <1>5, <2>1, <2>2
<1>11. RecordedEffectOnce' /\ (UniqueKey => FreeKeyIsHandled')
  BY <1>0, <1>1 DEF RecordedEffectOnce, FreeKeyIsHandled
<1> QED BY <1>6, <1>7, <1>8, <1>9, <1>10, <1>11 DEF IInv

\* The handler: every effect on record was off it when r looked.
LEMMA ExecuteKeeps ==
  ASSUME IInv, NEW r \in Reqs, Execute(r)
  PROVE  IInv'
<1>0. /\ TypeOK /\ Stages /\ Overlaps /\ Locks /\ Recorded
      /\ RecordedEffectOnce /\ (UniqueKey => FreeKeyIsHandled)
  BY DEF IInv
<1>1. /\ pc[r] = "execute" /\ pc' = [pc EXCEPT ![r] = "update"]
      /\ UNCHANGED <<clock, row, nextId, payload, lookedAt, lock, lease, stray, raced, owed>>
  BY DEF Execute
<1>2. \/ /\ out' = [out EXCEPT ![r] = "created"] /\ lost' = lost
         /\ effects' = effects \cup {r} /\ earlier' = [earlier EXCEPT ![r] = effects]
      \/ /\ out' = [out EXCEPT ![r] = "failed"]
         /\ effects' = effects /\ earlier' = earlier /\ lost' = lost
      \/ /\ out' = [out EXCEPT ![r] = "failed"] /\ lost' = lost \cup {r}
         /\ effects' = effects \cup {r} /\ earlier' = [earlier EXCEPT ![r] = effects]
  BY DEF Execute
<1>3. /\ pc' \in [Reqs -> Stage] /\ pc'[r] = "update" /\ \A q \in Reqs \ {r} : pc'[q] = pc[q]
  BY <1>0, <1>1 DEF TypeOK, Stage
<1>4. /\ out' \in [Reqs -> Outs] /\ out'[r] \in {"created", "failed"}
      /\ \A q \in Reqs \ {r} : out'[q] = out[q]
  BY <1>0, <1>2 DEF TypeOK, Outs
<1>5. StageOK(r) /\ r \notin effects
  BY <1>0, <1>1 DEF Stages, StageOK
<1>6. /\ effects \subseteq effects' /\ effects' \subseteq effects \cup {r} /\ effects' \subseteq Reqs
      /\ lost \subseteq lost' /\ lost' \subseteq lost \cup {r} /\ lost' \subseteq Reqs
      /\ r \in effects' => r \in lost' \/ out'[r] = "created"
  BY <1>0, <1>2, <1>5 DEF TypeOK
<1>7. /\ earlier' \in [Reqs -> SUBSET Reqs] /\ (r \in effects' => earlier'[r] = effects)
      /\ earlier'[r] \subseteq effects /\ \A q \in Reqs \ {r} : earlier'[q] = earlier[q]
  BY <1>0, <1>2, <1>5 DEF TypeOK, StageOK
<1>8. InFlight' = InFlight /\ r \in InFlight
  BY <1>1, <1>3 DEF InFlight
<1>9. TypeOK'
  BY <1>0, <1>1, <1>3, <1>4, <1>6, <1>7 DEF TypeOK
<1>10. Stages'
  <2>1. ASSUME NEW q \in Reqs PROVE StageOK(q)'
    <3>1. StageOK(q)
      BY <1>0 DEF Stages
    <3>2. CASE q = r
      BY <1>1, <1>3, <1>4, <1>6, <1>7, <3>1, <3>2 DEF StageOK
    <3>3. CASE q # r
      BY <1>1, <1>3, <1>4, <1>6, <1>7, <3>1, <3>3 DEF StageOK
    <3> QED BY <3>2, <3>3
  <2> QED BY <1>0, <1>1, <2>1 DEF Stages
<1>11. Overlaps'
  BY <1>0, <1>1, <1>8 DEF Overlaps
<1>12. Locks'
  BY <1>0, <1>1, <1>3, <1>6 DEF Locks
<1>13. Recorded'
  <2> SUFFICES ASSUME NEW p \in effects', p \notin raced', p \notin lost', pc'[p] = "done"
               PROVE  /\ \/ lease'[p] <= clock'
                         \/ /\ row'.id # 0 /\ row'.status = "succeeded" /\ row'.hasCode
                            /\ lease'[p] <= row'.expiresAt
                      /\ \A q \in InFlight' : lease'[p] <= lookedAt'[q]
    BY DEF Recorded
  <2>1. p \in effects /\ p # r /\ pc[p] = "done" /\ p \notin lost /\ p \notin raced
    BY <1>1, <1>3, <1>6
  <2> QED BY <1>0, <1>1, <1>8, <2>1 DEF Recorded
<1>14. RecordedEffectOnce'
  <2> SUFFICES ASSUME NEW q \in effects', NEW p \in earlier'[q], p \notin raced', p \notin lost'
               PROVE  lease'[p] <= lookedAt'[q]
    BY DEF RecordedEffectOnce
  <2>1. p \notin raced /\ p \notin lost
    BY <1>1, <1>6
  <2>2. CASE q = r
    <3>1. p \in effects /\ p \in Reqs /\ p # r
      BY <1>0, <1>5, <1>7, <2>2 DEF TypeOK
    <3>2. pc[p] = "done"
      <4>1. pc[p] \in {"update", "done"}
        BY <1>0, <3>1 DEF Stages, StageOK
      <4> QED BY <1>0, <1>8, <2>1, <3>1, <4>1 DEF Overlaps, InFlight
    <3> QED BY <1>0, <1>1, <1>8, <2>1, <2>2, <3>1, <3>2 DEF Recorded
  <2>3. CASE q # r
    <3>1. q \in effects /\ p \in earlier[q]
      BY <1>6, <1>7, <2>3
    <3> QED BY <1>0, <1>1, <2>1, <3>1 DEF RecordedEffectOnce
  <2> QED BY <2>2, <2>3
<1>15. UniqueKey => FreeKeyIsHandled'
  BY <1>0, <1>1, <1>4 DEF FreeKeyIsHandled, TypeOK
<1> QED BY <1>9, <1>10, <1>11, <1>12, <1>13, <1>14, <1>15 DEF IInv

\* The end of request r, its outcome recorded (Update) or not (OutcomeLost).
LEMMA EndsKeep ==
  ASSUME IInv, NEW r \in Reqs, pc[r] \in {"execute", "update"}, Goto(r, "done"),
         UNCHANGED <<clock, nextId, payload, lookedAt, lock, lease, stray,
                     effects, earlier, raced, owed>>,
         lost \subseteq lost', lost' \subseteq lost \cup {r},
         row' \in Record, row'.id # 0 => row'.status # "none",
         r \in effects /\ r \notin raced /\ r \notin lost' =>
           \/ lease[r] <= clock
           \/ /\ row'.id # 0 /\ row'.status = "succeeded" /\ row'.hasCode
              /\ lease[r] <= row'.expiresAt
  PROVE  IInv'
<1>0. /\ TypeOK /\ Stages /\ Overlaps /\ Locks /\ Recorded
      /\ RecordedEffectOnce /\ (UniqueKey => FreeKeyIsHandled)
  BY DEF IInv
<1>1. /\ pc' \in [Reqs -> Stage] /\ pc'[r] = "done" /\ out' = out
      /\ \A q \in Reqs \ {r} : pc'[q] = pc[q]
  BY <1>0 DEF Goto, TypeOK, Stage
<1>2. TypeOK'
  BY <1>0, <1>1 DEF TypeOK
<1>3. Stages'
  <2>1. ASSUME NEW q \in Reqs PROVE StageOK(q)'
    <3>1. StageOK(q) /\ StageOK(r)
      BY <1>0 DEF Stages
    <3>2. CASE q = r
      BY <1>1, <3>1, <3>2 DEF StageOK
    <3>3. CASE q # r
      BY <1>1, <3>1, <3>3 DEF StageOK
    <3> QED BY <3>2, <3>3
  <2> QED BY <1>0, <2>1 DEF Stages
<1>4. InFlight' \subseteq InFlight /\ r \in InFlight
  BY <1>1 DEF InFlight
<1>5. Overlaps'
  BY <1>0, <1>4 DEF Overlaps
<1>6. Locks'
  <2> SUFFICES ASSUME NEW q \in Reqs, q \notin raced'
               PROVE  pc'[q] \notin {"acquire", "recheck", "execute", "update"}
    BY DEF Locks
  <2> QED BY <1>0, <1>1, <1>4 DEF Overlaps, InFlight
<1>7. Recorded'
  <2> SUFFICES ASSUME NEW p \in effects', p \notin raced', p \notin lost', pc'[p] = "done"
               PROVE  /\ \/ lease'[p] <= clock'
                         \/ /\ row'.id # 0 /\ row'.status = "succeeded" /\ row'.hasCode
                            /\ lease'[p] <= row'.expiresAt
                      /\ \A q \in InFlight' : lease'[p] <= lookedAt'[q]
    BY DEF Recorded
  <2>1. CASE p = r
    <3>1. InFlight' = {}
      <4>1. stray[r] = 0
        BY <1>0, <2>1 DEF Stages, StageOK
      <4>2. r \notin InFlight'
        BY <1>1, <4>1 DEF InFlight
      <4> QED BY <1>0, <1>4, <2>1, <4>2 DEF Overlaps
    <3> QED BY <2>1, <3>1
  <2>2. CASE p # r
    <3>1. /\ p \in Reqs /\ pc[p] = "done" /\ p \notin lost
          /\ lease[p] \in Nat /\ clock \in Nat /\ lookedAt[r] \in Nat /\ lookedAt[r] <= clock
      BY <1>0, <1>1, <2>2, Numbers DEF TypeOK, Stages, StageOK
    <3>2. \A q \in InFlight : lease[p] <= lookedAt[q]
      BY <1>0, <3>1 DEF Recorded
    <3> QED BY <1>4, <3>1, <3>2
  <2> QED BY <2>1, <2>2
<1>8. RecordedEffectOnce'
  BY <1>0 DEF RecordedEffectOnce
<1>9. UniqueKey => FreeKeyIsHandled'
  BY <1>0, <1>1 DEF FreeKeyIsHandled
<1> QED BY <1>2, <1>3, <1>5, <1>6, <1>7, <1>8, <1>9 DEF IInv

\* UpdateSuccess or UpdateFailed: the record that r locked now tells r's effect.
LEMMA UpdateKeeps ==
  ASSUME IInv, NEW r \in Reqs, Update(r)
  PROVE  IInv'
<1>0. TypeOK /\ Stages /\ Locks /\ StageOK(r)
  BY DEF IInv, Stages
<1>1. /\ pc[r] = "update" /\ Goto(r, "done")
      /\ row' = IF row.id = lock[r]
                  THEN [row EXCEPT !.status = Outcome(r), !.hasCode = TRUE, !.updatedAt = clock]
                  ELSE row
      /\ UNCHANGED <<clock, nextId, payload, lookedAt, lock, lease, stray,
                     effects, earlier, raced, lost, owed>>
  BY DEF Update, histVars
<1>2. lock[r] # 0 /\ Outcome(r) \in {"succeeded", "failed"} /\ clock \in Nat
  BY <1>0, <1>1, Numbers DEF StageOK, Outcome
<1>3. row' \in Record /\ (row'.id # 0 => row'.status # "none")
  <2>1. CASE row.id = lock[r]
    BY <1>0, <1>1, <1>2, <2>1 DEF TypeOK, Record, Status
  <2>2. CASE row.id # lock[r]
    BY <1>0, <1>1, <2>2 DEF TypeOK, Stages
  <2> QED BY <2>1, <2>2
<1>4. ASSUME r \in effects, r \notin raced, r \notin lost'
      PROVE  \/ lease[r] <= clock
             \/ /\ row'.id # 0 /\ row'.status = "succeeded" /\ row'.hasCode
                /\ lease[r] <= row'.expiresAt
  <2>1. out[r] = "created"
    BY <1>0, <1>1, <1>4 DEF StageOK
  <2>2. (row.id = lock[r] /\ lease[r] <= row.expiresAt) \/ lease[r] <= clock
    BY <1>0, <1>1, <1>4 DEF Locks
  <2>3. CASE row.id = lock[r] /\ lease[r] <= row.expiresAt
    <3>1. /\ row'.id = row.id /\ row'.status = "succeeded" /\ row'.hasCode = TRUE
          /\ row'.expiresAt = row.expiresAt
      BY <1>0, <1>1, <2>1, <2>3 DEF TypeOK, Record, Outcome
    <3> QED BY <1>2, <2>3, <3>1
  <2> QED BY <2>2, <2>3
<1> QED BY <1>1, <1>3, <1>4, EndsKeep

\* The outcome is lost, and the history says so.
LEMMA OutcomeLostKeeps ==
  ASSUME IInv, NEW r \in Reqs, OutcomeLost(r)
  PROVE  IInv'
<1>1. /\ pc[r] \in {"execute", "update"} /\ Goto(r, "done") /\ lost' = lost \cup {r}
      /\ UNCHANGED <<clock, row, nextId, payload, lookedAt, lock, lease, stray,
                     effects, earlier, raced, owed>>
  BY DEF OutcomeLost
<1>2. row' \in Record /\ (row'.id # 0 => row'.status # "none")
  BY <1>1 DEF IInv, TypeOK, Stages
<1> QED BY <1>1, <1>2, EndsKeep

\* DeleteExpired removes only a record whose leases are past.
LEMMA DeleteExpiredKeeps ==
  ASSUME IInv, DeleteExpired
  PROVE  IInv'
<1>0. /\ TypeOK /\ Stages /\ Overlaps /\ Locks /\ Recorded
      /\ RecordedEffectOnce /\ (UniqueKey => FreeKeyIsHandled)
  BY DEF IInv
<1>1. /\ row.id # 0 /\ row.expiresAt < clock /\ row' = NoRow
      /\ UNCHANGED <<clock, nextId, pc, payload, lookedAt, lock, lease, stray, out,
                     effects, earlier, raced, lost, owed>>
  BY DEF DeleteExpired, reqVars, histVars
<1>2. row' \in Record /\ row'.id = 0
  BY <1>1 DEF NoRow, Record, Status
<1>3. \A r \in Reqs : lease[r] <= row.expiresAt => lease[r] <= clock
  BY <1>0, <1>1, Numbers
<1>4. TypeOK' /\ Stages'
  BY <1>0, <1>1, <1>2 DEF TypeOK, Stages, StageOK
<1>5. InFlight' = InFlight
  BY <1>1 DEF InFlight
<1>6. Overlaps' /\ Locks'
  BY <1>0, <1>1, <1>2, <1>3, <1>5 DEF Overlaps, Locks
<1>7. Recorded'
  BY <1>0, <1>1, <1>3, <1>5 DEF Recorded, TypeOK
<1>8. RecordedEffectOnce' /\ (UniqueKey => FreeKeyIsHandled')
  BY <1>0, <1>1 DEF RecordedEffectOnce, FreeKeyIsHandled
<1> QED BY <1>4, <1>6, <1>7, <1>8 DEF IInv

\* Time only adds to what is expired.
LEMMA TickKeeps ==
  ASSUME IInv, Tick
  PROVE  IInv'
<1>0. /\ TypeOK /\ Stages /\ Overlaps /\ Locks /\ Recorded
      /\ RecordedEffectOnce /\ (UniqueKey => FreeKeyIsHandled)
  BY DEF IInv
<1>1. /\ clock < MaxTime /\ clock' = clock + 1
      /\ UNCHANGED <<row, nextId, pc, payload, lookedAt, lock, lease, stray, out,
                     effects, earlier, raced, lost, owed>>
  BY DEF Tick, reqVars, histVars
<1>2. clock \in Nat /\ clock' \in 0..MaxTime
  BY <1>0, <1>1, IdempotencyAssumption DEF TypeOK
<1>3. /\ \A r \in Reqs : lookedAt[r] <= clock => lookedAt[r] <= clock'
      /\ \A r \in Reqs : lease[r] <= clock => lease[r] <= clock'
  BY <1>0, <1>1, <1>2, Numbers
<1>4. TypeOK'
  BY <1>0, <1>1, <1>2 DEF TypeOK
<1>5. Stages'
  BY <1>0, <1>1, <1>3 DEF Stages, StageOK
<1>6. InFlight' = InFlight
  BY <1>1 DEF InFlight
<1>7. Overlaps' /\ Locks'
  BY <1>0, <1>1, <1>3, <1>6 DEF Overlaps, Locks
<1>8. Recorded'
  BY <1>0, <1>1, <1>3, <1>6 DEF Recorded, TypeOK
<1>9. RecordedEffectOnce' /\ (UniqueKey => FreeKeyIsHandled')
  BY <1>0, <1>1 DEF RecordedEffectOnce, FreeKeyIsHandled
<1> QED BY <1>4, <1>5, <1>7, <1>8, <1>9 DEF IInv

--------------------------------------------------------------------------------
\* IInv is an inductive invariant of the middleware.
THEOREM Invariance == Spec => []IInv
<1>1. ASSUME Init PROVE IInv
  <2>1. TypeOK
    <3>1. clock \in 0..MaxTime
      BY <1>1, IdempotencyAssumption DEF Init
    <3>2. row \in Record /\ nextId \in Nat
      BY <1>1 DEF Init, NoRow, Record, Status
    <3>3. pc \in [Reqs -> Stage] /\ out \in [Reqs -> Outs]
      BY <1>1 DEF Init, Stage, Outs
    <3> QED BY <1>1, <3>1, <3>2, <3>3 DEF Init, TypeOK
  <2>2. Stages /\ InFlight = {}
    BY <1>1, <2>1 DEF Init, Stages, StageOK, NoRow, InFlight
  <2>3. Overlaps /\ Locks /\ Recorded
    BY <1>1, <2>2 DEF Init, Overlaps, Locks, Recorded
  <2>4. RecordedEffectOnce /\ FreeKeyIsHandled
    BY <1>1 DEF Init, RecordedEffectOnce, FreeKeyIsHandled
  <2> QED BY <2>1, <2>2, <2>3, <2>4 DEF IInv
<1>2. ASSUME IInv, [Next]_vars PROVE IInv'
  <2>1. ASSUME NEW r \in Reqs, Lookup(r) PROVE IInv'
    BY <1>2, <2>1, LookupKeeps
  <2>2. ASSUME NEW r \in Reqs, AcquireLock(r) PROVE IInv'
    BY <1>2, <2>2, AcquireLockKeeps
  <2>3. ASSUME NEW r \in Reqs, Recheck(r) PROVE IInv'
    BY <1>2, <2>3, RecheckKeeps
  <2>4. ASSUME NEW r \in Reqs, StrayInsert(r) PROVE IInv'
    BY <1>2, <2>4, StrayInsertKeeps
  <2>5. ASSUME NEW r \in Reqs, Execute(r) PROVE IInv'
    BY <1>2, <2>5, ExecuteKeeps
  <2>6. ASSUME NEW r \in Reqs, Update(r) PROVE IInv'
    BY <1>2, <2>6, UpdateKeeps
  <2>7. ASSUME NEW r \in Reqs, OutcomeLost(r) PROVE IInv'
    BY <1>2, <2>7, OutcomeLostKeeps
  <2>8. CASE DeleteExpired
    BY <1>2, <2>8, DeleteExpiredKeeps
  <2>9. CASE Tick
    BY <1>2, <2>9, TickKeeps
  <2>10. CASE UNCHANGED vars
    <3>1. UNCHANGED <<clock, row, nextId, pc, payload, lookedAt, lock, lease, stray, out,
                      effects, earlier, raced, lost, owed>>
      BY <2>10 DEF vars, reqVars, histVars
    <3>2. TypeOK' /\ Stages' /\ Overlaps' /\ Locks'
      BY <1>2, <3>1 DEF IInv, TypeOK, Stages, StageOK, Overlaps, InFlight, Locks
    <3>3. Recorded' /\ RecordedEffectOnce' /\ (UniqueKey => FreeKeyIsHandled')
      BY <1>2, <3>1 DEF IInv, Recorded, InFlight, RecordedEffectOnce, FreeKeyIsHandled
    <3> QED BY <3>2, <3>3 DEF IInv
  <2> QED BY <1>2, <2>1, <2>2, <2>3, <2>4, <2>5, <2>6, <2>7, <2>8, <2>9, <2>10 DEF Next
<1> QED BY <1>1, <1>2, PTL DEF Spec

\* Every column and every local of the handler keeps its type.
THEOREM TypeCorrect == Spec => []TypeOK
<1>1. IInv => TypeOK
  BY DEF IInv
<1> QED BY <1>1, Invariance, PTL

\* With or without the key, and whatever statements fail, the effect of a request that
\* was alone past GetByKey and whose outcome was written is not repeated before the
\* record that AcquireLock returned to it expires.
THEOREM EffectOnce == Spec => []RecordedEffectOnce
<1>1. IInv => RecordedEffectOnce
  BY DEF IInv
<1> QED BY <1>1, Invariance, PTL

\* On a table with the key, a request that finds no valid record runs its handler
\* unless it overlaps with another or the database fails it: neither GetByKey nor
\* AcquireLock turns it away, whatever state an expired record was left in.
THEOREM FreeKeyTurnsNobodyAway == ASSUME UniqueKey PROVE Spec => []FreeKeyIsHandled
<1>1. IInv => FreeKeyIsHandled
  BY DEF IInv
<1> QED BY <1>1, Invariance, PTL

================================================================================
