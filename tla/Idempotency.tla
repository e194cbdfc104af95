------------------------------- MODULE Idempotency -------------------------------
(***************************************************************************)
(* IdempotencyMiddleware.Wrap of supply-api (middleware/idempotency.go)    *)
(* over the statements of IdempotencyRepository (repository/idempotency.go).*)
(* It guards handleCreateAccount and handleWithdraw.                       *)
(*                                                                         *)
(* AcquireLock's ON CONFLICT names a unique key of the table.  The data    *)
(* dictionary lists it (data_dictionary_v1.md:242); the table migrate.sh   *)
(* installs (partition_strategy_v1.sql:110) has none, and PostgreSQL then  *)
(* refuses every such INSERT.  UniqueKey says which table it is.           *)
(*                                                                         *)
(* All requests carry one key: the rows of other keys are independent.     *)
(* Each statement is a transaction of its own, so the FOR UPDATE of        *)
(* GetByKey is released at once.  payload_hash is written only as the      *)
(* empty string of AcquireLock: Wrap sets the hash of the request in the   *)
(* record in memory and no statement stores it.                            *)
(***************************************************************************)
EXTENDS Integers, FiniteSets

CONSTANTS
  Reqs,           \* requests with the key
  Payloads,       \* their bodies, hashed injectively
  Blank,          \* the empty payload_hash
  UniqueKey,      \* the table has the unique key that ON CONFLICT names
  TTL,            \* config.TTL
  ProcessingTTL,  \* config.ProcessingTTL
  MaxTime         \* bound of the clock

ASSUME IdempotencyAssumption ==
  /\ Blank \notin Payloads /\ UniqueKey \in BOOLEAN
  /\ TTL \in Nat \ {0} /\ ProcessingTTL \in Nat \ {0} /\ MaxTime \in Nat

VARIABLES
  clock,
  row,        \* the record of the key; id = 0 when there is none
  nextId,     \* the id sequence
  pc,         \* the call each request makes next
  payload,    \* its body
  lookedAt,   \* when it passed GetByKey
  lock,       \* lockedRecord.ID
  lease,      \* lockedRecord.ExpiresAt
  stray,      \* the expires_at of its INSERT when that is still under way after its
              \* error was returned; 0 otherwise
  out,        \* its answer
  effects,    \* requests whose handler took effect (history)
  earlier,    \* the effects there were when it took effect (history)
  raced,      \* requests past GetByKey together with another one (history)
  lost,       \* requests whose INSERT or outcome the record does not tell (history)
  owed        \* requests that found no valid record and that the database has
              \* answered since (history)

reqVars  == <<pc, payload, lookedAt, lock, lease, stray, out>>
histVars == <<effects, earlier, raced, lost, owed>>
vars     == <<clock, row, nextId, reqVars, histVars>>

Status == {"none", "processing", "succeeded", "failed"}
Stage  == {"idle", "acquire", "recheck", "execute", "update", "done"}
Outs   == {"none", "check_failed", "replay", "mismatch", "in_progress", "lock_failed",
           "created", "failed"}
Record == [id : Nat, status : Status, hash : Payloads \cup {Blank}, hasCode : BOOLEAN,
           updatedAt : Nat, expiresAt : Nat]

TypeOK ==
  /\ clock \in 0..MaxTime
  /\ row \in Record /\ nextId \in Nat
  /\ pc \in [Reqs -> Stage] /\ out \in [Reqs -> Outs]
  /\ payload \in [Reqs -> Payloads \cup {Blank}]
  /\ lookedAt \in [Reqs -> Nat] /\ lock \in [Reqs -> Nat]
  /\ lease \in [Reqs -> Nat] /\ stray \in [Reqs -> Nat]
  /\ earlier \in [Reqs -> SUBSET Reqs]
  /\ effects \subseteq Reqs /\ raced \subseteq Reqs /\ lost \subseteq Reqs /\ owed \subseteq Reqs

NoRow == [id |-> 0, status |-> "none", hash |-> Blank, hasCode |-> FALSE,
          updatedAt |-> 0, expiresAt |-> 0]

Init ==
  /\ clock = 0 /\ row = NoRow /\ nextId = 1
  /\ pc = [r \in Reqs |-> "idle"] /\ out = [r \in Reqs |-> "none"]
  /\ payload = [r \in Reqs |-> Blank]
  /\ lookedAt = [r \in Reqs |-> 0] /\ lock = [r \in Reqs |-> 0]
  /\ lease = [r \in Reqs |-> 0] /\ stray = [r \in Reqs |-> 0]
  /\ earlier = [r \in Reqs |-> {}]
  /\ effects = {} /\ raced = {} /\ lost = {} /\ owed = {}

Goto(r, next) == pc' = [pc EXCEPT ![r] = next] /\ UNCHANGED out

Answer(r, o) == pc' = [pc EXCEPT ![r] = "done"] /\ out' = [out EXCEPT ![r] = o]

\* Mutant: GetByKey without the condition on expires_at.
VisibleForever == row.id # 0

\* The WHERE clause of GetByKey.
Visible == row.id # 0 /\ row.expiresAt > clock

--------------------------------------------------------------------------------
\* What Wrap makes of GetByKey: it lets the request pass or answers it.  A NULL
\* response_code cannot be scanned, so GetByKey fails on a first record until
\* its outcome is written.
LookupVerdict(b) ==
  IF ~Visible THEN "pass"
  ELSE IF ~row.hasCode THEN "check_failed"
  ELSE CASE row.status = "succeeded" ->
              IF row.hash = b THEN "replay" ELSE "mismatch"
         [] row.status = "processing" ->
              IF clock - row.updatedAt < ProcessingTTL THEN "in_progress" ELSE "pass"
         [] row.status = "failed" -> "pass"

\* Requests past GetByKey, or whose INSERT is still under way.
InFlight == {q \in Reqs : pc[q] \in {"acquire", "recheck", "execute", "update"} \/ stray[q] # 0}

\* The request runs into those under way.
Meet(r) == raced' = IF InFlight = {} THEN raced ELSE raced \cup InFlight \cup {r}

\* The key is free: there is no record, or none that is valid.
Owe(r) == owed' = IF row.id = 0 \/ row.expiresAt <= clock THEN owed \cup {r} ELSE owed

\* GetByKey and the branches on its result; it may also fail.
Lookup(r) ==
  /\ pc[r] = "idle"
  /\ \E b \in Payloads :
       /\ payload' = [payload EXCEPT ![r] = b]
       /\ \/ /\ LookupVerdict(b) = "pass"
             /\ Goto(r, "acquire") /\ Meet(r) /\ Owe(r)
             /\ lookedAt' = [lookedAt EXCEPT ![r] = clock]
          \/ /\ LookupVerdict(b) # "pass"
             /\ Answer(r, LookupVerdict(b)) /\ Owe(r)
             /\ UNCHANGED <<lookedAt, raced>>
          \/ /\ Answer(r, "check_failed")
             /\ UNCHANGED <<lookedAt, raced, owed>>
  /\ UNCHANGED <<clock, row, nextId, lock, lease, stray, effects, earlier, lost>>

\* ON CONFLICT DO UPDATE ... WHERE expires_at <= $8, and $8 is the new expiry.
TakeOver(newExpiry) == row.expiresAt <= newExpiry

\* The INSERT returns a row.
Claims(newExpiry) == UniqueKey /\ (row.id = 0 \/ TakeOver(newExpiry))

\* The record after an INSERT that returns a row: a new one or the one taken over.
Claim(newExpiry) ==
  IF row.id = 0
    THEN /\ row' = [id |-> nextId, status |-> "processing", hash |-> Blank,
                    hasCode |-> FALSE, updatedAt |-> clock, expiresAt |-> newExpiry]
         /\ nextId' = nextId + 1
    ELSE /\ row' = [row EXCEPT !.status = "processing", !.hash = Blank,
                               !.updatedAt = clock, !.expiresAt = newExpiry]
         /\ UNCHANGED nextId

\* The INSERT of AcquireLock: it returns a row; it returns none or is refused for want
\* of the key; or the database fails, and may execute the statement all the same.
AcquireLock(r) ==
  /\ pc[r] = "acquire"
  /\ \E now \in lookedAt[r]..clock : LET newExpiry == now + TTL IN
       \/ /\ Claims(newExpiry) /\ Claim(newExpiry)
          /\ lock' = [lock EXCEPT ![r] = row'.id]
          /\ lease' = [lease EXCEPT ![r] = newExpiry]
          /\ Goto(r, "execute")
          /\ UNCHANGED <<stray, lost, owed>>
       \/ /\ ~Claims(newExpiry)
          /\ Goto(r, "recheck")
          /\ UNCHANGED <<row, nextId, lock, lease, stray, lost, owed>>
       \/ /\ Goto(r, "recheck")
          /\ owed' = owed \ {r}
          /\ \/ UNCHANGED <<stray, lost>>
             \/ stray' = [stray EXCEPT ![r] = newExpiry] /\ lost' = lost \cup {r}
          /\ UNCHANGED <<row, nextId, lock, lease>>
  /\ UNCHANGED <<clock, payload, lookedAt, effects, earlier, raced>>

\* AcquireLock after an error of its INSERT, whatever the error: the valid record is
\* returned as the lock, with any status; without one, or when GetByKey fails, the
\* request is answered.
Recheck(r) ==
  /\ pc[r] = "recheck"
  /\ \/ /\ Visible /\ row.hasCode
        /\ lock' = [lock EXCEPT ![r] = row.id]
        /\ lease' = [lease EXCEPT ![r] = row.expiresAt]
        /\ Goto(r, "execute")
        /\ UNCHANGED owed
     \/ /\ ~(Visible /\ row.hasCode)
        /\ Answer(r, "lock_failed")
        /\ UNCHANGED <<lock, lease, owed>>
     \/ /\ Answer(r, "lock_failed")
        /\ owed' = owed \ {r}
        /\ UNCHANGED <<lock, lease>>
  /\ UNCHANGED <<clock, row, nextId, payload, lookedAt, stray, effects, earlier, raced, lost>>

\* The database executes an INSERT whose error was already returned.
StrayInsert(r) ==
  /\ stray[r] # 0
  /\ stray' = [stray EXCEPT ![r] = 0]
  /\ IF Claims(stray[r]) THEN Claim(stray[r]) ELSE UNCHANGED <<row, nextId>>
  /\ UNCHANGED <<clock, pc, payload, lookedAt, lock, lease, out, histVars>>

\* The handler takes effect and answers 201, or returns an error: without effect, or
\* with one that it does not know of (the Commit that reports a lost connection).
Execute(r) ==
  /\ pc[r] = "execute"
  /\ \/ /\ out' = [out EXCEPT ![r] = "created"]
        /\ effects' = effects \cup {r} /\ earlier' = [earlier EXCEPT ![r] = effects]
        /\ UNCHANGED lost
     \/ /\ out' = [out EXCEPT ![r] = "failed"]
        /\ \/ UNCHANGED <<effects, earlier, lost>>
           \/ /\ effects' = effects \cup {r} /\ earlier' = [earlier EXCEPT ![r] = effects]
              /\ lost' = lost \cup {r}
  /\ pc' = [pc EXCEPT ![r] = "update"]
  /\ UNCHANGED <<clock, row, nextId, payload, lookedAt, lock, lease, stray, raced, owed>>

\* Mutant: the outcome is always recorded with UpdateFailed.
OutcomeAlwaysFailed(r) == "failed"

\* UpdateSuccess when the handler returned nil, UpdateFailed otherwise.
Outcome(r) == IF out[r] = "created" THEN "succeeded" ELSE "failed"

\* Mutant: the status column is written with the answer to the client.
UpdateWithAnswer(r) ==
  /\ pc[r] = "update"
  /\ row' = [row EXCEPT !.status = out[r], !.hasCode = TRUE, !.updatedAt = clock]
  /\ Goto(r, "done")
  /\ UNCHANGED <<clock, nextId, payload, lookedAt, lock, lease, stray, histVars>>

\* UPDATE ... WHERE id = lockedRecord.ID; no row when it was deleted meanwhile.
Update(r) ==
  /\ pc[r] = "update"
  /\ row' = IF row.id = lock[r]
              THEN [row EXCEPT !.status = Outcome(r), !.hasCode = TRUE, !.updatedAt = clock]
              ELSE row
  /\ Goto(r, "done")
  /\ UNCHANGED <<clock, nextId, payload, lookedAt, lock, lease, stray, histVars>>

\* The process dies, or the error of the update is ignored: no outcome is written.
OutcomeLost(r) ==
  /\ pc[r] \in {"execute", "update"}
  /\ Goto(r, "done")
  /\ lost' = lost \cup {r}
  /\ UNCHANGED <<clock, row, nextId, payload, lookedAt, lock, lease, stray,
                 effects, earlier, raced, owed>>

DeleteExpired ==
  /\ row.id # 0 /\ row.expiresAt < clock
  /\ row' = NoRow
  /\ UNCHANGED <<clock, nextId, reqVars, histVars>>

Tick ==
  /\ clock < MaxTime
  /\ clock' = clock + 1
  /\ UNCHANGED <<row, nextId, reqVars, histVars>>

Next ==
  \/ Tick \/ DeleteExpired
  \/ \E r \in Reqs :
       \/ Lookup(r) \/ AcquireLock(r) \/ Recheck(r) \/ StrayInsert(r)
       \/ Execute(r) \/ Update(r) \/ OutcomeLost(r)

Spec == Init /\ [][Next]_vars

--------------------------------------------------------------------------------
\* An effect is not repeated while the record that tells of it is valid: a request that
\* takes effect after p looked when p's record had expired, unless p overlapped with
\* another request or its record does not tell p's outcome.  This holds whatever else
\* fails, and on the path where AcquireLock returns the record another request left.
RecordedEffectOnce ==
  \A q \in effects : \A p \in earlier[q] :
    p \in raced \/ p \in lost \/ lease[p] <= lookedAt[q]

\* A record blocks its key no longer than its expiry, whatever state a crash left
\* it in, and a first request is not turned away: one that finds no valid record is
\* handled, unless it overlaps with another or the database fails it.
FreeKeyIsHandled ==
  \A r \in owed : r \in raced \/ out[r] \in {"none", "created", "failed"}

================================================================================
