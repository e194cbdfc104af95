--------------------------------- MODULE Outbox ---------------------------------
(***************************************************************************)
(* The outbox of supply-api: OutboxProcessorRunner (outbox/outbox.go) over *)
(* the statements of OutboxRepository (repository/outbox.go) and the Redis *)
(* stream that OutboxMessageBroker appends to.  Several runners, one for   *)
(* each instance of the service, share the table.  They are runners that   *)
(* main got to start: SupplyStartup shows when it does not.                *)
(*                                                                         *)
(* Every statement and every Publish may fail, and may fail after it took  *)
(* effect (a lost connection); a runner may crash and start again.  A      *)
(* cancelled context is a crash: every later call of the batch fails.      *)
(***************************************************************************)
EXTENDS Integers, Sequences, FiniteSets

CONSTANTS
  Events,       \* event ids
  Described,    \* events inserted by another writer, with an error_message
  Runners,      \* instances of OutboxProcessorRunner
  NoEvent,      \* no event in hand
  BatchSize,    \* batchSize
  MaxRetries    \* max_retries of each event

ASSUME OutboxAssumption ==
  /\ Described \subseteq Events
  /\ NoEvent \notin Events
  /\ BatchSize \in Nat \ {0}
  /\ MaxRetries \in [Events -> Nat]

VARIABLES
  created,      \* the events of supply_outbox ever inserted, by created_at
  row,          \* status of the row, "none" without one
  described,    \* events whose error_message is not NULL
  retryCount,   \* retry_count of the row
  waiting,      \* events whose next_retry_at lies ahead
  deadLetters,  \* rows of supply_outbox_dead_letter: [event -> handled]
  pc,           \* the call each runner makes next
  batch,        \* events it fetched and has not published yet
  cur,          \* the event in hand
  stream,       \* events in the Redis stream
  confirmed     \* events for which Publish returned nil (history)

tableVars  == <<created, row, described, retryCount, waiting, deadLetters>>
runnerVars == <<pc, batch, cur>>
pubVars    == <<stream, confirmed>>
vars       == <<tableVars, runnerVars, pubVars>>

OutboxStatus == {"none", "pending", "processing", "completed", "failed"}

TypeOK ==
  /\ created \in Seq(Events)
  /\ row \in [Events -> OutboxStatus]
  /\ described \subseteq Events
  /\ retryCount \in [Events -> Nat]
  /\ waiting \subseteq Events
  /\ deadLetters \in [Events -> {"none", "unhandled", "handled"}]
  /\ pc \in [Runners -> {"idle", "fetch", "publish", "complete", "fail", "dead"}]
  /\ batch \in [Runners -> SUBSET Events]
  /\ cur \in [Runners -> Events \cup {NoEvent}]
  /\ stream \subseteq Events
  /\ confirmed \subseteq Events

Init ==
  /\ created = <<>>
  /\ row = [e \in Events |-> "none"]
  /\ described = {}
  /\ retryCount = [e \in Events |-> 0]
  /\ waiting = {}
  /\ deadLetters = [e \in Events |-> "none"]
  /\ pc = [p \in Runners |-> "idle"]
  /\ batch = [p \in Runners |-> {}]
  /\ cur = [p \in Runners |-> NoEvent]
  /\ stream = {}
  /\ confirmed = {}

Created == {created[i] : i \in 1..Len(created)}

\* Runner p goes on with its batch, or waits for the next tick after it.
NextEvent(p) ==
  /\ pc' = [pc EXCEPT ![p] = IF batch[p] = {} THEN "idle" ELSE "publish"]
  /\ cur' = [cur EXCEPT ![p] = NoEvent]

--------------------------------------------------------------------------------
\* Create leaves error_message NULL; only another writer would fill it in.
Create(e) ==
  /\ e \notin Created
  /\ created' = Append(created, e)
  /\ row' = [row EXCEPT ![e] = "pending"]
  /\ described' = described \cup ({e} \cap Described)
  /\ UNCHANGED <<retryCount, waiting, deadLetters, runnerVars, pubVars>>

\* The clock reaches next_retry_at.
Elapse(e) ==
  /\ e \in waiting
  /\ waiting' = waiting \ {e}
  /\ UNCHANGED <<created, row, described, retryCount, deadLetters, runnerVars, pubVars>>

\* Mutant: events that are being processed are fetched again.
ProcessingToo == {e \in Events : row[e] \in {"pending", "failed", "processing"} /\ e \notin waiting}

\* Mutant: the index on 'failed' is forgotten, failed events are not fetched.
PendingOnly == {e \in Events : row[e] = "pending" /\ e \notin waiting}

\* The WHERE clause of FetchAndLock.
Eligible == {e \in Events : row[e] \in {"pending", "failed"} /\ e \notin waiting}

\* ORDER BY created_at ASC LIMIT batchSize.
Claimed ==
  {created[i] : i \in {j \in 1..Len(created) :
     /\ created[j] \in Eligible
     /\ Cardinality({k \in 1..j-1 : created[k] \in Eligible}) < BatchSize}}

\* The ticker of Start fires and process begins.
TickProcess(p) ==
  /\ pc[p] = "idle"
  /\ pc' = [pc EXCEPT ![p] = "fetch"]
  /\ UNCHANGED <<tableVars, batch, cur, pubVars>>

\* FetchAndLock whose UPDATE commits: that is taken to happen before its rows are
\* read.  A lost connection then ends the loop over the rows without an error (rows.Err
\* is not asked), and one NULL error_message among the rows read fails the whole call.
Claim(p) ==
  /\ pc[p] = "fetch"
  /\ Claimed # {}
  /\ row' = [e \in Events |-> IF e \in Claimed THEN "processing" ELSE row[e]]
  /\ \E read \in SUBSET Claimed :
       LET events == IF read \subseteq described THEN read ELSE {} IN
       /\ batch' = [batch EXCEPT ![p] = events]
       /\ pc' = [pc EXCEPT ![p] = IF events = {} THEN "idle" ELSE "publish"]
  /\ UNCHANGED <<created, described, retryCount, waiting, deadLetters, cur, pubVars>>

\* FetchAndLock whose query fails, or finds nothing to claim.
FetchNothing(p) ==
  /\ pc[p] = "fetch"
  /\ pc' = [pc EXCEPT ![p] = "idle"]
  /\ UNCHANGED <<tableVars, batch, cur, pubVars>>

FetchAndLock(p) == Claim(p) \/ FetchNothing(p)

\* handleFailure counts the failure in memory and chooses the next call.
HandleFailure(p, e) ==
  pc' = [pc EXCEPT ![p] = IF retryCount[e] + 1 >= MaxRetries[e] THEN "dead" ELSE "fail"]

\* Publish: XADD succeeds, fails, or is applied and its reply lost.
Publish(p) ==
  /\ pc[p] = "publish"
  /\ \E e \in batch[p] :
       /\ batch' = [batch EXCEPT ![p] = @ \ {e}]
       /\ cur' = [cur EXCEPT ![p] = e]
       /\ \/ /\ stream' = stream \cup {e}
             /\ confirmed' = confirmed \cup {e}
             /\ pc' = [pc EXCEPT ![p] = "complete"]
          \/ /\ stream' \in {stream, stream \cup {e}}
             /\ HandleFailure(p, e)
             /\ UNCHANGED confirmed
  /\ UNCHANGED tableVars

\* Mutant: a failed MarkCompleted is treated as a failed Publish.
CompleteOrFail(p) ==
  /\ pc[p] = "complete"
  /\ \/ row' = [row EXCEPT ![cur[p]] = "completed"] /\ NextEvent(p)
     \/ HandleFailure(p, cur[p]) /\ UNCHANGED <<row, cur>>
  /\ UNCHANGED <<created, described, retryCount, waiting, deadLetters, batch, pubVars>>

\* MarkCompleted; a failure is only counted in the statistics.
MarkCompleted(p) ==
  /\ pc[p] = "complete"
  /\ \/ row[cur[p]] = "processing" /\ row' = [row EXCEPT ![cur[p]] = "completed"]
     \/ UNCHANGED row
  /\ NextEvent(p)
  /\ UNCHANGED <<created, described, retryCount, waiting, deadLetters, batch, pubVars>>

\* MarkFailed, or its failure.  retry_count is not among the columns it sets.
MarkFailed(p) ==
  LET e == cur[p] IN
  /\ pc[p] = "fail"
  /\ \/ /\ row[e] = "processing"
        /\ row' = [row EXCEPT ![e] = "failed"]
        /\ described' = described \cup {e}
        /\ waiting' = waiting \cup {e}
     \/ UNCHANGED <<row, described, waiting>>
  /\ NextEvent(p)
  /\ UNCHANGED <<created, retryCount, deadLetters, batch, pubVars>>

\* Mutant: the row is deleted outside the transaction that inserts the letter.
DeleteThenInsert(p) ==
  LET e == cur[p] IN
  /\ pc[p] = "dead"
  /\ row' = [row EXCEPT ![e] = "none"]
  /\ deadLetters' \in {deadLetters, [deadLetters EXCEPT ![e] = "unhandled"]}
  /\ NextEvent(p)
  /\ UNCHANGED <<created, described, retryCount, waiting, batch, pubVars>>

\* Mutant: the row stays, with the status 'dead_letter' of the enumeration.
KeepDeadLetterRow(p) ==
  LET e == cur[p] IN
  /\ pc[p] = "dead"
  /\ row' = [row EXCEPT ![e] = "dead_letter"]
  /\ NextEvent(p)
  /\ UNCHANGED <<created, described, retryCount, waiting, deadLetters, batch, pubVars>>

\* MoveToDeadLetter: one transaction inserts the letter and deletes the row.
MoveToDeadLetter(p) ==
  LET e == cur[p] IN
  /\ pc[p] = "dead"
  /\ \/ /\ row' = [row EXCEPT ![e] = "none"]
        /\ deadLetters' = [deadLetters EXCEPT ![e] = "unhandled"]
     \/ UNCHANGED <<row, deadLetters>>
  /\ NextEvent(p)
  /\ UNCHANGED <<created, described, retryCount, waiting, batch, pubVars>>

\* The process dies and starts again, or its context is cancelled.
Crash(p) ==
  /\ pc[p] # "idle"
  /\ pc' = [pc EXCEPT ![p] = "idle"]
  /\ batch' = [batch EXCEPT ![p] = {}]
  /\ cur' = [cur EXCEPT ![p] = NoEvent]
  /\ UNCHANGED <<tableVars, pubVars>>

MarkDeadLetterHandled(e) ==
  /\ deadLetters[e] # "none"
  /\ deadLetters' = [deadLetters EXCEPT ![e] = "handled"]
  /\ UNCHANGED <<created, row, described, retryCount, waiting, runnerVars, pubVars>>

\* DeleteCompleted; processed_at decides which completed rows go.
DeleteCompleted ==
  /\ \E S \in SUBSET {e \in Events : row[e] = "completed"} :
       row' = [e \in Events |-> IF e \in S THEN "none" ELSE row[e]]
  /\ UNCHANGED <<created, described, retryCount, waiting, deadLetters, runnerVars, pubVars>>

\* The tick and the calls of one runner.
Process(p) ==
  \/ TickProcess(p) \/ FetchAndLock(p) \/ Publish(p) \/ MarkCompleted(p) \/ MarkFailed(p)
  \/ MoveToDeadLetter(p)

Next ==
  \/ \E e \in Events : Create(e) \/ Elapse(e) \/ MarkDeadLetterHandled(e)
  \/ \E p \in Runners : Process(p) \/ Crash(p)
  \/ DeleteCompleted

Spec == Init /\ [][Next]_vars

\* The ticker of Start goes on calling process, process works off its batch, and
\* time passes.  Nothing obliges a call to succeed.
Fairness ==
  /\ \A p \in Runners : WF_vars(Process(p))
  /\ \A e \in Events : WF_vars(Elapse(e))

\* An assumption on the database and not on the code: a runner that asks again and
\* again while there is something to claim gets an answer once in a while.
DatabaseAnswers == \A p \in Runners : SF_vars(Claim(p))

FairSpec == Spec /\ Fairness /\ DatabaseAnswers

--------------------------------------------------------------------------------
\* The events runner p still has to publish or to mark.
Held(p) == batch[p] \cup ({cur[p]} \cap Events)

\* The claim of FetchAndLock works as a lock: what a runner holds is marked
\* processing, and no event is in the hands of two runners.
SingleOwner ==
  /\ \A p \in Runners : \A e \in Held(p) : row[e] = "processing"
  /\ \A p, q \in Runners : p # q => Held(p) \cap Held(q) = {}

\* An event whose Publish was confirmed is never handed out or dead-lettered
\* afterwards, even if it could not be marked completed: process does not retry
\* a failed MarkCompleted.
ConfirmedOnce ==
  \A e \in confirmed :
    /\ row[e] \notin {"pending", "failed"} /\ deadLetters[e] = "none"
    /\ \A p \in Runners : e \notin batch[p]

\* An event never disappears: its row exists, or its dead letter does, or it was
\* published (MoveToDeadLetter is one transaction, DeleteCompleted takes only
\* completed rows).
NeverLost ==
  \A e \in Created :
    row[e] # "none" \/ deadLetters[e] # "none" \/ e \in confirmed

\* The events before e, by created_at, that may have to be fetched before it.
Ahead(e) ==
  {created[i] : i \in {j \in 1..Len(created) :
     /\ row[created[j]] \in {"pending", "processing", "failed"}
     /\ \E k \in j+1..Len(created) : created[k] = e}}

\* As long as runners run and the database answers once in a while, an event that waits
\* is claimed in the end, whatever else fails, unless the older ones that keep failing
\* fill the batch: FetchAndLock takes the oldest first.
WaitingIsFetched ==
  \A e \in Events :
    (row[e] \in {"pending", "failed"} /\ Cardinality(Ahead(e)) < BatchSize)
      ~> (row[e] = "processing")

\* sql/postgresql/outbox_pattern_v1.sql:64: the table is for reliable publication;
\* an event is published or dead-lettered in the end.
EventuallyHandled ==
  \A e \in Events :
    (row[e] = "pending") ~> (e \in stream \/ deadLetters[e] # "none")
================================================================================
