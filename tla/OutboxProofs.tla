------------------------------ MODULE OutboxProofs ------------------------------
(***************************************************************************)
(* The outbox, for any events, runners, batch size and retry limits: its   *)
(* types, that the claim of FetchAndLock works as a lock, that a confirmed *)
(* event is never handed out again, and that no event is lost.  That       *)
(* waiting events are fetched in the end is left to TLC.                   *)
(***************************************************************************)
EXTENDS Outbox, SequenceTheorems, TLAPS

\* What the call a runner makes next says of the event in its hand.
Stages ==
  \A p \in Runners :
    /\ cur[p] \notin batch[p]
    /\ pc[p] \in {"idle", "fetch"} => batch[p] = {}
    /\ pc[p] \in {"idle", "fetch", "publish"} => cur[p] = NoEvent
    /\ pc[p] = "complete" => cur[p] \in confirmed
    /\ pc[p] \in {"fail", "dead"} => cur[p] \in Events \ confirmed

\* What the table says of an event: it was inserted once, its row and its dead
\* letter exclude one another, and only confirmed events are completed.
Rows ==
  \A e \in Events :
    /\ row[e] # "none" \/ deadLetters[e] # "none" \/ e \in confirmed => e \in Created
    /\ deadLetters[e] # "none" => row[e] = "none"
    /\ row[e] = "completed" => e \in confirmed

\* SingleOwner needs Stages for the event in hand; ConfirmedOnce needs SingleOwner
\* (nobody else holds what is confirmed) and Rows; NeverLost needs Rows.
IInv == TypeOK /\ Stages /\ Rows /\ SingleOwner /\ ConfirmedOnce /\ NeverLost

--------------------------------------------------------------------------------
\* Create adds its event to the ones ever inserted.
LEMMA CreatedAppend ==
  ASSUME NEW s \in Seq(Events), NEW e \in Events
  PROVE  /\ Append(s, e) \in Seq(Events)
         /\ {Append(s, e)[i] : i \in 1..Len(Append(s, e))} = {s[i] : i \in 1..Len(s)} \cup {e}
<1>1. /\ Append(s, e) \in Seq(Events)
      /\ Len(Append(s, e)) = Len(s) + 1
      /\ \A i \in 1..Len(s) : Append(s, e)[i] = s[i]
      /\ Append(s, e)[Len(s) + 1] = e
  BY AppendProperties
<1>2. Len(s) \in Nat
  BY LenProperties
<1>3. ASSUME NEW i \in 1..Len(Append(s, e))
      PROVE  Append(s, e)[i] \in {s[j] : j \in 1..Len(s)} \cup {e}
  BY <1>1, <1>2
<1>4. ASSUME NEW i \in 1..Len(s)
      PROVE  s[i] \in {Append(s, e)[j] : j \in 1..Len(Append(s, e))}
  <2>1. i \in 1..Len(Append(s, e)) /\ Append(s, e)[i] = s[i]
    BY <1>1, <1>2
  <2> QED BY <2>1
<1>5. e \in {Append(s, e)[j] : j \in 1..Len(Append(s, e))}
  <2>1. Len(s) + 1 \in 1..Len(Append(s, e))
    BY <1>1, <1>2
  <2> QED BY <1>1, <2>1
<1> QED BY <1>1, <1>3, <1>4, <1>5

\* FetchAndLock claims only events that are pending or failed.
LEMMA ClaimedEligible == Claimed \subseteq Eligible
BY DEF Claimed

\* After a call on the event in hand the runner holds what is left of its batch.
LEMMA NextEventHolds ==
  ASSUME TypeOK, NEW p \in Runners, NextEvent(p), batch' = batch
  PROVE  /\ pc' \in [Runners -> {"idle", "fetch", "publish", "complete", "fail", "dead"}]
         /\ cur' \in [Runners -> Events \cup {NoEvent}]
         /\ cur'[p] = NoEvent
         /\ pc'[p] = IF batch[p] = {} THEN "idle" ELSE "publish"
         /\ \A q \in Runners \ {p} : cur'[q] = cur[q] /\ pc'[q] = pc[q]
BY DEF TypeOK, NextEvent

--------------------------------------------------------------------------------
\* An event that was never inserted has no row, no letter and no holder.
LEMMA CreateKeeps ==
  ASSUME IInv, NEW e \in Events, Create(e)
  PROVE  IInv'
<1>0. TypeOK /\ Stages /\ Rows /\ SingleOwner /\ ConfirmedOnce /\ NeverLost
  BY DEF IInv
<1>1. row[e] = "none" /\ deadLetters[e] = "none" /\ e \notin confirmed /\ e \notin Created
  BY <1>0 DEF Rows, Create
<1>2. created' \in Seq(Events) /\ Created' = Created \cup {e}
  <2>1. created \in Seq(Events) /\ created' = Append(created, e)
    BY <1>0 DEF TypeOK, Create
  <2>2. /\ Append(created, e) \in Seq(Events)
        /\ {Append(created, e)[i] : i \in 1..Len(Append(created, e))}
             = {created[i] : i \in 1..Len(created)} \cup {e}
    BY <2>1, CreatedAppend
  <2> QED BY <2>1, <2>2 DEF Created
<1>3. /\ row' \in [Events -> OutboxStatus]
      /\ row'[e] = "pending"
      /\ \A f \in Events \ {e} : row'[f] = row[f]
  BY <1>0 DEF TypeOK, Create, OutboxStatus
<1>4. TypeOK'
  BY <1>0, <1>2, <1>3 DEF TypeOK, Create, runnerVars, pubVars
<1>5. Stages'
  BY <1>0 DEF Stages, Create, runnerVars, pubVars
<1>6. Rows'
  BY <1>0, <1>1, <1>2, <1>3 DEF Rows, Create, pubVars
<1>7. SingleOwner'
  <2>1. \A p \in Runners : Held(p)' = Held(p) /\ Held(p) \subseteq Events
    BY <1>0 DEF Create, runnerVars, Held, TypeOK
  <2> QED BY <1>0, <1>1, <1>3, <2>1 DEF SingleOwner
<1>8. ConfirmedOnce'
  BY <1>0, <1>1, <1>3 DEF ConfirmedOnce, Create, runnerVars, pubVars, TypeOK
<1>9. NeverLost'
  BY <1>0, <1>2, <1>3 DEF NeverLost, Create, pubVars, TypeOK, Rows
<1> QED BY <1>4, <1>5, <1>6, <1>7, <1>8, <1>9 DEF IInv

\* The passing of next_retry_at touches neither rows nor runners.
LEMMA ElapseKeeps ==
  ASSUME IInv, NEW e \in Events, Elapse(e)
  PROVE  IInv'
BY DEF IInv, TypeOK, Stages, Rows, SingleOwner, ConfirmedOnce, NeverLost, Held, Created, Elapse,
       runnerVars, pubVars

\* MarkDeadLetterHandled changes a dead letter that exists, and it goes on existing.
LEMMA HandledKeeps ==
  ASSUME IInv, NEW e \in Events, MarkDeadLetterHandled(e)
  PROVE  IInv'
<1>0. TypeOK /\ Stages /\ Rows /\ SingleOwner /\ ConfirmedOnce /\ NeverLost
  BY DEF IInv
<1>1. /\ deadLetters' \in [Events -> {"none", "unhandled", "handled"}]
      /\ \A f \in Events : deadLetters'[f] = "none" <=> deadLetters[f] = "none"
  BY <1>0 DEF MarkDeadLetterHandled, TypeOK
<1>2. TypeOK' /\ Stages' /\ SingleOwner'
  BY <1>0, <1>1 DEF TypeOK, Stages, SingleOwner, Held, MarkDeadLetterHandled, runnerVars, pubVars
<1>3. Rows' /\ ConfirmedOnce' /\ NeverLost'
  BY <1>0, <1>1 DEF Rows, ConfirmedOnce, NeverLost, Created, TypeOK, MarkDeadLetterHandled,
     runnerVars, pubVars
<1> QED BY <1>2, <1>3 DEF IInv

\* A tick, and a query without effect, move only the runner's program counter.
LEMMA WaitKeeps ==
  ASSUME IInv, NEW p \in Runners, TickProcess(p) \/ FetchNothing(p)
  PROVE  IInv'
<1>0. TypeOK /\ Stages /\ Rows /\ SingleOwner /\ ConfirmedOnce /\ NeverLost
  BY DEF IInv
<1>1. /\ pc[p] \in {"idle", "fetch"}
      /\ pc' = [pc EXCEPT ![p] = "fetch"] \/ pc' = [pc EXCEPT ![p] = "idle"]
      /\ UNCHANGED <<created, row, described, retryCount, waiting, deadLetters, batch, cur,
                     stream, confirmed>>
  BY DEF TickProcess, FetchNothing, tableVars, pubVars
<1>2. /\ pc' \in [Runners -> {"idle", "fetch", "publish", "complete", "fail", "dead"}]
      /\ pc'[p] \in {"idle", "fetch"} /\ \A q \in Runners \ {p} : pc'[q] = pc[q]
  BY <1>0, <1>1 DEF TypeOK
<1>3. TypeOK' /\ Stages'
  BY <1>0, <1>1, <1>2 DEF TypeOK, Stages
<1>4. Rows' /\ SingleOwner' /\ ConfirmedOnce' /\ NeverLost'
  BY <1>0, <1>1 DEF Rows, SingleOwner, ConfirmedOnce, NeverLost, Held, Created
<1> QED BY <1>3, <1>4 DEF IInv

\* What FetchAndLock hands out was pending or failed: nobody holds it, and it was
\* never confirmed.
LEMMA ClaimKeeps ==
  ASSUME IInv, NEW p \in Runners, Claim(p)
  PROVE  IInv'
<1>0. TypeOK /\ Stages /\ Rows /\ SingleOwner /\ ConfirmedOnce /\ NeverLost
  BY DEF IInv
<1>1. ASSUME NEW e \in Claimed
      PROVE  /\ e \in Events /\ row[e] \in {"pending", "failed"} /\ e \notin confirmed
             /\ \A q \in Runners : e \notin Held(q)
  <2>1. e \in Events /\ row[e] \in {"pending", "failed"}
    BY <1>1, ClaimedEligible DEF Eligible
  <2> QED BY <1>0, <2>1 DEF SingleOwner, ConfirmedOnce
<1>2. PICK events \in SUBSET Claimed :
        /\ batch' = [batch EXCEPT ![p] = events]
        /\ pc' = [pc EXCEPT ![p] = IF events = {} THEN "idle" ELSE "publish"]
  <2>1. PICK read \in SUBSET Claimed :
          LET events == IF read \subseteq described THEN read ELSE {} IN
          /\ batch' = [batch EXCEPT ![p] = events]
          /\ pc' = [pc EXCEPT ![p] = IF events = {} THEN "idle" ELSE "publish"]
    BY DEF Claim
  <2>2. (IF read \subseteq described THEN read ELSE {}) \in SUBSET Claimed
    OBVIOUS
  <2> QED BY <2>1, <2>2
<1>3. pc[p] = "fetch" /\ cur[p] = NoEvent /\ batch[p] = {}
  BY <1>0 DEF Claim, Stages
<1>4. UNCHANGED <<created, described, retryCount, waiting, deadLetters, cur, stream, confirmed>>
  BY DEF Claim, pubVars
<1>5. /\ row' \in [Events -> OutboxStatus]
      /\ \A e \in Events : row'[e] = IF e \in Claimed THEN "processing" ELSE row[e]
  BY <1>0 DEF Claim, TypeOK, OutboxStatus
<1>6. /\ batch'[p] = events
      /\ pc'[p] = IF events = {} THEN "idle" ELSE "publish"
      /\ \A q \in Runners \ {p} : batch'[q] = batch[q] /\ pc'[q] = pc[q]
  BY <1>0, <1>2 DEF TypeOK
<1>7. TypeOK'
  <2>1. events \subseteq Events
    BY <1>1
  <2> QED BY <1>0, <1>2, <1>4, <1>5, <2>1 DEF TypeOK
<1>8. Stages'
  <2>1. NoEvent \notin events
    BY <1>1, OutboxAssumption
  <2> QED BY <1>0, <1>3, <1>4, <1>6, <2>1 DEF Stages
<1>9. Rows'
  BY <1>0, <1>1, <1>4, <1>5 DEF Rows, Created
<1>10. SingleOwner'
  <2>1. Held(p)' = events
    BY <1>3, <1>4, <1>6, OutboxAssumption DEF Held
  <2>2. \A q \in Runners \ {p} : Held(q)' = Held(q)
    BY <1>4, <1>6 DEF Held
  <2>3. \A q \in Runners : Held(q) \subseteq Events
    BY <1>0 DEF TypeOK, Held
  <2>4. ASSUME NEW q \in Runners, NEW e \in Held(q)' PROVE row'[e] = "processing"
    <3>1. CASE q = p
      BY <1>1, <1>5, <2>1, <2>4, <3>1
    <3>2. CASE q # p
      BY <1>0, <1>5, <2>2, <2>3, <2>4, <3>2 DEF SingleOwner
    <3> QED BY <3>1, <3>2
  <2>5. ASSUME NEW q \in Runners, NEW r \in Runners, q # r PROVE Held(q)' \cap Held(r)' = {}
    <3>1. CASE q # p /\ r # p
      BY <1>0, <2>2, <2>5, <3>1 DEF SingleOwner
    <3>2. CASE q = p
      BY <1>1, <2>1, <2>2, <2>5, <3>2
    <3>3. CASE r = p
      BY <1>1, <2>1, <2>2, <2>5, <3>3
    <3> QED BY <3>1, <3>2, <3>3
  <2> QED BY <2>4, <2>5 DEF SingleOwner
<1>11. ConfirmedOnce'
  BY <1>0, <1>1, <1>4, <1>5, <1>6 DEF ConfirmedOnce, TypeOK
<1>12. NeverLost'
  <2>1. \A e \in Created : e \in Events
    BY <1>0, ElementOfSeq DEF Created, TypeOK
  <2> QED BY <1>0, <1>4, <1>5, <2>1 DEF NeverLost, Created
<1> QED BY <1>7, <1>8, <1>9, <1>10, <1>11, <1>12 DEF IInv

\* Publish: the event goes from the batch into the hand of its only owner, so
\* nobody else can publish, fail or dead-letter it once it is confirmed.
LEMMA PublishKeeps ==
  ASSUME IInv, NEW p \in Runners, Publish(p)
  PROVE  IInv'
<1>0. TypeOK /\ Stages /\ Rows /\ SingleOwner /\ ConfirmedOnce /\ NeverLost
  BY DEF IInv
<1>1. PICK e \in batch[p] :
        /\ batch' = [batch EXCEPT ![p] = @ \ {e}]
        /\ cur' = [cur EXCEPT ![p] = e]
        /\ \/ /\ stream' = stream \cup {e}
              /\ confirmed' = confirmed \cup {e}
              /\ pc' = [pc EXCEPT ![p] = "complete"]
           \/ /\ stream' \in {stream, stream \cup {e}}
              /\ HandleFailure(p, e)
              /\ UNCHANGED confirmed
  BY DEF Publish
<1>2. UNCHANGED <<created, row, described, retryCount, waiting, deadLetters>>
  BY DEF Publish, tableVars
<1>3. e \in Events /\ row[e] = "processing" /\ e \notin confirmed /\ deadLetters[e] = "none"
  <2>1. e \in Events /\ e \in Held(p)
    BY <1>0 DEF TypeOK, Held
  <2>2. row[e] = "processing"
    BY <1>0, <2>1 DEF SingleOwner
  <2> QED BY <1>0, <2>1, <2>2 DEF ConfirmedOnce, Rows
<1>4. cur[p] = NoEvent
  BY <1>0 DEF Publish, Stages
<1>5. /\ batch'[p] = batch[p] \ {e} /\ cur'[p] = e
      /\ \A q \in Runners \ {p} : batch'[q] = batch[q] /\ cur'[q] = cur[q] /\ pc'[q] = pc[q]
      /\ \/ pc'[p] = "complete" /\ confirmed' = confirmed \cup {e}
         \/ pc'[p] \in {"fail", "dead"} /\ confirmed' = confirmed
  BY <1>0, <1>1 DEF TypeOK, HandleFailure
<1>6. TypeOK'
  BY <1>0, <1>1, <1>2, <1>3 DEF TypeOK, HandleFailure
<1>7. Held(p)' = Held(p) /\ \A q \in Runners \ {p} : Held(q)' = Held(q)
  BY <1>3, <1>4, <1>5, OutboxAssumption DEF Held
<1>8. SingleOwner'
  BY <1>0, <1>2, <1>7 DEF SingleOwner
<1>9. ASSUME NEW q \in Runners, q # p PROVE e \notin batch[q] /\ cur[q] # e
  BY <1>0, <1>3, <1>9 DEF SingleOwner, Held
<1>10. Stages'
  BY <1>0, <1>3, <1>5, <1>9 DEF Stages
<1>11. Rows'
  BY <1>0, <1>2, <1>3, <1>5 DEF Rows, Created
<1>12. ConfirmedOnce'
  BY <1>0, <1>2, <1>3, <1>5, <1>9 DEF ConfirmedOnce
<1>13. NeverLost'
  BY <1>0, <1>2, <1>5 DEF NeverLost, Created
<1> QED BY <1>6, <1>8, <1>10, <1>11, <1>12, <1>13 DEF IInv

\* What the three marking calls have in common: the runner lets go of its event e,
\* and the step touches the row and the letter of e only.
LEMMA MarkKeeps ==
  ASSUME IInv, NEW p \in Runners, NEW e \in Events, e = cur[p],
         NextEvent(p), UNCHANGED <<created, retryCount, batch, pubVars>>,
         described' \subseteq Events, waiting' \subseteq Events,
         row' \in [Events -> OutboxStatus],
         deadLetters' \in [Events -> {"none", "unhandled", "handled"}],
         \A f \in Events \ {e} : row'[f] = row[f] /\ deadLetters'[f] = deadLetters[f],
         \/ row'[e] = row[e] /\ deadLetters'[e] = deadLetters[e]
         \/ row'[e] = "completed" /\ deadLetters'[e] = deadLetters[e] /\ e \in confirmed
         \/ row'[e] = "failed" /\ deadLetters'[e] = deadLetters[e] /\ e \notin confirmed
         \/ row'[e] = "none" /\ deadLetters'[e] # "none" /\ e \notin confirmed
  PROVE  IInv'
<1>0. TypeOK /\ Stages /\ Rows /\ SingleOwner /\ ConfirmedOnce /\ NeverLost
  BY DEF IInv
<1>1. /\ pc' \in [Runners -> {"idle", "fetch", "publish", "complete", "fail", "dead"}]
      /\ cur' \in [Runners -> Events \cup {NoEvent}]
      /\ cur'[p] = NoEvent
      /\ pc'[p] = IF batch[p] = {} THEN "idle" ELSE "publish"
      /\ \A q \in Runners \ {p} : cur'[q] = cur[q] /\ pc'[q] = pc[q]
  BY <1>0, NextEventHolds
<1>2. stream' = stream /\ confirmed' = confirmed
  BY DEF pubVars
<1>3. row[e] = "processing" /\ deadLetters[e] = "none" /\ e \in Created
  <2>1. e \in Held(p)
    BY DEF Held
  <2> QED BY <1>0, <2>1 DEF SingleOwner, Rows
<1>4. TypeOK'
  BY <1>0, <1>1, <1>2 DEF TypeOK
<1>5. Stages'
  <2>1. NoEvent \notin batch[p]
    BY <1>0, OutboxAssumption DEF TypeOK
  <2> QED BY <1>0, <1>1, <1>2, <2>1 DEF Stages
<1>6. Rows'
  BY <1>0, <1>2, <1>3 DEF Rows, Created
<1>7. SingleOwner'
  <2>1. Held(p)' \subseteq Held(p) /\ e \notin Held(p)'
    BY <1>0, <1>1, OutboxAssumption DEF Held, Stages
  <2>2. \A q \in Runners \ {p} : Held(q)' = Held(q) /\ e \notin Held(q)
    <3>1. e \in Held(p)
      BY DEF Held
    <3> QED BY <1>0, <1>1, <3>1 DEF SingleOwner, Held
  <2>3. \A q \in Runners : Held(q) \subseteq Events
    BY <1>0 DEF TypeOK, Held
  <2>4. ASSUME NEW q \in Runners
        PROVE  Held(q)' \subseteq Held(q) /\ e \notin Held(q)'
    BY <2>1, <2>2
  <2> QED BY <1>0, <2>3, <2>4 DEF SingleOwner
<1>8. ConfirmedOnce'
  BY <1>0, <1>2, <1>3 DEF ConfirmedOnce, TypeOK
<1>9. NeverLost'
  <2>1. \A f \in Created : f \in Events
    BY <1>0, ElementOfSeq DEF Created, TypeOK
  <2> QED BY <1>0, <1>2, <2>1 DEF NeverLost, Created
<1> QED BY <1>4, <1>5, <1>6, <1>7, <1>8, <1>9 DEF IInv

\* MarkCompleted completes a row only of a confirmed event, or changes nothing.
LEMMA MarkCompletedKeeps ==
  ASSUME IInv, NEW p \in Runners, MarkCompleted(p)
  PROVE  IInv'
<1>0. TypeOK /\ Stages
  BY DEF IInv
<1>1. cur[p] \in Events /\ cur[p] \in confirmed
  BY <1>0 DEF MarkCompleted, Stages, TypeOK
<1>2. /\ NextEvent(p)
      /\ UNCHANGED <<created, described, retryCount, waiting, deadLetters, batch, pubVars>>
      /\ row' = [row EXCEPT ![cur[p]] = "completed"] \/ row' = row
  BY DEF MarkCompleted
<1>3. /\ row' \in [Events -> OutboxStatus]
      /\ \A f \in Events \ {cur[p]} : row'[f] = row[f]
      /\ row'[cur[p]] = "completed" \/ row'[cur[p]] = row[cur[p]]
  <2>1. row \in [Events -> OutboxStatus]
    BY <1>0 DEF TypeOK
  <2>2. CASE row' = [row EXCEPT ![cur[p]] = "completed"]
    BY <1>1, <2>1, <2>2 DEF OutboxStatus
  <2>3. CASE row' = row
    BY <2>1, <2>3
  <2> QED BY <1>2, <2>2, <2>3
<1>4. described' \subseteq Events /\ waiting' \subseteq Events
      /\ deadLetters' \in [Events -> {"none", "unhandled", "handled"}]
  BY <1>0, <1>2 DEF TypeOK
<1> QED BY <1>1, <1>2, <1>3, <1>4, MarkKeeps

\* MarkFailed gives back a row whose event was not confirmed.
LEMMA MarkFailedKeeps ==
  ASSUME IInv, NEW p \in Runners, MarkFailed(p)
  PROVE  IInv'
<1>0. TypeOK /\ Stages
  BY DEF IInv
<1>1. cur[p] \in Events /\ cur[p] \notin confirmed
  BY <1>0 DEF MarkFailed, Stages
<1>2. /\ NextEvent(p)
      /\ UNCHANGED <<created, retryCount, deadLetters, batch, pubVars>>
      /\ row' = [row EXCEPT ![cur[p]] = "failed"] \/ row' = row
      /\ described' \subseteq described \cup {cur[p]}
      /\ waiting' \subseteq waiting \cup {cur[p]}
  BY DEF MarkFailed
<1>3. /\ row' \in [Events -> OutboxStatus]
      /\ \A f \in Events \ {cur[p]} : row'[f] = row[f]
      /\ row'[cur[p]] = "failed" \/ row'[cur[p]] = row[cur[p]]
  BY <1>0, <1>1, <1>2 DEF TypeOK, OutboxStatus
<1>4. described' \subseteq Events /\ waiting' \subseteq Events
      /\ deadLetters' \in [Events -> {"none", "unhandled", "handled"}]
  BY <1>0, <1>1, <1>2 DEF TypeOK
<1> QED BY <1>1, <1>2, <1>3, <1>4, MarkKeeps

\* MoveToDeadLetter removes a row and adds its letter in one transaction.
LEMMA MoveToDeadLetterKeeps ==
  ASSUME IInv, NEW p \in Runners, MoveToDeadLetter(p)
  PROVE  IInv'
<1>0. TypeOK /\ Stages
  BY DEF IInv
<1>1. cur[p] \in Events /\ cur[p] \notin confirmed
  BY <1>0 DEF MoveToDeadLetter, Stages
<1>2. /\ NextEvent(p)
      /\ UNCHANGED <<created, described, retryCount, waiting, batch, pubVars>>
      /\ \/ /\ row' = [row EXCEPT ![cur[p]] = "none"]
            /\ deadLetters' = [deadLetters EXCEPT ![cur[p]] = "unhandled"]
         \/ row' = row /\ deadLetters' = deadLetters
  BY DEF MoveToDeadLetter
<1>3. /\ row' \in [Events -> OutboxStatus]
      /\ deadLetters' \in [Events -> {"none", "unhandled", "handled"}]
      /\ \A f \in Events \ {cur[p]} : row'[f] = row[f] /\ deadLetters'[f] = deadLetters[f]
      /\ \/ row'[cur[p]] = "none" /\ deadLetters'[cur[p]] = "unhandled"
         \/ row'[cur[p]] = row[cur[p]] /\ deadLetters'[cur[p]] = deadLetters[cur[p]]
  <2>1. CASE row' = row /\ deadLetters' = deadLetters
    BY <1>0, <2>1 DEF TypeOK
  <2>2. CASE /\ row' = [row EXCEPT ![cur[p]] = "none"]
             /\ deadLetters' = [deadLetters EXCEPT ![cur[p]] = "unhandled"]
    BY <1>0, <1>1, <2>2 DEF TypeOK, OutboxStatus
  <2> QED BY <1>2, <2>1, <2>2
<1>4. described' \subseteq Events /\ waiting' \subseteq Events
  BY <1>0, <1>2 DEF TypeOK
<1> QED BY <1>1, <1>2, <1>3, <1>4, MarkKeeps

\* A runner that dies lets go of everything; the rows it claimed stay processing.
LEMMA CrashKeeps ==
  ASSUME IInv, NEW p \in Runners, Crash(p)
  PROVE  IInv'
<1>0. TypeOK /\ Stages /\ Rows /\ SingleOwner /\ ConfirmedOnce /\ NeverLost
  BY DEF IInv
<1>1. UNCHANGED <<created, row, described, retryCount, waiting, deadLetters, stream, confirmed>>
  BY DEF Crash, tableVars, pubVars
<1>2. /\ pc'[p] = "idle" /\ batch'[p] = {} /\ cur'[p] = NoEvent
      /\ \A q \in Runners \ {p} : pc'[q] = pc[q] /\ batch'[q] = batch[q] /\ cur'[q] = cur[q]
  BY <1>0 DEF Crash, TypeOK
<1>3. TypeOK'
  BY <1>0, <1>1 DEF Crash, TypeOK
<1>4. Stages' /\ ConfirmedOnce'
  BY <1>0, <1>1, <1>2 DEF Stages, ConfirmedOnce
<1>5. Rows' /\ NeverLost'
  BY <1>0, <1>1 DEF Rows, NeverLost, Created
<1>6. SingleOwner'
  <2>1. \A q \in Runners : Held(q)' \subseteq Held(q)
    BY <1>2, OutboxAssumption DEF Held
  <2> QED BY <1>0, <1>1, <2>1 DEF SingleOwner
<1> QED BY <1>3, <1>4, <1>5, <1>6 DEF IInv

\* DeleteCompleted takes only rows of confirmed events, and nobody holds them.
LEMMA DeleteKeeps == IInv /\ DeleteCompleted => IInv'
<1> SUFFICES ASSUME IInv, DeleteCompleted PROVE IInv'
  OBVIOUS
<1>0. TypeOK /\ Stages /\ Rows /\ SingleOwner /\ ConfirmedOnce /\ NeverLost
  BY DEF IInv
<1>1. UNCHANGED <<created, described, retryCount, waiting, deadLetters, pc, batch, cur, stream,
                  confirmed>>
  BY DEF DeleteCompleted, runnerVars, pubVars
<1>2. PICK S \in SUBSET {e \in Events : row[e] = "completed"} :
        row' = [e \in Events |-> IF e \in S THEN "none" ELSE row[e]]
  BY DEF DeleteCompleted
<1>3. row' \in [Events -> OutboxStatus]
  BY <1>0, <1>2 DEF TypeOK, OutboxStatus
<1>4. \A e \in Events : row'[e] = row[e] \/ (row[e] = "completed" /\ row'[e] = "none")
  BY <1>2
<1>5. TypeOK' /\ Stages'
  BY <1>0, <1>1, <1>3 DEF TypeOK, Stages
<1>6. Rows' /\ ConfirmedOnce'
  BY <1>0, <1>1, <1>4 DEF Rows, ConfirmedOnce, Created, TypeOK
<1>7. SingleOwner'
  <2>1. \A q \in Runners : Held(q)' = Held(q) /\ Held(q) \subseteq Events
    BY <1>0, <1>1 DEF TypeOK, Held
  <2> QED BY <1>0, <1>4, <2>1 DEF SingleOwner
<1>8. NeverLost'
  <2>1. \A f \in Created : f \in Events
    BY <1>0, ElementOfSeq DEF Created, TypeOK
  <2> QED BY <1>0, <1>1, <1>4, <2>1 DEF NeverLost, Created, Rows
<1> QED BY <1>5, <1>6, <1>7, <1>8 DEF IInv

--------------------------------------------------------------------------------
\* The inductive invariant: the outbox keeps it whatever fails, crashes or is slow.
THEOREM Invariance == Spec => []IInv
<1>1. Init => IInv
  <2> SUFFICES ASSUME Init PROVE IInv
    OBVIOUS
  <2>1. Created = {} /\ created \in Seq(Events)
    BY EmptySeq DEF Init, Created
  <2>2. TypeOK
    BY <2>1 DEF Init, TypeOK, OutboxStatus
  <2>3. Stages /\ Rows /\ ConfirmedOnce /\ NeverLost
    BY <2>1 DEF Init, Stages, Rows, ConfirmedOnce, NeverLost
  <2>4. SingleOwner
    BY OutboxAssumption DEF Init, SingleOwner, Held
  <2> QED BY <2>2, <2>3, <2>4 DEF IInv
<1>2. IInv /\ [Next]_vars => IInv'
  <2> SUFFICES ASSUME IInv, [Next]_vars PROVE IInv'
    OBVIOUS
  <2>1. CASE \E e \in Events : Create(e) \/ Elapse(e) \/ MarkDeadLetterHandled(e)
    BY <2>1, CreateKeeps, ElapseKeeps, HandledKeeps
  <2>2. CASE \E p \in Runners : Process(p) \/ Crash(p)
    BY <2>2, WaitKeeps, ClaimKeeps, PublishKeeps, MarkCompletedKeeps, MarkFailedKeeps,
       MoveToDeadLetterKeeps, CrashKeeps DEF Process, FetchAndLock
  <2>3. CASE DeleteCompleted
    BY <2>3, DeleteKeeps
  <2>4. CASE UNCHANGED vars
    BY <2>4 DEF vars, tableVars, runnerVars, pubVars, IInv, TypeOK, Stages, Rows, SingleOwner,
       ConfirmedOnce, NeverLost, Held, Created
  <2> QED BY <2>1, <2>2, <2>3, <2>4 DEF Next
<1> QED BY <1>1, <1>2, PTL DEF Spec

\* Every column, program counter and batch keeps its type.
THEOREM TypeCorrect == Spec => []TypeOK
BY Invariance, PTL DEF IInv

\* The claim of FetchAndLock is a lock: what a runner holds is marked processing,
\* and no two runners ever hold the same event, through crashes and lost replies.
THEOREM ClaimIsLock == Spec => []SingleOwner
BY Invariance, PTL DEF IInv

\* A confirmed event is never fetched again and never dead-lettered, even when
\* MarkCompleted fails or its runner crashes.
THEOREM NoRepublish == Spec => []ConfirmedOnce
BY Invariance, PTL DEF IInv

\* Every event that Create inserted has a row or a dead letter, or was confirmed.
THEOREM NothingLost == Spec => []NeverLost
BY Invariance, PTL DEF IInv

================================================================================
