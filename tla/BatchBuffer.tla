------------------------------- MODULE BatchBuffer -------------------------------
(***************************************************************************)
(* BatchBuffer of the audit service of supply-api                          *)
(* (audit/service/batch_buffer.go): producers, the goroutine run, callers  *)
(* of FlushNow and callers of Close, over the mutex mu and the channel     *)
(* eventCh.  A critical section is one step, except the loop of flush:     *)
(* run receives from the channel without the mutex, so it may take an      *)
(* event out of the middle of another goroutine's flush.                   *)
(*                                                                         *)
(* FlushHandler is taken to be set before the first Add: without one       *)
(* doFlushLocked throws the batch away.                                    *)
(***************************************************************************)
EXTENDS Integers, Sequences, FiniteSets

CONSTANTS
  Events,      \* audit events, each added once
  Flushers,    \* callers of FlushNow
  Closers,     \* callers of Close
  Run,         \* the goroutine run
  Nobody,      \* mu is free
  BatchSize,   \* config.BatchSize
  BufferSize   \* config.BufferSize, the capacity of eventCh

ASSUME BatchBufferAssumption ==
  /\ BatchSize \in Nat \ {0} /\ BufferSize \in Nat
  /\ Nobody \notin Flushers \cup {Run} /\ Run \notin Flushers
  /\ Closers \cap (Flushers \cup {Run}) = {}

VARIABLES
  mu,          \* who holds mu across steps
  eventCh,     \* the events in the channel
  buffer,
  closed,
  stopped,     \* stopCh is closed
  chClosed,    \* eventCh is closed
  pc,          \* of run, the flushers and the closers
  hand,        \* what run received and has not added yet
  accepted,    \* events Add took (history)
  rejected,    \* events Add refused
  handed,      \* how often each event was given to FlushHandler (history)
  returned     \* Close returned after its work was done (history)

vars == <<mu, eventCh, buffer, closed, stopped, chClosed, pc, hand, accepted, rejected,
          handed, returned>>

Goroutines == Flushers \cup Closers \cup {Run}
Pcs == {"idle", "select", "lock", "add", "drain", "spin", "stop", "wait", "done"}

TypeOK ==
  /\ mu \in Flushers \cup {Run, Nobody}
  /\ eventCh \in Seq(Events) /\ Len(eventCh) <= BufferSize
  /\ buffer \in Seq(Events)
  /\ closed \in BOOLEAN /\ stopped \in BOOLEAN /\ chClosed \in BOOLEAN
  /\ pc \in [Goroutines -> Pcs]
  /\ hand \in Seq(Events) /\ Len(hand) <= 1
  /\ accepted \subseteq Events /\ rejected \subseteq Events
  /\ handed \in [Events -> Nat]
  /\ returned \in BOOLEAN

Init ==
  /\ mu = Nobody /\ eventCh = <<>> /\ buffer = <<>> /\ hand = <<>>
  /\ closed = FALSE /\ stopped = FALSE /\ chClosed = FALSE /\ returned = FALSE
  /\ pc = [g \in Goroutines |-> "idle"]
  /\ accepted = {} /\ rejected = {}
  /\ handed = [e \in Events |-> 0]

Goto(g, next) == pc' = [pc EXCEPT ![g] = next]

In(s) == {s[i] : i \in 1..Len(s)}

--------------------------------------------------------------------------------
\* Mutant: a handler that fails gets the events again with the next batch.
KeepOnFailure(b) ==
  /\ buffer' \in {<<>>, b}
  /\ handed' = [e \in Events |-> IF e \in In(b) THEN handed[e] + 1 ELSE handed[e]]

\* doFlushLocked of the buffer b: it is emptied first, then given to FlushHandler,
\* which is set.  When the handler fails the events are reported and not kept.
DoFlushLocked(b) ==
  /\ buffer' = <<>>
  /\ handed' = [e \in Events |-> IF e \in In(b) THEN handed[e] + 1 ELSE handed[e]]

\* Mutant: the batch is flushed only when it is larger than BatchSize.
AppendLate(e) ==
  LET b == Append(buffer, e) IN
  IF Len(b) > BatchSize THEN DoFlushLocked(b) ELSE buffer' = b /\ UNCHANGED handed

\* Append an event to the buffer, and flush it when it reaches BatchSize.
AppendToBuffer(e) ==
  LET b == Append(buffer, e) IN
  IF Len(b) >= BatchSize THEN DoFlushLocked(b) ELSE buffer' = b /\ UNCHANGED handed

\* Mutant: the channel takes one event more than BufferSize.
AddOverCapacity(e) ==
  /\ mu = Nobody /\ e \notin accepted \cup rejected /\ ~closed
  /\ Len(eventCh) <= BufferSize
  /\ eventCh' = Append(eventCh, e)
  /\ accepted' = accepted \cup {e}
  /\ UNCHANGED <<mu, buffer, closed, stopped, chClosed, pc, hand, rejected, handed, returned>>

\* Add: into the channel, or into the buffer when the channel is full.
Add(e) ==
  /\ mu = Nobody /\ e \notin accepted \cup rejected
  /\ \/ /\ closed
        /\ rejected' = rejected \cup {e}
        /\ UNCHANGED <<eventCh, buffer, handed, accepted>>
     \/ /\ ~closed /\ Len(eventCh) < BufferSize
        /\ eventCh' = Append(eventCh, e)
        /\ accepted' = accepted \cup {e}
        /\ UNCHANGED <<buffer, handed, rejected>>
     \/ /\ ~closed /\ Len(eventCh) = BufferSize
        /\ AppendToBuffer(e)
        /\ accepted' = accepted \cup {e}
        /\ UNCHANGED <<eventCh, rejected>>
  /\ UNCHANGED <<mu, closed, stopped, chClosed, pc, hand, returned>>

Start ==
  /\ pc[Run] = "idle"
  /\ Goto(Run, "select")
  /\ UNCHANGED <<mu, eventCh, buffer, closed, stopped, chClosed, hand, accepted, rejected,
                 handed, returned>>

\* run: case event := <-b.eventCh.
Receive ==
  /\ pc[Run] = "select" /\ eventCh # <<>>
  /\ hand' = <<Head(eventCh)>>
  /\ eventCh' = Tail(eventCh)
  /\ Goto(Run, "add")
  /\ UNCHANGED <<mu, buffer, closed, stopped, chClosed, accepted, rejected, handed, returned>>

AddEvent ==
  /\ pc[Run] = "add" /\ mu = Nobody
  /\ AppendToBuffer(hand[1])
  /\ hand' = <<>>
  /\ Goto(Run, "select")
  /\ UNCHANGED <<mu, eventCh, closed, stopped, chClosed, accepted, rejected, returned>>

\* Mutant: the ticker flushes only a full batch.
TickFullBatch ==
  /\ pc[Run] = "select"
  /\ Len(buffer) >= BatchSize
  /\ Goto(Run, "lock")
  /\ UNCHANGED <<mu, eventCh, buffer, closed, stopped, chClosed, hand, accepted, rejected,
                 handed, returned>>

\* run: case <-b.flushTick.C; a tick with nothing to flush changes nothing.
TickFlush ==
  /\ pc[Run] = "select"
  /\ eventCh # <<>> \/ buffer # <<>>
  /\ Goto(Run, "lock")
  /\ UNCHANGED <<mu, eventCh, buffer, closed, stopped, chClosed, hand, accepted, rejected,
                 handed, returned>>

\* Mutant: run returns on stopCh without the last flush.
StopAtOnce ==
  /\ pc[Run] = "select" /\ stopped
  /\ Goto(Run, "done")
  /\ UNCHANGED <<mu, eventCh, buffer, closed, stopped, chClosed, hand, accepted, rejected,
                 handed, returned>>

\* run: case <-b.stopCh; the flush that follows is the last step of run.
StopSignal ==
  /\ pc[Run] = "select" /\ stopped
  /\ Goto(Run, "stop")
  /\ UNCHANGED <<mu, eventCh, buffer, closed, stopped, chClosed, hand, accepted, rejected,
                 handed, returned>>

\* flush takes mu.  For the last flush of run, stop stands for lock.
Lock(g) ==
  /\ mu = Nobody
  /\ \/ g \in Flushers /\ pc[g] = "idle" /\ Goto(g, "drain")
     \/ g = Run /\ pc[g] = "lock" /\ Goto(g, "drain")
     \/ g = Run /\ pc[g] = "stop" /\ Goto(g, "wait")
  /\ mu' = g
  /\ UNCHANGED <<eventCh, buffer, closed, stopped, chClosed, hand, accepted, rejected,
                 handed, returned>>

\* flush moves one event from the channel to the buffer.
Drain(g) ==
  /\ mu = g /\ eventCh # <<>>
  /\ buffer' = Append(buffer, Head(eventCh))
  /\ eventCh' = Tail(eventCh)
  /\ UNCHANGED <<mu, closed, stopped, chClosed, pc, hand, accepted, rejected, handed, returned>>

\* flush finds the channel empty, flushes the buffer and releases mu.
Flush(g) ==
  /\ mu = g /\ eventCh = <<>> /\ ~chClosed
  /\ DoFlushLocked(buffer)
  /\ mu' = Nobody
  /\ Goto(g, IF g = Run /\ pc[g] = "drain" THEN "select" ELSE "done")
  /\ UNCHANGED <<eventCh, closed, stopped, chClosed, hand, accepted, rejected, returned>>

\* A receive from the closed channel always succeeds, with nil: the loop of flush
\* never reaches its default case, appends nil for ever and keeps mu.
Spin(g) ==
  /\ mu = g /\ eventCh = <<>> /\ chClosed /\ pc[g] = "drain"
  /\ Goto(g, "spin")
  /\ UNCHANGED <<mu, eventCh, buffer, closed, stopped, chClosed, hand, accepted, rejected,
                 handed, returned>>

\* Mutant: Close keeps mu while it waits for run.
CloseHoldingMu(c) ==
  /\ pc[c] = "idle" /\ mu = Nobody
  /\ closed' = TRUE
  /\ mu' = IF closed THEN mu ELSE c
  /\ Goto(c, IF closed THEN "done" ELSE "stop")
  /\ UNCHANGED <<eventCh, buffer, stopped, chClosed, hand, accepted, rejected, handed,
                 returned>>

\* Close sets closed; a second Close returns at once.
CloseBegin(c) ==
  /\ pc[c] = "idle" /\ mu = Nobody
  /\ closed' = TRUE
  /\ Goto(c, IF closed THEN "done" ELSE "stop")
  /\ UNCHANGED <<mu, eventCh, buffer, stopped, chClosed, hand, accepted, rejected, handed,
                 returned>>

\* close(b.stopCh).
CloseStop(c) ==
  /\ pc[c] = "stop"
  /\ stopped' = TRUE
  /\ Goto(c, "wait")
  /\ UNCHANGED <<mu, eventCh, buffer, closed, chClosed, hand, accepted, rejected, handed,
                 returned>>

\* <-b.doneCh, then close(b.eventCh).
CloseEnd(c) ==
  /\ pc[c] = "wait" /\ pc[Run] = "done"
  /\ chClosed' = TRUE
  /\ returned' = TRUE
  /\ Goto(c, "done")
  /\ UNCHANGED <<mu, eventCh, buffer, closed, stopped, hand, accepted, rejected, handed>>

RunStep == Receive \/ AddEvent \/ TickFlush \/ StopSignal \/ Lock(Run) \/ Drain(Run) \/ Flush(Run)
FlushStep(f) == Lock(f) \/ Drain(f) \/ Flush(f) \/ Spin(f)
CloseStep(c) == CloseBegin(c) \/ CloseStop(c) \/ CloseEnd(c)

Next ==
  \/ \E e \in Events : Add(e)
  \/ Start \/ RunStep
  \/ \E f \in Flushers : FlushStep(f)
  \/ \E c \in Closers : CloseStep(c)

Spec == Init /\ [][Next]_vars

\* Goroutines that can run do run; Start is called.  Callers are free not to add,
\* flush or close, but finish what they began.
Fairness ==
  /\ WF_vars(Start) /\ WF_vars(RunStep)
  /\ \A f \in Flushers : WF_vars(Drain(f) \/ Flush(f) \/ Spin(f))
  /\ \A c \in Closers : WF_vars(CloseStop(c) \/ CloseEnd(c))

FairSpec == Spec /\ Fairness

--------------------------------------------------------------------------------
\* No event is lost or handed over twice, however producers, run, FlushNow and
\* Close interleave: an accepted event is in the channel, in run's hand or in the
\* buffer, or else it was given to FlushHandler exactly once.
HandedOverOnce ==
  /\ \A e \in accepted : handed[e] = IF e \in In(eventCh \o hand \o buffer) THEN 0 ELSE 1
  /\ \A e \in Events \ accepted : handed[e] = 0

\* When Close has returned to the caller that closed the buffer, every accepted
\* event was given to FlushHandler: no Add slips in between the last flush and the
\* closing of the channel.
CloseLeavesNothing == returned => \A e \in accepted : handed[e] = 1

\* Outside critical sections the buffer is shorter than a batch.
BufferBelowBatch == mu = Nobody => Len(buffer) < BatchSize

\* An accepted event is given to FlushHandler in the end, without further calls,
\* even if a FlushNow gets stuck on the closed channel: Close closes it only after
\* the last flush of run.
EventuallyHanded == \A e \in Events : (e \in accepted) ~> (handed[e] = 1)

\* Close returns once begun, whoever else flushes, closes or gets stuck.
CloseReturns == \A c \in Closers : (pc[c] \in {"stop", "wait"}) ~> (pc[c] = "done")

================================================================================
