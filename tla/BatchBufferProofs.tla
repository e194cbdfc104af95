---------------------------- MODULE BatchBufferProofs ----------------------------
(***************************************************************************)
(* The audit batch buffer, for any events, callers, BatchSize and          *)
(* BufferSize: its types, that no event is lost or handed over twice, that *)
(* Close leaves nothing behind, and that the buffer stays below a batch.   *)
(* That events are handed over and Close returns in the end is left to     *)
(* TLC.                                                                    *)
(***************************************************************************)
EXTENDS BatchBuffer, SequenceTheorems, TLAPS

\* No event occurs twice in s.
Distinct(s) == \A i, j \in 1..Len(s) : s[i] = s[j] => i = j

\* The events on their way to FlushHandler.
UnderWay == In(eventCh) \cup In(hand) \cup In(buffer)

\* Where the goroutine run is, and what has happened by then: it holds an event only
\* before AddEvent, mu only in flush; after its last flush nothing is left, and the
\* channel is closed only then.
Stages ==
  /\ hand # <<>> <=> pc[Run] = "add"
  /\ mu = Run <=> pc[Run] \in {"drain", "wait"}
  /\ pc[Run] \in {"stop", "wait", "done"} => stopped
  /\ stopped => closed
  /\ \A c \in Closers : pc[c] \in {"stop", "wait"} => closed
  /\ pc[Run] = "done" => eventCh = <<>> /\ buffer = <<>>
  /\ returned \/ chClosed => pc[Run] = "done"

\* An event is in one place at most, and in none before it is accepted.
Places ==
  /\ Distinct(eventCh) /\ Distinct(buffer)
  /\ In(eventCh) \cap In(hand) = {}
  /\ In(eventCh) \cap In(buffer) = {}
  /\ In(hand) \cap In(buffer) = {}
  /\ UnderWay \subseteq accepted

\* HandedOverOnce in terms of the places.
Once == \A e \in Events : handed[e] = IF e \in accepted \ UnderWay THEN 1 ELSE 0

\* Once needs Places: an event that is in two places would be handed over twice.
\* CloseLeavesNothing is Once after the last flush, which Stages describes.
IInv == TypeOK /\ Stages /\ Places /\ Once /\ BufferBelowBatch

--------------------------------------------------------------------------------
\* The empty channel or buffer holds no event.
LEMMA InEmpty == In(<<>>) = {} /\ Distinct(<<>>)
BY DEF In, Distinct

\* What run has in its hand is one event.
LEMMA InSingle == \A e : In(<<e>>) = {e}
BY DEF In

\* The events of a channel followed by a buffer are those of both.
LEMMA InConcat ==
  ASSUME NEW s \in Seq(Events), NEW t \in Seq(Events)
  PROVE  s \o t \in Seq(Events) /\ In(s \o t) = In(s) \cup In(t)
<1>1. /\ s \o t \in Seq(Events)
      /\ Len(s \o t) = Len(s) + Len(t)
      /\ \A i \in 1 .. Len(s) + Len(t) : (s \o t)[i] = IF i <= Len(s) THEN s[i] ELSE t[i - Len(s)]
  BY ConcatProperties
<1>2. Len(s) \in Nat /\ Len(t) \in Nat
  BY LenProperties
<1>3. ASSUME NEW i \in 1..Len(s \o t) PROVE (s \o t)[i] \in In(s) \cup In(t)
  <2>1. CASE i <= Len(s)
    BY <1>1, <1>2, <2>1 DEF In
  <2>2. CASE ~(i <= Len(s))
    <3>1. i - Len(s) \in 1..Len(t)
      BY <1>1, <1>2, <2>2
    <3> QED BY <1>1, <1>2, <2>2, <3>1 DEF In
  <2> QED BY <2>1, <2>2
<1>4. ASSUME NEW i \in 1..Len(s) PROVE s[i] \in In(s \o t)
  <2>1. i \in 1..Len(s \o t) /\ (s \o t)[i] = s[i]
    BY <1>1, <1>2
  <2> QED BY <2>1 DEF In
<1>5. ASSUME NEW i \in 1..Len(t) PROVE t[i] \in In(s \o t)
  <2>1. Len(s) + i \in 1..Len(s \o t) /\ (s \o t)[Len(s) + i] = t[i]
    BY <1>1, <1>2
  <2> QED BY <2>1 DEF In
<1>6. In(s \o t) \subseteq In(s) \cup In(t)
  BY <1>3 DEF In
<1>7. In(s) \subseteq In(s \o t)
  BY <1>4 DEF In
<1>8. In(t) \subseteq In(s \o t)
  BY <1>5 DEF In
<1> QED BY <1>1, <1>6, <1>7, <1>8

\* A sequence of events holds events.
LEMMA InEvents ==
  ASSUME NEW s \in Seq(Events)
  PROVE  In(s) \subseteq Events
BY ElementOfSeq DEF In

\* Append adds one event, and no duplicate if the event is new.
LEMMA InAppend ==
  ASSUME NEW s \in Seq(Events), NEW e \in Events
  PROVE  /\ Append(s, e) \in Seq(Events)
         /\ Len(Append(s, e)) = Len(s) + 1
         /\ In(Append(s, e)) = In(s) \cup {e}
         /\ Distinct(s) /\ e \notin In(s) => Distinct(Append(s, e))
<1>1. /\ Append(s, e) \in Seq(Events)
      /\ Len(Append(s, e)) = Len(s) + 1
      /\ \A i \in 1..Len(s) : Append(s, e)[i] = s[i]
      /\ Append(s, e)[Len(s) + 1] = e
  BY AppendProperties
<1>2. Len(s) \in Nat
  BY LenProperties
<1>3. ASSUME NEW i \in 1..Len(Append(s, e)) PROVE Append(s, e)[i] \in In(s) \cup {e}
  BY <1>1, <1>2 DEF In
<1>4. ASSUME NEW i \in 1..Len(s) PROVE s[i] \in In(Append(s, e))
  <2>1. i \in 1..Len(Append(s, e)) /\ Append(s, e)[i] = s[i]
    BY <1>1, <1>2
  <2> QED BY <2>1 DEF In
<1>5. e \in In(Append(s, e))
  <2>1. Len(s) + 1 \in 1..Len(Append(s, e))
    BY <1>1, <1>2
  <2> QED BY <1>1, <2>1 DEF In
<1>6. In(Append(s, e)) \subseteq In(s) \cup {e}
  BY <1>3 DEF In
<1>7. In(s) \subseteq In(Append(s, e))
  BY <1>4 DEF In
<1>8. ASSUME Distinct(s), e \notin In(s) PROVE Distinct(Append(s, e))
  <2> SUFFICES ASSUME NEW i \in 1..Len(Append(s, e)), NEW j \in 1..Len(Append(s, e)),
                      Append(s, e)[i] = Append(s, e)[j]
               PROVE  i = j
    BY DEF Distinct
  <2>1. \A k \in 1..Len(s) : s[k] # e
    BY <1>8 DEF In
  <2>2. CASE i \in 1..Len(s) /\ j \in 1..Len(s)
    BY <1>1, <1>8, <2>2 DEF Distinct
  <2>3. CASE ~(i \in 1..Len(s) /\ j \in 1..Len(s))
    BY <1>1, <1>2, <2>1, <2>3
  <2> QED BY <2>2, <2>3
<1> QED BY <1>1, <1>5, <1>6, <1>7, <1>8

\* Receiving takes the head, which then occurs in the rest no more.
LEMMA InHeadTail ==
  ASSUME NEW s \in Seq(Events), s # <<>>
  PROVE  /\ Head(s) \in Events /\ Tail(s) \in Seq(Events)
         /\ Len(Tail(s)) = Len(s) - 1
         /\ In(s) = {Head(s)} \cup In(Tail(s))
         /\ Distinct(s) => Distinct(Tail(s)) /\ Head(s) \notin In(Tail(s))
<1>1. /\ Head(s) \in Events /\ Tail(s) \in Seq(Events)
      /\ Len(Tail(s)) = Len(s) - 1
      /\ \A i \in 1 .. Len(Tail(s)) : Tail(s)[i] = s[i+1]
  BY HeadTailProperties
<1>2. Len(s) \in Nat \ {0}
  BY EmptySeq
<1>3. Head(s) = s[1]
  BY DEF Head
<1>4. 1 \in 1..Len(s)
  BY <1>2
<1>5. ASSUME NEW i \in 1..Len(s) PROVE s[i] \in {Head(s)} \cup In(Tail(s))
  <2>1. CASE i = 1
    BY <1>3, <2>1
  <2>2. CASE i # 1
    <3>1. i - 1 \in 1..Len(Tail(s)) /\ Tail(s)[i - 1] = s[i]
      BY <1>1, <1>2, <2>2
    <3> QED BY <3>1 DEF In
  <2> QED BY <2>1, <2>2
<1>6. ASSUME NEW i \in 1..Len(Tail(s)) PROVE i + 1 \in 1..Len(s) /\ Tail(s)[i] = s[i + 1]
  BY <1>1, <1>2
<1>7. In(s) \subseteq {Head(s)} \cup In(Tail(s))
  BY <1>5 DEF In
<1>8. In(Tail(s)) \subseteq In(s)
  BY <1>6 DEF In
<1>9. Head(s) \in In(s)
  BY <1>3, <1>4 DEF In
<1>10. ASSUME Distinct(s) PROVE Distinct(Tail(s)) /\ Head(s) \notin In(Tail(s))
  <2>1. ASSUME NEW i \in 1..Len(Tail(s)), NEW j \in 1..Len(Tail(s)), Tail(s)[i] = Tail(s)[j]
        PROVE  i = j
    <3>1. i + 1 = j + 1
      BY <1>6, <1>10, <2>1 DEF Distinct
    <3> QED BY <1>1, <1>2, <3>1
  <2>2. ASSUME NEW i \in 1..Len(Tail(s)), Tail(s)[i] = Head(s) PROVE FALSE
    <3>1. i + 1 = 1
      BY <1>3, <1>4, <1>6, <1>10, <2>2 DEF Distinct
    <3> QED BY <1>1, <1>2, <3>1
  <2>3. Distinct(Tail(s))
    BY <2>1 DEF Distinct
  <2> QED BY <2>2, <2>3 DEF In
<1> QED BY <1>1, <1>7, <1>8, <1>9, <1>10

--------------------------------------------------------------------------------
\* doFlushLocked: every event of b is handed over once more, and the buffer is empty.
LEMMA FlushEffect ==
  ASSUME handed \in [Events -> Nat], NEW b, DoFlushLocked(b)
  PROVE  /\ buffer' = <<>> /\ buffer' \in Seq(Events)
         /\ handed' \in [Events -> Nat]
         /\ \A f \in Events : handed'[f] = IF f \in In(b) THEN handed[f] + 1 ELSE handed[f]
<1>1. <<>> \in Seq(Events)
  BY EmptySeq
<1> QED BY <1>1 DEF DoFlushLocked

\* Appending an event to the buffer keeps it, or hands it over with the whole batch.
LEMMA AppendEffect ==
  ASSUME TypeOK, Distinct(buffer), NEW e \in Events, e \notin In(buffer), AppendToBuffer(e)
  PROVE  /\ buffer' \in Seq(Events) /\ Len(buffer') < BatchSize
         /\ Distinct(buffer')
         /\ handed' \in [Events -> Nat]
         /\ \/ In(buffer') = In(buffer) \cup {e} /\ handed' = handed
            \/ /\ In(buffer') = {}
               /\ \A f \in Events :
                    handed'[f] = IF f \in In(buffer) \cup {e} THEN handed[f] + 1 ELSE handed[f]
<1> DEFINE b == Append(buffer, e)
<1>1. /\ b \in Seq(Events) /\ Len(b) = Len(buffer) + 1 /\ In(b) = In(buffer) \cup {e}
      /\ Distinct(b)
  BY InAppend DEF TypeOK
<1>2. BatchSize \in Nat \ {0} /\ Len(b) \in Nat
  BY <1>1, BatchBufferAssumption, LenProperties
<1>3. CASE Len(b) >= BatchSize
  <2>1. DoFlushLocked(b)
    BY <1>3 DEF AppendToBuffer
  <2>2. /\ buffer' = <<>> /\ buffer' \in Seq(Events) /\ handed' \in [Events -> Nat]
        /\ \A f \in Events : handed'[f] = IF f \in In(b) THEN handed[f] + 1 ELSE handed[f]
    BY <2>1, FlushEffect DEF TypeOK
  <2>3. Len(buffer') < BatchSize /\ In(buffer') = {} /\ Distinct(buffer')
    BY <1>2, <2>2, EmptySeq, InEmpty
  <2> QED BY <1>1, <2>2, <2>3
<1>4. CASE ~(Len(b) >= BatchSize)
  <2>1. buffer' = b /\ handed' = handed
    BY <1>4 DEF AppendToBuffer
  <2> QED BY <1>1, <1>2, <1>4, <2>1 DEF TypeOK
<1> QED BY <1>3, <1>4

\* The counters of Once, when an event e that was on no way yet, or in run's hand,
\* comes into the buffer: either it is under way now, or the batch is handed over.
LEMMA OnceAppend ==
  ASSUME TypeOK, Once, Places, NEW e \in Events, NEW A, NEW U,
         e \in A, accepted \subseteq A, A \subseteq accepted \cup {e},
         handed[e] = 0,
         U = In(eventCh) \cup (In(hand) \ {e}),
         e \notin In(eventCh), e \notin In(buffer),
         \/ In(buffer') = In(buffer) \cup {e} /\ handed' = handed
         \/ /\ In(buffer') = {}
            /\ \A f \in Events :
                 handed'[f] = IF f \in In(buffer) \cup {e} THEN handed[f] + 1 ELSE handed[f]
  PROVE  \A f \in Events : handed'[f] = IF f \in A \ (U \cup In(buffer')) THEN 1 ELSE 0
<1> SUFFICES ASSUME NEW f \in Events
             PROVE  handed'[f] = IF f \in A \ (U \cup In(buffer')) THEN 1 ELSE 0
  OBVIOUS
<1>1. handed[f] = IF f \in accepted \ UnderWay THEN 1 ELSE 0
  BY DEF Once
<1>2. f \in In(buffer) => f \in accepted /\ f \notin In(eventCh) /\ f \notin In(hand)
  BY DEF Places, UnderWay
<1>3. CASE In(buffer') = In(buffer) \cup {e} /\ handed' = handed
  BY <1>1, <1>3 DEF UnderWay
<1>4. CASE /\ In(buffer') = {}
           /\ handed'[f] = IF f \in In(buffer) \cup {e} THEN handed[f] + 1 ELSE handed[f]
  BY <1>1, <1>2, <1>4 DEF UnderWay
<1> QED BY <1>3, <1>4

\* Add: a new event enters the channel or the buffer, and never after closed.
LEMMA AddKeeps ==
  ASSUME IInv, NEW e \in Events, Add(e)
  PROVE  IInv'
<1>0. TypeOK /\ Stages /\ Places /\ Once /\ BufferBelowBatch
  BY DEF IInv
<1>1. UNCHANGED <<mu, closed, stopped, chClosed, pc, hand, returned>>
  BY DEF Add
<1>2. e \notin accepted /\ e \notin UnderWay /\ handed[e] = 0 /\ mu = Nobody
  BY <1>0 DEF Add, Places, Once
<1>3. CASE /\ closed /\ rejected' = rejected \cup {e}
           /\ UNCHANGED <<eventCh, buffer, handed, accepted>>
  BY <1>0, <1>1, <1>3 DEF IInv, TypeOK, Stages, Places, Once, UnderWay, BufferBelowBatch
<1>4. CASE /\ ~closed /\ Len(eventCh) < BufferSize
           /\ eventCh' = Append(eventCh, e)
           /\ accepted' = accepted \cup {e}
           /\ UNCHANGED <<buffer, handed, rejected>>
  <2>1. /\ eventCh' \in Seq(Events) /\ Len(eventCh') = Len(eventCh) + 1
        /\ In(eventCh') = In(eventCh) \cup {e} /\ Distinct(eventCh')
    BY <1>0, <1>2, <1>4, InAppend DEF TypeOK, Places, UnderWay
  <2>2. TypeOK'
    <3>1. Len(eventCh) \in Nat
      BY <1>0, LenProperties DEF TypeOK
    <3>2. Len(eventCh') <= BufferSize
      BY <1>4, <2>1, <3>1, BatchBufferAssumption
    <3> QED BY <1>0, <1>1, <1>4, <2>1, <3>2 DEF TypeOK
  <2>3. Stages'
    BY <1>0, <1>1, <1>4 DEF Stages
  <2>4. UnderWay' = UnderWay \cup {e}
    BY <1>1, <1>4, <2>1 DEF UnderWay
  <2>5. Places'
    BY <1>0, <1>1, <1>2, <1>4, <2>1, <2>4 DEF Places, UnderWay
  <2>6. Once'
    BY <1>0, <1>2, <1>4, <2>4 DEF Once
  <2>7. BufferBelowBatch'
    BY <1>0, <1>1, <1>4 DEF BufferBelowBatch
  <2> QED BY <2>2, <2>3, <2>5, <2>6, <2>7 DEF IInv
<1>5. CASE /\ ~closed /\ AppendToBuffer(e)
           /\ accepted' = accepted \cup {e}
           /\ UNCHANGED <<eventCh, rejected>>
  <2>1. /\ buffer' \in Seq(Events) /\ Len(buffer') < BatchSize /\ Distinct(buffer')
        /\ handed' \in [Events -> Nat]
        /\ \/ In(buffer') = In(buffer) \cup {e} /\ handed' = handed
           \/ /\ In(buffer') = {}
              /\ \A f \in Events :
                   handed'[f] = IF f \in In(buffer) \cup {e} THEN handed[f] + 1 ELSE handed[f]
    BY <1>0, <1>2, <1>5, AppendEffect DEF Places, UnderWay
  <2>2. TypeOK'
    BY <1>0, <1>1, <1>5, <2>1 DEF TypeOK
  <2>3. Stages'
    BY <1>0, <1>1, <1>5 DEF Stages
  <2>4. Places'
    BY <1>0, <1>1, <1>2, <1>5, <2>1 DEF Places, UnderWay
  <2>5. Once'
    <3> DEFINE U == In(eventCh) \cup (In(hand) \ {e})
    <3>1. U \cup In(buffer') = UnderWay'
      BY <1>1, <1>2, <1>5 DEF UnderWay
    <3>2. \A f \in Events : handed'[f] = IF f \in accepted' \ (U \cup In(buffer')) THEN 1 ELSE 0
      <4>1. e \in accepted' /\ accepted \subseteq accepted' /\ accepted' \subseteq accepted \cup {e}
        BY <1>5
      <4>2. e \notin In(eventCh) /\ e \notin In(buffer)
        BY <1>2 DEF UnderWay
      <4> HIDE DEF U
      <4>3. U = In(eventCh) \cup (In(hand) \ {e})
        BY DEF U
      <4> QED BY <1>0, <1>2, <2>1, <4>1, <4>2, <4>3, OnceAppend
    <3> QED BY <3>1, <3>2 DEF Once
  <2>6. BufferBelowBatch'
    BY <2>1 DEF BufferBelowBatch
  <2> QED BY <2>2, <2>3, <2>4, <2>5, <2>6 DEF IInv
<1> QED BY <1>3, <1>4, <1>5 DEF Add

\* A step that moves no event: only the goroutines and the flags matter.
LEMMA ControlFrame ==
  ASSUME Places, Once, UNCHANGED <<eventCh, buffer, hand, accepted, handed>>
  PROVE  Places' /\ Once'
BY DEF Places, Once, UnderWay

\* run moves on without an event in its hand and without mu.
LEMMA RunControlKeeps ==
  ASSUME IInv, Start \/ TickFlush \/ StopSignal
  PROVE  IInv'
<1>0. TypeOK /\ Stages /\ Places /\ Once /\ BufferBelowBatch
  BY DEF IInv
<1>1. /\ UNCHANGED <<mu, eventCh, buffer, closed, stopped, chClosed, hand, accepted, rejected,
                     handed, returned>>
      /\ pc[Run] \in {"idle", "select"}
      /\ \/ pc' = [pc EXCEPT ![Run] = "select"]
         \/ pc' = [pc EXCEPT ![Run] = "lock"]
         \/ pc' = [pc EXCEPT ![Run] = "stop"] /\ stopped
  BY DEF Start, TickFlush, StopSignal, Goto
<1>2. /\ pc' \in [Goroutines -> Pcs]
      /\ pc'[Run] \in {"select", "lock"} \/ (pc'[Run] = "stop" /\ stopped)
      /\ \A c \in Closers : pc'[c] = pc[c]
  BY <1>0, <1>1, BatchBufferAssumption DEF TypeOK, Goroutines, Pcs
<1>3. TypeOK'
  BY <1>0, <1>1, <1>2 DEF TypeOK
<1>4. Stages'
  BY <1>0, <1>1, <1>2 DEF Stages
<1>5. BufferBelowBatch'
  BY <1>0, <1>1 DEF BufferBelowBatch
<1> QED BY <1>0, <1>1, <1>3, <1>4, <1>5, ControlFrame DEF IInv

\* run takes the oldest event out of the channel into its empty hand.
LEMMA ReceiveKeeps == IInv /\ Receive => IInv'
<1> SUFFICES ASSUME IInv, Receive PROVE IInv'
  OBVIOUS
<1>0. TypeOK /\ Stages /\ Places /\ Once /\ BufferBelowBatch
  BY DEF IInv
<1>1. /\ pc[Run] = "select" /\ eventCh # <<>> /\ hand' = <<Head(eventCh)>>
      /\ eventCh' = Tail(eventCh) /\ pc' = [pc EXCEPT ![Run] = "add"]
      /\ UNCHANGED <<mu, buffer, closed, stopped, chClosed, accepted, rejected, handed, returned>>
  BY DEF Receive, Goto
<1>2. hand = <<>> /\ In(hand) = {}
  BY <1>0, <1>1, InEmpty DEF Stages
<1>3. /\ Head(eventCh) \in Events /\ Tail(eventCh) \in Seq(Events)
      /\ Len(Tail(eventCh)) = Len(eventCh) - 1
      /\ In(eventCh) = {Head(eventCh)} \cup In(Tail(eventCh))
      /\ Distinct(Tail(eventCh)) /\ Head(eventCh) \notin In(Tail(eventCh))
  BY <1>0, <1>1, InHeadTail DEF TypeOK, Places
<1>4. In(hand') = {Head(eventCh)} /\ hand' \in Seq(Events) /\ Len(hand') = 1 /\ hand' # <<>>
  BY <1>1, <1>3, InSingle
<1>5. /\ pc' \in [Goroutines -> Pcs] /\ pc'[Run] = "add"
      /\ \A c \in Closers : pc'[c] = pc[c]
  BY <1>0, <1>1, BatchBufferAssumption DEF TypeOK, Goroutines, Pcs
<1>6. TypeOK'
  <2>1. Len(eventCh) \in Nat
    BY <1>0, LenProperties DEF TypeOK
  <2>2. Len(eventCh') <= BufferSize
    BY <1>0, <1>1, <1>3, <2>1, BatchBufferAssumption DEF TypeOK
  <2> QED BY <1>0, <1>1, <1>3, <1>4, <1>5, <2>2 DEF TypeOK
<1>7. Stages'
  BY <1>0, <1>1, <1>4, <1>5 DEF Stages
<1>8. UnderWay' = UnderWay
  BY <1>1, <1>2, <1>3, <1>4 DEF UnderWay
<1>9. Places'
  BY <1>0, <1>1, <1>2, <1>3, <1>4, <1>8 DEF Places
<1>10. Once'
  BY <1>0, <1>1, <1>8 DEF Once
<1>11. BufferBelowBatch'
  BY <1>0, <1>1 DEF BufferBelowBatch
<1> QED BY <1>6, <1>7, <1>9, <1>10, <1>11 DEF IInv

\* run adds the event in its hand to the buffer.
LEMMA AddEventKeeps == IInv /\ AddEvent => IInv'
<1> SUFFICES ASSUME IInv, AddEvent PROVE IInv'
  OBVIOUS
<1>0. TypeOK /\ Stages /\ Places /\ Once /\ BufferBelowBatch
  BY DEF IInv
<1>1. /\ pc[Run] = "add" /\ mu = Nobody /\ AppendToBuffer(hand[1]) /\ hand' = <<>>
      /\ pc' = [pc EXCEPT ![Run] = "select"]
      /\ UNCHANGED <<mu, eventCh, closed, stopped, chClosed, accepted, rejected, returned>>
  BY DEF AddEvent, Goto
<1> DEFINE e == hand[1]
<1>2. e \in Events /\ In(hand) = {e}
  <2>1. hand # <<>> /\ hand \in Seq(Events) /\ Len(hand) <= 1
    BY <1>0, <1>1 DEF Stages, TypeOK
  <2>2. Len(hand) = 1
    <3>1. Len(hand) \in Nat \ {0}
      BY <2>1, EmptySeq
    <3>2. \A n \in Nat \ {0} : n <= 1 => n = 1
      OBVIOUS
    <3> QED BY <2>1, <3>1, <3>2
  <2>3. e \in Events
    BY <2>1, <2>2, ElementOfSeq
  <2> QED BY <2>2, <2>3 DEF In
<1>3. e \in accepted /\ e \in UnderWay /\ e \notin In(eventCh) /\ e \notin In(buffer)
  BY <1>0, <1>2 DEF Places, UnderWay
<1>4. handed[e] = 0
  BY <1>0, <1>2, <1>3 DEF Once
<1>5. /\ buffer' \in Seq(Events) /\ Len(buffer') < BatchSize /\ Distinct(buffer')
      /\ handed' \in [Events -> Nat]
      /\ \/ In(buffer') = In(buffer) \cup {e} /\ handed' = handed
         \/ /\ In(buffer') = {}
            /\ \A f \in Events :
                 handed'[f] = IF f \in In(buffer) \cup {e} THEN handed[f] + 1 ELSE handed[f]
  <2>1. Distinct(buffer)
    BY <1>0 DEF Places
  <2> HIDE DEF e
  <2>2. AppendToBuffer(e)
    BY <1>1 DEF e
  <2> QED BY <1>0, <1>2, <1>3, <2>1, <2>2, AppendEffect
<1>6. /\ pc' \in [Goroutines -> Pcs] /\ pc'[Run] = "select"
      /\ \A c \in Closers : pc'[c] = pc[c]
  BY <1>0, <1>1, BatchBufferAssumption DEF TypeOK, Goroutines, Pcs
<1>7. hand' \in Seq(Events) /\ Len(hand') = 0 /\ In(hand') = {}
  BY <1>1, EmptySeq, InEmpty
<1>8. TypeOK'
  BY <1>0, <1>1, <1>5, <1>6, <1>7 DEF TypeOK
<1>9. Stages'
  BY <1>0, <1>1, <1>6 DEF Stages
<1>10. Places'
  BY <1>0, <1>1, <1>3, <1>5, <1>7 DEF Places, UnderWay
<1>11. Once'
  <2> DEFINE U == In(eventCh) \cup (In(hand) \ {e})
  <2>1. U \cup In(buffer') = UnderWay'
    BY <1>1, <1>2, <1>7 DEF UnderWay
  <2>2. \A f \in Events : handed'[f] = IF f \in accepted \ (U \cup In(buffer')) THEN 1 ELSE 0
    <3>1. U = In(eventCh) \cup (In(hand) \ {e})
      OBVIOUS
    <3> HIDE DEF U, e
    <3> QED BY <1>0, <1>2, <1>3, <1>4, <1>5, <3>1, OnceAppend
  <2> QED BY <1>1, <2>1, <2>2 DEF Once
<1>12. BufferBelowBatch'
  BY <1>5 DEF BufferBelowBatch
<1> QED BY <1>8, <1>9, <1>10, <1>11, <1>12 DEF IInv

\* flush takes mu.
LEMMA LockKeeps ==
  ASSUME IInv, NEW g \in Flushers \cup {Run}, Lock(g)
  PROVE  IInv'
<1>0. TypeOK /\ Stages /\ Places /\ Once /\ BufferBelowBatch
  BY DEF IInv
<1>1. /\ mu = Nobody /\ mu' = g
      /\ UNCHANGED <<eventCh, buffer, closed, stopped, chClosed, hand, accepted, rejected,
                     handed, returned>>
      /\ \/ g \in Flushers /\ pc[g] = "idle" /\ pc' = [pc EXCEPT ![g] = "drain"]
         \/ g = Run /\ pc[g] = "lock" /\ pc' = [pc EXCEPT ![g] = "drain"]
         \/ g = Run /\ pc[g] = "stop" /\ pc' = [pc EXCEPT ![g] = "wait"]
  BY DEF Lock, Goto
<1>2. pc' \in [Goroutines -> Pcs] /\ \A c \in Closers : pc'[c] = pc[c]
  BY <1>0, <1>1, BatchBufferAssumption DEF TypeOK, Goroutines, Pcs
<1>3. TypeOK'
  BY <1>0, <1>1, <1>2 DEF TypeOK
<1>4. Stages'
  <2>1. CASE g = Run
    <3>1. pc[Run] \in {"lock", "stop"}
      BY <1>1, <2>1, BatchBufferAssumption
    <3>2. pc'[Run] = IF pc[Run] = "lock" THEN "drain" ELSE "wait"
      BY <1>0, <1>1, <2>1, BatchBufferAssumption DEF TypeOK, Goroutines
    <3> QED BY <1>0, <1>1, <1>2, <2>1, <3>1, <3>2 DEF Stages
  <2>2. CASE g # Run
    <3>1. pc'[Run] = pc[Run] /\ mu # Run
      BY <1>0, <1>1, <2>2, BatchBufferAssumption DEF TypeOK, Goroutines
    <3> QED BY <1>0, <1>1, <1>2, <2>2, <3>1 DEF Stages
  <2> QED BY <2>1, <2>2
<1>5. BufferBelowBatch'
  BY <1>1, BatchBufferAssumption DEF BufferBelowBatch
<1> QED BY <1>0, <1>1, <1>3, <1>4, <1>5, ControlFrame DEF IInv

\* flush moves one event, from the place run could take it from as well.
LEMMA DrainKeeps ==
  ASSUME IInv, NEW g \in Flushers \cup {Run}, Drain(g)
  PROVE  IInv'
<1>0. TypeOK /\ Stages /\ Places /\ Once /\ BufferBelowBatch
  BY DEF IInv
<1>1. /\ mu = g /\ eventCh # <<>> /\ buffer' = Append(buffer, Head(eventCh))
      /\ eventCh' = Tail(eventCh)
      /\ UNCHANGED <<mu, closed, stopped, chClosed, pc, hand, accepted, rejected, handed, returned>>
  BY DEF Drain
<1>2. /\ Head(eventCh) \in Events /\ Tail(eventCh) \in Seq(Events)
      /\ Len(Tail(eventCh)) = Len(eventCh) - 1
      /\ In(eventCh) = {Head(eventCh)} \cup In(Tail(eventCh))
      /\ Distinct(Tail(eventCh)) /\ Head(eventCh) \notin In(Tail(eventCh))
  BY <1>0, <1>1, InHeadTail DEF TypeOK, Places
<1>3. /\ buffer' \in Seq(Events)
      /\ In(buffer') = In(buffer) \cup {Head(eventCh)}
      /\ Distinct(buffer')
  <2>1. Head(eventCh) \notin In(buffer) /\ Distinct(buffer) /\ buffer \in Seq(Events)
    BY <1>0, <1>2 DEF Places, TypeOK
  <2> QED BY <1>1, <1>2, <2>1, InAppend
<1>4. TypeOK'
  <2>1. Len(eventCh) \in Nat
    BY <1>0, LenProperties DEF TypeOK
  <2>2. Len(eventCh') <= BufferSize
    BY <1>0, <1>1, <1>2, <2>1, BatchBufferAssumption DEF TypeOK
  <2> QED BY <1>0, <1>1, <1>2, <1>3, <2>2 DEF TypeOK
<1>5. Stages'
  BY <1>0, <1>1 DEF Stages
<1>6. UnderWay' = UnderWay
  BY <1>1, <1>2, <1>3 DEF UnderWay
<1>7. Places'
  BY <1>0, <1>1, <1>2, <1>3, <1>6 DEF Places
<1>8. Once'
  BY <1>0, <1>1, <1>6 DEF Once
<1>9. BufferBelowBatch'
  BY <1>1, BatchBufferAssumption DEF BufferBelowBatch
<1> QED BY <1>4, <1>5, <1>7, <1>8, <1>9 DEF IInv

\* flush hands the buffer over and releases mu; for run this may be the last flush.
LEMMA FlushKeeps ==
  ASSUME IInv, NEW g \in Flushers \cup {Run}, Flush(g)
  PROVE  IInv'
<1>0. TypeOK /\ Stages /\ Places /\ Once /\ BufferBelowBatch
  BY DEF IInv
<1>1. /\ mu = g /\ eventCh = <<>> /\ ~chClosed /\ DoFlushLocked(buffer) /\ mu' = Nobody
      /\ pc' = [pc EXCEPT ![g] = IF g = Run /\ pc[g] = "drain" THEN "select" ELSE "done"]
      /\ UNCHANGED <<eventCh, closed, stopped, chClosed, hand, accepted, rejected, returned>>
  BY DEF Flush, Goto
<1>2. /\ buffer' = <<>> /\ buffer' \in Seq(Events) /\ handed' \in [Events -> Nat]
      /\ \A f \in Events : handed'[f] = IF f \in In(buffer) THEN handed[f] + 1 ELSE handed[f]
  BY <1>0, <1>1, FlushEffect DEF TypeOK
<1>3. In(buffer') = {} /\ Distinct(buffer') /\ Len(buffer') = 0
  BY <1>2, InEmpty, EmptySeq
<1>4. pc' \in [Goroutines -> Pcs] /\ \A c \in Closers : pc'[c] = pc[c]
  BY <1>0, <1>1, BatchBufferAssumption DEF TypeOK, Goroutines, Pcs
<1>5. TypeOK'
  BY <1>0, <1>1, <1>2, <1>4 DEF TypeOK
<1>6. Stages'
  <2>1. CASE g = Run
    <3>1. pc[Run] \in {"drain", "wait"}
      BY <1>0, <1>1, <2>1 DEF Stages
    <3>2. pc'[Run] = IF pc[Run] = "drain" THEN "select" ELSE "done"
      BY <1>0, <1>1, <2>1 DEF TypeOK, Goroutines
    <3>3. hand = <<>>
      BY <1>0, <3>1 DEF Stages
    <3>4. Nobody # Run
      BY BatchBufferAssumption
    <3> QED BY <1>0, <1>1, <1>2, <1>4, <3>1, <3>2, <3>3, <3>4 DEF Stages
  <2>2. CASE g # Run
    <3>1. pc'[Run] = pc[Run] /\ mu # Run /\ mu' # Run
      BY <1>0, <1>1, <2>2, BatchBufferAssumption DEF TypeOK, Goroutines
    <3> QED BY <1>0, <1>1, <1>2, <1>4, <3>1 DEF Stages
  <2> QED BY <2>1, <2>2
<1>7. Places'
  BY <1>0, <1>1, <1>3 DEF Places, UnderWay
<1>8. Once'
  <2> SUFFICES ASSUME NEW f \in Events
               PROVE  handed'[f] = IF f \in accepted' \ UnderWay' THEN 1 ELSE 0
    BY DEF Once
  <2>1. handed[f] = IF f \in accepted \ UnderWay THEN 1 ELSE 0
    BY <1>0 DEF Once
  <2>2. f \in In(buffer) => f \in accepted /\ f \notin In(eventCh) /\ f \notin In(hand)
    BY <1>0 DEF Places, UnderWay
  <2>3. UnderWay' = In(eventCh) \cup In(hand)
    BY <1>1, <1>3 DEF UnderWay
  <2> QED BY <1>1, <1>2, <2>1, <2>2, <2>3 DEF UnderWay
<1>9. BufferBelowBatch'
  BY <1>3, BatchBufferAssumption DEF BufferBelowBatch
<1> QED BY <1>5, <1>6, <1>7, <1>8, <1>9 DEF IInv

\* A flush that got stuck on the closed channel keeps mu and moves no event.
LEMMA SpinKeeps ==
  ASSUME IInv, NEW f \in Flushers, Spin(f)
  PROVE  IInv'
<1>0. TypeOK /\ Stages /\ Places /\ Once /\ BufferBelowBatch
  BY DEF IInv
<1>1. /\ UNCHANGED <<mu, eventCh, buffer, closed, stopped, chClosed, hand, accepted, rejected,
                     handed, returned>>
      /\ pc' = [pc EXCEPT ![f] = "spin"]
  BY DEF Spin, Goto
<1>2. /\ pc' \in [Goroutines -> Pcs] /\ pc'[Run] = pc[Run]
      /\ \A c \in Closers : pc'[c] = pc[c]
  BY <1>0, <1>1, BatchBufferAssumption DEF TypeOK, Goroutines, Pcs
<1>3. TypeOK'
  BY <1>0, <1>1, <1>2 DEF TypeOK
<1>4. Stages' /\ BufferBelowBatch'
  BY <1>0, <1>1, <1>2 DEF Stages, BufferBelowBatch
<1> QED BY <1>0, <1>1, <1>3, <1>4, ControlFrame DEF IInv

\* The steps of Close: closed is set before stopCh is closed, and the channel is
\* closed after run is done.
LEMMA CloseKeeps ==
  ASSUME IInv, NEW c \in Closers, CloseStep(c)
  PROVE  IInv'
<1>0. TypeOK /\ Stages /\ Places /\ Once /\ BufferBelowBatch
  BY DEF IInv
<1>1. UNCHANGED <<mu, eventCh, buffer, hand, accepted, rejected, handed>>
  BY DEF CloseStep, CloseBegin, CloseStop, CloseEnd
<1>2. \/ closed' = TRUE /\ UNCHANGED <<stopped, chClosed, returned>>
      \/ pc[c] = "stop" /\ stopped' = TRUE /\ UNCHANGED <<closed, chClosed, returned>>
      \/ /\ pc[Run] = "done" /\ chClosed' = TRUE /\ returned' = TRUE
         /\ UNCHANGED <<closed, stopped>>
  BY DEF CloseStep, CloseBegin, CloseStop, CloseEnd
<1>3. PICK next \in {"stop", "wait", "done"} :
        pc' = [pc EXCEPT ![c] = next] /\ (next = "done" \/ closed' = TRUE)
  <2>1. CASE CloseBegin(c)
    BY <2>1 DEF CloseBegin, Goto
  <2>2. CASE CloseStop(c)
    <3>1. closed
      BY <1>0, <2>2 DEF CloseStop, Stages
    <3> QED BY <1>0, <2>2, <3>1 DEF CloseStop, Goto, TypeOK
  <2>3. CASE CloseEnd(c)
    BY <2>3 DEF CloseEnd, Goto
  <2> QED BY <2>1, <2>2, <2>3 DEF CloseStep
<1>4. /\ pc' \in [Goroutines -> Pcs] /\ pc'[Run] = pc[Run]
      /\ pc'[c] = next /\ \A d \in Closers \ {c} : pc'[d] = pc[d]
  BY <1>0, <1>3, BatchBufferAssumption DEF TypeOK, Goroutines, Pcs
<1>5. TypeOK'
  BY <1>0, <1>1, <1>2, <1>4 DEF TypeOK
<1>6. Stages'
  <2>1. closed => closed'
    BY <1>2
  <2>2. \A d \in Closers : pc'[d] \in {"stop", "wait"} => closed'
    BY <1>0, <1>3, <1>4, <2>1 DEF Stages
  <2>3. stopped' => closed'
    BY <1>0, <1>2, <2>1 DEF Stages
  <2>4. pc[Run] \in {"stop", "wait", "done"} => stopped'
    BY <1>0, <1>2 DEF Stages
  <2>5. returned' \/ chClosed' => pc[Run] = "done"
    BY <1>0, <1>2 DEF Stages
  <2> QED BY <1>0, <1>1, <1>4, <2>2, <2>3, <2>4, <2>5 DEF Stages
<1>7. BufferBelowBatch'
  BY <1>0, <1>1 DEF BufferBelowBatch
<1> QED BY <1>0, <1>1, <1>5, <1>6, <1>7, ControlFrame DEF IInv

--------------------------------------------------------------------------------
\* The inductive invariant, kept by every interleaving of producers, run, FlushNow
\* and Close.
THEOREM Invariance == Spec => []IInv
<1>1. Init => IInv
  <2> SUFFICES ASSUME Init PROVE IInv
    OBVIOUS
  <2>0. <<>> \in Seq(Events) /\ Len(<<>>) = 0 /\ In(<<>>) = {} /\ Distinct(<<>>)
    BY EmptySeq, InEmpty
  <2>1. TypeOK
    <3>1. pc \in [Goroutines -> Pcs] /\ handed \in [Events -> Nat]
      BY DEF Init, Pcs
    <3>2. Len(eventCh) <= BufferSize /\ Len(hand) <= 1
      BY <2>0, BatchBufferAssumption DEF Init
    <3>3. eventCh \in Seq(Events) /\ buffer \in Seq(Events) /\ hand \in Seq(Events)
      BY <2>0 DEF Init
    <3> QED BY <3>1, <3>2, <3>3 DEF Init, TypeOK
  <2>2. Stages
    BY BatchBufferAssumption DEF Init, Stages, Goroutines
  <2>3. Places /\ Once /\ BufferBelowBatch
    BY <2>0, BatchBufferAssumption DEF Init, Places, Once, UnderWay, BufferBelowBatch
  <2> QED BY <2>1, <2>2, <2>3 DEF IInv
<1>2. IInv /\ [Next]_vars => IInv'
  <2> SUFFICES ASSUME IInv, [Next]_vars PROVE IInv'
    OBVIOUS
  <2>1. CASE \E e \in Events : Add(e)
    BY <2>1, AddKeeps
  <2>2. CASE Start \/ RunStep
    BY <2>2, RunControlKeeps, ReceiveKeeps, AddEventKeeps, LockKeeps, DrainKeeps, FlushKeeps
       DEF RunStep
  <2>3. CASE \E f \in Flushers : FlushStep(f)
    BY <2>3, LockKeeps, DrainKeeps, FlushKeeps, SpinKeeps DEF FlushStep
  <2>4. CASE \E c \in Closers : CloseStep(c)
    BY <2>4, CloseKeeps
  <2>5. CASE UNCHANGED vars
    BY <2>5 DEF vars, IInv, TypeOK, Stages, Places, Once, UnderWay, BufferBelowBatch
  <2> QED BY <2>1, <2>2, <2>3, <2>4, <2>5 DEF Next
<1> QED BY <1>1, <1>2, PTL DEF Spec

\* Every field of the buffer and every goroutine keeps its type; the channel never
\* holds more than BufferSize events.
THEOREM TypeCorrect == Spec => []TypeOK
BY Invariance, PTL DEF IInv

\* No event is lost or handed over twice: an accepted event is under way, or was
\* given to FlushHandler exactly once.
THEOREM ExactlyOnce == Spec => []HandedOverOnce
<1>1. IInv => HandedOverOnce
  <2> SUFFICES ASSUME IInv PROVE HandedOverOnce
    OBVIOUS
  <2>0. TypeOK /\ Places /\ Once
    BY DEF IInv
  <2>1. In(eventCh \o hand \o buffer) = UnderWay
    <3>1. eventCh \o hand \in Seq(Events) /\ In(eventCh \o hand) = In(eventCh) \cup In(hand)
      BY <2>0, InConcat DEF TypeOK
    <3>2. In((eventCh \o hand) \o buffer) = In(eventCh \o hand) \cup In(buffer)
      BY <2>0, <3>1, InConcat DEF TypeOK
    <3> QED BY <3>1, <3>2 DEF UnderWay
  <2> QED BY <2>0, <2>1 DEF HandedOverOnce, Once, TypeOK
<1> QED BY <1>1, Invariance, PTL

\* When Close has returned to the caller that closed the buffer, every accepted
\* event was given to FlushHandler.
THEOREM CloseIsComplete == Spec => []CloseLeavesNothing
<1>1. IInv => CloseLeavesNothing
  <2> SUFFICES ASSUME IInv, returned, NEW e \in accepted PROVE handed[e] = 1
    BY DEF CloseLeavesNothing
  <2>0. TypeOK /\ Stages /\ Once
    BY DEF IInv
  <2>1. eventCh = <<>> /\ hand = <<>> /\ buffer = <<>>
    BY <2>0 DEF Stages
  <2>2. UnderWay = {}
    BY <2>1, InEmpty DEF UnderWay
  <2> QED BY <2>0, <2>2 DEF Once, TypeOK
<1> QED BY <1>1, Invariance, PTL

\* Outside critical sections the buffer is shorter than a batch, however many
\* events flush took out of the channel.
THEOREM BufferBounded == Spec => []BufferBelowBatch
BY Invariance, PTL DEF IInv

================================================================================
