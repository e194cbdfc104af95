--------------------------- MODULE TokenStatusProofs ---------------------------
(***************************************************************************)
(* Token verification in supply-api, for any tokens, requests, revocations *)
(* and life of a key: its types, that a swept token stays refused, and     *)
(* that production fails closed.  Liveness is left to TLC.                 *)
(***************************************************************************)
EXTENDS TokenStatus, TLAPS

\* What the process guarantees to its requests: none run before the backends are
\* known, and one that asks Redis or the database has both.
Backends ==
  /\ phase \in Ended \cup {"build"} => server = "off" /\ \A r \in Reqs : pc[r] = "idle"
  /\ env = "prod" /\ server # "off" => db
  /\ \A r \in Reqs : pc[r] \in {"get", "read", "set"} => db /\ redis

\* SweptStaysRefused needs nothing beside the types; ProdFailsClosed needs Backends.
IInv == TypeOK /\ SweptStaysRefused /\ Backends

--------------------------------------------------------------------------------
\* The steps of the process keep its types and the backends it found, until it ends.
LEMMA ProcessTyping ==
  ASSUME StartTypeOK, StartStep \/ EndStep
  PROVE  StartTypeOK'
<1> USE DEF StartTypeOK, Envs, Phases, Ended, Workers
<1>1. CASE BuildRuntime BY <1>1 DEF BuildRuntime, Exit
<1>2. CASE Listen BY <1>2 DEF Listen
<1>3. CASE ServerFails BY <1>3 DEF ServerFails
<1>4. CASE StartRevocationSubscriber BY <1>4 DEF StartRevocationSubscriber
<1>5. CASE StartOutboxProcessor BY <1>5 DEF StartOutboxProcessor, Exit
<1>6. CASE StartWorkers BY <1>6 DEF StartWorkers
<1>7. CASE ServerError BY <1>7 DEF ServerError, Exit
<1>8. CASE Signal BY <1>8 DEF Signal, Exit
<1>9. CASE Shutdown BY <1>9 DEF Shutdown, Exit
<1>10. CASE Restart BY <1>10 DEF Restart
<1> QED BY <1>1, <1>2, <1>3, <1>4, <1>5, <1>6, <1>7, <1>8, <1>9, <1>10 DEF StartStep, EndStep

\* A key that is deleted keeps its type; a token becomes swept only when it is
\* revoked and nobody is about to store an older status.
LEMMA Invalidation ==
  ASSUME TypeOK, SweptStaysRefused, NEW t \in Tokens, InvalidateToken(t),
         UNCHANGED <<row, late, pc, tok, seen>>
  PROVE  /\ entry' \in [Tokens -> [status : Status, left : 1..TTL] \cup {NoEntry}]
         /\ swept' \subseteq Tokens
         /\ SweptStaysRefused'
<1>1. NoEntry.status # "active"
  BY DEF NoEntry
<1>2. entry' \in [Tokens -> [status : Status, left : 1..TTL] \cup {NoEntry}] /\ swept' \subseteq Tokens
  BY DEF InvalidateToken, TypeOK
<1>3. ASSUME NEW u \in swept' PROVE row'[u] = "revoked" /\ ~StaleSource(u)'
  <2>1. u \in Tokens
    BY <1>2
  <2>2. Filling(u)' <=> Filling(u)
    BY DEF Filling, Storing
  <2>3. u \in swept => row[u] = "revoked" /\ entry[u].status # "active" /\ ~Filling(u)
    BY DEF SweptStaysRefused, StaleSource
  <2>4. CASE UNCHANGED <<entry, swept>>
    BY <2>2, <2>3, <2>4 DEF StaleSource
  <2>5. CASE /\ entry' = [entry EXCEPT ![t] = NoEntry]
             /\ swept' = IF row[t] = "revoked" /\ ~Filling(t) THEN swept \cup {t} ELSE swept
    <3>1. entry'[u] = IF u = t THEN NoEntry ELSE entry[u]
      BY <2>1, <2>5 DEF TypeOK
    <3>2. row[u] = "revoked" /\ ~Filling(u)
      BY <2>3, <2>5
    <3>3. entry'[u].status # "active"
      BY <1>1, <2>3, <2>5, <3>1
    <3> QED BY <2>2, <3>2, <3>3 DEF StaleSource
  <2> QED BY <2>4, <2>5 DEF InvalidateToken
<1> QED BY <1>2, <1>3 DEF SweptStaysRefused

\* What is left to show for a step that sweeps nothing: it neither stores nor is
\* about to store an active status of a swept token.
LEMMA SweptFrame ==
  ASSUME SweptStaysRefused, swept' \subseteq swept,
         \A u \in swept :
           /\ row'[u] = row[u]
           /\ entry'[u].status = "active" => entry[u].status = "active"
           /\ Filling(u)' => Filling(u)
  PROVE  SweptStaysRefused'
<1> SUFFICES ASSUME NEW u \in swept' PROVE row'[u] = "revoked" /\ ~StaleSource(u)'
  BY DEF SweptStaysRefused
<1>1. u \in swept
  OBVIOUS
<1>2. row[u] = "revoked" /\ entry[u].status # "active" /\ ~Filling(u)
  BY <1>1 DEF SweptStaysRefused, StaleSource
<1> QED BY <1>1, <1>2 DEF StaleSource

\* A request that leaves fills nothing, whether or not it leaves its SET under way.
LEMMA AnswerFillsNothing ==
  ASSUME TypeOK, NEW r \in Reqs, NEW how,
         how \in {"admitted", "refused", "aborted"}, Answer(r, how),
         \/ late' = late
         \/ pc[r] = "set" /\ late' = [tok |-> tok[r], status |-> seen[r]]
  PROVE  /\ pc' = [pc EXCEPT ![r] = how]
         /\ pc' \in [Reqs -> {"idle", "get", "read", "set", "admitted", "refused", "aborted"}]
         /\ tok' \in [Reqs -> Tokens]
         /\ seen' \in [Reqs -> Status]
         /\ late' \in [tok : Tokens, status : Status] \cup {NoSet}
         /\ \A u \in Tokens : Filling(u)' => Filling(u)
<1>1. FirstToken \in Tokens
  <2>1. Tokens # {}
    BY DEF TypeOK
  <2> QED BY <2>1 DEF FirstToken
<1>2. /\ pc' = [pc EXCEPT ![r] = how]
      /\ pc' \in [Reqs -> {"idle", "get", "read", "set", "admitted", "refused", "aborted"}]
      /\ tok' \in [Reqs -> Tokens]
      /\ seen' \in [Reqs -> Status]
  BY <1>1 DEF Answer, TypeOK, Status
<1>3. late' \in [tok : Tokens, status : Status] \cup {NoSet}
  BY DEF TypeOK
<1>4. ASSUME NEW u \in Tokens, Storing(u)' PROVE Storing(u)
  <2>1. PICK q \in Reqs : pc'[q] = "set" /\ tok'[q] = u /\ seen'[q] = "active"
    BY <1>4 DEF Storing
  <2>2. q # r
    BY <1>2, <2>1 DEF TypeOK
  <2>3. pc[q] = "set" /\ tok[q] = u /\ seen[q] = "active"
    BY <2>1, <2>2 DEF Answer, TypeOK
  <2> QED BY <2>3 DEF Storing
<1>5. ASSUME NEW u \in Tokens, late'.tok = u, late'.status = "active" PROVE Filling(u)
  BY <1>5 DEF Filling, Storing
<1> QED BY <1>2, <1>3, <1>4, <1>5 DEF Filling

--------------------------------------------------------------------------------
\* What a request sees of the process does not change under its feet.
LEMMA BackendsFrame ==
  ASSUME TypeOK, Backends, UNCHANGED startVars, NEW r \in Reqs, NEW next,
         pc[r] # "idle", pc' = [pc EXCEPT ![r] = next],
         next \in {"get", "read", "set"} => pc[r] \in {"get", "read", "set"}
  PROVE  Backends'
<1>1. phase \notin Ended \cup {"build"}
  BY DEF Backends
<1>2. ASSUME NEW q \in Reqs, pc'[q] \in {"get", "read", "set"} PROVE db /\ redis
  BY <1>2 DEF Backends, TypeOK
<1> QED BY <1>1, <1>2 DEF Backends, startVars

\* The process: a request keeps its backends until the process ends.
LEMMA ProcessKeeps == IInv /\ ProcessStep => IInv'
<1> SUFFICES ASSUME IInv, ProcessStep PROVE IInv'
  OBVIOUS
<1>1. StartTypeOK'
  BY ProcessTyping DEF IInv, TypeOK, ProcessStep
<1>2. CASE phase' \in Ended
  <2>0. NoRequests /\ NoRevocations /\ channel' = {} /\ UNCHANGED <<row, entry, late, swept>>
    BY <1>2 DEF ProcessStep
  <2>1. TypeOK'
    <3>1. ASSUME NEW r \in Reqs PROVE FirstToken \in Tokens
      <4>1. Tokens # {}
        BY DEF IInv, TypeOK
      <4> QED BY <4>1 DEF FirstToken
    <3> QED BY <1>1, <2>0, <3>1 DEF IInv, TypeOK, NoRequests, NoRevocations, Status
  <2>2. SweptStaysRefused'
    <3>1. \A u \in Tokens : Filling(u)' => Filling(u)
      BY <2>0 DEF NoRequests, Filling, Storing
    <3> QED BY <2>0, <3>1, SweptFrame DEF IInv, TypeOK
  <2>3. server' = "off"
    BY <1>2 DEF ProcessStep, StartStep, EndStep, BuildRuntime, Listen, ServerFails,
       StartRevocationSubscriber, StartOutboxProcessor, StartWorkers, ServerError, Signal,
       Shutdown, Restart, Exit, IInv, Backends, Ended
  <2>4. Backends'
    BY <2>0, <2>3 DEF Backends, NoRequests
  <2> QED BY <2>1, <2>2, <2>4 DEF IInv
<1>3. CASE phase' \notin Ended
  <2>0. UNCHANGED <<row, entry, late, swept, channel, reqVars, revVars>>
    BY <1>3 DEF ProcessStep
  <2>1. TypeOK'
    BY <1>1, <2>0 DEF IInv, TypeOK, reqVars, revVars
  <2>2. SweptStaysRefused'
    BY <2>0 DEF IInv, SweptStaysRefused, StaleSource, Filling, Storing, reqVars
  <2>3. Backends'
    <3> USE <1>3, <2>0 DEF IInv, Backends, reqVars, Ended
    <3>1. CASE BuildRuntime BY <3>1 DEF BuildRuntime, Exit
    <3>2. CASE Listen BY <3>2 DEF Listen
    <3>3. CASE ServerFails BY <3>3 DEF ServerFails
    <3>4. CASE StartRevocationSubscriber BY <3>4 DEF StartRevocationSubscriber
    <3>5. CASE StartOutboxProcessor BY <3>5 DEF StartOutboxProcessor, Exit
    <3>6. CASE StartWorkers BY <3>6 DEF StartWorkers
    <3>7. CASE ServerError BY <3>7 DEF ServerError, Exit
    <3>8. CASE Signal BY <3>8 DEF Signal, Exit
    <3>9. CASE Shutdown BY <3>9 DEF Shutdown, Exit
    <3>10. CASE Restart BY <3>10 DEF Restart
    <3> QED BY <3>1, <3>2, <3>3, <3>4, <3>5, <3>6, <3>7, <3>8, <3>9, <3>10
            DEF ProcessStep, StartStep, EndStep
  <2> QED BY <2>1, <2>2, <2>3 DEF IInv
<1> QED BY <1>2, <1>3

\* A request that is answered: whatever it stores is not an active status of a
\* swept token.
LEMMA AnswerKeeps ==
  ASSUME IInv, NEW r \in Reqs, NEW how, how \in {"admitted", "refused", "aborted"}, Answer(r, how),
         pc[r] # "idle" \/ server = "serving",
         UNCHANGED <<startVars, row, channel, revVars, swept>>,
         entry' \in [Tokens -> [status : Status, left : 1..TTL] \cup {NoEntry}],
         \A u \in swept : entry'[u].status = "active" => entry[u].status = "active",
         \/ late' = late
         \/ pc[r] = "set" /\ late' = [tok |-> tok[r], status |-> seen[r]]
  PROVE  IInv'
<1>0. TypeOK /\ SweptStaysRefused /\ Backends
  BY DEF IInv
<1>1. /\ pc' = [pc EXCEPT ![r] = how]
      /\ pc' \in [Reqs -> {"idle", "get", "read", "set", "admitted", "refused", "aborted"}]
      /\ tok' \in [Reqs -> Tokens]
      /\ seen' \in [Reqs -> Status]
      /\ late' \in [tok : Tokens, status : Status] \cup {NoSet}
      /\ \A u \in Tokens : Filling(u)' => Filling(u)
  BY <1>0, AnswerFillsNothing
<1>2. TypeOK'
  <2>1. StartTypeOK'
    BY <1>0 DEF TypeOK, StartTypeOK, startVars
  <2> QED BY <1>0, <1>1, <2>1 DEF TypeOK, revVars
<1>3. SweptStaysRefused'
  <2>1. \A u \in swept : u \in Tokens
    BY <1>0 DEF TypeOK
  <2> QED BY <1>0, <1>1, <2>1, SweptFrame
<1>4. Backends'
  <2>1. phase \notin Ended \cup {"build"}
    BY <1>0 DEF Backends
  <2>2. ASSUME NEW q \in Reqs, pc'[q] \in {"get", "read", "set"} PROVE db /\ redis
    BY <1>0, <1>1, <2>2 DEF Backends, TypeOK
  <2> QED BY <1>0, <2>1, <2>2 DEF Backends, startVars
<1> QED BY <1>2, <1>3, <1>4 DEF IInv

\* The request: arrival, the look into Redis, into the database, and the answer.
LEMMA RequestKeeps ==
  ASSUME IInv, NEW r \in Reqs,
         \/ \E t \in Tokens, valid \in BOOLEAN : Arrive(r, t, valid)
         \/ RequestStep(r)
         \/ Leave(r)
  PROVE  IInv'
<1>0. TypeOK /\ SweptStaysRefused /\ Backends
  BY DEF IInv
<1> DEFINE Quiet == UNCHANGED <<startVars, row, redisVars, revVars, swept>>
<1>1. ASSUME NEW how \in {"admitted", "refused", "aborted"}, Answer(r, how), Quiet,
             pc[r] # "idle" \/ server = "serving"
      PROVE  IInv'
  BY <1>0, <1>1, AnswerKeeps DEF redisVars, TypeOK
<1>2. ASSUME NEW s, Verdict(s) \notin {"admitted", "refused", "aborted"} PROVE FALSE
  BY <1>2 DEF Verdict
<1>3. ASSUME Quiet, TypeOK', Backends', \A u \in swept : Filling(u)' => Filling(u)
      PROVE  IInv'
  BY <1>0, <1>3, SweptFrame DEF redisVars, IInv
<1>4. ASSUME NEW t \in Tokens, NEW valid \in BOOLEAN, Arrive(r, t, valid) PROVE IInv'
  <2>0. Quiet /\ server = "serving" /\ pc[r] = "idle"
    BY <1>4 DEF Arrive
  <2>1. CASE \E how \in {"admitted", "refused", "aborted"} : Answer(r, how)
    BY <1>1, <2>0, <2>1
  <2>2. CASE /\ db /\ redis
             /\ pc' = [pc EXCEPT ![r] = "get"]
             /\ tok' = [tok EXCEPT ![r] = t]
             /\ UNCHANGED seen
    <3>1. TypeOK'
      <4>1. StartTypeOK'
        BY <1>0, <2>0 DEF TypeOK, StartTypeOK, startVars
      <4> QED BY <1>0, <2>0, <2>2, <4>1 DEF TypeOK, redisVars, revVars
    <3>2. Backends'
      <4>1. phase \notin Ended \cup {"build"}
        BY <1>0, <2>0 DEF Backends
      <4> QED BY <1>0, <2>0, <2>2, <4>1 DEF Backends, startVars
    <3>3. ASSUME NEW u \in swept, Storing(u)' PROVE Storing(u)
      <4>1. PICK q \in Reqs : pc'[q] = "set" /\ tok'[q] = u /\ seen'[q] = "active"
        BY <3>3 DEF Storing
      <4>2. q # r
        BY <1>0, <2>2, <4>1 DEF TypeOK
      <4>3. pc[q] = "set" /\ tok[q] = u /\ seen[q] = "active"
        BY <1>0, <2>2, <4>1, <4>2 DEF TypeOK
      <4> QED BY <4>3 DEF Storing
    <3>4. \A u \in swept : Filling(u)' => Filling(u)
      BY <2>0, <3>3 DEF Filling, redisVars
    <3> QED BY <1>3, <2>0, <3>1, <3>2, <3>4
  <2> QED BY <1>4, <2>1, <2>2 DEF Arrive
<1>5. ASSUME NEW next \in {"read", "set", "idle"}, pc[r] # "idle", pc' = [pc EXCEPT ![r] = next],
             next # "idle" => pc[r] \in {"get", "read"},
             UNCHANGED tok, seen' \in [Reqs -> Status], Quiet,
             \A u \in swept : Filling(u)' => Filling(u)
      PROVE  IInv'
  <2>1. TypeOK'
    <3>1. StartTypeOK'
      BY <1>0, <1>5 DEF TypeOK, StartTypeOK, startVars
    <3> QED BY <1>0, <1>5, <3>1 DEF TypeOK, redisVars, revVars
  <2>2. Backends'
    BY <1>0, <1>5, BackendsFrame
  <2> QED BY <1>3, <1>5, <2>1, <2>2
<1>6. ASSUME GetCached(r) PROVE IInv'
  <2>0. Quiet /\ pc[r] = "get"
    BY <1>6 DEF GetCached
  <2>1. CASE Goto(r, "read") /\ UNCHANGED seen
    <3>1. \A u \in swept : Filling(u)' => Filling(u)
      BY <1>0, <2>0, <2>1 DEF Goto, Filling, Storing, TypeOK, redisVars
    <3> QED BY <1>0, <1>5, <2>0, <2>1, <3>1 DEF Goto, TypeOK
  <2>2. CASE Answer(r, Verdict(entry[tok[r]].status))
    BY <1>1, <1>2, <2>0, <2>2
  <2> QED BY <1>6, <2>1, <2>2 DEF GetCached
<1>7. ASSUME ReadStatus(r) PROVE IInv'
  <2>0. Quiet /\ pc[r] = "read"
    BY <1>7 DEF ReadStatus
  <2>1. CASE Answer(r, "refused")
    BY <1>1, <2>0, <2>1
  <2>2. CASE seen' = [seen EXCEPT ![r] = GetStatus(tok[r])] /\ Goto(r, "set")
    <3>1. GetStatus(tok[r]) \in Status
      BY <1>0 DEF GetStatus, TypeOK, Rows, Status
    <3>2. seen' \in [Reqs -> Status] /\ pc' = [pc EXCEPT ![r] = "set"] /\ UNCHANGED tok
      BY <1>0, <2>2, <3>1 DEF TypeOK, Goto
    <3>3. ASSUME NEW u \in swept, Storing(u)' PROVE Storing(u)
      <4>1. PICK q \in Reqs : pc'[q] = "set" /\ tok'[q] = u /\ seen'[q] = "active"
        BY <3>3 DEF Storing
      <4>2. q # r
        <5>1. row[u] = "revoked"
          BY <1>0 DEF SweptStaysRefused
        <5>2. tok[r] = u => GetStatus(tok[r]) = "revoked"
          BY <5>1 DEF GetStatus
        <5> QED BY <1>0, <2>2, <3>2, <4>1, <5>2 DEF TypeOK
      <4>3. pc[q] = "set" /\ tok[q] = u /\ seen[q] = "active"
        BY <1>0, <2>2, <3>2, <4>1, <4>2 DEF TypeOK
      <4> QED BY <4>3 DEF Storing
    <3>4. \A u \in swept : Filling(u)' => Filling(u)
      BY <2>0, <3>3 DEF Filling, redisVars
    <3> QED BY <1>5, <2>0, <3>2, <3>4
  <2> QED BY <1>7, <2>1, <2>2 DEF ReadStatus
<1>8. ASSUME StoreStatus(r) PROVE IInv'
  <2>0. /\ pc[r] = "set" /\ Answer(r, Verdict(seen[r]))
        /\ UNCHANGED <<startVars, row, channel, revVars, swept>>
        /\ late' = late \/ late' = [tok |-> tok[r], status |-> seen[r]]
    BY <1>8 DEF StoreStatus
  <2>1. entry' \in [Tokens -> [status : Status, left : 1..TTL] \cup {NoEntry}]
    <3>1. [status |-> seen[r], left |-> TTL] \in [status : Status, left : 1..TTL]
      BY <1>0, TokenStatusAssumption DEF TypeOK
    <3> QED BY <1>0, <1>8, <3>1 DEF StoreStatus, TypeOK
  <2>2. ASSUME NEW u \in swept, entry'[u].status = "active" PROVE entry[u].status = "active"
    <3>1. u \in Tokens
      BY <1>0 DEF TypeOK
    <3>2. CASE UNCHANGED entry
      BY <2>2, <3>2
    <3>3. CASE entry' = [entry EXCEPT ![tok[r]] = [status |-> seen[r], left |-> TTL]]
      <4>1. CASE u = tok[r]
        <5>1. seen[r] # "active"
          BY <1>0, <2>0, <4>1 DEF SweptStaysRefused, StaleSource, Filling, Storing
        <5>2. entry'[u].status = seen[r]
          BY <1>0, <3>1, <3>3, <4>1 DEF TypeOK
        <5> QED BY <2>2, <5>1, <5>2
      <4>2. CASE u # tok[r]
        BY <1>0, <2>2, <3>1, <3>3, <4>2 DEF TypeOK
      <4> QED BY <4>1, <4>2
    <3> QED BY <1>8, <3>2, <3>3 DEF StoreStatus
  <2> QED BY <1>2, <2>0, <2>1, <2>2, AnswerKeeps
<1>9. ASSUME Leave(r) PROVE IInv'
  <2>0. /\ pc[r] \in {"admitted", "refused", "aborted"} /\ pc' = [pc EXCEPT ![r] = "idle"]
        /\ UNCHANGED <<tok, seen>> /\ Quiet
    BY <1>9 DEF Leave
  <2>1. \A u \in swept : Filling(u)' => Filling(u)
    BY <1>0, <2>0 DEF Filling, Storing, TypeOK, redisVars
  <2> QED BY <1>0, <1>5, <2>0, <2>1 DEF TypeOK
<1> QED BY <1>4, <1>6, <1>7, <1>8, <1>9 DEF RequestStep

\* A revocation changes its own variables, the rows and the keys.
LEMMA RevocationKeeps ==
  ASSUME IInv, NEW v \in Revokers,
         \/ \E t \in Tokens, service \in BOOLEAN : RevokeToken(v, t, service)
         \/ ListActive(v)
         \/ RevocationStep(v)
  PROVE  IInv'
<1>0. TypeOK /\ SweptStaysRefused /\ Backends
  BY DEF IInv
<1> DEFINE RevTypeOK == /\ vpc \in [Revokers -> {"idle", "update", "del", "publish", "redel"}]
                        /\ todo \in [Revokers -> SUBSET Tokens]
                        /\ publishes \in [Revokers -> BOOLEAN]
<1>1. ASSUME NEW next \in {"idle", "update", "del", "publish", "redel"},
             NEW tokens \in SUBSET Tokens, VGoto(v, next, tokens),
             publishes' \in [Revokers -> BOOLEAN]
      PROVE  RevTypeOK'
  BY <1>0, <1>1 DEF VGoto, TypeOK
<1>2. Return(v) => RevTypeOK'
  BY <1>0 DEF Return, TypeOK
<1>3. ASSUME RevTypeOK', UNCHANGED <<startVars, reqVars>>, SweptStaysRefused',
             row' \in [Tokens -> Rows], channel' \subseteq Tokens, swept' \subseteq Tokens,
             late' = late,
             entry' \in [Tokens -> [status : Status, left : 1..TTL] \cup {NoEntry}]
      PROVE  IInv'
  <2>1. StartTypeOK'
    BY <1>0, <1>3 DEF TypeOK, StartTypeOK, startVars
  <2>2. TypeOK'
    BY <1>0, <1>3, <2>1 DEF TypeOK, reqVars
  <2>3. Backends'
    BY <1>0, <1>3 DEF Backends, startVars, reqVars
  <2> QED BY <1>3, <2>2, <2>3 DEF IInv
<1>4. ASSUME UNCHANGED <<startVars, redisVars, reqVars, swept>>, RevTypeOK',
             row' \in [Tokens -> Rows], \A u \in swept : row'[u] = row[u]
      PROVE  IInv'
  <2>1. \A u \in Tokens : Filling(u)' <=> Filling(u)
    BY <1>4 DEF Filling, Storing, reqVars, redisVars
  <2>2. SweptStaysRefused'
    BY <1>0, <1>4, <2>1, SweptFrame DEF TypeOK, redisVars
  <2> QED BY <1>0, <1>3, <1>4, <2>2 DEF TypeOK, redisVars
<1>5. ASSUME NEW t \in Tokens, InvalidateToken(t), RevTypeOK',
             UNCHANGED <<startVars, row, late, channel, reqVars>>
      PROVE  IInv'
  <2>1. UNCHANGED <<row, late, pc, tok, seen>>
    BY <1>5 DEF reqVars
  <2> QED BY <1>0, <1>3, <1>5, <2>1, Invalidation DEF TypeOK
<1>6. ASSUME NEW t \in Tokens, NEW service \in BOOLEAN, RevokeToken(v, t, service) PROVE IInv'
  <2>1. row' \in [Tokens -> Rows] /\ \A u \in swept : row'[u] = row[u]
    BY <1>0, <1>6 DEF RevokeToken, Revocable, TypeOK, Rows, SweptStaysRefused
  <2>2. RevTypeOK'
    <3>1. CASE UNCHANGED revVars
      BY <1>0, <3>1 DEF revVars, TypeOK
    <3>2. CASE VGoto(v, "del", {t}) /\ publishes' = [publishes EXCEPT ![v] = service]
      <4>1. publishes' \in [Revokers -> BOOLEAN]
        BY <1>0, <3>2 DEF TypeOK
      <4> QED BY <1>1, <3>2, <4>1
    <3> QED BY <1>6, <3>1, <3>2 DEF RevokeToken
  <2> QED BY <1>4, <1>6, <2>1, <2>2 DEF RevokeToken
<1>7. ASSUME ListActive(v) PROVE IInv'
  <2>1. PICK listed \in SUBSET Tokens : VGoto(v, "update", listed)
    BY <1>7 DEF ListActive
  <2>2. RevTypeOK'
    BY <1>0, <1>1, <1>7, <2>1 DEF ListActive, TypeOK
  <2> QED BY <1>0, <1>4, <1>7, <2>2 DEF ListActive, TypeOK
<1>8. ASSUME UpdateAll(v) PROVE IInv'
  <2>1. row' \in [Tokens -> Rows] /\ \A u \in swept : row'[u] = row[u]
    BY <1>0, <1>8 DEF UpdateAll, Revocable, TypeOK, Rows, SweptStaysRefused
  <2>2. RevTypeOK'
    <3>1. CASE VGoto(v, "del", todo[v]) /\ UNCHANGED publishes
      <4>1. todo[v] \in SUBSET Tokens /\ publishes' \in [Revokers -> BOOLEAN]
        BY <1>0, <3>1 DEF TypeOK
      <4> QED BY <1>1, <3>1, <4>1
    <3> QED BY <1>2, <1>8, <3>1 DEF UpdateAll
  <2> QED BY <1>4, <1>8, <2>1, <2>2 DEF UpdateAll
<1>9. ASSUME NEW t \in Tokens, Del(v, t) PROVE IInv'
  <2>1. RevTypeOK'
    <3>1. ASSUME NEW next \in {"del", "publish"}, NEW tokens \in SUBSET Tokens,
                 VGoto(v, next, tokens), UNCHANGED publishes
          PROVE  RevTypeOK'
      BY <1>0, <1>1, <3>1 DEF TypeOK
    <3>2. {t} \in SUBSET Tokens /\ todo[v] \ {t} \in SUBSET Tokens
      BY <1>0 DEF TypeOK
    <3> QED BY <1>2, <1>9, <3>1, <3>2 DEF Del
  <2> QED BY <1>5, <1>9, <2>1 DEF Del
<1>10. ASSUME NEW t \in Tokens, Publish(v, t) PROVE IInv'
  <2>1. RevTypeOK'
    <3>1. CASE VGoto(v, "redel", {t}) /\ UNCHANGED publishes
      BY <1>0, <1>1, <3>1 DEF TypeOK
    <3> QED BY <1>2, <1>10, <3>1 DEF Publish
  <2>2. channel' \subseteq Tokens
    BY <1>0, <1>10 DEF Publish, TypeOK
  <2>3. SweptStaysRefused'
    BY <1>0, <1>10 DEF Publish, SweptStaysRefused, StaleSource, Filling, Storing, reqVars
  <2> QED BY <1>0, <1>3, <1>10, <2>1, <2>2, <2>3 DEF Publish, TypeOK
<1>11. ASSUME NEW t \in Tokens, Redel(v, t) PROVE IInv'
  BY <1>2, <1>5, <1>11 DEF Redel
<1> QED BY <1>6, <1>7, <1>8, <1>9, <1>10, <1>11 DEF RevocationStep

\* The subscriber, the other statements on the table, and time.
LEMMA EnvironmentKeeps ==
  ASSUME IInv,
         \/ \E t \in Tokens : HandleRevoked(t) \/ Create(t) \/ Expire(t)
         \/ LateSet \/ LoseMessages \/ DeleteBySubjectID \/ Tick
  PROVE  IInv'
<1>0. TypeOK /\ SweptStaysRefused /\ Backends
  BY DEF IInv
<1>1. ASSUME UNCHANGED <<startVars, reqVars, revVars>>, SweptStaysRefused',
             row' \in [Tokens -> Rows], channel' \subseteq Tokens, swept' \subseteq Tokens,
             late' \in [tok : Tokens, status : Status] \cup {NoSet},
             entry' \in [Tokens -> [status : Status, left : 1..TTL] \cup {NoEntry}]
      PROVE  IInv'
  <2>1. StartTypeOK'
    BY <1>0, <1>1 DEF TypeOK, StartTypeOK, startVars
  <2>2. TypeOK'
    BY <1>0, <1>1, <2>1 DEF TypeOK, reqVars, revVars
  <2>3. Backends'
    BY <1>0, <1>1 DEF Backends, startVars, reqVars
  <2> QED BY <1>1, <2>2, <2>3 DEF IInv
<1>2. ASSUME UNCHANGED <<late, reqVars>> PROVE \A u : Filling(u)' <=> Filling(u)
  BY <1>2 DEF Filling, Storing, reqVars
<1>3. ASSUME NEW t \in Tokens, HandleRevoked(t) PROVE IInv'
  <2>1. UNCHANGED <<row, late, pc, tok, seen>> /\ InvalidateToken(t)
    BY <1>3 DEF HandleRevoked, reqVars
  <2>2. channel' \subseteq Tokens
    BY <1>0, <1>3 DEF HandleRevoked, TypeOK
  <2> QED BY <1>0, <1>1, <1>3, <2>1, <2>2, Invalidation DEF HandleRevoked, TypeOK
<1>4. ASSUME NEW t \in Tokens, Create(t) \/ Expire(t) PROVE IInv'
  <2>1. row' \in [Tokens -> Rows] /\ \A u \in swept : row'[u] = row[u]
    BY <1>0, <1>4 DEF Create, Expire, TypeOK, Rows, SweptStaysRefused
  <2>2. UNCHANGED <<startVars, redisVars, reqVars, revVars, swept>>
    BY <1>4 DEF Create, Expire
  <2>3. SweptStaysRefused'
    BY <1>0, <1>2, <2>1, <2>2, SweptFrame DEF redisVars
  <2> QED BY <1>0, <1>1, <2>1, <2>2, <2>3 DEF TypeOK, redisVars
<1>5. ASSUME LoseMessages PROVE IInv'
  <2>1. SweptStaysRefused'
    BY <1>0, <1>2, <1>5, SweptFrame DEF LoseMessages
  <2> QED BY <1>0, <1>1, <1>5, <2>1 DEF LoseMessages, TypeOK
<1>6. ASSUME DeleteBySubjectID PROVE IInv'
  <2>1. SweptStaysRefused' /\ row' \in [Tokens -> Rows] /\ swept' \subseteq Tokens
    BY <1>6 DEF DeleteBySubjectID, SweptStaysRefused, Rows
  <2> QED BY <1>0, <1>1, <1>6, <2>1 DEF DeleteBySubjectID, TypeOK, redisVars
<1>7. ASSUME Tick PROVE IInv'
  <2>0. NoEntry.left = 0 /\ NoEntry.status # "active"
    BY DEF NoEntry
  <2>1. ASSUME NEW t \in Tokens
        PROVE  /\ entry'[t] \in [status : Status, left : 1..TTL] \cup {NoEntry}
               /\ entry'[t].status = "active" => entry[t].status = "active"
    <3>1. CASE entry[t].left > 1
      <4>1. entry[t] \in [status : Status, left : 1..TTL]
        BY <1>0, <2>0, <3>1 DEF TypeOK
      <4>2. entry'[t] = [entry[t] EXCEPT !.left = @ - 1]
        BY <1>7, <3>1 DEF Tick
      <4>3. [entry[t] EXCEPT !.left = @ - 1] \in [status : Status, left : 1..TTL]
        BY <3>1, <4>1, TokenStatusAssumption
      <4>4. [entry[t] EXCEPT !.left = @ - 1].status = entry[t].status
        BY <4>1
      <4> QED BY <4>2, <4>3, <4>4
    <3>2. CASE ~(entry[t].left > 1)
      <4>1. entry'[t] = NoEntry
        BY <1>7, <3>2 DEF Tick
      <4> QED BY <2>0, <4>1
    <3> QED BY <3>1, <3>2
  <2>2. entry' \in [Tokens -> [status : Status, left : 1..TTL] \cup {NoEntry}]
    BY <1>7, <2>1 DEF Tick
  <2>3. SweptStaysRefused'
    BY <1>0, <1>2, <1>7, <2>1, SweptFrame DEF Tick, TypeOK
  <2> QED BY <1>0, <1>1, <1>7, <2>2, <2>3 DEF Tick, TypeOK
<1>8. ASSUME LateSet PROVE IInv'
  <2>0. late \in [tok : Tokens, status : Status]
    BY <1>0, <1>8 DEF LateSet, TypeOK
  <2>1. late' = NoSet /\ NoSet.status # "active"
    BY <1>8 DEF LateSet, NoSet
  <2>2. entry' \in [Tokens -> [status : Status, left : 1..TTL] \cup {NoEntry}]
    <3>1. [status |-> late.status, left |-> TTL] \in [status : Status, left : 1..TTL]
      BY <2>0, TokenStatusAssumption
    <3> QED BY <1>0, <1>8, <2>0, <3>1 DEF LateSet, TypeOK
  <2>3. ASSUME NEW u \in swept, entry'[u].status = "active" PROVE entry[u].status = "active"
    <3>1. u \in Tokens /\ ~(late.tok = u /\ late.status = "active")
      BY <1>0 DEF TypeOK, SweptStaysRefused, StaleSource, Filling
    <3>2. CASE UNCHANGED entry
      BY <2>3, <3>2
    <3>3. CASE entry' = [entry EXCEPT ![late.tok] = [status |-> late.status, left |-> TTL]]
      BY <1>0, <2>3, <3>1, <3>3 DEF TypeOK
    <3> QED BY <1>8, <3>2, <3>3 DEF LateSet
  <2>4. \A u \in swept : Filling(u)' => Filling(u)
    BY <1>8, <2>1 DEF LateSet, Filling, Storing, reqVars
  <2>5. SweptStaysRefused'
    BY <1>0, <1>8, <2>3, <2>4, SweptFrame DEF LateSet
  <2> QED BY <1>0, <1>1, <1>8, <2>1, <2>2, <2>5 DEF LateSet, TypeOK
<1> QED BY <1>3, <1>4, <1>5, <1>6, <1>7, <1>8

--------------------------------------------------------------------------------
\* The inductive invariant of token verification.
THEOREM Invariance == Spec => []IInv
<1>1. Init => IInv
  <2> SUFFICES ASSUME Init PROVE IInv
    OBVIOUS
  <2>1. FirstToken \in Tokens
    BY TokenStatusAssumption DEF FirstToken
  <2>2. TypeOK
    BY <2>1 DEF Init, StartInit, TypeOK, StartTypeOK, Envs, Phases, Workers, Rows, Status
  <2>3. SweptStaysRefused
    BY DEF Init, SweptStaysRefused
  <2>4. Backends
    BY DEF Init, StartInit, Backends, Ended
  <2> QED BY <2>2, <2>3, <2>4 DEF IInv
<1>2. IInv /\ [Next]_vars => IInv'
  <2> SUFFICES ASSUME IInv, [Next]_vars PROVE IInv'
    OBVIOUS
  <2>1. CASE UNCHANGED vars
    BY <2>1 DEF vars, startVars, redisVars, reqVars, revVars, IInv, TypeOK, StartTypeOK,
       SweptStaysRefused, StaleSource, Filling, Storing, Backends
  <2>2. CASE Next
    BY <2>2, ProcessKeeps, RequestKeeps, RevocationKeeps, EnvironmentKeeps DEF Next
  <2> QED BY <2>1, <2>2
<1> QED BY <1>1, <1>2, PTL DEF Spec

\* The process, the table, Redis, the requests and the revocations keep their types.
THEOREM TypeCorrect == Spec => []TypeOK
<1>1. IInv => TypeOK
  BY DEF IInv
<1> QED BY <1>1, Invariance, PTL

\* A revoked token whose key was deleted with no fill under way stays refused.
THEOREM SweptTokensStayOut == Spec => []SweptStaysRefused
<1>1. IInv => SweptStaysRefused
  BY DEF IInv
<1> QED BY <1>1, Invariance, PTL

\* In production no request passes in a process that lacks a backend.
THEOREM ProductionFailsClosed == Spec => ProdFailsClosed
<1> DEFINE Closed == \A r \in Reqs :
             env = "prod" /\ pc[r] # "admitted" /\ pc'[r] = "admitted" => db /\ redis
<1>1. IInv /\ [Next]_vars => [Closed]_vars
  <2> SUFFICES ASSUME IInv, Next, NEW r \in Reqs,
                      env = "prod", pc[r] # "admitted", pc'[r] = "admitted"
               PROVE  db /\ redis
    BY DEF vars
  <2>0. TypeOK /\ Backends
    BY DEF IInv
  <2>1. CASE pc[r] \in {"get", "read", "set"}
    BY <2>0, <2>1 DEF Backends
  <2>2. CASE pc[r] \notin {"get", "read", "set"}
    <3>1. ASSUME NEW q \in Reqs, RequestStep(q) \/ Leave(q) PROVE FALSE
      <4>1. q # r => pc'[r] = pc[r]
        BY <2>0, <3>1 DEF RequestStep, GetCached, ReadStatus, StoreStatus, Leave, Goto, Answer, TypeOK
      <4>2. CASE q = r
        BY <2>0, <2>2, <3>1, <4>2 DEF RequestStep, GetCached, ReadStatus, StoreStatus, Leave, TypeOK
      <4> QED BY <4>1, <4>2
    <3>2. ASSUME NEW q \in Reqs, NEW t \in Tokens, NEW valid \in BOOLEAN, Arrive(q, t, valid) PROVE FALSE
      <4>1. db
        BY <2>0, <3>2 DEF Arrive, Backends
      <4> QED BY <2>0, <3>2, <4>1 DEF Arrive, Answer, TypeOK
    <3>3. ASSUME ProcessStep PROVE FALSE
      BY <3>3 DEF ProcessStep, NoRequests, reqVars
    <3>4. ASSUME UNCHANGED pc PROVE FALSE
      BY <3>4
    <3>5. \/ ProcessStep
          \/ \E q \in Reqs, t \in Tokens, valid \in BOOLEAN : Arrive(q, t, valid)
          \/ \E q \in Reqs : RequestStep(q) \/ Leave(q)
          \/ UNCHANGED pc
      BY DEF Next, RevokeToken, ListActive, RevocationStep, UpdateAll, Del, Publish, Redel,
         HandleRevoked, Create, Expire, LateSet, LoseMessages, DeleteBySubjectID, Tick, reqVars
    <3> QED BY <3>1, <3>2, <3>3, <3>4, <3>5
  <2> QED BY <2>1, <2>2
<1> QED BY <1>1, Invariance, PTL DEF Spec, ProdFailsClosed

================================================================================
