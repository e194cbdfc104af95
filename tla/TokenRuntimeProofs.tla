--------------------------- MODULE TokenRuntimeProofs ---------------------------
(***************************************************************************)
(* Proofs about TokenRuntime, for any number of tokens, keys, requests and *)
(* any clock bound: the facts about the store alone, which hold for every  *)
(* step of it (StoreNext), whoever takes the step; the inductive invariant *)
(* of the requests; and the theorems.                                      *)
(***************************************************************************)
EXTENDS TokenRuntime, TLAPS

\* What a request holds at each point of its handler.
RequestOK(r) ==
  /\ pc[r] = "idle" => call[r] = NoCall /\ tok[r] = NoToken /\ out[r] = "none"
  /\ pc[r] = "issue" => /\ call[r].kind = "issue" /\ call[r].key \in Keys
                        /\ call[r].arg \in Input /\ call[r].arrived = "live"
                        /\ tok[r] = NoToken /\ out[r] = "none"
  /\ pc[r] = "refresh" => call[r].arg \in RefreshBody
  /\ pc[r] \in {"refresh", "revoke", "resolve"} => call[r].kind # "issue" /\ out[r] = "none"
  /\ out[r] = "issued" => call[r].kind = "issue"
  /\ call[r].kind = "issue" /\ tok[r] # NoToken => out[r] = "issued"

RequestInv == \A r \in Reqs : RequestOK(r)

\* Keys and tokens: the strengthening of OneTokenPerKey.
KeyInv ==
  /\ \A t \in Tokens : Found(t) => \E k \in Keys : idemToken[k] = t
  /\ \A j, k \in Keys : idemToken[j] = idemToken[k] /\ idemToken[j] # NoToken => j = k
  /\ \A k \in Keys : idemToken[k] # NoToken => Found(idemToken[k])
  /\ \A r \in Reqs : out[r] = "issued" =>
       /\ call[r].key \in Keys
       /\ tok[r] \in Tokens
       /\ tok[r] = idemToken[call[r].key]
       /\ call[r].arg = idemHash[call[r].key]

\* Requests for a dead token: the strengthening of DeadTokenUnusable.
DeadOK(r) ==
  call[r].arrived = "dead" =>
    /\ tok[r] \in Tokens
    /\ Dead(tok[r])
    /\ out[r] \notin {"admitted", "active", "refreshed"}

DeadInv == \A r \in Reqs : DeadOK(r)

Rooted(t) == \E i \in audit : i.kind = "issue" /\ i.code = "issued" /\ i.tok = t

\* Audit: the strengthening of AuditTrailRooted.
AuditInv ==
  /\ \A e \in audit : e.tok # NoToken => Rooted(e.tok)
  /\ \A r \in Reqs : pc[r] = "done" /\ out[r] = "issued" => Rooted(tok[r])
  /\ \A r \in Reqs : call[r].kind # "issue" /\ tok[r] # NoToken => Rooted(tok[r])

IInv == TypeOK /\ RequestInv /\ KeyInv /\ DeadInv /\ AuditInv

--------------------------------------------------------------------------------
\* The store operations preserve the types of the store.
LEMMA StoreTyping == StoreTypeOK /\ StoreNext => StoreTypeOK'
<1> SUFFICES ASSUME StoreTypeOK, StoreNext PROVE StoreTypeOK'
  OBVIOUS
<1> USE TokenStoreAssumption DEF StoreTypeOK, TokenStatus
<1>1. CASE Tick
  BY <1>1 DEF Tick
<1>2. ASSUME NEW t \in Tokens \cup {NoToken}, Read(t) PROVE StoreTypeOK'
  BY <1>2 DEF Read, Found, ApplyExpiry
<1>3. ASSUME NEW t \in Tokens \cup {NoToken}, Revoke(t) PROVE StoreTypeOK'
  BY <1>3 DEF Revoke, Found
<1>4. ASSUME NEW t \in Tokens \cup {NoToken}, NEW ttl \in Nat, Refresh(t, ttl) PROVE StoreTypeOK'
  <2>1. status' \in [Tokens -> TokenStatus]
    BY <1>4 DEF Refresh, Found, ApplyExpiry
  <2>2. expiresAt' \in [Tokens -> Nat]
    BY <1>4 DEF Refresh, RefreshAccepted, Found
  <2> QED BY <1>4, <2>1, <2>2 DEF Refresh
<1>5. ASSUME NEW k \in Keys, NEW in \in Input, NEW t \in Tokens, NEW issuedAt \in Nat,
             Save(k, in, t, issuedAt)
      PROVE StoreTypeOK'
  <2>1. in.ttl \in Nat /\ in.holder \in Holders
    BY DEF Input
  <2> QED BY <1>5, <2>1 DEF Save
<1> QED BY <1>1, <1>2, <1>3, <1>4, <1>5 DEF StoreNext

\* No operation brings a dead token back: revocation overwrites the status for
\* good, and an expiry that has passed is applied before anything is accepted.
LEMMA DeadIsStable ==
  ASSUME StoreTypeOK, StoreNext, NEW t \in Tokens, Dead(t)
  PROVE  Dead(t)'
<1> USE TokenStoreAssumption DEF StoreTypeOK, TokenStatus, Dead
<1>1. CASE Tick
  BY <1>1 DEF Tick
<1>2. ASSUME NEW u \in Tokens \cup {NoToken}, Read(u) PROVE Dead(t)'
  BY <1>2 DEF Read, Found, ApplyExpiry
<1>3. ASSUME NEW u \in Tokens \cup {NoToken}, Revoke(u) PROVE Dead(t)'
  BY <1>3 DEF Revoke, Found
<1>4. ASSUME NEW u \in Tokens \cup {NoToken}, NEW ttl \in Nat, Refresh(u, ttl) PROVE Dead(t)'
  BY <1>4 DEF Refresh, RefreshAccepted, Found, ApplyExpiry
<1>5. ASSUME NEW k \in Keys, NEW in \in Input, NEW u \in Tokens, NEW issuedAt \in Nat,
             Save(k, in, u, issuedAt)
      PROVE Dead(t)'
  BY <1>5 DEF Save
<1> QED BY <1>1, <1>2, <1>3, <1>4, <1>5 DEF StoreNext

\* A step of the store is a step of the abstract lifecycle, or leaves every life
\* as it is.
LEMMA LifeStep == StoreTypeOK /\ StoreNext => [Life!Next]_LifeMap
<1> SUFFICES ASSUME StoreTypeOK, StoreNext PROVE Life!Next \/ LifeMap' = LifeMap
  OBVIOUS
<1> USE TokenStoreAssumption DEF StoreTypeOK, TokenStatus
<1>1. ASSUME NEW k \in Keys, NEW in \in Input, NEW t \in Tokens, NEW issuedAt \in Nat,
             Save(k, in, t, issuedAt)
      PROVE Life!Birth(t)
  <2>1. LifeMap[t] = "unissued"
    BY <1>1 DEF Save, LifeMap
  <2>2. \E l \in {"live", "dead"} : LifeMap' = [LifeMap EXCEPT ![t] = l]
    <3>1. CASE Dead(t)'
      <4>1. LifeMap' = [LifeMap EXCEPT ![t] = "dead"]
        BY <1>1, <3>1 DEF Save, LifeMap, Dead
      <4> QED BY <4>1
    <3>2. CASE ~Dead(t)'
      <4>1. LifeMap' = [LifeMap EXCEPT ![t] = "live"]
        BY <1>1, <3>2 DEF Save, LifeMap, Dead
      <4> QED BY <4>1
    <3> QED BY <3>1, <3>2
  <2> QED BY <2>1, <2>2 DEF Life!Birth
<1>2. ASSUME \A t \in Tokens : status'[t] = "none" <=> status[t] = "none"
      PROVE  Life!Death({t \in Tokens : LifeMap[t] = "live" /\ LifeMap'[t] = "dead"})
  <2> DEFINE S == {t \in Tokens : LifeMap[t] = "live" /\ LifeMap'[t] = "dead"}
  <2>1. ASSUME NEW t \in Tokens
        PROVE LifeMap'[t] = IF t \in S THEN "dead" ELSE LifeMap[t]
    <3>1. Dead(t) => Dead(t)'
      BY DeadIsStable
    <3> QED BY <1>2, <3>1 DEF LifeMap
  <2>2. LifeMap' = [t \in Tokens |-> IF t \in S THEN "dead" ELSE LifeMap[t]]
    <3>1. LifeMap' = [t \in Tokens |-> LifeMap'[t]]
      BY DEF LifeMap
    <3> HIDE DEF S
    <3> QED BY <2>1, <3>1
  <2> QED BY <2>2 DEF Life!Death
<1>3. CASE \A t \in Tokens : status'[t] = "none" <=> status[t] = "none"
  <2>1. {t \in Tokens : LifeMap[t] = "live" /\ LifeMap'[t] = "dead"} \in SUBSET Tokens
    OBVIOUS
  <2> QED BY <1>2, <1>3, <2>1 DEF Life!Next
<1>4. CASE ~\A t \in Tokens : status'[t] = "none" <=> status[t] = "none"
  <2>1. PICK k \in Keys, in \in Input, t \in Tokens, issuedAt \in Nat : Save(k, in, t, issuedAt)
    BY <1>4 DEF StoreNext, Tick, Read, Revoke, Refresh, Found, ApplyExpiry
  <2> QED BY <1>1, <2>1 DEF Life!Next
<1> QED BY <1>3, <1>4

--------------------------------------------------------------------------------
\* The enumerated values, so that proofs about requests need not unfold the sets.
LEMMA Enumerations ==
  /\ {"idle", "issue", "refresh", "revoke", "resolve", "audit", "done"} \subseteq Pcs
  /\ {"none", "issue", "refresh", "revoke", "introspect", "auth"} \subseteq Kinds
  /\ {"none", "bad_request", "issued", "conflict", "refreshed", "not_found", "not_active",
      "revoked", "active", "expired", "invalid", "missing_bearer", "query_key", "inactive",
      "denied", "admitted"} \subseteq Outs
BY DEF Pcs, Kinds, Outs

\* A client can only send ids of the store, or one that was never issued.
LEMMA SendableTokens == TypeOK => Sendable \subseteq Tokens \cup {NoToken}
BY DEF TypeOK, Sendable, Delivered

\* A step of the runtime changes the store by one of its operations, or not at all.
LEMMA NextIsStoreStep == TypeOK /\ RequestInv /\ [Next]_vars => StoreNext \/ UNCHANGED storeVars
<1> SUFFICES ASSUME TypeOK, RequestInv, [Next]_vars PROVE StoreNext \/ UNCHANGED storeVars
  OBVIOUS
<1> USE TokenStoreAssumption
<1>0. Sendable \subseteq Tokens \cup {NoToken}
  BY SendableTokens
<1>1. CASE TickStep
  BY <1>1 DEF TickStep, StoreNext
<1>2. ASSUME NEW r \in Reqs,
             BadRequest(r) \/ PrepareIssue(r) \/ RejectEarly(r) \/ Verify(r) \/ EmitAudit(r)
      PROVE UNCHANGED storeVars
  BY <1>2 DEF BadRequest, PrepareIssue, RejectEarly, Verify, EmitAudit
<1>3. ASSUME NEW r \in Reqs, CommitIssue(r) PROVE StoreNext \/ UNCHANGED storeVars
  <2>1. call[r].key \in Keys /\ call[r].arg \in Input /\ call[r].at \in Nat
    BY <1>3 DEF CommitIssue, RequestInv, RequestOK, TypeOK, Call
  <2> QED BY <1>3, <2>1 DEF CommitIssue, StoreNext
<1>4. ASSUME NEW r \in Reqs, LookupRefresh(r) \/ LookupRevoke(r) \/ Introspect(r)
      PROVE StoreNext
  BY <1>0, <1>4 DEF LookupRefresh, LookupRevoke, Introspect, StoreNext
<1>5. ASSUME NEW r \in Reqs, CommitRefresh(r) PROVE StoreNext
  <2>1. tok[r] \in Tokens \cup {NoToken} /\ call[r].arg.ttl \in Nat
    BY <1>5 DEF CommitRefresh, TypeOK, RequestInv, RequestOK, RefreshBody
  <2> QED BY <1>5, <2>1 DEF CommitRefresh, StoreNext
<1>6. ASSUME NEW r \in Reqs, CommitRevoke(r) \/ Resolve(r) PROVE StoreNext
  <2>1. tok[r] \in Tokens \cup {NoToken}
    BY DEF TypeOK
  <2> QED BY <1>6, <2>1 DEF CommitRevoke, Resolve, StoreNext
<1>7. CASE UNCHANGED vars
  BY <1>7 DEF vars
<1> QED BY <1>1, <1>2, <1>3, <1>4, <1>5, <1>6, <1>7 DEF Next

\* The arrival of a request leaves its call and its token well typed.
LEMMA ArriveTyping ==
  ASSUME TypeOK, NEW r \in Reqs, NEW kind \in Kinds, NEW key \in Keys \cup {NoInput},
         NEW arg \in Input \cup RefreshBody \cup Routes \cup {NoInput},
         NEW t \in Tokens \cup {NoToken}, Arrive(r, kind, key, arg, t)
  PROVE  call' \in [Reqs -> Call] /\ tok' \in [Reqs -> Tokens \cup {NoToken}]
<1>1. [kind |-> kind, key |-> key, arg |-> arg, at |-> clock,
        arrived |-> IF t \in Tokens /\ Dead(t) THEN "dead" ELSE "live"] \in Call
  BY DEF Call, TypeOK, StoreTypeOK
<1> QED BY <1>1 DEF Arrive, TypeOK

\* A request that goes on or is answered keeps the types.
LEMMA GotoTyping ==
  ASSUME TypeOK, NEW r \in Reqs, NEW next \in Pcs, NEW o \in Outs, Goto(r, next, o)
  PROVE  pc' \in [Reqs -> Pcs] /\ out' \in [Reqs -> Outs]
BY DEF Goto, TypeOK

\* Every step preserves the type invariant.
LEMMA Typing == TypeOK /\ RequestInv /\ [Next]_vars => TypeOK'
<1> SUFFICES ASSUME TypeOK, RequestInv, [Next]_vars PROVE TypeOK'
  OBVIOUS
<1> USE TokenStoreAssumption
<1>1. StoreTypeOK'
  <2>1. CASE StoreNext
    BY <2>1, StoreTyping DEF TypeOK
  <2>2. CASE UNCHANGED storeVars
    BY <2>2 DEF TypeOK, StoreTypeOK, storeVars
  <2> QED BY <2>1, <2>2, NextIsStoreStep
<1> DEFINE RequestsOK == /\ pc' \in [Reqs -> Pcs] /\ call' \in [Reqs -> Call]
                         /\ tok' \in [Reqs -> Tokens \cup {NoToken}]
                         /\ out' \in [Reqs -> Outs] /\ audit' \in SUBSET Event
<1>2. CASE TickStep
  BY <1>1, <1>2 DEF TickStep, TypeOK, reqVars
<1>3. CASE UNCHANGED vars
  BY <1>1, <1>3 DEF vars, TypeOK, reqVars
<1>4. ASSUME NEW r \in Reqs,
             BadRequest(r) \/ PrepareIssue(r) \/ CommitIssue(r) \/ LookupRefresh(r)
               \/ CommitRefresh(r) \/ LookupRevoke(r) \/ CommitRevoke(r) \/ Introspect(r)
               \/ RejectEarly(r) \/ Verify(r) \/ Resolve(r) \/ EmitAudit(r)
      PROVE RequestsOK
  <2>0. /\ Sendable \subseteq Tokens \cup {NoToken}
        /\ audit \in SUBSET Event /\ call \in [Reqs -> Call]
        /\ tok \in [Reqs -> Tokens \cup {NoToken}] /\ out[r] \in Outs
    BY SendableTokens DEF TypeOK
  <2> USE Enumerations
  <2>1. CASE BadRequest(r)
    BY <2>0, <2>1, ArriveTyping, GotoTyping DEF BadRequest
  <2>2. CASE PrepareIssue(r)
    BY <2>0, <2>2, ArriveTyping, GotoTyping DEF PrepareIssue
  <2>3. CASE CommitIssue(r)
    <3>1. idemToken[call[r].key] \in Tokens \cup {NoToken}
      BY <2>3 DEF CommitIssue, TypeOK, StoreTypeOK, RequestInv, RequestOK
    <3>2. pc' \in [Reqs -> Pcs] /\ out' \in [Reqs -> Outs]
      BY <2>3, GotoTyping DEF CommitIssue
    <3> QED BY <2>0, <2>3, <3>1, <3>2 DEF CommitIssue
  <2>4. CASE LookupRefresh(r)
    BY <2>0, <2>4, ArriveTyping, GotoTyping DEF LookupRefresh
  <2>5. CASE CommitRefresh(r)
    BY <2>0, <2>5, GotoTyping DEF CommitRefresh
  <2>6. CASE LookupRevoke(r)
    BY <2>0, <2>6, ArriveTyping, GotoTyping DEF LookupRevoke
  <2>7. CASE CommitRevoke(r)
    BY <2>0, <2>7, GotoTyping DEF CommitRevoke
  <2>8. CASE Introspect(r)
    <3>1. \A t \in Sendable : Found(t) => ApplyExpiry(t) \in Outs
      BY DEF Found, ApplyExpiry, TypeOK, StoreTypeOK, TokenStatus
    <3> QED BY <2>0, <2>8, <3>1, ArriveTyping, GotoTyping DEF Introspect
  <2>9. CASE RejectEarly(r)
    BY <2>0, <2>9, ArriveTyping, GotoTyping DEF RejectEarly
  <2>10. CASE Verify(r)
    BY <2>0, <2>10, ArriveTyping, GotoTyping DEF Verify
  <2>11. CASE Resolve(r)
    BY <2>0, <2>11, GotoTyping DEF Resolve
  <2>12. CASE EmitAudit(r)
    <3>1. EventOf(r) \in Event
      BY <2>0 DEF EventOf, Event, Call
    <3> QED BY <2>0, <2>12, <3>1, GotoTyping DEF EmitAudit
  <2> QED BY <1>4, <2>1, <2>2, <2>3, <2>4, <2>5, <2>6, <2>7, <2>8, <2>9, <2>10, <2>11, <2>12
<1> QED BY <1>1, <1>2, <1>3, <1>4 DEF Next, TypeOK

\* Every step preserves what the requests hold.
LEMMA RequestStep == TypeOK /\ RequestInv /\ [Next]_vars => RequestInv'
<1> SUFFICES ASSUME TypeOK, RequestInv, [Next]_vars, NEW q \in Reqs PROVE RequestOK(q)'
  BY DEF RequestInv
<1>0. RequestOK(q)
  BY DEF RequestInv
<1>1. CASE TickStep \/ UNCHANGED vars
  BY <1>0, <1>1 DEF TickStep, vars, reqVars, RequestOK
<1>2. ASSUME NEW r \in Reqs,
             BadRequest(r) \/ PrepareIssue(r) \/ CommitIssue(r) \/ LookupRefresh(r)
               \/ CommitRefresh(r) \/ LookupRevoke(r) \/ CommitRevoke(r) \/ Introspect(r)
               \/ RejectEarly(r) \/ Verify(r) \/ Resolve(r) \/ EmitAudit(r)
      PROVE RequestOK(q)'
  <2> USE <1>0 DEF RequestOK, TypeOK
  <2>1. CASE BadRequest(r)
    BY <2>1 DEF BadRequest, Goto, Arrive
  <2>2. CASE PrepareIssue(r)
    BY <2>2, TokenStoreAssumption DEF PrepareIssue, Goto, Arrive
  <2>3. CASE CommitIssue(r)
    BY <2>3 DEF CommitIssue, Goto
  <2>4. CASE LookupRefresh(r)
    BY <2>4 DEF LookupRefresh, Goto, Arrive
  <2>5. CASE CommitRefresh(r)
    BY <2>5 DEF CommitRefresh, Goto
  <2>6. CASE LookupRevoke(r)
    BY <2>6 DEF LookupRevoke, Goto, Arrive
  <2>7. CASE CommitRevoke(r)
    BY <2>7 DEF CommitRevoke, Goto
  <2>8. CASE Introspect(r)
    <3>1. \A t \in Sendable : Found(t) => ApplyExpiry(t) # "issued"
      BY DEF Found, ApplyExpiry, StoreTypeOK, TokenStatus
    <3> QED BY <2>8, <3>1 DEF Introspect, Goto, Arrive
  <2>9. CASE RejectEarly(r)
    BY <2>9 DEF RejectEarly, Goto, Arrive
  <2>10. CASE Verify(r)
    BY <2>10 DEF Verify, Goto, Arrive
  <2>11. CASE Resolve(r)
    BY <2>11 DEF Resolve, Goto
  <2>12. CASE EmitAudit(r)
    BY <2>12 DEF EmitAudit, Goto
  <2> QED BY <1>2, <2>1, <2>2, <2>3, <2>4, <2>5, <2>6, <2>7, <2>8, <2>9, <2>10, <2>11, <2>12
<1> QED BY <1>1, <1>2 DEF Next

\* Only CommitIssue binds keys and gives out tokens: after any other step the
\* keys are what they were and so is every answer that names a token.
LEMMA OnlyCommitIssueIssues ==
  ASSUME TypeOK, RequestInv, [Next]_vars, \A r \in Reqs : ~CommitIssue(r)
  PROVE  /\ UNCHANGED <<idemToken, idemHash>>
         /\ \A t \in Tokens : Found(t)' <=> Found(t)
         /\ \A q \in Reqs : out'[q] = "issued" =>
              out[q] = "issued" /\ call'[q] = call[q] /\ tok'[q] = tok[q]
<1>1. UNCHANGED <<idemToken, idemHash>>
  BY DEF Next, TickStep, Tick, BadRequest, PrepareIssue, LookupRefresh, CommitRefresh,
         LookupRevoke, CommitRevoke, Introspect, RejectEarly, Verify, Resolve, EmitAudit,
         Read, Refresh, Revoke, storeVars, vars
<1>2. ASSUME NEW t \in Tokens PROVE Found(t)' <=> Found(t)
  <2>1. CASE UNCHANGED status
    BY <2>1 DEF Found
  <2>2. ASSUME NEW u, Read(u) PROVE Found(t)' <=> Found(t)
    BY <2>2 DEF Read, Found, ApplyExpiry, TypeOK, StoreTypeOK
  <2>3. ASSUME NEW u, NEW ttl, Refresh(u, ttl) PROVE Found(t)' <=> Found(t)
    BY <2>3 DEF Refresh, Found, ApplyExpiry, TypeOK, StoreTypeOK
  <2>4. ASSUME NEW u, Revoke(u) PROVE Found(t)' <=> Found(t)
    BY <2>4 DEF Revoke, Found, TypeOK, StoreTypeOK
  <2> QED BY <2>1, <2>2, <2>3, <2>4
          DEF Next, TickStep, Tick, BadRequest, PrepareIssue, LookupRefresh, CommitRefresh,
              LookupRevoke, CommitRevoke, Introspect, RejectEarly, Verify, Resolve, EmitAudit,
              storeVars, vars
<1>3. ASSUME NEW q \in Reqs, out'[q] = "issued"
      PROVE  out[q] = "issued" /\ call'[q] = call[q] /\ tok'[q] = tok[q]
  <2> USE <1>3 DEF TypeOK, Goto
  <2>1. CASE TickStep \/ UNCHANGED vars
    BY <2>1 DEF TickStep, vars, reqVars
  <2>2. ASSUME NEW r \in Reqs, BadRequest(r) \/ PrepareIssue(r) \/ LookupRefresh(r)
                                 \/ LookupRevoke(r) \/ RejectEarly(r) \/ Verify(r)
        PROVE  out[q] = "issued" /\ call'[q] = call[q] /\ tok'[q] = tok[q]
    BY <2>2 DEF BadRequest, PrepareIssue, LookupRefresh, LookupRevoke, RejectEarly, Verify, Arrive
  <2>3. ASSUME NEW r \in Reqs, Introspect(r)
        PROVE  out[q] = "issued" /\ call'[q] = call[q] /\ tok'[q] = tok[q]
    <3>1. \A t \in Sendable : Found(t) => ApplyExpiry(t) # "issued"
      BY DEF Found, ApplyExpiry, StoreTypeOK, TokenStatus
    <3> QED BY <2>3, <3>1 DEF Introspect, Arrive
  <2>4. ASSUME NEW r \in Reqs, CommitRefresh(r) \/ CommitRevoke(r) \/ Resolve(r) \/ EmitAudit(r)
        PROVE  out[q] = "issued" /\ call'[q] = call[q] /\ tok'[q] = tok[q]
    BY <2>4 DEF CommitRefresh, CommitRevoke, Resolve, EmitAudit
  <2> QED BY <2>1, <2>2, <2>3, <2>4 DEF Next
<1> QED BY <1>1, <1>2, <1>3

\* Every step preserves the binding of keys, tokens and answers.
LEMMA KeyStep == TypeOK /\ RequestInv /\ KeyInv /\ [Next]_vars => KeyInv'
<1> SUFFICES ASSUME TypeOK, RequestInv, KeyInv, [Next]_vars PROVE KeyInv'
  OBVIOUS
<1>1. CASE \A r \in Reqs : ~CommitIssue(r)
  <2>1. /\ UNCHANGED <<idemToken, idemHash>>
        /\ \A t \in Tokens : Found(t)' <=> Found(t)
        /\ \A q \in Reqs : out'[q] = "issued" =>
              out[q] = "issued" /\ call'[q] = call[q] /\ tok'[q] = tok[q]
    BY <1>1, OnlyCommitIssueIssues
  <2>2. \A k \in Keys : idemToken[k] # NoToken => idemToken[k] \in Tokens
    BY DEF TypeOK, StoreTypeOK
  <2> QED BY <2>1, <2>2 DEF KeyInv
<1>2. ASSUME NEW r \in Reqs, CommitIssue(r) PROVE KeyInv'
  <2> DEFINE k == call[r].key
             in == call[r].arg
  <2>0. k \in Keys /\ in \in Input /\ pc[r] = "issue" /\ call' = call
    BY <1>2 DEF CommitIssue, RequestInv, RequestOK
  <2>1. CASE IssueConflict(k, in) /\ Goto(r, "audit", "conflict") /\ UNCHANGED <<storeVars, tok>>
    BY <2>0, <2>1 DEF KeyInv, Goto, TypeOK, storeVars, Found
  <2>2. CASE /\ IssueReplay(k, in) /\ Goto(r, "audit", "issued")
             /\ tok' = [tok EXCEPT ![r] = idemToken[k]] /\ UNCHANGED storeVars
    <3>1. idemToken[k] \in Tokens /\ in = idemHash[k]
      BY <2>0, <2>2, TokenStoreAssumption DEF IssueReplay, IssueConflict, KeyTaken, Found
    <3> QED BY <2>0, <2>2, <3>1 DEF KeyInv, Goto, TypeOK, storeVars, Found
  <2>3. ASSUME NEW t \in Tokens, IssueNew(k, in), Goto(r, "audit", "issued"),
               Save(k, in, t, call[r].at), tok' = [tok EXCEPT ![r] = t]
        PROVE KeyInv'
    <3>1. idemToken[k] = NoToken
      BY <2>0, <2>3 DEF IssueNew, KeyTaken, KeyInv
    <3>2. /\ idemToken' = [idemToken EXCEPT ![k] = t]
          /\ idemHash' = [idemHash EXCEPT ![k] = in]
          /\ \A u \in Tokens : Found(u)' <=> Found(u) \/ u = t
          /\ ~Found(t)
      BY <2>3 DEF Save, Found, TypeOK, StoreTypeOK
    <3>3. \A j \in Keys : idemToken[j] # t
      BY <3>2, TokenStoreAssumption DEF KeyInv
    <3>4. idemToken \in [Keys -> Tokens \cup {NoToken}] /\ idemHash \in [Keys -> Input \cup {NoInput}]
      BY DEF TypeOK, StoreTypeOK
    <3>5. \A u \in Tokens : Found(u)' => \E j \in Keys : idemToken'[j] = u
      BY <2>0, <3>1, <3>2, <3>4, TokenStoreAssumption DEF KeyInv
    <3>6. \A i, j \in Keys : idemToken'[i] = idemToken'[j] /\ idemToken'[i] # NoToken => i = j
      BY <2>0, <3>2, <3>3, <3>4 DEF KeyInv
    <3>7. \A j \in Keys : idemToken'[j] # NoToken => idemToken'[j] \in Tokens /\ Found(idemToken[j])'
      <4> SUFFICES ASSUME NEW j \in Keys, idemToken'[j] # NoToken
                   PROVE  idemToken'[j] \in Tokens /\ Found(idemToken[j])'
        OBVIOUS
      <4>1. idemToken'[j] \in Tokens
        BY <2>0, <3>2, <3>4
      <4>2. idemToken'[j] = t \/ Found(idemToken'[j])
        BY <2>0, <3>2, <3>4 DEF KeyInv
      <4> QED BY <3>2, <4>1, <4>2 DEF Found
    <3>8. ASSUME NEW q \in Reqs, out'[q] = "issued"
          PROVE  /\ call[q].key \in Keys /\ tok'[q] \in Tokens
                 /\ tok'[q] = idemToken'[call[q].key] /\ call[q].arg = idemHash'[call[q].key]
      <4>1. CASE q = r
        BY <2>0, <2>3, <3>2, <3>4, <4>1 DEF TypeOK
      <4>2. CASE q # r
        <5>1. out[q] = "issued" /\ tok'[q] = tok[q]
          BY <2>3, <3>8, <4>2 DEF Goto, TypeOK
        <5>2. call[q].key \in Keys /\ call[q].key # k
          BY <3>1, <5>1, TokenStoreAssumption DEF KeyInv
        <5> QED BY <2>0, <3>2, <3>4, <5>1, <5>2 DEF KeyInv
      <4> QED BY <4>1, <4>2
    <3> QED BY <2>0, <3>5, <3>6, <3>7, <3>8 DEF KeyInv, Found
  <2> QED BY <1>2, <2>1, <2>2, <2>3 DEF CommitIssue
<1> QED BY <1>1, <1>2

\* The two ways a request that arrived with a dead token can move: it arrives, or
\* one of its later critical sections sees the expiry or revocation.
LEMMA DeadStep == TypeOK /\ RequestInv /\ DeadInv /\ [Next]_vars => DeadInv'
<1> SUFFICES ASSUME TypeOK, RequestInv, DeadInv, [Next]_vars, NEW q \in Reqs PROVE DeadOK(q)'
  BY DEF DeadInv
<1> USE TokenStoreAssumption
<1>0. DeadOK(q) /\ RequestOK(q)
  BY DEF DeadInv, RequestInv
<1>1. \A t \in Tokens : Dead(t) => Dead(t)'
  <2>1. CASE StoreNext
    BY <2>1, DeadIsStable DEF TypeOK
  <2>2. CASE UNCHANGED storeVars
    BY <2>2 DEF storeVars, Dead
  <2> QED BY <2>1, <2>2, NextIsStoreStep
<1>2. \A t \in Tokens : Dead(t) => ApplyExpiry(t) \in {"revoked", "expired"} /\ ~RefreshAccepted(t)
  BY DEF Dead, ApplyExpiry, RefreshAccepted
<1>3. ASSUME call'[q].arrived = "dead", tok'[q] \in Tokens, Dead(tok'[q]),
             out'[q] \notin {"admitted", "active", "refreshed"}
      PROVE DeadOK(q)'
  BY <1>1, <1>3 DEF DeadOK, Dead
<1>4. CASE call'[q] = call[q] /\ tok'[q] = tok[q] /\ out'[q] = out[q]
  BY <1>0, <1>3, <1>4 DEF DeadOK
<1>5. CASE TickStep \/ UNCHANGED vars
  BY <1>4, <1>5 DEF TickStep, vars, reqVars
<1>6. ASSUME NEW r \in Reqs, BadRequest(r) \/ PrepareIssue(r) \/ LookupRefresh(r)
                               \/ LookupRevoke(r) \/ RejectEarly(r) \/ Verify(r)
      PROVE  DeadOK(q)'
  <2>1. CASE q = r
    <3>1. call'[q].arrived = "dead" => tok'[q] \in Tokens /\ Dead(tok'[q])
      BY <1>6, <2>1 DEF BadRequest, PrepareIssue, LookupRefresh, LookupRevoke, RejectEarly,
                        Verify, Arrive, TypeOK, Dead
    <3>2. out'[q] \notin {"admitted", "active", "refreshed"}
      BY <1>6, <2>1 DEF BadRequest, PrepareIssue, LookupRefresh, LookupRevoke, RejectEarly,
                        Verify, Goto, TypeOK
    <3> QED BY <1>3, <3>1, <3>2 DEF DeadOK
  <2>2. CASE q # r
    BY <1>4, <1>6, <2>2 DEF BadRequest, PrepareIssue, LookupRefresh, LookupRevoke, RejectEarly,
                            Verify, Arrive, Goto, TypeOK
  <2> QED BY <2>1, <2>2
<1>7. ASSUME NEW r \in Reqs, Introspect(r) PROVE DeadOK(q)'
  <2>1. CASE q = r
    <3>1. PICK t \in Sendable : /\ Arrive(r, "introspect", NoInput, NoInput, t)
                                /\ Goto(r, "audit", IF Found(t) THEN ApplyExpiry(t) ELSE "invalid")
      BY <1>7 DEF Introspect
    <3>2. call'[q].arrived = "dead" => tok'[q] = t /\ t \in Tokens /\ Dead(t)
      BY <2>1, <3>1 DEF Arrive, TypeOK
    <3>3. out'[q] = IF Found(t) THEN ApplyExpiry(t) ELSE "invalid"
      BY <2>1, <3>1 DEF Goto, TypeOK
    <3> QED BY <1>1, <1>2, <3>2, <3>3 DEF DeadOK, Dead
  <2>2. CASE q # r
    BY <1>4, <1>7, <2>2 DEF Introspect, Arrive, Goto, TypeOK
  <2> QED BY <2>1, <2>2
<1>8. ASSUME NEW r \in Reqs, CommitIssue(r) PROVE DeadOK(q)'
  <2>1. CASE q = r
    <3>1. call'[q].arrived = "live"
      BY <1>0, <1>8, <2>1 DEF CommitIssue, RequestOK
    <3> QED BY <3>1 DEF DeadOK
  <2>2. CASE q # r
    BY <1>4, <1>8, <2>2 DEF CommitIssue, Goto, TypeOK
  <2> QED BY <2>1, <2>2
<1>9. ASSUME NEW r \in Reqs, CommitRefresh(r) \/ CommitRevoke(r) \/ Resolve(r) \/ EmitAudit(r)
      PROVE  DeadOK(q)'
  <2>1. CASE q = r
    <3>1. call' = call /\ tok' = tok
      BY <1>9 DEF CommitRefresh, CommitRevoke, Resolve, EmitAudit
    <3>2. ASSUME call[q].arrived = "dead"
          PROVE  out'[q] \notin {"admitted", "active", "refreshed"}
      <4>1. tok[q] \in Tokens /\ Dead(tok[q]) /\ out[q] \notin {"admitted", "active", "refreshed"}
        BY <1>0, <3>2 DEF DeadOK
      <4> QED BY <1>2, <1>9, <2>1, <4>1
              DEF CommitRefresh, CommitRevoke, Resolve, EmitAudit, Goto, TypeOK
    <3> QED BY <1>0, <1>1, <3>1, <3>2 DEF DeadOK, Dead
  <2>2. CASE q # r
    BY <1>4, <1>9, <2>2 DEF CommitRefresh, CommitRevoke, Resolve, EmitAudit, Goto, TypeOK
  <2> QED BY <2>1, <2>2
<1> QED BY <1>5, <1>6, <1>7, <1>8, <1>9 DEF Next

\* An event that is emitted is about a token that an emitted issue event names:
\* a client learns a token from an answer, and an answer follows its event.
LEMMA AuditStep == TypeOK /\ RequestInv /\ KeyInv /\ AuditInv /\ [Next]_vars => AuditInv'
<1> SUFFICES ASSUME TypeOK, RequestInv, KeyInv, AuditInv, [Next]_vars PROVE AuditInv'
  OBVIOUS
<1> USE TokenStoreAssumption
<1> DEFINE RootedAfter(t) == \E i \in audit' : i.kind = "issue" /\ i.code = "issued" /\ i.tok = t
<1>0. \A t : Rooted(t) => RootedAfter(t)
  BY DEF Rooted, Next, TickStep, vars, BadRequest, PrepareIssue, CommitIssue, LookupRefresh,
         CommitRefresh, LookupRevoke, CommitRevoke, Introspect, RejectEarly, Verify, Resolve,
         EmitAudit
<1>1. \A t \in Sendable : t # NoToken => Rooted(t)
  BY DEF Sendable, Delivered, AuditInv
<1>2. ASSUME NEW q \in Reqs, call'[q].kind # "issue", tok'[q] # NoToken PROVE Rooted(tok'[q])
  <2>1. CASE call'[q] = call[q] /\ tok'[q] = tok[q]
    BY <1>2, <2>1 DEF AuditInv
  <2>2. CASE TickStep \/ UNCHANGED vars
    BY <2>1, <2>2 DEF TickStep, vars, reqVars
  <2>3. ASSUME NEW r \in Reqs, BadRequest(r) \/ PrepareIssue(r) \/ LookupRefresh(r)
                 \/ LookupRevoke(r) \/ RejectEarly(r) \/ Verify(r) \/ Introspect(r)
        PROVE Rooted(tok'[q])
    <3>1. CASE q = r
      <4>1. tok'[q] \in Sendable \cup {NoToken}
        BY <2>3, <3>1 DEF BadRequest, PrepareIssue, LookupRefresh, LookupRevoke, RejectEarly,
                          Verify, Introspect, Arrive, TypeOK
      <4> QED BY <1>1, <1>2, <4>1
    <3>2. CASE q # r
      BY <2>1, <2>3, <3>2 DEF BadRequest, PrepareIssue, LookupRefresh, LookupRevoke, RejectEarly,
                              Verify, Introspect, Arrive, TypeOK
    <3> QED BY <3>1, <3>2
  <2>4. ASSUME NEW r \in Reqs, CommitIssue(r) PROVE Rooted(tok'[q])
    <3>1. q # r
      BY <1>2, <2>4 DEF CommitIssue, RequestInv, RequestOK
    <3> QED BY <2>1, <2>4, <3>1 DEF CommitIssue, TypeOK
  <2>5. ASSUME NEW r \in Reqs, CommitRefresh(r) \/ CommitRevoke(r) \/ Resolve(r) \/ EmitAudit(r)
        PROVE Rooted(tok'[q])
    BY <2>1, <2>5 DEF CommitRefresh, CommitRevoke, Resolve, EmitAudit
  <2> QED BY <2>2, <2>3, <2>4, <2>5 DEF Next
<1>3. CASE \E r \in Reqs : EmitAudit(r)
  <2>1. PICK r \in Reqs : EmitAudit(r)
    BY <1>3
  <2>2. /\ audit' = audit \cup {EventOf(r)} /\ call' = call /\ tok' = tok
        /\ pc' = [pc EXCEPT ![r] = "done"] /\ out' = [out EXCEPT ![r] = out[r]]
    BY <2>1 DEF EmitAudit, Goto
  <2>3. tok[r] # NoToken => RootedAfter(tok[r])
    <3>1. CASE call[r].kind # "issue"
      BY <1>0, <3>1 DEF AuditInv
    <3>2. CASE call[r].kind = "issue" /\ tok[r] # NoToken
      <4>1. out[r] = "issued"
        BY <3>2 DEF RequestInv, RequestOK
      <4>2. EventOf(r) \in audit' /\ EventOf(r).kind = "issue" /\ EventOf(r).code = "issued"
              /\ EventOf(r).tok = tok[r]
        BY <2>2, <3>2, <4>1 DEF EventOf
      <4> QED BY <2>2, <4>2 DEF Rooted
    <3> QED BY <3>1, <3>2
  <2>4. ASSUME NEW e \in audit', e.tok # NoToken PROVE RootedAfter(e.tok)
    <3>1. CASE e \in audit
      BY <1>0, <2>4, <3>1 DEF AuditInv
    <3>2. CASE e = EventOf(r)
      BY <2>3, <2>4, <3>2 DEF EventOf
    <3> QED BY <2>2, <3>1, <3>2
  <2>5. ASSUME NEW q \in Reqs, pc'[q] = "done", out'[q] = "issued" PROVE RootedAfter(tok[q])
    <3>1. CASE q = r
      <4>1. tok[r] \in Tokens
        BY <2>2, <2>5, <3>1 DEF KeyInv, TypeOK
      <4> QED BY <2>3, <3>1, <4>1
    <3>2. CASE q # r
      BY <1>0, <2>2, <2>5, <3>2 DEF AuditInv, TypeOK
    <3> QED BY <3>1, <3>2
  <2>6. ASSUME NEW q \in Reqs, call[q].kind # "issue", tok[q] # NoToken PROVE RootedAfter(tok[q])
    BY <1>0, <2>6 DEF AuditInv
  <2> QED BY <2>2, <2>4, <2>5, <2>6 DEF AuditInv, Rooted
<1>4. CASE \A r \in Reqs : ~EmitAudit(r)
  <2>1. audit' = audit
    BY <1>4 DEF Next, TickStep, vars, BadRequest, PrepareIssue, CommitIssue, LookupRefresh,
                CommitRefresh, LookupRevoke, CommitRevoke, Introspect, RejectEarly, Verify, Resolve
  <2>2. ASSUME NEW q \in Reqs, pc'[q] = "done", out'[q] = "issued"
        PROVE  pc[q] = "done" /\ out[q] = "issued" /\ tok'[q] = tok[q]
    <3>1. ASSUME NEW r \in Reqs, CommitIssue(r)
          PROVE  pc[q] = "done" /\ out[q] = "issued" /\ tok'[q] = tok[q]
      BY <2>2, <3>1 DEF CommitIssue, Goto, TypeOK
    <3>2. ASSUME \A r \in Reqs : ~CommitIssue(r)
          PROVE  pc[q] = "done" /\ out[q] = "issued" /\ tok'[q] = tok[q]
      <4>1. out[q] = "issued" /\ call'[q] = call[q] /\ tok'[q] = tok[q]
        BY <2>2, <3>2, OnlyCommitIssueIssues
      <4>2. pc[q] = "done"
        BY <1>4, <2>2, <3>2, <4>1
           DEF Next, TickStep, vars, reqVars, BadRequest, PrepareIssue, LookupRefresh,
               CommitRefresh, LookupRevoke, CommitRevoke, Introspect, RejectEarly, Verify, Resolve,
               Goto, TypeOK
      <4> QED BY <4>1, <4>2
    <3> QED BY <3>1, <3>2
  <2> QED BY <1>2, <2>1, <2>2 DEF AuditInv, Rooted
<1> QED BY <1>3, <1>4

--------------------------------------------------------------------------------
\* The initial state of the runtime satisfies the inductive invariant.
LEMMA InitOK == Init => IInv
<1> SUFFICES ASSUME Init PROVE IInv
  OBVIOUS
<1> USE TokenStoreAssumption DEF Init
<1>1. TypeOK
  BY Enumerations DEF StoreInit, TypeOK, StoreTypeOK, TokenStatus, NoCall, Call
<1>2. RequestInv
  BY DEF RequestInv, RequestOK, NoCall
<1>3. KeyInv
  BY DEF StoreInit, KeyInv, Found
<1>4. DeadInv
  BY DEF DeadInv, DeadOK, NoCall
<1>5. AuditInv
  BY DEF AuditInv, NoCall
<1> QED BY <1>1, <1>2, <1>3, <1>4, <1>5 DEF IInv

\* IInv is an invariant of the runtime, for any tokens, keys, requests and clock.
THEOREM Invariance == Spec => []IInv
<1>1. IInv /\ [Next]_vars => IInv'
  BY Typing, RequestStep, KeyStep, DeadStep, AuditStep DEF IInv
<1> QED BY <1>1, InitOK, PTL DEF Spec

\* The store, the requests and the audit trail keep their types.
THEOREM TypeCorrect == Spec => []TypeOK
<1>1. IInv => TypeOK
  BY DEF IInv
<1> QED BY <1>1, Invariance, PTL

\* Issue is idempotent for concurrent requests: one token per key, one payload
\* per key, and no token without a key.
THEOREM IdempotentIssue == Spec => []OneTokenPerKey
<1>1. IInv => OneTokenPerKey
  BY DEF IInv, KeyInv, OneTokenPerKey
<1> QED BY <1>1, Invariance, PTL

\* A request that arrives with a revoked or expired token is never admitted,
\* reported active or refreshed.
THEOREM DeadTokensStayOut == Spec => []DeadTokenUnusable
<1>1. IInv => DeadTokenUnusable
  BY DEF IInv, DeadInv, DeadOK, DeadTokenUnusable
<1> QED BY <1>1, Invariance, PTL

\* Every token the audit trail speaks of has its issue in the trail.
THEOREM AuditRooted == Spec => []AuditTrailRooted
<1>1. IInv => AuditTrailRooted
  BY DEF IInv, AuditInv, Rooted, AuditTrailRooted
<1> QED BY <1>1, Invariance, PTL

\* The runtime implements the abstract lifecycle of tokens.
THEOREM Refinement == Spec => LifecycleRefined
<1>1. Init => Life!Init
  BY DEF Init, StoreInit, Life!Init, LifeMap
<1>2. IInv /\ [Next]_vars => [Life!Next]_LifeMap
  <2> SUFFICES ASSUME IInv, [Next]_vars PROVE [Life!Next]_LifeMap
    OBVIOUS
  <2>1. CASE StoreNext
    BY <2>1, LifeStep DEF IInv, TypeOK
  <2>2. CASE UNCHANGED storeVars
    BY <2>2 DEF storeVars, LifeMap, Dead
  <2> QED BY <2>1, <2>2, NextIsStoreStep DEF IInv
<1> QED BY <1>1, <1>2, Invariance, PTL DEF Spec, LifecycleRefined, Life!Spec
================================================================================
