------------------------------ MODULE TokenRuntime ------------------------------
(***************************************************************************)
(* The HTTP requests of platform-token-runtime, interleaved at the         *)
(* granularity of the runtime's critical sections (token_api.go,           *)
(* token_auth_middleware.go, inmemory_runtime.go).  Every request is a     *)
(* goroutine: it validates, enters the store one or two times, emits its   *)
(* audit event and only then answers.                                      *)
(***************************************************************************)
EXTENDS TokenStore, ScopeAuthz

CONSTANTS
  Reqs,       \* requests that may arrive
  Routes      \* protected routes that are called

ASSUME RuntimeAssumption == Routes \subseteq Route

VARIABLES
  pc,         \* where the goroutine of each request is
  call,       \* what the request asked for, and when
  tok,        \* the token it names, or the token it was given
  out,        \* the answer it will get
  audit       \* MemoryAuditStore.events, each with the request that emitted it

reqVars == <<pc, call, tok, out>>
vars    == <<storeVars, reqVars, audit>>

Kinds == {"none", "issue", "refresh", "revoke", "introspect", "auth"}
Pcs   == {"idle", "issue", "refresh", "revoke", "resolve", "audit", "done"}
Outs  == {"none", "bad_request", "issued", "conflict", "refreshed", "not_found",
          "not_active", "revoked", "active", "expired", "invalid",
          "missing_bearer", "query_key", "inactive", "denied", "admitted"}

RefreshBody == [ttl : TTLs]

\* arg: the input of issue, the body of refresh, the route of an authenticated
\* call.  at: the clock when the request arrived.  arrived: whether its token
\* was already dead then (a history variable).
Call == [kind : Kinds, key : Keys \cup {NoInput},
         arg : Input \cup RefreshBody \cup Routes \cup {NoInput},
         at : Nat, arrived : {"live", "dead"}]

NoCall == [kind |-> "none", key |-> NoInput, arg |-> NoInput, at |-> 0, arrived |-> "live"]

Event == [req : Reqs, kind : Kinds, tok : Tokens \cup {NoToken}, code : Outs]

TypeOK ==
  /\ StoreTypeOK
  /\ pc \in [Reqs -> Pcs]
  /\ call \in [Reqs -> Call]
  /\ tok \in [Reqs -> Tokens \cup {NoToken}]
  /\ out \in [Reqs -> Outs]
  /\ audit \in SUBSET Event

Init ==
  /\ StoreInit
  /\ pc = [r \in Reqs |-> "idle"]
  /\ call = [r \in Reqs |-> NoCall]
  /\ tok = [r \in Reqs |-> NoToken]
  /\ out = [r \in Reqs |-> "none"]
  /\ audit = {}

\* The ids a client can send: those some answered issue request gave it, or
\* one that was never issued.
Delivered == {tok[r] : r \in {q \in Reqs : pc[q] = "done" /\ out[q] = "issued"}}
Sendable  == Delivered \cup {NoToken}

\* Request r arrives with a call about token t.
Arrive(r, kind, key, arg, t) ==
  /\ pc[r] = "idle"
  /\ call' = [call EXCEPT ![r] =
       [kind |-> kind, key |-> key, arg |-> arg, at |-> clock,
        arrived |-> IF t \in Tokens /\ Dead(t) THEN "dead" ELSE "live"]]
  /\ tok' = [tok EXCEPT ![r] = t]

\* Request r goes on to its next critical section, or to an answer o.
Goto(r, next, o) ==
  /\ pc' = [pc EXCEPT ![r] = next]
  /\ out' = [out EXCEPT ![r] = o]

--------------------------------------------------------------------------------
\* A request the handler answers with 400 before it reaches the runtime: a
\* missing header, an undecodable body or a field that fails validation.
BadRequest(r) ==
  /\ \E kind \in {"issue", "refresh", "revoke", "introspect"} :
       Arrive(r, kind, NoInput, NoInput, NoToken)
  /\ Goto(r, "done", "bad_request")
  /\ UNCHANGED <<storeVars, audit>>

\* handleIssue and Issue up to the lock: issuedAt is read and the record built.
PrepareIssue(r) ==
  /\ \E k \in Keys, in \in Input : Arrive(r, "issue", k, in, NoToken)
  /\ Goto(r, "issue", "none")
  /\ UNCHANGED <<storeVars, audit>>

\* The critical section of Issue: conflict, replay of the stored record, or Save.
CommitIssue(r) ==
  LET k == call[r].key  in == call[r].arg IN
  /\ pc[r] = "issue"
  /\ \/ /\ IssueConflict(k, in)
        /\ Goto(r, "audit", "conflict")
        /\ UNCHANGED <<storeVars, tok>>
     \/ /\ IssueReplay(k, in)
        /\ Goto(r, "audit", "issued")
        /\ tok' = [tok EXCEPT ![r] = idemToken[k]]
        /\ UNCHANGED storeVars
     \/ /\ IssueNew(k, in)
        /\ \E t \in Tokens :
             /\ Save(k, in, t, call[r].at)
             /\ tok' = [tok EXCEPT ![r] = t]
        /\ Goto(r, "audit", "issued")
  /\ UNCHANGED <<call, audit>>

\* handleRefresh up to and including Lookup, whose expiry it reports later.
LookupRefresh(r) ==
  /\ \E t \in Sendable, body \in RefreshBody :
       Arrive(r, "refresh", NoInput, body, t) /\ Read(t)
  /\ Goto(r, "refresh", "none")
  /\ UNCHANGED audit

\* Refresh; a failure is answered at once, without an audit event.
CommitRefresh(r) ==
  /\ pc[r] = "refresh"
  /\ Refresh(tok[r], call[r].arg.ttl)
  /\ \/ /\ RefreshAccepted(tok[r])
        /\ Goto(r, "audit", "refreshed")
     \/ /\ ~RefreshAccepted(tok[r])
        /\ Goto(r, "done", IF Found(tok[r]) THEN "not_active" ELSE "not_found")
  /\ UNCHANGED <<call, tok, audit>>

\* handleRevoke up to and including Lookup, which finds the subject to audit.
LookupRevoke(r) ==
  /\ \E t \in Sendable : Arrive(r, "revoke", NoInput, NoInput, t) /\ Read(t)
  /\ Goto(r, "revoke", "none")
  /\ UNCHANGED audit

CommitRevoke(r) ==
  /\ pc[r] = "revoke"
  /\ Revoke(tok[r])
  /\ Goto(r, "audit", IF Found(tok[r]) THEN "revoked" ELSE "not_found")
  /\ UNCHANGED <<call, tok, audit>>

Introspect(r) ==
  /\ \E t \in Sendable :
       /\ Arrive(r, "introspect", NoInput, NoInput, t)
       /\ Read(t)
       /\ Goto(r, "audit", IF Found(t) THEN ApplyExpiry(t) ELSE "invalid")
  /\ UNCHANGED audit

\* The middleware chain before Verify: query keys and missing bearer tokens.
RejectEarly(r) ==
  /\ Arrive(r, "auth", NoInput, NoInput, NoToken)
  /\ \E o \in {"missing_bearer", "query_key"} : Goto(r, "audit", o)
  /\ UNCHANGED <<storeVars, audit>>

\* Verify takes the read lock and checks neither status nor expiry.
Verify(r) ==
  /\ \E t \in Sendable, route \in Routes :
       /\ Arrive(r, "auth", NoInput, route, t)
       /\ \/ Found(t) /\ Goto(r, "resolve", "none")
          \/ ~Found(t) /\ Goto(r, "audit", "invalid")
  /\ UNCHANGED <<storeVars, audit>>

\* Resolve, in a second critical section, and the authorization that follows
\* it with the role and scopes that Verify copied from the record.
Resolve(r) ==
  LET h == holder[tok[r]] IN
  /\ pc[r] = "resolve"
  /\ Read(tok[r])
  /\ \/ /\ ApplyExpiry(tok[r]) # "active"
        /\ Goto(r, "audit", "inactive")
     \/ /\ ApplyExpiry(tok[r]) = "active"
        /\ Goto(r, "audit", IF Authorize(call[r].arg, h.role, h.scopes)
                              THEN "admitted" ELSE "denied")
  /\ UNCHANGED <<call, tok, audit>>

EventOf(r) == [req |-> r, kind |-> call[r].kind, tok |-> tok[r], code |-> out[r]]

\* Mutant: the answer does not wait for the audit event, which may be lost.
AnswerBeforeAudit(r) ==
  /\ pc[r] = "audit"
  /\ audit' = audit \cup {EventOf(r)} \/ UNCHANGED audit
  /\ Goto(r, "done", out[r])
  /\ UNCHANGED <<storeVars, call, tok>>

\* Emit the audit event of the request, then answer it.  Emit fails only when the
\* random generator of the system does, which is taken not to happen.
EmitAudit(r) ==
  /\ pc[r] = "audit"
  /\ audit' = audit \cup {EventOf(r)}
  /\ Goto(r, "done", out[r])
  /\ UNCHANGED <<storeVars, call, tok>>

TickStep == Tick /\ UNCHANGED <<reqVars, audit>>

Next ==
  \/ TickStep
  \/ \E r \in Reqs :
       \/ BadRequest(r)    \/ PrepareIssue(r) \/ CommitIssue(r)
       \/ LookupRefresh(r) \/ CommitRefresh(r)
       \/ LookupRevoke(r)  \/ CommitRevoke(r)
       \/ Introspect(r)    \/ RejectEarly(r)
       \/ Verify(r)        \/ Resolve(r)
       \/ EmitAudit(r)

Spec == Init /\ [][Next]_vars

--------------------------------------------------------------------------------
\* Idempotent issue, however the requests interleave: every token in the store
\* is bound to exactly one key, and all the answers to one key name the same
\* token and were given to the same payload (TOK-LIFE-003; Issue).
OneTokenPerKey ==
  /\ \A t \in Tokens : Found(t) => \E k \in Keys : idemToken[k] = t
  /\ \A j, k \in Keys : idemToken[j] = idemToken[k] /\ idemToken[j] # NoToken => j = k
  /\ \A p, q \in Reqs :
       out[p] = "issued" /\ out[q] = "issued" /\ call[p].key = call[q].key
         => tok[p] = tok[q] /\ call[p].arg = call[q].arg

\* A request that arrives when its token is already dead is never served: it is
\* not admitted by the middleware, not reported active by introspection, and
\* does not refresh, whatever runs between its critical sections.
DeadTokenUnusable ==
  \A r \in Reqs : call[r].arrived = "dead"
                    => out[r] \notin {"admitted", "active", "refreshed"}

\* The audit trail is never ahead of the issue it rests on: any event about a
\* token is accompanied by the event of an issue request that returned it,
\* because every handler emits its event before it answers.
AuditTrailRooted ==
  \A e \in audit : e.tok # NoToken =>
    \E i \in audit : i.kind = "issue" /\ i.code = "issued" /\ i.tok = e.tok

\* The runtime implements TokenLifecycle: a token that was revoked, or whose
\* expiry has passed even if no operation noticed it yet, never lives again.
LifecycleRefined == Life!Spec

================================================================================
