------------------------------ MODULE GatewayAuth ------------------------------
(***************************************************************************)
(* Authentication in the gateway when it introspects tokens remotely       *)
(* (gateway/internal/middleware: tokenAuthMiddleware and                   *)
(* RemoteTokenRuntime).  Verify asks platform-token-runtime about the      *)
(* token and stores the answer in a map that all requests share; Resolve   *)
(* then reads that map.  The runtime goes on issuing, refreshing and       *)
(* revoking meanwhile (TokenStore).                                        *)
(*                                                                         *)
(* Both services read one clock.  The chat and completion routes require   *)
(* no scope (requiredScopeForRoute), so a token that resolves as active is *)
(* admitted.  Every answer emits one audit event with the answer's code;   *)
(* the event carries nothing that out does not, and is not kept.           *)
(***************************************************************************)
EXTENDS TokenStore

CONSTANTS
  Reqs,       \* requests that may arrive at the gateway
  NoRecord    \* absence of an introspection answer or of a cached record

VARIABLES
  pc,         \* where the goroutine of each request is
  tok,        \* the bearer token it carries
  arrived,    \* what that token was when the request arrived (history)
  pending,    \* the "active" answers for it that were under way then (history)
  resp,       \* the introspection answer of the request, once given
  out,        \* how the request was answered
  records     \* RemoteTokenRuntime.records

reqVars == <<pc, tok, arrived, pending, resp, out>>
vars    == <<storeVars, reqVars, records>>

\* remoteResolvedToken: what an introspection answer says of a token.
Record == [status : TokenStatus, expiresAt : Nat]
Pcs    == {"idle", "introspect", "response", "resolve", "done"}
Outs   == {"none", "missing_bearer", "query_key", "invalid", "inactive", "admitted"}

TypeOK ==
  /\ StoreTypeOK
  /\ pc \in [Reqs -> Pcs]
  /\ tok \in [Reqs -> Tokens \cup {NoToken}]
  /\ arrived \in [Reqs -> {"live", "dead"}]
  /\ pending \in [Reqs -> SUBSET Reqs]
  /\ resp \in [Reqs -> Record \cup {NoRecord}]
  /\ out \in [Reqs -> Outs]
  /\ records \in [Tokens -> Record \cup {NoRecord}]

Init ==
  /\ StoreInit
  /\ pc = [r \in Reqs |-> "idle"]
  /\ tok = [r \in Reqs |-> NoToken]
  /\ arrived = [r \in Reqs |-> "live"]
  /\ pending = [r \in Reqs |-> {}]
  /\ resp = [r \in Reqs |-> NoRecord]
  /\ out = [r \in Reqs |-> "none"]
  /\ records = [t \in Tokens |-> NoRecord]

\* Request r is answered.
Answer(r, o) ==
  /\ pc' = [pc EXCEPT ![r] = "done"]
  /\ out' = [out EXCEPT ![r] = o]

\* The requests about token t whose "active" answer has not reached Verify yet.
ActiveAnswers(t) ==
  {q \in Reqs : pc[q] = "response" /\ tok[q] = t /\ resp[q].status = "active"}

--------------------------------------------------------------------------------
\* queryKeyRejectMiddleware, then extractBearerToken.
RejectEarly(r) ==
  /\ pc[r] = "idle"
  /\ \E o \in {"missing_bearer", "query_key"} : Answer(r, o)
  /\ UNCHANGED <<storeVars, tok, arrived, pending, resp, records>>

\* Verify sends the introspection of the bearer token.
SendIntrospect(r) ==
  /\ pc[r] = "idle"
  /\ \E t \in {u \in Tokens : Found(u)} \cup {NoToken} :
       /\ tok' = [tok EXCEPT ![r] = t]
       /\ arrived' = [arrived EXCEPT ![r] =
                        IF t \in Tokens /\ Dead(t) THEN "dead" ELSE "live"]
       /\ pending' = [pending EXCEPT ![r] = ActiveAnswers(t)]
  /\ pc' = [pc EXCEPT ![r] = "introspect"]
  /\ UNCHANGED <<storeVars, resp, out, records>>

\* platform-token-runtime handles it (handleIntrospect); the answer is under way.
Introspected(r) ==
  /\ pc[r] = "introspect"
  /\ Found(tok[r])
  /\ Read(tok[r])
  /\ resp' = [resp EXCEPT ![r] =
                [status |-> ApplyExpiry(tok[r]), expiresAt |-> expiresAt[tok[r]]]]
  /\ pc' = [pc EXCEPT ![r] = "response"]
  /\ UNCHANGED <<tok, arrived, pending, out, records>>

\* Verify fails: the runtime answers 422, the call fails or its answer is lost.
VerifyFails(r) ==
  /\ pc[r] \in {"introspect", "response"}
  /\ Answer(r, "invalid")
  /\ UNCHANGED <<storeVars, tok, arrived, pending, resp, records>>

\* Mutant: an answer that is not active is not cached.
StoreOnlyActive(r) ==
  /\ pc[r] = "response"
  /\ records' = IF resp[r].status = "active"
                  THEN [records EXCEPT ![tok[r]] = resp[r]] ELSE records
  /\ pc' = [pc EXCEPT ![r] = "resolve"]
  /\ UNCHANGED <<storeVars, tok, arrived, pending, resp, out>>

\* Verify stores the answer under the lock; the last answer to arrive wins.
StoreResponse(r) ==
  /\ pc[r] = "response"
  /\ records' = [records EXCEPT ![tok[r]] = resp[r]]
  /\ pc' = [pc EXCEPT ![r] = "resolve"]
  /\ UNCHANGED <<storeVars, tok, arrived, pending, resp, out>>

\* What Resolve makes of a cached record; it fails without one.
Resolved(rec) ==
  CASE rec = NoRecord -> "missing"
    [] rec # NoRecord /\ rec.status = "active" /\ clock >= rec.expiresAt -> "expired"
    [] OTHER -> rec.status

\* Resolve reads the shared record, whoever wrote it, and the request is admitted
\* if it is active.
Resolve(r) ==
  /\ pc[r] = "resolve"
  /\ Answer(r, IF Resolved(records[tok[r]]) = "active" THEN "admitted" ELSE "inactive")
  /\ UNCHANGED <<storeVars, tok, arrived, pending, resp, records>>

\* The operations of platform-token-runtime that other clients cause meanwhile.
RuntimeStep ==
  /\ \/ Tick
     \/ \E t \in Tokens : Revoke(t) \/ \E ttl \in TTLs : Refresh(t, ttl)
     \/ \E k \in Keys, in \in Input, t \in Tokens :
          IssueNew(k, in) /\ Save(k, in, t, clock)
  /\ UNCHANGED <<reqVars, records>>

Next ==
  \/ RuntimeStep
  \/ \E r \in Reqs :
       \/ RejectEarly(r)   \/ SendIntrospect(r) \/ Introspected(r)
       \/ VerifyFails(r)   \/ StoreResponse(r)  \/ Resolve(r)

Spec == Init /\ [][Next]_vars

--------------------------------------------------------------------------------
\* Revocation and expiry take effect at once, except for the answers on the
\* wire: a request that arrives after its token died is admitted only if an
\* "active" answer to another request for the token was under way at that moment
\* (it then overwrote this request's own answer between Verify and Resolve).
DeadAdmittedOnlyByOverlap ==
  \A r \in Reqs : arrived[r] = "dead" /\ out[r] = "admitted" => pending[r] # {}

================================================================================
