------------------------------ MODULE TokenStatus ------------------------------
(***************************************************************************)
(* Token verification and revocation in supply-api: TokenVerifyMiddleware  *)
(* (middleware/auth.go) over DBTokenStatusBackend (db_token_backend.go),   *)
(* which looks in Redis, then in token_status_registry, and writes what it *)
(* read there into Redis; the revocations (RevokeToken, RevokeBySubjectID, *)
(* TokenRevocationService.RevokeAndPublish), which update the row and then *)
(* delete the Redis key; and the subscriber that deletes it again.  Each   *)
(* SQL statement and each Redis command is one step.                       *)
(*                                                                         *)
(* All tokens belong to one subject.  supply-api has no caller of its own  *)
(* for the revocations and for Create and DeleteBySubjectID: they are      *)
(* called at any time while the process has a database.  Redis is one for  *)
(* all processes and outlives them; a SET whose client gave up may still   *)
(* be applied, and one such SET at a time is followed.  The verification   *)
(* count is written and never read, TokenCache of AuthMiddleware is read   *)
(* and never filled, and DeleteExpired looks for a status that no          *)
(* statement writes: none of them is kept.                                 *)
(***************************************************************************)
EXTENDS SupplyStartup

CONSTANTS
  Tokens,     \* token ids of the subject
  Reqs,       \* requests in flight at once
  Revokers,   \* revocations in flight at once
  TTL         \* revocation_cache_ttl, in clock units

ASSUME TokenStatusAssumption == TTL \in Nat \ {0} /\ Tokens # {}

VARIABLES
  row,        \* token_status_registry; "expired" is an active row past expires_at
  entry,      \* token:status:<id> in Redis and the time it has left
  late,       \* a SET that is under way although its client gave up
  channel,    \* revocations published and not yet received
  pc,         \* the call each request makes next, or its answer
  tok,        \* its token id
  seen,       \* the status it read from the database
  vpc,        \* the call each revocation makes next
  todo,       \* the token ids it will delete from Redis
  publishes,  \* it is a RevokeAndPublish
  swept       \* deleted from Redis after the revocation, with no fill of an
              \* older status under way (history)

redisVars == <<entry, late, channel>>
reqVars   == <<pc, tok, seen>>
revVars   == <<vpc, todo, publishes>>
vars      == <<startVars, row, redisVars, reqVars, revVars, swept>>

Rows   == {"absent", "active", "expired", "revoked"}
Status == {"active", "expired", "revoked"}

NoEntry == [status |-> "none", left |-> 0]
NoSet   == [tok |-> "none", status |-> "none"]

TypeOK ==
  /\ StartTypeOK
  /\ row \in [Tokens -> Rows]
  /\ entry \in [Tokens -> [status : Status, left : 1..TTL] \cup {NoEntry}]
  /\ late \in [tok : Tokens, status : Status] \cup {NoSet}
  /\ channel \subseteq Tokens
  /\ pc \in [Reqs -> {"idle", "get", "read", "set", "admitted", "refused", "aborted"}]
  /\ tok \in [Reqs -> Tokens]
  /\ seen \in [Reqs -> Status]
  /\ vpc \in [Revokers -> {"idle", "update", "del", "publish", "redel"}]
  /\ todo \in [Revokers -> SUBSET Tokens]
  /\ publishes \in [Revokers -> BOOLEAN]
  /\ swept \subseteq Tokens

FirstToken == CHOOSE t \in Tokens : TRUE

NoRequests ==
  /\ pc' = [r \in Reqs |-> "idle"]
  /\ tok' = [r \in Reqs |-> FirstToken]
  /\ seen' = [r \in Reqs |-> "revoked"]

NoRevocations ==
  /\ vpc' = [v \in Revokers |-> "idle"]
  /\ todo' = [v \in Revokers |-> {}]
  /\ publishes' = [v \in Revokers |-> FALSE]

Init ==
  /\ StartInit
  /\ row = [t \in Tokens |-> "absent"]
  /\ entry = [t \in Tokens |-> NoEntry]
  /\ late = NoSet
  /\ channel = {} /\ swept = {}
  /\ pc = [r \in Reqs |-> "idle"]
  /\ tok = [r \in Reqs |-> FirstToken]
  /\ seen = [r \in Reqs |-> "revoked"]
  /\ vpc = [v \in Revokers |-> "idle"]
  /\ todo = [v \in Revokers |-> {}]
  /\ publishes = [v \in Revokers |-> FALSE]

--------------------------------------------------------------------------------
\* A request that read "active" in the database and has not stored it yet.
Storing(t) == \E r \in Reqs : pc[r] = "set" /\ tok[r] = t /\ seen[r] = "active"

\* The same, or a SET of that status which is still under way.
Filling(t) == Storing(t) \/ (late.tok = t /\ late.status = "active")

\* What lets a request with token t pass without a look at the database.
StaleSource(t) == entry[t].status = "active" \/ Filling(t)

\* DEL token:status:<t>, or its failure, which every caller ignores.
InvalidateToken(t) ==
  \/ /\ entry' = [entry EXCEPT ![t] = NoEntry]
     /\ swept' = IF row[t] = "revoked" /\ ~Filling(t) THEN swept \cup {t} ELSE swept
  \/ UNCHANGED <<entry, swept>>

\* GetStatus of the repository: a token without a row is active.
GetStatus(t) == IF row[t] = "absent" THEN "active" ELSE row[t]

--------------------------------------------------------------------------------
\* The request leaves the middleware: forget what it carried.
Answer(r, how) ==
  /\ pc' = [pc EXCEPT ![r] = how]
  /\ tok' = [tok EXCEPT ![r] = FirstToken]
  /\ seen' = [seen EXCEPT ![r] = "revoked"]

Goto(r, next) == pc' = [pc EXCEPT ![r] = next] /\ UNCHANGED tok

\* A request with a token arrives.  In "dev" no authentication is installed.  A
\* token that verifyToken refuses is refused.  Without a database every token is
\* active.  With a database and no Redis the backend holds a typed nil, which is
\* not nil: the first command through it panics outside of Recovery.
Arrive(r, t, valid) ==
  /\ server = "serving" /\ phase # "shutdown" /\ pc[r] = "idle"
  /\ \/ env = "dev" /\ Answer(r, "admitted")
     \/ env # "dev" /\ ~valid /\ Answer(r, "refused")
     \/ env # "dev" /\ valid /\ ~db /\ Answer(r, "admitted")
     \/ env # "dev" /\ valid /\ db /\ ~redis /\ Answer(r, "aborted")
     \/ /\ env # "dev" /\ valid /\ db /\ redis
        /\ pc' = [pc EXCEPT ![r] = "get"]
        /\ tok' = [tok EXCEPT ![r] = t]
        /\ UNCHANGED seen
  /\ UNCHANGED <<startVars, row, redisVars, revVars, swept>>

Verdict(status) == IF status = "active" THEN "admitted" ELSE "refused"

\* Mutant: a hit renews the life of the entry.
GetCachedSliding(r) ==
  /\ pc[r] = "get"
  /\ \/ Goto(r, "read") /\ UNCHANGED <<entry, seen>>
     \/ /\ entry[tok[r]] # NoEntry
        /\ entry' = [entry EXCEPT ![tok[r]].left = TTL]
        /\ Answer(r, Verdict(entry[tok[r]].status))
  /\ UNCHANGED <<startVars, row, late, channel, revVars, swept>>

\* GetTokenStatus of the cache: a hit answers, a miss or an error goes on.
GetCached(r) ==
  /\ pc[r] = "get"
  /\ \/ Goto(r, "read") /\ UNCHANGED seen
     \/ /\ entry[tok[r]] # NoEntry
        /\ Answer(r, Verdict(entry[tok[r]].status))
  /\ UNCHANGED <<startVars, row, redisVars, revVars, swept>>

\* Mutant: a database that does not answer counts as an active token.
ReadStatusOpen(r) ==
  /\ pc[r] = "read"
  /\ \E s \in {GetStatus(tok[r]), "active"} : seen' = [seen EXCEPT ![r] = s]
  /\ Goto(r, "set")
  /\ UNCHANGED <<startVars, row, redisVars, revVars, swept>>

\* GetStatus reads the row, or fails and the request is refused.
ReadStatus(r) ==
  /\ pc[r] = "read"
  /\ \/ Answer(r, "refused")
     \/ /\ seen' = [seen EXCEPT ![r] = GetStatus(tok[r])]
        /\ Goto(r, "set")
  /\ UNCHANGED <<startVars, row, redisVars, revVars, swept>>

\* Mutant: the entry is written with more than its life.
StoreStatusLonger(r) ==
  /\ pc[r] = "set"
  /\ \/ entry' = [entry EXCEPT ![tok[r]] = [status |-> seen[r], left |-> TTL + 1]]
     \/ UNCHANGED entry
  /\ Answer(r, Verdict(seen[r]))
  /\ UNCHANGED <<startVars, row, late, channel, revVars, swept>>

\* SetTokenStatus, whose error is ignored, and the answer by what was read.  The SET is
\* applied, or lost, or the client gives up before Redis has seen it.
StoreStatus(r) ==
  /\ pc[r] = "set"
  /\ \/ /\ entry' = [entry EXCEPT ![tok[r]] = [status |-> seen[r], left |-> TTL]]
        /\ UNCHANGED late
     \/ UNCHANGED <<entry, late>>
     \/ /\ late = NoSet
        /\ late' = [tok |-> tok[r], status |-> seen[r]]
        /\ UNCHANGED entry
  /\ Answer(r, Verdict(seen[r]))
  /\ UNCHANGED <<startVars, row, channel, revVars, swept>>

\* Redis gets to a SET whose client is gone, the process perhaps too; or it is lost.
LateSet ==
  /\ late # NoSet
  /\ \/ entry' = [entry EXCEPT ![late.tok] = [status |-> late.status, left |-> TTL]]
     \/ UNCHANGED entry
  /\ late' = NoSet
  /\ UNCHANGED <<startVars, row, channel, reqVars, revVars, swept>>

Leave(r) ==
  /\ pc[r] \in {"admitted", "refused", "aborted"}
  /\ pc' = [pc EXCEPT ![r] = "idle"]
  /\ UNCHANGED <<startVars, row, redisVars, tok, seen, revVars, swept>>

--------------------------------------------------------------------------------
Revocable(t) == row[t] \in {"active", "expired"}

\* Revocation v ends.
Return(v) ==
  /\ vpc' = [vpc EXCEPT ![v] = "idle"]
  /\ todo' = [todo EXCEPT ![v] = {}]
  /\ publishes' = [publishes EXCEPT ![v] = FALSE]

VGoto(v, next, tokens) ==
  /\ vpc' = [vpc EXCEPT ![v] = next]
  /\ todo' = [todo EXCEPT ![v] = tokens]

\* RevokeToken, called alone or by RevokeAndPublish: the UPDATE.  A token that
\* is not active is an error.  The call may end here: the answer of the database
\* is lost, or, without Redis, the next command panics.
RevokeToken(v, t, service) ==
  /\ phase \notin Ended /\ db /\ vpc[v] = "idle" /\ Revocable(t)
  /\ row' = [row EXCEPT ![t] = "revoked"]
  /\ \/ UNCHANGED revVars
     \/ /\ redis
        /\ VGoto(v, "del", {t})
        /\ publishes' = [publishes EXCEPT ![v] = service]
  /\ UNCHANGED <<startVars, redisVars, reqVars, swept>>

\* RevokeBySubjectID, first statement: ListActiveBySubjectID, whose error leaves
\* the list empty.
ListActive(v) ==
  /\ phase \notin Ended /\ db /\ vpc[v] = "idle"
  /\ \E listed \in {{t \in Tokens : row[t] = "active"}, {}} : VGoto(v, "update", listed)
  /\ UNCHANGED <<startVars, row, redisVars, reqVars, publishes, swept>>

\* RevokeBySubjectID, second statement.  When it fails or changes no row the
\* call returns; its answer may be lost, and without Redis the next command
\* panics.
UpdateAll(v) ==
  /\ vpc[v] = "update"
  /\ \/ /\ Return(v)
        /\ UNCHANGED row
     \/ /\ \E t \in Tokens : Revocable(t)
        /\ row' = [t \in Tokens |-> IF Revocable(t) THEN "revoked" ELSE row[t]]
        /\ \/ Return(v)
           \/ redis /\ todo[v] # {} /\ VGoto(v, "del", todo[v]) /\ UNCHANGED publishes
  /\ UNCHANGED <<startVars, redisVars, reqVars, swept>>

\* The invalidation that follows the UPDATE.  A RevokeAndPublish goes on.
Del(v, t) ==
  /\ vpc[v] = "del" /\ t \in todo[v]
  /\ InvalidateToken(t)
  /\ \/ publishes[v] /\ VGoto(v, "publish", {t}) /\ UNCHANGED publishes
     \/ ~publishes[v] /\ todo[v] # {t} /\ VGoto(v, "del", todo[v] \ {t}) /\ UNCHANGED publishes
     \/ ~publishes[v] /\ todo[v] = {t} /\ Return(v)
  /\ UNCHANGED <<startVars, row, late, channel, reqVars>>

\* PublishTokenRevoked reaches whoever is subscribed now, or fails.
Publish(v, t) ==
  /\ vpc[v] = "publish" /\ t \in todo[v]
  /\ \/ /\ channel' = IF phase = "subscribed" THEN channel \cup {t} ELSE channel
        /\ Return(v)
     \/ /\ VGoto(v, "redel", {t})
        /\ UNCHANGED <<channel, publishes>>
  /\ UNCHANGED <<startVars, row, entry, late, reqVars, swept>>

\* The second invalidation, after a failed publication.
Redel(v, t) ==
  /\ vpc[v] = "redel" /\ t \in todo[v]
  /\ InvalidateToken(t)
  /\ Return(v)
  /\ UNCHANGED <<startVars, row, late, channel, reqVars>>

\* The handler of SubscribeTokenRevoked.
HandleRevoked(t) ==
  /\ phase = "subscribed" /\ t \in channel
  /\ channel' = channel \ {t}
  /\ InvalidateToken(t)
  /\ UNCHANGED <<startVars, row, late, reqVars, revVars>>

\* Redis keeps nothing for a subscriber whose connection breaks.
LoseMessages ==
  /\ channel # {}
  /\ channel' = {}
  /\ UNCHANGED <<startVars, row, entry, late, reqVars, revVars, swept>>

--------------------------------------------------------------------------------
\* Create inserts an active row; token_id is unique.
Create(t) ==
  /\ phase \notin Ended /\ db /\ row[t] = "absent"
  /\ row' = [row EXCEPT ![t] = "active"]
  /\ UNCHANGED <<startVars, redisVars, reqVars, revVars, swept>>

\* DeleteBySubjectID removes the rows of the subject and leaves Redis alone.
DeleteBySubjectID ==
  /\ phase \notin Ended /\ db
  /\ row' = [t \in Tokens |-> "absent"]
  /\ swept' = {}
  /\ UNCHANGED <<startVars, redisVars, reqVars, revVars>>

\* expires_at passes.
Expire(t) ==
  /\ row[t] = "active"
  /\ row' = [row EXCEPT ![t] = "expired"]
  /\ UNCHANGED <<startVars, redisVars, reqVars, revVars, swept>>

\* One clock unit passes for the keys in Redis.
Tick ==
  /\ entry' = [t \in Tokens |->
       IF entry[t].left > 1 THEN [entry[t] EXCEPT !.left = @ - 1] ELSE NoEntry]
  /\ UNCHANGED <<startVars, row, late, channel, reqVars, revVars, swept>>

--------------------------------------------------------------------------------
RequestStep(r) == GetCached(r) \/ ReadStatus(r) \/ StoreStatus(r)

RevocationStep(v) ==
  \/ UpdateAll(v)
  \/ \E t \in Tokens : Del(v, t) \/ Publish(v, t) \/ Redel(v, t)

\* A step of the process.  When it ends, its requests, its revocations and its
\* subscription end with it.
ProcessStep ==
  /\ StartStep \/ EndStep
  /\ \/ /\ phase' \in Ended
        /\ NoRequests /\ NoRevocations
        /\ channel' = {}
     \/ /\ phase' \notin Ended
        /\ UNCHANGED <<channel, reqVars, revVars>>
  /\ UNCHANGED <<row, entry, late, swept>>

Next ==
  \/ ProcessStep
  \/ \E r \in Reqs, t \in Tokens, valid \in BOOLEAN : Arrive(r, t, valid)
  \/ \E r \in Reqs : RequestStep(r) \/ Leave(r)
  \/ \E v \in Revokers, t \in Tokens, service \in BOOLEAN : RevokeToken(v, t, service)
  \/ \E v \in Revokers : ListActive(v) \/ RevocationStep(v)
  \/ \E t \in Tokens : HandleRevoked(t) \/ Create(t) \/ Expire(t)
  \/ LateSet \/ LoseMessages \/ DeleteBySubjectID \/ Tick

Spec == Init /\ [][Next]_vars

\* Time passes; the SET of a request returns, with an answer or an error, because the
\* client of Redis gives up after a timeout; and Redis gets to what it was sent.
FairSpec ==
  /\ Spec
  /\ WF_vars(Tick) /\ WF_vars(LateSet)
  /\ \A r \in Reqs : WF_vars(StoreStatus(r))

--------------------------------------------------------------------------------
\* After a DEL that no fill overlapped, a revoked token stays refused: nothing
\* brings an active entry back, whatever requests, revocations, lost messages
\* and restarts follow.
SweptStaysRefused == \A t \in swept : row[t] = "revoked" /\ ~StaleSource(t)

\* Every revocation takes effect, even when its DEL failed, was overtaken by a
\* fill or never ran: what lets the token pass runs out by itself, unless the
\* row is deleted meanwhile.
RevocationTakesEffect ==
  \A t \in Tokens : row[t] = "revoked" ~> (row[t] # "revoked" \/ ~StaleSource(t))

\* In production a request passes only in a process that has both backends.
ProdFailsClosed ==
  [][\A r \in Reqs :
       env = "prod" /\ pc[r] # "admitted" /\ pc'[r] = "admitted" => db /\ redis]_vars

================================================================================
