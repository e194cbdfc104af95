------------------------------- MODULE TokenStore -------------------------------
(***************************************************************************)
(* The token store of platform-token-runtime and the operations that the  *)
(* runtime performs on it, each inside one critical section of             *)
(* InMemoryTokenRuntime.mu (inmemory_runtime.go, runtime_store.go).        *)
(*                                                                         *)
(* A token id stands for the pair (token_id, access_token): both are fresh *)
(* random strings, written by one Save, so tokenToID is the identity here. *)
(* The clock is a counter; one critical section reads one clock value.     *)
(***************************************************************************)
EXTENDS Integers

CONSTANTS
  Tokens,     \* token ids that rand can produce
  NoToken,    \* an id or access token that was never issued
  Keys,       \* values of the Idempotency-Key header
  Holders,    \* (subject_id, role, scope) of an issue request
  TTLs,       \* ttl values a client may send, in clock units
  NoInput,    \* no payload
  MaxTime     \* bound of the clock

ASSUME TokenStoreAssumption ==
  /\ TTLs \subseteq Nat \ {0}
  /\ NoToken \notin Tokens
  /\ MaxTime \in Nat

VARIABLES
  clock,      \* r.now()
  status,     \* records[t].Status, "none" when t is not in the map
  expiresAt,  \* records[t].ExpiresAt
  holder,     \* records[t].SubjectID, Role, Scope
  idemToken,  \* idempotencyByKey[k].TokenID
  idemHash    \* idempotencyByKey[k].RequestHash

storeVars == <<clock, status, expiresAt, holder, idemToken, idemHash>>

\* What hashIssueInput hashes: subject, role, sorted scopes and ttl.  SHA-256
\* is injective here, so the hash of an input is the input itself.
Input == [holder : Holders, ttl : TTLs]

TokenStatus == {"none", "active", "revoked", "expired"}

StoreTypeOK ==
  /\ clock \in Nat
  /\ status \in [Tokens -> TokenStatus]
  /\ expiresAt \in [Tokens -> Nat]
  /\ holder \in [Tokens -> Holders \cup {NoInput}]
  /\ idemToken \in [Keys -> Tokens \cup {NoToken}]
  /\ idemHash \in [Keys -> Input \cup {NoInput}]

StoreInit ==
  /\ clock = 0
  /\ status = [t \in Tokens |-> "none"]
  /\ expiresAt = [t \in Tokens |-> 0]
  /\ holder = [t \in Tokens |-> NoInput]
  /\ idemToken = [k \in Keys |-> NoToken]
  /\ idemHash = [k \in Keys |-> NoInput]

Found(t) == t \in Tokens /\ status[t] # "none"

\* Mutant: applyExpiry forgotten, only the stored status counts.
ApplyExpiryForgotten(t) == status[t]

\* The status that applyExpiry leaves in the record of a found token.
ApplyExpiry(t) ==
  IF status[t] = "active" /\ clock >= expiresAt[t] THEN "expired" ELSE status[t]

\* A token that no operation may ever accept again, whether or not some
\* operation has already written that into its record.
Dead(t) ==
  \/ status[t] \in {"revoked", "expired"}
  \/ status[t] = "active" /\ clock >= expiresAt[t]

--------------------------------------------------------------------------------
\* Lookup, Introspect and Resolve: read the record, applying expiry to it.
Read(t) ==
  /\ status' = IF Found(t) THEN [status EXCEPT ![t] = ApplyExpiry(t)] ELSE status
  /\ UNCHANGED <<clock, expiresAt, holder, idemToken, idemHash>>

RefreshAccepted(t) == Found(t) /\ ApplyExpiry(t) = "active"

\* Mutant: Refresh trusts the stored status and does not apply expiry first.
RefreshStale(t, ttl) ==
  /\ expiresAt' = IF Found(t) /\ status[t] = "active"
                    THEN [expiresAt EXCEPT ![t] = clock + ttl] ELSE expiresAt
  /\ UNCHANGED <<clock, status, holder, idemToken, idemHash>>

Refresh(t, ttl) ==
  /\ status' = IF Found(t) THEN [status EXCEPT ![t] = ApplyExpiry(t)] ELSE status
  /\ expiresAt' = IF RefreshAccepted(t)
                    THEN [expiresAt EXCEPT ![t] = clock + ttl] ELSE expiresAt
  /\ UNCHANGED <<clock, holder, idemToken, idemHash>>

\* Revoke applies expiry and then overwrites whatever status that left.
Revoke(t) ==
  /\ status' = IF Found(t) THEN [status EXCEPT ![t] = "revoked"] ELSE status
  /\ UNCHANGED <<clock, expiresAt, holder, idemToken, idemHash>>

\* Mutant: the lookup of the idempotency key always misses.
KeyLookupMisses(k) == FALSE

\* The three outcomes of the critical section of Issue.
KeyTaken(k)          == Found(idemToken[k])
IssueConflict(k, in) == idemToken[k] # NoToken /\ idemHash[k] # in
IssueReplay(k, in)   == ~IssueConflict(k, in) /\ KeyTaken(k)
IssueNew(k, in)      == ~IssueConflict(k, in) /\ ~KeyTaken(k)

\* Mutant: the idempotency entry is written with its two fields swapped.
SaveSwapped(k, in, t, issuedAt) ==
  /\ status[t] = "none"
  /\ status' = [status EXCEPT ![t] = "active"]
  /\ expiresAt' = [expiresAt EXCEPT ![t] = issuedAt + in.ttl]
  /\ holder' = [holder EXCEPT ![t] = in.holder]
  /\ idemToken' = [idemToken EXCEPT ![k] = in]
  /\ idemHash' = [idemHash EXCEPT ![k] = t]
  /\ UNCHANGED clock

\* InMemoryRuntimeStore.Save of the record built before the lock was taken.
Save(k, in, t, issuedAt) ==
  /\ status[t] = "none"
  /\ status' = [status EXCEPT ![t] = "active"]
  /\ expiresAt' = [expiresAt EXCEPT ![t] = issuedAt + in.ttl]
  /\ holder' = [holder EXCEPT ![t] = in.holder]
  /\ idemToken' = [idemToken EXCEPT ![k] = t]
  /\ idemHash' = [idemHash EXCEPT ![k] = in]
  /\ UNCHANGED clock

Tick ==
  /\ clock < MaxTime
  /\ clock' = clock + 1
  /\ UNCHANGED <<status, expiresAt, holder, idemToken, idemHash>>

\* Every way the store changes.
StoreNext ==
  \/ Tick
  \/ \E t \in Tokens \cup {NoToken} :
       Read(t) \/ Revoke(t) \/ \E ttl \in Nat : Refresh(t, ttl)
  \/ \E k \in Keys, in \in Input, t \in Tokens, issuedAt \in Nat :
       IssueNew(k, in) /\ Save(k, in, t, issuedAt)

--------------------------------------------------------------------------------
\* The life of each token as TokenLifecycle sees it.
LifeMap == [t \in Tokens |-> IF status[t] = "none" THEN "unissued"
                            ELSE IF Dead(t) THEN "dead" ELSE "live"]

Life == INSTANCE TokenLifecycle WITH life <- LifeMap
================================================================================
