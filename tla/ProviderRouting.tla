----------------------------- MODULE ProviderRouting -----------------------------
(***************************************************************************)
(* The gateway's router (gateway/internal/router/router.go) and the        *)
(* endpoints that use it (gateway/internal/handler/handler.go).  A request *)
(* selects a provider under the router's read lock, calls it with no lock  *)
(* held, and, on the chat endpoint only, reports the outcome under the     *)
(* write lock: other requests select and report in between.                *)
(*                                                                         *)
(* A failure rate is a float64 in the code.  Here it is that number in     *)
(* units of 1/Unit, rounded up.  What rounding loses is made up for by     *)
(* nondeterminism: FailedRate and RestoredRate hold every rounded value    *)
(* the exact new rate can have, so each sequence of rates of the code is   *)
(* one of the model, and "above 1/2" is the same for both.  With fewer     *)
(* than 220 units the rounding alone could hide a trip of the breaker.     *)
(*                                                                         *)
(* UpdateHealth is not modelled: only tests call it.                       *)
(***************************************************************************)
EXTENDS Integers, FiniteSets

CONSTANTS
  Providers,    \* the configured names
  Reported,     \* what each provider's ProviderName() returns
  Models,       \* the models requests ask for
  Supported,    \* the SupportedModels() of each provider
  Requests,     \* connections, each with one request after another
  Kinds,        \* which of "chat", "completion", "stream" are sent
  Strategy,     \* the strategy of the router
  Latencies,    \* the milliseconds a call may take
  Unit,         \* the precision of a failure rate
  HistoryCap    \* bound of the counters kept for the properties

Strategies == {"latency", "round_robin", "weighted", "availability"}

ASSUME ProviderRoutingAssumption ==
  /\ Supported \in [Providers -> SUBSET (Models \cup {"*"})]
  /\ DOMAIN Reported = Providers
  /\ Kinds \subseteq {"chat", "completion", "stream"}
  /\ Strategy \in Strategies
  /\ IsFiniteSet(Requests)
  /\ Latencies \subseteq Nat /\ \E l \in Latencies : \A k \in Latencies : k <= l
  /\ Unit \in Nat /\ Unit % 10 = 0 /\ Unit >= 220
  /\ HistoryCap \in Nat /\ HistoryCap >= 7

VARIABLES
  health,   \* the router's entry for each provider
  up,       \* whether the provider answers at all
  stage,    \* where each connection is
  kind,
  prov,     \* the provider selected
  result,   \* what its call returned, not yet reported
  ans,      \* the last answer on the connection
  failed,   \* failed chat calls that are filed under the provider (history)
  streak    \* failures reported in a row on its entry (history)

callVars   == <<stage, kind, prov, result, ans>>
routerVars == <<health, up, callVars, failed, streak>>

LatencyBound == CHOOSE l \in Latencies : \A k \in Latencies : k <= l

Health == [available : BOOLEAN, latency : 0..LatencyBound, rate : 0..Unit]
NoCall == [ok |-> FALSE, latency |-> 0]
Answers == {"none", "ok", "invalid", "no_provider", "aborted"}

\* Type correctness; the failure rate stays a fraction.
RouterTypeOK ==
  /\ health \in [Providers -> Health]
  /\ up \in [Providers -> BOOLEAN]
  /\ stage \in [Requests -> {"idle", "calling", "returned"}]
  /\ kind \in [Requests -> Kinds \cup {"none"}]
  /\ prov \in [Requests -> Providers \cup {"none"}]
  /\ result \in [Requests -> [ok : BOOLEAN, latency : Latencies \cup {0}]]
  /\ ans \in [Requests -> Answers]
  /\ failed \in [Providers -> 0..HistoryCap]
  /\ streak \in [Providers -> 0..HistoryCap]

\* RegisterProvider, for every configured provider, before the server starts.
RouterInit ==
  /\ health = [p \in Providers |-> [available |-> TRUE, latency |-> 0, rate |-> 0]]
  /\ up = [p \in Providers |-> TRUE]
  /\ stage = [r \in Requests |-> "idle"]
  /\ kind = [r \in Requests |-> "none"]
  /\ prov = [r \in Requests |-> "none"]
  /\ result = [r \in Requests |-> NoCall]
  /\ ans = [r \in Requests |-> "none"]
  /\ failed = [p \in Providers |-> 0]
  /\ streak = [p \in Providers |-> 0]

------------------------------------------------------------------------------
(***************************************************************************)
(* Selection.                                                              *)
(***************************************************************************)
IsProviderAvailable(p, m) ==
  /\ health[p].available
  /\ Supported[p] \cap {m, "*"} # {}

Candidates(m) == {p \in Providers : IsProviderAvailable(p, m)}

\* The strict comparison keeps the first of equals, and candidates come in
\* the order of a Go map: any of the equals may be chosen.
SelectByLatency(C) ==
  {p \in C : \A q \in C : health[p].latency <= health[q].latency}

SelectByAvailability(C) ==
  {p \in C : \A q \in C : health[p].rate <= health[q].rate}

\* The order of a Go map differs at every call, so the round-robin counter
\* may point at any candidate; the weights are all 1 and the draw is random.
Select(C) ==
  CASE Strategy = "latency"      -> SelectByLatency(C)
    [] Strategy = "availability" -> SelectByAvailability(C)
    [] OTHER                     -> C

------------------------------------------------------------------------------
(***************************************************************************)
(* RecordResult.                                                           *)
(***************************************************************************)
CeilDiv(a, b) == (a + b - 1) \div b

\* The moving average, from the first measurement on.
NewLatency(l, ms) ==
  IF ms = 0 THEN l ELSE IF l = 0 THEN ms ELSE (7 * l + ms) \div 8

\* Mutants of FailedRate: a step of 0.05, and one of 0.2.
FailedRateSlow(r) == {CeilDiv(18 * r + Unit, 20)}
FailedRateFast(r) == {CeilDiv(9 * r + 2 * Unit, 10)}

\* rate * 0.9 + 0.1, where the exact rate may be anything down to one unit
\* below the rounded one.
FailedRate(r) ==
  LET up9 == CeilDiv(9 * r + Unit, 10)
  IN  IF r = 0 THEN {up9} ELSE {up9 - 1, up9}

\* Mutant of RestoredRate: a success takes off a fixed 0.1.
RestoredRateLinear(r) == {r - Unit \div 10}

\* rate * 0.5, and 0 when that is below 0.01.
RestoredRate(r) ==
  LET half == CeilDiv(r, 2)
  IN  {n \in {half} : n * 100 >= Unit} \cup {n \in {0} : (half - 1) * 100 < Unit}

\* The entry after one report, given the new rate: only ever switched off.
Updated(h, rate, ms) ==
  [available |-> h.available /\ 2 * rate <= Unit,
   latency   |-> NewLatency(h.latency, ms),
   rate      |-> rate]

Capped(n) == IF n > HistoryCap THEN HistoryCap ELSE n

\* The entry is looked up by the name the adapter reports; without one the
\* report is dropped.
RecordResult(name, ok, ms) ==
  IF name \notin Providers THEN UNCHANGED <<health, streak>>
  ELSE /\ \E rate \in (IF ok THEN RestoredRate(health[name].rate)
                             ELSE FailedRate(health[name].rate)) :
            health' = [health EXCEPT ![name] = Updated(@, rate, ms)]
       /\ streak' = [streak EXCEPT ![name] = IF ok THEN 0 ELSE Capped(@ + 1)]

------------------------------------------------------------------------------
(***************************************************************************)
(* ChatCompletionsHandle, CompletionsHandle, handleStream.                 *)
(***************************************************************************)
\* A body that does not decode, is too long or has no message.
Refuse(r) ==
  /\ stage[r] = "idle"
  /\ ans' = [ans EXCEPT ![r] = "invalid"]
  /\ UNCHANGED <<health, up, stage, kind, prov, result, failed, streak>>

\* A well-formed request of kind k for model m, up to the call.
Accept(r) ==
  /\ stage[r] = "idle"
  /\ \E k \in Kinds, m \in Models :
       \/ /\ Candidates(m) = {}
          /\ ans' = [ans EXCEPT ![r] = "no_provider"]
          /\ UNCHANGED <<stage, kind, prov>>
       \/ /\ \E p \in Select(Candidates(m)) : prov' = [prov EXCEPT ![r] = p]
          /\ stage' = [stage EXCEPT ![r] = "calling"]
          /\ kind' = [kind EXCEPT ![r] = k]
          /\ UNCHANGED ans
  /\ UNCHANGED <<health, up, result, failed, streak>>

\* What the client gets: the handlers assert that the adapter's error is a
\* *GatewayError, which it never is; the assertion panics, and net/http closes
\* the connection without an answer.
Reply(ok) == IF ok THEN "ok" ELSE "aborted"

\* The end of a handler, whose variables are gone with it.
Finish(r, ok) ==
  /\ ans' = [ans EXCEPT ![r] = Reply(ok)]
  /\ stage' = [stage EXCEPT ![r] = "idle"]
  /\ kind' = [kind EXCEPT ![r] = "none"]
  /\ prov' = [prov EXCEPT ![r] = "none"]
  /\ result' = [result EXCEPT ![r] = NoCall]

\* The call returns.  A provider that is down fails every call, one that is
\* up may still fail one.  Only the chat endpoint has anything left to do.
Return(r) ==
  /\ stage[r] = "calling"
  /\ \E ok \in BOOLEAN, ms \in Latencies :
       /\ ok => up[prov[r]]
       /\ IF kind[r] = "chat"
          THEN /\ stage' = [stage EXCEPT ![r] = "returned"]
               /\ result' = [result EXCEPT ![r] = [ok |-> ok, latency |-> ms]]
               /\ failed' = IF ok THEN failed
                            ELSE [failed EXCEPT ![Reported[prov[r]]] = Capped(@ + 1)]
               /\ UNCHANGED <<ans, kind, prov>>
          ELSE Finish(r, ok) /\ UNCHANGED failed
  /\ UNCHANGED <<health, up, streak>>

\* The outcome of a chat call is reported, then answered.
Report(r) ==
  /\ stage[r] = "returned"
  /\ RecordResult(Reported[prov[r]], result[r].ok, result[r].latency)
  /\ Finish(r, result[r].ok)
  /\ UNCHANGED <<up, failed>>

\* External: a provider goes down or comes back.
Toggle(p) ==
  /\ up' = [up EXCEPT ![p] = ~@]
  /\ UNCHANGED <<health, callVars, failed, streak>>

RouterNext ==
  \/ \E r \in Requests : Refuse(r) \/ Accept(r) \/ Return(r) \/ Report(r)
  \/ \E p \in Providers : Toggle(p)

RouterSpec == RouterInit /\ [][RouterNext]_routerVars

\* Clients keep sending well-formed requests; a call returns, because the
\* adapter's client has a timeout; and a handler runs on once it has returned.
RouterFairSpec ==
  RouterSpec /\ \A r \in Requests :
    WF_routerVars(Accept(r)) /\ WF_routerVars(Return(r)) /\ WF_routerVars(Report(r))

------------------------------------------------------------------------------
(***************************************************************************)
(* Properties.                                                             *)
(***************************************************************************)
\* Seven failures reported in a row take a provider out of the rotation,
\* whatever was reported before them and in whatever order the reports of
\* overlapping calls arrive (router_test.go counts the seven from rate 0).
SevenInARowTrip == \A p \in Providers : streak[p] >= 7 => ~health[p].available

\* The providers whose results RecordResult files under p.
FiledUnder(p) == {q \in Providers : Reported[q] = p}

\* A provider is out of the rotation only if at least seven chat calls whose results
\* are filed under its name have failed: no smaller number takes the rate above
\* 1/2.  With OpenAI adapters, which all report one name, that provider pays for
\* the failures of the others, and they are never taken out.
DroppedAfterSevenFailures ==
  \A p \in Providers : ~health[p].available => failed[p] >= 7

\* When every provider that is filed under p is down for good, p gets only
\* finitely many chat calls: however fast the failures are, and however p
\* compared with the others before, the reports take it out of the rotation.
DeadProviderLeftAlone ==
  \A p \in Providers :
    Reported[p] = p /\ <>[](\A q \in FiledUnder(p) : ~up[q])
      => <>[](\A r \in Requests : ~(stage[r] = "calling" /\ kind[r] = "chat" /\ prov[r] = p))

==============================================================================
