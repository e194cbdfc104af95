-------------------------------- MODULE RateLimit --------------------------------
(***************************************************************************)
(* The limiters of the project, for one key: the token bucket and the      *)
(* sliding window of the gateway (gateway/internal/ratelimit) and the      *)
(* bucket of supply-api (middleware/ratelimit.go), which is never filled   *)
(* again.  A request takes the entry of the key out of the map under the   *)
(* lock of the limiter, releases it, and decides under the lock of the     *)
(* entry; in the gateway cleanup deletes entries of the map under both     *)
(* locks.  Between the two critical sections of Allow its entry may be     *)
(* deleted: the request then decides on an entry that no later request     *)
(* sees.  supply-api never deletes one, and makes a missing one in a       *)
(* critical section of its own.                                            *)
(*                                                                         *)
(* The names of this module and of ProviderRouting are their own (place,   *)
(* verdict, stage), so that GatewayProofs can extend both and GatewayAuth. *)
(*                                                                         *)
(* Tokens are counted in units of 1/Cost token, so that Rate units per     *)
(* clock unit is an integer.                                               *)
(***************************************************************************)
EXTENDS Integers, FiniteSets

CONSTANTS
  KeyReqs,     \* requests of the key
  Cost,        \* units of one token
  Rate,        \* tokensPerSec, in units per clock unit
  Burst,       \* maxTokens, in units
  MaxRequests, \* maxRequests of the window
  Window,      \* windowSize
  IdleAge,     \* the age at which the bucket cleanup deletes
  LastTime     \* bound of the clock

ASSUME RateLimitAssumption ==
  /\ IsFiniteSet(KeyReqs)
  /\ Cost \in Nat \ {0} /\ Rate \in Nat /\ Burst \in Nat
  /\ MaxRequests \in Nat /\ Window \in Nat \ {0} /\ IdleAge \in Nat /\ LastTime \in Nat

VARIABLES
  algorithm,   \* the limiter the configuration asks for
  time,
  entries,     \* every bucket or window made so far, by number
  current,     \* the entry in the map, 0 when the key is not in it
  made,        \* how many entries were made
  place,       \* where each request is
  entry,       \* the entry each request took out of the map
  verdict,     \* how it was answered
  admittedAt,  \* when it was admitted (history)
  orphaned     \* a request decided on an entry cleanup had deleted (history)

attemptVars == <<place, entry, verdict, admittedAt>>
limitVars   == <<algorithm, time, entries, current, made, attemptVars, orphaned>>

Ids == 1..Cardinality(KeyReqs)

\* A bucket uses tokens and lastRefill, a window requests.
Entry == [tokens : 0..Burst, lastRefill : 0..LastTime, requests : SUBSET (KeyReqs \X (0..LastTime))]

Algorithms == {"token_bucket", "sliding_window", "fixed_bucket"}

LimitTypeOK ==
  /\ algorithm \in Algorithms
  /\ time \in 0..LastTime
  /\ entries \in [Ids -> Entry]
  /\ current \in Ids \cup {0} /\ made \in Ids \cup {0}
  /\ place \in [KeyReqs -> {"idle", "make", "decide", "done"}]
  /\ entry \in [KeyReqs -> Ids \cup {0}]
  /\ verdict \in [KeyReqs -> {"none", "allowed", "limited"}]
  /\ admittedAt \in [KeyReqs -> 0..LastTime]
  /\ orphaned \in BOOLEAN

NewEntry == [tokens |-> Burst, lastRefill |-> time, requests |-> {}]

LimitInit ==
  /\ algorithm \in Algorithms
  /\ time = 0 /\ current = 0 /\ made = 0 /\ orphaned = FALSE
  /\ entries = [i \in Ids |-> [tokens |-> Burst, lastRefill |-> 0, requests |-> {}]]
  /\ place = [r \in KeyReqs |-> "idle"]
  /\ entry = [r \in KeyReqs |-> 0]
  /\ verdict = [r \in KeyReqs |-> "none"]
  /\ admittedAt = [r \in KeyReqs |-> 0]

--------------------------------------------------------------------------------
\* The entry of the map.
Take(r) ==
  /\ entry' = [entry EXCEPT ![r] = current]
  /\ UNCHANGED <<entries, current, made>>

\* A new entry, put into the map.
Make(r) ==
  /\ made' = made + 1
  /\ current' = made + 1
  /\ entries' = [entries EXCEPT ![made + 1] = NewEntry]
  /\ entry' = [entry EXCEPT ![r] = made + 1]

\* The first critical section of Allow: look the key up, or make its entry.
GetEntry(r) ==
  /\ algorithm # "fixed_bucket" /\ place[r] = "idle"
  /\ \/ current # 0 /\ Take(r)
     \/ current = 0 /\ Make(r)
  /\ place' = [place EXCEPT ![r] = "decide"]
  /\ UNCHANGED <<algorithm, time, verdict, admittedAt, orphaned>>

\* getBucket of supply-api under the read lock.
GetBucket(r) ==
  /\ algorithm = "fixed_bucket" /\ place[r] = "idle"
  /\ \/ current # 0 /\ Take(r) /\ place' = [place EXCEPT ![r] = "decide"]
     \/ /\ current = 0
        /\ place' = [place EXCEPT ![r] = "make"]
        /\ UNCHANGED <<entries, current, made, entry>>
  /\ UNCHANGED <<algorithm, time, verdict, admittedAt, orphaned>>

\* Mutant: the second lookup is missing.
MakeBucketAgain(r) ==
  /\ place[r] = "make"
  /\ Make(r)
  /\ place' = [place EXCEPT ![r] = "decide"]
  /\ UNCHANGED <<algorithm, time, verdict, admittedAt, orphaned>>

\* getBucket under the write lock: look again, then make it.
MakeBucket(r) ==
  /\ place[r] = "make"
  /\ \/ current # 0 /\ Take(r)
     \/ current = 0 /\ Make(r)
  /\ place' = [place EXCEPT ![r] = "decide"]
  /\ UNCHANGED <<algorithm, time, verdict, admittedAt, orphaned>>

\* Mutant: refill forgets the cap.
RefillUncapped(b) == b.tokens + (time - b.lastRefill) * Rate

\* refill: the tokens earned since lastRefill, at most maxTokens.
Refill(b) ==
  LET t == b.tokens + (time - b.lastRefill) * Rate IN IF t > Burst THEN Burst ELSE t

\* Mutant: requests age out of the window at half of its size.
RecentHalf(w, age) == {q \in w.requests : q[2] > time - age \div 2}

\* The requests of a window that are not older than age: t.After(now - age).
Recent(w, age) == {q \in w.requests : q[2] > time - age}

\* TokenBucketLimiter.AllowToken on entry i: refill, then take a token.
BucketAllows(i) == Refill(entries[i]) >= Cost

\* Mutant: lastRefill is not moved, elapsed time is credited again and again.
TakeTokenAgain(i) ==
  entries' = [entries EXCEPT ![i].tokens = Refill(entries[i]) - (IF BucketAllows(i) THEN Cost ELSE 0)]

TakeToken(i) ==
  entries' = [entries EXCEPT
    ![i].tokens = Refill(entries[i]) - (IF BucketAllows(i) THEN Cost ELSE 0),
    ![i].lastRefill = time]

\* SlidingWindowLimiter.Allow on entry i: drop old requests, then count.
WindowAllows(i) == Cardinality(Recent(entries[i], Window)) < MaxRequests

AddRequest(r, i) ==
  entries' = [entries EXCEPT ![i].requests =
    Recent(entries[i], Window) \cup (IF WindowAllows(i) THEN {<<r, time>>} ELSE {})]

\* TokenBucket.Allow of supply-api: the rate is 0, so refill adds nothing.
FixedAllows(i) == entries[i].tokens >= Cost

TakeFixed(i) ==
  entries' = [entries EXCEPT
    ![i].tokens = @ - (IF FixedAllows(i) THEN Cost ELSE 0), ![i].lastRefill = time]

\* Request r is let through or gets 429.
Verdict(r, allowed) ==
  /\ verdict' = [verdict EXCEPT ![r] = IF allowed THEN "allowed" ELSE "limited"]
  /\ admittedAt' = [admittedAt EXCEPT ![r] = IF allowed THEN time ELSE 0]

\* The second critical section, under the lock of the entry.
Decide(r) ==
  /\ place[r] = "decide"
  /\ \/ /\ algorithm = "token_bucket"
        /\ TakeToken(entry[r])
        /\ Verdict(r, BucketAllows(entry[r]))
     \/ /\ algorithm = "sliding_window"
        /\ AddRequest(r, entry[r])
        /\ Verdict(r, WindowAllows(entry[r]))
     \/ /\ algorithm = "fixed_bucket"
        /\ TakeFixed(entry[r])
        /\ Verdict(r, FixedAllows(entry[r]))
  /\ place' = [place EXCEPT ![r] = "done"]
  /\ orphaned' = (orphaned \/ entry[r] # current)
  /\ UNCHANGED <<algorithm, time, current, made, entry>>

\* TokenBucketLimiter.cleanup deletes a bucket that was full when it was last used.
CleanupBucket ==
  /\ algorithm = "token_bucket" /\ current # 0
  /\ IF entries[current].tokens >= Burst /\ time - entries[current].lastRefill > IdleAge
       THEN current' = 0 ELSE UNCHANGED current
  /\ UNCHANGED <<algorithm, time, entries, made, attemptVars, orphaned>>

\* SlidingWindowLimiter.cleanup deletes a window whose requests are all older than
\* twice the window, and drops the old requests of the others.
CleanupWindow ==
  LET w == entries[current]  valid == Recent(w, 2 * Window) IN
  /\ algorithm = "sliding_window" /\ current # 0
  /\ \/ /\ valid = {} /\ w.requests # {}
        /\ \A q \in w.requests : time - q[2] > 2 * Window
        /\ current' = 0
        /\ UNCHANGED entries
     \/ /\ \/ valid # {} \/ w.requests = {}
           \/ \E q \in w.requests : time - q[2] <= 2 * Window
        /\ entries' = [entries EXCEPT ![current].requests = valid]
        /\ UNCHANGED current
  /\ UNCHANGED <<algorithm, time, made, attemptVars, orphaned>>

TimePasses ==
  /\ time < LastTime
  /\ time' = time + 1
  /\ UNCHANGED <<algorithm, entries, current, made, attemptVars, orphaned>>

LimitNext ==
  \/ TimePasses \/ CleanupBucket \/ CleanupWindow
  \/ \E r \in KeyReqs : GetEntry(r) \/ GetBucket(r) \/ MakeBucket(r) \/ Decide(r)

LimitSpec == LimitInit /\ [][LimitNext]_limitVars

--------------------------------------------------------------------------------
\* The requests admitted from time s to time t.
Admitted(s, t) == {r \in KeyReqs : verdict[r] = "allowed" /\ admittedAt[r] \in s..t}

\* Over every interval the bucket admits at most its burst and what the interval
\* earned, unless a request was overtaken by cleanup between its critical sections.
BucketConforms ==
  algorithm = "token_bucket" /\ ~orphaned =>
    \A s \in 0..time, t \in 0..time : s <= t =>
      Cardinality(Admitted(s, t)) * Cost <= Burst + (t - s) * Rate

\* Every interval of the size of the window sees at most maxRequests, with the same
\* exception.
WindowConforms ==
  algorithm = "sliding_window" /\ ~orphaned =>
    \A s \in 0..time : Cardinality(Admitted(s, s + Window - 1)) <= MaxRequests

\* What RateLimitConfig calls Requests.
BucketRequests == Burst \div Cost

\* The bucket of supply-api keeps the limit of RateLimitConfig from above: every interval
\* of the size of the window sees at most Requests, however many requests find the
\* bucket missing at once, because two of them share one bucket.
FixedConforms ==
  algorithm = "fixed_bucket" =>
    \A s \in 0..time : Cardinality(Admitted(s, s + Window - 1)) <= BucketRequests

================================================================================
