------------------------------ MODULE GatewayProofs ------------------------------
(***************************************************************************)
(* The proofs about the gateway: its limiters (and the one of supply-api,  *)
(* which RateLimit models with them), its authentication and its router.   *)
(* The three specifications share no constant, variable or definition, and *)
(* every theorem is about one of them.                                     *)
(***************************************************************************)
EXTENDS GatewayAuth, RateLimit, ProviderRouting, FiniteSetTheorems, TLAPS

--------------------------------------------------------------------------------
(***************************************************************************)
(* The limiters of both services (RateLimit), for any requests and limits. *)
(***************************************************************************)
\* What every limiter keeps: a request holds an entry from its first critical
\* section on and never before, so there are no more entries than requests that
\* hold one; nothing is dated later than now.
Shape ==
  /\ current <= made
  /\ made <= Cardinality({r \in KeyReqs : entry[r] # 0})
  /\ \A r \in KeyReqs :
       /\ place[r] \in {"idle", "make"} => entry[r] = 0
       /\ place[r] \in {"decide", "done"} => entry[r] \in 1..made
       /\ place[r] # "done" => verdict[r] = "none"
       /\ admittedAt[r] <= time
  /\ \A i \in Ids : entries[i].lastRefill <= time

\* The level of the bucket in the map and the time it is the level of: a bucket
\* that is not in the map is a full one.
Level   == IF current = 0 THEN Burst ELSE entries[current].tokens
LevelAt == IF current = 0 THEN time ELSE entries[current].lastRefill

\* What was admitted since s and what is left in the bucket is at most a full
\* bucket and what it earned since s.
BucketBudget ==
  algorithm = "token_bucket" /\ ~orphaned =>
    /\ \A r \in KeyReqs : verdict[r] = "allowed" => admittedAt[r] <= LevelAt
    /\ \A s \in 0..LevelAt :
         Cardinality(Admitted(s, time)) * Cost + Level <= Burst + (LevelAt - s) * Rate

\* The window in the map remembers every request admitted less than its size ago.
WindowRemembers ==
  algorithm = "sliding_window" /\ ~orphaned =>
    \A r \in KeyReqs : verdict[r] = "allowed" /\ admittedAt[r] > time - Window =>
      current # 0 /\ <<r, admittedAt[r]>> \in entries[current].requests

\* There is one fixed bucket, made once; what it gave out and what is left in it
\* is at most what it was filled with.
FixedBudget ==
  algorithm = "fixed_bucket" =>
    /\ made <= 1 /\ current = made
    /\ made = 1 =>
         Cardinality({r \in KeyReqs : verdict[r] = "allowed"}) * Cost + entries[1].tokens <= Burst

LimitInv ==
  /\ LimitTypeOK /\ Shape
  /\ BucketBudget /\ BucketConforms
  /\ WindowRemembers /\ WindowConforms
  /\ FixedBudget

--------------------------------------------------------------------------------
\* Sets of requests are finite, and a larger set has no smaller cardinality.
LEMMA ReqSets ==
  ASSUME NEW S \in SUBSET KeyReqs, NEW T \in SUBSET S
  PROVE  /\ IsFiniteSet(S) /\ Cardinality(S) \in Nat
         /\ Cardinality(T) \in Nat /\ Cardinality(T) <= Cardinality(S)
<1>1. IsFiniteSet(KeyReqs)
  BY RateLimitAssumption
<1>2. IsFiniteSet(S) /\ IsFiniteSet(T)
  BY <1>1, FS_Subset
<1> QED BY <1>2, FS_Subset, FS_CardinalityType

\* One more request adds at most one to the cardinality.
LEMMA OneMore ==
  ASSUME NEW S \in SUBSET KeyReqs, NEW r \in KeyReqs, NEW T \in SUBSET (S \cup {r})
  PROVE  Cardinality(T) <= Cardinality(S) + 1
<1>1. IsFiniteSet(S) /\ Cardinality(S) \in Nat
  BY ReqSets
<1>2. Cardinality(S \cup {r}) <= Cardinality(S) + 1 /\ Cardinality(S \cup {r}) \in Nat
  <2>1. Cardinality(S \cup {r}) = IF r \in S THEN Cardinality(S) ELSE Cardinality(S) + 1
    BY <1>1, FS_AddElement
  <2> QED BY <1>1, <2>1
<1>3. Cardinality(T) \in Nat /\ Cardinality(T) <= Cardinality(S \cup {r})
  BY ReqSets
<1> QED BY <1>1, <1>2, <1>3

\* The cardinality of a set of admitted requests is a number.
LEMMA AdmittedCard ==
  ASSUME NEW s, NEW t
  PROVE  /\ Cardinality(Admitted(s, t)) \in Nat
         /\ Admitted(s, t) = {} => Cardinality(Admitted(s, t)) = 0
<1>1. Admitted(s, t) \in SUBSET KeyReqs
  BY DEF Admitted
<1> QED BY <1>1, ReqSets, FS_EmptySet

\* The identifiers, and the number of entries that can still be made.
LEMMA IdsFact ==
  /\ Cardinality(KeyReqs) \in Nat
  /\ \A i : i \in Ids <=> i \in Nat /\ i > 0 /\ i <= Cardinality(KeyReqs)
<1>1. Cardinality(KeyReqs) \in Nat
  BY ReqSets
<1> QED BY <1>1 DEF Ids

\* The invariant holds initially.
LEMMA LimitInvInit == LimitInit => LimitInv
<1> SUFFICES ASSUME LimitInit PROVE LimitInv
  OBVIOUS
<1> USE RateLimitAssumption DEF LimitInit
<1>1. LimitTypeOK
  <2>1. [tokens |-> Burst, lastRefill |-> 0, requests |-> {}] \in Entry
    BY DEF Entry
  <2>2. entries \in [Ids -> Entry]
    BY <2>1
  <2>3. time \in 0..LastTime /\ algorithm \in Algorithms
    OBVIOUS
  <2>6. orphaned \in BOOLEAN
    BY Zenon
  <2>4. /\ place \in [KeyReqs -> {"idle", "make", "decide", "done"}]
        /\ verdict \in [KeyReqs -> {"none", "allowed", "limited"}]
    OBVIOUS
  <2>5. entry \in [KeyReqs -> Ids \cup {0}] /\ admittedAt \in [KeyReqs -> 0..LastTime]
    OBVIOUS
  <2> QED BY <2>2, <2>3, <2>4, <2>5, <2>6 DEF LimitTypeOK
<1>2. Shape
  <2>1. {r \in KeyReqs : entry[r] # 0} = {}
    OBVIOUS
  <2> QED BY <2>1, FS_EmptySet DEF Shape
<1>3. \A s, t : Admitted(s, t) = {}
  BY DEF Admitted
<1>4. \A s, t : Cardinality(Admitted(s, t)) = 0
  BY <1>3, AdmittedCard
<1>5. BucketBudget
  BY <1>4 DEF BucketBudget, LevelAt, Level
<1>6. BucketConforms /\ WindowConforms
  BY <1>4 DEF BucketConforms, WindowConforms
<1>7. WindowRemembers /\ FixedBudget
  BY DEF WindowRemembers, FixedBudget
<1> QED BY <1>1, <1>2, <1>5, <1>6, <1>7 DEF LimitInv

--------------------------------------------------------------------------------
\* The first critical section, of either service: a request without an entry takes
\* the one in the map or makes it.
TakesEntry(r) ==
  /\ place[r] \in {"idle", "make"}
  /\ \/ current # 0 /\ Take(r)
     \/ current = 0 /\ Make(r)
  /\ place' = [place EXCEPT ![r] = "decide"]
  /\ UNCHANGED <<algorithm, time, verdict, admittedAt, orphaned>>

\* There is room for the entry of a request that has none yet.
LEMMA RoomForEntry ==
  ASSUME LimitTypeOK, Shape, NEW r \in KeyReqs, entry[r] = 0
  PROVE  made + 1 \in Ids
<1> DEFINE H == {q \in KeyReqs : entry[q] # 0}
<1>1. H \in SUBSET (KeyReqs \ {r})
  OBVIOUS
<1>2. Cardinality(KeyReqs \ {r}) = Cardinality(KeyReqs) - 1 /\ IsFiniteSet(KeyReqs)
  BY RateLimitAssumption, FS_RemoveElement
<1>3. Cardinality(H) \in Nat /\ Cardinality(H) <= Cardinality(KeyReqs \ {r})
  BY <1>1, ReqSets
<1>4. made \in Nat /\ made <= Cardinality(H)
  BY IdsFact DEF LimitTypeOK, Shape
<1> HIDE DEF H
<1> QED BY <1>2, <1>3, <1>4, IdsFact

\* Taking or making an entry keeps the types and the shape.
LEMMA TakesKeepsShape ==
  ASSUME LimitTypeOK, Shape, NEW r \in KeyReqs, TakesEntry(r)
  PROVE  LimitTypeOK' /\ Shape'
<1>0. entry[r] = 0
  BY DEF Shape, TakesEntry
<1>1. CASE current # 0 /\ Take(r)
  <2>1. LimitTypeOK'
    BY <1>1 DEF LimitTypeOK, TakesEntry, Take
  <2>2. {q \in KeyReqs : entry[q] # 0} \in SUBSET ({q \in KeyReqs : entry[q] # 0}')
    BY <1>1 DEF LimitTypeOK, TakesEntry, Take
  <2>3. Cardinality({q \in KeyReqs : entry[q] # 0}) <= Cardinality({q \in KeyReqs : entry[q] # 0}')
        /\ Cardinality({q \in KeyReqs : entry[q] # 0}) \in Nat
        /\ Cardinality({q \in KeyReqs : entry[q] # 0}') \in Nat
    BY <2>2, ReqSets
  <2>4. made' <= Cardinality({q \in KeyReqs : entry[q] # 0}')
    BY <1>1, <2>3, IdsFact DEF LimitTypeOK, Shape, TakesEntry, Take
  <2>5. current \in 1..made
    BY <1>1, IdsFact DEF LimitTypeOK, Shape
  <2> QED BY <1>1, <2>1, <2>4, <2>5 DEF LimitTypeOK, Shape, TakesEntry, Take
<1>2. CASE current = 0 /\ Make(r)
  <2>0. made + 1 \in Ids /\ made \in Nat
    BY <1>0, RoomForEntry, IdsFact DEF LimitTypeOK
  <2>1. NewEntry \in Entry
    BY RateLimitAssumption DEF NewEntry, Entry, LimitTypeOK
  <2>2. LimitTypeOK'
    BY <1>2, <2>0, <2>1 DEF LimitTypeOK, TakesEntry, Make
  <2> DEFINE H == {q \in KeyReqs : entry[q] # 0}
             G == {q \in KeyReqs : entry'[q] # 0}
  <2>3. G = H \cup {r} /\ r \notin H
    BY <1>0, <1>2, <2>0 DEF LimitTypeOK, TakesEntry, Make
  <2>4. Cardinality(G) = Cardinality(H) + 1 /\ Cardinality(H) \in Nat
    <3>1. IsFiniteSet(H) /\ Cardinality(H) \in Nat
      BY ReqSets
    <3> HIDE DEF G, H
    <3> QED BY <3>1, <2>3, FS_AddElement
  <2>5. made' <= Cardinality({q \in KeyReqs : entry[q] # 0}')
    <3>1. made <= Cardinality(H) /\ made' = made + 1
      BY <1>2 DEF Shape, Make
    <3>2. made' <= Cardinality(G)
      <4> HIDE DEF G, H
      <4> QED BY <2>0, <2>4, <3>1
    <3> QED BY <3>2
  <2>6. ASSUME NEW i \in Ids PROVE entries'[i].lastRefill <= time
    BY <1>2, <2>0 DEF Shape, LimitTypeOK, Make, NewEntry
  <2>7. \A q \in KeyReqs : /\ place'[q] \in {"idle", "make"} => entry'[q] = 0
                           /\ place'[q] \in {"decide", "done"} => entry'[q] \in 1..(made + 1)
                           /\ place'[q] # "done" => verdict'[q] = "none"
                           /\ admittedAt'[q] <= time'
    BY <1>2, <2>0 DEF LimitTypeOK, Shape, TakesEntry, Make
  <2> QED BY <1>2, <2>0, <2>2, <2>5, <2>6, <2>7 DEF Shape, Make, TakesEntry
<1> QED BY <1>1, <1>2 DEF TakesEntry

\* It keeps the invariant: a new bucket is full, as a missing one is.
LEMMA TakesKeeps ==
  ASSUME LimitInv, NEW r \in KeyReqs, TakesEntry(r)
  PROVE  LimitInv'
<1> USE DEF LimitInv
<1>1. LimitTypeOK' /\ Shape'
  BY TakesKeepsShape
<1>2. \A s, t : Admitted(s, t)' = Admitted(s, t)
  BY DEF TakesEntry, Admitted
<1>3. BucketConforms' /\ WindowConforms'
  BY <1>2 DEF BucketConforms, WindowConforms, TakesEntry
<1>4. CASE current # 0 /\ Take(r)
  <2>1. UNCHANGED <<algorithm, time, entries, current, made, verdict, admittedAt, orphaned>>
    BY <1>4 DEF TakesEntry, Take
  <2>2. BucketBudget' /\ WindowRemembers' /\ FixedBudget'
    BY <1>2, <2>1 DEF BucketBudget, WindowRemembers, FixedBudget, LevelAt, Level
  <2> QED BY <1>1, <1>3, <2>2
<1>5. CASE current = 0 /\ Make(r)
  <2>0. made + 1 \in Ids /\ made \in Nat /\ entry[r] = 0 /\ made + 1 # 0
    BY RoomForEntry, IdsFact DEF LimitTypeOK, Shape, TakesEntry
  <2>1. current' = made + 1 /\ entries'[made + 1] = NewEntry /\ made' = made + 1
    BY <1>5, <2>0 DEF Make, LimitTypeOK
  <2>2. Level' = Burst /\ LevelAt' = time /\ Level = Burst /\ LevelAt = time
    BY <1>5, <2>0, <2>1 DEF Level, LevelAt, NewEntry
  <2>3. BucketBudget'
    BY <1>2, <2>2 DEF BucketBudget, TakesEntry
  <2>4. WindowRemembers'
    BY <1>5 DEF WindowRemembers, TakesEntry
  <2>5. FixedBudget'
    <3>1. SUFFICES ASSUME algorithm = "fixed_bucket" PROVE FixedBudget'
      BY DEF FixedBudget, TakesEntry
    <3>2. made = 0
      BY <1>5, <3>1 DEF FixedBudget
    <3>3. \A q \in KeyReqs : verdict[q] = "none"
      BY <2>0, <3>2 DEF LimitTypeOK, Shape
    <3>4. {q \in KeyReqs : verdict[q] = "allowed"}' = {}
      BY <3>3 DEF TakesEntry
    <3>5. Cardinality({q \in KeyReqs : verdict[q] = "allowed"}') = 0
      BY <3>4, FS_EmptySet
    <3> QED BY <2>1, <3>2, <3>5, RateLimitAssumption DEF FixedBudget, NewEntry
  <2> QED BY <1>1, <1>3, <2>3, <2>4, <2>5
<1> QED BY <1>4, <1>5 DEF TakesEntry

\* getBucket of supply-api that finds no bucket changes nothing but its own place.
LEMMA MissesKeeps ==
  ASSUME LimitInv, NEW r \in KeyReqs, place[r] = "idle", place' = [place EXCEPT ![r] = "make"],
         UNCHANGED <<algorithm, time, entries, current, made, entry, verdict, admittedAt, orphaned>>
  PROVE  LimitInv'
<1>1. LimitTypeOK'
  BY DEF LimitInv, LimitTypeOK
<1>2. Shape'
  BY DEF LimitInv, LimitTypeOK, Shape
<1>3. \A s, t : Admitted(s, t)' = Admitted(s, t)
  BY DEF Admitted
<1>4. BucketBudget' /\ BucketConforms' /\ WindowRemembers' /\ WindowConforms' /\ FixedBudget'
  BY <1>3 DEF LimitInv, BucketBudget, BucketConforms, WindowRemembers, WindowConforms,
              FixedBudget, LevelAt, Level
<1> QED BY <1>1, <1>2, <1>4 DEF LimitInv

--------------------------------------------------------------------------------
\* Time passes: nothing was admitted in the future, so the new moment adds nothing
\* to any interval, and a bucket that is not in the map stays full.
LEMMA TimePassesKeeps ==
  ASSUME LimitInv, TimePasses
  PROVE  LimitInv'
<1> USE RateLimitAssumption DEF LimitInv
<1>0. /\ time \in Nat /\ time' = time + 1 /\ time' \in 0..LastTime
      /\ UNCHANGED <<algorithm, entries, current, made, place, entry, verdict, admittedAt, orphaned>>
  BY DEF TimePasses, LimitTypeOK, attemptVars
<1>1. LimitTypeOK'
  BY <1>0 DEF LimitTypeOK
<1>2. Shape'
  <2>1. \A r \in KeyReqs : admittedAt[r] \in Nat
    BY DEF LimitTypeOK
  <2>2. \A i \in Ids : entries[i].lastRefill \in Nat
    BY DEF LimitTypeOK, Entry
  <2> QED BY <1>0, <2>1, <2>2 DEF Shape
<1>3. \A s, t : Admitted(s, t)' = Admitted(s, t)
  BY <1>0 DEF Admitted
<1>4. \A s : Admitted(s, time + 1) = Admitted(s, time)
  BY <1>0 DEF Admitted, Shape, LimitTypeOK
<1>5. Cardinality(Admitted(time + 1, time + 1)) = 0
  <2>1. Admitted(time + 1, time + 1) = {}
    BY <1>0 DEF Admitted, Shape, LimitTypeOK
  <2> QED BY <2>1, FS_EmptySet
<1>6. BucketBudget'
  <2>1. SUFFICES ASSUME algorithm = "token_bucket", ~orphaned
                 PROVE  /\ \A r \in KeyReqs : verdict[r] = "allowed" => admittedAt[r] <= LevelAt'
                        /\ \A s \in 0..LevelAt' :
                             Cardinality(Admitted(s, time + 1)) * Cost + Level'
                               <= Burst + (LevelAt' - s) * Rate
    BY <1>0, <1>3 DEF BucketBudget
  <2>2. CASE current = 0
    <3>1. LevelAt = time /\ LevelAt' = time + 1 /\ Level = Burst /\ Level' = Burst
      BY <1>0, <2>2 DEF Level, LevelAt
    <3>2. \A r \in KeyReqs : verdict[r] = "allowed" => admittedAt[r] <= LevelAt'
      BY <1>0, <3>1 DEF Shape, LimitTypeOK
    <3>3. ASSUME NEW s \in 0..LevelAt'
          PROVE  Cardinality(Admitted(s, time + 1)) * Cost + Level' <= Burst + (LevelAt' - s) * Rate
      <4>1. CASE s = time + 1
        BY <1>0, <1>5, <3>1, <4>1
      <4>2. CASE s # time + 1
        <5>1. Cardinality(Admitted(s, time)) * Cost + Burst <= Burst + (time - s) * Rate
          BY <1>0, <2>1, <3>1, <4>2 DEF BucketBudget
        <5>2. (time - s) * Rate <= (time + 1 - s) * Rate
          BY <1>0, <3>1, <4>2
        <5>3. Cardinality(Admitted(s, time)) * Cost \in Nat
          BY AdmittedCard
        <5> QED BY <1>0, <1>4, <3>1, <5>1, <5>2, <5>3
      <4> QED BY <4>1, <4>2
    <3> QED BY <3>2, <3>3
  <2>3. CASE current # 0
    <3>1. Level' = Level /\ LevelAt' = LevelAt
      BY <1>0, <2>3 DEF Level, LevelAt
    <3> QED BY <1>4, <2>1, <3>1 DEF BucketBudget
  <2> QED BY <2>2, <2>3
<1>7. BucketConforms'
  <2>1. SUFFICES ASSUME algorithm = "token_bucket", ~orphaned,
                        NEW s \in 0..(time + 1), NEW t \in 0..(time + 1), s <= t
                 PROVE  Cardinality(Admitted(s, t)) * Cost <= Burst + (t - s) * Rate
    BY <1>0, <1>3 DEF BucketConforms
  <2>2. CASE t <= time
    BY <1>0, <2>1, <2>2 DEF BucketConforms
  <2>3. CASE t = time + 1 /\ s = time + 1
    BY <1>0, <1>5, <2>3
  <2>4. CASE t = time + 1 /\ s <= time
    <3>1. Cardinality(Admitted(s, time)) * Cost <= Burst + (time - s) * Rate
      BY <1>0, <2>1, <2>4 DEF BucketConforms
    <3>2. (time - s) * Rate <= (t - s) * Rate /\ (t - s) * Rate \in Nat /\ (time - s) * Rate \in Nat
      BY <1>0, <2>4
    <3>3. Cardinality(Admitted(s, time)) * Cost \in Nat
      BY AdmittedCard
    <3> QED BY <1>4, <2>4, <3>1, <3>2, <3>3
  <2> QED BY <1>0, <2>2, <2>3, <2>4
<1>8. WindowRemembers'
  BY <1>0 DEF WindowRemembers, LimitTypeOK
<1>9. WindowConforms'
  <2>1. SUFFICES ASSUME algorithm = "sliding_window", ~orphaned, NEW s \in 0..(time + 1)
                 PROVE  Cardinality(Admitted(s, s + Window - 1)) <= MaxRequests
    BY <1>0, <1>3 DEF WindowConforms
  <2>2. CASE s <= time
    BY <1>0, <2>1, <2>2 DEF WindowConforms
  <2>3. CASE s = time + 1
    <3>1. Admitted(s, s + Window - 1) = {}
      BY <1>0, <2>3 DEF Admitted, Shape, LimitTypeOK
    <3> QED BY <3>1, FS_EmptySet
  <2> QED BY <1>0, <2>2, <2>3
<1>10. FixedBudget'
  BY <1>0 DEF FixedBudget
<1> QED BY <1>1, <1>2, <1>6, <1>7, <1>8, <1>9, <1>10

--------------------------------------------------------------------------------
\* cleanup of the bucket limiter: the bucket it deletes is full, and a missing bucket
\* counts as a full one.
LEMMA CleanupBucketKeeps ==
  ASSUME LimitInv, CleanupBucket
  PROVE  LimitInv'
<1> USE RateLimitAssumption DEF LimitInv
<1>0. /\ algorithm = "token_bucket" /\ current # 0
      /\ UNCHANGED <<algorithm, time, entries, made, place, entry, verdict, admittedAt, orphaned>>
  BY DEF CleanupBucket, attemptVars
<1>1. \A s, t : Admitted(s, t)' = Admitted(s, t)
  BY <1>0 DEF Admitted
<1>2. CASE UNCHANGED current
  BY <1>0, <1>1, <1>2 DEF LimitTypeOK, Shape, BucketBudget, BucketConforms, WindowRemembers,
                          WindowConforms, FixedBudget, Level, LevelAt
<1>3. CASE current' = 0 /\ entries[current].tokens >= Burst
  <2>1. LimitTypeOK' /\ Shape'
    BY <1>0, <1>3, IdsFact DEF LimitTypeOK, Shape
  <2>2. BucketConforms' /\ WindowRemembers' /\ WindowConforms' /\ FixedBudget'
    BY <1>0, <1>1 DEF BucketConforms, WindowRemembers, WindowConforms, FixedBudget
  <2>3. BucketBudget'
    <3>1. SUFFICES ASSUME ~orphaned
                   PROVE  /\ \A r \in KeyReqs : verdict[r] = "allowed" => admittedAt[r] <= time
                          /\ \A s \in 0..time :
                               Cardinality(Admitted(s, time)) * Cost + Burst
                                 <= Burst + (time - s) * Rate
      BY <1>0, <1>1, <1>3 DEF BucketBudget, Level, LevelAt
    <3>2. \A r \in KeyReqs : verdict[r] = "allowed" => admittedAt[r] <= time
      BY DEF Shape
    <3>3. current \in Ids /\ entries[current] \in Entry
      BY <1>0 DEF LimitTypeOK
    <3>4. Level = Burst /\ LevelAt \in 0..time
      <4>1. entries[current].tokens \in 0..Burst /\ entries[current].lastRefill \in Nat
        BY <3>3 DEF Entry
      <4>2. entries[current].lastRefill <= time /\ time \in Nat
        BY <3>3 DEF Shape, LimitTypeOK
      <4> QED BY <1>0, <1>3, <4>1, <4>2 DEF Level, LevelAt
    <3>5. ASSUME NEW s \in 0..time
          PROVE  Cardinality(Admitted(s, time)) * Cost <= (time - s) * Rate
      <4>0. time \in Nat
        BY DEF LimitTypeOK
      <4>1. CASE s <= LevelAt
        <5>1. Cardinality(Admitted(s, time)) * Cost + Burst <= Burst + (LevelAt - s) * Rate
          BY <1>0, <3>1, <3>4, <4>1 DEF BucketBudget
        <5>2. (LevelAt - s) * Rate <= (time - s) * Rate /\ (LevelAt - s) * Rate \in Nat
              /\ (time - s) * Rate \in Nat
          <6>1. LevelAt - s \in Nat /\ time - s \in Nat /\ LevelAt - s <= time - s
            BY <3>4, <4>0, <4>1
          <6> QED BY <6>1
        <5>3. Cardinality(Admitted(s, time)) * Cost \in Nat
          BY AdmittedCard
        <5> QED BY <5>1, <5>2, <5>3
      <4>2. CASE s > LevelAt
        <5>1. Admitted(s, time) = {}
          BY <1>0, <3>1, <3>4, <4>2 DEF BucketBudget, Admitted, LimitTypeOK
        <5>2. (time - s) * Rate \in Nat
          BY <4>0
        <5> QED BY <5>1, <5>2, FS_EmptySet
      <4> QED BY <3>4, <4>0, <4>1, <4>2
    <3>6. \A s \in 0..time : /\ Cardinality(Admitted(s, time)) * Cost \in Nat
                             /\ (time - s) * Rate \in Nat
      BY AdmittedCard DEF LimitTypeOK
    <3> QED BY <3>2, <3>5, <3>6
  <2> QED BY <2>1, <2>2, <2>3
<1> QED BY <1>2, <1>3 DEF CleanupBucket

\* cleanup of the window limiter forgets only requests twice as old as the window.
LEMMA CleanupWindowKeeps ==
  ASSUME LimitInv, CleanupWindow
  PROVE  LimitInv'
<1> USE RateLimitAssumption DEF LimitInv
<1>0. /\ algorithm = "sliding_window" /\ current # 0 /\ current \in Ids
      /\ UNCHANGED <<algorithm, time, made, place, entry, verdict, admittedAt, orphaned>>
  BY DEF CleanupWindow, attemptVars, LimitTypeOK
<1>1. \A s, t : Admitted(s, t)' = Admitted(s, t)
  BY <1>0 DEF Admitted
<1>2. BucketBudget' /\ BucketConforms' /\ WindowConforms' /\ FixedBudget'
  BY <1>0, <1>1 DEF BucketBudget, BucketConforms, WindowConforms, FixedBudget
<1>3. CASE /\ \A q \in entries[current].requests : time - q[2] > 2 * Window
           /\ current' = 0 /\ UNCHANGED entries
  <2>1. LimitTypeOK' /\ Shape'
    BY <1>0, <1>3, IdsFact DEF LimitTypeOK, Shape
  <2>2. ASSUME ~orphaned, NEW r \in KeyReqs, verdict[r] = "allowed", admittedAt[r] > time - Window
        PROVE  FALSE
    <3>1. <<r, admittedAt[r]>> \in entries[current].requests
      BY <1>0, <2>2 DEF WindowRemembers
    <3>2. time - admittedAt[r] > 2 * Window
      BY <1>3, <3>1
    <3> QED BY <2>2, <3>2 DEF LimitTypeOK
  <2>3. WindowRemembers'
    BY <1>0, <2>2 DEF WindowRemembers
  <2> QED BY <1>2, <2>1, <2>3
<1>4. CASE /\ entries' = [entries EXCEPT ![current].requests = Recent(entries[current], 2 * Window)]
           /\ UNCHANGED current
  <2>1. entries[current] \in Entry
    BY <1>0 DEF LimitTypeOK
  <2>2. Recent(entries[current], 2 * Window) \in SUBSET (KeyReqs \X (0..LastTime))
    BY <2>1 DEF Recent, Entry
  <2>3. \A i \in Ids : entries'[i] \in Entry /\ entries'[i].lastRefill = entries[i].lastRefill
    BY <1>4, <2>1, <2>2 DEF LimitTypeOK, Entry
  <2>4. LimitTypeOK'
    <3>1. entries' \in [Ids -> Entry]
      BY <1>4, <2>3 DEF LimitTypeOK
    <3> QED BY <1>0, <1>4, <3>1 DEF LimitTypeOK
  <2>5. Shape'
    BY <1>0, <1>4, <2>3 DEF Shape
  <2>6. WindowRemembers'
    <3>1. SUFFICES ASSUME ~orphaned, NEW r \in KeyReqs, verdict[r] = "allowed",
                          admittedAt[r] > time - Window
                   PROVE  <<r, admittedAt[r]>> \in entries'[current].requests
      BY <1>0, <1>4 DEF WindowRemembers
    <3>2. <<r, admittedAt[r]>> \in entries[current].requests
      BY <1>0, <3>1 DEF WindowRemembers
    <3>3. admittedAt[r] > time - 2 * Window
      BY <3>1 DEF LimitTypeOK
    <3>4. <<r, admittedAt[r]>> \in Recent(entries[current], 2 * Window)
      BY <3>2, <3>3 DEF Recent
    <3> QED BY <1>0, <1>4, <2>1, <3>4 DEF LimitTypeOK, Entry
  <2> QED BY <1>2, <2>4, <2>5, <2>6
<1> QED BY <1>3, <1>4 DEF CleanupWindow

--------------------------------------------------------------------------------
\* The level of a bucket after refill.
LEMMA RefillBound ==
  ASSUME LimitTypeOK, Shape, NEW i \in Ids
  PROVE  /\ Refill(entries[i]) \in 0..Burst
         /\ Refill(entries[i]) <= entries[i].tokens + (time - entries[i].lastRefill) * Rate
<1>1. /\ entries[i].tokens \in 0..Burst /\ entries[i].lastRefill \in Nat
      /\ time \in Nat /\ entries[i].lastRefill <= time
  BY DEF LimitTypeOK, Shape, Entry
<1>2. (time - entries[i].lastRefill) * Rate \in Nat
  <2>1. time - entries[i].lastRefill \in Nat
    BY <1>1
  <2> QED BY <2>1, RateLimitAssumption
<1> QED BY <1>1, <1>2, RateLimitAssumption DEF Refill

\* The entry a request decides on.
LEMMA DecidesOn ==
  ASSUME LimitTypeOK, Shape, NEW r \in KeyReqs, place[r] = "decide"
  PROVE  /\ entry[r] \in Ids /\ entries[entry[r]] \in Entry
         /\ entry[r] \in 1..made /\ verdict[r] = "none" /\ time \in 0..LastTime
<1>1. entry[r] \in 1..made /\ verdict[r] = "none"
  BY DEF Shape
<1>2. entry[r] \in Ids
  BY <1>1, IdsFact DEF LimitTypeOK
<1> QED BY <1>1, <1>2 DEF LimitTypeOK

\* What a decision does to the entry: it stays well formed and is not dated later
\* than now, and the other entries stay as they are.
LEMMA DecideEntry ==
  ASSUME LimitTypeOK, Shape, NEW r \in KeyReqs, Decide(r)
  PROVE  /\ entries' \in [Ids -> Entry]
         /\ \A i \in Ids : entries'[i].lastRefill <= time
<1> USE RateLimitAssumption
<1> DEFINE i == entry[r]
<1>0. place[r] = "decide"
  BY DEF Decide
<1>1. i \in Ids /\ entries[i] \in Entry /\ time \in 0..LastTime
  BY <1>0, DecidesOn
<1>2. entries \in [Ids -> Entry] /\ \A j \in Ids : entries[j].lastRefill <= time
  BY DEF LimitTypeOK, Shape
<1>3. ASSUME NEW e \in Entry, e.lastRefill <= time, entries' = [entries EXCEPT ![i] = e]
      PROVE  entries' \in [Ids -> Entry] /\ \A j \in Ids : entries'[j].lastRefill <= time
  BY <1>1, <1>2, <1>3
<1>4. CASE TakeToken(i)
  <2> DEFINE n == Refill(entries[i]) - (IF BucketAllows(i) THEN Cost ELSE 0)
             e == [entries[i] EXCEPT !.tokens = n, !.lastRefill = time]
  <2>1. n \in 0..Burst
    <3>1. Refill(entries[i]) \in 0..Burst
      BY <1>1, RefillBound
    <3> QED BY <3>1 DEF BucketAllows
  <2>2. e \in Entry /\ e.lastRefill <= time
    <3> PICK k \in 0..Burst : k = n
      BY <2>1
    <3> PICK now \in 0..LastTime : now = time
      BY <1>1
    <3> PICK b \in Entry : b = entries[i]
      BY <1>1
    <3>1. e = [b EXCEPT !.tokens = k, !.lastRefill = now]
      OBVIOUS
    <3>2. e \in Entry /\ e.lastRefill = now
      <4> HIDE DEF e
      <4> QED BY <3>1 DEF Entry
    <3> QED BY <3>2
  <2>3. entries' = [entries EXCEPT ![i] = e]
    BY <1>1, <1>2, <1>4 DEF TakeToken
  <2> HIDE DEF e
  <2> QED BY <1>3, <2>2, <2>3
<1>5. CASE AddRequest(r, i)
  <2> DEFINE n == Recent(entries[i], Window) \cup (IF WindowAllows(i) THEN {<<r, time>>} ELSE {})
             e == [entries[i] EXCEPT !.requests = n]
  <2>1. n \in SUBSET (KeyReqs \X (0..LastTime))
    BY <1>1 DEF Recent, Entry
  <2>2. e \in Entry /\ e.lastRefill <= time
    <3> HIDE DEF n
    <3> QED BY <1>1, <1>2, <2>1 DEF Entry
  <2>3. entries' = [entries EXCEPT ![i] = e]
    BY <1>1, <1>2, <1>5 DEF AddRequest
  <2> HIDE DEF e
  <2> QED BY <1>3, <2>2, <2>3
<1>6. CASE TakeFixed(i)
  <2> DEFINE n == entries[i].tokens - (IF FixedAllows(i) THEN Cost ELSE 0)
             e == [entries[i] EXCEPT !.tokens = n, !.lastRefill = time]
  <2>1. n \in 0..Burst
    BY <1>1 DEF FixedAllows, Entry
  <2>2. e \in Entry /\ e.lastRefill <= time
    <3> PICK k \in 0..Burst : k = n
      BY <2>1
    <3> PICK now \in 0..LastTime : now = time
      BY <1>1
    <3> PICK b \in Entry : b = entries[i]
      BY <1>1
    <3>1. e = [b EXCEPT !.tokens = k, !.lastRefill = now]
      OBVIOUS
    <3>2. e \in Entry /\ e.lastRefill = now
      <4> HIDE DEF e
      <4> QED BY <3>1 DEF Entry
    <3> QED BY <3>2
  <2>3. entries' = [entries EXCEPT ![i] = e]
    BY <1>1, <1>2, <1>6 DEF TakeFixed
  <2> HIDE DEF e
  <2> QED BY <1>3, <2>2, <2>3
<1> QED BY <1>4, <1>5, <1>6 DEF Decide

\* The answer to one request changes nothing about the others.
LEMMA VerdictFacts ==
  ASSUME LimitTypeOK, NEW r \in KeyReqs, NEW a, Verdict(r, a)
  PROVE  /\ verdict' \in [KeyReqs -> {"none", "allowed", "limited"}]
         /\ admittedAt' \in [KeyReqs -> 0..LastTime]
         /\ \A q \in KeyReqs \ {r} : verdict'[q] = verdict[q] /\ admittedAt'[q] = admittedAt[q]
         /\ \/ a /\ verdict'[r] = "allowed" /\ admittedAt'[r] = time
            \/ ~a /\ verdict'[r] = "limited" /\ admittedAt'[r] = 0
<1>1. CASE a
  BY <1>1 DEF Verdict, LimitTypeOK
<1>2. CASE ~a
  BY <1>2, RateLimitAssumption DEF Verdict, LimitTypeOK
<1> QED BY <1>1, <1>2

\* What a decision leaves alone, and its answer.
LEMMA DecideFrame ==
  ASSUME LimitTypeOK, Shape, NEW r \in KeyReqs, Decide(r)
  PROVE  /\ UNCHANGED <<algorithm, time, current, made, entry>>
         /\ place' = [place EXCEPT ![r] = "done"]
         /\ orphaned' = (orphaned \/ entry[r] # current)
         /\ verdict' \in [KeyReqs -> {"none", "allowed", "limited"}]
         /\ admittedAt' \in [KeyReqs -> 0..LastTime]
         /\ \A q \in KeyReqs \ {r} : verdict'[q] = verdict[q] /\ admittedAt'[q] = admittedAt[q]
         /\ verdict'[r] \in {"allowed", "limited"} /\ admittedAt'[r] \in {0, time}
         /\ verdict'[r] = "allowed" => admittedAt'[r] = time
<1>1. /\ UNCHANGED <<algorithm, time, current, made, entry>>
      /\ place' = [place EXCEPT ![r] = "done"]
      /\ orphaned' = (orphaned \/ entry[r] # current)
  BY DEF Decide
<1>2. CASE Verdict(r, BucketAllows(entry[r]))
  BY <1>1, <1>2, VerdictFacts
<1>3. CASE Verdict(r, WindowAllows(entry[r]))
  BY <1>1, <1>3, VerdictFacts
<1>4. CASE Verdict(r, FixedAllows(entry[r]))
  BY <1>1, <1>4, VerdictFacts
<1> QED BY <1>2, <1>3, <1>4 DEF Decide

\* A decision keeps the types and the shape.
LEMMA DecideKeepsShape ==
  ASSUME LimitTypeOK, Shape, NEW r \in KeyReqs, Decide(r)
  PROVE  LimitTypeOK' /\ Shape'
<1>1. /\ entries' \in [Ids -> Entry]
      /\ \A i \in Ids : entries'[i].lastRefill <= time
  BY DecideEntry
<1>4. LimitTypeOK'
  BY <1>1, DecideFrame DEF LimitTypeOK
<1>5. \A q \in KeyReqs : admittedAt'[q] <= time
  BY DecideFrame DEF LimitTypeOK, Shape
<1>6. \A q \in KeyReqs : /\ place'[q] \in {"idle", "make"} => entry'[q] = 0
                         /\ place'[q] \in {"decide", "done"} => entry'[q] \in 1..made'
                         /\ place'[q] # "done" => verdict'[q] = "none"
  <2>1. place[r] = "decide"
    BY DEF Decide
  <2> QED BY <2>1, DecideFrame DEF LimitTypeOK, Shape
<1>7. UNCHANGED <<time, current, made, entry>>
  BY DecideFrame
<1>8. current' <= made' /\ made' <= Cardinality({q \in KeyReqs : entry[q] # 0}')
  BY <1>7 DEF Shape
<1>9. Shape'
  BY <1>1, <1>5, <1>6, <1>7, <1>8 DEF Shape
<1> QED BY <1>4, <1>9

\* The requests admitted up to an earlier moment than now are the same after a
\* decision; up to now, the decided request may be added.
LEMMA DecideAdmits ==
  ASSUME LimitTypeOK, Shape, NEW r \in KeyReqs, Decide(r), NEW s \in Int, NEW t \in Int
  PROVE  /\ t < time => Admitted(s, t)' = Admitted(s, t)
         /\ verdict'[r] # "allowed" => Admitted(s, t)' = Admitted(s, t)
         /\ Admitted(s, t)' \in SUBSET (Admitted(s, t) \cup {r})
<1>1. verdict[r] = "none" /\ time \in Nat
  BY DecidesOn DEF Decide, LimitTypeOK
<1> QED BY <1>1, DecideFrame DEF Admitted

\* A token bucket decides.  A refill adds at most what the time since the last one
\* earned, and never fills above maxTokens; an admission takes Cost out again.
LEMMA DecideKeepsBucket ==
  ASSUME LimitInv, NEW r \in KeyReqs, Decide(r)
  PROVE  BucketBudget' /\ BucketConforms'
<1> USE RateLimitAssumption DEF LimitInv
<1>1. SUFFICES ASSUME algorithm = "token_bucket", ~orphaned, entry[r] = current
               PROVE  BucketBudget' /\ BucketConforms'
  BY DecideFrame DEF BucketBudget, BucketConforms
<1> DEFINE i == entry[r]
<1>2. /\ place[r] = "decide" /\ i \in Ids /\ entries[i] \in Entry /\ i # 0
      /\ verdict[r] = "none" /\ time \in Nat /\ entries[i].lastRefill <= time
  BY DecidesOn, IdsFact DEF Decide, Shape, LimitTypeOK
<1>3. /\ entries[i].tokens \in Nat /\ entries[i].lastRefill \in Nat
  BY <1>2 DEF Entry
<1>4. TakeToken(i) /\ Verdict(r, BucketAllows(i))
  BY <1>1 DEF Decide
<1> DEFINE left == Refill(entries[i]) - (IF BucketAllows(i) THEN Cost ELSE 0)
<1>5. Refill(entries[i]) \in 0..Burst /\ left \in 0..Burst
      /\ Refill(entries[i]) <= entries[i].tokens + (time - entries[i].lastRefill) * Rate
  BY <1>2, RefillBound DEF BucketAllows
<1>6. /\ Level = entries[i].tokens /\ LevelAt = entries[i].lastRefill
      /\ Level' = left /\ LevelAt' = time
  <2>1. entries'[i].tokens = left /\ entries'[i].lastRefill = time
    BY <1>2, <1>4 DEF TakeToken, LimitTypeOK, Entry
  <2>2. current' = current
    BY DecideFrame
  <2> QED BY <1>1, <1>2, <2>1, <2>2 DEF Level, LevelAt
<1> HIDE DEF left
<1> PICK now \in Nat : now = time
  BY <1>2
<1>7. ASSUME NEW s \in 0..time
      PROVE  Cardinality(Admitted(s, time)) * Cost + Refill(entries[i]) <= Burst + (time - s) * Rate
  <2>0. Cardinality(Admitted(s, time)) * Cost \in Nat
    BY AdmittedCard
  <2>1. CASE s <= LevelAt
    <3>1. Cardinality(Admitted(s, time)) * Cost + entries[i].tokens
            <= Burst + (entries[i].lastRefill - s) * Rate
      BY <1>1, <1>3, <1>6, <2>1 DEF BucketBudget
    <3>2. (time - s) * Rate =
            (time - entries[i].lastRefill) * Rate + (entries[i].lastRefill - s) * Rate
      BY <1>2, <1>3
    <3>3. /\ (time - s) * Rate \in Int /\ (time - entries[i].lastRefill) * Rate \in Int
          /\ (entries[i].lastRefill - s) * Rate \in Int
      BY <1>2, <1>3
    <3> QED BY <1>3, <1>5, <2>0, <3>1, <3>2, <3>3
  <2>2. CASE s > LevelAt
    <3>1. Admitted(s, time) = {}
      BY <1>1, <1>2, <1>3, <1>6, <2>2 DEF BucketBudget, Admitted, LimitTypeOK
    <3>2. (time - s) * Rate \in Nat
      BY <1>2
    <3>3. Cardinality(Admitted(s, time)) * Cost = 0
      BY <3>1, FS_EmptySet
    <3> QED BY <1>5, <3>2, <3>3
  <2> QED BY <1>3, <1>6, <2>1, <2>2
<1>8. ASSUME NEW s \in 0..time
      PROVE  Cardinality(Admitted(s, now)') * Cost + left <= Burst + (time - s) * Rate
  <2> DEFINE n == Cardinality(Admitted(s, time))
             m == Cardinality(Admitted(s, now)')
  <2>1. n \in Nat /\ m \in Nat
    <3>1. Admitted(s, now)' \in SUBSET KeyReqs
      BY DEF Admitted
    <3> QED BY <3>1, AdmittedCard, ReqSets
  <2>2. n * Cost + Refill(entries[i]) <= Burst + (time - s) * Rate
    BY <1>7
  <2>3. (time - s) * Rate \in Int
    BY <1>2
  <2>4. CASE BucketAllows(i)
    <3>1. m <= n + 1
      <4>1. Admitted(s, now)' \in SUBSET (Admitted(s, now) \cup {r})
        BY <1>2, DecideAdmits
      <4>2. Admitted(s, time) = Admitted(s, now) /\ Admitted(s, now) \in SUBSET KeyReqs
        BY DEF Admitted
      <4> QED BY <4>1, <4>2, OneMore
    <3>2. left = Refill(entries[i]) - Cost
      BY <2>4 DEF left
    <3>3. m * Cost <= n * Cost + Cost /\ m * Cost \in Nat /\ n * Cost \in Nat
      <4> HIDE DEF m, n
      <4>1. m * Cost <= (n + 1) * Cost
        BY <2>1, <3>1
      <4> QED BY <2>1, <4>1
    <3> HIDE DEF m, n
    <3>4. m * Cost + left <= Burst + (time - s) * Rate
      BY <1>5, <2>2, <2>3, <3>2, <3>3
    <3> QED BY <3>4 DEF m
  <2>5. CASE ~BucketAllows(i)
    <3>1. verdict'[r] # "allowed"
      BY <1>4, <2>5, VerdictFacts
    <3>2. m = n
      <4>1. Admitted(s, now)' = Admitted(s, now)
        BY <1>2, <3>1, DecideAdmits
      <4> QED BY <4>1
    <3>3. left = Refill(entries[i])
      BY <1>5, <2>5 DEF left
    <3> QED BY <2>2, <3>2, <3>3
  <2> QED BY <2>4, <2>5
<1>9. BucketBudget'
  <2>1. time' = time /\ \A q \in KeyReqs : verdict'[q] = "allowed" => admittedAt'[q] <= time
    BY DecideFrame, <1>2 DEF Shape, LimitTypeOK
  <2> QED BY <1>6, <1>8, <2>1 DEF BucketBudget
<1>10. BucketConforms'
  <2>1. SUFFICES ASSUME NEW s \in 0..time, NEW t \in 0..time, s <= t
                 PROVE  Cardinality(Admitted(s, t)') * Cost <= Burst + (t - s) * Rate
    BY DecideFrame DEF BucketConforms
  <2>2. CASE t < time
    <3>1. Admitted(s, t)' = Admitted(s, t)
      BY <1>2, <2>2, DecideAdmits
    <3> QED BY <1>1, <2>1, <3>1 DEF BucketConforms
  <2>3. CASE t = time
    <3>1. Cardinality(Admitted(s, now)') * Cost + left <= Burst + (time - s) * Rate
      BY <1>8
    <3>2. Cardinality(Admitted(s, now)') * Cost \in Nat
      <4>1. Admitted(s, now)' \in SUBSET KeyReqs
        BY DEF Admitted
      <4> QED BY <4>1, ReqSets
    <3>3. (time - s) * Rate \in Int
      BY <1>2
    <3> QED BY <1>5, <2>3, <3>1, <3>2, <3>3
  <2>4. t < time \/ t = time
    BY <1>2
  <2> QED BY <2>2, <2>3, <2>4
<1> QED BY <1>9, <1>10

\* A window decides.  It counts every request admitted less than its size ago, so the
\* interval that ends now holds at most the ones it counted and the new one.
LEMMA DecideKeepsWindow ==
  ASSUME LimitInv, NEW r \in KeyReqs, Decide(r)
  PROVE  WindowRemembers' /\ WindowConforms'
<1> USE RateLimitAssumption DEF LimitInv
<1>1. SUFFICES ASSUME algorithm = "sliding_window", ~orphaned, entry[r] = current
               PROVE  WindowRemembers' /\ WindowConforms'
  BY DecideFrame DEF WindowRemembers, WindowConforms
<1> DEFINE w == entries[current]
<1>2. /\ place[r] = "decide" /\ current \in Ids /\ w \in Entry /\ current # 0
      /\ verdict[r] = "none" /\ time \in Nat
  BY <1>1, DecidesOn, IdsFact DEF Decide, LimitTypeOK
<1>3. AddRequest(r, current) /\ Verdict(r, WindowAllows(current))
  BY <1>1 DEF Decide
<1>4. /\ UNCHANGED <<algorithm, time, current>>
      /\ \A q \in KeyReqs \ {r} : verdict'[q] = verdict[q] /\ admittedAt'[q] = admittedAt[q]
  BY DecideFrame
<1>5. entries'[current].requests =
        Recent(w, Window) \cup (IF WindowAllows(current) THEN {<<r, time>>} ELSE {})
  BY <1>2, <1>3 DEF AddRequest, LimitTypeOK, Entry
<1>6. ASSUME NEW q \in KeyReqs, verdict[q] = "allowed", admittedAt[q] > time - Window
      PROVE  <<q, admittedAt[q]>> \in Recent(w, Window)
  <2>1. <<q, admittedAt[q]>> \in w.requests
    BY <1>1, <1>6 DEF WindowRemembers
  <2> QED BY <1>6, <2>1 DEF Recent
<1>7. WindowRemembers'
  <2>1. SUFFICES ASSUME NEW q \in KeyReqs, verdict'[q] = "allowed", admittedAt'[q] > time - Window
                 PROVE  <<q, admittedAt'[q]>> \in entries'[current].requests
    BY <1>2, <1>4 DEF WindowRemembers
  <2>2. CASE q # r
    BY <1>4, <1>5, <1>6, <2>1, <2>2
  <2>3. CASE q = r
    <3>1. WindowAllows(current) /\ admittedAt'[q] = time
      BY <1>3, <2>1, <2>3, VerdictFacts
    <3> QED BY <1>5, <2>3, <3>1
  <2> QED BY <2>2, <2>3
<1>8. WindowConforms'
  <2>1. SUFFICES ASSUME NEW s \in 0..time
                 PROVE  Cardinality(Admitted(s, s + Window - 1)') <= MaxRequests
    BY <1>4 DEF WindowConforms
  <2> DEFINE t == s + Window - 1
             A == Admitted(s, t)
  <2>2. s \in Int /\ t \in Int
    BY <1>2
  <2>3. Cardinality(A) <= MaxRequests
    BY <1>1, <2>1 DEF WindowConforms
  <2>4. CASE t < time \/ verdict'[r] # "allowed"
    <3>1. Admitted(s, t)' = Admitted(s, t)
      BY <2>2, <2>4, DecideAdmits
    <3> QED BY <2>3, <3>1
  <2>5. CASE t >= time /\ verdict'[r] = "allowed"
    <3>1. Cardinality(Recent(w, Window)) < MaxRequests
      <4>1. WindowAllows(current)
        BY <1>3, <2>5, VerdictFacts
      <4> QED BY <4>1 DEF WindowAllows
    <3>2. IsFiniteSet(Recent(w, Window))
      <4>1. IsFiniteSet(KeyReqs) /\ IsFiniteSet(0..LastTime)
        BY FS_Interval
      <4>2. IsFiniteSet(KeyReqs \X (0..LastTime))
        BY <4>1, FS_Product
      <4>3. Recent(w, Window) \in SUBSET (KeyReqs \X (0..LastTime))
        BY <1>2 DEF Recent, Entry
      <4> QED BY <4>2, <4>3, FS_Subset
    <3>3. Cardinality(A) <= Cardinality(Recent(w, Window))
      <4> DEFINE f == [q \in A |-> <<q, admittedAt[q]>>]
      <4>1. \A q \in A : f[q] \in Recent(w, Window)
        <5>1. SUFFICES ASSUME NEW q \in A PROVE <<q, admittedAt[q]>> \in Recent(w, Window)
          OBVIOUS
        <5>2. q \in KeyReqs /\ verdict[q] = "allowed" /\ admittedAt[q] >= s /\ admittedAt[q] \in Nat
          BY DEF Admitted, LimitTypeOK
        <5>3. s > time - Window
          BY <1>2, <2>5
        <5>4. admittedAt[q] > time - Window
          BY <1>2, <5>2, <5>3
        <5> QED BY <1>6, <5>2, <5>4
      <4>2. f \in Injection(A, Recent(w, Window))
        BY <4>1 DEF Injection, IsInjective
      <4> QED BY <3>2, <4>2, FS_Injection
    <3>4. Cardinality(Admitted(s, t)') <= Cardinality(A) + 1
      <4>1. Admitted(s, t)' \in SUBSET (A \cup {r}) /\ A \in SUBSET KeyReqs
        BY <2>2, DecideAdmits DEF Admitted
      <4> QED BY <4>1, OneMore
    <3>5. Cardinality(A) \in Nat /\ Cardinality(Recent(w, Window)) \in Nat
          /\ Cardinality(Admitted(s, t)') \in Nat
      <4>1. Admitted(s, t)' \in SUBSET KeyReqs
        BY DEF Admitted
      <4> QED BY <3>2, <4>1, AdmittedCard, ReqSets, FS_CardinalityType
    <3> QED BY <3>1, <3>3, <3>4, <3>5
  <2> QED BY <1>2, <2>2, <2>4, <2>5
<1> QED BY <1>7, <1>8

\* The fixed bucket decides: what it gives out it loses.
LEMMA DecideKeepsFixed ==
  ASSUME LimitInv, NEW r \in KeyReqs, Decide(r)
  PROVE  FixedBudget'
<1> USE RateLimitAssumption DEF LimitInv
<1>1. SUFFICES ASSUME algorithm = "fixed_bucket" PROVE FixedBudget'
  BY DecideFrame DEF FixedBudget
<1>2. /\ place[r] = "decide" /\ entry[r] \in Ids /\ entries[entry[r]] \in Entry
      /\ entry[r] \in 1..made /\ verdict[r] = "none"
  BY DecidesOn DEF Decide
<1>3. entry[r] = 1 /\ made = 1
  BY <1>1, <1>2, IdsFact DEF FixedBudget, LimitTypeOK
<1>4. TakeFixed(1) /\ Verdict(r, FixedAllows(1))
  BY <1>1, <1>3 DEF Decide
<1> DEFINE A == {q \in KeyReqs : verdict[q] = "allowed"}
           B == {q \in KeyReqs : verdict'[q] = "allowed"}
           m == Cardinality(A)
           n == Cardinality(B)
<1>5. m \in Nat /\ n \in Nat
  BY ReqSets
<1>6. m * Cost + entries[1].tokens <= Burst /\ entries[1].tokens \in Nat
  BY <1>1, <1>2, <1>3 DEF FixedBudget, Entry
<1>7. entries'[1].tokens = entries[1].tokens - (IF FixedAllows(1) THEN Cost ELSE 0)
  BY <1>2, <1>3, <1>4 DEF TakeFixed, LimitTypeOK, Entry
<1>8. n * Cost + entries'[1].tokens <= Burst
  <2>1. CASE FixedAllows(1)
    <3>1. B \in SUBSET (A \cup {r}) /\ A \in SUBSET KeyReqs
      BY DecideFrame
    <3>2. n <= m + 1
      BY <3>1, OneMore
    <3> HIDE DEF m, n
    <3>3. n * Cost <= (m + 1) * Cost
      BY <1>5, <3>2
    <3>4. n * Cost <= m * Cost + Cost /\ n * Cost \in Nat /\ m * Cost \in Nat
      BY <1>5, <3>3
    <3>5. entries'[1].tokens = entries[1].tokens - Cost
      BY <1>7, <2>1
    <3> QED BY <1>6, <3>4, <3>5
  <2>2. CASE ~FixedAllows(1)
    <3>1. verdict'[r] = "limited"
      BY <1>4, <2>2, VerdictFacts
    <3>2. A = B
      BY <1>2, <3>1, DecideFrame
    <3>3. entries'[1].tokens = entries[1].tokens
      BY <1>6, <1>7, <2>2
    <3> QED BY <1>6, <3>2, <3>3
  <2> QED BY <2>1, <2>2
<1>9. made' <= 1 /\ current' = made'
  BY <1>1, DecideFrame DEF FixedBudget
<1> QED BY <1>8, <1>9 DEF FixedBudget

--------------------------------------------------------------------------------
\* Every step keeps the invariant.
LEMMA LimitInvStep == LimitInv /\ [LimitNext]_limitVars => LimitInv'
<1> SUFFICES ASSUME LimitInv, [LimitNext]_limitVars PROVE LimitInv'
  OBVIOUS
<1>1. CASE TimePasses
  BY <1>1, TimePassesKeeps
<1>2. CASE CleanupBucket
  BY <1>2, CleanupBucketKeeps
<1>3. CASE CleanupWindow
  BY <1>3, CleanupWindowKeeps
<1>4. ASSUME NEW r \in KeyReqs, GetEntry(r) PROVE LimitInv'
  <2>1. TakesEntry(r)
    BY <1>4 DEF GetEntry, TakesEntry
  <2> QED BY <2>1, TakesKeeps
<1>5. ASSUME NEW r \in KeyReqs, GetBucket(r) PROVE LimitInv'
  <2>1. CASE current # 0
    <3>1. TakesEntry(r)
      BY <1>5, <2>1 DEF GetBucket, TakesEntry
    <3> QED BY <3>1, TakesKeeps
  <2>2. CASE current = 0
    <3>1. /\ place[r] = "idle" /\ place' = [place EXCEPT ![r] = "make"]
          /\ UNCHANGED <<algorithm, time, entries, current, made, entry, verdict, admittedAt, orphaned>>
      BY <1>5, <2>2 DEF GetBucket
    <3> QED BY <3>1, MissesKeeps
  <2> QED BY <2>1, <2>2
<1>6. ASSUME NEW r \in KeyReqs, MakeBucket(r) PROVE LimitInv'
  <2>1. TakesEntry(r)
    BY <1>6 DEF MakeBucket, TakesEntry
  <2> QED BY <2>1, TakesKeeps
<1>7. ASSUME NEW r \in KeyReqs, Decide(r) PROVE LimitInv'
  <2>1. LimitTypeOK' /\ Shape'
    BY <1>7, DecideKeepsShape DEF LimitInv
  <2> QED BY <1>7, <2>1, DecideKeepsBucket, DecideKeepsWindow, DecideKeepsFixed DEF LimitInv
<1>8. CASE UNCHANGED limitVars
  <2>1. UNCHANGED <<algorithm, time, entries, current, made, place, entry, verdict, admittedAt,
                    orphaned>>
    BY <1>8 DEF limitVars, attemptVars
  <2>2. \A s, t : Admitted(s, t)' = Admitted(s, t)
    BY <2>1 DEF Admitted
  <2> QED BY <2>1, <2>2 DEF LimitInv, LimitTypeOK, Shape, BucketBudget, BucketConforms, WindowRemembers,
                            WindowConforms, FixedBudget, Level, LevelAt
<1> QED BY <1>1, <1>2, <1>3, <1>4, <1>5, <1>6, <1>7, <1>8 DEF LimitNext

\* The invariant holds in every state.
LEMMA LimitInvariance == LimitSpec => []LimitInv
<1>1. LimitInit => LimitInv
  BY LimitInvInit
<1>2. LimitInv /\ [LimitNext]_limitVars => LimitInv'
  BY LimitInvStep
<1> QED BY <1>1, <1>2, PTL DEF LimitSpec

\* Type correctness of the limiters of both services: in particular the level of a
\* bucket never leaves 0..maxTokens.
THEOREM LimitTypeCorrect == LimitSpec => []LimitTypeOK
<1>1. LimitInv => LimitTypeOK
  BY DEF LimitInv
<1> QED BY <1>1, LimitInvariance, PTL

\* The token bucket of the gateway admits in every interval at most its burst and
\* what the interval earned, for every burst, rate and interleaving, unless a request
\* decided on a bucket that cleanup had deleted under it.
THEOREM BucketLimit == LimitSpec => []BucketConforms
<1>1. LimitInv => BucketConforms
  BY DEF LimitInv
<1> QED BY <1>1, LimitInvariance, PTL

\* The sliding window admits at most maxRequests in every interval of its size, with
\* the same exception: cleanup never forgets a request the window still counts.
THEOREM WindowLimit == LimitSpec => []WindowConforms
<1>1. LimitInv => WindowConforms
  BY DEF LimitInv
<1> QED BY <1>1, LimitInvariance, PTL

\* The bucket of supply-api admits at most Requests in every interval of the size of its
\* window: the second lookup under the write lock makes the bucket unique.
THEOREM FixedLimit == LimitSpec => []FixedConforms
<1>1. LimitInv => FixedConforms
  <2> SUFFICES ASSUME LimitInv, algorithm = "fixed_bucket", NEW s \in 0..time
               PROVE  Cardinality(Admitted(s, s + Window - 1)) <= BucketRequests
    BY DEF FixedConforms
  <2> DEFINE A == {r \in KeyReqs : verdict[r] = "allowed"}
  <2>1. Cardinality(A) \in Nat /\ Cardinality(Admitted(s, s + Window - 1)) \in Nat
        /\ Cardinality(Admitted(s, s + Window - 1)) <= Cardinality(A)
    <3>1. A \in SUBSET KeyReqs /\ Admitted(s, s + Window - 1) \subseteq A
      BY DEF Admitted
    <3> QED BY <3>1, ReqSets
  <2>2. Cardinality(A) * Cost <= Burst
    <3>1. CASE made = 1
      <4>1. Cardinality(A) * Cost + entries[1].tokens <= Burst
        BY <3>1 DEF LimitInv, FixedBudget
      <4>2. entries[1].tokens \in Nat
        <5>1. 1 \in Ids
          BY <3>1, IdsFact DEF LimitInv, LimitTypeOK
        <5> QED BY <5>1, RateLimitAssumption DEF LimitInv, LimitTypeOK, Entry
      <4>3. Cardinality(A) * Cost \in Nat
        BY <2>1, RateLimitAssumption
      <4> QED BY <4>1, <4>2, <4>3, RateLimitAssumption
    <3>2. CASE made # 1
      <4>1. made = 0
        BY <3>2, IdsFact DEF LimitInv, FixedBudget, LimitTypeOK
      <4>2. \A r \in KeyReqs : verdict[r] = "none"
        BY <4>1 DEF LimitInv, Shape, LimitTypeOK
      <4>3. A = {}
        BY <4>2
      <4>4. Cardinality(A) = 0
        BY <4>3, FS_EmptySet
      <4> QED BY <4>4, RateLimitAssumption
    <3> QED BY <3>1, <3>2
  <2>3. Cardinality(A) <= BucketRequests
    <3> DEFINE c == Cardinality(A)
    <3>1. c \in Nat /\ c * Cost <= Burst /\ Cost \in Nat \ {0} /\ Burst \in Nat
      BY <2>1, <2>2, RateLimitAssumption
    <3>2. c <= Burst \div Cost
      BY <3>1
    <3> QED BY <3>2 DEF BucketRequests
  <2>4. BucketRequests \in Int
    BY RateLimitAssumption DEF BucketRequests
  <2> QED BY <2>1, <2>3, <2>4
<1> QED BY <1>1, LimitInvariance, PTL

--------------------------------------------------------------------------------
(***************************************************************************)
(* Remote introspection in the gateway (GatewayAuth), for any tokens and any *)
(* number of concurrent requests: the types, and that a token that is revoked *)
(* or expired when a request arrives is admitted only on the strength of an *)
(* answer that was under way at that moment.                               *)
(***************************************************************************)
\* An answer is about an issued token and has been received in full.
AnswersKept ==
  \A r \in Reqs :
    /\ pc[r] \in {"response", "resolve"} => tok[r] \in Tokens /\ resp[r] \in Record
    /\ pc[r] = "idle" => arrived[r] = "live"
    /\ pc[r] # "done" => out[r] = "none"

\* What a request knows whose token was dead on arrival: the token stays dead, so no
\* "active" answer is added to those under way, and once its own answer is stored
\* only one of those can replace it.
Overlap ==
  \A r \in Reqs : arrived[r] = "dead" =>
    /\ tok[r] \in Tokens /\ Dead(tok[r])
    /\ ActiveAnswers(tok[r]) \subseteq pending[r]
    /\ pc[r] = "resolve" /\ pending[r] = {} =>
         records[tok[r]] \in Record /\ records[tok[r]].status # "active"

AuthInv == TypeOK /\ AnswersKept /\ Overlap /\ DeadAdmittedOnlyByOverlap

--------------------------------------------------------------------------------
\* The store operations preserve the types of the store.
LEMMA StoreTyping == StoreTypeOK /\ StoreNext => StoreTypeOK'
<1> SUFFICES ASSUME StoreTypeOK, StoreNext PROVE StoreTypeOK'
  OBVIOUS
<1> USE TokenStoreAssumption DEF StoreTypeOK, TokenStatus
<1>1. CASE Tick
  BY <1>1 DEF Tick
<1>2. ASSUME NEW t \in Tokens \cup {NoToken}, Read(t) PROVE StoreTypeOK'
  BY <1>2 DEF Read, Found, ApplyExpiry
<1>3. ASSUME NEW t \in Tokens \cup {NoToken}, Revoke(t) PROVE StoreTypeOK'
  BY <1>3 DEF Revoke, Found
<1>4. ASSUME NEW t \in Tokens \cup {NoToken}, NEW ttl \in Nat, Refresh(t, ttl) PROVE StoreTypeOK'
  <2>1. status' \in [Tokens -> TokenStatus]
    BY <1>4 DEF Refresh, Found, ApplyExpiry
  <2>2. expiresAt' \in [Tokens -> Nat]
    BY <1>4 DEF Refresh, RefreshAccepted, Found
  <2> QED BY <1>4, <2>1, <2>2 DEF Refresh
<1>5. ASSUME NEW k \in Keys, NEW in \in Input, NEW t \in Tokens, NEW issuedAt \in Nat,
             Save(k, in, t, issuedAt)
      PROVE StoreTypeOK'
  <2>1. in.ttl \in Nat /\ in.holder \in Holders
    BY DEF Input
  <2> QED BY <1>5, <2>1 DEF Save
<1> QED BY <1>1, <1>2, <1>3, <1>4, <1>5 DEF StoreNext

\* No operation brings a dead token back: revocation overwrites the status for
\* good, and an expiry that has passed is applied before anything is accepted.
LEMMA DeadIsStable ==
  ASSUME StoreTypeOK, StoreNext, NEW t \in Tokens, Dead(t)
  PROVE  Dead(t)'
<1> USE TokenStoreAssumption DEF StoreTypeOK, TokenStatus, Dead
<1>1. CASE Tick
  BY <1>1 DEF Tick
<1>2. ASSUME NEW u \in Tokens \cup {NoToken}, Read(u) PROVE Dead(t)'
  BY <1>2 DEF Read, Found, ApplyExpiry
<1>3. ASSUME NEW u \in Tokens \cup {NoToken}, Revoke(u) PROVE Dead(t)'
  BY <1>3 DEF Revoke, Found
<1>4. ASSUME NEW u \in Tokens \cup {NoToken}, NEW ttl \in Nat, Refresh(u, ttl) PROVE Dead(t)'
  BY <1>4 DEF Refresh, RefreshAccepted, Found, ApplyExpiry
<1>5. ASSUME NEW k \in Keys, NEW in \in Input, NEW u \in Tokens, NEW issuedAt \in Nat,
             Save(k, in, u, issuedAt)
      PROVE Dead(t)'
  BY <1>5 DEF Save
<1> QED BY <1>1, <1>2, <1>3, <1>4, <1>5 DEF StoreNext

\* Every step of the gateway leaves the store alone or is one of its operations.
LEMMA NextIsStoreStep == TypeOK /\ Next => StoreNext \/ UNCHANGED storeVars
<1> SUFFICES ASSUME TypeOK, Next PROVE StoreNext \/ UNCHANGED storeVars
  OBVIOUS
<1>1. CASE RuntimeStep
  <2>1. CASE Tick
    BY <2>1 DEF StoreNext
  <2>2. ASSUME NEW t \in Tokens, Revoke(t) PROVE StoreNext
    BY <2>2 DEF StoreNext
  <2>3. ASSUME NEW t \in Tokens, NEW ttl \in TTLs, Refresh(t, ttl) PROVE StoreNext
    BY <2>3, TokenStoreAssumption DEF StoreNext
  <2>4. ASSUME NEW k \in Keys, NEW in \in Input, NEW t \in Tokens,
               IssueNew(k, in), Save(k, in, t, clock)
        PROVE  StoreNext
    <3>1. clock \in Nat
      BY DEF TypeOK, StoreTypeOK
    <3> QED BY <2>4, <3>1 DEF StoreNext
  <2> QED BY <1>1, <2>1, <2>2, <2>3, <2>4 DEF RuntimeStep
<1>2. ASSUME NEW r \in Reqs, Introspected(r) PROVE StoreNext
  <2>1. tok[r] \in Tokens \cup {NoToken} /\ Read(tok[r])
    BY <1>2 DEF Introspected, TypeOK
  <2> QED BY <2>1 DEF StoreNext
<1>3. ASSUME NEW r \in Reqs,
             RejectEarly(r) \/ SendIntrospect(r) \/ VerifyFails(r) \/ StoreResponse(r) \/ Resolve(r)
      PROVE  UNCHANGED storeVars
  BY <1>3 DEF RejectEarly, SendIntrospect, VerifyFails, StoreResponse, Resolve
<1> QED BY <1>1, <1>2, <1>3 DEF Next

\* What every step keeps whoever takes it: the types of the store, and death.
LEMMA StoreFrame ==
  ASSUME TypeOK, [Next]_vars
  PROVE  StoreTypeOK' /\ \A t \in Tokens : Dead(t) => Dead(t)'
<1>1. StoreNext \/ UNCHANGED storeVars
  BY NextIsStoreStep DEF vars
<1>2. CASE StoreNext
  BY <1>2, StoreTyping, DeadIsStable DEF TypeOK
<1>3. CASE UNCHANGED storeVars
  BY <1>3 DEF storeVars, TypeOK, StoreTypeOK, Input, TokenStatus, Dead
<1> QED BY <1>1, <1>2, <1>3

\* An answer about a dead token is not "active".
LEMMA DeadAnswer ==
  ASSUME TypeOK, NEW t \in Tokens, Found(t)
  PROVE  /\ [status |-> ApplyExpiry(t), expiresAt |-> expiresAt[t]] \in Record
         /\ Dead(t) => ApplyExpiry(t) # "active"
<1>1. status[t] \in TokenStatus /\ expiresAt[t] \in Nat /\ clock \in Nat
  BY DEF TypeOK, StoreTypeOK
<1>2. ApplyExpiry(t) \in TokenStatus
  BY <1>1 DEF ApplyExpiry, TokenStatus
<1> QED BY <1>1, <1>2 DEF Dead, ApplyExpiry, Record

\* A record that is not active does not resolve as active.
LEMMA InactiveResolves ==
  ASSUME NEW rec, rec.status # "active"
  PROVE  Resolved(rec) # "active"
<1>1. CASE rec = NoRecord
  BY <1>1 DEF Resolved
<1>2. CASE rec # NoRecord
  BY <1>2 DEF Resolved
<1> QED BY <1>1, <1>2

\* A step that changes no answer under way and no record keeps Overlap, for every
\* request r that it leaves where it is or takes away from Resolve.
LEMMA OverlapFrame ==
  ASSUME TypeOK, Overlap, [Next]_vars, NEW r \in Reqs,
         arrived'[r] = arrived[r], tok'[r] = tok[r], pending'[r] = pending[r],
         pc'[r] = "resolve" => pc[r] = "resolve",
         arrived[r] = "dead" => ActiveAnswers(tok[r])' \subseteq ActiveAnswers(tok[r]),
         arrived[r] = "dead" /\ pc[r] = "resolve" /\ pending[r] = {} =>
           \/ records'[tok[r]] = records[tok[r]]
           \/ records'[tok[r]] \in Record /\ records'[tok[r]].status # "active"
  PROVE  arrived'[r] = "dead" =>
           /\ tok'[r] \in Tokens /\ Dead(tok[r])'
           /\ ActiveAnswers(tok[r])' \subseteq pending'[r]
           /\ pc'[r] = "resolve" /\ pending'[r] = {} =>
                records'[tok'[r]] \in Record /\ records'[tok'[r]].status # "active"
<1> SUFFICES ASSUME arrived'[r] = "dead"
             PROVE  /\ tok'[r] \in Tokens /\ Dead(tok[r])'
                    /\ ActiveAnswers(tok[r])' \subseteq pending'[r]
                    /\ pc'[r] = "resolve" /\ pending'[r] = {} =>
                         records'[tok'[r]] \in Record /\ records'[tok'[r]].status # "active"
  OBVIOUS
<1>1. /\ tok[r] \in Tokens /\ Dead(tok[r]) /\ ActiveAnswers(tok[r]) \subseteq pending[r]
      /\ pc[r] = "resolve" /\ pending[r] = {} =>
           records[tok[r]] \in Record /\ records[tok[r]].status # "active"
  BY DEF Overlap
<1>2. Dead(tok[r])'
  <2>1. ASSUME NEW t \in Tokens, Dead(t) PROVE Dead(t)'
    BY <2>1, StoreFrame
  <2> QED BY <1>1, <2>1
<1> QED BY <1>1, <1>2

\* The operations of the runtime touch no request: a dead token stays dead.
LEMMA RuntimeKeeps ==
  ASSUME AuthInv, [Next]_vars, UNCHANGED <<reqVars, records>>
  PROVE  AuthInv'
<1>0. TypeOK /\ AnswersKept /\ Overlap /\ DeadAdmittedOnlyByOverlap
  BY DEF AuthInv
<1>1. UNCHANGED <<pc, tok, arrived, pending, resp, out, records>>
  BY DEF reqVars
<1>2. TypeOK'
  <2>1. StoreTypeOK'
    BY <1>0, StoreFrame
  <2> QED BY <1>0, <1>1, <2>1 DEF TypeOK
<1>3. AnswersKept' /\ DeadAdmittedOnlyByOverlap'
  BY <1>0, <1>1 DEF AnswersKept, DeadAdmittedOnlyByOverlap
<1>4. Overlap'
  <2>1. ASSUME NEW r \in Reqs, arrived'[r] = "dead"
        PROVE  /\ tok'[r] \in Tokens /\ Dead(tok[r])'
               /\ ActiveAnswers(tok[r])' \subseteq pending'[r]
               /\ pc'[r] = "resolve" /\ pending'[r] = {} =>
                    records'[tok'[r]] \in Record /\ records'[tok'[r]].status # "active"
    <3>1. ActiveAnswers(tok[r])' = ActiveAnswers(tok[r])
      BY <1>1 DEF ActiveAnswers
    <3> QED BY <1>0, <1>1, <2>1, <3>1, OverlapFrame
  <2> QED BY <2>1 DEF Overlap
<1> QED BY <1>2, <1>3, <1>4 DEF AuthInv

\* A request is answered by RejectEarly or VerifyFails: it is not admitted.
LEMMA RefusedKeeps ==
  ASSUME AuthInv, [Next]_vars, NEW r \in Reqs, NEW o \in Outs, o # "admitted", Answer(r, o),
         UNCHANGED <<storeVars, tok, arrived, pending, resp, records>>
  PROVE  AuthInv'
<1>0. TypeOK /\ AnswersKept /\ Overlap /\ DeadAdmittedOnlyByOverlap
  BY DEF AuthInv
<1>1. /\ pc' \in [Reqs -> Pcs] /\ pc'[r] = "done" /\ \A q \in Reqs \ {r} : pc'[q] = pc[q]
      /\ out' \in [Reqs -> Outs] /\ out'[r] = o /\ \A q \in Reqs \ {r} : out'[q] = out[q]
  BY <1>0 DEF Answer, TypeOK, Pcs
<1>2. TypeOK'
  <2>1. StoreTypeOK'
    BY <1>0, StoreFrame
  <2> QED BY <1>0, <1>1, <2>1 DEF TypeOK
<1>3. AnswersKept'
  BY <1>0, <1>1 DEF AnswersKept
<1>4. DeadAdmittedOnlyByOverlap'
  BY <1>0, <1>1 DEF DeadAdmittedOnlyByOverlap
<1>5. Overlap'
  <2>1. ASSUME NEW q \in Reqs, arrived'[q] = "dead"
        PROVE  /\ tok'[q] \in Tokens /\ Dead(tok[q])'
               /\ ActiveAnswers(tok[q])' \subseteq pending'[q]
               /\ pc'[q] = "resolve" /\ pending'[q] = {} =>
                    records'[tok'[q]] \in Record /\ records'[tok'[q]].status # "active"
    <3>1. ActiveAnswers(tok[q])' \subseteq ActiveAnswers(tok[q])
      BY <1>1 DEF ActiveAnswers
    <3>2. pc'[q] = "resolve" => pc[q] = "resolve"
      BY <1>1
    <3> QED BY <1>0, <2>1, <3>1, <3>2, OverlapFrame
  <2> QED BY <2>1 DEF Overlap
<1> QED BY <1>2, <1>3, <1>4, <1>5 DEF AuthInv

\* A request arrives: pending is what is under way for its token.
LEMMA SendIntrospectKeeps ==
  ASSUME AuthInv, [Next]_vars, NEW r \in Reqs, SendIntrospect(r)
  PROVE  AuthInv'
<1>0. TypeOK /\ AnswersKept /\ Overlap /\ DeadAdmittedOnlyByOverlap
  BY DEF AuthInv
<1>1. PICK t \in {u \in Tokens : Found(u)} \cup {NoToken} :
        /\ tok' = [tok EXCEPT ![r] = t]
        /\ arrived' = [arrived EXCEPT ![r] = IF t \in Tokens /\ Dead(t) THEN "dead" ELSE "live"]
        /\ pending' = [pending EXCEPT ![r] = ActiveAnswers(t)]
  BY DEF SendIntrospect
<1>2. /\ pc[r] = "idle" /\ pc' = [pc EXCEPT ![r] = "introspect"]
      /\ UNCHANGED <<storeVars, resp, out, records>>
  BY DEF SendIntrospect
<1>3. /\ pc' \in [Reqs -> Pcs] /\ pc'[r] = "introspect"
      /\ tok' \in [Reqs -> Tokens \cup {NoToken}] /\ tok'[r] = t
      /\ pending' \in [Reqs -> SUBSET Reqs] /\ pending'[r] = ActiveAnswers(t)
      /\ \A q \in Reqs \ {r} : pc'[q] = pc[q] /\ tok'[q] = tok[q] /\ pending'[q] = pending[q]
  BY <1>0, <1>1, <1>2 DEF TypeOK, Pcs, ActiveAnswers
<1>4. /\ arrived' \in [Reqs -> {"live", "dead"}]
      /\ arrived'[r] = "dead" => t \in Tokens /\ Dead(t)
      /\ \A q \in Reqs \ {r} : arrived'[q] = arrived[q]
  BY <1>0, <1>1 DEF TypeOK
<1>5. TypeOK'
  <2>1. StoreTypeOK'
    BY <1>0, StoreFrame
  <2> QED BY <1>0, <1>2, <1>3, <1>4, <2>1 DEF TypeOK
<1>6. AnswersKept'
  BY <1>0, <1>2, <1>3, <1>4 DEF AnswersKept
<1>7. DeadAdmittedOnlyByOverlap'
  BY <1>0, <1>2, <1>3, <1>4 DEF DeadAdmittedOnlyByOverlap, AnswersKept
<1>8. ASSUME NEW u PROVE {q \in Reqs : pc'[q] = "response" /\ tok'[q] = u /\ resp'[q].status = "active"}
                          = ActiveAnswers(u)
  BY <1>2, <1>3 DEF ActiveAnswers
<1>9. Overlap'
  <2>1. ASSUME NEW q \in Reqs, arrived'[q] = "dead"
        PROVE  /\ tok'[q] \in Tokens /\ Dead(tok[q])'
               /\ ActiveAnswers(tok[q])' \subseteq pending'[q]
               /\ pc'[q] = "resolve" /\ pending'[q] = {} =>
                    records'[tok'[q]] \in Record /\ records'[tok'[q]].status # "active"
    <3>1. ActiveAnswers(tok[q])' = ActiveAnswers(tok'[q])
      BY <1>8 DEF ActiveAnswers
    <3>2. CASE q = r
      <4>1. Dead(t)'
        BY <1>2, <1>4, <2>1, <3>2 DEF storeVars, Dead
      <4> QED BY <1>3, <1>4, <2>1, <3>1, <3>2, <4>1
    <3>3. CASE q # r
      BY <1>0, <1>2, <1>3, <1>4, <2>1, <3>1, <3>3, OverlapFrame
    <3> QED BY <3>2, <3>3
  <2> QED BY <2>1 DEF Overlap
<1> QED BY <1>5, <1>6, <1>7, <1>9 DEF AuthInv

\* The runtime answers: never "active" for a dead token.
LEMMA IntrospectedKeeps ==
  ASSUME AuthInv, [Next]_vars, NEW r \in Reqs, Introspected(r)
  PROVE  AuthInv'
<1>0. TypeOK /\ AnswersKept /\ Overlap /\ DeadAdmittedOnlyByOverlap
  BY DEF AuthInv
<1>1. /\ pc[r] = "introspect" /\ Found(tok[r]) /\ tok[r] \in Tokens
      /\ resp' = [resp EXCEPT ![r] =
                    [status |-> ApplyExpiry(tok[r]), expiresAt |-> expiresAt[tok[r]]]]
      /\ pc' = [pc EXCEPT ![r] = "response"]
      /\ UNCHANGED <<tok, arrived, pending, out, records>>
  BY DEF Introspected, Found
<1>2. /\ resp' \in [Reqs -> Record \cup {NoRecord}] /\ resp'[r] \in Record
      /\ Dead(tok[r]) => resp'[r].status # "active"
      /\ \A q \in Reqs \ {r} : resp'[q] = resp[q]
  BY <1>0, <1>1, DeadAnswer DEF TypeOK
<1>3. /\ pc' \in [Reqs -> Pcs] /\ pc'[r] = "response" /\ \A q \in Reqs \ {r} : pc'[q] = pc[q]
  BY <1>0, <1>1 DEF TypeOK, Pcs
<1>4. TypeOK'
  <2>1. StoreTypeOK'
    BY <1>0, StoreFrame
  <2> QED BY <1>0, <1>1, <1>2, <1>3, <2>1 DEF TypeOK
<1>5. AnswersKept' /\ DeadAdmittedOnlyByOverlap'
  BY <1>0, <1>1, <1>2, <1>3 DEF AnswersKept, DeadAdmittedOnlyByOverlap
<1>6. Overlap'
  <2>1. ASSUME NEW q \in Reqs, arrived'[q] = "dead"
        PROVE  /\ tok'[q] \in Tokens /\ Dead(tok[q])'
               /\ ActiveAnswers(tok[q])' \subseteq pending'[q]
               /\ pc'[q] = "resolve" /\ pending'[q] = {} =>
                    records'[tok'[q]] \in Record /\ records'[tok'[q]].status # "active"
    <3>1. Dead(tok[q])
      BY <1>0, <1>1, <2>1 DEF Overlap
    <3>2. ActiveAnswers(tok[q])' \subseteq ActiveAnswers(tok[q])
      BY <1>1, <1>2, <1>3, <3>1 DEF ActiveAnswers
    <3>3. pc'[q] = "resolve" => pc[q] = "resolve"
      BY <1>3
    <3> QED BY <1>0, <1>1, <2>1, <3>2, <3>3, OverlapFrame
  <2> QED BY <2>1 DEF Overlap
<1> QED BY <1>4, <1>5, <1>6 DEF AuthInv

\* Verify stores an answer: an "active" one over a dead token was pending.
LEMMA StoreResponseKeeps ==
  ASSUME AuthInv, [Next]_vars, NEW r \in Reqs, StoreResponse(r)
  PROVE  AuthInv'
<1>0. TypeOK /\ AnswersKept /\ Overlap /\ DeadAdmittedOnlyByOverlap
  BY DEF AuthInv
<1>1. /\ pc[r] = "response" /\ records' = [records EXCEPT ![tok[r]] = resp[r]]
      /\ pc' = [pc EXCEPT ![r] = "resolve"]
      /\ UNCHANGED <<storeVars, tok, arrived, pending, resp, out>>
  BY DEF StoreResponse
<1>2. tok[r] \in Tokens /\ resp[r] \in Record
  BY <1>0, <1>1 DEF AnswersKept
<1>3. /\ records' \in [Tokens -> Record \cup {NoRecord}] /\ records'[tok[r]] = resp[r]
      /\ \A u \in Tokens : u # tok[r] => records'[u] = records[u]
  BY <1>0, <1>1, <1>2 DEF TypeOK
<1>4. /\ pc' \in [Reqs -> Pcs] /\ pc'[r] = "resolve" /\ \A q \in Reqs \ {r} : pc'[q] = pc[q]
  BY <1>0, <1>1 DEF TypeOK, Pcs
<1>5. TypeOK'
  <2>1. StoreTypeOK'
    BY <1>0, StoreFrame
  <2> QED BY <1>0, <1>1, <1>3, <1>4, <2>1 DEF TypeOK
<1>6. AnswersKept' /\ DeadAdmittedOnlyByOverlap'
  BY <1>0, <1>1, <1>2, <1>4 DEF AnswersKept, DeadAdmittedOnlyByOverlap
<1>7. Overlap'
  <2>1. ASSUME NEW q \in Reqs, arrived'[q] = "dead"
        PROVE  /\ tok'[q] \in Tokens /\ Dead(tok[q])'
               /\ ActiveAnswers(tok[q])' \subseteq pending'[q]
               /\ pc'[q] = "resolve" /\ pending'[q] = {} =>
                    records'[tok'[q]] \in Record /\ records'[tok'[q]].status # "active"
    <3>1. /\ arrived[q] = "dead" /\ tok'[q] = tok[q] /\ tok[q] \in Tokens
          /\ ActiveAnswers(tok[q]) \subseteq pending[q] /\ pending'[q] = pending[q]
          /\ pc[q] = "resolve" /\ pending[q] = {} =>
               records[tok[q]] \in Record /\ records[tok[q]].status # "active"
      BY <1>0, <1>1, <2>1 DEF Overlap
    <3>2. Dead(tok[q])'
      <4>1. Dead(tok[q])
        BY <1>0, <3>1 DEF Overlap
      <4> QED BY <1>1, <4>1 DEF storeVars, Dead
    <3>3. ActiveAnswers(tok[q])' \subseteq ActiveAnswers(tok[q])
      BY <1>1, <1>4 DEF ActiveAnswers
    <3>4. pending[q] = {} /\ tok[q] = tok[r] => resp[r].status # "active"
      BY <1>1, <3>1 DEF ActiveAnswers
    <3>5. ASSUME pc'[q] = "resolve", pending'[q] = {}
          PROVE  records'[tok'[q]] \in Record /\ records'[tok'[q]].status # "active"
      <4>1. CASE tok[q] = tok[r]
        BY <1>2, <1>3, <3>1, <3>4, <3>5, <4>1
      <4>2. CASE tok[q] # tok[r]
        <5>1. q # r /\ pc[q] = "resolve"
          BY <1>4, <3>5, <4>2
        <5> QED BY <1>3, <3>1, <3>5, <4>2, <5>1
      <4> QED BY <4>1, <4>2
    <3> QED BY <3>1, <3>2, <3>3, <3>5
  <2> QED BY <2>1 DEF Overlap
<1> QED BY <1>5, <1>6, <1>7 DEF AuthInv

\* Resolve: a dead token is admitted only if a pending answer overwrote its record.
LEMMA ResolveKeeps ==
  ASSUME AuthInv, [Next]_vars, NEW r \in Reqs, Resolve(r)
  PROVE  AuthInv'
<1>0. TypeOK /\ AnswersKept /\ Overlap /\ DeadAdmittedOnlyByOverlap
  BY DEF AuthInv
<1>1. /\ pc[r] = "resolve"
      /\ Answer(r, IF Resolved(records[tok[r]]) = "active" THEN "admitted" ELSE "inactive")
      /\ UNCHANGED <<storeVars, tok, arrived, pending, resp, records>>
  BY DEF Resolve
<1>2. CASE Resolved(records[tok[r]]) # "active"
  <2>1. Answer(r, "inactive")
    BY <1>1, <1>2
  <2> QED BY <1>1, <2>1, RefusedKeeps DEF Outs
<1>3. CASE Resolved(records[tok[r]]) = "active"
  <2>1. /\ pc' = [pc EXCEPT ![r] = "done"] /\ out' = [out EXCEPT ![r] = "admitted"]
    BY <1>1, <1>3 DEF Answer
  <2>2. /\ pc' \in [Reqs -> Pcs] /\ pc'[r] = "done" /\ \A q \in Reqs \ {r} : pc'[q] = pc[q]
        /\ out' \in [Reqs -> Outs] /\ \A q \in Reqs \ {r} : out'[q] = out[q]
    BY <1>0, <2>1 DEF TypeOK, Pcs, Outs
  <2>3. arrived[r] = "dead" => pending[r] # {}
    BY <1>0, <1>1, <1>3, InactiveResolves DEF Overlap
  <2>4. TypeOK'
    <3>1. StoreTypeOK'
      BY <1>0, StoreFrame
    <3> QED BY <1>0, <1>1, <2>2, <3>1 DEF TypeOK
  <2>5. AnswersKept'
    BY <1>0, <1>1, <2>2 DEF AnswersKept
  <2>6. DeadAdmittedOnlyByOverlap'
    BY <1>0, <1>1, <2>2, <2>3 DEF DeadAdmittedOnlyByOverlap
  <2>7. Overlap'
    <3>1. ASSUME NEW q \in Reqs, arrived'[q] = "dead"
          PROVE  /\ tok'[q] \in Tokens /\ Dead(tok[q])'
                 /\ ActiveAnswers(tok[q])' \subseteq pending'[q]
                 /\ pc'[q] = "resolve" /\ pending'[q] = {} =>
                      records'[tok'[q]] \in Record /\ records'[tok'[q]].status # "active"
      <4>1. ActiveAnswers(tok[q])' \subseteq ActiveAnswers(tok[q])
        BY <1>1, <2>2 DEF ActiveAnswers
      <4>2. pc'[q] = "resolve" => pc[q] = "resolve"
        BY <2>2
      <4> QED BY <1>0, <1>1, <3>1, <4>1, <4>2, OverlapFrame
    <3> QED BY <3>1 DEF Overlap
  <2> QED BY <2>4, <2>5, <2>6, <2>7 DEF AuthInv
<1> QED BY <1>2, <1>3

--------------------------------------------------------------------------------
\* AuthInv is an inductive invariant of the gateway and the runtime together.
THEOREM AuthInvariance == Spec => []AuthInv
<1>1. ASSUME Init PROVE AuthInv
  <2>1. TypeOK
    BY <1>1 DEF Init, StoreInit, TypeOK, StoreTypeOK, TokenStatus, Pcs, Outs
  <2>2. AnswersKept /\ Overlap /\ DeadAdmittedOnlyByOverlap
    BY <1>1 DEF Init, AnswersKept, Overlap, DeadAdmittedOnlyByOverlap
  <2> QED BY <2>1, <2>2 DEF AuthInv
<1>2. ASSUME AuthInv, [Next]_vars PROVE AuthInv'
  <2>1. CASE RuntimeStep \/ UNCHANGED vars
    <3>1. UNCHANGED <<reqVars, records>>
      BY <2>1 DEF RuntimeStep, vars
    <3> QED BY <1>2, <3>1, RuntimeKeeps
  <2>2. ASSUME NEW r \in Reqs, RejectEarly(r) PROVE AuthInv'
    <3>1. PICK o \in {"missing_bearer", "query_key"} : Answer(r, o)
      BY <2>2 DEF RejectEarly
    <3>2. UNCHANGED <<storeVars, tok, arrived, pending, resp, records>>
      BY <2>2 DEF RejectEarly
    <3>3. o \in Outs /\ o # "admitted"
      BY DEF Outs
    <3> QED BY <1>2, <3>1, <3>2, <3>3, RefusedKeeps
  <2>3. ASSUME NEW r \in Reqs, VerifyFails(r) PROVE AuthInv'
    <3>1. "invalid" \in Outs
      BY DEF Outs
    <3> QED BY <1>2, <2>3, <3>1, RefusedKeeps DEF VerifyFails
  <2>4. ASSUME NEW r \in Reqs, SendIntrospect(r) PROVE AuthInv'
    BY <1>2, <2>4, SendIntrospectKeeps
  <2>5. ASSUME NEW r \in Reqs, Introspected(r) PROVE AuthInv'
    BY <1>2, <2>5, IntrospectedKeeps
  <2>6. ASSUME NEW r \in Reqs, StoreResponse(r) PROVE AuthInv'
    BY <1>2, <2>6, StoreResponseKeeps
  <2>7. ASSUME NEW r \in Reqs, Resolve(r) PROVE AuthInv'
    BY <1>2, <2>7, ResolveKeeps
  <2> QED BY <1>2, <2>1, <2>2, <2>3, <2>4, <2>5, <2>6, <2>7 DEF Next
<1> QED BY <1>1, <1>2, PTL DEF Spec

\* The store, the requests and the shared records keep their types.
THEOREM AuthTypeCorrect == Spec => []TypeOK
<1>1. AuthInv => TypeOK
  BY DEF AuthInv
<1> QED BY <1>1, AuthInvariance, PTL

\* Verify and Resolve, which share one map without a common lock, admit a request
\* whose token was dead on arrival only when an older "active" answer was under way.
THEOREM DeadStaysOut == Spec => []DeadAdmittedOnlyByOverlap
<1>1. AuthInv => DeadAdmittedOnlyByOverlap
  BY DEF AuthInv
<1> QED BY <1>1, AuthInvariance, PTL

--------------------------------------------------------------------------------
(***************************************************************************)
(* The router (ProviderRouting), for any providers, models, strategy and   *)
(* number of connections.                                                  *)
(***************************************************************************)
\* A request that is calling or has been answered knows its provider.
Selected == \A r \in Requests : stage[r] # "idle" => prov[r] \in Providers

\* The rate after k failures in a row is at least 1 - 0.9^k, less what rounding takes.
RateAtLeast(k, rate) ==
  /\ k = 1 => 10 * rate >= Unit
  /\ k = 2 => 100 * rate >= 19 * Unit - 100
  /\ k = 3 => 1000 * rate >= 271 * Unit - 1900
  /\ k = 4 => 10000 * rate >= 3439 * Unit - 27100
  /\ k = 5 => 100000 * rate >= 40951 * Unit - 343900
  /\ k = 6 => 1000000 * rate >= 468559 * Unit - 4095100

\* The rate after k failures and any number of successes is at most 1 - 0.9^k, and
\* what rounding adds.
RateAtMost(k, rate) ==
  /\ k = 0 => rate = 0
  /\ k = 1 => 10 * rate <= Unit
  /\ k = 2 => 100 * rate <= 19 * Unit + 90
  /\ k = 3 => 1000 * rate <= 271 * Unit + 1710
  /\ k = 4 => 10000 * rate <= 3439 * Unit + 24390
  /\ k = 5 => 100000 * rate <= 40951 * Unit + 309510
  /\ k = 6 => 1000000 * rate <= 468559 * Unit + 3685590

\* A provider in the rotation has fewer than seven failures in a row, and a rate
\* that is at least theirs.
StreakShows ==
  \A p \in Providers :
    health[p].available => streak[p] <= 6 /\ RateAtLeast(streak[p], health[p].rate)

\* The failed calls filed under p that are still to be reported.
Unreported(p) ==
  {r \in Requests : stage[r] = "returned" /\ ~result[r].ok /\ Reported[prov[r]] = p}

\* Until seven calls have failed the rate is no more than the reported ones make it.
FailuresCover ==
  \A p \in Providers :
    \/ failed[p] >= 7
    \/ /\ health[p].available
       /\ \E k \in 0..6 : /\ RateAtMost(k, health[p].rate)
                          /\ k + Cardinality(Unreported(p)) <= failed[p]

RouteInv == RouterTypeOK /\ Selected /\ StreakShows /\ FailuresCover

--------------------------------------------------------------------------------
\* A failure moves the rate by a tenth of the way to 1, up to rounding.
LEMMA FailedRateBound ==
  ASSUME NEW r \in 0..Unit, NEW n \in FailedRate(r)
  PROVE  /\ n \in 0..Unit
         /\ 10 * n >= 9 * r + Unit - 10 /\ 10 * n <= 9 * r + Unit + 9
         /\ r = 0 => 10 * n = Unit
         /\ 10 * n >= Unit
<1> USE ProviderRoutingAssumption
<1> DEFINE c == (9 * r + Unit + 9) \div 10
<1>1. c \in Int /\ 10 * c <= 9 * r + Unit + 9 /\ 10 * c >= 9 * r + Unit
  OBVIOUS
<1>2. CeilDiv(9 * r + Unit, 10) = c
  BY DEF CeilDiv
<1>3. PICK u \in Nat : Unit = 10 * u
  <2>1. Unit = 10 * (Unit \div 10) /\ Unit \div 10 \in Nat
    OBVIOUS
  <2> QED BY <2>1
<1> HIDE DEF c
<1>4. CASE r = 0
  <2>1. n = c
    BY <1>2, <1>4 DEF FailedRate
  <2> QED BY <1>1, <1>3, <1>4, <2>1
<1>5. CASE r # 0
  <2>1. n = c - 1 \/ n = c
    BY <1>2, <1>5 DEF FailedRate
  <2>2. n \in Int /\ 10 * n >= 9 * r + Unit - 10 /\ 10 * n <= 9 * r + Unit + 9
    BY <1>1, <2>1
  <2>3. n <= Unit /\ n >= 0 /\ 10 * n >= Unit
    BY <1>3, <1>5, <2>2
  <2> QED BY <1>5, <2>2, <2>3
<1> QED BY <1>4, <1>5

\* A success never raises the rate.
LEMMA RestoredRateBound ==
  ASSUME NEW r \in 0..Unit, NEW n \in RestoredRate(r)
  PROVE  n \in 0..Unit /\ n <= r
<1> USE ProviderRoutingAssumption
<1>1. (r + 1) \div 2 \in 0..r
  OBVIOUS
<1>2. CeilDiv(r, 2) \in 0..r
  BY <1>1 DEF CeilDiv
<1> QED BY <1>2 DEF RestoredRate

\* The moving average stays within the latencies that were measured.
LEMMA LatencyStays ==
  ASSUME NEW l \in 0..LatencyBound, NEW ms \in Latencies \cup {0}
  PROVE  NewLatency(l, ms) \in 0..LatencyBound
<1>1. LatencyBound \in Nat /\ \A k \in Latencies : k \in Nat /\ k <= LatencyBound
  BY ProviderRoutingAssumption DEF LatencyBound
<1>2. ms \in 0..LatencyBound
  BY <1>1
<1>3. (7 * l + ms) \div 8 \in 0..LatencyBound
  <2> HIDE DEF LatencyBound
  <2> QED BY <1>1, <1>2
<1> QED BY <1>1, <1>2, <1>3 DEF NewLatency

\* One more failure in a row: the lower bound moves on, and the seventh is above 1/2.
LEMMA AtLeastStep ==
  ASSUME NEW r \in 0..Unit, NEW n \in FailedRate(r), NEW k \in 0..6, RateAtLeast(k, r)
  PROVE  /\ k < 6 => RateAtLeast(k + 1, n)
         /\ k = 6 => 2 * n > Unit
<1> USE ProviderRoutingAssumption
<1>1. n \in Nat /\ 10 * n >= 9 * r + Unit - 10 /\ 10 * n >= Unit
  BY FailedRateBound
<1>2. CASE k = 0
  BY <1>1, <1>2 DEF RateAtLeast
<1>3. CASE k = 1
  BY <1>1, <1>3 DEF RateAtLeast
<1>4. CASE k = 2
  BY <1>1, <1>4 DEF RateAtLeast
<1>5. CASE k = 3
  BY <1>1, <1>5 DEF RateAtLeast
<1>6. CASE k = 4
  BY <1>1, <1>6 DEF RateAtLeast
<1>7. CASE k = 5
  BY <1>1, <1>7 DEF RateAtLeast
<1>8. CASE k = 6
  BY <1>1, <1>8 DEF RateAtLeast
<1> QED BY <1>2, <1>3, <1>4, <1>5, <1>6, <1>7, <1>8

\* One more failure: the upper bound moves on.
LEMMA AtMostStep ==
  ASSUME NEW r \in 0..Unit, NEW n \in FailedRate(r), NEW k \in 0..5, RateAtMost(k, r)
  PROVE  RateAtMost(k + 1, n)
<1> USE ProviderRoutingAssumption
<1>1. n \in Nat /\ 10 * n <= 9 * r + Unit + 9 /\ (r = 0 => 10 * n = Unit)
  BY FailedRateBound
<1>2. CASE k = 0
  BY <1>1, <1>2 DEF RateAtMost
<1>3. CASE k = 1
  BY <1>1, <1>3 DEF RateAtMost
<1>4. CASE k = 2
  BY <1>1, <1>4 DEF RateAtMost
<1>5. CASE k = 3
  BY <1>1, <1>5 DEF RateAtMost
<1>6. CASE k = 4
  BY <1>1, <1>6 DEF RateAtMost
<1>7. CASE k = 5
  BY <1>1, <1>7 DEF RateAtMost
<1> QED BY <1>2, <1>3, <1>4, <1>5, <1>6, <1>7

\* Six failures do not take the rate above 1/2, and a lower rate is within the same
\* bound.
LEMMA AtMostFacts ==
  ASSUME NEW r \in 0..Unit, NEW k \in 0..6, RateAtMost(k, r)
  PROVE  /\ 2 * r <= Unit
         /\ \A n \in 0..Unit : n <= r => RateAtMost(k, n)
<1> USE ProviderRoutingAssumption
<1>1. CASE k = 0
  BY <1>1 DEF RateAtMost
<1>2. CASE k = 1
  BY <1>2 DEF RateAtMost
<1>3. CASE k = 2
  BY <1>3 DEF RateAtMost
<1>4. CASE k = 3
  BY <1>4 DEF RateAtMost
<1>5. CASE k = 4
  BY <1>5 DEF RateAtMost
<1>6. CASE k = 5
  BY <1>6 DEF RateAtMost
<1>7. CASE k = 6
  BY <1>7 DEF RateAtMost
<1> QED BY <1>1, <1>2, <1>3, <1>4, <1>5, <1>6, <1>7

\* The number of unreported failures is a number.
LEMMA UnreportedCard ==
  ASSUME NEW S \in SUBSET Requests
  PROVE  IsFiniteSet(S) /\ Cardinality(S) \in Nat
<1>1. IsFiniteSet(Requests)
  BY ProviderRoutingAssumption
<1>2. IsFiniteSet(S)
  BY <1>1, FS_Subset
<1> QED BY <1>2, FS_CardinalityType

\* The invariant holds initially.
LEMMA RouteInvInit == RouterInit => RouteInv
<1> SUFFICES ASSUME RouterInit PROVE RouteInv
  OBVIOUS
<1> USE ProviderRoutingAssumption DEF RouterInit
<1>1. RouterTypeOK
  <2>1. LatencyBound \in Nat
    BY DEF LatencyBound
  <2>2. health \in [Providers -> Health]
    <3>1. [available |-> TRUE, latency |-> 0, rate |-> 0] \in Health
      BY <2>1 DEF Health
    <3> QED BY <3>1
  <2>3. result \in [Requests -> [ok : BOOLEAN, latency : Latencies \cup {0}]]
    BY DEF NoCall
  <2>4. up \in [Providers -> BOOLEAN]
    BY Zenon
  <2>5. /\ stage \in [Requests -> {"idle", "calling", "returned"}]
        /\ kind \in [Requests -> Kinds \cup {"none"}]
        /\ prov \in [Requests -> Providers \cup {"none"}]
        /\ ans \in [Requests -> Answers]
    BY DEF Answers
  <2>6. failed \in [Providers -> 0..HistoryCap] /\ streak \in [Providers -> 0..HistoryCap]
    OBVIOUS
  <2> QED BY <2>2, <2>3, <2>4, <2>5, <2>6 DEF RouterTypeOK
<1>2. Selected
  BY DEF Selected
<1>3. StreakShows
  BY DEF StreakShows, RateAtLeast
<1>4. FailuresCover
  <2>1. \A p \in Providers : Unreported(p) = {}
    BY DEF Unreported
  <2>2. \A p \in Providers : Cardinality(Unreported(p)) = 0
    BY <2>1, FS_EmptySet
  <2>3. \A p \in Providers : RateAtMost(0, health[p].rate)
    BY DEF RateAtMost
  <2> QED BY <2>2, <2>3 DEF FailuresCover
<1> QED BY <1>1, <1>2, <1>3, <1>4 DEF RouteInv

--------------------------------------------------------------------------------
\* Steps that leave the router alone and the failures to be reported as they are,
\* and forget no failed call.
LEMMA RouterAlone ==
  ASSUME RouteInv, RouterTypeOK', Selected', UNCHANGED <<health, streak>>,
         \A p \in Providers : Unreported(p)' = Unreported(p) /\ failed'[p] >= failed[p]
  PROVE  RouteInv'
<1>1. StreakShows'
  BY DEF RouteInv, StreakShows
<1>2. FailuresCover'
  <2> SUFFICES ASSUME NEW p \in Providers, ~(failed'[p] >= 7)
               PROVE  /\ health'[p].available
                      /\ \E k \in 0..6 : /\ RateAtMost(k, health'[p].rate)
                                         /\ k + Cardinality(Unreported(p)') <= failed'[p]
    BY DEF FailuresCover
  <2>1. failed[p] \in Nat /\ failed'[p] \in Nat /\ failed'[p] >= failed[p]
    BY ProviderRoutingAssumption DEF RouteInv, RouterTypeOK
  <2>2. Unreported(p)' = Unreported(p) /\ Cardinality(Unreported(p)) \in Nat
    <3>1. Unreported(p) \in SUBSET Requests
      BY DEF Unreported
    <3> QED BY <3>1, UnreportedCard
  <2>3. PICK k \in 0..6 : /\ RateAtMost(k, health[p].rate)
                          /\ k + Cardinality(Unreported(p)) <= failed[p]
    BY <2>1 DEF RouteInv, FailuresCover
  <2>4. health[p].available
    BY <2>1 DEF RouteInv, FailuresCover
  <2>5. k + Cardinality(Unreported(p)') <= failed'[p]
    BY <2>1, <2>2, <2>3
  <2> QED BY <2>3, <2>4, <2>5
<1> QED BY <1>1, <1>2 DEF RouteInv

\* A refused body, and a provider going down or coming back.
LEMMA OutsideKeeps ==
  ASSUME RouteInv,
         \/ \E r \in Requests : Refuse(r)
         \/ \E p \in Providers : Toggle(p)
  PROVE  RouteInv'
<1>1. UNCHANGED <<health, streak, stage, kind, prov, result, failed>>
  BY DEF Refuse, Toggle, callVars
<1>2. RouterTypeOK'
  BY <1>1 DEF RouteInv, RouterTypeOK, Refuse, Toggle, callVars, Answers
<1>3. Selected'
  BY <1>1 DEF RouteInv, Selected
<1>4. \A p \in Providers : Unreported(p)' = Unreported(p) /\ failed'[p] >= failed[p]
  BY <1>1, ProviderRoutingAssumption DEF RouteInv, RouterTypeOK, Unreported
<1> QED BY <1>1, <1>2, <1>3, <1>4, RouterAlone

\* Whatever the strategy, a provider that is selected is a candidate.
LEMMA SelectCandidates ==
  ASSUME NEW m, NEW p \in Select(Candidates(m))
  PROVE  p \in Providers
BY DEF Select, SelectByLatency, SelectByAvailability, Candidates

\* Selecting a provider and starting the call.
LEMMA AcceptKeeps ==
  ASSUME RouteInv, NEW r \in Requests, Accept(r)
  PROVE  RouteInv'
<1>0. stage[r] = "idle" /\ UNCHANGED <<health, up, result, failed, streak>>
  BY DEF Accept
<1>1. CASE \E m \in Models : ans' = [ans EXCEPT ![r] = "no_provider"] /\ UNCHANGED <<stage, kind, prov>>
  <2>1. RouterTypeOK'
    BY <1>0, <1>1 DEF RouteInv, RouterTypeOK, Answers
  <2>2. Selected'
    BY <1>0, <1>1 DEF RouteInv, Selected
  <2>3. \A p \in Providers : Unreported(p)' = Unreported(p) /\ failed'[p] >= failed[p]
    BY <1>0, <1>1, ProviderRoutingAssumption DEF RouteInv, RouterTypeOK, Unreported
  <2> QED BY <1>0, <2>1, <2>2, <2>3, RouterAlone
<1>2. ASSUME NEW k \in Kinds, NEW p \in Providers,
             prov' = [prov EXCEPT ![r] = p], stage' = [stage EXCEPT ![r] = "calling"],
             kind' = [kind EXCEPT ![r] = k], UNCHANGED ans
      PROVE  RouteInv'
  <2>1. RouterTypeOK'
    BY <1>0, <1>2 DEF RouteInv, RouterTypeOK
  <2>2. Selected'
    BY <1>0, <1>2 DEF RouteInv, Selected, RouterTypeOK
  <2>3. \A q \in Providers : Unreported(q)' = Unreported(q)
    BY <1>0, <1>2 DEF RouteInv, RouterTypeOK, Unreported
  <2>4. \A q \in Providers : failed'[q] >= failed[q]
    BY <1>0, ProviderRoutingAssumption DEF RouteInv, RouterTypeOK
  <2> QED BY <1>0, <2>1, <2>2, <2>3, <2>4, RouterAlone
<1>3. PICK k \in Kinds, m \in Models :
        \/ /\ ans' = [ans EXCEPT ![r] = "no_provider"]
           /\ UNCHANGED <<stage, kind, prov>>
        \/ /\ \E p \in Select(Candidates(m)) : prov' = [prov EXCEPT ![r] = p]
           /\ stage' = [stage EXCEPT ![r] = "calling"]
           /\ kind' = [kind EXCEPT ![r] = k]
           /\ UNCHANGED ans
  BY DEF Accept
<1> QED BY <1>1, <1>2, <1>3, SelectCandidates

\* The end of a handler keeps the types.
LEMMA FinishTypes ==
  ASSUME RouterTypeOK, NEW r \in Requests, NEW ok, Finish(r, ok)
  PROVE  /\ ans' \in [Requests -> Answers]
         /\ stage' \in [Requests -> {"idle", "calling", "returned"}]
         /\ kind' \in [Requests -> Kinds \cup {"none"}]
         /\ prov' \in [Requests -> Providers \cup {"none"}]
         /\ result' \in [Requests -> [ok : BOOLEAN, latency : Latencies \cup {0}]]
         /\ stage'[r] = "idle"
         /\ \A q \in Requests \ {r} :
              stage'[q] = stage[q] /\ prov'[q] = prov[q] /\ result'[q] = result[q]
<1>1. Reply(ok) \in Answers
  BY DEF Reply, Answers
<1>2. NoCall \in [ok : BOOLEAN, latency : Latencies \cup {0}]
  BY DEF NoCall
<1> QED BY <1>1, <1>2 DEF Finish, RouterTypeOK

\* The history of failed calls after one more.
LEMMA FailedGrows ==
  ASSUME RouterTypeOK, NEW name, failed' = [failed EXCEPT ![name] = Capped(@ + 1)]
  PROVE  /\ failed' \in [Providers -> 0..HistoryCap]
         /\ \A p \in Providers : failed'[p] >= failed[p] /\ (p # name => failed'[p] = failed[p])
         /\ name \in Providers /\ failed[name] < 7 => failed'[name] = failed[name] + 1
<1>1. ASSUME NEW n \in 0..HistoryCap PROVE Capped(n + 1) \in 0..HistoryCap /\ Capped(n + 1) >= n
  BY ProviderRoutingAssumption DEF Capped
<1>2. \A p \in Providers : failed[p] \in 0..HistoryCap
  BY DEF RouterTypeOK
<1>3. \A p \in Providers : failed'[p] = IF p = name THEN Capped(failed[p] + 1) ELSE failed[p]
  BY DEF RouterTypeOK
<1>4. \A p \in Providers : failed'[p] \in 0..HistoryCap /\ failed'[p] >= failed[p]
  BY <1>1, <1>2, <1>3, ProviderRoutingAssumption
<1>5. failed' \in [Providers -> 0..HistoryCap]
  BY <1>4 DEF RouterTypeOK
<1>6. ASSUME name \in Providers, failed[name] < 7 PROVE failed'[name] = failed[name] + 1
  BY <1>2, <1>3, <1>6, ProviderRoutingAssumption DEF Capped
<1> QED BY <1>3, <1>4, <1>5, <1>6

\* The failed call of a chat request joins the failures to be reported, and is one
\* more failed call of the name it is filed under.
LEMMA ChatFailureKeeps ==
  ASSUME RouteInv, RouterTypeOK', Selected', UNCHANGED <<health, streak, prov>>,
         NEW r \in Requests, stage[r] = "calling", stage' = [stage EXCEPT ![r] = "returned"],
         NEW ms, result' = [result EXCEPT ![r] = [ok |-> FALSE, latency |-> ms]],
         failed' = [failed EXCEPT ![Reported[prov[r]]] = Capped(@ + 1)]
  PROVE  RouteInv'
<1> DEFINE name == Reported[prov[r]]
<1>1. StreakShows'
  BY DEF RouteInv, StreakShows
<1>2. /\ \A p \in Providers : failed'[p] >= failed[p] /\ (p # name => failed'[p] = failed[p])
      /\ name \in Providers /\ failed[name] < 7 => failed'[name] = failed[name] + 1
  BY FailedGrows DEF RouteInv
<1>3. FailuresCover'
  <2> SUFFICES ASSUME NEW p \in Providers, ~(failed'[p] >= 7)
               PROVE  /\ health'[p].available
                      /\ \E k \in 0..6 : /\ RateAtMost(k, health'[p].rate)
                                         /\ k + Cardinality(Unreported(p)') <= failed'[p]
    BY DEF FailuresCover
  <2>1. failed[p] \in Nat /\ failed'[p] \in Nat /\ failed'[p] >= failed[p]
    BY <1>2, ProviderRoutingAssumption DEF RouteInv, RouterTypeOK
  <2>2. IsFiniteSet(Unreported(p)) /\ Cardinality(Unreported(p)) \in Nat
    <3>1. Unreported(p) \in SUBSET Requests
      BY DEF Unreported
    <3> QED BY <3>1, UnreportedCard
  <2>3. health[p].available
    BY <2>1 DEF RouteInv, FailuresCover
  <2>4. PICK k \in 0..6 : /\ RateAtMost(k, health[p].rate)
                          /\ k + Cardinality(Unreported(p)) <= failed[p]
    BY <2>1 DEF RouteInv, FailuresCover
  <2>5. CASE p = name
    <3>1. Unreported(p)' = Unreported(p) \cup {r}
      BY <2>5 DEF RouteInv, RouterTypeOK, Unreported
    <3>2. r \notin Unreported(p)
      BY DEF Unreported
    <3>3. Cardinality(Unreported(p)') = Cardinality(Unreported(p)) + 1
      BY <2>2, <3>1, <3>2, FS_AddElement
    <3>4. failed'[p] = failed[p] + 1
      BY <1>2, <2>1, <2>5
    <3>5. k + Cardinality(Unreported(p)') <= failed'[p]
      BY <2>1, <2>2, <2>4, <3>3, <3>4
    <3> QED BY <2>3, <2>4, <3>5
  <2>6. CASE p # name
    <3>1. Unreported(p)' = Unreported(p)
      BY <2>6 DEF RouteInv, RouterTypeOK, Unreported
    <3>2. failed'[p] = failed[p]
      BY <1>2, <2>6
    <3> QED BY <2>3, <2>4, <3>1, <3>2
  <2> QED BY <2>5, <2>6
<1> QED BY <1>1, <1>3 DEF RouteInv

\* The call returns.
LEMMA ReturnKeeps ==
  ASSUME RouteInv, NEW r \in Requests, Return(r)
  PROVE  RouteInv'
<1>0. stage[r] = "calling" /\ UNCHANGED <<health, up, streak>>
  BY DEF Return
<1>1. PICK ok \in BOOLEAN, ms \in Latencies :
        IF kind[r] = "chat"
        THEN /\ stage' = [stage EXCEPT ![r] = "returned"]
             /\ result' = [result EXCEPT ![r] = [ok |-> ok, latency |-> ms]]
             /\ failed' = IF ok THEN failed
                          ELSE [failed EXCEPT ![Reported[prov[r]]] = Capped(@ + 1)]
             /\ UNCHANGED <<ans, kind, prov>>
        ELSE Finish(r, ok) /\ UNCHANGED failed
  BY DEF Return
<1>2. /\ failed' \in [Providers -> 0..HistoryCap]
      /\ \A p \in Providers : failed'[p] >= failed[p]
  <2>1. CASE failed' = failed
    BY <2>1, ProviderRoutingAssumption DEF RouteInv, RouterTypeOK
  <2>2. CASE failed' = [failed EXCEPT ![Reported[prov[r]]] = Capped(@ + 1)]
    BY <2>2, FailedGrows DEF RouteInv
  <2> QED BY <1>1, <2>1, <2>2
<1>3. CASE kind[r] = "chat"
  <2>0. /\ stage' = [stage EXCEPT ![r] = "returned"]
        /\ result' = [result EXCEPT ![r] = [ok |-> ok, latency |-> ms]]
        /\ UNCHANGED <<ans, kind, prov>>
    BY <1>1, <1>3
  <2>1. RouterTypeOK'
    <3>1. [ok |-> ok, latency |-> ms] \in [ok : BOOLEAN, latency : Latencies \cup {0}]
      OBVIOUS
    <3>2. result' \in [Requests -> [ok : BOOLEAN, latency : Latencies \cup {0}]]
      BY <2>0, <3>1 DEF RouteInv, RouterTypeOK
    <3> QED BY <1>0, <1>2, <2>0, <3>2 DEF RouteInv, RouterTypeOK
  <2>2. Selected'
    BY <1>0, <2>0 DEF RouteInv, Selected, RouterTypeOK
  <2>3. CASE ok
    <3>1. \A p \in Providers : Unreported(p)' = Unreported(p)
      BY <1>0, <2>0, <2>3 DEF RouteInv, RouterTypeOK, Unreported
    <3> QED BY <1>0, <1>2, <2>1, <2>2, <3>1, RouterAlone
  <2>4. CASE ~ok
    <3>1. /\ result' = [result EXCEPT ![r] = [ok |-> FALSE, latency |-> ms]]
          /\ failed' = [failed EXCEPT ![Reported[prov[r]]] = Capped(@ + 1)]
      BY <1>1, <1>3, <2>0, <2>4
    <3> QED BY <1>0, <2>0, <2>1, <2>2, <3>1, ChatFailureKeeps
  <2> QED BY <2>3, <2>4
<1>4. CASE kind[r] # "chat"
  <2>0. Finish(r, ok)
    BY <1>1, <1>4
  <2>1. RouterTypeOK'
    BY <1>0, <1>2, <2>0, FinishTypes DEF RouteInv, RouterTypeOK
  <2>2. Selected'
    BY <2>0, FinishTypes DEF RouteInv, Selected
  <2>3. \A p \in Providers : Unreported(p)' = Unreported(p)
    BY <1>0, <2>0, FinishTypes DEF RouteInv, Unreported
  <2> QED BY <1>0, <1>2, <2>1, <2>2, <2>3, RouterAlone
<1> QED BY <1>3, <1>4

--------------------------------------------------------------------------------
\* What RecordResult does to the entry of one provider: the new rate is one a report
\* can give, and a provider out of the rotation stays out.
LEMMA RecordedEntry ==
  ASSUME RouterTypeOK, NEW name \in Providers, NEW ok \in BOOLEAN, NEW ms \in Latencies \cup {0},
         RecordResult(name, ok, ms)
  PROVE  /\ health' \in [Providers -> Health] /\ streak' \in [Providers -> 0..HistoryCap]
         /\ health'[name].rate \in (IF ok THEN RestoredRate(health[name].rate)
                                          ELSE FailedRate(health[name].rate))
         /\ health'[name].available <=> health[name].available /\ 2 * health'[name].rate <= Unit
         /\ streak'[name] = IF ok THEN 0 ELSE Capped(streak[name] + 1)
         /\ \A p \in Providers \ {name} : health'[p] = health[p] /\ streak'[p] = streak[p]
<1> USE ProviderRoutingAssumption
<1> DEFINE h == health[name]
<1>1. PICK rate \in (IF ok THEN RestoredRate(h.rate) ELSE FailedRate(h.rate)) :
        health' = [health EXCEPT ![name] = Updated(@, rate, ms)]
  BY DEF RecordResult
<1>2. streak' = [streak EXCEPT ![name] = IF ok THEN 0 ELSE Capped(@ + 1)]
  BY DEF RecordResult
<1>3. /\ h.available \in BOOLEAN /\ h.latency \in 0..LatencyBound /\ h.rate \in 0..Unit
      /\ streak[name] \in 0..HistoryCap
  BY DEF RouterTypeOK, Health
<1>4. rate \in 0..Unit
  BY <1>1, <1>3, FailedRateBound, RestoredRateBound
<1>5. Updated(h, rate, ms) \in Health
  <2>1. NewLatency(h.latency, ms) \in 0..LatencyBound
    BY <1>3, LatencyStays
  <2>2. (h.available /\ 2 * rate <= Unit) \in BOOLEAN
    OBVIOUS
  <2> QED BY <1>4, <2>1, <2>2 DEF Updated, Health
<1>6. Capped(streak[name] + 1) \in 0..HistoryCap
  BY <1>3 DEF Capped
<1>7. health'[name] = Updated(h, rate, ms)
  BY <1>1 DEF RouterTypeOK
<1>8. /\ health'[name].rate = rate
      /\ health'[name].available <=> h.available /\ 2 * rate <= Unit
  <2>1. Updated(h, rate, ms).rate = rate
    BY DEF Updated
  <2>2. Updated(h, rate, ms).available = (h.available /\ 2 * rate <= Unit)
    BY Zenon DEF Updated
  <2> QED BY <1>7, <2>1, <2>2, Zenon
<1>9. health' \in [Providers -> Health]
  BY <1>1, <1>5 DEF RouterTypeOK
<1>10. streak' \in [Providers -> 0..HistoryCap]
  BY <1>2, <1>6 DEF RouterTypeOK
<1>11. streak'[name] = IF ok THEN 0 ELSE Capped(streak[name] + 1)
  BY <1>2 DEF RouterTypeOK
<1>12. \A p \in Providers \ {name} : health'[p] = health[p] /\ streak'[p] = streak[p]
  BY <1>1, <1>2 DEF RouterTypeOK
<1> QED BY <1>1, <1>8, <1>9, <1>10, <1>11, <1>12

\* A report of the outcome of a chat call.
LEMMA ReportKeeps ==
  ASSUME RouteInv, NEW r \in Requests, Report(r)
  PROVE  RouteInv'
<1> DEFINE name == Reported[prov[r]]
<1>0. /\ stage[r] = "returned" /\ UNCHANGED <<up, failed>> /\ prov[r] \in Providers
      /\ RecordResult(name, result[r].ok, result[r].latency) /\ Finish(r, result[r].ok)
      /\ result[r].ok \in BOOLEAN /\ result[r].latency \in Latencies \cup {0}
  BY DEF Report, RouteInv, Selected, RouterTypeOK
<1>1. Selected'
  BY <1>0, FinishTypes DEF RouteInv, Selected
<1>2. \A p \in Providers : Unreported(p)' = Unreported(p) \ {r}
  BY <1>0, FinishTypes DEF RouteInv, Unreported
<1>3. CASE name \notin Providers
  <2>1. UNCHANGED <<health, streak>>
    BY <1>0, <1>3 DEF RecordResult
  <2>2. RouterTypeOK'
    BY <1>0, <2>1, FinishTypes DEF RouteInv, RouterTypeOK
  <2>3. \A p \in Providers : Unreported(p)' = Unreported(p)
    BY <1>2, <1>3 DEF Unreported
  <2>4. \A p \in Providers : failed'[p] >= failed[p]
    BY <1>0, ProviderRoutingAssumption DEF RouteInv, RouterTypeOK
  <2> QED BY <1>1, <2>1, <2>2, <2>3, <2>4, RouterAlone
<1>4. CASE name \in Providers
  <2> PICK ok \in BOOLEAN : ok = result[r].ok
    BY <1>0
  <2> PICK n \in Providers : n = name
    BY <1>4
  <2> DEFINE old == health[n].rate
             new == health'[n].rate
  <2>1. /\ health' \in [Providers -> Health] /\ streak' \in [Providers -> 0..HistoryCap]
        /\ new \in (IF ok THEN RestoredRate(old) ELSE FailedRate(old))
        /\ health'[n].available <=> health[n].available /\ 2 * new <= Unit
        /\ streak'[n] = IF ok THEN 0 ELSE Capped(streak[n] + 1)
        /\ \A p \in Providers \ {n} : health'[p] = health[p] /\ streak'[p] = streak[p]
    <3> PICK ms \in Latencies \cup {0} : ms = result[r].latency
      BY <1>0
    <3>1. RecordResult(n, ok, ms) /\ RouterTypeOK
      BY <1>0 DEF RouteInv
    <3> HIDE DEF name
    <3> QED BY <3>1, RecordedEntry
  <2>2. RouterTypeOK'
    BY <1>0, <2>1, FinishTypes DEF RouteInv, RouterTypeOK
  <2>3. old \in 0..Unit /\ new \in 0..Unit
    BY <2>1 DEF RouteInv, RouterTypeOK, Health
  <2> HIDE DEF old, new
  <2>4. StreakShows'
    <3>1. SUFFICES ASSUME health'[n].available
                   PROVE  streak'[n] <= 6 /\ RateAtLeast(streak'[n], new)
      BY <2>1 DEF RouteInv, StreakShows, new
    <3>2. streak[n] \in 0..6 /\ RateAtLeast(streak[n], old) /\ 2 * new <= Unit
      <4>1. health[n].available /\ 2 * new <= Unit
        BY <2>1, <3>1
      <4>2. streak[n] <= 6 /\ RateAtLeast(streak[n], old)
        BY <4>1 DEF RouteInv, StreakShows, old
      <4>3. streak[n] \in Nat
        BY ProviderRoutingAssumption DEF RouteInv, RouterTypeOK
      <4> QED BY <4>1, <4>2, <4>3
    <3>3. CASE ok
      BY <2>1, <3>3 DEF RateAtLeast
    <3>4. CASE ~ok
      <4>1. streak'[n] = streak[n] + 1
        BY <2>1, <3>2, <3>4, ProviderRoutingAssumption DEF Capped
      <4>2. new \in FailedRate(old)
        BY <2>1, <3>4
      <4>3. streak[n] # 6
        BY <2>3, <3>2, <4>2, AtLeastStep, ProviderRoutingAssumption
      <4> PICK k \in 0..6 : k = streak[n]
        BY <3>2
      <4>4. RateAtLeast(k + 1, new)
        BY <2>3, <3>2, <4>2, <4>3, AtLeastStep
      <4>5. streak'[n] = k + 1 /\ k + 1 <= 6
        BY <4>1, <4>3
      <4> QED BY <4>4, <4>5
    <3> QED BY <3>3, <3>4
  <2>5. FailuresCover'
    <3>0. ASSUME NEW p \in Providers
          PROVE  IsFiniteSet(Unreported(p)) /\ Cardinality(Unreported(p)) \in Nat
      <4>1. Unreported(p) \in SUBSET Requests
        BY DEF Unreported
      <4> QED BY <4>1, UnreportedCard
    <3>1. ASSUME NEW p \in Providers, p # n
          PROVE  Unreported(p)' = Unreported(p) /\ health'[p] = health[p] /\ failed'[p] = failed[p]
      BY <1>0, <1>2, <2>1, <3>1 DEF Unreported
    <3>2. SUFFICES ASSUME ~(failed[n] >= 7)
                   PROVE  /\ health'[n].available
                          /\ \E k \in 0..6 : /\ RateAtMost(k, new)
                                             /\ k + Cardinality(Unreported(n)') <= failed[n]
      BY <1>0, <3>1 DEF RouteInv, FailuresCover, new
    <3>3. health[n].available
      BY <3>2 DEF RouteInv, FailuresCover
    <3>4. PICK k \in 0..6 : /\ RateAtMost(k, old)
                            /\ k + Cardinality(Unreported(n)) <= failed[n]
      BY <3>2 DEF RouteInv, FailuresCover, old
    <3>5. CASE ok
      <4>1. Unreported(n)' = Unreported(n)
        BY <1>2, <3>5 DEF Unreported
      <4>2. new <= old
        BY <2>1, <2>3, <3>5, RestoredRateBound
      <4>3. RateAtMost(k, new) /\ 2 * new <= Unit
        BY <2>3, <3>4, <4>2, AtMostFacts
      <4> QED BY <2>1, <3>3, <3>4, <4>1, <4>3
    <3>6. CASE ~ok
      <4>1. r \in Unreported(n)
        BY <1>0, <3>6 DEF Unreported
      <4>2. Cardinality(Unreported(n)') = Cardinality(Unreported(n)) - 1
        BY <1>2, <3>0, <4>1, FS_RemoveElement
      <4>3. Cardinality(Unreported(n)) >= 1
        BY <3>0, <4>1, FS_EmptySet
      <4>4. k <= 5 /\ k + 1 + Cardinality(Unreported(n)') <= failed[n]
        <5>1. failed[n] \in Nat
          BY ProviderRoutingAssumption DEF RouteInv, RouterTypeOK
        <5>2. Cardinality(Unreported(n)) \in Nat
          BY <3>0
        <5> QED BY <3>2, <3>4, <4>2, <4>3, <5>1, <5>2
      <4>5. new \in FailedRate(old)
        BY <2>1, <3>6
      <4>6. RateAtMost(k + 1, new)
        BY <2>3, <3>4, <4>4, <4>5, AtMostStep
      <4>7. k + 1 \in 0..6
        BY <4>4
      <4>8. 2 * new <= Unit
        BY <2>3, <4>6, <4>7, AtMostFacts
      <4> QED BY <2>1, <3>3, <4>4, <4>6, <4>7, <4>8
    <3> QED BY <3>5, <3>6
  <2> QED BY <1>1, <2>2, <2>4, <2>5 DEF RouteInv
<1> QED BY <1>3, <1>4

--------------------------------------------------------------------------------
\* The invariant holds in every state.
LEMMA RouteInvariance == RouterSpec => []RouteInv
<1>1. RouterInit => RouteInv
  BY RouteInvInit
<1>2. RouteInv /\ [RouterNext]_routerVars => RouteInv'
  <2> SUFFICES ASSUME RouteInv, [RouterNext]_routerVars PROVE RouteInv'
    OBVIOUS
  <2>1. ASSUME NEW r \in Requests, Accept(r) PROVE RouteInv'
    BY <2>1, AcceptKeeps
  <2>2. ASSUME NEW r \in Requests, Return(r) PROVE RouteInv'
    BY <2>2, ReturnKeeps
  <2>3. ASSUME NEW r \in Requests, Report(r) PROVE RouteInv'
    BY <2>3, ReportKeeps
  <2>4. CASE (\E r \in Requests : Refuse(r)) \/ (\E p \in Providers : Toggle(p))
    BY <2>4, OutsideKeeps
  <2>5. CASE UNCHANGED routerVars
    <3>1. UNCHANGED <<health, up, stage, kind, prov, result, ans, failed, streak>>
      BY <2>5 DEF routerVars, callVars
    <3>2. \A p \in Providers : Unreported(p)' = Unreported(p)
      BY <3>1 DEF Unreported
    <3> QED BY <3>1, <3>2 DEF RouteInv, RouterTypeOK, Selected, StreakShows, FailuresCover
  <2> QED BY <2>1, <2>2, <2>3, <2>4, <2>5 DEF RouterNext
<1> QED BY <1>1, <1>2, PTL DEF RouterSpec

\* Type correctness of the router: the failure rate stays a fraction and the average
\* latency within what was measured.
THEOREM RouteTypeCorrect == RouterSpec => []RouterTypeOK
<1>1. RouteInv => RouterTypeOK
  BY DEF RouteInv
<1> QED BY <1>1, RouteInvariance, PTL

\* Seven failures reported in a row take a provider out of the rotation, for every
\* history of reports before them and every interleaving of the requests.
THEOREM SevenTrip == RouterSpec => []SevenInARowTrip
<1>1. RouteInv => SevenInARowTrip
  BY ProviderRoutingAssumption DEF RouteInv, RouterTypeOK, StreakShows, SevenInARowTrip
<1> QED BY <1>1, RouteInvariance, PTL

\* No provider is taken out of the rotation before seven calls filed under its name
\* have failed.
THEOREM SevenNeeded == RouterSpec => []DroppedAfterSevenFailures
<1>1. RouteInv => DroppedAfterSevenFailures
  BY DEF RouteInv, FailuresCover, DroppedAfterSevenFailures
<1> QED BY <1>1, RouteInvariance, PTL

==================================================================================
