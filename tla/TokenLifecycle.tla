----------------------------- MODULE TokenLifecycle -----------------------------
(***************************************************************************)
(* What the token runtime promises of a token: it is issued once, and once *)
(* it is dead (revoked, or past its expiry) it is dead for good: "revoked" *)
(* is never active again and only a live token can be refreshed            *)
(* (docs/token_runtime_minimal_spec_v1.md, section 5).                     *)
(***************************************************************************)
CONSTANT Tokens
VARIABLE life

Init == life = [t \in Tokens |-> "unissued"]

\* A token is born live, or already past its expiry when Issue was slow.
Birth(t) ==
  /\ life[t] = "unissued"
  /\ \E l \in {"live", "dead"} : life' = [life EXCEPT ![t] = l]

\* Revocation kills one token; the clock may kill several at once.
Death(S) ==
  /\ \A t \in S : life[t] = "live"
  /\ life' = [t \in Tokens |-> IF t \in S THEN "dead" ELSE life[t]]

Next == (\E t \in Tokens : Birth(t)) \/ (\E S \in SUBSET Tokens : Death(S))

Spec == Init /\ [][Next]_life
================================================================================
