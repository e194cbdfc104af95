------------------------------- MODULE MCGateway -------------------------------
(***************************************************************************)
(* The two middlewares in front of the gateway's handlers.  They share no  *)
(* state: a behaviour of both is a behaviour of each, interleaved, and the *)
(* properties of one do not depend on what the other does.  TLC explores   *)
(* them one at a time.                                                     *)
(***************************************************************************)
EXTENDS GatewayAuth, RateLimit, TLC

VARIABLE part   \* the middleware that moves

\* Holders play no part in the gateway's decisions.
MCHolders == {"holder"}

GatewayInit ==
  /\ part \in {"auth", "limit"}
  /\ Init /\ LimitInit
  /\ part = "auth" => algorithm = "token_bucket"

GatewayNext ==
  \/ part = "auth" /\ Next /\ UNCHANGED <<part, limitVars>>
  \/ part = "limit" /\ LimitNext /\ UNCHANGED <<part, vars>>

GatewaySpec == GatewayInit /\ [][GatewayNext]_<<part, vars, limitVars>>

Symmetry == Permutations(Reqs)
================================================================================
