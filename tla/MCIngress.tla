----------------------------- MODULE MCIngress ------------------------------
(* Instances of Ingress for TLC.                                           *)
EXTENDS Ingress

CONSTANTS r1, r2, r3

Caller(token, address, forged, oversize) ==
  [token |-> token, address |-> address, forged |-> forged, oversize |-> oversize]

\* A caller with no token, one with an unknown token that sends a large body and
\* lies about its address, and a client at the first one's address.
ThreeCallers == {Caller("", "10.0.0.1", <<>>, FALSE),
                 Caller("stale", "10.0.0.2", <<"10.0.0.1">>, TRUE),
                 Caller("secret", "10.0.0.1", <<>>, FALSE)}

OneClient == [t \in {"secret"} |-> [id |-> "demo", tier |-> "standard"]]

OnePerTick  == [t \in Tiers |-> 1]
SmallBursts == [t \in Tiers |-> IF t = "anonymous" THEN 1 ELSE 2]

\* Enough of the handler's results to see both ways out of the chain.
WaysOut   == {"nil", "http.ErrAbortHandler"}
AllPanics == Panics
=============================================================================
