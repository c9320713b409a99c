----------------------------- MODULE MCWatCode -----------------------------
EXTENDS WatCode

CONSTANTS a, none

(* A constant is the whole program: what it encodes to depends on nothing    *)
(* around it, and as a leaf it is like any other.                           *)
(* One or two instructions without control are enough to be operands.       *)
Focus == /\ Cardinality({i \in DOMAIN out : out[i].k \in {"op", "return"}}) <= 2
         /\ \A i \in DOMAIN out : out[i].bytes # <<>> => Len(out) = 1 /\ Len(open) = 1
=============================================================================
