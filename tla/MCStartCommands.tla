--------------------------- MODULE MCStartCommands ---------------------------
(* A small instance of StartCommands for TLC: requests a1, a2, a3 repeat    *)
(* one payload, b1 asks for something else under the same key.             *)
EXTENDS StartCommands, TLC

CONSTANTS a1, a2, a3, b1, this, other

MCPayloadOf == [r \in Requests |-> IF r = b1 THEN other ELSE this]

MCRepeats == Permutations({ a1, a2, a3 })
==============================================================================
