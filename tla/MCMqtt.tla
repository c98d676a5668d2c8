------------------------------- MODULE MCMqtt -------------------------------
(***************************************************************************)
(* The MQTT transport with two callbacks at once, one sender and one       *)
(* message handler.  Of the envelopes one is good and carries fields that  *)
(* must not be trusted, the other one claims more hops than there can be.  *)
(***************************************************************************)
EXTENDS Mqtt

CONSTANT n1

OneName == {n1}
Good == [name |-> n1, gateway |-> "other", reserved |-> FALSE, hops |-> 1,
         payload |-> "data", trusted |-> TRUE]
FewEnvelopes == {Good, [Good EXCEPT !.hops = 2]}
=============================================================================
