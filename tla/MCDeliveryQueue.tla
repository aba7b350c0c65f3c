-------------------------- MODULE MCDeliveryQueue --------------------------
(* DeliveryQueue with one or two consumers.                                *)
EXTENDS DeliveryQueue, TLC

CONSTANTS c1, c2
=============================================================================
