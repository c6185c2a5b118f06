------------------------------- MODULE MCQueue -------------------------------
(* One producer and one consumer of a sliding queue.                         *)
EXTENDS Queue, TLC

CONSTANTS a1, a2, pr1, co1

MCOffers == pr1 :> <<a1, a2>>
MCDemands == co1 :> {<<1, 1>>}
==============================================================================
