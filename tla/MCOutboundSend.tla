--------------------------- MODULE MCOutboundSend ---------------------------
(* Instances of OutboundSend for TLC.                                      *)
EXTENDS OutboundSend, TLC

CONSTANTS j1, j2, j3

(* Every job writes to an address of its own. *)
MCRecipientOf == [j \in Jobs |-> j]

WorkerSymmetry == Permutations(Workers)
=============================================================================
