----------------------------- MODULE MCDraftSend -----------------------------
(* Instances of DraftSend for TLC.                                         *)
EXTENDS DraftSend, TLC

CONSTANTS k1

Call(kind, key) == [kind |-> kind, key |-> key]

(* A keyed create-and-send or workflow and its retries, the same draft sent*)
(* by hand with and without the key, and a cancellation.                   *)
ClientCalls ==
    {Call("create", k1), Call("workflow", k1), Call("send", k1), Call("send", None),
     Call("cancel", None)}

(* The operator console's send, with and without a key.                    *)
ConsoleCalls == {Call("admin", k1), Call("admin", None)}

RequestSymmetry == Permutations(Requests)
=============================================================================
