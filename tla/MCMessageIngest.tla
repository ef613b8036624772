-------------------------- MODULE MCMessageIngest --------------------------
(* Instances of MessageIngest for TLC: two conversations, the first two     *)
(* events in one of them.                                                   *)
EXTENDS MessageIngest, TLC

MCChats == {"a", "b"}
MCChatOf == [e \in 1 .. MaxEvent |-> IF e <= 2 THEN "a" ELSE "b"]

\* The workers are interchangeable.
WorkerSymmetry == Permutations(Workers)
=============================================================================
