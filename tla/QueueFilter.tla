---------------------------- MODULE QueueFilter ----------------------------
(***************************************************************************)
(* A queue from which some items are taken: the list comprehensions of the *)
(* code, written as a recursive function so that it can be reasoned about. *)
(***************************************************************************)
EXTENDS Integers, Sequences, SequencesExt

\* The items of q that are not in gone, in their order.
Rejecting(q, gone) ==
  LET kept[i \in 0 .. Len(q)] ==
        IF i = 0 THEN <<>>
        ELSE IF q[i] \in gone THEN kept[i - 1] ELSE Append(kept[i - 1], q[i])
  IN kept[Len(q)]
=============================================================================
