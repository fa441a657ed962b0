------------------------------ MODULE LossyPipe ------------------------------
(***************************************************************************)
(* What the stages of hunterd are together, without channels or threads:   *)
(* a pipe that may lose what is in it, and otherwise delivers it once and  *)
(* in the order in which it was put in.                                    *)
(***************************************************************************)
EXTENDS Naturals, Sequences

CONSTANT Items

VARIABLES pipe,       \* what is on its way, the oldest first
          delivered   \* what has come out

vars == <<pipe, delivered>>

Init == pipe = <<>> /\ delivered = <<>>

Put(x) == pipe' = Append(pipe, x) /\ UNCHANGED delivered

(* The items from the i-th to the j-th are lost together.                  *)
Lose(i, j) ==
    /\ pipe' = SubSeq(pipe, 1, i - 1) \o SubSeq(pipe, j + 1, Len(pipe))
    /\ UNCHANGED delivered

(* A delivery may be the last one: the items behind it, to the j-th, are   *)
(* then lost in the same step.                                             *)
Deliver(j) ==
    /\ pipe # <<>>
    /\ delivered' = Append(delivered, Head(pipe))
    /\ pipe' = SubSeq(pipe, j + 1, Len(pipe))

Next ==
    \/ \E x \in Items : Put(x)
    \/ \E i, j \in DOMAIN pipe : i <= j /\ Lose(i, j)
    \/ \E j \in DOMAIN pipe : Deliver(j)

Spec == Init /\ [][Next]_vars
=============================================================================
