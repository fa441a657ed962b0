------------------------------ MODULE MCHunterd ------------------------------
(***************************************************************************)
(* Slot 1 has two shreds.  The first lists mintA without a liquidity, the  *)
(* last one mintB with a good liquidity and a pool that is no key; a third *)
(* program id is cut by the boundary between them.  Slot 2 has a good      *)
(* listing of mintA without a pool; its last shred lists mintB but names   *)
(* no program.                                                             *)
(***************************************************************************)
EXTENDS Hunterd, TLC

CONSTANTS first, last, again, stray, mintA, mintB, ones

MCSlotOf == first :> 1 @@ last :> 1 @@ again :> 2 @@ stray :> 2
MCIndexOf == first :> 0 @@ last :> 1 @@ again :> 0 @@ stray :> 1

(* What a packet reads whatever follows it.                                *)
Alone(read) == [w \in Spots |-> read[w[1]]]

MCMintAt == Alone(first :> mintA @@ last :> mintB @@ again :> mintA @@ stray :> mintB)
MCPoolAt == Alone(first :> "key" @@ last :> "other" @@ again :> None @@ stray :> "key")
MCLiqAt == Alone(first :> None @@ last :> "rich" @@ again :> "rich" @@ stray :> "rich")
MCDexesAt ==
    [Alone(first :> {3} @@ last :> {2} @@ again :> {4} @@ stray :> {})
        EXCEPT ![first, last] = {1, 3}]
=============================================================================
