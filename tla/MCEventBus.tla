----------------------------- MODULE MCEventBus -----------------------------
(***************************************************************************)
(* Two workers, up to five events and two registrations, of which the      *)
(* second is a wildcard for both topics.  e1, e2 and e5 come from outside, *)
(* e3 is published by the exact handler of e1 and e4 by that of e2.        *)
(***************************************************************************)
EXTENDS EventBus, TLC

CONSTANTS w1, w2, e1, e2, e3, e4, e5, exact, wildcard, listing, confirmed

MCTopicOf == [e \in Events |-> IF e \in {e1, e2, e5} THEN listing ELSE confirmed]
MCPatternOf == [r \in Regs |-> IF r = exact THEN {listing} ELSE Topics]
MCSourceOf == [e \in Events |-> CASE e = e3 -> <<e1, exact>>
                                  [] e = e4 -> <<e2, exact>>
                                  [] OTHER -> External]

(* stop() called from outside the bus and by the wildcard's handler of e2 *)
MCStoppers == {External, <<e2, wildcard>>}

WorkerSymmetry == Permutations(Workers)
=============================================================================
