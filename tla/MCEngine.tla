------------------------------ MODULE MCEngine ------------------------------
(***************************************************************************)
(* The engine over a bus of two workers: listings l1 and l2, the           *)
(* opportunity o1 that the handler of l1 may confirm, a shutdown request   *)
(* sd and a critical error er.  Each run takes the events it needs.        *)
(***************************************************************************)
EXTENDS SoloHunterEngine, TLC

CONSTANTS w1, w2, l1, l2, o1, sd, er

MCTopicOf == [e \in Events |-> CASE e \in {l1, l2} -> Listing
                                 [] e = o1 -> Confirmed
                                 [] e = sd -> Shutdown
                                 [] e = er -> Critical]
MCPatternOf == [r \in Regs |-> CASE r = onListing -> {Listing}
                                 [] r = onShutdown -> {Shutdown}
                                 [] r = onCritical -> {Critical}]
MCSourceOf == [e \in Events |-> IF e = o1 THEN <<l1, onListing>> ELSE External]
MCStoppers == {External} \cup ({sd} \cap Events) \X {onShutdown}

=============================================================================
