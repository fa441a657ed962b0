------------------------------- MODULE Hunterd -------------------------------
(***************************************************************************)
(* rust/crates/hunterd: three threads in a row, over two bounded channels. *)
(* The sniffer receives shreds by UDP and makes signals of them, the       *)
(* filter makes opportunities of some signals, and the execution thread    *)
(* submits a bundle for each.  A full channel drops what is sent to it,    *)
(* and a thread that ends closes the channel behind it.                    *)
(*                                                                         *)
(* The tags mint=, pool= and liq= and the program ids are sought in the    *)
(* bytes of a packet, or in those of several that name a program, one      *)
(* after the other.  What is read where a tag begins so depends on the     *)
(* packet that follows: a tag, a value or an id may run on into it, though *)
(* no further, for it holds a whole program id.  The 13 bytes in front of  *)
(* a payload, which only an unjoined packet has, hold nothing of these.    *)
(***************************************************************************)
EXTENDS Naturals, Sequences, FiniteSets

CONSTANTS Packets, Slots, Mints, Dexes, None,
          SlotOf, IndexOf,     \* where a packet belongs
          Last,                \* the packets with the flag of a slot's last shred
          MintAt, PoolAt, LiqAt,  \* what the first such tag that begins in a packet
                               \* reads when another, or None, follows it
          DexesAt,             \* the programs whose id begins there, as detect_dex ranks them
          KeyShaped,           \* the mints that have the shape of a key
          DefaultMint,         \* what stands for a mint that is not there
          SignalCapacity, OpportunityCapacity,
          MaxCopies            \* bound on how often a packet arrives

Spots == Packets \X (Packets \cup {None})
Shapes == {"key", "other"}     \* a pool matters by its shape only
Scores == {"rich", "poor"}     \* and liquidity by the confidence it gives

ASSUME PacketsAssumption ==
    /\ SlotOf \in [Packets -> Slots] /\ IndexOf \in [Packets -> Nat]
    /\ None \notin Packets \cup Mints \cup Shapes \cup Scores
    /\ IsFiniteSet(Packets) /\ Dexes \subseteq Nat
    /\ Last \subseteq Packets /\ MaxCopies \in Nat
ASSUME TagsAssumption ==
    /\ MintAt \in [Spots -> Mints \cup {None}]
    /\ PoolAt \in [Spots -> Shapes \cup {None}]
    /\ LiqAt \in [Spots -> Scores \cup {None}]
    /\ DexesAt \in [Spots -> SUBSET Dexes]
    /\ \A p, r \in Packets : DexesAt[<<p, None>>] \subseteq DexesAt[<<p, r>>]
    /\ DefaultMint \in Mints /\ KeyShaped \subseteq Mints
ASSUME CapacityAssumption == SignalCapacity \in Nat \ {0} /\ OpportunityCapacity \in Nat \ {0}

VARIABLES
    received,   \* how often each packet has arrived
    partial,    \* SlotAssembler.partial
    sniffer,    \* whether the first thread still runs
    signals,    \* the channel to the filter
    judging,    \* the signal the filter holds, in a sequence of at most one
    features,   \* the FeatureEngine's cache: a score for each mint, or none
    filter,     \* whether the second thread still runs
    opps,       \* the channel to the execution thread
    executing,  \* the opportunity that thread holds, likewise
    execution,  \* whether it still runs
    submitted   \* the bundles submitted

sniffed == <<received, partial, sniffer>>
executed == <<executing, execution, submitted>>
vars == <<sniffed, signals, judging, features, filter, opps, executed>>

(* What is extracted, and the packet in which the mint tag begins.         *)
Signals == [from : Packets \cup {None}, mint : Mints, pool : Shapes, liq : Scores,
            dex : Dexes]

(* The types of the variables, and the bounds of the channels.             *)
TypeOK ==
    /\ received \in [Packets -> 0..MaxCopies]
    /\ partial \subseteq Packets
    /\ signals \in Seq(Signals) /\ Len(signals) <= SignalCapacity
    /\ judging \in {<<>>} \cup {<<s>> : s \in Signals}
    /\ opps \in Seq(Signals) /\ Len(opps) <= OpportunityCapacity
    /\ executing \in {<<>>} \cup {<<s>> : s \in Signals}
    /\ submitted \in Seq(Signals)
    /\ features \in [Mints -> Scores \cup {"none"}]
    /\ sniffer \in {"running", "ended"}
    /\ filter \in {"running", "ended"}
    /\ execution \in {"running", "ended", "panicked"}

Init ==
    /\ received = [p \in Packets |-> 0] /\ partial = {} /\ sniffer = "running"
    /\ signals = <<>> /\ judging = <<>> /\ filter = "running"
    /\ features = [m \in Mints |-> "none"]
    /\ opps = <<>> /\ executing = <<>> /\ execution = "running" /\ submitted = <<>>

-----------------------------------------------------------------------------
(* The sniffer *)

(* Other packets are left aside, the last shred of a slot too.             *)
mentions_supported_program(p) == DexesAt[<<p, None>>] # {}

(* Mutant: fragments of every slot are joined.                             *)
FragmentsOfAll(p) == {q \in partial : <<SlotOf[q], IndexOf[q]>> # <<SlotOf[p], IndexOf[p]>>} \cup {p}

(* The fragments of p's slot, once p is inserted under its slot and index. *)
Fragments(p) ==
    {q \in partial : SlotOf[q] = SlotOf[p] /\ IndexOf[q] # IndexOf[p]} \cup {p}

OtherSlots(p) == {q \in partial : SlotOf[q] # SlotOf[p]}

(* The fragment that follows q when those of F are joined by their index.  *)
After(F, q) ==
    LET later == {r \in F : IndexOf[r] > IndexOf[q]} IN
    IF later = {} THEN None
    ELSE CHOOSE r \in later : \A s \in later : IndexOf[r] <= IndexOf[s]

(* Each tag is sought by itself, and found in the first fragment that has  *)
(* one: tags of one signal may come from different listings.               *)
Found(F, at) ==
    LET bearers == {q \in F : at[<<q, After(F, q)>>] # None} IN
    IF bearers = {} THEN None
    ELSE CHOOSE q \in bearers : \A r \in bearers : IndexOf[q] <= IndexOf[r]

Read(F, at, default) ==
    LET q == Found(F, at) IN IF q = None THEN default ELSE at[<<q, After(F, q)>>]

Programs(F) == UNION {DexesAt[<<q, After(F, q)>>] : q \in F}

(* The default of a mint or pool has the shape of a key, that of the       *)
(* liquidity is zero.                                                      *)
Extract(F) ==
    [from |-> Found(F, MintAt),
     mint |-> Read(F, MintAt, DefaultMint),
     pool |-> Read(F, PoolAt, "key"),
     liq |-> Read(F, LiqAt, "poor"),
     dex |-> CHOOSE d \in Programs(F) : \A e \in Programs(F) : d <= e]

(* try_send(): the filter cannot have gone while the sniffer is there.     *)
Emit(s) ==
    signals' = IF Len(signals) < SignalCapacity THEN Append(signals, s) ELSE signals

(* Mutant: the fragments of a slot stay after they have been joined.       *)
CompleteKeeping(p) == Emit(Extract(Fragments(p))) /\ partial' = Fragments(p) \cup OtherSlots(p)

(* The last shred joins what has come of its slot, whatever is missing.    *)
Complete(p) == Emit(Extract(Fragments(p))) /\ partial' = OtherSlots(p)

(* Any other is kept for it, and searched for a signal by itself as well.  *)
Keep(p) ==
    /\ Emit(Extract({p}))
    /\ partial' = Fragments(p) \cup OtherSlots(p)

Receive(p) ==
    /\ sniffer = "running" /\ received[p] < MaxCopies
    /\ received' = [received EXCEPT ![p] = @ + 1]
    /\ \/ ~mentions_supported_program(p) /\ UNCHANGED <<partial, signals>>
       \/ mentions_supported_program(p) /\ p \in Last /\ Complete(p)
       \/ mentions_supported_program(p) /\ p \notin Last /\ Keep(p)
    /\ UNCHANGED <<sniffer, judging, features, filter, opps, executed>>

(* The socket cannot be bound, or fails.                                   *)
SnifferEnds ==
    /\ sniffer = "running" /\ sniffer' = "ended"
    /\ UNCHANGED <<received, partial, signals, judging, features, filter, opps, executed>>

-----------------------------------------------------------------------------
(* The filter *)

(* Mutant: main() keeps a sender of its own.                               *)
SignalsClosedByMain == FALSE
SignalsClosed == sniffer = "ended"

FilterTakes ==
    /\ filter = "running" /\ judging = <<>> /\ signals # <<>>
    /\ judging' = <<Head(signals)>> /\ signals' = Tail(signals)
    /\ UNCHANGED <<sniffed, features, filter, opps, executed>>

(* Mutant: whatever is cached is taken for enough.                         *)
ScoreLenient(s) == IF features[s.mint] = "none" THEN s.liq ELSE "rich"

(* Features are cached by mint, and scored as they were found first.       *)
Score(s) == IF features[s.mint] = "none" THEN s.liq ELSE features[s.mint]

KeysRight(s) == s.mint \in KeyShaped /\ s.pool = "key"

(* try_send() to a thread that is there and a channel with room, or not:   *)
(* the result is ignored.                                                  *)
Offer(s) ==
    opps' = IF Len(opps) < OpportunityCapacity /\ execution = "running"
            THEN Append(opps, s) ELSE opps

(* evaluate() finds nothing in the state cache, which no code fills.       *)
FilterJudges ==
    /\ filter = "running" /\ judging # <<>>
    /\ LET s == Head(judging) IN
       \/ ~KeysRight(s) /\ UNCHANGED <<features, opps>>
       \/ /\ KeysRight(s)
          /\ features' = [features EXCEPT ![s.mint] = Score(s)]
          /\ \/ Score(s) = "poor" /\ UNCHANGED opps
             \/ Score(s) = "rich" /\ Offer(s)
    /\ judging' = <<>>
    /\ UNCHANGED <<sniffed, signals, filter, executed>>

(* Mutant: recv() reports the end before the channel is empty.             *)
FilterEndsEarly ==
    /\ filter = "running" /\ judging = <<>> /\ SignalsClosed
    /\ filter' = "ended"
    /\ UNCHANGED <<sniffed, signals, judging, features, opps, executed>>

FilterEnds ==
    /\ filter = "running" /\ judging = <<>> /\ signals = <<>> /\ SignalsClosed
    /\ filter' = "ended"
    /\ UNCHANGED <<sniffed, signals, judging, features, opps, executed>>

(* A cached entry passes its time to live.                                 *)
Expires(m) ==
    /\ features[m] # "none" /\ features' = [features EXCEPT ![m] = "none"]
    /\ UNCHANGED <<sniffed, signals, judging, filter, opps, executed>>

-----------------------------------------------------------------------------
(* The execution thread *)

Left == <<sniffed, signals, judging, features, filter>>

(* Mutant: the newest opportunity goes first.                              *)
ExecutionTakesNewest ==
    /\ execution = "running" /\ executing = <<>> /\ opps # <<>>
    /\ executing' = <<opps[Len(opps)]>> /\ opps' = SubSeq(opps, 1, Len(opps) - 1)
    /\ UNCHANGED <<Left, execution, submitted>>

ExecutionTakes ==
    /\ execution = "running" /\ executing = <<>> /\ opps # <<>>
    /\ executing' = <<Head(opps)>> /\ opps' = Tail(opps)
    /\ UNCHANGED <<Left, execution, submitted>>

Submits ==
    /\ execution = "running" /\ executing # <<>>
    /\ submitted' = Append(submitted, Head(executing)) /\ executing' = <<>>

ExecutionSubmits == Submits /\ UNCHANGED <<Left, opps, execution>>

(* println!() panics when nobody reads the output, and the channel goes.   *)
ExecutionPanics ==
    /\ Submits
    /\ execution' = "panicked" /\ opps' = <<>>
    /\ UNCHANGED Left

ExecutionEnds ==
    /\ execution = "running" /\ executing = <<>> /\ opps = <<>> /\ filter = "ended"
    /\ execution' = "ended"
    /\ UNCHANGED <<Left, opps, executing, submitted>>

-----------------------------------------------------------------------------

FilterStep == FilterTakes \/ FilterJudges \/ FilterEnds
ExecutionStep == ExecutionTakes \/ ExecutionSubmits \/ ExecutionPanics \/ ExecutionEnds

Next ==
    \/ \E p \in Packets : Receive(p)
    \/ SnifferEnds \/ FilterStep \/ ExecutionStep
    \/ \E m \in Mints : Expires(m)

Spec == Init /\ [][Next]_vars

(* The operating system runs the threads; no packet need arrive.           *)
FairSpec == Spec /\ WF_vars(FilterStep) /\ WF_vars(ExecutionStep)

-----------------------------------------------------------------------------
(* Properties *)

InFlight == executing \o opps \o judging \o signals
Elements(s) == {s[i] : i \in DOMAIN s}
Seen == Elements(InFlight) \cup Elements(submitted)
Arrived == {p \in Packets : received[p] > 0 /\ mentions_supported_program(p)}

Count(q, p) == Cardinality({i \in DOMAIN q : q[i].from = p})
Due(p) == received[p] * (IF p \in Last THEN 1 ELSE 2)

(* A mint tag is submitted at most twice for each arrival of its packet:   *)
(* once for the packet, and once for the slot, unless it is the last one;  *)
(* the assembler never joins a fragment a second time (lines 166-176).     *)
TwiceAtMost == \A p \in Packets : Count(submitted, p) <= Due(p)

(* What makes it inductive: a packet's signals on the way count as         *)
(* submitted, and a fragment that is kept as the signal it may yet become. *)
Owed(p) == IF p \in partial THEN 1 ELSE 0
Made(p) == Count(executing, p) + Count(opps, p) + Count(judging, p) + Count(signals, p)
SignalsPaidFor ==
    /\ partial \cap Last = {}
    /\ \A p \in Packets : Count(submitted, p) + Made(p) + Owed(p) <= Due(p)

(* Bytes that can have been searched together: fragments that have come    *)
(* and name a program, of one slot, no two under the same index.           *)
Distinct(F) ==
    \A q, r \in F : SlotOf[q] = SlotOf[r] /\ IndexOf[q] = IndexOf[r] => q = r
OneSlot(F) == \A q, r \in F : SlotOf[q] = SlotOf[r]
Entries == {F \in SUBSET Arrived : F # {} /\ OneSlot(F) /\ Distinct(F)}
Readable == {Extract(F) : F \in Entries}

(* A signal may mix the tags of several listings, but however shreds are   *)
(* reordered and repeated, it is what fragments of one slot read in the    *)
(* order of their indices (lines 161-176, 192-213).                        *)
OfOneSlot == Seen \subseteq Readable

(* A bundle is submitted only for a mint that was once read together with  *)
(* a valid pool and enough liquidity from one slot, though perhaps not in  *)
(* this signal: the cache vouches for it (filter_stack lines 92-142,       *)
(* intelligence lines 31-36).                                              *)
Earned == {s \in Readable : KeysRight(s) /\ s.liq = "rich"}
VouchedFor ==
    {s.mint : s \in Elements(executing \o opps \o submitted)} \subseteq {s.mint : s \in Earned}

(* A stage that ends in order leaves nothing behind: the signals and       *)
(* opportunities sent before the sniffer ended are still worked off.       *)
EndsDrained ==
    /\ filter = "ended" => sniffer = "ended" /\ signals = <<>> /\ judging = <<>>
    /\ execution = "ended" => filter = "ended" /\ InFlight = <<>>

(* The stages behind one that ends come to an end, while main() parks.     *)
StagesEnd == sniffer = "ended" ~> execution # "running"

(* From the sniffer to the submission nothing is invented, repeated or     *)
(* overtaken, only lost.                                                   *)
Pipe == INSTANCE LossyPipe WITH Items <- Signals, pipe <- InFlight, delivered <- submitted
PipeSpec == Pipe!Spec
=============================================================================
