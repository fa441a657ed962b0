---------------------------- MODULE HunterdProofs ----------------------------
(***************************************************************************)
(* What the sniffer makes of its packets, what the filter lets through and *)
(* what an ending stage leaves behind, for any packets, slots, listings    *)
(* and capacities.                                                         *)
(***************************************************************************)
EXTENDS Hunterd, DataInduction, SequenceTheorems, FunctionTheorems, TLAPS

-----------------------------------------------------------------------------
(* Sequences and their elements *)

LEMMA AppendElements ==
    ASSUME NEW S, NEW q \in Seq(S), NEW x \in S
    PROVE  Elements(Append(q, x)) = Elements(q) \cup {x}
  <1>1. /\ Append(q, x) \in Seq(S) /\ Len(Append(q, x)) = Len(q) + 1
        /\ \A i \in 1..Len(q) : Append(q, x)[i] = q[i]
        /\ Append(q, x)[Len(q) + 1] = x
    BY AppendProperties
  <1>2. DOMAIN Append(q, x) = DOMAIN q \cup {Len(q) + 1} /\ DOMAIN q = 1..Len(q)
    BY <1>1
  <1> QED
    BY <1>1, <1>2 DEF Elements

LEMMA TailElements ==
    ASSUME NEW S, NEW q \in Seq(S), q # <<>>
    PROVE  /\ Head(q) \in S /\ Tail(q) \in Seq(S) /\ Len(Tail(q)) = Len(q) - 1
           /\ Elements(q) = Elements(Tail(q)) \cup {Head(q)}
  <1>1. /\ Head(q) \in S /\ Tail(q) \in Seq(S) /\ Len(Tail(q)) = Len(q) - 1
        /\ \A i \in 1..Len(q) - 1 : Tail(q)[i] = q[i + 1]
        /\ Head(q) = q[1]
    BY HeadTailProperties
  <1>2. Elements(q) \subseteq Elements(Tail(q)) \cup {Head(q)}
    <2> SUFFICES ASSUME NEW i \in 1..Len(q), i # 1
                 PROVE  q[i] \in Elements(Tail(q))
      BY <1>1 DEF Elements
    <2>1. i - 1 \in 1..Len(q) - 1 /\ (i - 1) + 1 = i
      BY <1>1, LenProperties
    <2>2. i - 1 \in DOMAIN Tail(q) /\ Tail(q)[i - 1] = q[i]
      BY <1>1, <2>1, LenProperties
    <2> QED
      BY <2>2 DEF Elements
  <1>3. Elements(Tail(q)) \cup {Head(q)} \subseteq Elements(q)
    BY <1>1 DEF Elements
  <1> QED
    BY <1>1, <1>2, <1>3

LEMMA ConcatElements ==
    ASSUME NEW S, NEW q \in Seq(S), NEW r \in Seq(S)
    PROVE  q \o r \in Seq(S) /\ Elements(q \o r) = Elements(q) \cup Elements(r)
  <1>1. /\ q \o r \in Seq(S) /\ Len(q \o r) = Len(q) + Len(r)
        /\ \A i \in DOMAIN q : i \in DOMAIN (q \o r) /\ (q \o r)[i] = q[i]
        /\ \A i \in DOMAIN r : /\ Len(q) + i \in DOMAIN (q \o r)
                              /\ (q \o r)[Len(q) + i] = r[i]
    BY ConcatProperties, LenProperties
  <1>2. Elements(q) \cup Elements(r) \subseteq Elements(q \o r)
    BY <1>1 DEF Elements
  <1>3. Elements(q \o r) \subseteq Elements(q) \cup Elements(r)
    <2> SUFFICES ASSUME NEW i \in 1..Len(q) + Len(r)
                 PROVE  (q \o r)[i] \in Elements(q) \cup Elements(r)
      BY <1>1 DEF Elements
    <2>1. CASE i <= Len(q)
      BY <1>1, <2>1 DEF Elements
    <2>2. CASE i > Len(q)
      <3>1. i - Len(q) \in 1..Len(r) /\ i = Len(q) + (i - Len(q))
        BY <2>2
      <3> QED
        BY <1>1, <3>1 DEF Elements
    <2> QED
      BY <2>1, <2>2
  <1> QED
    BY <1>1, <1>2, <1>3

LEMMA NoElements == Elements(<<>>) = {}
  BY DEF Elements

LEMMA OneElement == ASSUME NEW x PROVE Elements(<<x>>) = {x}
  BY DEF Elements

-----------------------------------------------------------------------------
(* What is extracted from fragments *)

(* Of some packets one has the least index.                                *)
LEMMA LeastIndex ==
    ASSUME NEW F \in SUBSET Packets, F # {}
    PROVE  \E q \in F : \A r \in F : IndexOf[q] <= IndexOf[r]
  <1>1. {IndexOf[q] : q \in F} \in SUBSET Nat /\ {IndexOf[q] : q \in F} # {}
    BY PacketsAssumption
  <1>2. PICK x \in {IndexOf[q] : q \in F} : \A y \in {IndexOf[q] : q \in F} : x <= y
    BY <1>1, LeastNatural
  <1> QED
    BY <1>2

LEMMA AfterSpot ==
    ASSUME NEW F \in SUBSET Packets, NEW q \in F
    PROVE  <<q, After(F, q)>> \in Spots
  <1> DEFINE later == {r \in F : IndexOf[r] > IndexOf[q]}
  <1>1. CASE later = {}
    BY <1>1 DEF After, Spots
  <1>2. CASE later # {}
    <2>1. \E r \in later : \A s \in later : IndexOf[r] <= IndexOf[s]
      BY <1>2, LeastIndex
    <2>2. After(F, q) \in later
      BY <1>2, <2>1 DEF After
    <2> QED
      BY <2>2 DEF Spots
  <1> QED
    BY <1>1, <1>2

(* A tag is found in one of the fragments or in none, and reads as any of  *)
(* its kind or as its default.                                             *)
LEMMA ReadTag ==
    ASSUME NEW F \in SUBSET Packets, NEW K, NEW at \in [Spots -> K \cup {None}],
           NEW default \in K
    PROVE  Found(F, at) \in F \cup {None} /\ Read(F, at, default) \in K
  <1> DEFINE bearers == {q \in F : at[<<q, After(F, q)>>] # None}
  <1>1. CASE bearers = {}
    <2>1. Found(F, at) = None
      BY <1>1 DEF Found
    <2> QED
      BY <2>1 DEF Read
  <1>2. CASE bearers # {}
    <2>1. \E q \in bearers : \A r \in bearers : IndexOf[q] <= IndexOf[r]
      BY <1>2, LeastIndex
    <2>2. Found(F, at) \in bearers
      BY <1>2, <2>1 DEF Found
    <2> DEFINE q == Found(F, at)
    <2>3. q \in F /\ at[<<q, After(F, q)>>] \in K
      <3>1. q \in F /\ at[<<q, After(F, q)>>] # None
        BY <2>2
      <3>2. <<q, After(F, q)>> \in Spots
        BY <3>1, AfterSpot
      <3> QED
        BY <3>1, <3>2
    <2>4. q # None
      BY <2>3, PacketsAssumption
    <2>5. Read(F, at, default) = at[<<q, After(F, q)>>]
      BY <2>4 DEF Read
    <2> QED
      BY <2>3, <2>5
  <1> QED
    BY <1>1, <1>2

LEMMA ExtractedSignal ==
    ASSUME NEW F \in SUBSET Packets, F # {}, \A q \in F : mentions_supported_program(q)
    PROVE  Extract(F) \in Signals /\ Extract(F).from \in F \cup {None}
  <1> DEFINE first == CHOOSE d \in Programs(F) : \A e \in Programs(F) : d <= e
  <1>1. Found(F, MintAt) \in F \cup {None} /\ Read(F, MintAt, DefaultMint) \in Mints
    BY ReadTag, TagsAssumption
  <1>2. Read(F, PoolAt, "key") \in Shapes
    BY ReadTag, TagsAssumption DEF Shapes
  <1>3. Read(F, LiqAt, "poor") \in Scores
    BY ReadTag, TagsAssumption DEF Scores
  <1>4. first \in Dexes
    <2>1. Programs(F) \subseteq Dexes
      <3>1. ASSUME NEW q \in F PROVE DexesAt[<<q, After(F, q)>>] \subseteq Dexes
        BY AfterSpot, TagsAssumption
      <3> QED
        BY <3>1 DEF Programs
    <2>2. Programs(F) # {}
      <3>1. PICK q \in F : TRUE
        OBVIOUS
      <3>2. DexesAt[<<q, None>>] # {} /\ After(F, q) \in Packets \cup {None}
        BY <3>1, AfterSpot DEF mentions_supported_program, Spots
      <3>3. DexesAt[<<q, After(F, q)>>] # {}
        BY <3>1, <3>2, TagsAssumption
      <3> QED
        BY <3>1, <3>3 DEF Programs
    <2>3. PICK x \in Programs(F) : \A y \in Programs(F) : x <= y
      BY <2>1, <2>2, LeastNatural, PacketsAssumption
    <2> QED
      BY <2>1, <2>3
  <1> HIDE DEF first
  <1>5. Extract(F) = [from |-> Found(F, MintAt), mint |-> Read(F, MintAt, DefaultMint),
                      pool |-> Read(F, PoolAt, "key"), liq |-> Read(F, LiqAt, "poor"),
                      dex |-> first]
    BY DEF Extract, first
  <1> QED
    BY <1>1, <1>2, <1>3, <1>4, <1>5 DEF Signals

-----------------------------------------------------------------------------
(* The inductive invariant *)

(* Some entry of the mint deserves the score.                              *)
Vouched(m) == \E s \in Earned : s.mint = m

(* The assembler's map holds what has arrived, once for each slot and index. *)
FragmentsArrived == partial \subseteq Arrived /\ Distinct(partial)
SignalsTraced ==
    \A s \in Elements(signals) \cup Elements(judging) \cup Elements(opps)
                 \cup Elements(executing) \cup Elements(submitted) : s \in Readable
FeaturesVouched == \A m \in Mints : features[m] = "rich" => Vouched(m)
OppsVouched ==
    \A s \in Elements(opps) \cup Elements(executing) \cup Elements(submitted) :
        Vouched(s.mint)
Drained ==
    /\ filter = "ended" => sniffer = "ended" /\ signals = <<>> /\ judging = <<>>
    /\ execution = "ended" => /\ filter = "ended"
                              /\ executing = <<>> /\ opps = <<>>

PipelineInd ==
    /\ TypeOK /\ FragmentsArrived /\ SignalsTraced
    /\ FeaturesVouched /\ OppsVouched /\ Drained

LEMMA InitHolds == Init => PipelineInd
  <1> SUFFICES ASSUME Init PROVE PipelineInd
    OBVIOUS
  <1>1. TypeOK
    BY PacketsAssumption, CapacityAssumption DEF Init, TypeOK, Scores
  <1>2. FragmentsArrived /\ FeaturesVouched /\ Drained
    BY DEF Init, FragmentsArrived, FeaturesVouched, Drained, Distinct
  <1>3. SignalsTraced /\ OppsVouched
    BY NoElements DEF Init, SignalsTraced, OppsVouched
  <1> QED
    BY <1>1, <1>2, <1>3 DEF PipelineInd

(* What has arrived stays arrived, and explains what it explained.         *)
LEMMA TracesStay ==
    ASSUME Arrived \subseteq Arrived'
    PROVE  Readable \subseteq Readable' /\ \A m : Vouched(m) => Vouched(m)'
  <1>1. Entries \subseteq Entries'
    BY DEF Entries
  <1>2. Readable \subseteq Readable'
    BY <1>1 DEF Readable
  <1>3. Earned \subseteq Earned'
    BY <1>2 DEF Earned
  <1> QED
    BY <1>2, <1>3 DEF Vouched

LEMMA FragmentsMention ==
    ASSUME FragmentsArrived, NEW p \in Packets, mentions_supported_program(p)
    PROVE  \A q \in Fragments(p) : mentions_supported_program(q)
  BY DEF FragmentsArrived, Arrived, Fragments

(* A signal is sent, or dropped by a full channel.                         *)
LEMMA EmitStep ==
    ASSUME TypeOK, NEW s \in Signals, Emit(s)
    PROVE  /\ signals' \in Seq(Signals) /\ Len(signals') <= SignalCapacity
           /\ Elements(signals') \subseteq Elements(signals) \cup {s}
  <1>1. CASE Len(signals) < SignalCapacity
    <2>1. signals' = Append(signals, s)
      BY <1>1 DEF Emit
    <2>2. signals' \in Seq(Signals) /\ Len(signals') = Len(signals) + 1
      BY <2>1, AppendProperties DEF TypeOK
    <2>3. Elements(signals') = Elements(signals) \cup {s}
      BY <2>1, AppendElements DEF TypeOK
    <2> QED
      BY <1>1, <2>2, <2>3, CapacityAssumption DEF TypeOK
  <1>2. CASE ~ (Len(signals) < SignalCapacity)
    BY <1>2 DEF Emit, TypeOK
  <1> QED
    BY <1>1, <1>2

(* A packet that names no program counts as received, and no more.         *)
LEMMA LeftAsideHolds ==
    ASSUME PipelineInd, NEW p \in Packets, Receive(p), ~mentions_supported_program(p)
    PROVE  PipelineInd'
  <1>1. /\ received' = [received EXCEPT ![p] = @ + 1] /\ received[p] < MaxCopies
        /\ UNCHANGED <<partial, signals, sniffer, judging, features, filter, opps, executing,
                       execution, submitted>>
    BY DEF Receive, executed
  <1>2. /\ received \in [Packets -> 0..MaxCopies] /\ received[p] + 1 \in 0..MaxCopies
        /\ received' \in [Packets -> 0..MaxCopies]
    BY <1>1, PacketsAssumption DEF PipelineInd, TypeOK
  <1>3. Arrived' = Arrived
    BY <1>1, <1>2 DEF Arrived
  <1>4. TypeOK' /\ FragmentsArrived'
    BY <1>1, <1>2, <1>3 DEF PipelineInd, TypeOK, FragmentsArrived
  <1>5. SignalsTraced' /\ FeaturesVouched' /\ OppsVouched'
    <2>1. Readable \subseteq Readable' /\ \A m : Vouched(m) => Vouched(m)'
      BY <1>3, TracesStay
    <2> QED
      BY <1>1, <2>1 DEF PipelineInd, SignalsTraced, FeaturesVouched, OppsVouched
  <1>6. Drained'
    BY <1>1 DEF PipelineInd, Drained
  <1> QED
    BY <1>4, <1>5, <1>6 DEF PipelineInd

LEMMA ReceiveHolds ==
    ASSUME PipelineInd, NEW p \in Packets, Receive(p), mentions_supported_program(p)
    PROVE  PipelineInd'
  <1>1. /\ received' \in [Packets -> 0..MaxCopies]
        /\ p \in Arrived' /\ Arrived \subseteq Arrived'
    <2>1. received' = [received EXCEPT ![p] = @ + 1] /\ received[p] < MaxCopies
      BY DEF Receive
    <2>2. received \in [Packets -> 0..MaxCopies]
      BY DEF PipelineInd, TypeOK
    <2>3. received[p] + 1 \in 0..MaxCopies /\ received[p] + 1 > 0
      BY <2>1, <2>2, PacketsAssumption
    <2>4. \A q \in Packets : received[q] > 0 => received'[q] > 0
      BY <2>1, <2>2, <2>3
    <2> QED
      BY <2>1, <2>2, <2>3, <2>4 DEF Arrived
  <1>2. Fragments(p) \in Entries' /\ {p} \in Entries'
    <2>1. Fragments(p) # {} /\ Fragments(p) \subseteq Arrived'
      BY <1>1 DEF PipelineInd, FragmentsArrived, Fragments
    <2>2. OneSlot(Fragments(p)) /\ Distinct(Fragments(p)) /\ OneSlot({p}) /\ Distinct({p})
      BY DEF PipelineInd, FragmentsArrived, Fragments, OneSlot, Distinct
    <2> QED
      BY <1>1, <2>1, <2>2 DEF Entries
  <1>3. /\ \E s \in Signals : Emit(s) /\ s \in Readable'
        /\ partial' \subseteq Packets /\ partial' \subseteq Arrived' /\ Distinct(partial)'
    <2>1. /\ OtherSlots(p) \subseteq Packets /\ OtherSlots(p) \subseteq Arrived'
          /\ Distinct(OtherSlots(p)) /\ Distinct(Fragments(p) \cup OtherSlots(p))
          /\ Fragments(p) \subseteq Packets /\ Fragments(p) \subseteq Arrived'
      BY <1>1, <1>2
      DEF PipelineInd, TypeOK, FragmentsArrived, OtherSlots, Fragments, Distinct
    <2>2. \E F \in {Fragments(p), {p}} :
              /\ Emit(Extract(F))
              /\ partial' \in {OtherSlots(p), Fragments(p) \cup OtherSlots(p)}
      BY DEF Receive, Complete, Keep
    <2>3. PICK F \in {Fragments(p), {p}} : Emit(Extract(F))
      BY <2>2
    <2>4. F \in SUBSET Packets /\ F # {} /\ F \in Entries'
      BY <1>2, <2>1 DEF Entries
    <2>a. \A q \in F : mentions_supported_program(q)
      BY <2>3, FragmentsMention DEF PipelineInd
    <2>5. Extract(F) \in Signals /\ Extract(F) \in Readable'
      BY <2>4, <2>a, ExtractedSignal DEF Readable
    <2>6. partial' = OtherSlots(p) \/ partial' = Fragments(p) \cup OtherSlots(p)
      BY <2>2
    <2>7. partial' \subseteq Packets /\ partial' \subseteq Arrived' /\ Distinct(partial)'
      BY <2>1, <2>6 DEF Distinct
    <2> QED
      BY <2>3, <2>5, <2>7
  <1>a. PICK s \in Signals : Emit(s) /\ s \in Readable'
    BY <1>3
  <1>4. /\ signals' \in Seq(Signals) /\ Len(signals') <= SignalCapacity
        /\ Elements(signals') \subseteq Elements(signals) \cup {s}
    BY <1>a, EmitStep DEF PipelineInd
  <1>5. UNCHANGED <<sniffer, judging, features, filter, opps, executing, execution, submitted>>
    BY DEF Receive, executed
  <1>6. TypeOK' /\ FragmentsArrived'
    BY <1>1, <1>3, <1>4, <1>5 DEF PipelineInd, TypeOK, FragmentsArrived
  <1>7. SignalsTraced'
    BY <1>1, <1>a, <1>4, <1>5, TracesStay DEF PipelineInd, SignalsTraced
  <1>8. FeaturesVouched' /\ OppsVouched'
    BY <1>1, <1>5, TracesStay DEF PipelineInd, FeaturesVouched, OppsVouched
  <1>9. Drained'
    BY <1>5 DEF PipelineInd, Drained, Receive
  <1> QED
    BY <1>6, <1>7, <1>8, <1>9 DEF PipelineInd

LEMMA FilterTakesHolds ==
    ASSUME PipelineInd, FilterTakes
    PROVE  PipelineInd'
  <1>1. /\ filter = "running" /\ signals # <<>>
        /\ judging' = <<Head(signals)>> /\ signals' = Tail(signals)
        /\ UNCHANGED <<received, partial, sniffer, features, filter, opps,
                       executing, execution, submitted>>
    BY DEF FilterTakes, sniffed, executed
  <1>2. /\ Head(signals) \in Signals /\ Tail(signals) \in Seq(Signals)
        /\ Len(Tail(signals)) <= SignalCapacity
        /\ Elements(signals) = Elements(signals') \cup {Head(signals)}
    BY <1>1, TailElements, LenProperties, CapacityAssumption DEF PipelineInd, TypeOK
  <1>3. Elements(judging') = {Head(signals)}
    BY <1>1, OneElement
  <1>4. TypeOK' /\ FragmentsArrived'
    BY <1>1, <1>2 DEF PipelineInd, TypeOK, FragmentsArrived, Arrived
  <1>5. SignalsTraced'
    BY <1>1, <1>2, <1>3 DEF PipelineInd, SignalsTraced, Readable, Entries, Arrived
  <1>6. FeaturesVouched' /\ OppsVouched'
    BY <1>1 DEF PipelineInd, FeaturesVouched, OppsVouched,
        Vouched, Earned, Readable, Entries, Arrived
  <1>7. Drained'
    BY <1>1 DEF PipelineInd, Drained
  <1> QED
    BY <1>4, <1>5, <1>6, <1>7 DEF PipelineInd

(* An opportunity is sent, or dropped.                                     *)
LEMMA OfferStep ==
    ASSUME TypeOK, NEW s \in Signals, Offer(s)
    PROVE  /\ opps' \in Seq(Signals) /\ Len(opps') <= OpportunityCapacity
           /\ Elements(opps') \subseteq Elements(opps) \cup {s}
           /\ execution # "running" => opps' = opps
  <1>1. CASE Len(opps) < OpportunityCapacity /\ execution = "running"
    <2>1. opps' = Append(opps, s)
      BY <1>1 DEF Offer
    <2>2. opps' \in Seq(Signals) /\ Len(opps') = Len(opps) + 1
      BY <2>1, AppendProperties DEF TypeOK
    <2>3. Elements(opps') = Elements(opps) \cup {s}
      BY <2>1, AppendElements DEF TypeOK
    <2> QED
      BY <1>1, <2>2, <2>3, CapacityAssumption DEF TypeOK
  <1>2. CASE ~ (Len(opps) < OpportunityCapacity /\ execution = "running")
    BY <1>2 DEF Offer, TypeOK
  <1> QED
    BY <1>1, <1>2

LEMMA FilterJudgesHolds ==
    ASSUME PipelineInd, FilterJudges
    PROVE  PipelineInd'
  <1>1. /\ filter = "running" /\ judging # <<>> /\ judging' = <<>>
        /\ UNCHANGED <<received, partial, sniffer, signals, filter, executing, execution,
                       submitted>>
    BY DEF FilterJudges, sniffed, executed
  <1>2. PICK s \in Signals : judging = <<s>>
    BY <1>1 DEF PipelineInd, TypeOK
  <1>3. Head(judging) = s /\ Elements(judging) = {s} /\ Elements(judging') = {}
    BY <1>1, <1>2, OneElement, NoElements
  <1>4. s.mint \in Mints /\ s.liq \in Scores
    BY DEF Signals
  <1>5. s \in Readable
    BY <1>3 DEF PipelineInd, SignalsTraced
  <1>6. /\ opps' \in Seq(Signals) /\ Len(opps') <= OpportunityCapacity
        /\ Elements(opps') \subseteq Elements(opps) \cup {s}
        /\ execution # "running" => opps' = opps
        /\ features' \in [Mints -> Scores \cup {"none"}]
        /\ FeaturesVouched'
        /\ s \in Elements(opps') => s \in Elements(opps) \/ Vouched(s.mint)
    <2>1. CASE ~KeysRight(s) /\ UNCHANGED <<features, opps>>
      BY <1>1, <2>1
      DEF PipelineInd, TypeOK, FeaturesVouched, Vouched, Earned, Readable, Entries, Arrived
    <2>2. CASE /\ KeysRight(s)
               /\ features' = [features EXCEPT ![s.mint] = Score(s)]
               /\ \/ Score(s) = "poor" /\ UNCHANGED opps
                  \/ Score(s) = "rich" /\ Offer(s)
      <3>1. Score(s) \in Scores
        BY <1>4 DEF Score, Scores, PipelineInd, TypeOK
      <3>2. Score(s) = "rich" => Vouched(s.mint)
        BY <1>4, <1>5, <2>2
        DEF Score, PipelineInd, FeaturesVouched, Vouched, Earned
      <3>3. features' \in [Mints -> Scores \cup {"none"}]
        BY <2>2, <3>1 DEF PipelineInd, TypeOK
      <3>4. FeaturesVouched'
        BY <1>1, <1>4, <2>2, <3>2
        DEF PipelineInd, TypeOK, FeaturesVouched, Vouched, Earned, Readable, Entries, Arrived
      <3>5. CASE Score(s) = "poor" /\ UNCHANGED opps
        BY <3>3, <3>4, <3>5 DEF PipelineInd, TypeOK
      <3>6. CASE Score(s) = "rich" /\ Offer(s)
        BY <3>2, <3>3, <3>4, <3>6, OfferStep DEF PipelineInd
      <3> QED
        BY <2>2, <3>5, <3>6
    <2> QED
      BY <1>3, <2>1, <2>2 DEF FilterJudges
  <1>7. TypeOK' /\ FragmentsArrived'
    BY <1>1, <1>6 DEF PipelineInd, TypeOK, FragmentsArrived, Arrived
  <1>8. SignalsTraced'
    BY <1>1, <1>3, <1>5, <1>6 DEF PipelineInd, SignalsTraced, Readable, Entries, Arrived
  <1>9. OppsVouched'
    BY <1>1, <1>6 DEF PipelineInd, OppsVouched,
        Vouched, Earned, Readable, Entries, Arrived
  <1>10. Drained'
    BY <1>1, <1>6 DEF PipelineInd, Drained
  <1> QED
    BY <1>6, <1>7, <1>8, <1>9, <1>10 DEF PipelineInd

(* The steps that only end a thread or let a cached entry expire.          *)
LEMMA QuietStepHolds ==
    ASSUME PipelineInd,
           SnifferEnds \/ FilterEnds \/ ExecutionEnds \/ \E m \in Mints : Expires(m)
    PROVE  PipelineInd'
  <1>1. UNCHANGED <<received, partial, signals, judging, opps, executing, submitted>>
    BY DEF SnifferEnds, FilterEnds, ExecutionEnds, Expires, sniffed, executed, Left
  <1>2. /\ features' \in [Mints -> Scores \cup {"none"}]
        /\ \A m \in Mints : features'[m] = "rich" => features[m] = "rich"
    BY DEF SnifferEnds, FilterEnds, ExecutionEnds, Expires, executed, Left, PipelineInd, TypeOK
  <1>3. /\ sniffer' \in {"running", "ended"} /\ filter' \in {"running", "ended"}
        /\ execution' \in {"running", "ended", "panicked"}
    BY DEF SnifferEnds, FilterEnds, ExecutionEnds, Expires, sniffed, executed, Left,
           PipelineInd, TypeOK
  <1>4. TypeOK' /\ FragmentsArrived'
    BY <1>1, <1>2, <1>3 DEF PipelineInd, TypeOK, FragmentsArrived, Arrived
  <1>5. SignalsTraced' /\ FeaturesVouched' /\ OppsVouched'
    BY <1>1, <1>2
    DEF PipelineInd, SignalsTraced, FeaturesVouched, OppsVouched,
        Vouched, Earned, Readable, Entries, Arrived
  <1>6. Drained'
    BY <1>1 DEF PipelineInd, Drained, SnifferEnds, FilterEnds, ExecutionEnds, Expires,
                SignalsClosed, sniffed, executed, Left
  <1> QED
    BY <1>4, <1>5, <1>6 DEF PipelineInd

LEMMA ExecutionTakesHolds ==
    ASSUME PipelineInd, ExecutionTakes
    PROVE  PipelineInd'
  <1>1. /\ execution = "running" /\ opps # <<>>
        /\ executing' = <<Head(opps)>> /\ opps' = Tail(opps)
        /\ UNCHANGED <<received, partial, sniffer, signals, judging, features, filter,
                       execution, submitted>>
    BY DEF ExecutionTakes, Left, sniffed
  <1>2. /\ Head(opps) \in Signals /\ Tail(opps) \in Seq(Signals)
        /\ Len(Tail(opps)) <= OpportunityCapacity
        /\ Elements(opps) = Elements(opps') \cup {Head(opps)}
    BY <1>1, TailElements, LenProperties, CapacityAssumption DEF PipelineInd, TypeOK
  <1>3. Elements(executing') = {Head(opps)}
    BY <1>1, OneElement
  <1>4. TypeOK' /\ FragmentsArrived'
    BY <1>1, <1>2 DEF PipelineInd, TypeOK, FragmentsArrived, Arrived
  <1>5. SignalsTraced'
    BY <1>1, <1>2, <1>3 DEF PipelineInd, SignalsTraced, Readable, Entries, Arrived
  <1>6. FeaturesVouched' /\ OppsVouched'
    BY <1>1, <1>2, <1>3 DEF PipelineInd, FeaturesVouched, OppsVouched,
        Vouched, Earned, Readable, Entries, Arrived
  <1>7. Drained'
    BY <1>1 DEF PipelineInd, Drained
  <1> QED
    BY <1>4, <1>5, <1>6, <1>7 DEF PipelineInd

(* The submission, after which the thread goes on or panics.               *)
LEMMA SubmitsHolds ==
    ASSUME PipelineInd, ExecutionSubmits \/ ExecutionPanics
    PROVE  PipelineInd'
  <1>1. /\ execution = "running" /\ executing # <<>>
        /\ submitted' = Append(submitted, Head(executing)) /\ executing' = <<>>
        /\ \/ opps' = opps /\ execution' = execution
           \/ opps' = <<>> /\ execution' = "panicked"
        /\ UNCHANGED <<received, partial, sniffer, signals, judging, features, filter>>
    BY DEF ExecutionSubmits, ExecutionPanics, Submits, Left, sniffed
  <1>2. PICK s \in Signals : executing = <<s>>
    BY <1>1 DEF PipelineInd, TypeOK
  <1>3. Head(executing) = s /\ Elements(executing) = {s} /\ Elements(executing') = {}
    BY <1>1, <1>2, OneElement, NoElements
  <1>4. submitted' \in Seq(Signals) /\ Elements(submitted') = Elements(submitted) \cup {s}
    BY <1>1, <1>3, AppendProperties, AppendElements DEF PipelineInd, TypeOK
  <1>5. /\ opps' \in Seq(Signals) /\ Len(opps') <= OpportunityCapacity
        /\ Elements(opps') \subseteq Elements(opps)
    <2>1. CASE opps' = opps
      BY <2>1 DEF PipelineInd, TypeOK
    <2>2. CASE opps' = <<>>
      <3>1. <<>> \in Seq(Signals) /\ Len(<<>>) = 0
        BY EmptySeq
      <3> QED
        BY <2>2, <3>1, NoElements, CapacityAssumption
    <2> QED
      BY <1>1, <2>1, <2>2
  <1>6. TypeOK' /\ FragmentsArrived'
    BY <1>1, <1>4, <1>5 DEF PipelineInd, TypeOK, FragmentsArrived, Arrived
  <1>7. SignalsTraced'
    BY <1>1, <1>3, <1>4, <1>5 DEF PipelineInd, SignalsTraced, Readable, Entries, Arrived
  <1>8. FeaturesVouched' /\ OppsVouched'
    BY <1>1, <1>3, <1>4, <1>5 DEF PipelineInd, FeaturesVouched, OppsVouched,
        Vouched, Earned, Readable, Entries, Arrived
  <1>9. Drained'
    BY <1>1 DEF PipelineInd, Drained
  <1> QED
    BY <1>6, <1>7, <1>8, <1>9 DEF PipelineInd

LEMMA StepHolds == PipelineInd /\ [Next]_vars => PipelineInd'
  <1> SUFFICES ASSUME PipelineInd, [Next]_vars PROVE PipelineInd'
    OBVIOUS
  <1>1. CASE \E p \in Packets : Receive(p)
    BY <1>1, ReceiveHolds, LeftAsideHolds
  <1>2. CASE FilterStep
    BY <1>2, FilterTakesHolds, FilterJudgesHolds, QuietStepHolds DEF FilterStep
  <1>3. CASE ExecutionStep
    BY <1>3, ExecutionTakesHolds, SubmitsHolds, QuietStepHolds DEF ExecutionStep
  <1>4. CASE SnifferEnds \/ \E m \in Mints : Expires(m)
    BY <1>4, QuietStepHolds
  <1>5. CASE UNCHANGED vars
    BY <1>5 DEF vars, sniffed, executed, PipelineInd, TypeOK, FragmentsArrived, SignalsTraced,
                FeaturesVouched, OppsVouched, Drained, Vouched, Earned, Readable, Entries, Arrived
  <1> QED
    BY <1>1, <1>2, <1>3, <1>4, <1>5 DEF Next

-----------------------------------------------------------------------------
(* The theorems *)

LEMMA PipeElements ==
    ASSUME TypeOK
    PROVE  /\ InFlight \in Seq(Signals)
           /\ Elements(InFlight) = Elements(executing) \cup Elements(opps)
                                       \cup Elements(judging) \cup Elements(signals)
           /\ Elements(executing \o opps \o submitted)
                  = Elements(executing) \cup Elements(opps) \cup Elements(submitted)
  <1> DEFINE moving == executing \o opps
             held == moving \o judging
  <1>1. <<>> \in Seq(Signals) /\ \A s \in Signals : <<s>> \in Seq(Signals)
    OBVIOUS
  <1>2. /\ executing \in Seq(Signals) /\ opps \in Seq(Signals) /\ judging \in Seq(Signals)
        /\ signals \in Seq(Signals) /\ submitted \in Seq(Signals)
    <2>1. \A x \in {<<>>} \cup {<<s>> : s \in Signals} : x \in Seq(Signals)
      BY <1>1
    <2> QED
      BY <2>1 DEF TypeOK
  <1>3. moving \in Seq(Signals) /\ Elements(moving) = Elements(executing) \cup Elements(opps)
    BY <1>2, ConcatElements
  <1> HIDE DEF moving
  <1>4. held \in Seq(Signals) /\ Elements(held) = Elements(moving) \cup Elements(judging)
    BY <1>2, <1>3, ConcatElements
  <1>5. Elements(moving \o submitted) = Elements(moving) \cup Elements(submitted)
    BY <1>2, <1>3, ConcatElements
  <1> HIDE DEF held
  <1>6. /\ held \o signals \in Seq(Signals)
        /\ Elements(held \o signals) = Elements(held) \cup Elements(signals)
    BY <1>2, <1>4, ConcatElements
  <1>7. InFlight = held \o signals /\ executing \o opps \o submitted = moving \o submitted
    BY DEF InFlight, held, moving
  <1> QED
    BY <1>3, <1>4, <1>5, <1>6, <1>7

(* What the inductive invariant implies.                                   *)
LEMMA IndImplies == PipelineInd => OfOneSlot /\ VouchedFor /\ EndsDrained
  <1> SUFFICES ASSUME PipelineInd PROVE OfOneSlot /\ VouchedFor /\ EndsDrained
    OBVIOUS
  <1>1. /\ Elements(InFlight) = Elements(executing) \cup Elements(opps)
                                    \cup Elements(judging) \cup Elements(signals)
        /\ Elements(executing \o opps \o submitted)
               = Elements(executing) \cup Elements(opps) \cup Elements(submitted)
    BY PipeElements DEF PipelineInd
  <1>2. OfOneSlot
    BY <1>1 DEF PipelineInd, SignalsTraced, OfOneSlot, Seen
  <1>3. VouchedFor
    BY <1>1 DEF PipelineInd, OppsVouched, Vouched, VouchedFor
  <1>4. EndsDrained
    BY DEF PipelineInd, Drained, EndsDrained, InFlight
  <1> QED
    BY <1>2, <1>3, <1>4

(* In every reachable state each signal is explained by packets that have  *)
(* arrived, each good score and each opportunity by a listing that earned  *)
(* it, and stages end empty.                                               *)
THEOREM PipelineInvariance == Spec => []PipelineInd
  BY InitHolds, StepHolds, PTL DEF Spec

(* The channels keep their bounds, and each variable its type.             *)
THEOREM TypeCorrect == Spec => []TypeOK
  <1>1. PipelineInd => TypeOK
    BY DEF PipelineInd
  <1> QED
    BY <1>1, PipelineInvariance, PTL

(* A signal is what fragments of one slot read together, however they are  *)
(* reordered and repeated: it mixes listings of a slot, never of two.      *)
THEOREM SlotsApart == Spec => []OfOneSlot
  BY IndImplies, PipelineInvariance, PTL

(* No bundle is submitted for a mint that no slot has shown with valid     *)
(* keys and enough liquidity, however packets, expiries and the filter     *)
(* interleave.                                                             *)
THEOREM NothingUnearned == Spec => []VouchedFor
  BY IndImplies, PipelineInvariance, PTL

(* A stage that ends in order leaves nothing behind it.                    *)
THEOREM StagesDrain == Spec => []EndsDrained
  BY IndImplies, PipelineInvariance, PTL

-----------------------------------------------------------------------------
(* The lossy pipe *)

(* The two parts of a concatenation.                                       *)
LEMMA Parts ==
    ASSUME NEW S, NEW a \in Seq(S), NEW b \in Seq(S)
    PROVE  /\ SubSeq(a \o b, 1, Len(a)) = a
           /\ SubSeq(a \o b, Len(a) + 1, Len(a \o b)) = b
           /\ Len(a \o b) = Len(a) + Len(b) /\ Len(a) \in Nat /\ Len(b) \in Nat
  <1>1. /\ a \o b \in Seq(S) /\ Len(a \o b) = Len(a) + Len(b)
        /\ \A i \in 1..Len(a) : (a \o b)[i] = a[i]
        /\ \A i \in 1..Len(b) : (a \o b)[Len(a) + i] = b[i]
        /\ Len(a) \in Nat /\ Len(b) \in Nat
    BY ConcatProperties, LenProperties
  <1>2. \A i \in 1..Len(a) + Len(b) : (a \o b)[i] \in S
    BY <1>1, ElementOfSeq
  <1> DEFINE c == a \o b
  <1> HIDE DEF c
  <1>3. SubSeq(c, 1, Len(a)) = a
    <2>1. /\ SubSeq(c, 1, Len(a)) \in Seq(S) /\ Len(SubSeq(c, 1, Len(a))) = Len(a)
          /\ \A i \in 1..Len(a) : SubSeq(c, 1, Len(a))[i] = c[i]
      BY <1>1, <1>2 DEF c
    <2> QED
      BY <1>1, <2>1, SeqEqual DEF c
  <1>4. SubSeq(c, Len(a) + 1, Len(a) + Len(b)) = b
    <2> DEFINE r == SubSeq(c, Len(a) + 1, Len(a) + Len(b))
    <2>1. /\ r \in Seq(S) /\ Len(r) = Len(b)
          /\ \A i \in 1..Len(b) : r[i] = c[Len(a) + i]
      BY <1>1, <1>2, SubSeqProperties DEF c
    <2> HIDE DEF r
    <2>2. r = b
      BY <1>1, <2>1, SeqEqual DEF c
    <2> QED
      BY <2>2 DEF r
  <1> QED
    BY <1>1, <1>3, <1>4 DEF c

(* The stages as sequences, and the pipe in two ways put together.         *)
Stages ==
    /\ executing \in Seq(Signals) /\ opps \in Seq(Signals) /\ judging \in Seq(Signals)
    /\ signals \in Seq(Signals) /\ submitted \in Seq(Signals)
    /\ InFlight = (executing \o opps) \o (judging \o signals)
    /\ InFlight = executing \o (opps \o (judging \o signals))
    /\ InFlight \in Seq(Signals) /\ executing \o opps \in Seq(Signals)
    /\ judging \o signals \in Seq(Signals)
    /\ opps \o (judging \o signals) \in Seq(Signals)

LEMMA StageSequences == TypeOK => Stages
  <1> SUFFICES ASSUME TypeOK PROVE Stages
    OBVIOUS
  <1>1. <<>> \in Seq(Signals) /\ \A s \in Signals : <<s>> \in Seq(Signals)
    OBVIOUS
  <1>2. \A x \in {<<>>} \cup {<<s>> : s \in Signals} : x \in Seq(Signals)
    BY <1>1
  <1>3. /\ executing \in Seq(Signals) /\ opps \in Seq(Signals) /\ judging \in Seq(Signals)
        /\ signals \in Seq(Signals) /\ submitted \in Seq(Signals)
    BY <1>2 DEF TypeOK
  <1> DEFINE front == executing \o opps
             back == judging \o signals
  <1>4. front \in Seq(Signals) /\ back \in Seq(Signals)
    BY <1>3, ConcatProperties
  <1>5. judging \in Seq(Signals) /\ signals \in Seq(Signals)
    BY <1>3
  <1>6. executing \in Seq(Signals) /\ opps \in Seq(Signals)
    BY <1>3
  <1> HIDE DEF front, back
  <1>7. (front \o judging) \o signals = front \o (judging \o signals)
    BY <1>4, <1>5, ConcatAssociative
  <1>8. (executing \o opps) \o back = executing \o (opps \o back)
    BY <1>4, <1>6, ConcatAssociative
  <1>9. front \o back \in Seq(Signals) /\ opps \o back \in Seq(Signals)
    BY <1>4, <1>6, ConcatProperties
  <1>10. InFlight = front \o back /\ InFlight = executing \o (opps \o back)
    BY <1>7, <1>8 DEF front, back, InFlight
  <1> QED
    BY <1>3, <1>4, <1>9, <1>10 DEF front, back, Stages

LEMMA NextSequences == TypeOK' => Stages'
  BY StageSequences, PTL

(* What is moved from one channel to the next stays where it is in the     *)
(* pipe: the head of a sequence becomes the end of the one before.         *)
LEMMA Moves ==
    ASSUME NEW S, NEW q \in Seq(S), q # <<>>
    PROVE  <<Head(q)>> \o Tail(q) = q /\ <<>> \o q = q
  <1>1. /\ Head(q) \in S /\ Head(q) = q[1] /\ Tail(q) \in Seq(S) /\ Len(Tail(q)) = Len(q) - 1
        /\ \A i \in 1..Len(q) - 1 : Tail(q)[i] = q[i + 1]
        /\ Len(q) \in Nat \ {0}
    BY HeadTailProperties, EmptySeq
  <1> DEFINE h == Head(q)
             t == Tail(q)
  <1> HIDE DEF h, t
  <1>2. /\ <<h>> \in Seq(S) /\ Len(<<h>>) = 1 /\ <<h>>[1] = h
    BY <1>1 DEF h
  <1>3. /\ <<h>> \o t \in Seq(S) /\ Len(<<h>> \o t) = Len(q)
        /\ \A i \in 1..Len(q) : (<<h>> \o t)[i] = IF i <= 1 THEN <<h>>[i] ELSE t[i - 1]
    BY <1>1, <1>2, ConcatProperties DEF t
  <1>4. \A i \in 1..Len(q) : (<<h>> \o t)[i] = q[i]
    BY <1>1, <1>2, <1>3 DEF h, t
  <1>5. <<h>> \o t = q
    BY <1>3, <1>4, SeqEqual
  <1> QED
    BY <1>5, ConcatEmptySeq DEF h, t

LEMMA ReceiveMaps ==
    ASSUME TypeOK, FragmentsArrived, NEW p \in Packets, Receive(p)
    PROVE  [Pipe!Next]_(Pipe!vars)
  <1>1. UNCHANGED <<judging, opps, executing, submitted>>
    BY DEF Receive, executed
  <1>2. signals' = signals \/ \E s \in Signals : Emit(s)
    <2>1. CASE mentions_supported_program(p)
      <3>1. Fragments(p) \in SUBSET Packets /\ Fragments(p) # {}
        BY DEF TypeOK, Fragments
      <3>2. Extract(Fragments(p)) \in Signals /\ Extract({p}) \in Signals
        BY <2>1, <3>1, FragmentsMention, ExtractedSignal
      <3>3. Emit(Extract(Fragments(p))) \/ Emit(Extract({p}))
        BY <2>1 DEF Receive, Complete, Keep
      <3> QED
        BY <3>2, <3>3
    <2> QED
      BY <2>1 DEF Receive
  <1>3. CASE signals' = signals
    BY <1>1, <1>3 DEF Pipe!vars, InFlight
  <1>4. ASSUME NEW s \in Signals, signals' = Append(signals, s)
        PROVE  [Pipe!Next]_(Pipe!vars)
    <2> DEFINE ahead == executing \o opps \o judging
    <2>1. ahead \in Seq(Signals) /\ signals \in Seq(Signals) /\ <<s>> \in Seq(Signals)
      <3>1. executing \o opps \in Seq(Signals) /\ judging \in Seq(Signals)
            /\ signals \in Seq(Signals)
        BY StageSequences DEF Stages
      <3>2. executing \o opps \o judging \in Seq(Signals)
        BY <3>1, ConcatProperties
      <3> QED
        BY <3>1, <3>2
    <2>2. InFlight = ahead \o signals /\ InFlight' = ahead \o Append(signals, s)
      BY <1>1, <1>4 DEF InFlight
    <2>3. ahead \o signals \in Seq(Signals)
      BY <2>2, StageSequences DEF Stages
    <2> HIDE DEF ahead
    <2>4. Append(signals, s) = signals \o <<s>>
          /\ Append(ahead \o signals, s) = (ahead \o signals) \o <<s>>
      BY <2>1, <2>3, AppendIsConcat
    <2>5. (ahead \o signals) \o <<s>> = ahead \o (signals \o <<s>>)
      BY <2>1, ConcatAssociative
    <2>6. InFlight' = Append(InFlight, s)
      BY <2>2, <2>4, <2>5
    <2> QED
      BY <1>1, <2>6 DEF Pipe!Next, Pipe!Put
  <1> QED
    BY <1>2, <1>3, <1>4 DEF Emit

LEMMA TakesMap ==
    ASSUME TypeOK, TypeOK', FilterTakes \/ ExecutionTakes
    PROVE  UNCHANGED <<InFlight, submitted>>
  <1>1. CASE FilterTakes
    <2>1. /\ judging = <<>> /\ signals # <<>>
          /\ judging' = <<Head(signals)>> /\ signals' = Tail(signals)
          /\ UNCHANGED <<opps, executing, submitted>>
      BY <1>1 DEF FilterTakes, executed
    <2>2. judging' \o signals' = judging \o signals
      BY <2>1, Moves, StageSequences DEF Stages
    <2>3. InFlight' = (executing' \o opps') \o (judging' \o signals')
      BY NextSequences DEF Stages
    <2> QED
      BY <2>1, <2>2, <2>3, StageSequences DEF Stages
  <1>2. CASE ExecutionTakes
    <2>1. /\ executing = <<>> /\ opps # <<>>
          /\ executing' = <<Head(opps)>> /\ opps' = Tail(opps)
          /\ UNCHANGED <<judging, signals, submitted>>
      BY <1>2 DEF ExecutionTakes, Left
    <2>2. executing' \o opps' = executing \o opps
      BY <2>1, Moves, StageSequences DEF Stages
    <2> QED
      BY <2>1, <2>2 DEF InFlight
  <1> QED
    BY <1>1, <1>2

(* A judged signal is lost, or moves on into the next channel.             *)
LEMMA JudgesMaps ==
    ASSUME TypeOK, TypeOK', FilterJudges
    PROVE  [Pipe!Next]_(Pipe!vars)
  <1>1. /\ judging # <<>> /\ judging' = <<>>
        /\ UNCHANGED <<signals, executing, execution, submitted>>
    BY DEF FilterJudges, sniffed, executed
  <1>2. PICK s \in Signals : judging = <<s>>
    BY <1>1 DEF TypeOK
  <1>3. opps' = opps \/ opps' = Append(opps, s)
    BY <1>1, <1>2 DEF FilterJudges, Offer
  <1>4. Stages /\ Stages'
    BY StageSequences, NextSequences
  <1>5. <<s>> \in Seq(Signals) /\ Len(<<s>>) = 1
    OBVIOUS
  <1>6. judging' \o signals' = signals
    BY <1>1, <1>4, ConcatEmptySeq DEF Stages
  <1>7. CASE opps' = opps
    <2> DEFINE front == executing \o opps
               held == front \o <<s>>
    <2>1. front \in Seq(Signals) /\ signals \in Seq(Signals)
      BY <1>4 DEF Stages
    <2>2. InFlight = front \o (<<s>> \o signals) /\ InFlight' = front \o signals
      BY <1>1, <1>2, <1>4, <1>6, <1>7 DEF Stages
    <2> HIDE DEF front
    <2>3. held \in Seq(Signals) /\ Len(held) = Len(front) + 1 /\ Len(front) \in Nat
      BY <1>5, <2>1, ConcatProperties, LenProperties
    <2>4. InFlight = held \o signals
      BY <1>5, <2>1, <2>2, ConcatAssociative
    <2>5. SubSeq(InFlight, 1, Len(front)) = front
      <3>1. <<s>> \o signals \in Seq(Signals)
        BY <1>5, <2>1, ConcatProperties
      <3> QED
        BY <2>1, <2>2, <3>1, Parts
    <2> HIDE DEF held
    <2>6. /\ SubSeq(InFlight, Len(held) + 1, Len(InFlight)) = signals
          /\ Len(InFlight) = Len(held) + Len(signals) /\ Len(signals) \in Nat
      BY <2>1, <2>3, <2>4, Parts
    <2> DEFINE i == Len(held)
    <2>7. i \in DOMAIN InFlight /\ i - 1 = Len(front)
      BY <1>4, <2>3, <2>6, LenProperties DEF Stages
    <2>8. Pipe!Lose(i, i)
      BY <1>1, <2>2, <2>5, <2>6, <2>7 DEF Pipe!Lose
    <2>9. i <= i
      BY <2>3
    <2> QED
      BY <2>7, <2>8, <2>9 DEF Pipe!Next
  <1>8. CASE opps' = Append(opps, s)
    <2>1. executing \in Seq(Signals) /\ opps \in Seq(Signals) /\ signals \in Seq(Signals)
      BY <1>4 DEF Stages
    <2>2. executing \o (opps \o <<s>>) = (executing \o opps) \o <<s>>
      BY <1>5, <2>1, ConcatAssociative
    <2>3. opps' = opps \o <<s>>
      BY <1>8, <2>1, AppendIsConcat
    <2>4. InFlight' = (executing \o opps) \o <<s>> \o signals
      BY <1>1, <1>4, <1>6, <2>2, <2>3 DEF Stages
    <2> QED
      BY <1>1, <1>2, <2>4 DEF InFlight, Pipe!vars
  <1> QED
    BY <1>3, <1>7, <1>8

(* A submission delivers the head of the pipe; a panic loses with it what  *)
(* the channel held.                                                       *)
LEMMA DeliveryMaps ==
    ASSUME NEW s \in Signals, NEW a \in Seq(Signals), NEW b \in Seq(Signals),
           InFlight = (<<s>> \o a) \o b, InFlight' = b, submitted' = Append(submitted, s)
    PROVE  [Pipe!Next]_(Pipe!vars)
  <1> DEFINE front == <<s>> \o a
  <1>1. <<s>> \in Seq(Signals) /\ Len(<<s>>) = 1 /\ <<s>>[1] = s
    OBVIOUS
  <1>2. /\ front \in Seq(Signals) /\ Len(front) = 1 + Len(a) /\ Len(a) \in Nat
        /\ front[1] = s
    BY <1>1, ConcatProperties, LenProperties
  <1>3. InFlight = front \o b
    OBVIOUS
  <1> HIDE DEF front
  <1>4. /\ InFlight \in Seq(Signals) /\ Len(InFlight) = Len(front) + Len(b)
        /\ InFlight[1] = front[1] /\ Len(b) \in Nat
    BY <1>2, <1>3, ConcatProperties, LenProperties
  <1>5. SubSeq(InFlight, Len(front) + 1, Len(InFlight)) = b
    BY <1>2, <1>3, Parts
  <1>6. InFlight # <<>> /\ Head(InFlight) = s
    BY <1>2, <1>4, HeadTailProperties
  <1>7. Len(front) \in DOMAIN InFlight
    BY <1>2, <1>4, LenProperties
  <1>8. Pipe!Deliver(Len(front))
    BY <1>5, <1>6 DEF Pipe!Deliver
  <1> QED
    BY <1>7, <1>8 DEF Pipe!Next

LEMMA SubmitsMaps ==
    ASSUME TypeOK, TypeOK', ExecutionSubmits \/ ExecutionPanics
    PROVE  [Pipe!Next]_(Pipe!vars)
  <1>1. /\ executing # <<>> /\ executing' = <<>>
        /\ submitted' = Append(submitted, Head(executing))
        /\ UNCHANGED <<judging, signals>>
    BY DEF ExecutionSubmits, ExecutionPanics, Submits, Left
  <1>2. PICK s \in Signals : executing = <<s>> /\ submitted' = Append(submitted, s)
    BY <1>1 DEF TypeOK
  <1>3. Stages /\ Stages' /\ <<s>> \in Seq(Signals) /\ <<>> \in Seq(Signals)
    BY StageSequences, NextSequences
  <1> DEFINE back == judging \o signals
             waiting == opps \o back
  <1>4. back \in Seq(Signals) /\ waiting \in Seq(Signals) /\ opps \in Seq(Signals)
    BY <1>3 DEF Stages
  <1>5. InFlight = <<s>> \o waiting
    BY <1>2, <1>3 DEF Stages
  <1>6. InFlight' = opps' \o back
    <2>1. opps' \o back \in Seq(Signals) /\ InFlight' = <<>> \o (opps' \o back)
      BY <1>1, <1>3 DEF Stages
    <2> QED
      BY <2>1, ConcatEmptySeq
  <1>7. CASE opps' = opps
    <2>1. InFlight' = waiting
      BY <1>6, <1>7
    <2> HIDE DEF waiting
    <2>2. <<s>> \o <<>> = <<s>>
      BY <1>3, ConcatEmptySeq
    <2>3. InFlight = (<<s>> \o <<>>) \o waiting
      BY <1>5, <2>2
    <2>4. PICK b \in Seq(Signals) : b = waiting
      BY <1>4
    <2> QED
      BY <1>2, <1>3, <2>1, <2>3, <2>4, DeliveryMaps
  <1>8. CASE opps' = <<>>
    <2> HIDE DEF back
    <2>1. InFlight = (<<s>> \o opps) \o back
      BY <1>3, <1>4, <1>5, ConcatAssociative
    <2>2. InFlight' = back
      BY <1>4, <1>6, <1>8, ConcatEmptySeq
    <2> QED
      BY <1>2, <1>4, <2>1, <2>2, DeliveryMaps
  <1> QED
    BY <1>7, <1>8 DEF ExecutionSubmits, ExecutionPanics

LEMMA StepMaps ==
    PipelineInd /\ PipelineInd' /\ [Next]_vars => [Pipe!Next]_(Pipe!vars)
  <1> SUFFICES ASSUME PipelineInd, PipelineInd', [Next]_vars
               PROVE  [Pipe!Next]_(Pipe!vars)
    OBVIOUS
  <1>1. TypeOK /\ TypeOK' /\ FragmentsArrived
    BY DEF PipelineInd
  <1>2. CASE \E p \in Packets : Receive(p)
    BY <1>1, <1>2, ReceiveMaps
  <1>3. CASE FilterTakes \/ ExecutionTakes
    BY <1>1, <1>3, TakesMap DEF Pipe!vars
  <1>4. CASE FilterJudges
    BY <1>1, <1>4, JudgesMaps
  <1>5. CASE ExecutionSubmits \/ ExecutionPanics
    BY <1>1, <1>5, SubmitsMaps
  <1>6. CASE \/ SnifferEnds \/ FilterEnds \/ ExecutionEnds \/ \E m \in Mints : Expires(m)
             \/ UNCHANGED vars
    <2>1. UNCHANGED <<signals, judging, opps, executing, submitted>>
      BY <1>6 DEF SnifferEnds, FilterEnds, ExecutionEnds, Expires, sniffed, executed, Left, vars
    <2> QED
      BY <2>1 DEF InFlight, Pipe!vars
  <1> QED
    BY <1>2, <1>3, <1>4, <1>5, <1>6 DEF Next, FilterStep, ExecutionStep

(* Whatever is dropped, expires or ends: what is submitted was received,   *)
(* once for each time it was sent and in that order.                       *)
THEOREM OnlyLosses == Spec => PipeSpec
  <1>1. Init => Pipe!Init
    <2> SUFFICES ASSUME Init PROVE Pipe!Init
      OBVIOUS
    <2>1. <<>> \o <<>> = <<>>
      BY EmptySeq, ConcatEmptySeq
    <2> QED
      BY <2>1 DEF Init, InFlight, Pipe!Init
  <1> QED
    BY <1>1, StepMaps, PipelineInvariance, PTL DEF Spec, PipeSpec, Pipe!Spec

-----------------------------------------------------------------------------
(* How often a listing is on the way *)

Places(q, p) == {i \in DOMAIN q : q[i].from = p}
One(s, p) == IF s.from = p THEN 1 ELSE 0

LEMMA PlacesFinite ==
    ASSUME NEW q \in Seq(Signals), NEW p
    PROVE  IsFiniteSet(Places(q, p)) /\ Count(q, p) \in Nat /\ Count(q, p) = Cardinality(Places(q, p))
  <1>1. Len(q) \in Nat /\ DOMAIN q = 1..Len(q)
    BY LenProperties
  <1>2. IsFiniteSet(DOMAIN q)
    BY <1>1, FS_Interval
  <1>3. IsFiniteSet(Places(q, p))
    BY <1>2, FS_Subset DEF Places
  <1> QED
    BY <1>3, FS_CardinalityType DEF Count, Places

LEMMA CountNone == ASSUME NEW p PROVE Count(<<>>, p) = 0
  <1>1. {i \in DOMAIN <<>> : (<<>>)[i].from = p} = {}
    OBVIOUS
  <1> QED
    BY <1>1, FS_EmptySet DEF Count

LEMMA CountAppend ==
    ASSUME NEW q \in Seq(Signals), NEW s \in Signals, NEW p
    PROVE  Count(Append(q, s), p) = Count(q, p) + One(s, p)
  <1> DEFINE n == Len(q) + 1
  <1>1. /\ Append(q, s) \in Seq(Signals) /\ Len(Append(q, s)) = n /\ Len(q) \in Nat
        /\ \A i \in 1..Len(q) : Append(q, s)[i] = q[i]
        /\ Append(q, s)[n] = s
    BY AppendProperties, LenProperties
  <1>2. DOMAIN Append(q, s) = 1..n /\ DOMAIN q = 1..Len(q)
    BY <1>1, LenProperties
  <1>3. n \notin Places(q, p)
    BY <1>1, <1>2 DEF Places
  <1>a. Count(Append(q, s), p) = Cardinality(Places(Append(q, s), p))
    BY <1>1, PlacesFinite
  <1>b. IsFiniteSet(Places(q, p)) /\ Count(q, p) = Cardinality(Places(q, p)) /\ Count(q, p) \in Nat
    BY PlacesFinite
  <1> HIDE DEF n
  <1>4. CASE s.from = p
    <2>1. Places(Append(q, s), p) = Places(q, p) \cup {n}
      <3>1. \A i \in 1..n : i \in 1..Len(q) \/ i = n
        BY <1>1 DEF n
      <3>2. n \in 1..n /\ 1..Len(q) \subseteq 1..n
        BY <1>1 DEF n
      <3> QED
        BY <1>1, <1>2, <1>4, <3>1, <3>2 DEF Places
    <2>2. Cardinality(Places(q, p) \cup {n}) = Cardinality(Places(q, p)) + 1
      BY <1>b, <1>3, FS_AddElement
    <2> QED
      BY <1>a, <1>b, <1>4, <2>1, <2>2 DEF One
  <1>5. CASE s.from # p
    <2>1. Places(Append(q, s), p) = Places(q, p)
      <3>1. \A i \in 1..n : i \in 1..Len(q) \/ i = n
        BY <1>1 DEF n
      <3>2. 1..Len(q) \subseteq 1..n
        BY <1>1 DEF n
      <3> QED
        BY <1>1, <1>2, <1>5, <3>1, <3>2 DEF Places
    <2> QED
      BY <1>a, <1>b, <1>5, <2>1 DEF One
  <1> QED
    BY <1>4, <1>5

LEMMA CountOne ==
    ASSUME NEW s \in Signals, NEW p
    PROVE  Count(<<s>>, p) = One(s, p)
  <1>1. <<s>> = Append(<<>>, s) /\ <<>> \in Seq(Signals)
    BY EmptySeq
  <1>2. Count(Append(<<>>, s), p) = Count(<<>>, p) + One(s, p)
    BY <1>1, CountAppend
  <1>3. Count(<<>>, p) = 0
    BY CountNone
  <1>4. One(s, p) \in Nat
    BY DEF One
  <1> QED
    BY <1>1, <1>2, <1>3, <1>4

LEMMA CountTail ==
    ASSUME NEW q \in Seq(Signals), q # <<>>, NEW p
    PROVE  Count(q, p) = Count(Tail(q), p) + One(Head(q), p)
  <1>1. /\ Head(q) \in Signals /\ Tail(q) \in Seq(Signals) /\ Len(Tail(q)) = Len(q) - 1
        /\ \A i \in 1..Len(q) - 1 : Tail(q)[i] = q[i + 1]
        /\ Head(q) = q[1] /\ Len(q) \in Nat \ {0}
    BY HeadTailProperties, LenProperties, EmptySeq
  <1>2. DOMAIN q = 1..Len(q) /\ DOMAIN Tail(q) = 1..(Len(q) - 1)
    BY <1>1, LenProperties
  <1> DEFINE f == [i \in Places(Tail(q), p) |-> i + 1]
  <1>3. f \in Bijection(Places(Tail(q), p), Places(q, p) \ {1})
    <2>1. \A i \in Places(Tail(q), p) : i \in 1..(Len(q) - 1) /\ i + 1 \in Places(q, p) \ {1}
      BY <1>1, <1>2 DEF Places
    <2>2. \A j \in Places(q, p) \ {1} : j - 1 \in Places(Tail(q), p) /\ j = (j - 1) + 1
      BY <1>1, <1>2 DEF Places
    <2>3. f \in [Places(Tail(q), p) -> Places(q, p) \ {1}]
      BY <2>1
    <2>4. \A i, j \in Places(Tail(q), p) : f[i] = f[j] => i = j
      BY <2>1
    <2>5. \A j \in Places(q, p) \ {1} : \E i \in Places(Tail(q), p) : f[i] = j
      BY <2>2
    <2> QED
      BY <2>3, <2>4, <2>5, Fun_IsBij
  <1>4. Cardinality(Places(Tail(q), p)) = Cardinality(Places(q, p) \ {1})
    BY <1>1, <1>3, PlacesFinite, FS_Bijection DEF ExistsBijection
  <1>5. Cardinality(Places(q, p) \ {1}) =
            IF 1 \in Places(q, p) THEN Cardinality(Places(q, p)) - 1 ELSE Cardinality(Places(q, p))
    BY PlacesFinite, FS_RemoveElement
  <1>6. 1 \in Places(q, p) <=> Head(q).from = p
    BY <1>1, <1>2 DEF Places
  <1>7. /\ Count(q, p) \in Nat /\ Count(q, p) = Cardinality(Places(q, p))
        /\ Count(Tail(q), p) \in Nat /\ Count(Tail(q), p) = Cardinality(Places(Tail(q), p))
    BY <1>1, PlacesFinite
  <1> QED
    BY <1>4, <1>5, <1>6, <1>7 DEF One

LEMMA CountsNatural ==
    ASSUME TypeOK, NEW p
    PROVE  /\ Count(submitted, p) \in Nat /\ Count(executing, p) \in Nat /\ Count(opps, p) \in Nat
           /\ Count(judging, p) \in Nat /\ Count(signals, p) \in Nat
  <1>1. /\ submitted \in Seq(Signals) /\ opps \in Seq(Signals) /\ signals \in Seq(Signals)
        /\ executing \in Seq(Signals) /\ judging \in Seq(Signals)
    BY StageSequences DEF Stages
  <1> QED
    BY <1>1, PlacesFinite

(* A signal that is sent counts once for its listing, if it is not dropped. *)
LEMMA EmitCounts ==
    ASSUME TypeOK, NEW s \in Signals, Emit(s), NEW p
    PROVE  Count(signals', p) \in Nat /\ Count(signals', p) <= Count(signals, p) + One(s, p)
  <1>1. Count(Append(signals, s), p) = Count(signals, p) + One(s, p)
    BY CountAppend DEF TypeOK
  <1>2. Count(signals, p) \in Nat /\ One(s, p) \in Nat
    BY CountsNatural DEF One
  <1> QED
    BY <1>1, <1>2 DEF Emit

LEMMA OfferCounts ==
    ASSUME TypeOK, NEW s \in Signals, Offer(s), NEW p
    PROVE  Count(opps', p) \in Nat /\ Count(opps', p) <= Count(opps, p) + One(s, p)
  <1>1. Count(Append(opps, s), p) = Count(opps, p) + One(s, p)
    BY CountAppend DEF TypeOK
  <1>2. Count(opps, p) \in Nat /\ One(s, p) \in Nat
    BY CountsNatural DEF One
  <1> QED
    BY <1>1, <1>2 DEF Offer

LEMMA LeftAsidePays ==
    ASSUME PipelineInd, SignalsPaidFor, NEW p \in Packets, Receive(p),
           ~mentions_supported_program(p)
    PROVE  SignalsPaidFor'
  <1>1. /\ received' = [received EXCEPT ![p] = @ + 1]
        /\ UNCHANGED <<partial, signals, judging, opps, executing, submitted>>
    BY DEF Receive, executed
  <1>2. received \in [Packets -> 0..MaxCopies] /\ MaxCopies \in Nat
    BY PacketsAssumption DEF PipelineInd, TypeOK
  <1>3. ASSUME NEW q \in Packets PROVE (Count(submitted, q) + Made(q) + Owed(q) <= Due(q))'
    <2>1. received[q] \in Nat /\ received'[q] \in {received[q], received[q] + 1}
      BY <1>1, <1>2
    <2>2. Due(q) \in Nat /\ Due(q)' \in Nat /\ Due(q) <= Due(q)'
      BY <2>1 DEF Due
    <2>3. /\ Count(submitted, q) \in Nat /\ Count(executing, q) \in Nat /\ Count(opps, q) \in Nat
          /\ Count(judging, q) \in Nat /\ Count(signals, q) \in Nat
      BY CountsNatural DEF PipelineInd
    <2>4. Made(q) \in Nat /\ Owed(q) \in Nat
      BY <2>3 DEF Made, Owed
    <2>5. Count(submitted, q) + Made(q) + Owed(q) <= Due(q)
      BY DEF SignalsPaidFor
    <2>6. Count(submitted, q)' = Count(submitted, q) /\ Made(q)' = Made(q) /\ Owed(q)' = Owed(q)
      BY <1>1 DEF Made, Owed
    <2> QED
      BY <2>2, <2>3, <2>4, <2>5, <2>6
  <1> QED
    BY <1>1, <1>3 DEF SignalsPaidFor

(* What a packet brings pays for the signal sent and the fragment kept: a  *)
(* fragment whose signal is sent with its slot's last shred is given up.   *)
LEMMA ReceivePays ==
    ASSUME PipelineInd, SignalsPaidFor, NEW p \in Packets, Receive(p),
           mentions_supported_program(p)
    PROVE  SignalsPaidFor'
  <1>1. /\ received' = [received EXCEPT ![p] = @ + 1]
        /\ UNCHANGED <<judging, opps, executing, submitted>>
    BY DEF Receive, executed
  <1>2. /\ received \in [Packets -> 0..MaxCopies] /\ partial \subseteq Packets /\ MaxCopies \in Nat
        /\ partial \cap Last = {}
    BY PacketsAssumption DEF PipelineInd, TypeOK, SignalsPaidFor
  <1>3. \A q \in Packets : received[q] \in Nat /\ received'[q] = IF q = p THEN received[q] + 1 ELSE received[q]
    BY <1>1, <1>2
  <1>4. PICK s \in Signals :
            /\ Emit(s) /\ (partial \cap Last)' = {}
            /\ \A q \in Packets : One(s, q) + Owed(q)' + Due(q) <= Owed(q) + Due(q)'
    <2>1. CASE p \in Last /\ Complete(p)
      <3>1. Fragments(p) \in SUBSET Packets /\ Fragments(p) # {}
        BY <1>2 DEF Fragments
      <3>2. PICK s \in Signals :
                s = Extract(Fragments(p)) /\ s.from \in Fragments(p) \cup {None}
        BY <3>1, FragmentsMention, ExtractedSignal DEF PipelineInd
      <3>3. Emit(s) /\ partial' = OtherSlots(p)
        BY <2>1, <3>2 DEF Complete
      <3>4. \A q \in Packets : q = s.from => q \in Fragments(p) /\ SlotOf[q] = SlotOf[p]
        BY <3>2, PacketsAssumption DEF Fragments
      <3>5. ASSUME NEW q \in Packets PROVE One(s, q) + Owed(q)' + Due(q) <= Owed(q) + Due(q)'
        <4>1. CASE q = p
          <5>1. Due(q) = received[q] /\ Due(q)' = received[q] + 1
            BY <1>3, <2>1, <4>1 DEF Due
          <5>2. Owed(q) = 0 /\ Owed(q)' = 0
            BY <1>2, <2>1, <3>3, <4>1 DEF Owed, OtherSlots
          <5> QED
            BY <1>3, <5>1, <5>2 DEF One
        <4>2. CASE q # p
          <5>1. Due(q)' = Due(q) /\ Due(q) \in Nat
            BY <1>3, <4>2 DEF Due
          <5>2. q = s.from => q \in partial /\ q \notin partial'
            BY <3>2, <3>3, <3>4, <4>2 DEF Fragments, OtherSlots
          <5>3. q \in partial' => q \in partial
            BY <3>3 DEF OtherSlots
          <5> QED
            BY <5>1, <5>2, <5>3 DEF One, Owed
        <4> QED
          BY <4>1, <4>2
      <3>6. (partial \cap Last)' = {}
        BY <1>2, <3>3 DEF OtherSlots
      <3> QED
        BY <3>3, <3>5, <3>6
    <2>2. CASE p \notin Last /\ Keep(p)
      <3> DEFINE s == Extract({p})
      <3>1. /\ s \in Signals /\ Emit(s) /\ partial' = Fragments(p) \cup OtherSlots(p)
            /\ s.from \in {p} \cup {None}
        BY <2>2, ExtractedSignal DEF Keep
      <3> HIDE DEF s
      <3>2. p \in partial' /\ partial' \subseteq partial \cup {p}
        BY <3>1 DEF Fragments, OtherSlots
      <3>3. ASSUME NEW q \in Packets PROVE One(s, q) + Owed(q)' + Due(q) <= Owed(q) + Due(q)'
        <4>1. CASE q = p
          <5>1. Due(q) = received[q] * 2 /\ Due(q)' = (received[q] + 1) * 2
            BY <1>3, <2>2, <4>1 DEF Due
          <5> QED
            BY <1>3, <5>1 DEF One, Owed
        <4>2. CASE q # p
          <5>1. Due(q)' = Due(q) /\ Due(q) \in Nat
            BY <1>3, <4>2 DEF Due
          <5> QED
            BY <3>1, <3>2, <4>2, <5>1, PacketsAssumption DEF One, Owed
        <4> QED
          BY <4>1, <4>2
      <3>4. (partial \cap Last)' = {}
        BY <1>2, <2>2, <3>2
      <3> QED
        BY <3>1, <3>3, <3>4
    <2> QED
      BY <2>1, <2>2 DEF Receive
  <1>5. ASSUME NEW q \in Packets PROVE (Count(submitted, q) + Made(q) + Owed(q) <= Due(q))'
    <2>1. Count(signals', q) \in Nat /\ Count(signals', q) <= Count(signals, q) + One(s, q)
      BY <1>4, EmitCounts DEF PipelineInd
    <2>2. /\ Count(submitted, q) \in Nat /\ Count(executing, q) \in Nat /\ Count(opps, q) \in Nat
          /\ Count(judging, q) \in Nat /\ Count(signals, q) \in Nat
      BY CountsNatural DEF PipelineInd
    <2>3. Count(submitted, q) + Made(q) + Owed(q) <= Due(q)
      BY DEF SignalsPaidFor
    <2>4. One(s, q) + Owed(q)' + Due(q) <= Owed(q) + Due(q)'
      BY <1>4
    <2>5. Owed(q) \in Nat /\ Owed(q)' \in Nat /\ Due(q) \in Nat /\ Due(q)' \in Nat /\ One(s, q) \in Nat
      BY <1>3 DEF Owed, Due, One
    <2>6. Made(q)' = Count(executing, q) + Count(opps, q) + Count(judging, q) + Count(signals', q)
      BY <1>1 DEF Made
    <2>7. Count(submitted, q)' = Count(submitted, q)
      BY <1>1
    <2> QED
      BY <2>1, <2>2, <2>3, <2>4, <2>5, <2>6, <2>7 DEF Made
  <1> QED
    BY <1>4, <1>5 DEF SignalsPaidFor

(* Every other step moves signals on, or loses them.                       *)
Counted(p) == Count(submitted, p) + Made(p)

LEMMA CountedNatural ==
    ASSUME NEW p
    PROVE  /\ TypeOK => Counted(p) \in Nat
           /\ TypeOK' => Counted(p)' \in Nat
  <1>1. TypeOK => Counted(p) \in Nat
    BY CountsNatural DEF Counted, Made
  <1>2. ASSUME TypeOK' PROVE Counted(p)' \in Nat
    <2>1. /\ submitted' \in Seq(Signals) /\ opps' \in Seq(Signals) /\ signals' \in Seq(Signals)
          /\ executing' \in Seq(Signals) /\ judging' \in Seq(Signals)
      BY <1>2, NextSequences DEF Stages
    <2>2. /\ Count(submitted', p) \in Nat /\ Count(executing', p) \in Nat /\ Count(opps', p) \in Nat
          /\ Count(judging', p) \in Nat /\ Count(signals', p) \in Nat
      BY <2>1, PlacesFinite
    <2> QED
      BY <2>2 DEF Counted, Made
  <1> QED
    BY <1>1, <1>2

LEMMA OthersPay ==
    ASSUME PipelineInd, PipelineInd', SignalsPaidFor, UNCHANGED <<received, partial>>,
           \A p \in Packets : Counted(p)' <= Counted(p)
    PROVE  SignalsPaidFor'
  <1> SUFFICES ASSUME NEW p \in Packets
               PROVE  (Counted(p) + Owed(p) <= Due(p))'
    BY DEF SignalsPaidFor, Counted
  <1>1. Owed(p)' = Owed(p) /\ Due(p)' = Due(p) /\ Owed(p) \in Nat /\ Due(p) \in Nat
    BY DEF Owed, Due, PipelineInd, TypeOK
  <1>2. Counted(p) + Owed(p) <= Due(p)
    BY DEF SignalsPaidFor, Counted
  <1>3. Counted(p)' <= Counted(p) /\ Counted(p) \in Nat /\ Counted(p)' \in Nat
    BY CountedNatural DEF PipelineInd
  <1> QED
    BY <1>1, <1>2, <1>3

LEMMA StagesPay ==
    ASSUME PipelineInd, PipelineInd', SignalsPaidFor, FilterStep \/ ExecutionStep
    PROVE  SignalsPaidFor'
  <1>1. UNCHANGED <<received, partial>>
    BY DEF FilterStep, FilterTakes, FilterJudges, FilterEnds, ExecutionStep, ExecutionTakes,
           ExecutionSubmits, ExecutionPanics, ExecutionEnds, sniffed, Left
  <1>2. ASSUME NEW p \in Packets PROVE Counted(p)' <= Counted(p)
    <2> DEFINE N == /\ Count(submitted, p) \in Nat /\ Count(executing, p) \in Nat
                    /\ Count(opps, p) \in Nat /\ Count(judging, p) \in Nat
                    /\ Count(signals, p) \in Nat
    <2>1. N
      BY CountsNatural DEF PipelineInd
    <2>2. Count(<<>>, p) = 0
      BY CountNone
    <2>3. ASSUME judging # <<>> \/ executing # <<>>
          PROVE  /\ judging # <<>> => /\ Head(judging) \in Signals
                                      /\ Count(judging, p) = One(Head(judging), p)
                 /\ executing # <<>> => /\ Head(executing) \in Signals
                                        /\ Count(executing, p) = One(Head(executing), p)
      BY CountOne DEF PipelineInd, TypeOK
    <2>4. CASE FilterTakes
      <3>1. Count(signals, p) = Count(Tail(signals), p) + One(Head(signals), p)
        BY <2>4, CountTail DEF FilterTakes, PipelineInd, TypeOK
      <3>2. Head(signals) \in Signals
        BY <2>4, TailElements DEF FilterTakes, PipelineInd, TypeOK
      <3>3. Count(judging', p) = One(Head(signals), p) /\ signals' = Tail(signals)
        BY <2>4, <3>2, CountOne DEF FilterTakes
      <3>4. judging = <<>> /\ UNCHANGED <<opps, executing, submitted>>
        BY <2>4 DEF FilterTakes, executed
      <3>5. Count(Tail(signals), p) \in Nat /\ One(Head(signals), p) \in Nat
        BY <2>4, PlacesFinite, HeadTailProperties DEF FilterTakes, PipelineInd, TypeOK, One
      <3> QED
        BY <2>1, <2>2, <3>1, <3>3, <3>4, <3>5 DEF Counted, Made
    <2>5. CASE FilterJudges
      <3>1. /\ judging # <<>> /\ judging' = <<>> /\ UNCHANGED <<signals, executing, submitted>>
            /\ UNCHANGED opps \/ Offer(Head(judging))
        BY <2>5 DEF FilterJudges, executed
      <3>2. Head(judging) \in Signals /\ Count(judging, p) = One(Head(judging), p)
        BY <2>3, <3>1
      <3>3. Count(opps', p) \in Nat /\ Count(opps', p) <= Count(opps, p) + Count(judging, p)
        BY <2>1, <3>1, <3>2, OfferCounts DEF PipelineInd
      <3> QED
        BY <2>1, <2>2, <3>1, <3>3 DEF Counted, Made
    <2>6. CASE ExecutionTakes
      <3>1. Count(opps, p) = Count(Tail(opps), p) + One(Head(opps), p)
        BY <2>6, CountTail DEF ExecutionTakes, PipelineInd, TypeOK
      <3>2. Head(opps) \in Signals
        BY <2>6, TailElements DEF ExecutionTakes, PipelineInd, TypeOK
      <3>3. Count(executing', p) = One(Head(opps), p) /\ opps' = Tail(opps)
        BY <2>6, <3>2, CountOne DEF ExecutionTakes
      <3>4. executing = <<>> /\ UNCHANGED <<judging, signals, submitted>>
        BY <2>6 DEF ExecutionTakes, Left
      <3>5. Count(Tail(opps), p) \in Nat /\ One(Head(opps), p) \in Nat
        BY <2>6, PlacesFinite, HeadTailProperties DEF ExecutionTakes, PipelineInd, TypeOK, One
      <3> QED
        BY <2>1, <2>2, <3>1, <3>3, <3>4, <3>5 DEF Counted, Made
    <2>7. CASE ExecutionSubmits \/ ExecutionPanics
      <3>1. /\ executing # <<>> /\ executing' = <<>> /\ UNCHANGED <<judging, signals>>
            /\ submitted' = Append(submitted, Head(executing))
            /\ opps' = opps \/ opps' = <<>>
        BY <2>7 DEF ExecutionSubmits, ExecutionPanics, Submits, Left
      <3>2. Head(executing) \in Signals /\ Count(executing, p) = One(Head(executing), p)
        BY <2>3, <3>1
      <3>3. Count(submitted', p) = Count(submitted, p) + Count(executing, p)
        BY <3>1, <3>2, CountAppend DEF PipelineInd, TypeOK
      <3>4. Count(opps', p) = Count(opps, p) \/ Count(opps', p) = 0
        BY <2>2, <3>1
      <3> QED
        BY <2>1, <2>2, <3>1, <3>3, <3>4 DEF Counted, Made
    <2>8. CASE FilterEnds \/ ExecutionEnds
      <3>1. UNCHANGED <<signals, judging, opps, executing, submitted>>
        BY <2>8 DEF FilterEnds, ExecutionEnds, executed, Left
      <3> QED
        BY <2>1, <3>1 DEF Counted, Made
    <2> QED
      BY <2>4, <2>5, <2>6, <2>7, <2>8 DEF FilterStep, ExecutionStep
  <1> QED
    BY <1>1, <1>2, OthersPay

(* A listing is submitted once for its packet and once for its slot, for   *)
(* each arrival, however the channels fill and whatever the slots hold.    *)
THEOREM ArrivalsBoundBundles == Spec => [](SignalsPaidFor /\ TwiceAtMost)
<1>1. Init => SignalsPaidFor
  <2> SUFFICES ASSUME Init, NEW p \in Packets
               PROVE  partial \cap Last = {} /\ Count(submitted, p) + Made(p) + Owed(p) <= Due(p)
    BY DEF Init, SignalsPaidFor
  <2>1. Count(<<>>, p) = 0
    BY CountNone
  <2> QED
    BY <2>1 DEF Init, Made, Owed, Due
<1>2. PipelineInd /\ PipelineInd' /\ SignalsPaidFor /\ [Next]_vars => SignalsPaidFor'
  <2> SUFFICES ASSUME PipelineInd, PipelineInd', SignalsPaidFor, [Next]_vars
               PROVE  SignalsPaidFor'
    OBVIOUS
  <2>1. CASE \E p \in Packets : Receive(p)
    BY <2>1, ReceivePays, LeftAsidePays
  <2>2. CASE FilterStep \/ ExecutionStep
    BY <2>2, StagesPay
  <2>3. CASE UNCHANGED <<received, partial, signals, judging, opps, executing, submitted>>
    BY <2>3 DEF SignalsPaidFor, Made, Owed, Due
  <2>4. SnifferEnds \/ (\E m \in Mints : Expires(m)) \/ UNCHANGED vars
            => UNCHANGED <<received, partial, signals, judging, opps, executing, submitted>>
    BY DEF SnifferEnds, Expires, vars, sniffed, executed
  <2> QED
    BY <2>1, <2>2, <2>3, <2>4 DEF Next
<1>3. PipelineInd /\ SignalsPaidFor => TwiceAtMost
  <2> SUFFICES ASSUME PipelineInd, SignalsPaidFor, NEW p \in Packets
               PROVE  Count(submitted, p) <= Due(p)
    BY DEF TwiceAtMost
  <2>1. Count(submitted, p) + Made(p) + Owed(p) <= Due(p)
    BY DEF SignalsPaidFor
  <2>2. Count(submitted, p) \in Nat /\ Made(p) \in Nat /\ Owed(p) \in Nat /\ Due(p) \in Nat
    BY CountsNatural DEF PipelineInd, TypeOK, Made, Owed, Due
  <2> QED
    BY <2>1, <2>2
<1> QED
  BY <1>1, <1>2, <1>3, PipelineInvariance, PTL DEF Spec
=============================================================================
