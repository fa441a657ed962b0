----------------------------- MODULE ToolsProofs -----------------------------
(***************************************************************************)
(* The tools' properties, for any number of tasks, keys, accounts and      *)
(* processes and any limits.  Each has an inductive invariant in its       *)
(* module, that the property follows from.                                 *)
(***************************************************************************)
EXTENDS Strategy, CircuitBreaker, Confirmation, Sends, StateCache, KeyStore, Ledger,
        HealthServer, Orders, Desk, AccountCache, DataInduction, SequenceTheorems, TLAPS

-----------------------------------------------------------------------------
(* The circuit breaker *)

(* The breaker is open exactly while a threshold of failures has come in,  *)
(* and its time runs from the last of them (lifecycle.py lines 33-46).     *)
THEOREM OpensOnTime == BreakerSpec => []OpenSinceLastFailure
<1> USE BreakerAssumption DEF OpenSinceLastFailure, Closed, Upto
<1>1. BreakerInit => OpenSinceLastFailure
  BY DEF BreakerInit
<1>2. OpenSinceLastFailure /\ [BreakerNext]_breakerVars => OpenSinceLastFailure'
  <2> SUFFICES ASSUME OpenSinceLastFailure, [BreakerNext]_breakerVars
               PROVE  OpenSinceLastFailure'
    OBVIOUS
  <2>1. ASSUME NEW r \in Requests, Allowed(r) PROVE OpenSinceLastFailure'
    BY <2>1 DEF Allowed
  <2>2. ASSUME NEW r \in Requests, record_success(r) PROVE OpenSinceLastFailure'
    BY <2>2 DEF record_success
  <2>3. ASSUME NEW r \in Requests, record_failure(r) PROVE OpenSinceLastFailure'
    BY <2>3 DEF record_failure, Opened
  <2>4. CASE BreakerAges
    BY <2>4 DEF BreakerAges
  <2>5. CASE UNCHANGED breakerVars
    BY <2>5 DEF breakerVars
  <2> QED BY <2>1, <2>2, <2>3, <2>4, <2>5 DEF BreakerNext
<1> QED BY <1>1, <1>2, PTL DEF BreakerSpec

(* Nothing is sent within the recovery time of the last failure while the  *)
(* failures count up to the threshold, however late they come in.          *)
THEOREM BlocksWhileFailing == BreakerSpec => BreakerBlocks
<1> DEFINE Sent == \A r \in underway' \ underway : failures < Threshold \/ quiet >= Recovery
<1>1. OpenSinceLastFailure /\ [BreakerNext]_breakerVars => [Sent]_breakerVars
  <2> SUFFICES ASSUME OpenSinceLastFailure, BreakerNext
               PROVE  Sent
    BY DEF breakerVars
  <2> USE BreakerAssumption DEF OpenSinceLastFailure, Closed
  <2>1. ASSUME NEW r \in Requests, Allowed(r) PROVE Sent
    BY <2>1 DEF Allowed, allow_request, is_open
  <2>2. ASSUME NEW r \in Requests, record_success(r) \/ record_failure(r) PROVE Sent
    BY <2>2 DEF record_success, record_failure
  <2>3. CASE BreakerAges
    BY <2>3 DEF BreakerAges
  <2> QED BY <2>1, <2>2, <2>3 DEF BreakerNext
<1> QED BY <1>1, OpensOnTime, PTL DEF BreakerSpec, BreakerBlocks

-----------------------------------------------------------------------------
(* Confirmations *)

(* What a task waits for is in the table, and it sleeps only on an Event   *)
(* that is not set; an answer True, and any answer to a task that asked    *)
(* after the confirmation, is true.                                        *)
THEOREM ConfirmationsReach == ConfirmationSpec => [](WaitersKnown /\ ConfirmationsKept)
<1> DEFINE Inv == /\ waits \in [Tasks -> {"idle", "waiting", "woken", "true", "false"}]
                  /\ waitsFor \in [Tasks -> Signatures] /\ early \in [Tasks -> BOOLEAN]
                  /\ WaitersKnown /\ ConfirmationsKept
<1> USE DEF WaitersKnown, ConfirmationsKept
<1>1. ConfirmationInit => Inv
  BY DEF ConfirmationInit
<1>2. Inv /\ [ConfirmationNext]_confirmationVars => Inv'
  <2> SUFFICES ASSUME Inv, [ConfirmationNext]_confirmationVars PROVE Inv'
    OBVIOUS
  <2>1. ASSUME NEW t \in Tasks, Resumes(t) PROVE Inv'
    BY <2>1 DEF Resumes
  <2>2. ASSUME NEW t \in Tasks, TimesOut(t) PROVE Inv'
    BY <2>2 DEF TimesOut
  <2>3. ASSUME NEW t \in Tasks, Leaves(t) PROVE Inv'
    BY <2>3 DEF Leaves
  <2>4. ASSUME NEW t \in Tasks, NEW s \in Signatures, wait(t, s) PROVE Inv'
    BY <2>4 DEF wait
  <2>5. ASSUME NEW s \in Signatures, mark_confirmed(s) PROVE Inv'
    BY <2>5 DEF mark_confirmed
  <2>6. CASE UNCHANGED confirmationVars
    BY <2>6 DEF confirmationVars
  <2> QED BY <2>1, <2>2, <2>3, <2>4, <2>5, <2>6 DEF ConfirmationNext
<1>3. Inv => WaitersKnown /\ ConfirmationsKept
  OBVIOUS
<1> QED BY <1>1, <1>2, <1>3, PTL DEF ConfirmationSpec

-----------------------------------------------------------------------------
(* Sends *)

(* A tip is an integer between the base tip and, where there is a cap, the *)
(* greater of the two (tip_optimizer.py line 11).                          *)
LEMMA TipIsInteger ==
    ASSUME NEW r \in Runs
    PROVE  LET o == OpportunityOf[r] t == calculate_tip_lamports(o)
           IN t \in Int /\ t >= BaseTip /\ (Cap(o) > 0 => t <= BaseTip \/ t <= Cap(o))
<1> DEFINE o == OpportunityOf[r]
<1>1. Cap(o) \in Int
  BY SendsAssumption DEF Cap
<1>2. RawTip(o) \in Int
  <2>1. Larger(0, 50 - urgency_ms(o)) \in Int
    BY SendsAssumption DEF Larger, urgency_ms
  <2> QED BY <2>1, SendsAssumption DEF RawTip
<1> QED BY <1>1, <1>2, SendsAssumption DEF calculate_tip_lamports, Larger, Smaller

(* A run counts its attempts, and what is sent again was not accepted.     *)
THEOREM SendsOnce == SendSpec => [](SendsTyped /\ SentOnce)
<1> DEFINE Inv == SendsTyped /\ SentOnce
<1>1. SendInit => Inv
  <2> SUFFICES ASSUME SendInit PROVE Inv
    OBVIOUS
  <2>1. \A r \in Runs : phase[r] = "idle" /\ attempt[r] = 0 /\ accepted[r] = 0
    BY DEF SendInit
  <2>2. attempt \in [Runs -> 0..MaxRetries]
    BY SendsAssumption DEF SendInit
  <2>3. tip \in [Runs -> Int] /\ accepted \in [Runs -> 0..1]
    BY DEF SendInit
  <2>4. phase \in [Runs -> Phases] /\ closed \in BOOLEAN
    BY DEF SendInit, Phases
  <2> QED BY <2>1, <2>2, <2>3, <2>4 DEF SendsTyped, SentOnce
<1>2. Inv /\ [SendNext]_sendVars => Inv'
  <2> SUFFICES ASSUME Inv, [SendNext]_sendVars PROVE Inv'
    OBVIOUS
  <2> USE SendsAssumption DEF SendsTyped, SentOnce, Phases
  <2>1. ASSUME NEW r \in Runs, Posts(r) PROVE tip' \in [Runs -> Int]
    <3>1. KindOf[r] = "bundle" => calculate_tip_lamports(OpportunityOf[r]) \in Int
      BY TipIsInteger
    <3> QED BY <2>1, <3>1 DEF Posts
  <2>2. ASSUME NEW r \in Runs, RunBegins(r) PROVE Inv'
    BY <2>1, <2>2 DEF RunBegins, Posts
  <2>3. ASSUME NEW r \in Runs, Accepts(r) PROVE Inv'
    BY <2>3 DEF Accepts
  <2>4. ASSUME NEW r \in Runs, RunReturns(r) PROVE Inv'
    BY <2>4 DEF RunReturns
  <2>5. ASSUME NEW r \in Runs, RunRaises(r) PROVE Inv'
    BY <2>5 DEF RunRaises
  <2>6. ASSUME NEW r \in Runs, Retries(r) PROVE Inv'
    <3> DEFINE Spent == attempt[r] >= MaxRetries
    <3>1. attempt[r] \in 0..MaxRetries /\ accepted[r] = 0
      BY <2>6 DEF Retries
    <3>2. UNCHANGED <<attempt, tip, closed, accepted>>
      BY <2>6 DEF Retries
    <3>3. phase' = [phase EXCEPT ![r] = IF Spent THEN "exhausted" ELSE "sleeping"]
      BY <2>6 DEF Retries
    <3>4. (Spent => attempt[r] = MaxRetries) /\ (~Spent => attempt[r] < MaxRetries)
      BY <3>1
    <3> HIDE DEF Spent
    <3>5. CASE Spent
      <4>1. phase' = [phase EXCEPT ![r] = "exhausted"]
        BY <3>3, <3>5
      <4> QED BY <3>1, <3>2, <3>4, <3>5, <4>1
    <3>6. CASE ~Spent
      <4>1. phase' = [phase EXCEPT ![r] = "sleeping"]
        BY <3>3, <3>6
      <4> QED BY <3>1, <3>2, <3>4, <3>6, <4>1
    <3> QED BY <3>5, <3>6
  <2>7. ASSUME NEW r \in Runs, SendsAgain(r) PROVE Inv'
    <3>1. attempt' \in [Runs -> 0..MaxRetries] /\ tip' \in [Runs -> Int]
      BY <2>1, <2>7 DEF SendsAgain
    <3>2. phase[r] = "sleeping" /\ accepted[r] = 0 /\ UNCHANGED <<closed, accepted>>
      BY <2>7 DEF SendsAgain
    <3>3. \A q \in Runs \ {r} : phase'[q] = phase[q] /\ attempt'[q] = attempt[q]
      BY <2>7 DEF SendsAgain, Posts
    <3>4. phase' \in [Runs -> Phases] /\ phase'[r] \in {"posted", "refused"}
      BY <2>7 DEF SendsAgain, Posts
    <3> QED BY <3>1, <3>2, <3>3, <3>4
  <2>8. ASSUME NEW r \in Runs, RunCancelled(r) PROVE Inv'
    BY <2>8 DEF RunCancelled
  <2>9. ASSUME ClientsClose PROVE Inv'
    BY <2>9 DEF ClientsClose
  <2>10. CASE UNCHANGED sendVars
    BY <2>10 DEF sendVars
  <2> QED BY <2>2, <2>3, <2>4, <2>5, <2>6, <2>7, <2>8, <2>9, <2>10 DEF SendNext
<1> QED BY <1>1, <1>2, PTL DEF SendSpec

-----------------------------------------------------------------------------
(* The state cache *)

(* An entry is as old as its last insert; a lookup misses a fresh one only *)
(* if it replaced an expired one between the sweeper's locks.              *)
THEOREM FreshEntriesFound == StateSpec => [](EntriesDated /\ FreshKept)
<1> DEFINE Inv == /\ EntriesDated /\ expired \subseteq Accounts /\ raced \subseteq Accounts
                  /\ \A k \in Accounts : tier1[k] = NoEntry => inserted[k] = Old \/ k \in raced
<1> USE CacheAssumption DEF EntriesDated, FreshKept, NoEntry, Old, Found
<1>1. StateInit => Inv
  BY DEF StateInit
<1>2. Inv /\ [StateNext]_stateVars => Inv'
  <2> SUFFICES ASSUME Inv, [StateNext]_stateVars PROVE Inv'
    OBVIOUS
  <2>1. ASSUME NEW k \in Accounts, insert_hot(k) PROVE Inv'
    BY <2>1 DEF insert_hot
  <2>2. CASE Collects
    BY <2>2 DEF Collects
  <2>3. CASE Removes
    BY <2>3 DEF Removes
  <2>4. CASE EntriesAge
    BY <2>4 DEF EntriesAge
  <2>5. CASE UNCHANGED stateVars
    BY <2>5 DEF stateVars
  <2> QED BY <2>1, <2>2, <2>3, <2>4, <2>5 DEF StateNext
<1>3. Inv => EntriesDated /\ FreshKept
  OBVIOUS
<1> QED BY <1>1, <1>2, <1>3, PTL DEF StateSpec

-----------------------------------------------------------------------------
(* The key store *)

LEMMA StoresKnownInductive ==
    StoresKnown /\ [KeyNext]_keyVars => StoresKnown'
<1> SUFFICES ASSUME StoresKnown, [KeyNext]_keyVars PROVE StoresKnown'
  OBVIOUS
<1> USE KeyAssumption DEF StoresKnown, Writers, Texts, NoText, Empty, Whole, Reaches
<1>1. ASSUME NEW p \in Processes, NEW w \in Wallets, StoreOpens(p, w) PROVE StoresKnown'
  <2> DEFINE t == Sealed(p, w)
  <2>1. t \in Texts /\ t # NoText
    BY DEF Sealed
  <2>2. Writers' = Writers \cup {p}
    BY <1>1, <2>1 DEF StoreOpens, Begins
  <2>3. begun' \subseteq Texts /\ t \in begun' /\ (Writers # {} => begun \subseteq begun')
    BY <1>1, <2>1 DEF StoreOpens, Begins
  <2>4. writing' \in [Processes -> Texts \cup {NoText}] /\ writing'[p] = t
    BY <1>1, <2>1 DEF StoreOpens, Begins
  <2>5. ASSUME NEW q \in Writers' PROVE writing'[q] \in begun'
    BY <1>1, <2>1, <2>2, <2>3, <2>4, <2>5 DEF StoreOpens, Begins
  <2>6. clean' => Writers' = {p}
    BY <1>1, <2>2 DEF StoreOpens, Begins
  <2>7. file' = Empty /\ last' = t
    BY <1>1 DEF StoreOpens, Begins
  <2> HIDE DEF t
  <2> QED BY <2>1, <2>2, <2>3, <2>4, <2>5, <2>6, <2>7
<1>2. ASSUME NEW p \in Processes, StoreWrites(p) PROVE StoresKnown'
  <2> DEFINE t == writing[p]
  <2>1. t \in begun /\ t \in Texts /\ LengthOf[t.wallet] \in Nat
    BY <1>2 DEF StoreWrites
  <2>2. file' \in [text : Texts \cup {NoText}, length : Nat] /\ file'.text = t
    BY <1>2, <2>1 DEF StoreWrites
  <2>3. Writers' = Writers \ {p}
    BY <1>2 DEF StoreWrites
  <2>4. ASSUME clean' PROVE Writers' = {} /\ file' = Whole(last')
    BY <1>2, <2>1, <2>3, <2>4 DEF StoreWrites
  <2> QED BY <1>2, <2>1, <2>2, <2>3, <2>4 DEF StoreWrites
<1>3. ASSUME NEW p \in Processes, Dies(p) PROVE StoresKnown'
  BY <1>3 DEF Dies
<1>4. CASE UNCHANGED keyVars
  BY <1>4 DEF keyVars
<1> QED BY <1>1, <1>2, <1>3, <1>4 DEF KeyNext

(* A store that is alone is loaded from its end on, and an older wallet    *)
(* never after its beginning (key_manager.py lines 21-33).                 *)
THEOREM StoreIsLoaded == KeySpec => []WalletKept
<1>1. KeyInit => StoresKnown
  BY KeyAssumption DEF KeyInit, StoresKnown, Writers, Texts, NoText, Empty
<1>2. StoresKnown => WalletKept
  <2> SUFFICES ASSUME StoresKnown, NEW p \in Processes, NEW w \in Wallets
               PROVE  /\ clean /\ Writers = {} => (Loads(p, w) <=> Sealed(p, w) = last)
                      /\ Loads(p, w) => Sealed(p, w) \in begun
                      /\ clean /\ Writers # {} => ~Loads(p, w)
    BY DEF WalletKept
  <2> USE KeyAssumption DEF StoresKnown, Loads, Whole, Empty, NoText, Sealed
  <2>1. clean /\ Writers = {} => (Loads(p, w) <=> Sealed(p, w) = last)
    OBVIOUS
  <2>2. Loads(p, w) => Sealed(p, w) \in begun
    OBVIOUS
  <2>3. clean /\ Writers # {} => ~Loads(p, w)
    OBVIOUS
  <2> QED BY <2>1, <2>2, <2>3
<1> QED BY <1>1, <1>2, StoresKnownInductive, PTL DEF KeySpec

-----------------------------------------------------------------------------
(* The strategy *)

(* What the parser makes of a notification names a mint and fails a layer. *)
LEMMA LogsFail ==
    ASSUME NEW o \in FromLogs
    PROVE  o.token_mint \in Keys /\ ~Layers(o)
<1>1. PICK m \in Notifications : o = Parsed(m)
  BY DEF FromLogs
<1>2. "supply" \notin DOMAIN o
  BY <1>1 DEF Parsed
<1>3. ~validate_tokenomics(o)
  BY <1>2 DEF validate_tokenomics, Number
<1>4. o.token_mint \in Keys
  BY <1>1, StrategyAssumption DEF Parsed
<1> QED BY <1>3, <1>4 DEF Layers

(* The features in the cache, the model that is loaded, and the answer.    *)
ModelKnown ==
    session # NoModel => session \in Good \cup Unfit /\ (path = session \/ path \in Broken \cup Missing)
Listings == Offers \cup FromLogs
Features == [of : Listings \cup {NoListing}, age : 0..(FeatureTtl + 1)]
StrategyInd ==
    /\ features \in [Keys -> Features]
    /\ ModelKnown /\ FeaturesPassed /\ CandidatesEarned

LEMMA ExtractedPassed ==
    ASSUME StrategyInd, NEW o \in Listings, Layers(o)
    PROVE  LET f == Extracted(o)
           IN /\ f \in Features /\ f.age <= FeatureTtl
              /\ Layers(f.of) /\ f.of.token_mint = o.token_mint
<1>1. o.token_mint \in Keys
  BY LogsFail, StrategyAssumption DEF Listings
<1>2. CASE features[o.token_mint].age <= FeatureTtl
  BY <1>1, <1>2 DEF StrategyInd, FeaturesPassed, Extracted
<1>3. CASE ~(features[o.token_mint].age <= FeatureTtl)
  BY <1>1, <1>3, StrategyAssumption DEF Extracted, Features
<1> QED BY <1>2, <1>3

LEMMA StrategyInduction ==
    StrategyInd /\ [StrategyNext]_strategyVars => StrategyInd'
<1> SUFFICES ASSUME StrategyInd, [StrategyNext]_strategyVars PROVE StrategyInd'
  OBVIOUS
<1>1. ASSUME NEW o \in Listings, Evaluate(o) PROVE StrategyInd'
  <2>1. CASE ~Layers(o) /\ UNCHANGED features /\ answer' = NoCandidate
    BY <1>1, <2>1 DEF Evaluate, StrategyInd, ModelKnown, FeaturesPassed, CandidatesEarned
  <2>2. CASE Layers(o) /\ features' = [features EXCEPT ![o.token_mint] = Extracted(o)]
    <3> DEFINE f == Extracted(o)
    <3>1. f \in Features /\ f.age <= FeatureTtl /\ Layers(f.of) /\ f.of.token_mint = o.token_mint
      BY <2>2, ExtractedPassed
    <3>2. o.token_mint \in Keys
      BY LogsFail, StrategyAssumption DEF Listings
    <3>3. features' \in [Keys -> Features] /\ FeaturesPassed'
      BY <2>2, <3>1, <3>2 DEF StrategyInd, FeaturesPassed
    <3>4. UNCHANGED <<path, session>> /\ ModelKnown'
      BY <1>1 DEF Evaluate, StrategyInd, ModelKnown
    <3>5. answer' = NoCandidate \/ (MayPass(f.of) /\ answer' = Candidate(o, f))
      BY <1>1, <2>2 DEF Evaluate
    <3>6. CandidatesEarned'
      <4>1. CASE answer' = NoCandidate
        BY <4>1 DEF CandidatesEarned
      <4>2. CASE MayPass(f.of) /\ answer' = Candidate(o, f)
        BY <4>2, <2>2, <3>1, <3>4 DEF CandidatesEarned, Candidate, MayPass, StrategyInd, ModelKnown
      <4> QED BY <3>5, <4>1, <4>2
    <3> QED BY <3>3, <3>4, <3>6 DEF StrategyInd
  <2> QED BY <1>1, <2>1, <2>2 DEF Evaluate
<1>2. ASSUME NEW p \in Paths, Reload(p) PROVE StrategyInd'
  <2>1. ModelKnown'
    BY <1>2 DEF Reload, Paths, StrategyInd, ModelKnown
  <2>2. FeaturesPassed' /\ CandidatesEarned' /\ features' = features
    BY <1>2 DEF Reload, StrategyInd, FeaturesPassed, CandidatesEarned
  <2> QED BY <2>1, <2>2 DEF StrategyInd
<1>3. CASE FeaturesAge
  <2>1. ASSUME NEW k \in Keys
        PROVE  /\ features'[k] \in Features /\ features'[k].of = features[k].of
               /\ features'[k].age <= FeatureTtl => features[k].age <= FeatureTtl
    BY <1>3, StrategyAssumption DEF FeaturesAge, StrategyInd, Features, Least
  <2>2. features' \in [Keys -> Features]
    BY <1>3, <2>1 DEF FeaturesAge
  <2>3. ModelKnown' /\ CandidatesEarned'
    BY <1>3 DEF FeaturesAge, StrategyInd, ModelKnown, CandidatesEarned
  <2>4. FeaturesPassed'
    BY <2>1 DEF StrategyInd, FeaturesPassed
  <2> QED BY <2>2, <2>3, <2>4 DEF StrategyInd
<1>4. CASE UNCHANGED strategyVars
  BY <1>4 DEF StrategyInd, ModelKnown, FeaturesPassed, CandidatesEarned, strategyVars
<1> QED BY <1>1, <1>2, <1>3, <1>4 DEF StrategyNext, Listings

LEMMA StrategyInvariance == StrategySpec => []StrategyInd
<1>1. StrategyInit => StrategyInd
  BY StrategyAssumption DEF StrategyInit, StrategyInd, ModelKnown, FeaturesPassed,
     CandidatesEarned, Features, NoFeatures
<1> QED BY <1>1, StrategyInduction, PTL DEF StrategySpec

(* A candidate has passed the layers, and was scored by features that did, *)
(* of its own mint and in their time (htf_sniper.py lines 26-47); nothing  *)
(* the websocket's parser makes is ever confirmed or scored.               *)
THEOREM CandidatesAreEarned == StrategySpec => []ConfirmedRight
<1>1. CandidatesEarned => LogsNeverConfirm
  <2>1. NoListing \notin FromLogs
    BY LogsFail, StrategyAssumption DEF NoListing
  <2>2. CASE answer = NoCandidate
    BY <2>1, <2>2 DEF NoCandidate, LogsNeverConfirm
  <2>3. ASSUME CandidatesEarned, answer # NoCandidate PROVE LogsNeverConfirm
    BY <2>3, LogsFail DEF CandidatesEarned, LogsNeverConfirm
  <2> QED BY <2>2, <2>3
<1>2. StrategyInd => ConfirmedRight
  BY <1>1 DEF StrategyInd, ConfirmedRight
<1> QED BY <1>2, StrategyInvariance, PTL

-----------------------------------------------------------------------------
(* The ledger *)

(* A row has what its insert was given; what is in a transaction is valid; *)
(* what init_db() has run through is there.                                *)
Kept(x) == /\ \A k \in Inserted : x.row[k] = TradeOf[x.by][k]
           /\ \A k \in Required : x.row[k] # Null

Cells == {TradeOf[c][k] : c \in Inserts, k \in Inserted} \cup Nat \cup {"now", Null}
Records == [by : Inserts, row : [Columns -> Cells]]

(* Rows say what was reported of their inserts, each at its id.            *)
LedgerInd ==
    /\ inserts \in [Inserts -> {"new", "executed", "raised", "returned", "cut"}]
    /\ rows \in Seq(Records)
    /\ \A i \in DOMAIN rows : Kept(rows[i]) /\ rows[i].row["id"] = i
    /\ \A c \in Inserts :
          /\ inserts[c] = "returned" => \E i \in DOMAIN rows : rows[i].by = c
          /\ inserts[c] \in {"new", "executed", "raised"} => \A i \in DOMAIN rows : rows[i].by # c
          /\ inserts[c] = "executed" => Valid(c)
    /\ \A i, j \in DOMAIN rows : rows[i].by = rows[j].by => i = j
    /\ ran \in [Setups -> 0..3]
    /\ \A s \in Setups, i \in 1..3 : i <= ran[s] => Tables[i] \in tables

(* A valid insert's row is one of the ledger's, with the next id.          *)
LEMMA StoredRow ==
    ASSUME NEW c \in Inserts, LedgerInd, Valid(c)
    PROVE  LET x == [by |-> c, row |-> Row(c)] IN
           /\ x \in Records /\ Kept(x) /\ x.row["id"] = Len(rows) + 1
<1>1. Len(rows) + 1 \in Nat
  BY DEF LedgerInd
<1>2. \A k \in Inserted : TradeOf[c][k] \in Cells
  BY DEF Cells
<1>3. Row(c) \in [Columns -> Cells]
  <2>1. Len(rows) + 1 \in Cells /\ "now" \in Cells /\ Null \in Cells
    BY <1>1 DEF Cells
  <2>2. \A k \in Columns :
           (IF k = "id" THEN Len(rows) + 1 ELSE IF k = "created_at" THEN "now"
            ELSE IF k \in Inserted THEN TradeOf[c][k] ELSE Null) \in Cells
    BY <1>2, <2>1
  <2> QED BY <2>2 DEF Row
<1>4. Row(c)["id"] = Len(rows) + 1
  BY DEF Row, Columns
<1>5. \A k \in Inserted : Row(c)[k] = TradeOf[c][k]
  BY DEF Row, Columns, Inserted
<1>6. Required \subseteq Inserted /\ \A k \in Required : TradeOf[c][k] # Null
  BY DEF Required, Inserted, Valid
<1>7. \A k \in Required : Row(c)[k] # Null
  BY <1>5, <1>6
<1> QED BY <1>3, <1>4, <1>5, <1>7 DEF Kept, Records

(* A commit, whether its caller hears of it or not, adds one row.          *)
LEMMA CommitKeeps ==
    ASSUME LedgerInd, NEW c \in Inserts, inserts[c] = "executed", NEW how \in {"returned", "cut"},
           inserts' = [inserts EXCEPT ![c] = how], rows' = Stored(c), UNCHANGED <<tables, ran>>
    PROVE  LedgerInd'
<1> DEFINE x == [by |-> c, row |-> Row(c)]
<1>1. x \in Records /\ Kept(x) /\ x.row["id"] = Len(rows) + 1 /\ x.by = c
  <2>1. Valid(c)
    BY DEF LedgerInd
  <2> QED BY <2>1, StoredRow
<1>2. rows \in Seq(Records) /\ rows' = Append(rows, x)
  BY DEF LedgerInd, Stored
<1> HIDE DEF x
<1>3. /\ rows' \in Seq(Records) /\ Len(rows') = Len(rows) + 1 /\ rows'[Len(rows) + 1] = x
      /\ DOMAIN rows = 1..Len(rows) /\ DOMAIN rows' = 1..(Len(rows) + 1) /\ Len(rows) \in Nat
      /\ \A i \in DOMAIN rows : rows'[i] = rows[i]
  BY <1>1, <1>2
<1>4. \A i \in DOMAIN rows' : i \in DOMAIN rows \/ (i = Len(rows) + 1 /\ rows'[i] = x)
  BY <1>3
<1>5. \A i \in DOMAIN rows' : Kept(rows'[i]) /\ rows'[i].row["id"] = i
  BY <1>1, <1>3, <1>4 DEF LedgerInd
<1>6. \A d \in Inserts : /\ inserts'[d] = "returned" => \E i \in DOMAIN rows' : rows'[i].by = d
                         /\ inserts'[d] \in {"new", "executed", "raised"} =>
                               \A i \in DOMAIN rows' : rows'[i].by # d
                         /\ inserts'[d] = "executed" => Valid(d)
  <2> SUFFICES ASSUME NEW d \in Inserts
               PROVE  /\ inserts'[d] = "returned" => \E i \in DOMAIN rows' : rows'[i].by = d
                      /\ inserts'[d] \in {"new", "executed", "raised"} =>
                            \A i \in DOMAIN rows' : rows'[i].by # d
                      /\ inserts'[d] = "executed" => Valid(d)
    OBVIOUS
  <2>1. CASE d = c
    BY <2>1, <1>1, <1>3 DEF LedgerInd
  <2>2. CASE d # c
    <3>1. inserts'[d] = inserts[d]
      BY <2>2 DEF LedgerInd
    <3> QED BY <2>2, <3>1, <1>1, <1>3, <1>4 DEF LedgerInd
  <2> QED BY <2>1, <2>2
<1>7. \A i, j \in DOMAIN rows' : rows'[i].by = rows'[j].by => i = j
  <2>1. \A i \in DOMAIN rows : rows[i].by # c
    BY DEF LedgerInd
  <2> QED BY <2>1, <1>1, <1>3, <1>4 DEF LedgerInd
<1>8. inserts' \in [Inserts -> {"new", "executed", "raised", "returned", "cut"}]
  BY DEF LedgerInd
<1> QED BY <1>3, <1>5, <1>6, <1>7, <1>8 DEF LedgerInd, Kept, Valid

(* What was reported of an insert is what is in the ledger (trades.py      *)
(* lines 14-18).                                                           *)
THEOREM LedgerIsExact == LedgerSpec => []LedgerExact
<1>1. LedgerInit => LedgerInd
  BY DEF LedgerInit, LedgerInd
<1>2. LedgerInd /\ [LedgerNext]_ledgerVars => LedgerInd'
  <2> SUFFICES ASSUME LedgerInd, [LedgerNext]_ledgerVars PROVE LedgerInd'
    OBVIOUS
  <2>1. ASSUME NEW s \in Setups, init_db(s) PROVE LedgerInd'
    <3>1. /\ ran[s] \in 0..2 /\ ran' = [ran EXCEPT ![s] = ran[s] + 1]
          /\ UNCHANGED <<rows, inserts>> /\ tables' = tables \cup {Tables[ran[s] + 1]}
      BY <2>1 DEF init_db, LedgerInd, Tables
    <3>2. ran' \in [Setups -> 0..3]
      BY <3>1 DEF LedgerInd
    <3>3. \A t \in Setups, i \in 1..3 : i <= ran'[t] => Tables[i] \in tables'
      BY <3>1 DEF LedgerInd
    <3> QED BY <3>1, <3>2, <3>3 DEF LedgerInd, Kept, Valid
  <2>2. ASSUME NEW c \in Inserts, Executes(c) PROVE LedgerInd'
    BY <2>2 DEF Executes, LedgerInd, Kept, Valid
  <2>3. ASSUME NEW c \in Inserts, ExecuteFails(c) PROVE LedgerInd'
    BY <2>3 DEF ExecuteFails, LedgerInd, Kept, Valid
  <2>4. ASSUME NEW c \in Inserts, Commits(c) PROVE LedgerInd'
    BY <2>4, CommitKeeps DEF Commits
  <2>5. ASSUME NEW c \in Inserts, CutShort(c) PROVE LedgerInd'
    <3>1. CASE rows' = Stored(c)
      BY <2>5, <3>1, CommitKeeps DEF CutShort
    <3>2. CASE rows' = rows
      BY <2>5, <3>2 DEF CutShort, LedgerInd, Kept, Valid
    <3> QED BY <2>5, <3>1, <3>2 DEF CutShort
  <2>6. CASE UNCHANGED ledgerVars
    BY <2>6 DEF ledgerVars, LedgerInd, Kept, Valid
  <2> QED BY <2>1, <2>2, <2>3, <2>4, <2>5, <2>6 DEF LedgerNext
<1>3. LedgerInd => LedgerExact
  <2> SUFFICES ASSUME LedgerInd PROVE LedgerExact
    OBVIOUS
  <2>1. ASSUME NEW c \in Inserts
        PROVE  /\ inserts[c] = "returned" => RowsOf(c) # {}
               /\ inserts[c] \in {"new", "executed", "raised"} => RowsOf(c) = {}
               /\ \A i, j \in RowsOf(c) : i = j
    BY DEF LedgerInd, RowsOf
  <2>2. \A i \in DOMAIN rows : /\ rows[i].row["id"] = i
                               /\ \A k \in Required : rows[i].row[k] # Null
                               /\ \A k \in Inserted : rows[i].row[k] = TradeOf[rows[i].by][k]
    BY DEF LedgerInd, Kept
  <2>3. Len(Tables) = 3 /\ DOMAIN Tables = 1..3
    BY DEF Tables
  <2>4. \A s \in Setups : ran[s] = Len(Tables) => \A i \in DOMAIN Tables : Tables[i] \in tables
    BY <2>3 DEF LedgerInd
  <2> QED BY <2>1, <2>2, <2>4 DEF LedgerExact
<1> QED BY <1>1, <1>2, <1>3, PTL DEF LedgerSpec

-----------------------------------------------------------------------------
(* The health server *)

(* Until a stop() has begun the site is as start() left it; one that began *)
(* when start() was done has closed the port.                              *)
HealthInd ==
    /\ listens \in BOOLEAN /\ overtaken \in BOOLEAN
    /\ stops \in [HealthStops -> {"idle", "cleanup", "done"}]
    /\ reply \in [status : {0, 503}, late : BOOLEAN]
    /\ start # "new" => runner # "none"
    /\ reply.late => overtaken
    /\ ~overtaken =>
          \/ /\ \A s \in HealthStops : stops[s] = "idle"
             /\ start \in {"binding", "bound"} => site = "registered"
             /\ start = "done" => site = "serving"
          \/ start = "done" /\ ~listens

(* A stop() frees the port, unless it has overtaken start() (health.py     *)
(* lines 15-27).                                                           *)
THEOREM PortIsFreed == HealthSpec => []PortFreed
<1>1. HealthInit => HealthInd
  <2> SUFFICES ASSUME HealthInit PROVE HealthInd
    OBVIOUS
  <2>1. reply \in [status : {0, 503}, late : BOOLEAN] /\ ~reply.late
    BY DEF HealthInit, NoAnswer
  <2>2. stops \in [HealthStops -> {"idle", "cleanup", "done"}]
    BY DEF HealthInit
  <2>3. /\ start = "new" /\ listens = FALSE /\ overtaken = FALSE
        /\ \A s \in HealthStops : stops[s] = "idle"
    BY DEF HealthInit
  <2> QED BY <2>1, <2>2, <2>3 DEF HealthInd
<1>2. HealthInd /\ [HealthNext]_healthVars => HealthInd'
  <2> SUFFICES ASSUME HealthInd, [HealthNext]_healthVars PROVE HealthInd'
    OBVIOUS
  <2> USE DEF HealthInd
  <2>1. CASE HealthStarts
    BY <2>1 DEF HealthStarts
  <2>2. CASE Binds
    BY <2>2 DEF Binds
  <2>3. CASE HealthStarted
    BY <2>3 DEF HealthStarted
  <2>4. ASSUME NEW s \in HealthStops, HealthStop(s) PROVE HealthInd'
    <3>1. stops' \in [HealthStops -> {"idle", "cleanup", "done"}]
      BY <2>4 DEF HealthStop
    <3>2. overtaken' \in BOOLEAN /\ (overtaken' <=> overtaken \/ start # "done")
      BY <2>4 DEF HealthStop, Overtakes
    <3>3. UNCHANGED <<runner, start, reply>> /\ listens' \in BOOLEAN
      BY <2>4 DEF HealthStop
    <3>4. ~overtaken' => ~listens'
      BY <2>4, <3>2 DEF HealthStop
    <3> QED BY <3>1, <3>2, <3>3, <3>4
  <2>5. ASSUME NEW s \in HealthStops, HealthStopped(s) PROVE HealthInd'
    BY <2>5 DEF HealthStopped
  <2>6. CASE _handle
    <3>1. ~healthy
      BY DEF healthy, status
    <3>2. Stopped => overtaken
      BY <2>6 DEF _handle, Stopped
    <3>3. reply' = [status |-> 503, late |-> Stopped]
      BY <2>6, <3>1 DEF _handle
    <3>4. Stopped \in BOOLEAN
      BY DEF Stopped
    <3> HIDE DEF HealthInd
    <3>5. reply' \in [status : {0, 503}, late : BOOLEAN] /\ (reply'.late => overtaken)
      BY <3>2, <3>3, <3>4
    <3> QED BY <2>6, <3>5 DEF _handle, HealthInd
  <2>7. CASE UNCHANGED healthVars
    BY <2>7 DEF healthVars
  <2> QED BY <2>1, <2>2, <2>3, <2>4, <2>5, <2>6, <2>7 DEF HealthNext
<1>3. HealthInd => PortFreed
  BY DEF HealthInd, PortFreed, Stopped
<1> QED BY <1>1, <1>2, <1>3, PTL DEF HealthSpec

-----------------------------------------------------------------------------
(* Orders, wallets and nonces *)

(* What the history and the orders are made of.                            *)
OrderRecords == [id : OrderIds, wallet : WalletSet, nonce : Nat,
                 ends : {"underway", "confirmed", "failed"}, before : SUBSET Nat]
OrderStates == [state : {"none", "pending", "submitted", "confirmed", "failed"}, signature : Nat]

OrdersTyped ==
    /\ history \in Seq(OrderRecords) /\ turn = Len(history)
    /\ nonces \in [WalletSet -> Nat] /\ orders \in [OrderIds -> OrderStates]

(* The wallets' turns.                                                     *)
TurnsTaken ==
    \A i \in DOMAIN history : history[i].wallet = WalletList[((i - 1) % Len(WalletList)) + 1]

(* No order is ahead of its wallet, and what is confirmed is behind it.    *)
NoncesBehind ==
    \A i \in DOMAIN history :
        /\ history[i].nonce <= nonces[history[i].wallet]
        /\ history[i].ends = "confirmed" /\ history[i].nonce # NoNonce =>
               history[i].nonce < nonces[history[i].wallet]

(* A nonce that is shared was taken before either order was confirmed.     *)
NoncesUsed ==
    \A i, j \in DOMAIN history :
        i < j /\ history[i].wallet = history[j].wallet /\ history[i].nonce = history[j].nonce
        /\ history[i].nonce # NoNonce =>
            /\ i \notin history[j].before
            /\ ~(history[i].ends = "confirmed" /\ history[j].ends = "confirmed")

(* An id names its latest order, which alone may be under way.             *)
Latest(i) == \A j \in DOMAIN history : history[j].id = history[i].id => j <= i

IdsNameLatest ==
    \A i \in DOMAIN history :
        /\ history[i].ends = "underway" => Latest(i)
        /\ Latest(i) /\ orders[history[i].id].state \in {"submitted", "confirmed"} =>
               orders[history[i].id].signature = i

OrdersInd == OrdersTyped /\ TurnsTaken /\ NoncesBehind /\ NoncesUsed /\ IdsNameLatest

(* Two numbers with the same remainder are whole rounds apart.             *)
LEMMA WholeRounds ==
    ASSUME NEW a \in Nat, NEW b \in Nat, a < b, NEW n \in Nat \ {0}, a % n = b % n
    PROVE  (b - a) % n = 0
<1>1. \A x \in Nat : x = n * (x \div n) + (x % n)
  BY SMTT(30)
<1>2. b - a = n * ((b \div n) - (a \div n))
  BY <1>1, SMT
<1>3. (b \div n) - (a \div n) \in Int
  BY SMT
<1>4. \A k \in Int : (n * k) % n = 0
  BY SMTT(30)
<1> QED BY <1>2, <1>3, <1>4

(* It is always some wallet's turn.                                        *)
LEMMA SomeTurn ==
    ASSUME NEW k \in Nat
    PROVE  (k % Len(WalletList)) + 1 \in DOMAIN WalletList
<1>1. Len(WalletList) \in Nat \ {0} /\ DOMAIN WalletList = 1..Len(WalletList)
  BY OrdersAssumption
<1>2. k % Len(WalletList) \in 0..(Len(WalletList) - 1)
  BY <1>1
<1> QED BY <1>1, <1>2

(* A new order comes with its wallet's nonce, ahead of all that is used.   *)
LEMMA CreateKeeps ==
    ASSUME OrdersInd, NEW o \in OrderIds, Creates(o)
    PROVE  OrdersInd'
<1> DEFINE x == [id |-> o, wallet |-> next_wallet, nonce |-> get_nonce(next_wallet),
                 ends |-> "underway",
                 before |-> {i \in DOMAIN history : history[i].ends = "confirmed"}]
           n == Len(history)
<1>1. n \in Nat /\ DOMAIN history = 1..n /\ \A i \in 1..n : history[i] \in OrderRecords
  BY DEF OrdersInd, OrdersTyped
<1>2. next_wallet \in WalletSet /\ next_wallet = WalletList[(n % Len(WalletList)) + 1]
  BY <1>1, SomeTurn DEF next_wallet, WalletSet, OrdersInd, OrdersTyped
<1>3. x.before \subseteq Nat
  BY <1>1
<1>4. get_nonce(next_wallet) \in Nat
  BY <1>2 DEF get_nonce, OrdersInd, OrdersTyped
<1>5. x \in OrderRecords
  BY <1>2, <1>3, <1>4 DEF OrderRecords
<1>6. /\ x.id = o /\ x.wallet = next_wallet /\ x.nonce = nonces[next_wallet] /\ x.ends = "underway"
      /\ x.before = {i \in DOMAIN history : history[i].ends = "confirmed"}
  BY DEF get_nonce
<1>7. /\ history' = Append(history, x) /\ turn' = turn + 1 /\ UNCHANGED nonces
      /\ orders' = [orders EXCEPT ![o] = [state |-> "pending", signature |-> 0]]
      /\ \A i \in DOMAIN history : history[i].ends = "underway" => history[i].id # o
  BY DEF Creates, create, Underway
<1> HIDE DEF x, n
<1>8. /\ history' \in Seq(OrderRecords) /\ Len(history') = n + 1 /\ DOMAIN history' = 1..(n + 1)
      /\ history'[n + 1] = x /\ \A i \in 1..n : history'[i] = history[i]
  BY <1>1, <1>5, <1>7 DEF OrdersInd, OrdersTyped, n
<1>9. OrdersTyped'
  <2>1. orders' \in [OrderIds -> OrderStates]
    BY <1>7 DEF OrdersInd, OrdersTyped, OrderStates
  <2> QED BY <1>1, <1>7, <1>8, <2>1 DEF OrdersInd, OrdersTyped, n
<1>10. TurnsTaken'
  <2>1. (n + 1) - 1 = n
    BY <1>1
  <2> QED BY <1>1, <1>2, <1>6, <1>8, <2>1 DEF OrdersInd, TurnsTaken
<1>11. NoncesBehind'
  BY <1>1, <1>2, <1>4, <1>6, <1>7, <1>8 DEF OrdersInd, NoncesBehind, get_nonce
<1>12. NoncesUsed'
  <2> SUFFICES ASSUME NEW i \in 1..(n + 1), NEW j \in 1..(n + 1), i < j,
                      history'[i].wallet = history'[j].wallet,
                      history'[i].nonce = history'[j].nonce, history'[i].nonce # NoNonce
               PROVE  /\ i \notin history'[j].before
                      /\ ~(history'[i].ends = "confirmed" /\ history'[j].ends = "confirmed")
    BY <1>8 DEF NoncesUsed
  <2>1. i \in 1..n /\ history'[i] = history[i]
    BY <1>1, <1>8
  <2>2. CASE j = n + 1
    <3>1. history[i].wallet = next_wallet /\ history[i].nonce = nonces[history[i].wallet]
      BY <2>1, <2>2, <1>6, <1>8
    <3>2. history[i].ends # "confirmed"
      <4>1. history[i].nonce \in Nat
        BY <2>1, <1>1 DEF OrderRecords
      <4> QED BY <2>1, <3>1, <4>1, <1>1 DEF OrdersInd, NoncesBehind
    <3> QED BY <2>1, <2>2, <3>2, <1>6, <1>8
  <2>3. CASE j \in 1..n
    BY <2>1, <2>3, <1>1, <1>8 DEF OrdersInd, NoncesUsed
  <2> QED BY <2>2, <2>3, <1>1
<1>13. IdsNameLatest'
  <2> SUFFICES ASSUME NEW i \in 1..(n + 1)
               PROVE  /\ history'[i].ends = "underway" => Latest(i)'
                      /\ Latest(i)' /\ orders'[history'[i].id].state \in {"submitted", "confirmed"} =>
                             orders'[history'[i].id].signature = i
    BY <1>8 DEF IdsNameLatest
  <2>1. orders'[o].state = "pending" /\ \A q \in OrderIds \ {o} : orders'[q] = orders[q]
    BY <1>7 DEF OrdersInd, OrdersTyped
  <2>2. CASE i = n + 1
    <3>1. Latest(i)'
      BY <2>2, <1>1, <1>8 DEF Latest
    <3> QED BY <2>1, <2>2, <3>1, <1>6, <1>8
  <2>3. CASE i \in 1..n
    <3>1. history'[i] = history[i] /\ history[i].id \in OrderIds
      BY <2>3, <1>1, <1>8 DEF OrderRecords
    <3>2. Latest(i)' => Latest(i) /\ history[i].id # o
      BY <2>3, <3>1, <1>1, <1>6, <1>8 DEF Latest
    <3>3. Latest(i) /\ history[i].id # o => Latest(i)'
      BY <2>3, <3>1, <1>1, <1>6, <1>8 DEF Latest
    <3>4. /\ history[i].ends = "underway" => Latest(i)
          /\ Latest(i) /\ orders[history[i].id].state \in {"submitted", "confirmed"} =>
                 orders[history[i].id].signature = i
      BY <2>3, <1>1 DEF OrdersInd, IdsNameLatest
    <3>5. history[i].ends = "underway" => history[i].id # o
      BY <2>3, <1>1, <1>7
    <3> QED BY <2>1, <3>1, <3>2, <3>3, <3>4, <3>5
  <2> QED BY <2>2, <2>3, <1>1
<1> QED BY <1>9, <1>10, <1>11, <1>12, <1>13 DEF OrdersInd

(* A transition of an order under way settles it or not, and keeps what it *)
(* was created with.                                                       *)
LEMMA SettleKeeps ==
    ASSUME OrdersInd, NEW i \in Underway, NEW how \in {"underway", "confirmed", "failed"},
           NEW state \in {"submitted", "confirmed", "failed"}, NEW signature \in {0, i},
           state = "submitted" => signature = i,
           state = "confirmed" => orders[history[i].id].state = "submitted",
           transition(history[i].id, state, signature), Settles(i, how), UNCHANGED turn,
           how # "confirmed" => UNCHANGED nonces,
           how = "confirmed" =>
               \/ history[i].nonce = NoNonce /\ UNCHANGED nonces
               \/ /\ history[i].nonce # NoNonce /\ history[i].nonce = nonces[history[i].wallet]
                  /\ nonces' = [nonces EXCEPT ![history[i].wallet] = history[i].nonce + 1]
    PROVE  OrdersInd'
<1> DEFINE n == Len(history)
           w == history[i].wallet
           o == history[i].id
<1>1. /\ n \in Nat /\ DOMAIN history = 1..n /\ \A k \in 1..n : history[k] \in OrderRecords
      /\ i \in 1..n /\ history[i].ends = "underway"
  BY DEF OrdersInd, OrdersTyped, Underway
<1>2. /\ history' = [history EXCEPT ![i].ends = how]
      /\ \A k \in 1..n \ {i} : history'[k] = history[k]
  BY <1>1 DEF Settles
<1>3. /\ history'[i].ends = how /\ history'[i].id = o /\ history'[i].wallet = w
      /\ history'[i].nonce = history[i].nonce /\ history'[i].before = history[i].before
      /\ history'[i] \in OrderRecords
  BY <1>1, <1>2 DEF OrderRecords
<1>4. /\ history' \in Seq(OrderRecords) /\ Len(history') = n /\ DOMAIN history' = 1..n
  <2>1. history' = [history EXCEPT ![i] = history'[i]]
    BY <1>1, <1>2
  <2>2. history \in Seq(OrderRecords)
    BY DEF OrdersInd, OrdersTyped
  <2>3. history' \in Seq(OrderRecords) /\ Len(history') = n
    BY <1>1, <1>3, <2>1, <2>2, ExceptSeq
  <2> QED BY <1>1, <2>3
<1>5. \A k \in 1..n : /\ history'[k].id = history[k].id /\ history'[k].wallet = history[k].wallet
                      /\ history'[k].nonce = history[k].nonce /\ history'[k].before = history[k].before
                      /\ k # i => history'[k].ends = history[k].ends
                      /\ history[k].id \in OrderIds /\ history[k].wallet \in WalletSet
                      /\ history[k].nonce \in Nat
  BY <1>1, <1>2, <1>3 DEF OrderRecords
<1>6. /\ orders' \in [OrderIds -> OrderStates] /\ orders'[o].state = state
      /\ orders'[o].signature = (IF signature # 0 THEN signature ELSE orders[o].signature)
      /\ \A q \in OrderIds \ {o} : orders'[q] = orders[q]
  <2>1. orders[o] \in OrderStates /\ o \in OrderIds /\ i \in Nat
    BY <1>1, <1>5 DEF OrdersInd, OrdersTyped
  <2>2. orders' = [orders EXCEPT ![o] = [state |-> state, signature |->
                                            IF signature # 0 THEN signature ELSE orders[o].signature]]
    BY DEF transition
  <2>3. (IF signature # 0 THEN signature ELSE orders[o].signature) \in Nat
    BY <2>1 DEF OrderStates
  <2>4. [state |-> state, signature |-> IF signature # 0 THEN signature ELSE orders[o].signature]
        \in OrderStates
    BY <2>3 DEF OrderStates
  <2> QED BY <2>1, <2>2, <2>4 DEF OrdersInd, OrdersTyped
<1>7. /\ nonces' \in [WalletSet -> Nat] /\ \A v \in WalletSet : nonces[v] <= nonces'[v]
      /\ how = "confirmed" /\ history[i].nonce # NoNonce =>
             history[i].nonce = nonces[w] /\ history[i].nonce < nonces'[w]
  <2>1. w \in WalletSet /\ history[i].nonce \in Nat /\ nonces \in [WalletSet -> Nat]
    BY <1>1, <1>5 DEF OrdersInd, OrdersTyped
  <2>2. CASE UNCHANGED nonces /\ (how = "confirmed" => history[i].nonce = NoNonce)
    BY <2>1, <2>2
  <2>3. CASE /\ history[i].nonce = nonces[w]
             /\ nonces' = [nonces EXCEPT ![w] = history[i].nonce + 1]
    BY <2>1, <2>3
  <2> QED BY <2>2, <2>3
<1> HIDE DEF n, w, o
<1>8. OrdersTyped'
  BY <1>4, <1>6, <1>7 DEF OrdersInd, OrdersTyped, n
<1>9. TurnsTaken'
  BY <1>1, <1>4, <1>5 DEF OrdersInd, TurnsTaken
<1>10. NoncesBehind'
  <2> SUFFICES ASSUME NEW k \in 1..n
               PROVE  /\ history'[k].nonce <= nonces'[history'[k].wallet]
                      /\ history'[k].ends = "confirmed" /\ history'[k].nonce # NoNonce =>
                             history'[k].nonce < nonces'[history'[k].wallet]
    BY <1>4 DEF NoncesBehind
  <2>1. /\ history[k].nonce <= nonces[history[k].wallet]
        /\ history[k].ends = "confirmed" /\ history[k].nonce # NoNonce =>
               history[k].nonce < nonces[history[k].wallet]
    BY <1>1 DEF OrdersInd, NoncesBehind
  <2>2. /\ nonces[history[k].wallet] \in Nat /\ nonces'[history[k].wallet] \in Nat
        /\ nonces[history[k].wallet] <= nonces'[history[k].wallet]
    BY <1>5, <1>7 DEF OrdersInd, OrdersTyped
  <2>3. CASE k = i
    BY <2>1, <2>2, <2>3, <1>3, <1>5, <1>7 DEF w
  <2>4. CASE k # i
    BY <2>1, <2>2, <2>4, <1>5
  <2> QED BY <2>3, <2>4
<1>11. NoncesUsed'
  <2> SUFFICES ASSUME NEW k \in 1..n, NEW j \in 1..n, k < j,
                      history[k].wallet = history[j].wallet,
                      history[k].nonce = history[j].nonce, history[k].nonce # NoNonce
               PROVE  /\ k \notin history[j].before
                      /\ ~(history'[k].ends = "confirmed" /\ history'[j].ends = "confirmed")
    BY <1>4, <1>5 DEF NoncesUsed
  <2>1. /\ k \notin history[j].before
        /\ ~(history[k].ends = "confirmed" /\ history[j].ends = "confirmed")
    BY <1>1 DEF OrdersInd, NoncesUsed
  <2>2. \A m \in {k, j} \ {i} : history[m].ends = "confirmed" =>
                                   history[m].nonce < nonces[history[m].wallet]
    BY <1>1 DEF OrdersInd, NoncesBehind
  <2>3. CASE k = i
    BY <2>1, <2>2, <2>3, <1>3, <1>5, <1>7 DEF w
  <2>4. CASE j = i
    BY <2>1, <2>2, <2>4, <1>3, <1>5, <1>7 DEF w
  <2>5. CASE k # i /\ j # i
    BY <2>1, <2>5, <1>5
  <2> QED BY <2>3, <2>4, <2>5
<1>12. IdsNameLatest'
  <2> SUFFICES ASSUME NEW k \in 1..n
               PROVE  /\ history'[k].ends = "underway" => Latest(k)'
                      /\ Latest(k)' /\ orders'[history'[k].id].state \in {"submitted", "confirmed"} =>
                             orders'[history'[k].id].signature = k
    BY <1>4 DEF IdsNameLatest
  <2>1. \A m \in 1..n : Latest(m)' <=> Latest(m)
    BY <1>1, <1>4, <1>5 DEF Latest
  <2>2. \A m \in {k, i} :
           /\ history[m].ends = "underway" => Latest(m)
           /\ Latest(m) /\ orders[history[m].id].state \in {"submitted", "confirmed"} =>
                  orders[history[m].id].signature = m
    BY <1>1 DEF OrdersInd, IdsNameLatest
  <2>3. CASE history[k].id # o
    BY <2>1, <2>2, <2>3, <1>3, <1>5, <1>6 DEF o
  <2>4. CASE history[k].id = o
    <3>1. Latest(i)
      BY <1>1, <2>2
    <3>2. Latest(k) => k = i
      BY <1>1, <2>4, <3>1 DEF Latest, o
    <3>3. state \in {"submitted", "confirmed"} => orders'[o].signature = i
      BY <1>1, <1>6, <2>2, <3>1 DEF o
    <3>4. history'[k].ends = "underway" => Latest(k)
      BY <1>3, <1>5, <2>2, <3>1
    <3> QED BY <2>1, <2>4, <3>2, <3>3, <3>4, <1>5, <1>6
  <2> QED BY <2>3, <2>4
<1> QED BY <1>8, <1>9, <1>10, <1>11, <1>12 DEF OrdersInd

(* No nonce is confirmed twice, whatever the number of wallets and orders  *)
(* (multi_wallet.py line 20, nonce_manager.py lines 14-18).                *)
THEOREM NoncesStayApart == OrdersSpec => []NoncesApart
<1>1. OrdersInit => OrdersInd
  <2> SUFFICES ASSUME OrdersInit PROVE OrdersInd
    OBVIOUS
  <2>1. history = <<>> /\ history \in Seq(OrderRecords) /\ Len(history) = 0 /\ DOMAIN history = {}
    BY DEF OrdersInit
  <2>2. nonces \in [WalletSet -> Nat] /\ orders \in [OrderIds -> OrderStates] /\ turn = 0
    BY DEF OrdersInit, NoNonce, NoOrder, OrderStates
  <2> QED BY <2>1, <2>2
          DEF OrdersInd, OrdersTyped, TurnsTaken, NoncesBehind, NoncesUsed, IdsNameLatest
<1>2. OrdersInd /\ [OrdersNext]_orderVars => OrdersInd'
  <2> SUFFICES ASSUME OrdersInd, [OrdersNext]_orderVars PROVE OrdersInd'
    OBVIOUS
  <2>1. ASSUME NEW o \in OrderIds, Creates(o) PROVE OrdersInd'
    BY <2>1, CreateKeeps
  <2>2. ASSUME NEW w \in WalletSet, Provisions(w) PROVE OrdersInd'
    <3>1. nonces' = [nonces EXCEPT ![w] = 1] /\ nonces[w] = 0 /\ UNCHANGED <<orders, turn, history>>
      BY <2>2 DEF Provisions, get_nonce, set_nonce, NoNonce
    <3>2. OrdersTyped' /\ TurnsTaken' /\ NoncesUsed'
      BY <3>1 DEF OrdersInd, OrdersTyped, TurnsTaken, NoncesUsed
    <3>3. IdsNameLatest'
      BY <3>1 DEF OrdersInd, IdsNameLatest, Latest
    <3>4. \A v \in WalletSet : nonces[v] \in Nat /\ nonces'[v] \in Nat /\ nonces[v] <= nonces'[v]
      BY <3>1 DEF OrdersInd, OrdersTyped
    <3>5. \A i \in DOMAIN history : history[i].wallet \in WalletSet /\ history[i].nonce \in Nat
      <4>1. \A i \in DOMAIN history : history[i] \in OrderRecords
        BY DEF OrdersInd, OrdersTyped
      <4> QED BY <4>1 DEF OrderRecords
    <3>6. NoncesBehind'
      BY <3>1, <3>4, <3>5 DEF OrdersInd, NoncesBehind
    <3> QED BY <3>2, <3>3, <3>6 DEF OrdersInd
  <2>3. ASSUME NEW i \in DOMAIN history, Submits(i) PROVE OrdersInd'
    <3>1. /\ i \in Underway /\ transition(history[i].id, "submitted", i)
          /\ UNCHANGED <<turn, nonces, history>>
      BY <2>3 DEF Submits
    <3>2. history[i] \in OrderRecords /\ history[i].ends = "underway"
      BY <3>1 DEF Underway, OrdersInd, OrdersTyped
    <3>3. history[i] = [history[i] EXCEPT !.ends = "underway"]
      BY <3>2 DEF OrderRecords
    <3>4. history = [history EXCEPT ![i] = history[i]]
      BY DEF OrdersInd, OrdersTyped
    <3>5. Settles(i, "underway")
      BY <3>1, <3>3, <3>4 DEF Settles
    <3> QED BY <3>1, <3>5, SettleKeeps
  <2>4. ASSUME NEW i \in DOMAIN history, Confirmed(i) PROVE OrdersInd'
    BY <2>4, SettleKeeps DEF Confirmed, set_nonce, get_nonce
  <2>5. ASSUME NEW i \in DOMAIN history, Fails(i) PROVE OrdersInd'
    BY <2>5, SettleKeeps DEF Fails
  <2>6. CASE UNCHANGED orderVars
    BY <2>6 DEF orderVars, OrdersInd, OrdersTyped, TurnsTaken, NoncesBehind, NoncesUsed,
       IdsNameLatest, Latest
  <2> QED BY <2>1, <2>2, <2>3, <2>4, <2>5, <2>6 DEF OrdersNext
<1>3. OrdersInd => NoncesApart
  <2> SUFFICES ASSUME OrdersInd PROVE NoncesApart
    OBVIOUS
  <2> DEFINE L == Len(WalletList)
  <2>1. L \in Nat \ {0} /\ DOMAIN WalletList = 1..L
    BY OrdersAssumption
  <2>2. Len(history) \in Nat /\ DOMAIN history = 1..Len(history)
    BY DEF OrdersInd, OrdersTyped
  <2>3. ASSUME NEW i \in DOMAIN history, NEW j \in DOMAIN history, i < j,
               history[i].wallet = history[j].wallet
        PROVE  (j - i) % L = 0
    <3>1. i - 1 \in Nat /\ j - 1 \in Nat /\ i - 1 < j - 1 /\ (j - 1) - (i - 1) = j - i
      BY <2>2, <2>3
    <3>2. /\ history[i].wallet = WalletList[((i - 1) % L) + 1]
          /\ history[j].wallet = WalletList[((j - 1) % L) + 1]
      BY <2>3 DEF OrdersInd, TurnsTaken
    <3>3. ((i - 1) % L) + 1 = ((j - 1) % L) + 1
      BY <2>3, <3>1, <3>2, SomeTurn, OrdersAssumption
    <3>4. (i - 1) % L \in Int /\ (j - 1) % L \in Int
      BY <2>1, <3>1
    <3>5. (i - 1) % L = (j - 1) % L
      BY <3>3, <3>4
    <3> QED BY <2>1, <3>1, <3>5, WholeRounds
  <2>4. ASSUME NEW i \in DOMAIN history
        PROVE  /\ \A j \in DOMAIN history : history[j].id = history[i].id => j <= i
               /\ orders[history[i].id].state \in {"submitted", "confirmed"}
               => orders[history[i].id].signature = i
    BY <2>4 DEF OrdersInd, IdsNameLatest, Latest
  <2> QED BY <2>3, <2>4 DEF NoncesApart, OrdersInd, NoncesUsed
<1> QED BY <1>1, <1>2, <1>3, PTL DEF OrdersSpec

-----------------------------------------------------------------------------
(* The rules of trading *)

LEMMA MaxOfTwo ==
    ASSUME NEW a \in Int, NEW b \in Int
    PROVE  Max({a, b}) = IF a >= b THEN a ELSE b
  <1>1. \E x \in {a, b} : \A y \in {a, b} : x >= y
    OBVIOUS
  <1>2. Max({a, b}) \in {a, b} /\ \A y \in {a, b} : Max({a, b}) >= y
    BY <1>1 DEF Max
  <1> QED
    BY <1>2

LEMMA MinOfTwo ==
    ASSUME NEW a \in Int, NEW b \in Int
    PROVE  Min({a, b}) = IF a <= b THEN a ELSE b
  <1>1. \E x \in {a, b} : \A y \in {a, b} : x <= y
    OBVIOUS
  <1>2. Min({a, b}) \in {a, b} /\ \A y \in {a, b} : Min({a, b}) <= y
    BY <1>1 DEF Min
  <1> QED
    BY <1>2

(* No more is invested than is there, less the reserve.                    *)
LEMMA SizeAffordable ==
    ASSUME NEW odds \in Odds, portfolio \in Int, size_position(odds) > 0
    PROVE  /\ size_position(odds) \in Nat
           /\ size_position(odds) <= portfolio - fee_reserve_sol
  <1> DEFINE available == Max({0, portfolio - fee_reserve_sol})
             edge == Max({0, odds.multiple * odds.confidence - (100 - odds.confidence)})
             kelly == Min({max_fraction, (edge * kelly_fraction) \div 100})
             size == (available * kelly) \div 100
             cap == (available * max_fraction) \div 100
  <1> USE DeskAssumption
  <1>1. available \in Nat /\ (available = 0 \/ available = portfolio - fee_reserve_sol)
    BY MaxOfTwo
  <1>2. edge \in Int
    BY MaxOfTwo
  <1>3. kelly \in Int
    <2> HIDE DEF edge
    <2>1. (edge * kelly_fraction) \div 100 \in Int
      BY <1>2
    <2> QED
      BY <2>1, MinOfTwo
  <1>4. size_position(odds) = IF size < min_trade_sol THEN 0 ELSE Min({size, cap})
    BY DEF size_position
  <1> HIDE DEF available, edge, kelly
  <1>5. size \in Int /\ cap \in Int
    BY <1>1, <1>3
  <1>6. cap <= available
    <2>1. available * max_fraction <= available * 100
      BY <1>1
    <2>2. available * max_fraction \in Nat
      BY <1>1
    <2> QED
      BY <1>1, <2>1, <2>2
  <1> HIDE DEF size, cap
  <1>7. Min({size, cap}) \in Int /\ Min({size, cap}) <= cap
    BY <1>5, MinOfTwo
  <1>8. size_position(odds) \in Int /\ size_position(odds) <= available
    BY <1>1, <1>4, <1>5, <1>6, <1>7
  <1> QED
    BY <1>1, <1>8

(* No more is lost than a position has cost.                               *)
LEMMA LossOfOne ==
    ASSUME NEW p, p.cost \in Nat, p.pnl_bps \in Int, p.pnl_bps >= -10000
    PROVE  Gained(p) \in Int /\ Gained(p) >= - p.cost
  <1> DEFINE c == p.cost
             g == p.pnl_bps
  <1>1. c \in Nat /\ g \in Int /\ g >= -10000
    OBVIOUS
  <1>2. Gained(p) = (c * g) \div 10000
    BY DEF Gained
  <1> HIDE DEF c, g
  <1>3. c * (g + 10000) >= 0
    BY <1>1
  <1>4. c * g >= (- c) * 10000 /\ c * g \in Int
    BY <1>1, <1>3
  <1>5. (c * g) \div 10000 \in Int /\ (c * g) \div 10000 >= - c
    BY <1>1, <1>4
  <1> QED
    BY <1>2, <1>5 DEF c

Position == [cost : Nat, pnl_bps : Int, peak_bps : Int, inactive : BOOLEAN]
DeskTyped ==
    /\ portfolio \in Int /\ pnl_today_sol \in Int /\ open_positions \in Int /\ stake \in Int
    /\ held \in [Positions -> Position] /\ stopping \in BOOLEAN
DeskInd == DeskTyped /\ CapitalKept /\ LossBounded

(* A position stays one when it is opened, moved or rests, and keeps what  *)
(* is not changed.                                                         *)
LEMMA FreeIsPosition == Free \in Position /\ Free.cost = 0 /\ Free.pnl_bps = 0
  <1>1. 0 \in Nat /\ 0 \in Int
    OBVIOUS
  <1>2. Free \in Position
    BY <1>1, Zenon DEF Free, Position
  <1> QED
    BY <1>2 DEF Free

LEMMA CostGiven ==
    ASSUME NEW q \in Position, NEW c \in Nat
    PROVE  LET p == [q EXCEPT !.cost = c]
           IN  p \in Position /\ p.cost = c /\ p.pnl_bps = q.pnl_bps
  BY Zenon DEF Position

Moved(q, g, k) == [q EXCEPT !.pnl_bps = g, !.peak_bps = k, !.inactive = FALSE]

LEMMA GainGiven ==
    ASSUME NEW q \in Position, NEW g \in Int, NEW k \in Int
    PROVE  /\ Moved(q, g, k) \in Position
           /\ Moved(q, g, k).cost = q.cost /\ Moved(q, g, k).pnl_bps = g
  BY Zenon DEF Position, Moved

LEMMA RestGiven ==
    ASSUME NEW q \in Position
    PROVE  LET p == [q EXCEPT !.inactive = TRUE]
           IN  p \in Position /\ p.cost = q.cost /\ p.pnl_bps = q.pnl_bps
  BY Zenon DEF Position

(* What is invested, before and after one position changes.                *)
LEMMA InvestedChanges ==
    ASSUME DeskTyped, DeskTyped', NEW x \in Positions,
           \A y \in Positions \ {x} : held'[y] = held[y]
    PROVE  /\ Invested(held)' = Invested(held) + (held'[x].cost - held[x].cost)
           /\ Invested(held) \in Int /\ Invested(held)' \in Int
  <1> DEFINE g == [y \in Positions |-> held[y].cost]
             h == [y \in Positions |-> held'[y].cost]
  <1>1. Summands(g, Positions)
    BY DEF DeskTyped, Position, Summands
  <1>2. Summands(h, Positions)
    BY DEF DeskTyped, Position, Summands
  <1>3. h[x] = held'[x].cost /\ g[x] = held[x].cost /\ \A y \in Positions \ {x} : h[y] = g[y]
    OBVIOUS
  <1>4. Invested(held) = SumFunctionOnSet(g, Positions)
    BY DEF Invested
  <1>5. Invested(held)' = SumFunctionOnSet(h, Positions)
    BY DEF Invested
  <1> HIDE DEF g, h
  <1>6. SumFunctionOnSet(h, Positions) = SumFunctionOnSet(g, Positions) + (h[x] - g[x])
    BY <1>1, <1>2, <1>3, DeskAssumption, SumChange
  <1>7. SumFunctionOnSet(h, Positions) \in Int /\ SumFunctionOnSet(g, Positions) \in Int
    BY <1>1, <1>2, DeskAssumption, SumType
  <1> QED
    BY <1>3, <1>4, <1>5, <1>6, <1>7

LEMMA OccupiedFinite == IsFiniteSet(Occupied) /\ Cardinality(Occupied) \in Nat
  BY DeskAssumption, FS_Subset, FS_CardinalityType DEF Occupied

LEMMA DeskStarts == DeskInit => DeskInd
  <1> SUFFICES ASSUME DeskInit PROVE DeskInd
    OBVIOUS
  <1> USE DeskAssumption DEF DeskInit
  <1>1. DeskTyped
    <2>1. held = [x \in Positions |-> Free] /\ stopping = FALSE
      OBVIOUS
    <2>2. held \in [Positions -> Position]
      BY ONLY <2>1, FreeIsPosition, Zenon
    <2>3. stopping \in BOOLEAN
      BY ONLY <2>1, Zenon
    <2> QED
      BY <2>2, <2>3 DEF DeskTyped
  <1>2. Occupied = {}
    BY DEF Occupied
  <1>3. Invested(held) = 0
    <2> DEFINE g == [y \in Positions |-> held[y].cost]
    <2>1. \A y \in Positions : g[y] = 0
      BY DEF Free
    <2>2. Invested(held) = SumFunctionOnSet(g, Positions)
      BY DEF Invested
    <2> HIDE DEF g
    <2> QED
      BY <2>1, <2>2, SumOfZeros
  <1>4. CapitalKept
    BY <1>2, <1>3 DEF CapitalKept
  <1>5. LossBounded
    BY <1>2, <1>3, FS_EmptySet DEF LossBounded
  <1> QED
    BY <1>1, <1>4, <1>5 DEF DeskInd

LEMMA OpensHolds ==
    ASSUME DeskInd, NEW x \in Positions, NEW odds \in Odds, Opens(x, odds)
    PROVE  DeskInd'
  <1> DEFINE size == size_position(odds)
  <1>1. /\ ~ stopping /\ held[x] = Free /\ size > 0
        /\ pnl_today_sol > - max_daily_loss_sol /\ open_positions < max_open_positions
        /\ held' = [held EXCEPT ![x] = [Free EXCEPT !.cost = size]]
        /\ portfolio' = portfolio - size
        /\ open_positions' = open_positions + 1 /\ stake' = Invested(held)'
        /\ UNCHANGED <<pnl_today_sol, stopping>>
    BY DEF Opens, trading_allowed
  <1>2. DeskTyped /\ CapitalKept /\ LossBounded
    BY DEF DeskInd
  <1>3. size \in Nat /\ size <= portfolio - fee_reserve_sol
    BY <1>1, <1>2, SizeAffordable DEF DeskTyped
  <1> HIDE DEF size
  <1>4. /\ held' \in [Positions -> Position] /\ held'[x].cost = size /\ held'[x].pnl_bps = 0
        /\ \A y \in Positions \ {x} : held'[y] = held[y]
    <2> DEFINE p == [Free EXCEPT !.cost = size]
    <2>1. p \in Position /\ p.cost = size /\ p.pnl_bps = 0
      BY <1>3, FreeIsPosition, CostGiven
    <2>2. held' = [held EXCEPT ![x] = p]
      BY <1>1
    <2> HIDE DEF p
    <2> QED
      BY <1>2, <2>1, <2>2 DEF DeskTyped
  <1>5. Invested(held)' \in Int
    BY <1>4, DeskAssumption, SumType DEF Invested, Summands, Position
  <1>6. DeskTyped'
    BY <1>1, <1>2, <1>3, <1>4, <1>5 DEF DeskTyped
  <1>7. Invested(held)' = Invested(held) + size /\ Invested(held) \in Int
    <2>1. held[x].cost = 0
      BY <1>1 DEF Free
    <2> QED
      BY <1>2, <1>3, <1>4, <1>6, <2>1, InvestedChanges
  <1>8. Occupied' = Occupied \cup {x} /\ x \notin Occupied
    <2>1. held'[x] # Free
      BY <1>1, <1>4, <1>3 DEF Free
    <2> QED
      BY <1>1, <1>4, <2>1 DEF Occupied
  <1>9. Cardinality(Occupied') = Cardinality(Occupied) + 1
    BY <1>8, OccupiedFinite, FS_AddElement
  <1>10. CapitalKept'
    <2>1. portfolio' + Invested(held)' - pnl_today_sol' = Capital
      BY <1>1, <1>2, <1>3, <1>7, DeskAssumption DEF CapitalKept, DeskTyped
    <2>2. ASSUME NEW y \in Occupied' PROVE held'[y].cost > 0 /\ held'[y].pnl_bps >= -10000
      <3>1. CASE y = x
        BY <1>1, <1>4, <3>1
      <3>2. CASE y # x
        BY <1>2, <1>4, <1>8, <2>2, <3>2 DEF CapitalKept, Occupied
      <3> QED
        BY <3>1, <3>2
    <2> QED
      BY <2>1, <2>2 DEF CapitalKept
  <1>11. LossBounded'
    <2>1. pnl_today_sol' - Invested(held)' >= - max_daily_loss_sol - stake'
      BY <1>1, <1>2, <1>5, <1>6, DeskAssumption DEF DeskTyped
    <2>2. portfolio' >= fee_reserve_sol
      BY <1>1, <1>2, <1>3, DeskAssumption DEF DeskTyped
    <2>3. open_positions' = Cardinality(Occupied') /\ open_positions' <= max_open_positions
      BY <1>1, <1>2, <1>9, DeskAssumption DEF LossBounded, DeskTyped
    <2> QED
      BY <2>1, <2>2, <2>3 DEF LossBounded
  <1> QED
    BY <1>6, <1>10, <1>11 DEF DeskInd

(* Prices and time change no cost.                                         *)
LEMMA WatchingHolds ==
    ASSUME DeskInd, NEW x \in Positions,
           (\E g \in Gains : PriceMoves(x, g)) \/ Rests(x)
    PROVE  DeskInd'
  <1>1. DeskTyped /\ CapitalKept /\ LossBounded /\ x \in Occupied
    BY DEF DeskInd, PriceMoves, Rests
  <1>2. UNCHANGED <<portfolio, pnl_today_sol, open_positions, stopping, stake>>
    BY DEF PriceMoves, Rests
  <1>3. /\ held \in [Positions -> Position] /\ held[x] \in Position
        /\ held[x].cost > 0 /\ held[x].pnl_bps >= -10000
    BY <1>1 DEF DeskTyped, CapitalKept
  <1>4. /\ held' \in [Positions -> Position]
        /\ held'[x].cost = held[x].cost /\ held'[x].pnl_bps >= -10000
        /\ \A y \in Positions \ {x} : held'[y] = held[y]
    <2> DEFINE CostsStay == /\ held' \in [Positions -> Position]
                            /\ held'[x].cost = held[x].cost /\ held'[x].pnl_bps >= -10000
                            /\ \A y \in Positions \ {x} : held'[y] = held[y]
    <2>1. ASSUME NEW g \in Gains, PriceMoves(x, g) PROVE CostsStay
      <3> DEFINE peak == Max({held[x].peak_bps, g})
                 p == Moved(held[x], g, peak)
      <3>1. g \in Int /\ g >= -10000 /\ peak \in Int
        BY <1>3, DeskAssumption, MaxOfTwo DEF Position
      <3>2. held' = [held EXCEPT ![x] = p]
        BY <2>1, Zenon DEF PriceMoves, Moved
      <3> HIDE DEF peak
      <3>3. p \in Position /\ p.cost = held[x].cost /\ p.pnl_bps = g
        BY <1>3, <3>1, GainGiven
      <3> HIDE DEF p
      <3> QED
        BY <1>3, <3>1, <3>2, <3>3
    <2>2. ASSUME Rests(x) PROVE CostsStay
      <3> DEFINE p == [held[x] EXCEPT !.inactive = TRUE]
      <3>1. held' = [held EXCEPT ![x] = p]
        BY <2>2, Zenon DEF Rests
      <3>2. p \in Position /\ p.cost = held[x].cost /\ p.pnl_bps >= -10000
        BY <1>3, RestGiven
      <3> HIDE DEF p
      <3> QED
        BY <1>3, <3>1, <3>2
    <2> QED
      BY <2>1, <2>2
  <1>5. DeskTyped'
    BY <1>1, <1>2, <1>4 DEF DeskTyped
  <1>6. Invested(held)' = Invested(held)
    <2>1. held[x].cost \in Int
      BY <1>3 DEF Position
    <2> QED
      BY <1>1, <1>4, <1>5, <2>1, InvestedChanges
  <1>7. Occupied' = Occupied
    <2>1. held'[x] # Free /\ held[x] # Free
      BY <1>3, <1>4 DEF Free
    <2> QED
      BY <1>4, <2>1 DEF Occupied
  <1>8. CapitalKept'
    <2>1. \A y \in Occupied : held'[y].cost > 0 /\ held'[y].pnl_bps >= -10000
      BY <1>1, <1>3, <1>4 DEF CapitalKept, Occupied
    <2> QED
      BY <1>1, <1>2, <1>6, <1>7, <2>1 DEF CapitalKept
  <1>9. LossBounded'
    BY <1>1, <1>2, <1>6, <1>7 DEF LossBounded
  <1> QED
    BY <1>5, <1>8, <1>9 DEF DeskInd

LEMMA ClosesHolds ==
    ASSUME DeskInd, NEW x \in Positions, Closes(x)
    PROVE  DeskInd'
  <1> DEFINE gain == Gained(held[x])
             cost == held[x].cost
  <1>1. /\ x \in Occupied /\ held' = [held EXCEPT ![x] = Free]
        /\ portfolio' = portfolio + cost + gain /\ pnl_today_sol' = pnl_today_sol + gain
        /\ open_positions' = open_positions - 1 /\ UNCHANGED <<stopping, stake>>
    BY DEF Closes
  <1>2. DeskTyped /\ CapitalKept /\ LossBounded
    BY DEF DeskInd
  <1>3. held[x] \in Position /\ held[x].pnl_bps >= -10000
    BY <1>1, <1>2 DEF DeskTyped, CapitalKept
  <1>4. cost \in Nat /\ gain \in Int /\ gain >= - cost
    BY <1>3, LossOfOne DEF Position
  <1>5. /\ held' \in [Positions -> Position] /\ held'[x] = Free
        /\ \A y \in Positions \ {x} : held'[y] = held[y]
    BY <1>1, <1>2, FreeIsPosition DEF DeskTyped
  <1> HIDE DEF gain
  <1>6. DeskTyped'
    BY <1>1, <1>2, <1>4, <1>5 DEF DeskTyped
  <1>7. Invested(held)' = Invested(held) - cost /\ Invested(held) \in Int
    <2>1. held'[x].cost = 0
      BY <1>5 DEF Free
    <2> QED
      BY <1>2, <1>4, <1>5, <1>6, <2>1, InvestedChanges
  <1> HIDE DEF cost
  <1>8. Occupied' = Occupied \ {x}
    BY <1>5 DEF Occupied
  <1>9. Cardinality(Occupied') = Cardinality(Occupied) - 1
    BY <1>1, <1>8, OccupiedFinite, FS_RemoveElement
  <1>10. CapitalKept'
    <2>1. portfolio' + Invested(held)' - pnl_today_sol' = Capital
      BY <1>1, <1>2, <1>4, <1>7, DeskAssumption DEF CapitalKept, DeskTyped
    <2>2. \A y \in Occupied' : held'[y].cost > 0 /\ held'[y].pnl_bps >= -10000
      BY <1>2, <1>5, <1>8 DEF CapitalKept, Occupied
    <2> QED
      BY <2>1, <2>2 DEF CapitalKept
  <1>11. LossBounded'
    <2>1. pnl_today_sol' - Invested(held)' >= - max_daily_loss_sol - stake'
      BY <1>1, <1>2, <1>4, <1>7, DeskAssumption DEF LossBounded, DeskTyped
    <2>2. portfolio' >= fee_reserve_sol
      BY <1>1, <1>2, <1>4, DeskAssumption DEF LossBounded, DeskTyped
    <2>3. ~ stopping' => /\ open_positions' = Cardinality(Occupied')
                         /\ open_positions' <= max_open_positions
      BY <1>1, <1>2, <1>9, DeskAssumption DEF LossBounded, DeskTyped
    <2> QED
      BY <2>1, <2>2, <2>3 DEF LossBounded
  <1> QED
    BY <1>6, <1>10, <1>11 DEF DeskInd

(* The loss of a day, with all that is invested lost as well, exceeds its  *)
(* limit by no more than what was invested at the last opening; the        *)
(* reserve for fees is never invested (fail_safes.py lines 24-30).         *)
THEOREM LossIsBounded == DeskSpec => [](CapitalKept /\ LossBounded)
<1>1. DeskInd /\ [DeskNext]_deskVars => DeskInd'
  <2> SUFFICES ASSUME DeskInd, [DeskNext]_deskVars PROVE DeskInd'
    OBVIOUS
  <2>1. CASE \E x \in Positions, odds \in Odds : Opens(x, odds)
    BY <2>1, OpensHolds
  <2>2. CASE \E x \in Positions : (\E g \in Gains : PriceMoves(x, g)) \/ Rests(x)
    BY <2>2, WatchingHolds
  <2>3. CASE \E x \in Positions : Closes(x)
    BY <2>3, ClosesHolds
  <2>4. CASE emergency_close_all
    <3>1. /\ stopping' = TRUE /\ open_positions' = 0
          /\ UNCHANGED <<portfolio, pnl_today_sol, held, stake>>
      BY <2>4 DEF emergency_close_all
    <3> QED
      BY <3>1 DEF DeskInd, DeskTyped, CapitalKept, LossBounded, Occupied
  <2>5. CASE UNCHANGED deskVars
    BY <2>5 DEF deskVars, DeskInd, DeskTyped, CapitalKept, LossBounded, Occupied
  <2> QED
    BY <2>1, <2>2, <2>3, <2>4, <2>5 DEF DeskNext
<1> QED
  BY <1>1, DeskStarts, PTL DEF DeskSpec, DeskInd

-----------------------------------------------------------------------------
(* The cache of accounts *)

LEMMA WithoutOne ==
    ASSUME NEW S, NEW s \in Seq(S), NEW i \in 1..Len(s)
    PROVE  /\ RemoveAt(s, i) \in Seq(S) /\ Len(RemoveAt(s, i)) = Len(s) - 1
           /\ \A j \in 1..Len(s) - 1 : RemoveAt(s, i)[j] = IF j < i THEN s[j] ELSE s[j + 1]
  <1> DEFINE a == SubSeq(s, 1, i - 1)
             b == SubSeq(s, i + 1, Len(s))
  <1>1. Len(s) \in Nat /\ i \in Nat /\ 1 <= i /\ i <= Len(s) /\ \A j \in 1..Len(s) : s[j] \in S
    BY LenProperties, ElementOfSeq
  <1>2. a \in Seq(S) /\ Len(a) = i - 1 /\ \A j \in 1..i - 1 : a[j] = s[j]
    <2>1. \A j \in 1..i - 1 : s[j] \in S
      BY <1>1
    <2>2. /\ a \in Seq(S) /\ Len(a) = IF 1 <= i - 1 THEN (i - 1) - 1 + 1 ELSE 0
          /\ \A j \in 1..(i - 1) - 1 + 1 : a[j] = s[1 + j - 1]
      BY <1>1, <2>1, SubSeqProperties
    <2> HIDE DEF a
    <2> QED
      BY <1>1, <2>2
  <1>3. b \in Seq(S) /\ Len(b) = Len(s) - i /\ \A j \in 1..Len(s) - i : b[j] = s[i + j]
    <2>1. \A j \in i + 1..Len(s) : s[j] \in S
      BY <1>1
    <2>2. /\ b \in Seq(S) /\ Len(b) = IF i + 1 <= Len(s) THEN Len(s) - (i + 1) + 1 ELSE 0
          /\ \A j \in 1..Len(s) - (i + 1) + 1 : b[j] = s[(i + 1) + j - 1]
      BY <1>1, <2>1, SubSeqProperties
    <2> HIDE DEF b
    <2> QED
      BY <1>1, <2>2
  <1>4. RemoveAt(s, i) = a \o b
    BY DEF RemoveAt
  <1> HIDE DEF a, b
  <1>5. /\ a \o b \in Seq(S) /\ Len(a \o b) = Len(a) + Len(b)
        /\ \A j \in 1..Len(a) + Len(b) : (a \o b)[j] = IF j <= Len(a) THEN a[j] ELSE b[j - Len(a)]
    BY <1>2, <1>3, ConcatProperties
  <1>6. ASSUME NEW j \in 1..Len(s) - 1 PROVE (a \o b)[j] = IF j < i THEN s[j] ELSE s[j + 1]
    <2>1. CASE j < i
      BY <1>1, <1>2, <1>3, <1>5, <2>1
    <2>2. CASE ~ (j < i)
      <3>1. j - Len(a) \in 1..Len(s) - i /\ i + (j - Len(a)) = j + 1
        BY <1>1, <1>2, <2>2
      <3>2. (a \o b)[j] = b[j - Len(a)]
        BY <1>1, <1>2, <1>3, <1>5, <2>2
      <3> QED
        BY <1>3, <2>2, <3>1, <3>2
    <2> QED
      BY <2>1, <2>2
  <1>7. Len(a) + Len(b) = Len(s) - 1
    BY <1>1, <1>2, <1>3
  <1> QED
    BY <1>4, <1>5, <1>6, <1>7

(* An element put back at the end.                                         *)
PutBackAt(s, i, e, t) ==
    /\ Len(t) = Len(s)
    /\ \A j \in 1..Len(s) : t[j] = IF j = Len(s) THEN e ELSE IF j < i THEN s[j] ELSE s[j + 1]

LEMMA PutBack ==
    ASSUME NEW S, NEW s \in Seq(S), NEW i \in 1..Len(s), NEW e \in S
    PROVE  LET t == Append(RemoveAt(s, i), e)
           IN  t \in Seq(S) /\ PutBackAt(s, i, e, t)
  <1> DEFINE r == RemoveAt(s, i)
  <1>1. /\ r \in Seq(S) /\ Len(r) = Len(s) - 1 /\ Len(s) \in Nat
        /\ \A j \in 1..Len(s) - 1 : r[j] = IF j < i THEN s[j] ELSE s[j + 1]
    BY WithoutOne, LenProperties
  <1> HIDE DEF r
  <1>2. /\ Append(r, e) \in Seq(S) /\ Len(Append(r, e)) = Len(r) + 1
        /\ \A j \in 1..Len(r) : Append(r, e)[j] = r[j]
        /\ Append(r, e)[Len(r) + 1] = e
    BY <1>1, AppendProperties
  <1>3. ASSUME NEW j \in 1..Len(s)
        PROVE  Append(r, e)[j] = IF j = Len(s) THEN e ELSE IF j < i THEN s[j] ELSE s[j + 1]
    <2>1. CASE j = Len(s)
      BY <1>1, <1>2, <2>1
    <2>2. CASE j # Len(s)
      <3>1. j \in 1..Len(r) /\ j \in 1..Len(s) - 1
        BY <1>1, <2>2
      <3> QED
        BY <1>1, <1>2, <2>2, <3>1
    <2> QED
      BY <2>1, <2>2
  <1> QED
    BY <1>1, <1>2, <1>3 DEF r, PutBackAt

(* A pool leaves the place it has among all those used, if any.            *)
LEMMA FirstRemoved ==
    ASSUME NEW p, recent \in Seq(Pools)
    PROVE  \/ /\ \A i \in 1..Len(recent) : recent[i] # p
              /\ RemoveFirst(recent, p) = recent
           \/ \E i \in 1..Len(recent) : recent[i] = p /\ RemoveFirst(recent, p) = RemoveAt(recent, i)
  <1> DEFINE I == {i \in 1..Len(recent) : recent[i] = p}
  <1>1. CASE I = {}
    BY <1>1 DEF RemoveFirst
  <1>2. CASE I # {}
    <2>1. PICK i \in I : \A j \in I : i <= j
      <3>1. I \in SUBSET Nat
        OBVIOUS
      <3> HIDE DEF I
      <3> QED
        BY <1>2, <3>1, LeastNatural
    <2>2. Min(I) \in I
      BY <2>1 DEF Min
    <2>3. RemoveFirst(recent, p) = RemoveAt(recent, Min(I))
      BY <1>2 DEF RemoveFirst, SelectInSeq
    <2> QED
      BY <2>2, <2>3
  <1> QED
    BY <1>1, <1>2

(* How many of the pools used are no longer in the cache: the cache is the *)
(* rest of their order of last use.                                        *)
AccountEntries == [pool : Pools, accounts : SUBSET (Pools \cup Tokens)]
AccountTyped ==
    /\ recent \in Seq(Pools) /\ cache \in Seq(AccountEntries)
    /\ entered \in [Pools -> Tokens \cup {NoDraft.token}]
Right(x, tokens) == x.accounts = {x.pool, tokens[x.pool]}
LeftOut == Len(recent) - Len(cache)
AccountInd ==
    /\ AccountTyped
    /\ \A i, j \in 1..Len(recent) : recent[i] = recent[j] => i = j
    /\ Len(cache) <= CacheSize /\ (LeftOut = 0 \/ (LeftOut > 0 /\ Len(cache) = CacheSize))
    /\ \A i \in 1..Len(cache) : /\ cache[i].pool = recent[LeftOut + i]
                                /\ Right(cache[i], entered)
    /\ draft # NoDraft => /\ Right(draft, entered)
                          /\ draft.fee \in Int /\ draft.fee >= BaseFee

LEMMA FeeAboveBase ==
    ASSUME NEW c \in Int
    PROVE  /\ estimate_priority_fee_lamports(c) \in Int
           /\ estimate_priority_fee_lamports(c) >= BaseFee
  <1> DEFINE x == IF c > 0 THEN c ELSE 0
  <1>1. x \in Nat /\ BaseFee \in Nat
    BY AccountAssumption
  <1>2. estimate_priority_fee_lamports(c) = (BaseFee * (100 + x)) \div 100
    BY DEF estimate_priority_fee_lamports
  <1> HIDE DEF x
  <1>3. BaseFee * x \in Nat
    BY <1>1
  <1>4. BaseFee * (100 + x) >= BaseFee * 100 /\ BaseFee * (100 + x) \in Nat
    BY <1>1, <1>3
  <1> QED
    BY <1>1, <1>2, <1>4

LEMMA AccountsTyped ==
    ASSUME AccountTyped
    PROVE  /\ DOMAIN cache = 1..Len(cache) /\ Len(cache) \in Nat /\ Len(recent) \in Nat
           /\ \A i \in 1..Len(cache) : cache[i] \in AccountEntries
           /\ \A i \in 1..Len(recent) : recent[i] \in Pools
  BY LenProperties, ElementOfSeq DEF AccountTyped

LEMMA LeftOutCounted ==
    ASSUME AccountInd
    PROVE  \E m \in Nat, k \in Nat : Len(cache) = m /\ LeftOut = k /\ Len(recent) = k + m
  <1>1. Len(cache) \in Nat /\ Len(recent) \in Nat
    BY AccountsTyped DEF AccountInd
  <1>2. LeftOut = Len(recent) - Len(cache)
    BY DEF LeftOut
  <1>3. LeftOut = 0 \/ LeftOut > 0
    BY DEF AccountInd
  <1>4. LeftOut \in Nat /\ Len(recent) = LeftOut + Len(cache)
    BY <1>1, <1>2, <1>3
  <1> QED
    BY <1>1, <1>4

(* What the order of last use is after a use.                              *)
LEMMA UsedLast ==
    ASSUME AccountInd, NEW p \in Pools, recent' = Append(RemoveFirst(recent, p), p)
    PROVE  /\ recent' \in Seq(Pools)
           /\ \A i, j \in 1..Len(recent') : recent'[i] = recent'[j] => i = j
           /\ \/ /\ \A i \in 1..Len(recent) : recent[i] # p /\ recent'[i] = recent[i]
                 /\ Len(recent') = Len(recent) + 1 /\ recent'[Len(recent')] = p
              \/ \E i \in 1..Len(recent) :
                    /\ recent[i] = p /\ Len(recent') = Len(recent)
                    /\ \A j \in 1..Len(recent) :
                          recent'[j] = IF j = Len(recent) THEN p
                                       ELSE IF j < i THEN recent[j] ELSE recent[j + 1]
  <1>1. recent \in Seq(Pools) /\ Len(recent) \in Nat
    BY LenProperties DEF AccountInd, AccountTyped
  <1>2. \A i, j \in 1..Len(recent) : recent[i] = recent[j] => i = j
    BY DEF AccountInd
  <1>3. CASE /\ \A i \in 1..Len(recent) : recent[i] # p
             /\ RemoveFirst(recent, p) = recent
    <2>1. /\ recent' \in Seq(Pools) /\ Len(recent') = Len(recent) + 1
          /\ \A i \in 1..Len(recent) : recent'[i] = recent[i]
          /\ recent'[Len(recent) + 1] = p
      BY <1>1, <1>3, AppendProperties
    <2> QED
      BY <1>1, <1>2, <1>3, <2>1
  <1>4. CASE \E i \in 1..Len(recent) : recent[i] = p /\ RemoveFirst(recent, p) = RemoveAt(recent, i)
    <2>1. PICK i \in 1..Len(recent) : recent[i] = p /\ RemoveFirst(recent, p) = RemoveAt(recent, i)
      BY <1>4
    <2>2. /\ recent' \in Seq(Pools) /\ Len(recent') = Len(recent)
          /\ \A j \in 1..Len(recent) :
                recent'[j] = IF j = Len(recent) THEN p
                             ELSE IF j < i THEN recent[j] ELSE recent[j + 1]
      <3>1. recent' = Append(RemoveAt(recent, i), p)
        BY <2>1
      <3>2. recent' \in Seq(Pools) /\ PutBackAt(recent, i, p, recent')
        BY <1>1, <3>1, PutBack
      <3> QED
        BY <3>2 DEF PutBackAt
    <2>3. ASSUME NEW j \in 1..Len(recent), NEW k \in 1..Len(recent), recent'[j] = recent'[k]
          PROVE  j = k
      <3> DEFINE From(l) == IF l = Len(recent) THEN i ELSE IF l < i THEN l ELSE l + 1
      <3>1. From(j) \in 1..Len(recent) /\ From(k) \in 1..Len(recent)
        BY <1>1
      <3>2. recent'[j] = recent[From(j)] /\ recent'[k] = recent[From(k)]
        BY <2>1, <2>2
      <3>3. From(j) = From(k)
        BY <1>2, <2>3, <3>1, <3>2
      <3> QED
        BY <1>1, <3>3
    <2>4. \A j, k \in 1..Len(recent') : recent'[j] = recent'[k] => j = k
      BY <2>2, <2>3
    <2>5. /\ recent[i] = p /\ Len(recent') = Len(recent)
          /\ \A j \in 1..Len(recent) :
                recent'[j] = IF j = Len(recent) THEN p
                             ELSE IF j < i THEN recent[j] ELSE recent[j + 1]
      BY <2>1, <2>2
    <2> QED
      BY <2>2, <2>4, <2>5, Zenon
  <1> QED
    BY <1>1, <1>3, <1>4, FirstRemoved

(* A pool that is found moves to the end of the cache, as it moves to the  *)
(* end of the order of last use.                                           *)
LEMMA FoundMoves ==
    ASSUME AccountInd, NEW p \in Pools, recent' = Append(RemoveFirst(recent, p), p),
           NEW i \in Find(p), cache' = MoveToEnd(i)
    PROVE  /\ cache' \in Seq(AccountEntries) /\ Len(cache') = Len(cache)
           /\ Len(recent') = Len(recent)
           /\ \A j \in 1..Len(cache') : /\ cache'[j].pool = recent'[LeftOut + j]
                                         /\ \E l \in 1..Len(cache) : cache'[j] = cache[l]
  <1>1. PICK m \in Nat, k \in Nat : Len(cache) = m /\ LeftOut = k /\ Len(recent) = k + m
    BY LeftOutCounted
  <1>2. /\ DOMAIN cache = 1..m /\ cache \in Seq(AccountEntries)
        /\ \A j \in 1..m : cache[j] \in AccountEntries /\ cache[j].pool = recent[k + j]
        /\ \A j, l \in 1..k + m : recent[j] = recent[l] => j = l
    BY <1>1, AccountsTyped DEF AccountInd, AccountTyped
  <1>3. i \in 1..m /\ cache[i].pool = p /\ cache[i] \in AccountEntries
    BY <1>2 DEF Find
  <1>4. /\ cache' \in Seq(AccountEntries) /\ Len(cache') = m
        /\ \A j \in 1..m : cache'[j] = IF j = m THEN cache[i]
                                        ELSE IF j < i THEN cache[j] ELSE cache[j + 1]
    <2>1. cache' = Append(RemoveAt(cache, i), cache[i])
      BY DEF MoveToEnd
    <2>2. /\ cache' \in Seq(AccountEntries) /\ Len(cache') = Len(cache)
          /\ \A j \in 1..Len(cache) :
                cache'[j] = IF j = Len(cache) THEN cache[i]
                            ELSE IF j < i THEN cache[j] ELSE cache[j + 1]
      <3>1. i \in 1..Len(cache)
        BY <1>1, <1>3
      <3>a. cache \in Seq(AccountEntries) /\ cache[i] \in AccountEntries
        BY <1>2, <1>3
      <3>2. cache' \in Seq(AccountEntries) /\ PutBackAt(cache, i, cache[i], cache')
        BY ONLY <2>1, <3>1, <3>a, PutBack
      <3> QED
        BY <3>2 DEF PutBackAt
    <2> QED
      BY <1>1, <2>2
  <1>5. k + i \in 1..k + m /\ recent[k + i] = p
    BY <1>2, <1>3
  <1>6. /\ Len(recent') = k + m
        /\ \A j \in 1..k + m : recent'[j] = IF j = k + m THEN p
                                            ELSE IF j < k + i THEN recent[j] ELSE recent[j + 1]
    <2>1. PICK l \in 1..k + m :
             /\ recent[l] = p /\ Len(recent') = k + m
             /\ \A j \in 1..k + m : recent'[j] = IF j = k + m THEN p
                                                 ELSE IF j < l THEN recent[j] ELSE recent[j + 1]
      BY <1>1, <1>5, UsedLast
    <2>2. l = k + i
      BY <1>2, <1>5, <2>1
    <2> QED
      BY <2>1, <2>2
  <1>7. ASSUME NEW j \in 1..m
        PROVE  cache'[j].pool = recent'[k + j] /\ \E l \in 1..m : cache'[j] = cache[l]
    <2>1. k + j \in 1..k + m
      OBVIOUS
    <2>2. CASE j = m
      <3>1. cache'[j] = cache[i] /\ recent'[k + j] = p
        BY <1>4, <1>6, <2>1, <2>2
      <3> QED
        BY <1>2, <1>3, <3>1
    <2>3. CASE j # m /\ j < i
      <3>1. k + j # k + m /\ k + j < k + i
        BY <1>3, <2>3
      <3>2. cache'[j] = cache[j] /\ recent'[k + j] = recent[k + j]
        BY <1>4, <1>6, <2>1, <2>3, <3>1
      <3> QED
        BY <1>2, <3>2
    <2>4. CASE j # m /\ ~ (j < i)
      <3>1. j + 1 \in 1..m /\ (k + j) + 1 = k + (j + 1) /\ k + j # k + m /\ ~ (k + j < k + i)
        BY <1>3, <2>4
      <3>2. cache'[j] = cache[j + 1] /\ recent'[k + j] = recent[(k + j) + 1]
        BY <1>4, <1>6, <2>1, <2>4, <3>1
      <3> QED
        BY <1>2, <3>1, <3>2
    <2> QED
      BY <2>2, <2>3, <2>4
  <1> QED
    BY <1>1, <1>4, <1>6, <1>7

(* A pool that is not found comes in at the end, and all of the order of   *)
(* last use that is in the cache goes down a place, if it was used before. *)
ComesLast(p, m, k, n) ==
    /\ n = k \/ (n = k - 1 /\ m = CacheSize)
    /\ Len(recent') = n + (m + 1)
    /\ \A j \in 1..m : recent'[n + j] = recent[k + j]
    /\ recent'[n + (m + 1)] = p

LEMMA MissingLast ==
    ASSUME AccountInd, NEW p \in Pools, recent' = Append(RemoveFirst(recent, p), p),
           Find(p) = {}, NEW m \in Nat, NEW k \in Nat, Len(cache) = m, Len(recent) = k + m, LeftOut = k
    PROVE  \E n \in Nat : ComesLast(p, m, k, n)
  <1>1. \A j \in 1..m : recent[k + j] # p
    BY AccountsTyped DEF Find, AccountInd
  <1>2. CASE /\ \A i \in 1..Len(recent) : recent[i] # p /\ recent'[i] = recent[i]
             /\ Len(recent') = Len(recent) + 1 /\ recent'[Len(recent')] = p
    <2>1. Len(recent') = k + (m + 1) /\ \A j \in 1..m : k + j \in 1..k + m
      BY <1>2
    <2>2. recent'[k + (m + 1)] = p
      BY <1>2, <2>1
    <2>3. \A j \in 1..m : recent'[k + j] = recent[k + j]
      BY <1>2, <2>1
    <2>4. ComesLast(p, m, k, k)
      BY <2>1, <2>2, <2>3, Zenon DEF ComesLast
    <2> QED
      BY <2>4
  <1>3. ASSUME NEW i \in 1..k + m, recent[i] = p, Len(recent') = k + m,
               \A j \in 1..k + m : recent'[j] = IF j = k + m THEN p
                                               ELSE IF j < i THEN recent[j] ELSE recent[j + 1]
        PROVE  \E n \in Nat : ComesLast(p, m, k, n)
    <2>1. i <= k
      <3> SUFFICES ASSUME i > k PROVE FALSE
        OBVIOUS
      <3>1. i - k \in 1..m /\ k + (i - k) = i
        OBVIOUS
      <3> QED
        BY <1>1, <1>3, <3>1
    <2>2. PICK n \in Nat : n = k - 1 /\ n + (m + 1) = k + m /\ k > 0
      BY <2>1
    <2>3. ASSUME NEW j \in 1..m PROVE recent'[n + j] = recent[k + j]
      <3>1. /\ n + j \in 1..k + m /\ n + j # k + m /\ ~ (n + j < i) /\ (n + j) + 1 = k + j
        BY <2>1, <2>2
      <3> QED
        BY <1>3, <3>1
    <2>4. m = CacheSize
      BY <2>2 DEF AccountInd
    <2>5. k + m \in 1..k + m
      BY <2>2
    <2>6. ComesLast(p, m, k, n)
      BY <1>3, <2>2, <2>3, <2>4, <2>5 DEF ComesLast
    <2> QED
      BY <2>6
  <1>4. CASE \E i \in 1..Len(recent) :
                /\ recent[i] = p /\ Len(recent') = Len(recent)
                /\ \A j \in 1..Len(recent) :
                      recent'[j] = IF j = Len(recent) THEN p
                                   ELSE IF j < i THEN recent[j] ELSE recent[j + 1]
    BY <1>3, <1>4
  <1> QED
    BY <1>2, <1>4, UsedLast

(* If the cache is full, the pool used longest ago goes.                   *)
LEMMA MissingComesIn ==
    ASSUME AccountInd, NEW p \in Pools, recent' = Append(RemoveFirst(recent, p), p),
           Find(p) = {}, NEW x \in AccountEntries, x.pool = p, cache' = Added(x)
    PROVE  /\ cache' \in Seq(AccountEntries)
           /\ Len(cache') <= CacheSize
           /\ LeftOut' = 0 \/ (LeftOut' > 0 /\ Len(cache') = CacheSize)
           /\ \A j \in 1..Len(cache') :
                 /\ cache'[j].pool = recent'[LeftOut' + j]
                 /\ cache'[j] = x \/ \E l \in 1..Len(cache) : cache'[j] = cache[l]
  <1>1. PICK m \in Nat, k \in Nat : Len(cache) = m /\ LeftOut = k /\ Len(recent) = k + m
    BY LeftOutCounted
  <1>2. /\ cache \in Seq(AccountEntries) /\ CacheSize \in Nat /\ m <= CacheSize
        /\ \A j \in 1..m : cache[j] \in AccountEntries /\ cache[j].pool = recent[k + j]
        /\ k = 0 \/ m = CacheSize
    BY <1>1, AccountsTyped, AccountAssumption DEF AccountInd, AccountTyped
  <1>3. PICK n \in Nat : ComesLast(p, m, k, n)
    BY <1>1, MissingLast
  <1> DEFINE longer == Append(cache, x)
             Known(y) == y = x \/ \E l \in 1..m : y = cache[l]
  <1>4. /\ longer \in Seq(AccountEntries) /\ longer # <<>> /\ Len(longer) = m + 1
        /\ \A j \in 1..m : longer[j] = cache[j]
        /\ longer[m + 1] = x
    <2>1. /\ longer \in Seq(AccountEntries) /\ longer # <<>> /\ Len(longer) = Len(cache) + 1
          /\ \A j \in 1..Len(cache) : longer[j] = cache[j]
          /\ longer[Len(cache) + 1] = x
      BY <1>2, AppendProperties
    <2> HIDE DEF longer
    <2> QED
      BY <1>1, <2>1
  <1>5. cache' = IF m + 1 > CacheSize THEN Tail(longer) ELSE longer
    BY <1>4 DEF Added
  <1> HIDE DEF longer
  <1>6. ASSUME NEW j \in 1..m + 1
        PROVE  longer[j].pool = recent'[n + j] /\ Known(longer[j])
    <2>1. CASE j = m + 1
      BY <1>3, <1>4, <2>1 DEF ComesLast
    <2>2. CASE j \in 1..m
      BY <1>2, <1>3, <1>4, <2>2 DEF ComesLast
    <2>3. j = m + 1 \/ j \in 1..m
      OBVIOUS
    <2> QED
      BY <2>1, <2>2, <2>3
  <1>7. CASE m + 1 > CacheSize
    <2>1. /\ cache' \in Seq(AccountEntries) /\ Len(cache') = m
          /\ \A j \in 1..m : cache'[j] = longer[j + 1]
      <3>1. /\ Tail(longer) \in Seq(AccountEntries) /\ Len(Tail(longer)) = Len(longer) - 1
            /\ \A j \in 1..Len(Tail(longer)) : Tail(longer)[j] = longer[j + 1]
        BY <1>4, HeadTailProperties
      <3> QED
        BY <1>4, <1>5, <1>7, <3>1
    <2>2. LeftOut' = n + 1 /\ m = CacheSize
      BY <1>2, <1>3, <1>7, <2>1 DEF LeftOut, ComesLast
    <2>3. ASSUME NEW j \in 1..m
          PROVE  cache'[j].pool = recent'[(n + 1) + j] /\ Known(cache'[j])
      <3>1. j + 1 \in 1..m + 1 /\ (n + 1) + j = n + (j + 1)
        OBVIOUS
      <3>2. cache'[j] = longer[j + 1]
        BY <2>1
      <3>3. longer[j + 1].pool = recent'[n + (j + 1)] /\ Known(longer[j + 1])
        BY <1>6, <3>1
      <3> HIDE DEF Known
      <3> QED
        BY <3>1, <3>2, <3>3, Zenon
    <2>4. LeftOut' > 0 /\ Len(cache') = CacheSize /\ Len(cache') <= CacheSize
      BY <2>1, <2>2
    <2>5. \A j \in 1..Len(cache') : cache'[j].pool = recent'[LeftOut' + j] /\ Known(cache'[j])
      <3>1. LeftOut' = n + 1 /\ Len(cache') = m
        BY <2>1, <2>2
      <3> QED
        BY ONLY <2>3, <3>1, Zenon
    <2> QED
      BY <1>1, <2>1, <2>4, <2>5, Zenon
  <1>8. CASE ~ (m + 1 > CacheSize)
    <2>1. cache' = longer /\ k = 0 /\ n = 0 /\ m + 1 <= CacheSize
      BY <1>2, <1>3, <1>5, <1>8 DEF ComesLast
    <2>2. LeftOut' = n
      BY <1>3, <1>4, <2>1 DEF LeftOut, ComesLast
    <2>3. LeftOut' = 0 /\ Len(cache') <= CacheSize /\ Len(cache') = m + 1
      BY <1>4, <2>1, <2>2
    <2>4. cache' \in Seq(AccountEntries)
      BY <1>4, <2>1
    <2>5. \A j \in 1..m + 1 : cache'[j].pool = recent'[n + j] /\ Known(cache'[j])
      BY <1>6, <2>1
    <2>6. \A j \in 1..Len(cache') : cache'[j].pool = recent'[LeftOut' + j] /\ Known(cache'[j])
      <3>1. LeftOut' = n /\ Len(cache') = m + 1
        BY <2>2, <2>3
      <3> QED
        BY ONLY <2>5, <3>1, Zenon
    <2> QED
      BY <1>1, <2>3, <2>4, <2>6, Zenon
  <1> QED
    BY <1>7, <1>8

(* The cache holds just what is to be kept.                                *)
LEMMA NewestCached ==
    ASSUME AccountInd
    PROVE  /\ Pool(cache) = Newest(recent, CacheSize)
           /\ \A p : AmongNewest(p) <=> Find(p) # {}
  <1>1. PICK m \in Nat, k \in Nat : Len(cache) = m /\ LeftOut = k /\ Len(recent) = k + m
    BY LeftOutCounted
  <1>2. /\ DOMAIN cache = 1..m /\ CacheSize \in Nat /\ m <= CacheSize /\ (k = 0 \/ m = CacheSize)
        /\ \A i \in 1..k + m : recent[i] \in Pools
        /\ \A i \in 1..m : cache[i].pool = recent[k + i]
    BY <1>1, AccountsTyped, AccountAssumption DEF AccountInd
  <1> DEFINE s == SubSeq(recent, k + 1, k + m)
  <1>3. Newest(recent, CacheSize) = s
    <2>1. (IF k + m <= CacheSize THEN 1 ELSE (k + m) - CacheSize + 1) = k + 1
      BY <1>2
    <2> QED
      BY <1>1, <2>1 DEF Newest
  <1>4. s \in Seq(Pools) /\ Len(s) = m /\ \A i \in 1..m : s[i] = recent[k + i]
    <2>1. \A i \in k + 1..k + m : recent[i] \in Pools
      BY <1>2
    <2>2. /\ s \in Seq(Pools)
          /\ Len(s) = IF k + 1 <= k + m THEN (k + m) - (k + 1) + 1 ELSE 0
          /\ \A i \in 1..(k + m) - (k + 1) + 1 : s[i] = recent[(k + 1) + i - 1]
      BY <2>1, SubSeqProperties
    <2> HIDE DEF s
    <2>3. \A i \in 1..m : i \in 1..(k + m) - (k + 1) + 1 /\ (k + 1) + i - 1 = k + i
      OBVIOUS
    <2> QED
      BY <2>2, <2>3
  <1> HIDE DEF s
  <1>5. s = [i \in 1..m |-> s[i]]
    BY <1>4, IsASeq
  <1>6. Pool(cache) = s
    BY <1>2, <1>4, <1>5 DEF Pool
  <1>7. ASSUME NEW p PROVE AmongNewest(p) <=> Find(p) # {}
    <2>1. DOMAIN s = 1..m /\ \A i \in 1..m : s[i] = cache[i].pool
      <3>1. DOMAIN s = 1..m
        BY <1>5
      <3>2. \A i \in 1..m : k + i \in 1..k + m
        OBVIOUS
      <3> QED
        BY <1>2, <1>4, <3>1, <3>2
    <2>2. AmongNewest(p) <=> \E i \in DOMAIN s : s[i] = p
      BY <1>3 DEF AmongNewest
    <2>3. Find(p) = {i \in 1..m : cache[i].pool = p}
      BY <1>2 DEF Find
    <2> QED
      BY ONLY <2>1, <2>2, <2>3
  <1> QED
    BY <1>3, <1>6, <1>7

LEMMA AccountInduction == AccountInd /\ [AccountNext]_accountVars => AccountInd'
  <1> SUFFICES ASSUME AccountInd, [AccountNext]_accountVars PROVE AccountInd'
    OBVIOUS
  <1>1. CASE UNCHANGED accountVars
    BY <1>1 DEF accountVars, AccountInd, AccountTyped, Right, LeftOut
  <1>2. ASSUME NEW o \in Opportunities, NEW c \in Congestions,
               build_swap(o, estimate_priority_fee_lamports(c))
        PROVE  AccountInd'
    <2> DEFINE fee == estimate_priority_fee_lamports(c)
               p == o.pool
               x == [pool |-> o.pool, accounts |-> {o.pool, o.token}]
    <2>1. fee \in Int /\ fee >= BaseFee
      BY AccountAssumption, FeeAboveBase
    <2>2. p \in Pools /\ o.token \in Tokens /\ x \in AccountEntries /\ x.pool = p
      BY DEF Opportunities, AccountEntries
    <2>3. recent' = Append(RemoveFirst(recent, p), p)
      BY <1>2 DEF build_swap
    <2>4. recent' \in Seq(Pools) /\ \A i, j \in 1..Len(recent') : recent'[i] = recent'[j] => i = j
      BY <2>2, <2>3, UsedLast
    <2>a. entered' = IF AmongNewest(p) THEN entered ELSE [entered EXCEPT ![p] = o.token]
      BY <1>2 DEF build_swap
    <2>5. CASE \E i \in Find(p) :
                  /\ cache' = MoveToEnd(i)
                  /\ draft' = [pool |-> p, token |-> o.token, accounts |-> cache[i].accounts,
                               fee |-> fee]
      <3>1. PICK i \in Find(p) :
                  /\ cache' = MoveToEnd(i)
                  /\ draft' = [pool |-> p, token |-> o.token, accounts |-> cache[i].accounts,
                               fee |-> fee]
        BY <2>5
      <3>2. entered' = entered
        <4>1. AmongNewest(o.pool)
          BY <3>1, NewestCached
        <4> QED
          BY <2>a, <4>1
      <3> HIDE DEF fee, p, x
      <3>3. /\ cache' \in Seq(AccountEntries) /\ Len(cache') = Len(cache)
            /\ Len(recent') = Len(recent)
            /\ \A j \in 1..Len(cache') : /\ cache'[j].pool = recent'[LeftOut + j]
                                          /\ \E l \in 1..Len(cache) : cache'[j] = cache[l]
        BY <2>2, <2>3, <3>1, FoundMoves
      <3>4. LeftOut' = LeftOut
        BY <3>3 DEF LeftOut
      <3>5. \A l \in 1..Len(cache) : Right(cache[l], entered')
        BY <3>2 DEF AccountInd, Right
      <3>6. \A j \in 1..Len(cache') : Right(cache'[j], entered')
        BY <3>3, <3>5 DEF Right
      <3>7. Right(draft', entered') /\ draft'.fee = fee
        <4>1. i \in 1..Len(cache) /\ cache[i].pool = p
          BY AccountsTyped DEF Find, AccountInd
        <4> QED
          BY <3>1, <3>5, <4>1 DEF Right
      <3> QED
        BY <2>1, <2>4, <3>2, <3>3, <3>4, <3>6, <3>7 DEF AccountInd, AccountTyped, Right
    <2>6. CASE /\ Find(p) = {} /\ cache' = Added(x)
               /\ draft' = [pool |-> p, token |-> o.token, accounts |-> x.accounts, fee |-> fee]
      <3>1. entered' = [entered EXCEPT ![p] = o.token] /\ x.accounts = {p, o.token}
        <4>1. ~AmongNewest(o.pool)
          BY <2>6, NewestCached
        <4> QED
          BY <2>a, <4>1
      <3> HIDE DEF fee, p, x
      <3>2. /\ entered' \in [Pools -> Tokens \cup {NoDraft.token}] /\ entered'[p] = o.token
            /\ \A q \in Pools : q # p => entered'[q] = entered[q]
        BY <2>2, <3>1 DEF AccountInd, AccountTyped
      <3>3. /\ cache' \in Seq(AccountEntries) /\ Len(cache') <= CacheSize
            /\ LeftOut' = 0 \/ (LeftOut' > 0 /\ Len(cache') = CacheSize)
            /\ \A j \in 1..Len(cache') :
                  /\ cache'[j].pool = recent'[LeftOut' + j]
                  /\ cache'[j] = x \/ \E l \in 1..Len(cache) : cache'[j] = cache[l]
        BY <2>2, <2>3, <2>6, MissingComesIn
      <3>4. Right(x, entered')
        BY <2>2, <3>1, <3>2 DEF Right
      <3>5. ASSUME NEW l \in 1..Len(cache)
            PROVE  Right(cache[l], entered')
        <4>1. cache[l].pool \in Pools /\ cache[l].pool # p
          BY <2>6, AccountsTyped DEF Find, AccountInd, AccountEntries
        <4> QED
          BY <3>2, <4>1 DEF AccountInd, Right
      <3>6. \A j \in 1..Len(cache') : Right(cache'[j], entered')
        BY <3>3, <3>4, <3>5 DEF Right
      <3>7. Right(draft', entered') /\ draft'.fee = fee
        BY <2>2, <2>6, <3>4 DEF Right
      <3> QED
        BY <2>1, <2>4, <3>2, <3>3, <3>6, <3>7 DEF AccountInd, AccountTyped, Right
    <2> QED
      BY <1>2, <2>5, <2>6 DEF build_swap
  <1> QED
    BY <1>1, <1>2 DEF AccountNext

(* However many pools are used, in whatever order: the cache holds those   *)
(* used last, as many as it may, in the order of their last use, and each  *)
(* with the token it last came in with, from which drafts are made until   *)
(* it goes (transaction_builder.py lines 46-55).                           *)
THEOREM CacheIsLru == AccountSpec => []LruExact
<1>1. AccountInit => AccountInd
  <2> SUFFICES ASSUME AccountInit PROVE AccountInd
    OBVIOUS
  <2>1. cache = <<>> /\ recent = <<>> /\ Len(cache) = 0 /\ Len(recent) = 0
    BY EmptySeq DEF AccountInit
  <2>2. AccountTyped
    BY <2>1, EmptySeq DEF AccountTyped, AccountInit
  <2>3. LeftOut = 0 /\ Len(cache) <= CacheSize
    BY <2>1, AccountAssumption DEF LeftOut
  <2>4. draft = NoDraft
    BY DEF AccountInit
  <2>5. 1..Len(cache) = {} /\ 1..Len(recent) = {}
    BY <2>1
  <2>6. /\ \A i, j \in 1..Len(recent) : recent[i] = recent[j] => i = j
        /\ \A i \in 1..Len(cache) : /\ cache[i].pool = recent[LeftOut + i]
                                    /\ Right(cache[i], entered)
    BY <2>5, Zenon
  <2> QED
    BY <2>2, <2>3, <2>4, <2>6, Zenon DEF AccountInd
<1>2. AccountInd => LruExact
  <2> SUFFICES ASSUME AccountInd PROVE LruExact
    OBVIOUS
  <2>1. DOMAIN cache = 1..Len(cache)
    BY AccountsTyped DEF AccountInd
  <2> QED
    BY <2>1, NewestCached DEF LruExact, AccountInd, Right
<1> QED
  BY <1>1, <1>2, AccountInduction, PTL DEF AccountSpec
=============================================================================
