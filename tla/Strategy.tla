------------------------------ MODULE Strategy ------------------------------
(***************************************************************************)
(* strategy/, intelligence/ and infrastructure/websocket/handlers.py: what *)
(* the listing handler of the engine calls.  An opportunity is the payload *)
(* of an event, a dict in which any field may be missing; evaluate() does  *)
(* not suspend, so that it is one step.  Amounts are integers; a score is  *)
(* in millionths.                                                          *)
(***************************************************************************)
EXTENDS Integers

CONSTANTS Keys, NoKey,         \* words of a log, and none
          ValidKeys,           \* those with the shape of a public key
          SystemProgram,       \* the key of 32 ones, for a log that names no mint
          Notifications,       \* what the websocket may bring
          Offers,              \* payloads of other publishers
          MinConfidence, FeatureTtl, MaxSupply, MinLiquidity, MaxTax, MaxPrice,
          Good, Broken, Unfit, Missing,   \* paths of models, by what loading them does
          NoModel

Paths == Good \cup Broken \cup Unfit \cup Missing
Dexes == {"raydium", "orca", "pump_fun"}

ASSUME StrategyAssumption ==
    /\ SystemProgram \in ValidKeys /\ ValidKeys \subseteq Keys /\ NoKey \notin Keys
    /\ FeatureTtl \in Nat /\ NoModel \notin Paths
    /\ \A m \in Notifications : /\ m.mint \in Keys \cup {NoKey} /\ m.programs \subseteq Dexes
                                /\ m.pool \in Keys \cup {NoKey}
    /\ \A o \in Offers : o.token_mint \in Keys

VARIABLES
    features,   \* FeatureEngine._cache: the listing features were taken from, and their age
    path,       \* OnnxPredictor.model_path
    session,    \* the model that is loaded
    answer      \* the answer of the last evaluate(): a candidate, or no listing

strategyVars == <<features, path, session, answer>>

NoListing == [token_mint |-> NoKey]
NoFeatures == [of |-> NoListing, age |-> FeatureTtl + 1]

(* A candidate, with the features it was scored by and the model that did. *)
Candidate(o, f) == [listing |-> o, of |-> f.of, age |-> f.age, by |-> session, path |-> path]
NoCandidate ==
    [listing |-> NoListing, of |-> NoListing, age |-> FeatureTtl + 1, by |-> NoModel, path |-> NoModel]

StrategyInit ==
    /\ features = [k \in Keys |-> NoFeatures]
    /\ path = NoModel /\ session = NoModel /\ answer = NoCandidate

-----------------------------------------------------------------------------
(* parse_program_log() *)

SupportedPrograms == {"raydium", "orca", "pump_fun"}

Relevant(m) == m.marked /\ m.programs \cap SupportedPrograms # {}

(* The programs are tested in this order, by their identifier or by name.  *)
Program(m) ==
    IF "raydium" \in m.programs THEN "raydium"
    ELSE IF "orca" \in m.programs THEN "orca" ELSE "pump_fun"

(* The liquidity is a constant; supply, price and age are not in the logs. *)
Parsed(m) ==
    [token_mint |-> IF m.mint = NoKey THEN SystemProgram ELSE m.mint,
     pool_address |-> m.pool # NoKey \/ m.signed, dex |-> Program(m), liquidity_usd |-> 0]

FromLogs == {Parsed(m) : m \in {n \in Notifications : Relevant(n)}}

-----------------------------------------------------------------------------
(* The layers *)

Flag(o, field) == field \in DOMAIN o /\ o[field]
Number(o, field) == IF field \in DOMAIN o THEN o[field] ELSE 0

validate_basic(o) ==
    o.token_mint \in ValidKeys /\ Flag(o, "pool_address") /\ "dex" \in DOMAIN o /\ o.dex \in Dexes

validate_tokenomics(o) ==
    /\ ~Flag(o, "mint_authority") /\ ~Flag(o, "freeze_authority")
    /\ "program" \in DOMAIN o => o.program \in {"spl-token", "token-2022"}
    /\ Number(o, "supply") \in 1..MaxSupply

validate_liquidity(o) ==
    /\ Number(o, "liquidity_usd") >= MinLiquidity
    /\ Flag(o, "lp_locked") \/ Flag(o, "lp_burned")
    /\ Number(o, "pool_age_slots") > 0
    /\ Number(o, "price") > 0 /\ Number(o, "price") <= MaxPrice

validate_rug_risk(o) ==
    /\ ~Flag(o, "honeypot") /\ ~Flag(o, "hidden_mint_functions") /\ ~Flag(o, "dev_known_rugger")
    /\ Number(o, "transfer_tax_percent") <= MaxTax
    /\ Number(o, "dev_cluster_rugs") <= 0

Layers(o) ==
    validate_basic(o) /\ validate_tokenomics(o) /\ validate_liquidity(o) /\ validate_rug_risk(o)

(* extract(): the features of the mint, or else those of this listing.     *)
Extracted(o) ==
    IF features[o.token_mint].age <= FeatureTtl THEN features[o.token_mint]
    ELSE [of |-> o, age |-> 0]

Least(x, y) == IF x <= y THEN x ELSE y
Most(x, y) == IF x >= y THEN x ELSE y

(* predict() without a model; 350000 millionths for 10000 dollars are 35 for one. *)
Fallback(o) ==
    Most(0, Least(1000000, 550000 + 35 * Least(Number(o, "liquidity_usd"), 10000)
                                  - Least(200000 * Number(o, "dev_rugs"), 500000)))

(* Whether predict() may reach the confidence: a model answers anything,   *)
(* and one that does not fit the features raises.                          *)
MayPass(o) == IF session = NoModel THEN Fallback(o) >= MinConfidence ELSE session \in Good
MayFail(o) == session = NoModel => Fallback(o) < MinConfidence

(* Mutant: the features of an evaluated listing are taken before it is     *)
(* known to pass.                                                          *)
EvaluateEagerly(o) ==
    /\ features' = [features EXCEPT ![o.token_mint] = Extracted(o)]
    /\ answer' = IF Layers(o) THEN Candidate(o, Extracted(o)) ELSE NoCandidate
    /\ UNCHANGED <<path, session>>

Evaluate(o) ==
    /\ \/ ~Layers(o) /\ UNCHANGED features /\ answer' = NoCandidate
       \/ /\ Layers(o)
          /\ features' = [features EXCEPT ![o.token_mint] = Extracted(o)]
          /\ \/ MayFail(Extracted(o).of) /\ answer' = NoCandidate
             \/ MayPass(Extracted(o).of) /\ answer' = Candidate(o, Extracted(o))
    /\ UNCHANGED <<path, session>>

(* reload(): a file that is missing leaves the model that is loaded in     *)
(* use, and so does one that onnxruntime rejects; one whose warm-up raises *)
(* is already in its place.                                                *)
Reload(p) ==
    /\ path' = p
    /\ session' = IF p \in Good \cup Unfit THEN p ELSE session
    /\ UNCHANGED <<features, answer>>

(* A second passes.  What has expired is not told apart.                   *)
FeaturesAge ==
    /\ features' = [k \in Keys |-> [features[k] EXCEPT !.age = Least(@ + 1, FeatureTtl + 1)]]
    /\ UNCHANGED <<path, session, answer>>

StrategyNext ==
    \/ \E o \in Offers \cup FromLogs : Evaluate(o)
    \/ \E p \in Paths : Reload(p)
    \/ FeaturesAge

StrategySpec == StrategyInit /\ [][StrategyNext]_strategyVars

-----------------------------------------------------------------------------
(* Properties *)

(* The cache holds the features of listings that had passed the layers,    *)
(* under their own mint.                                                   *)
FeaturesPassed ==
    \A k \in Keys : features[k].age <= FeatureTtl =>
        Layers(features[k].of) /\ features[k].of.token_mint = k

(* A candidate has passed the layers on its own data.  Its score may be    *)
(* another listing's: one of the same mint, that has passed them too, was  *)
(* seen within the time to live, and is good enough where no model is      *)
(* loaded.  The model is the one that path names, unless that one failed   *)
(* to load (htf_sniper.py lines 26-47, feature_engine.py lines 21-24).     *)
CandidatesEarned ==
    answer # NoCandidate =>
        /\ Layers(answer.listing) /\ Layers(answer.of)
        /\ answer.of.token_mint = answer.listing.token_mint /\ answer.age <= FeatureTtl
        /\ answer.by = NoModel => Fallback(answer.of) >= MinConfidence
        /\ answer.by # NoModel =>
              answer.by \in Good /\ (answer.path = answer.by \/ answer.path \in Broken \cup Missing)

(* Nothing that parse_program_log() makes of a notification is confirmed,  *)
(* whatever others have published of the mint and whichever model is       *)
(* loaded: it names no supply, and liquidity of zero (handlers.py line 31).*)
LogsNeverConfirm == answer.listing \notin FromLogs /\ answer.of \notin FromLogs

(* What is confirmed is earned, and none of it comes from the logs.        *)
ConfirmedRight == CandidatesEarned /\ LogsNeverConfirm
=============================================================================
