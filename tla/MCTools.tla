------------------------------ MODULE MCTools ------------------------------
(***************************************************************************)
(* The tools around the engine.  None of them calls another and no two     *)
(* share state, so that their states are added and not multiplied: one of  *)
(* them is chosen at the start, and the others stay as they are.           *)
(***************************************************************************)
EXTENDS Strategy, CircuitBreaker, Confirmation, AccountCache, Sends, StateCache, KeyStore, Desk,
        Orders, Ledger, HealthServer, TLC

CONSTANTS k1, k2, odd, r1, r2, r3

VARIABLE part      \* the tool that moves

toolVars == <<strategyVars, breakerVars, confirmationVars, accountVars, sendVars, stateVars, keyVars,
             deskVars, orderVars, ledgerVars, healthVars>>
Parts == {"strategy", "breaker", "confirmation", "accounts", "sends", "state", "keys", "desk",
          "orders", "ledger", "health"}

(* Listings that differ in what the layers, the cache and the score see.   *)
Listed(mint, dollars, rugs) ==
    [token_mint |-> mint, pool_address |-> TRUE, dex |-> "orca", supply |-> MaxSupply,
     liquidity_usd |-> dollars, lp_burned |-> TRUE, pool_age_slots |-> 1, price |-> MaxPrice,
     dev_rugs |-> rugs]

MCOffers ==
    {Listed(k1, 5000, 0),           \* good enough without a model
     Listed(k1, MinLiquidity, 0),   \* passes the layers, not the score
     Listed(k1, MinLiquidity - 1, 0),
     Listed(k2, 5000, 1),
     Listed(odd, 5000, 0),
     [Listed(k1, 5000, 0) EXCEPT !.lp_burned = FALSE],
     [Listed(k2, 5000, 0) EXCEPT !.price = MaxPrice + 1],
     [token_mint |-> k1]}

Log(mint, pool, programs, marked) ==
    [mint |-> mint, pool |-> pool, programs |-> programs, marked |-> marked, signed |-> TRUE]

MCNotifications ==
    {Log(k1, k2, {"raydium", "orca"}, TRUE), Log(k1, NoKey, {"pump_fun"}, TRUE),
     Log(NoKey, NoKey, {"orca"}, TRUE), Log(k2, k1, {}, TRUE), Log(k2, k1, {"orca"}, FALSE)}

MCKeyOf ==
    [p \in Processes |-> IF p = "reader" THEN Unset ELSE [first |-> "kA", rest |-> p]]
MCPlaceholder == [first |-> "kP", rest |-> ""]
MCLengthOf == [w \in Wallets |-> IF w = "small" THEN 2 ELSE 3]

MCKindOf == [r \in Runs |-> IF r = r1 THEN "bundle" ELSE "call"]
MCOpportunityOf ==
    [r \in Runs |-> [confidence |-> 80, congestion |-> 50, seen |-> 0, now |-> 10,
                     profit |-> IF r = r1 THEN 30000 ELSE 0]]

MCCongestions == {-10, 50}
MCGains == {-10000, 15000, 30000}
MCOdds == {[confidence |-> 60, multiple |-> 2], [confidence |-> 40, multiple |-> 1]}

MCWalletList == <<"w1", "w2">>

MCTradeOf ==
    [c \in Inserts |-> [token_mint |-> IF c = r3 THEN Null ELSE k1, dex |-> "orca", amount |-> Null,
                       status |-> "confirmed"]]

ToolsInit ==
    /\ part \in Parts
    /\ StrategyInit /\ BreakerInit /\ ConfirmationInit /\ AccountInit /\ SendInit /\ StateInit
    /\ KeyInit /\ DeskInit /\ OrdersInit /\ LedgerInit /\ HealthInit
    /\ \A s, t \in Tasks : waitsFor[s] = waitsFor[t]
    /\ part # "health" => ~taken

(* What stays as it is when the given part moves.                          *)
Rest(moving) ==
    /\ IF moving = "strategy" THEN TRUE ELSE UNCHANGED strategyVars
    /\ IF moving = "breaker" THEN TRUE ELSE UNCHANGED breakerVars
    /\ IF moving = "confirmation" THEN TRUE ELSE UNCHANGED confirmationVars
    /\ IF moving = "accounts" THEN TRUE ELSE UNCHANGED accountVars
    /\ IF moving = "sends" THEN TRUE ELSE UNCHANGED sendVars
    /\ IF moving = "state" THEN TRUE ELSE UNCHANGED stateVars
    /\ IF moving = "keys" THEN TRUE ELSE UNCHANGED keyVars
    /\ IF moving = "desk" THEN TRUE ELSE UNCHANGED deskVars
    /\ IF moving = "orders" THEN TRUE ELSE UNCHANGED orderVars
    /\ IF moving = "ledger" THEN TRUE ELSE UNCHANGED ledgerVars
    /\ IF moving = "health" THEN TRUE ELSE UNCHANGED healthVars

ToolsNext ==
    /\ UNCHANGED part
    /\ \/ part = "strategy" /\ StrategyNext /\ Rest(part)
       \/ part = "breaker" /\ BreakerNext /\ Rest(part)
       \/ part = "confirmation" /\ ConfirmationNext /\ Rest(part)
       \/ part = "accounts" /\ AccountNext /\ Rest(part)
       \/ part = "sends" /\ SendNext /\ Rest(part)
       \/ part = "state" /\ StateNext /\ Rest(part)
       \/ part = "keys" /\ KeyNext /\ Rest(part)
       \/ part = "desk" /\ DeskNext /\ Rest(part)
       \/ part = "orders" /\ OrdersNext /\ Rest(part)
       \/ part = "ledger" /\ LedgerNext /\ Rest(part)
       \/ part = "health" /\ HealthNext /\ Rest(part)

ToolsSpec == ToolsInit /\ [][ToolsNext]_<<part, toolVars>>
=============================================================================
