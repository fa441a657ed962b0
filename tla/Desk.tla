-------------------------------- MODULE Desk --------------------------------
(***************************************************************************)
(* The rules of trading: execution/fail_safes.py, strategy/execution/      *)
(* position_sizing.py and exit_engine.py.  The engine makes FailSafes from *)
(* its settings and calls emergency_close_all() in stop(); the rest has no *)
(* caller yet.  The trader here is any that asks the rules before it acts, *)
(* keeps the two fields that FailSafes leaves to it, and opens nothing     *)
(* once stop() has begun.  Amounts are integers, a fraction is in percent, *)
(* a gain in basis points.                                                 *)
(***************************************************************************)
EXTENDS Integers, FiniteSets, FiniteSetsExt

CONSTANTS Positions,                     \* places for positions
          Capital,
          max_daily_loss_sol, max_open_positions,
          fee_reserve_sol, min_trade_sol, max_fraction, kelly_fraction,
          Odds,                          \* pairs of confidence and expected multiple
          Gains,                         \* what a position may be worth, over what it cost
          stop_loss_bps, trailing_activation_bps, trailing_distance_bps,
          MaxTrades                      \* bound on the positions opened

ASSUME DeskAssumption ==
    /\ IsFiniteSet(Positions) /\ max_open_positions \in Nat
    /\ Capital \in Nat /\ fee_reserve_sol \in 0..Capital
    /\ max_daily_loss_sol \in Nat /\ max_fraction \in 0..100 /\ kelly_fraction \in Int
    /\ \A odds \in Odds : odds.confidence \in Int /\ odds.multiple \in Int
    /\ min_trade_sol \in Nat \ {0} /\ \A g \in Gains : g \in Int /\ g >= -10000

VARIABLES
    portfolio,        \* what is not invested
    pnl_today_sol, open_positions,   \* the fields of FailSafes
    held,             \* for each place, a position's cost, gain, highest gain and rest, or Free
    stopping,         \* stop() has begun
    trades,           \* positions opened so far
    stake             \* not in the code: what was invested right after the last opening

deskVars == <<portfolio, pnl_today_sol, open_positions, held, stopping, trades, stake>>

Free == [cost |-> 0, pnl_bps |-> 0, peak_bps |-> 0, inactive |-> FALSE]
Occupied == {x \in Positions : held[x] # Free}
Invested(h) == SumFunctionOnSet([x \in Positions |-> h[x].cost], Positions)

DeskInit ==
    /\ portfolio = Capital /\ pnl_today_sol = 0 /\ open_positions = 0
    /\ held = [x \in Positions |-> Free] /\ stopping = FALSE /\ trades = 0 /\ stake = 0

size_position(odds) ==
    LET available == Max({0, portfolio - fee_reserve_sol})
        edge == Max({0, odds.multiple * odds.confidence - (100 - odds.confidence)})
        kelly == Min({max_fraction, (edge * kelly_fraction) \div 100})
        size == (available * kelly) \div 100
    IN IF size < min_trade_sol THEN 0 ELSE Min({size, (available * max_fraction) \div 100})

(* Mutant: the loss of the day is not looked at.                           *)
CountAllowed == open_positions < max_open_positions

trading_allowed == pnl_today_sol > -max_daily_loss_sol /\ open_positions < max_open_positions

Opens(x, odds) ==
    /\ ~stopping /\ trades < MaxTrades
    /\ held[x] = Free /\ trading_allowed /\ size_position(odds) > 0
    /\ held' = [held EXCEPT ![x] = [Free EXCEPT !.cost = size_position(odds)]]
    /\ portfolio' = portfolio - size_position(odds)
    /\ open_positions' = open_positions + 1
    /\ trades' = trades + 1 /\ stake' = Invested(held')
    /\ UNCHANGED <<pnl_today_sol, stopping>>

PriceMoves(x, g) ==
    /\ x \in Occupied
    /\ held' = [held EXCEPT ![x].pnl_bps = g, ![x].peak_bps = Max({@, g}), ![x].inactive = FALSE]
    /\ UNCHANGED <<portfolio, pnl_today_sol, open_positions, stopping, trades, stake>>

(* An hour without trades.                                                 *)
Rests(x) ==
    /\ x \in Occupied /\ held' = [held EXCEPT ![x].inactive = TRUE]
    /\ UNCHANGED <<portfolio, pnl_today_sol, open_positions, stopping, trades, stake>>

should_exit(p) ==
    \/ p.pnl_bps <= -stop_loss_bps
    \/ p.inactive
    \/ p.peak_bps >= trailing_activation_bps /\ p.pnl_bps <= p.peak_bps - trailing_distance_bps

Gained(p) == (p.cost * p.pnl_bps) \div 10000

Closes(x) ==
    /\ x \in Occupied /\ should_exit(held[x])
    /\ held' = [held EXCEPT ![x] = Free]
    /\ portfolio' = portfolio + held[x].cost + Gained(held[x])
    /\ pnl_today_sol' = pnl_today_sol + Gained(held[x])
    /\ open_positions' = open_positions - 1
    /\ UNCHANGED <<stopping, trades, stake>>

(* "Placeholder for market-selling": the count alone is cleared.           *)
emergency_close_all ==
    /\ stopping' = TRUE /\ open_positions' = 0
    /\ UNCHANGED <<portfolio, pnl_today_sol, held, trades, stake>>

DeskNext ==
    \/ \E x \in Positions :
          \/ \E odds \in Odds : Opens(x, odds)
          \/ \E g \in Gains : PriceMoves(x, g)
          \/ Rests(x) \/ Closes(x)
    \/ emergency_close_all

DeskSpec == DeskInit /\ [][DeskNext]_deskVars

-----------------------------------------------------------------------------
(* Properties *)

(* FailSafes counts a loss when it is made, so that the limit of the day   *)
(* can be passed, but by no more than was invested when the last position  *)
(* was opened.  Sizing never touches the reserve for fees.  The count of   *)
(* positions is right and within its limit until emergency_close_all():    *)
(* that clears it and sells nothing (fail_safes.py lines 24-30,            *)
(* position_sizing.py lines 8-12).                                         *)
LossBounded ==
    /\ pnl_today_sol - Invested(held) >= -max_daily_loss_sol - stake
    /\ portfolio >= fee_reserve_sol
    /\ ~stopping => /\ open_positions = Cardinality(Occupied)
                    /\ open_positions <= max_open_positions

(* What makes it inductive: money is only moved between what is invested,  *)
(* what is not, and the gains of the day; and a position that is open has  *)
(* cost something.                                                         *)
CapitalKept ==
    /\ portfolio + Invested(held) - pnl_today_sol = Capital
    /\ \A x \in Occupied : held[x].cost > 0 /\ held[x].pnl_bps >= -10000
=============================================================================
