------------------------------- MODULE Orders -------------------------------
(***************************************************************************)
(* execution/order_manager.py, wallet/multi_wallet.py and                  *)
(* wallet/nonce_manager.py: none of the three knows the others.  The       *)
(* trader that joins them is not in the repository: it takes the next      *)
(* wallet and its nonce for an order, and stores the nonce the chain went  *)
(* on to when the order is confirmed.  A nonce is the number of times it   *)
(* was advanced; a signature is the place of its order in the history.     *)
(***************************************************************************)
EXTENDS Naturals, Sequences

CONSTANTS OrderIds,
          WalletList,   \* _wallets
          MaxOrders     \* bound on the orders of a run

WalletSet == {WalletList[i] : i \in DOMAIN WalletList}

ASSUME OrdersAssumption ==
    /\ WalletList \in Seq(WalletSet) /\ WalletList # <<>>
    /\ \A i, j \in DOMAIN WalletList : WalletList[i] = WalletList[j] => i = j

VARIABLES
    orders,    \* OrderManager.orders
    turn,      \* how many wallets _cycle has returned
    nonces,    \* NonceManager._nonces, or NoNonce
    history    \* not in the code: all orders in the order they were created

orderVars == <<orders, turn, nonces, history>>

NoNonce == 0
NoOrder == [state |-> "none", signature |-> 0]

OrdersInit ==
    /\ orders = [o \in OrderIds |-> NoOrder]
    /\ turn = 0
    /\ nonces = [w \in WalletSet |-> NoNonce]
    /\ history = <<>>

(* Mutant: every call begins a cycle of its own.                           *)
FirstWallet == WalletList[1]

(* itertools.cycle() goes round.                                           *)
next_wallet == WalletList[(turn % Len(WalletList)) + 1]

set_nonce(w, n) == nonces' = [nonces EXCEPT ![w] = n]
get_nonce(w) == nonces[w]

(* An order of the same id is replaced.                                    *)
create(o) == orders' = [orders EXCEPT ![o] = [state |-> "pending", signature |-> 0]]

(* Without a signature the order keeps the one it has.                     *)
transition(o, state, signature) ==
    orders' = [orders EXCEPT ![o] = [state |-> state, signature |-> IF signature # 0 THEN signature
                                                                    ELSE @.signature]]

InFlight == {"pending", "submitted"}     \* of OrderState
Underway == {i \in DOMAIN history : history[i].ends = "underway"}
Settles(i, how) == history' = [history EXCEPT ![i].ends = how]

-----------------------------------------------------------------------------
(* The trader *)

(* It retries under the same id an order that is over.                     *)
Creates(o) ==
    /\ Len(history) < MaxOrders /\ \A i \in Underway : history[i].id # o
    /\ create(o)
    /\ turn' = turn + 1
    /\ history' = Append(history, [id |-> o, wallet |-> next_wallet, nonce |-> get_nonce(next_wallet),
                                   ends |-> "underway",
                                   before |-> {i \in DOMAIN history : history[i].ends = "confirmed"}])
    /\ UNCHANGED nonces

(* At the start, and for a wallet whose account is new.                    *)
Provisions(w) == get_nonce(w) = NoNonce /\ set_nonce(w, 1) /\ UNCHANGED <<orders, turn, history>>

simulate(i) == TRUE     \* of blockchain/simulator.py, whatever the order

Submits(i) ==
    /\ i \in Underway /\ orders[history[i].id].state = "pending" /\ simulate(i)
    /\ transition(history[i].id, "submitted", i)
    /\ UNCHANGED <<turn, nonces, history>>

(* The chain accepts one transaction for each nonce, and advances it.      *)
Confirmed(i) ==
    /\ i \in Underway /\ orders[history[i].id].state = "submitted"
    /\ history[i].nonce \in {NoNonce, get_nonce(history[i].wallet)}
    /\ transition(history[i].id, "confirmed", 0)
    /\ IF history[i].nonce = NoNonce THEN UNCHANGED nonces
       ELSE set_nonce(history[i].wallet, history[i].nonce + 1)
    /\ Settles(i, "confirmed")
    /\ UNCHANGED turn

(* It never reached a block.                                               *)
Fails(i) ==
    /\ i \in Underway /\ orders[history[i].id].state \in InFlight
    /\ transition(history[i].id, "failed", 0)
    /\ Settles(i, "failed")
    /\ UNCHANGED <<turn, nonces>>

OrdersNext ==
    \/ \E o \in OrderIds : Creates(o)
    \/ \E w \in WalletSet : Provisions(w)
    \/ \E i \in DOMAIN history : Submits(i) \/ Confirmed(i) \/ Fails(i)

OrdersSpec == OrdersInit /\ [][OrdersNext]_orderVars

-----------------------------------------------------------------------------
(* Properties *)

(* Two orders share a nonce only if the first was not yet confirmed when   *)
(* the wallet's turn came round again, a whole number of rounds later; no  *)
(* nonce is confirmed twice.  An order that went out can be traced: it has *)
(* the signature it was submitted with, also after a transition without    *)
(* one and under an id that was used before (multi_wallet.py line 20,      *)
(* nonce_manager.py lines 14-18, order_manager.py lines 34-45).            *)
NoncesApart ==
    /\ \A i, j \in DOMAIN history :
          i < j /\ history[i].wallet = history[j].wallet =>
              /\ (j - i) % Len(WalletList) = 0
              /\ history[i].nonce = history[j].nonce /\ history[i].nonce # NoNonce =>
                     /\ i \notin history[j].before
                     /\ "confirmed" \notin {history[i].ends} \cap {history[j].ends}
    /\ \A i \in DOMAIN history :
          /\ \A j \in DOMAIN history : history[j].id = history[i].id => j <= i
          /\ orders[history[i].id].state \in {"submitted", "confirmed"}
          => orders[history[i].id].signature = i
=============================================================================
