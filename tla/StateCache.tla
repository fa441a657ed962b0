----------------------------- MODULE StateCache -----------------------------
(***************************************************************************)
(* rust/crates/state_cache: snapshots of accounts under a lock, and a      *)
(* thread that removes those that have expired.  It collects their keys    *)
(* under the read lock, and removes them under the write lock it takes     *)
(* after that.  hunterd looks things up; inserting is left to a caller     *)
(* that the program does not have yet.                                     *)
(***************************************************************************)
EXTENDS Integers

CONSTANTS Accounts, Ttl     \* ttl, in the sweeper's sleeps

ASSUME CacheAssumption == Ttl \in Nat

VARIABLES
    tier1,      \* the seconds since each account's entry was made, or NoEntry
    expired,    \* what the sweeper has collected
    sweeper,    \* sleeping, or between its two locks
    inserted,   \* not in the code: the seconds since the last insert_hot() of each
    raced       \* not in the code: accounts whose entry was made anew in between

stateVars == <<tier1, expired, sweeper, inserted, raced>>

NoEntry == -1
Old == Ttl + 1     \* whatever has expired

StateInit ==
    /\ tier1 = [k \in Accounts |-> NoEntry] /\ expired = {} /\ sweeper = "sleeping"
    /\ inserted = [k \in Accounts |-> Old] /\ raced = {}

insert_hot(k) ==
    /\ tier1' = [tier1 EXCEPT ![k] = 0]
    /\ inserted' = [inserted EXCEPT ![k] = 0]
    /\ raced' = IF k \in expired THEN raced \cup {k} ELSE raced \ {k}
    /\ UNCHANGED <<expired, sweeper>>

(* What get_hot() finds.                                                   *)
Found(k) == tier1[k] # NoEntry /\ tier1[k] <= Ttl

(* Mutant: entries are collected a second before they expire.              *)
CollectsEarly ==
    /\ sweeper = "sleeping" /\ sweeper' = "collected"
    /\ expired' = {k \in Accounts : tier1[k] >= Ttl}
    /\ UNCHANGED <<tier1, inserted, raced>>

Collects ==
    /\ sweeper = "sleeping" /\ sweeper' = "collected"
    /\ expired' = {k \in Accounts : tier1[k] > Ttl}
    /\ UNCHANGED <<tier1, inserted, raced>>

Removes ==
    /\ sweeper = "collected" /\ sweeper' = "sleeping"
    /\ tier1' = [k \in Accounts |-> IF k \in expired THEN NoEntry ELSE tier1[k]]
    /\ expired' = {}
    /\ UNCHANGED <<inserted, raced>>

EntriesAge ==
    /\ tier1' = [k \in Accounts |-> IF tier1[k] \in {NoEntry, Old} THEN tier1[k] ELSE tier1[k] + 1]
    /\ inserted' = [k \in Accounts |-> IF inserted[k] = Old THEN Old ELSE inserted[k] + 1]
    /\ UNCHANGED <<expired, sweeper, raced>>

StateNext == (\E k \in Accounts : insert_hot(k)) \/ Collects \/ Removes \/ EntriesAge
StateSpec == StateInit /\ [][StateNext]_stateVars

-----------------------------------------------------------------------------
(* Properties *)

(* An entry is as old as its last insert, and is collected only when it is *)
(* old, unless it has been made anew.                                      *)
EntriesDated ==
    /\ tier1 \in [Accounts -> -1..Old] /\ inserted \in [Accounts -> 0..Old]
    /\ \A k \in Accounts : tier1[k] # NoEntry => tier1[k] = inserted[k]
    /\ \A k \in expired : k \in raced \/ inserted[k] = Old

(* A lookup finds what was last inserted for as long as it is fresh, with  *)
(* one exception: an entry put in the place of an expired one, while the   *)
(* sweeper stands between its two locks, is removed with it.  What is not  *)
(* found hunterd takes for a clean token (lib.rs lines 33-71).             *)
FreshKept ==
    \A k \in Accounts : Found(k) <=> inserted[k] <= Ttl /\ (tier1[k] # NoEntry \/ k \notin raced)
=============================================================================
