------------------------------- MODULE Ledger -------------------------------
(***************************************************************************)
(* database/models.py and database/trades.py over SQLite: the only thing   *)
(* the bot would remember after a restart.  Each call of init_db() or      *)
(* insert_trade() opens a connection of its own; a call is cut short by a  *)
(* cancellation or by the end of its process.  Nobody in the repository    *)
(* calls either.                                                           *)
(***************************************************************************)
EXTENDS Naturals, Sequences

CONSTANTS Setups,              \* calls of init_db()
          Inserts, TradeOf,    \* calls of insert_trade(), and the values each is given
          Null                 \* None, as Python passes it and SQLite stores it

(* The CREATE TABLE statements of SCHEMA, in their order.                  *)
Tables == <<"trades", "opportunities", "tokens">>
Columns ==
    {"id", "token_mint", "dex", "entry_price", "exit_price", "amount", "pnl", "tx_signature",
     "status", "created_at"}
Required == {"token_mint", "dex", "status"}
Inserted == {"token_mint", "dex", "amount", "status"}

ASSUME LedgerAssumption == \A c \in Inserts : DOMAIN TradeOf[c] = Inserted

VARIABLES
    tables,    \* the tables that exist
    rows,      \* what is committed to trades
    ran,       \* how many statements each init_db() has run
    inserts    \* how far each insert_trade() is

ledgerVars == <<tables, rows, ran, inserts>>

LedgerInit ==
    /\ tables = {} /\ rows = <<>>
    /\ ran = [s \in Setups |-> 0] /\ inserts = [c \in Inserts |-> "new"]

(* The one connection that may hold SQLite's write lock.                   *)
Writing == {c \in Inserts : inserts[c] = "executed"}

(* executescript() commits each statement by itself; a table that is there *)
(* is left as it is.                                                       *)
init_db(s) ==
    /\ ran[s] < Len(Tables) /\ Writing = {}
    /\ ran' = [ran EXCEPT ![s] = @ + 1]
    /\ tables' = tables \cup {Tables[ran'[s]]}
    /\ UNCHANGED <<rows, inserts>>

Valid(c) == \A k \in Required : TradeOf[c][k] # Null

(* The row of the insert, with the next id; the other columns stay NULL,   *)
(* but for the time of the insert.                                         *)
Row(c) ==
    [k \in Columns |-> IF k = "id" THEN Len(rows) + 1
                       ELSE IF k = "created_at" THEN "now"
                       ELSE IF k \in Inserted THEN TradeOf[c][k] ELSE Null]
Stored(c) == Append(rows, [by |-> c, row |-> Row(c)])

(* execute() begins a transaction.                                         *)
Executes(c) ==
    /\ inserts[c] = "new" /\ Writing = {}
    /\ "trades" \in tables /\ Valid(c)
    /\ inserts' = [inserts EXCEPT ![c] = "executed"]
    /\ UNCHANGED <<tables, rows, ran>>

(* No such table, a NULL where none may be, or a lock that is not given    *)
(* back in time: execute() raises.                                         *)
ExecuteFails(c) ==
    /\ inserts[c] = "new" /\ ("trades" \in tables /\ Valid(c) => Writing # {})
    /\ inserts' = [inserts EXCEPT ![c] = "raised"]
    /\ UNCHANGED <<tables, rows, ran>>

(* Mutant: the connection is closed without a commit.                      *)
CommitForgotten(c) ==
    /\ inserts[c] = "executed" /\ inserts' = [inserts EXCEPT ![c] = "returned"]
    /\ UNCHANGED <<tables, rows, ran>>

Commits(c) ==
    /\ inserts[c] = "executed" /\ inserts' = [inserts EXCEPT ![c] = "returned"]
    /\ rows' = Stored(c)
    /\ UNCHANGED <<tables, ran>>

(* A call that is cut short before or in its commit.                       *)
CutShort(c) ==
    /\ inserts[c] = "executed" /\ inserts' = [inserts EXCEPT ![c] = "cut"]
    /\ rows' \in {rows, Stored(c)}
    /\ UNCHANGED <<tables, ran>>

LedgerNext ==
    \/ \E s \in Setups : init_db(s)
    \/ \E c \in Inserts : Executes(c) \/ ExecuteFails(c) \/ Commits(c) \/ CutShort(c)

LedgerSpec == LedgerInit /\ [][LedgerNext]_ledgerVars

-----------------------------------------------------------------------------
(* Properties *)

RowsOf(c) == {i \in DOMAIN rows : rows[i].by = c}

(* The ledger is what the callers were told: an insert that returned has   *)
(* one row with all it was given, one that raised has none, and only one   *)
(* that was cut short is in doubt.  Rows keep the ids they were given, in  *)
(* the order of the commits, while other inserts fail, are cut short or    *)
(* wait, and init_db() runs again (trades.py lines 16-18).                 *)
LedgerExact ==
    /\ \A c \in Inserts :
          /\ inserts[c] = "returned" => RowsOf(c) # {}
          /\ inserts[c] \in {"new", "executed", "raised"} => RowsOf(c) = {}
          /\ \A i, j \in RowsOf(c) : i = j
    /\ \A i \in DOMAIN rows :
          /\ rows[i].row["id"] = i
          /\ \A k \in Required : rows[i].row[k] # Null
          /\ \A k \in Inserted : rows[i].row[k] = TradeOf[rows[i].by][k]
    /\ \A s \in Setups : ran[s] = Len(Tables) => \A i \in DOMAIN Tables : Tables[i] \in tables
=============================================================================
