----------------------------- MODULE LedgerBook -----------------------------
(***************************************************************************)
(* The member wallet book: the column users.balance and the append-only    *)
(* table ledger_entries (migrations/0010_wallet_ledger.sql).  Every        *)
(* handler that moves member money locks the user's row, writes the new    *)
(* balance and inserts one ledger row that repeats it in balance_after,    *)
(* all in one SQL transaction; a violated constraint rolls all of it back. *)
(*                                                                         *)
(* The table is kept per user, in the order the user-row lock gives it.    *)
(* Its `source` column is UNIQUE over the whole table.                     *)
(***************************************************************************)
EXTENDS Integers, Sequences, FiniteSets

CONSTANTS
    Users,       \* members
    Sources,     \* values of ledger_entries.source
    MaxBalance,  \* bound: i64::MAX in checked_add
    MaxRows      \* bound: ledger rows per user (a cap for model checking)

ASSUME BookAssumption == MaxBalance \in Nat /\ MaxRows \in Nat

VARIABLES
    balance,  \* users.balance
    ledger    \* ledger_entries, per user

bookVars == <<balance, ledger>>

Row == [source    : Sources,
        direction : {-1, 1},
        amount    : Nat \ {0},
        after     : Nat]

BookTypeOK ==
    /\ balance \in [Users -> Nat]
    /\ ledger \in [Users -> Seq(Row)]

BookInit ==
    /\ balance = [u \in Users |-> 0]
    /\ ledger = [u \in Users |-> <<>>]

Posted(source) ==
    \E u \in Users : \E i \in DOMAIN ledger[u] : ledger[u][i].source = source

(* Mutants of Post: no CHECK (balance >= 0); balance_after read too early. *)
OverdraftPost(u, source, direction, n) ==
    /\ n > 0 /\ ~Posted(source) /\ Len(ledger[u]) < MaxRows
    /\ balance' = [balance EXCEPT ![u] = @ + direction * n]
    /\ ledger' = [ledger EXCEPT ![u] =
                    Append(@, [source |-> source, direction |-> direction,
                               amount |-> n, after |-> balance[u] + direction * n])]

StalePost(u, source, direction, n) ==
    /\ n > 0 /\ ~Posted(source) /\ Len(ledger[u]) < MaxRows
    /\ balance[u] + direction * n \in 0 .. MaxBalance
    /\ balance' = [balance EXCEPT ![u] = @ + direction * n]
    /\ ledger' = [ledger EXCEPT ![u] =
                    Append(@, [source |-> source, direction |-> direction,
                               amount |-> n, after |-> balance[u]])]

(***************************************************************************)
(* One posting.  direction is 1 (credit) or -1 (debit).  The guards are    *)
(* CHECK (amount > 0), UNIQUE(source), CHECK (balance >= 0) and the        *)
(* checked arithmetic of the handlers.                                     *)
(***************************************************************************)
Post(u, source, direction, n) ==
    /\ n > 0
    /\ ~Posted(source)
    /\ Len(ledger[u]) < MaxRows
    /\ balance[u] + direction * n \in 0 .. MaxBalance
    /\ balance' = [balance EXCEPT ![u] = @ + direction * n]
    /\ ledger' = [ledger EXCEPT ![u] =
                    Append(@, [source    |-> source,
                               direction |-> direction,
                               amount    |-> n,
                               after     |-> balance[u] + direction * n])]

(***************************************************************************)
(* Credits to several users in one SQL transaction, a row per positive     *)
(* share (vouchers/giveaway.rs).  source and share are functions on Users. *)
(***************************************************************************)
PostAll(source, share) ==
    /\ \A u \in Users :
          /\ share[u] > 0 => ~Posted(source[u]) /\ Len(ledger[u]) < MaxRows
          /\ balance[u] + share[u] <= MaxBalance
    /\ balance' = [u \in Users |-> balance[u] + share[u]]
    /\ ledger' = [u \in Users |->
                    IF share[u] = 0 THEN ledger[u]
                    ELSE Append(ledger[u],
                                [source    |-> source[u],
                                 direction |-> 1,
                                 amount    |-> share[u],
                                 after     |-> balance[u] + share[u]])]

-----------------------------------------------------------------------------
AfterOf(u, i) == IF i = 0 THEN 0 ELSE ledger[u][i].after

(***************************************************************************)
(* The book balances: each ledger row carries the running balance of its   *)
(* user, starting from zero, and users.balance is the last of them.  Hence *)
(* the balance is the sum of the ledger, whatever handlers interleaved.    *)
(***************************************************************************)
LedgerChained ==
    \A u \in Users :
        /\ \A i \in 1 .. Len(ledger[u]) :
              ledger[u][i].after =
                 AfterOf(u, i - 1) + ledger[u][i].direction * ledger[u][i].amount
        /\ balance[u] = AfterOf(u, Len(ledger[u]))
=============================================================================
