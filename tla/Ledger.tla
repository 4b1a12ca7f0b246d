------------------------------- MODULE Ledger -------------------------------
(***************************************************************************)
(* What a BoltBet wallet promises, whatever the interleaving of the calls  *)
(* that use it: a balance that the audit trail explains row by row, and at *)
(* most one posting of each kind for a reference whose calls do not        *)
(* overlap.  Wallet.tla (WalletService over Postgres) implements this      *)
(* specification; BetFlow.tla uses its operators for the wallet's atomic   *)
(* postings.                                                               *)
(***************************************************************************)
EXTENDS Integers, Sequences

CONSTANTS
    User,       \* account holders
    Ref,        \* idempotency keys: client mutation ids and bet ids
    MaxCents,   \* largest value of the int4 column balanceCents
    Unique      \* references whose calls never overlap (see Wallet.tla)

ASSUME MaxCentsAssumption == MaxCents \in Nat \ {0}
ASSUME UniqueAssumption == Unique \subseteq Ref

VARIABLES
    balance,    \* balance[u] in cents, 0 while u has no wallet row
    ledger      \* ledger[u]: u's walletTransactions rows in commit order

Cents == 0 .. MaxCents
Amount == 1 .. MaxCents
TransactionType == {"DEPOSIT", "DEBIT", "CREDIT"}
Row == [type : TransactionType, amount : Amount, after : Cents, ref : Ref]

\* The balance that a posting of this type and amount makes of `cents`.
NewBalance(cents, type, amount) ==
    IF type = "DEBIT" THEN cents - amount ELSE cents + amount

\* Mutant of CanPost: the balance check of a DEBIT is missing.
CanPostOverdraft(cents, type, amount) == NewBalance(cents, type, amount) <= MaxCents

\* A DEBIT needs a sufficient balance and the column holds at most MaxCents:
\* both bounds are this one condition.
CanPost(cents, type, amount) == NewBalance(cents, type, amount) \in Cents

Posted(u, type, ref) ==
    \E i \in DOMAIN ledger[u] :
        ledger[u][i].type = type /\ ledger[u][i].ref = ref

\* Commits a posting computed from the balance `cents` its transaction read.
PostFrom(u, cents, type, amount, ref) ==
    LET after == NewBalance(cents, type, amount) IN
    /\ balance' = [balance EXCEPT ![u] = after]
    /\ ledger' = [ledger EXCEPT ![u] = Append(@,
           [type |-> type, amount |-> amount, after |-> after, ref |-> ref])]

-----------------------------------------------------------------------------
LedgerInit ==
    /\ balance = [u \in User |-> 0]
    /\ ledger = [u \in User |-> << >>]

PostOnce(u, type, amount, ref) ==
    /\ CanPost(balance[u], type, amount)
    /\ ref \in Unique => ~Posted(u, type, ref)
    /\ PostFrom(u, balance[u], type, amount, ref)

LedgerNext ==
    \E u \in User, type \in TransactionType, amount \in Amount, ref \in Ref :
        PostOnce(u, type, amount, ref)

LedgerSpec == LedgerInit /\ [][LedgerNext]_<<balance, ledger>>

-----------------------------------------------------------------------------
LedgerTypeOK ==
    /\ balance \in [User -> Cents]
    /\ ledger \in [User -> Seq(Row)]

\* The balance after the first i rows of u, as the rows themselves record it.
BalanceAt(u, i) == IF i = 0 THEN 0 ELSE ledger[u][i].after

\* The audit trail replays to the balance: every row's balanceAfterCents is
\* the previous row's, moved by the row's own amount, and the wallet's
\* balanceCents is what the last row says.  It is what FOR UPDATE is for in
\* applyTransaction: a balance read before another commit breaks it.
LedgerReplays ==
    \A u \in User :
        /\ balance[u] = BalanceAt(u, Len(ledger[u]))
        /\ \A i \in DOMAIN ledger[u] :
               ledger[u][i].after = NewBalance(BalanceAt(u, i - 1),
                                               ledger[u][i].type,
                                               ledger[u][i].amount)

\* A reference whose calls do not overlap is posted at most once per kind,
\* however often it is retried and wherever an earlier attempt failed: what
\* the findOne in front of applyTransaction is for.
PostedOnce ==
    \A u \in User : \A i, j \in DOMAIN ledger[u] :
        /\ ledger[u][i].ref \in Unique
        /\ ledger[u][i].ref = ledger[u][j].ref
        /\ ledger[u][i].type = ledger[u][j].type
        => i = j
=============================================================================
