------------------------------- MODULE Wallet -------------------------------
(***************************************************************************)
(* WalletService over Postgres: deposit, debit and credit each look for a  *)
(* row with their reference outside any transaction, then run              *)
(* applyTransaction, which locks the wallet row (SELECT ... FOR UPDATE) or *)
(* inserts it, moves the balance and appends the audit row.  getBalance    *)
(* inserts a missing wallet on the strength of a lagging replica.          *)
(***************************************************************************)
EXTENDS Ledger

CONSTANTS
    Caller,     \* concurrent calls the API process serves
    NoCaller,   \* nobody holds the lock
    Job         \* the calls that are made: user, type, amount, reference

ASSUME CallerAssumption == NoCaller \notin Caller
ASSUME JobAssumption ==
    Job \subseteq [user : User, type : TransactionType, amount : Amount, ref : Ref]

VARIABLES
    wallets,    \* users whose wallets row is committed on the primary
    lock,       \* lock[u]: the open transaction that locked or inserted u's row
    calls,      \* calls[c]: the state of caller c's call
    opening,    \* users for whom a getBalance saw no wallet and will insert one
    replica     \* users whose wallets row the replica shows

vars == <<balance, ledger, wallets, lock, calls, opening, replica>>

Idle == [pc |-> "idle"]
Step == {"find", "lock", "insert", "write"}
Call == [pc : Step, job : Job, read : Cents]

TypeOK ==
    /\ LedgerTypeOK
    /\ wallets \subseteq User
    /\ lock \in [User -> Caller \cup {NoCaller}]
    /\ calls \in [Caller -> Call \cup {Idle}]
    /\ opening \subseteq User
    /\ replica \subseteq User

At(c, pc) == calls[c].pc = pc
Goto(c, pc) == calls' = [calls EXCEPT ![c].pc = pc]

Init ==
    /\ LedgerInit
    /\ wallets = {}
    /\ lock = [u \in User |-> NoCaller]
    /\ calls = [c \in Caller |-> Idle]
    /\ opening = {}
    /\ replica = {}

-----------------------------------------------------------------------------
\* Mutant of Existing: every kind of call looks for a DEPOSIT.
ExistingDeposit(job) == Posted(job.user, "DEPOSIT", job.ref)

\* deposit() looks the reference up under any type, debit() and credit()
\* under their own.
Existing(job) ==
    IF job.type = "DEPOSIT"
    THEN \E type \in TransactionType : Posted(job.user, type, job.ref)
    ELSE Posted(job.user, job.type, job.ref)

Overlaps(c, job) ==
    \E d \in Caller \ {c} :
        /\ calls[d] # Idle
        /\ calls[d].job.user = job.user
        /\ calls[d].job.ref = job.ref

\* A call arrives.  For a reference in Unique the environment starts a call
\* only when no other call with that reference is in flight; retries after
\* an answer or a failure are always allowed.
Start(c, job) ==
    /\ calls[c] = Idle
    /\ job.ref \in Unique => ~Overlaps(c, job)
    /\ calls' = [calls EXCEPT ![c] = [pc |-> "find", job |-> job, read |-> 0]]
    /\ UNCHANGED <<balance, ledger, wallets, lock, opening, replica>>

\* The idempotency check: a row with the reference is the answer.
FindExisting(c) ==
    /\ At(c, "find")
    /\ IF Existing(calls[c].job)
       THEN calls' = [calls EXCEPT ![c] = Idle]
       ELSE Goto(c, "lock")
    /\ UNCHANGED <<balance, ledger, wallets, lock, opening, replica>>

\* Mutant of LockFree: the row is read without FOR UPDATE.
NoLock(u) == lock[u] \in Caller \cup {NoCaller}

LockFree(u) == lock[u] = NoCaller

\* SELECT ... FOR UPDATE finds the row once no other transaction holds it.
LockWallet(c) ==
    LET u == calls[c].job.user IN
    /\ At(c, "lock")
    /\ u \in wallets
    /\ LockFree(u)
    /\ lock' = [lock EXCEPT ![u] = c]
    /\ calls' = [calls EXCEPT ![c].pc = "write", ![c].read = balance[u]]
    /\ UNCHANGED <<balance, ledger, wallets, opening, replica>>

\* ... or finds no row: one that is inserted but not committed is invisible.
SeeNoWallet(c) ==
    /\ At(c, "lock")
    /\ calls[c].job.user \notin wallets
    /\ Goto(c, "insert")
    /\ UNCHANGED <<balance, ledger, wallets, lock, opening, replica>>

\* The insert waits for another transaction's uncommitted row of this user.
InsertWallet(c) ==
    LET u == calls[c].job.user IN
    /\ At(c, "insert")
    /\ u \notin wallets
    /\ LockFree(u)
    /\ lock' = [lock EXCEPT ![u] = c]
    /\ calls' = [calls EXCEPT ![c].pc = "write", ![c].read = 0]
    /\ UNCHANGED <<balance, ledger, wallets, opening, replica>>

\* The unique index on userId refuses a second row: the call fails.
DuplicateWallet(c) ==
    /\ At(c, "insert")
    /\ calls[c].job.user \in wallets
    /\ calls' = [calls EXCEPT ![c] = Idle]
    /\ UNCHANGED <<balance, ledger, wallets, lock, opening, replica>>

\* The rest of the transaction: new balance, audit row, commit.
Commit(c) ==
    LET job == calls[c].job IN
    /\ At(c, "write")
    /\ CanPost(calls[c].read, job.type, job.amount)
    /\ PostFrom(job.user, calls[c].read, job.type, job.amount, job.ref)
    /\ wallets' = wallets \cup {job.user}
    /\ lock' = [lock EXCEPT ![job.user] = NoCaller]
    /\ calls' = [calls EXCEPT ![c] = Idle]
    /\ UNCHANGED <<opening, replica>>

\* Mutant of Rollback: the transaction is left open.
LeaveOpen(c) ==
    /\ calls' = [calls EXCEPT ![c] = Idle]
    /\ UNCHANGED <<balance, ledger, wallets, lock, opening, replica>>

\* Rolls back and frees what c holds; an inserted wallet row goes with it.
Rollback(c) ==
    /\ lock' = [u \in User |-> IF lock[u] = c THEN NoCaller ELSE lock[u]]
    /\ calls' = [calls EXCEPT ![c] = Idle]
    /\ UNCHANGED <<balance, ledger, wallets, opening, replica>>

\* Insufficient balance, or a sum the integer column cannot hold.
Refuse(c) ==
    LET job == calls[c].job IN
    /\ At(c, "write")
    /\ ~CanPost(calls[c].read, job.type, job.amount)
    /\ Rollback(c)

\* The connection or the process fails before the commit.
Abort(c) ==
    /\ calls[c] # Idle
    /\ Rollback(c)

-----------------------------------------------------------------------------
\* getBalance: a user the replica does not show is given an empty wallet.
MissWallet(u) ==
    /\ u \notin replica
    /\ opening' = opening \cup {u}
    /\ UNCHANGED <<balance, ledger, wallets, lock, calls, replica>>

\* Mutant of OpenWallet: an upsert instead of an insert.
UpsertWallet(u) ==
    /\ u \in opening
    /\ LockFree(u)
    /\ wallets' = wallets \cup {u}
    /\ balance' = [balance EXCEPT ![u] = 0]
    /\ opening' = opening \ {u}
    /\ UNCHANGED <<ledger, lock, calls, replica>>

\* The insert of getOrCreateWallet waits for an uncommitted row of u; with a
\* row already there it fails on the unique index and changes nothing.
OpenWallet(u) ==
    /\ u \in opening
    /\ u \in wallets \/ LockFree(u)
    /\ wallets' = wallets \cup {u}
    /\ balance' = [balance EXCEPT ![u] = IF u \in wallets THEN @ ELSE 0]
    /\ opening' = opening \ {u}
    /\ UNCHANGED <<ledger, lock, calls, replica>>

\* Streaming replication catches up.
Replicate ==
    /\ replica' = wallets
    /\ UNCHANGED <<balance, ledger, wallets, lock, calls, opening>>

-----------------------------------------------------------------------------
\* The steps by which a call that is not disturbed comes to its end.
Progress(c) ==
    \/ FindExisting(c) \/ LockWallet(c) \/ SeeNoWallet(c) \/ InsertWallet(c)
    \/ DuplicateWallet(c) \/ Commit(c) \/ Refuse(c)

Next ==
    \/ \E c \in Caller : Progress(c) \/ Abort(c)
    \/ \E c \in Caller, job \in Job : Start(c, job)
    \/ \E u \in User : MissWallet(u) \/ OpenWallet(u)
    \/ Replicate

\* Strong fairness: Postgres serves the waiters of a row lock in their order,
\* so a call is not overtaken for ever at LockWallet or InsertWallet.
Fairness == \A c \in Caller : SF_vars(Progress(c))

Spec == Init /\ [][Next]_vars
FairSpec == Spec /\ Fairness

-----------------------------------------------------------------------------
\* Every call to the wallet returns: the row lock is never left behind by a
\* refused, failed or finished transaction, and the insert of a first wallet
\* does not wait for ever (applyTransaction's commit, catch and finally).
CallsReturn == \A c \in Caller : calls[c] # Idle ~> calls[c] = Idle

\* The strengthening that makes LedgerReplays inductive: a transaction past
\* its lock is the only one on its wallet and has read the balance that is
\* still there; a user without a wallet row has neither money nor history.
LockDiscipline ==
    /\ \A c \in Caller :
           At(c, "write") =>
               /\ lock[calls[c].job.user] = c
               /\ calls[c].read = balance[calls[c].job.user]
    /\ \A u \in User :
           /\ lock[u] # NoCaller =>
                  At(lock[u], "write") /\ calls[lock[u]].job.user = u
           /\ u \notin wallets => balance[u] = 0 /\ ledger[u] = << >>

\* The strengthening that makes PostedOnce inductive: past its idempotency
\* check a call on a Unique reference is alone and nothing is posted for it.
CheckStillHolds ==
    \A c \in Caller :
        (calls[c] # Idle /\ calls[c].job.ref \in Unique) =>
            /\ ~Overlaps(c, calls[c].job)
            /\ calls[c].pc # "find" =>
                   ~Posted(calls[c].job.user, calls[c].job.type, calls[c].job.ref)
=============================================================================
