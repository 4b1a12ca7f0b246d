---------------------------- MODULE WalletProofs ----------------------------
(* Proofs about Wallet for every set of users, references, callers, jobs:  *)
(* types, the audit trail, the lookups, the abstract ledger, and how long  *)
(* a call can take and wait.                                               *)
EXTENDS Wallet, LedgerProofs, TLAPS

-----------------------------------------------------------------------------
(* Type correctness.                                                       *)

LEMMA InitType == Init => TypeOK
<1> 0 \in Cents
    BY MaxCentsAssumption DEF Cents
<1> QED
    BY DEF Init, LedgerInit, TypeOK, LedgerTypeOK

\* A call at a step of its program is a Call, with a job of the right type.
LEMMA BusyCall ==
    ASSUME TypeOK, NEW c \in Caller, calls[c].pc # "idle" \/ calls[c] # Idle
    PROVE  /\ calls[c] \in Call
           /\ calls[c] # Idle
           /\ calls[c].job \in Job
           /\ calls[c].job.user \in User
           /\ calls[c].job.type \in TransactionType
           /\ calls[c].job.amount \in Amount
           /\ calls[c].job.ref \in Ref
           /\ calls[c].read \in Cents
<1>1. calls[c] \in Call \cup {Idle}
    BY DEF TypeOK
<1>2. calls[c] # Idle
    BY DEF Idle
<1>3. calls[c] \in Call
    BY <1>1, <1>2
<1>4. calls[c].job \in Job /\ calls[c].read \in Cents
    BY <1>3 DEF Call
<1> QED
    BY <1>2, <1>3, <1>4, JobAssumption

LEMMA NextType == TypeOK /\ [Next]_vars => TypeOK'
<1> SUFFICES ASSUME TypeOK, [Next]_vars
             PROVE  TypeOK'
    OBVIOUS
<1> USE DEF At, Goto
<1>0. Cents \subseteq Int /\ 0 \in Cents
    BY MaxCentsAssumption DEF Cents
<1>1. ASSUME NEW c \in Caller, NEW job \in Job, Start(c, job)
      PROVE  TypeOK'
    <2>1. [pc |-> "find", job |-> job, read |-> 0] \in Call
        BY <1>0 DEF Call, Step
    <2> QED
        BY <1>1, <2>1 DEF Start, TypeOK, LedgerTypeOK
<1>2. ASSUME NEW c \in Caller, FindExisting(c)
      PROVE  TypeOK'
    <2>1. calls[c] \in Call
        BY <1>2, BusyCall DEF FindExisting
    <2>2. calls' \in [Caller -> Call \cup {Idle}]
        BY <1>2, <2>1 DEF FindExisting, TypeOK, Call, Step
    <2> QED
        BY <1>2, <2>2 DEF FindExisting, TypeOK, LedgerTypeOK
<1>3. ASSUME NEW c \in Caller, LockWallet(c) \/ InsertWallet(c)
      PROVE  TypeOK'
    <2>1. calls[c] \in Call /\ calls[c].job.user \in User
        BY <1>3, BusyCall DEF LockWallet, InsertWallet
    <2>2. balance[calls[c].job.user] \in Cents
        BY <2>1 DEF TypeOK, LedgerTypeOK
    <2>3. calls' \in [Caller -> Call \cup {Idle}]
        BY <1>0, <1>3, <2>1, <2>2 DEF LockWallet, InsertWallet, TypeOK, Call, Step
    <2>4. lock' \in [User -> Caller \cup {NoCaller}]
        BY <1>3, <2>1 DEF LockWallet, InsertWallet, TypeOK
    <2> QED
        BY <1>3, <2>3, <2>4 DEF LockWallet, InsertWallet, TypeOK, LedgerTypeOK
<1>4. ASSUME NEW c \in Caller, SeeNoWallet(c)
      PROVE  TypeOK'
    <2>1. calls[c] \in Call
        BY <1>4, BusyCall DEF SeeNoWallet
    <2>2. calls' \in [Caller -> Call \cup {Idle}]
        BY <1>4, <2>1 DEF SeeNoWallet, TypeOK, Call, Step
    <2> QED
        BY <1>4, <2>2 DEF SeeNoWallet, TypeOK, LedgerTypeOK
<1>5. ASSUME NEW c \in Caller, DuplicateWallet(c)
      PROVE  TypeOK'
    BY <1>5 DEF DuplicateWallet, TypeOK, LedgerTypeOK
<1>6. ASSUME NEW c \in Caller, Commit(c)
      PROVE  TypeOK'
    <2>1. calls[c].job.user \in User
        BY <1>6, BusyCall DEF Commit
    <2>2. LedgerTypeOK'
        BY <1>6, BusyCall, PostKeepsTypes DEF Commit, TypeOK
    <2> QED
        BY <1>6, <2>1, <2>2 DEF Commit, TypeOK
<1>7. ASSUME NEW c \in Caller, Refuse(c) \/ Abort(c)
      PROVE  TypeOK'
    <2>1. Rollback(c)
        BY <1>7 DEF Refuse, Abort
    <2>2. calls' \in [Caller -> Call \cup {Idle}]
        BY <2>1 DEF Rollback, TypeOK
    <2>3. lock' \in [User -> Caller \cup {NoCaller}]
        BY <2>1 DEF Rollback, TypeOK
    <2> QED
        BY <2>1, <2>2, <2>3 DEF Rollback, TypeOK, LedgerTypeOK
<1>8. ASSUME NEW u \in User, MissWallet(u) \/ OpenWallet(u)
      PROVE  TypeOK'
    <2>1. balance' \in [User -> Cents]
        BY <1>0, <1>8 DEF MissWallet, OpenWallet, TypeOK, LedgerTypeOK
    <2> QED
        BY <1>8, <2>1 DEF MissWallet, OpenWallet, TypeOK, LedgerTypeOK
<1>9. CASE Replicate
    BY <1>9 DEF Replicate, TypeOK, LedgerTypeOK
<1>10. CASE UNCHANGED vars
    BY <1>10 DEF vars, TypeOK, LedgerTypeOK
<1> QED
    BY <1>1, <1>2, <1>3, <1>4, <1>5, <1>6, <1>7, <1>8, <1>9, <1>10
       DEF Next, Progress

\* Every reachable state is well typed; above all no balance ever leaves
\* 0 .. MaxCents (applyTransaction's balance check and the integer column).
THEOREM WalletTypeCorrect == Spec => []TypeOK
<1> QED
    BY InitType, NextType, PTL DEF Spec

-----------------------------------------------------------------------------
(* The audit trail replays.  The invariant that carries the proof is       *)
(* LockDiscipline: the balance a transaction read under its lock is still  *)
(* the balance when it commits.                                            *)

ReplayInv == TypeOK /\ LedgerReplays /\ LockDiscipline

LEMMA InitReplay == Init => ReplayInv
<1> SUFFICES ASSUME Init
             PROVE  LedgerReplays /\ LockDiscipline
    BY InitType DEF ReplayInv
<1>1. LedgerReplays
    <2>0. Len(<< >>) = 0 /\ DOMAIN << >> = {}
        OBVIOUS
    <2>1. \A u \in User : /\ balance[u] = 0
                         /\ Len(ledger[u]) = 0 /\ DOMAIN ledger[u] = {}
        BY <2>0 DEF Init, LedgerInit
    <2> QED
        BY <2>1 DEF LedgerReplays, BalanceAt
<1>2. LockDiscipline
    BY DEF Init, LedgerInit, LockDiscipline, At, Idle
<1> QED
    BY <1>1, <1>2

LEMMA NextReplay == ReplayInv /\ [Next]_vars => ReplayInv'
<1> SUFFICES ASSUME ReplayInv, [Next]_vars
             PROVE  LedgerReplays' /\ LockDiscipline'
    BY NextType DEF ReplayInv
<1>0. TypeOK /\ LedgerTypeOK /\ LedgerReplays /\ LockDiscipline
    BY DEF ReplayInv, TypeOK
<1> USE DEF At, Goto
<1>1. ASSUME NEW c \in Caller, NEW job \in Job, Start(c, job)
      PROVE  LedgerReplays' /\ LockDiscipline'
    <2>1. LedgerReplays'
        BY <1>0, <1>1, UnchangedReplays DEF Start
    <2>2. LockDiscipline'
        BY <1>0, <1>1 DEF Start, LockDiscipline, Idle, TypeOK
    <2> QED
        BY <2>1, <2>2
<1>2. ASSUME NEW c \in Caller,
             FindExisting(c) \/ SeeNoWallet(c) \/ DuplicateWallet(c)
      PROVE  LedgerReplays' /\ LockDiscipline'
    <2>1. LedgerReplays'
        BY <1>0, <1>2, UnchangedReplays DEF FindExisting, SeeNoWallet, DuplicateWallet
    <2>2. /\ calls[c].pc # "write" /\ calls'[c].pc # "write"
          /\ \A d \in Caller \ {c} : calls'[d] = calls[d]
        <3>1. calls[c] \in Call
            BY <1>0, <1>2, BusyCall DEF FindExisting, SeeNoWallet, DuplicateWallet
        <3> QED
            BY <1>0, <1>2, <3>1
               DEF FindExisting, SeeNoWallet, DuplicateWallet, Idle, TypeOK, Call
    <2>3. LockDiscipline'
        BY <1>0, <1>2, <2>2
           DEF FindExisting, SeeNoWallet, DuplicateWallet, LockDiscipline, TypeOK
    <2> QED
        BY <2>1, <2>3
<1>3. ASSUME NEW c \in Caller, LockWallet(c) \/ InsertWallet(c)
      PROVE  LedgerReplays' /\ LockDiscipline'
    <2> DEFINE u == calls[c].job.user
    <2>1. LedgerReplays'
        BY <1>0, <1>3, UnchangedReplays DEF LockWallet, InsertWallet
    <2>2. u \in User /\ calls[c] \in Call
        BY <1>0, <1>3, BusyCall DEF LockWallet, InsertWallet
    <2>3. lock' = [lock EXCEPT ![u] = c] /\ lock[u] = NoCaller
        BY <1>3 DEF LockWallet, InsertWallet, LockFree
    <2>4. /\ calls'[c].pc = "write" /\ calls'[c].job = calls[c].job
          /\ calls'[c].read = balance[u]
          /\ \A d \in Caller \ {c} : calls'[d] = calls[d]
          /\ UNCHANGED <<balance, ledger, wallets>>
        BY <1>0, <1>3, <2>2 DEF LockWallet, InsertWallet, LockDiscipline, TypeOK, Call
    <2>5. \A d \in Caller \ {c} :
             calls[d].pc = "write" => calls[d].job.user # u
        BY <1>0, <2>3, CallerAssumption DEF LockDiscipline
    <2> HIDE DEF u
    <2>6. LockDiscipline'
        BY <1>0, <2>2, <2>3, <2>4, <2>5, CallerAssumption DEF LockDiscipline, TypeOK, u
    <2> QED
        BY <2>1, <2>6
<1>4. ASSUME NEW c \in Caller, Commit(c)
      PROVE  LedgerReplays' /\ LockDiscipline'
    <2> DEFINE u == calls[c].job.user
    <2>1. /\ u \in User /\ calls[c].job.type \in TransactionType
          /\ calls[c].job.amount \in Amount /\ calls[c].job.ref \in Ref
        BY <1>0, <1>4, BusyCall DEF Commit
    <2>2. lock[u] = c /\ calls[c].read = balance[u]
        BY <1>0, <1>4 DEF Commit, LockDiscipline
    <2>3. LedgerReplays'
        BY <1>0, <1>4, <2>1, <2>2, PostReplays DEF Commit
    <2>4. /\ \A v \in User \ {u} : balance'[v] = balance[v] /\ ledger'[v] = ledger[v]
          /\ lock' = [lock EXCEPT ![u] = NoCaller]
          /\ calls' = [calls EXCEPT ![c] = Idle]
          /\ wallets' = wallets \cup {u}
        BY <1>0, <1>4 DEF Commit, PostFrom, LedgerTypeOK
    <2>5. \A d \in Caller \ {c} : calls[d].pc = "write" =>
              /\ calls[d].job.user \in User \ {u}
              /\ calls'[d] = calls[d]
        BY <1>0, <2>2, <2>4, BusyCall DEF LockDiscipline, TypeOK
    <2>6. calls'[c].pc # "write"
        BY <1>0, <2>4 DEF Idle, TypeOK
    <2> HIDE DEF u
    <2>7. LockDiscipline'
        BY <1>0, <2>1, <2>2, <2>4, <2>5, <2>6 DEF LockDiscipline, TypeOK
    <2> QED
        BY <2>3, <2>7
<1>5. ASSUME NEW c \in Caller, Refuse(c) \/ Abort(c)
      PROVE  LedgerReplays' /\ LockDiscipline'
    <2>1. Rollback(c)
        BY <1>5 DEF Refuse, Abort
    <2>2. LedgerReplays'
        BY <1>0, <2>1, UnchangedReplays DEF Rollback
    <2>3. calls'[c].pc # "write" /\ \A d \in Caller \ {c} : calls'[d] = calls[d]
        BY <1>0, <2>1 DEF Rollback, Idle, TypeOK
    <2>4. LockDiscipline'
        BY <1>0, <2>1, <2>3, BusyCall, CallerAssumption DEF Rollback, LockDiscipline, TypeOK
    <2> QED
        BY <2>2, <2>4
<1>6. ASSUME NEW u \in User, OpenWallet(u)
      PROVE  LedgerReplays' /\ LockDiscipline'
    <2>1. u \notin wallets => balance[u] = 0
        BY <1>0 DEF LockDiscipline
    <2>2. balance' = balance
        BY <1>0, <1>6, <2>1 DEF OpenWallet, LedgerTypeOK
    <2>3. LedgerReplays'
        BY <1>0, <1>6, <2>2, UnchangedReplays DEF OpenWallet
    <2>4. LockDiscipline'
        BY <1>0, <1>6, <2>2 DEF OpenWallet, LockDiscipline
    <2> QED
        BY <2>3, <2>4
<1>7. ASSUME NEW u \in User, MissWallet(u)
      PROVE  LedgerReplays' /\ LockDiscipline'
    BY <1>0, <1>7, UnchangedReplays DEF MissWallet, LockDiscipline
<1>8. CASE Replicate
    BY <1>0, <1>8, UnchangedReplays DEF Replicate, LockDiscipline
<1>9. CASE UNCHANGED vars
    BY <1>0, <1>9, UnchangedReplays DEF vars, LockDiscipline
<1> QED
    BY <1>1, <1>2, <1>3, <1>4, <1>5, <1>6, <1>7, <1>8, <1>9 DEF Next, Progress

\* Whatever calls, refusals, failures and first uses overlap, every wallet's
\* audit rows replay to its balance (applyTransaction's FOR UPDATE, the
\* unique index on userId, the rollback).
THEOREM WalletReplays == Spec => []LedgerReplays
<1>1. ReplayInv => LedgerReplays
    BY DEF ReplayInv
<1> QED
    BY <1>1, InitReplay, NextReplay, PTL DEF Spec

\* A transaction past its lock is alone on its wallet and its reading of the
\* balance is current; a user without a wallet row has no history.
THEOREM WalletLockDiscipline == Spec => []LockDiscipline
<1>1. ReplayInv => LockDiscipline
    BY DEF ReplayInv
<1> QED
    BY <1>1, InitReplay, NextReplay, PTL DEF Spec

-----------------------------------------------------------------------------
(* A reference whose calls do not overlap is posted once.  The invariant   *)
(* that carries the proof is CheckStillHolds: the answer of the lookup     *)
(* outside the transaction is still true when the transaction commits.     *)

OnceInv == TypeOK /\ PostedOnce /\ CheckStillHolds

\* A step of one call that keeps its job, posts nothing, and has its lookup
\* behind it only if nothing is posted.
LEMMA StepKeepsChecks ==
    ASSUME TypeOK, CheckStillHolds, NEW c \in Caller, NEW call \in Call \cup {Idle},
           calls[c] # Idle,
           calls' = [calls EXCEPT ![c] = call],
           UNCHANGED ledger,
           call = Idle \/ call.job = calls[c].job,
           call # Idle =>
               \/ calls[c].pc # "find"
               \/ ~Posted(call.job.user, call.job.type, call.job.ref)
    PROVE  CheckStillHolds'
<1>1. \A d \in Caller : calls'[d] # Idle =>
          calls[d] # Idle /\ calls'[d].job = calls[d].job
    BY DEF TypeOK
<1>2. \A job : \A d \in Caller : Overlaps(d, job)' => Overlaps(d, job)
    BY <1>1 DEF Overlaps
<1>3. \A u, t, r : Posted(u, t, r)' = Posted(u, t, r)
    BY DEF Posted
<1>4. \A d \in Caller \ {c} : calls'[d] = calls[d]
    BY DEF TypeOK
<1>5. calls'[c] = call
    BY DEF TypeOK
<1> SUFFICES ASSUME NEW d \in Caller, calls'[d] # Idle, calls'[d].job.ref \in Unique
             PROVE  /\ ~Overlaps(d, calls[d].job)'
                    /\ calls'[d].pc # "find" =>
                         ~Posted(calls[d].job.user, calls[d].job.type, calls[d].job.ref)'
    BY DEF CheckStillHolds
<1>6. calls[d] # Idle /\ calls'[d].job = calls[d].job
    BY <1>1
<1>7. ~Overlaps(d, calls[d].job)'
    BY <1>2, <1>6 DEF CheckStillHolds
<1>8. ASSUME calls'[d].pc # "find"
      PROVE  ~Posted(calls'[d].job.user, calls'[d].job.type, calls'[d].job.ref)
    <2>1. CASE d = c
        BY <1>5, <1>6, <1>8, <2>1 DEF CheckStillHolds
    <2>2. CASE d # c
        BY <1>4, <1>6, <1>8, <2>2 DEF CheckStillHolds
    <2> QED
        BY <2>1, <2>2
<1> QED
    BY <1>3, <1>7, <1>8

LEMMA InitOnce == Init => OnceInv
<1> SUFFICES ASSUME Init
             PROVE  PostedOnce /\ CheckStillHolds
    BY InitType DEF OnceInv
<1>0. DOMAIN << >> = {}
    OBVIOUS
<1>1. PostedOnce
    BY <1>0 DEF Init, LedgerInit, PostedOnce
<1>2. CheckStillHolds
    BY DEF Init, CheckStillHolds
<1> QED
    BY <1>1, <1>2

LEMMA NextOnce == OnceInv /\ [Next]_vars => OnceInv'
<1> SUFFICES ASSUME OnceInv, [Next]_vars
             PROVE  PostedOnce' /\ CheckStillHolds'
    BY NextType DEF OnceInv
<1>0. TypeOK /\ LedgerTypeOK /\ PostedOnce /\ CheckStillHolds
    BY DEF OnceInv, TypeOK
<1> USE DEF At, Goto
<1>a. ASSUME UNCHANGED ledger PROVE PostedOnce'
    BY <1>0, <1>a DEF PostedOnce
<1>b. ASSUME UNCHANGED <<ledger, calls>> PROVE CheckStillHolds'
    BY <1>0, <1>b DEF CheckStillHolds, Overlaps, Posted
<1>1. ASSUME NEW c \in Caller, NEW job \in Job, Start(c, job)
      PROVE  PostedOnce' /\ CheckStillHolds'
    <2>1. PostedOnce'
        BY <1>1, <1>a DEF Start
    <2>2. /\ calls'[c].job = job /\ calls'[c].pc = "find" /\ calls[c] = Idle
          /\ \A d \in Caller \ {c} : calls'[d] = calls[d]
        BY <1>0, <1>1 DEF Start, TypeOK
    <2>3. job.ref \in Unique => ~Overlaps(c, job)
        BY <1>1 DEF Start
    <2>4. ASSUME NEW d \in Caller, calls'[d] # Idle, calls'[d].job.ref \in Unique
          PROVE  /\ ~Overlaps(d, calls[d].job)'
                 /\ calls'[d].pc # "find" =>
                      ~Posted(calls[d].job.user, calls[d].job.type, calls[d].job.ref)'
        <3>1. CASE d = c
            BY <2>2, <2>3, <2>4, <3>1 DEF Overlaps
        <3>2. CASE d # c
            <4>1. ~Overlaps(d, calls[d].job)
                BY <1>0, <2>2, <2>4, <3>2 DEF CheckStillHolds
            <4>2. ~(job.user = calls[d].job.user /\ job.ref = calls[d].job.ref)
                BY <2>2, <2>3, <2>4, <3>2 DEF Overlaps
            <4>3. ~Overlaps(d, calls[d].job)'
                BY <2>2, <3>2, <4>1, <4>2 DEF Overlaps
            <4>4. UNCHANGED ledger
                BY <1>1 DEF Start
            <4> QED
                BY <1>0, <2>2, <2>4, <3>2, <4>3, <4>4 DEF CheckStillHolds, Posted
        <3> QED
            BY <3>1, <3>2
    <2> QED
        BY <2>1, <2>4 DEF CheckStillHolds
<1>2. ASSUME NEW c \in Caller, FindExisting(c)
      PROVE  PostedOnce' /\ CheckStillHolds'
    <2>1. PostedOnce' /\ UNCHANGED ledger
        BY <1>2, <1>a DEF FindExisting
    <2>2. /\ calls[c] \in Call /\ calls[c] # Idle
          /\ calls[c].job.type \in TransactionType
        BY <1>0, <1>2, BusyCall DEF FindExisting
    <2>3. CASE Existing(calls[c].job)
        <3>1. calls' = [calls EXCEPT ![c] = Idle]
            BY <1>2, <2>3 DEF FindExisting
        <3> QED
            BY <1>0, <2>1, <2>2, <3>1, StepKeepsChecks
    <2>4. CASE ~Existing(calls[c].job)
        <3> DEFINE call == [calls[c] EXCEPT !.pc = "lock"]
        <3>1. calls' = [calls EXCEPT ![c] = call]
            BY <1>0, <1>2, <2>4 DEF FindExisting, TypeOK
        <3>2. call \in Call /\ call.job = calls[c].job
            BY <2>2 DEF Call, Step
        <3>3. ~Posted(calls[c].job.user, calls[c].job.type, calls[c].job.ref)
            BY <2>2, <2>4 DEF Existing
        <3> HIDE DEF call
        <3> QED
            BY <1>0, <2>1, <2>2, <3>1, <3>2, <3>3, StepKeepsChecks
    <2> QED
        BY <2>1, <2>3, <2>4
<1>3. ASSUME NEW c \in Caller, LockWallet(c) \/ InsertWallet(c) \/ SeeNoWallet(c)
      PROVE  PostedOnce' /\ CheckStillHolds'
    <2>1. PostedOnce' /\ UNCHANGED ledger
        BY <1>3, <1>a DEF LockWallet, InsertWallet, SeeNoWallet
    <2>2. calls[c] \in Call /\ calls[c] # Idle /\ calls[c].pc # "find"
        BY <1>0, <1>3, BusyCall DEF LockWallet, InsertWallet, SeeNoWallet
    <2>3. calls'[c] \in Call /\ calls'[c].job = calls[c].job
        <3>1. calls' \in [Caller -> Call \cup {Idle}]
            BY <1>0, NextType DEF TypeOK
        <3>2. calls'[c].job = calls[c].job /\ calls'[c].pc # "idle"
            BY <1>0, <1>3, <2>2 DEF LockWallet, InsertWallet, SeeNoWallet, TypeOK, Call
        <3> QED
            BY <3>1, <3>2 DEF Idle
    <2>4. calls' = [calls EXCEPT ![c] = calls'[c]]
        BY <1>0, <1>3 DEF LockWallet, InsertWallet, SeeNoWallet, TypeOK
    <2> QED
        BY <1>0, <2>1, <2>2, <2>3, <2>4, StepKeepsChecks
<1>4. ASSUME NEW c \in Caller, DuplicateWallet(c) \/ Refuse(c) \/ Abort(c)
      PROVE  PostedOnce' /\ CheckStillHolds'
    <2>1. PostedOnce' /\ UNCHANGED ledger
        BY <1>4, <1>a DEF DuplicateWallet, Refuse, Abort, Rollback
    <2>2. calls[c] # Idle /\ calls' = [calls EXCEPT ![c] = Idle]
        BY <1>0, <1>4, BusyCall DEF DuplicateWallet, Refuse, Abort, Rollback, Idle
    <2> QED
        BY <1>0, <2>1, <2>2, StepKeepsChecks
<1>5. ASSUME NEW c \in Caller, Commit(c)
      PROVE  PostedOnce' /\ CheckStillHolds'
    <2> DEFINE job == calls[c].job
               u == job.user
               n == Len(ledger[u])
    <2>1. /\ job \in Job /\ u \in User /\ job.type \in TransactionType
          /\ job.amount \in Amount /\ job.ref \in Ref /\ calls[c].read \in Cents
          /\ calls[c] # Idle
        BY <1>0, <1>5, BusyCall DEF Commit
    <2>2. /\ CanPost(calls[c].read, job.type, job.amount)
          /\ PostFrom(u, calls[c].read, job.type, job.amount, job.ref)
          /\ calls[c].pc # "find"
        BY <1>5 DEF Commit
    <2> HIDE DEF job, u
    <2>3. /\ ledger'[u] \in Seq(Row)
          /\ Len(ledger'[u]) = n + 1
          /\ \A i \in 1 .. n : ledger'[u][i] = ledger[u][i]
          /\ ledger'[u][n + 1].type = job.type
          /\ ledger'[u][n + 1].ref = job.ref
          /\ \A v \in User \ {u} : ledger'[v] = ledger[v]
          /\ \A v \in User : \A t, r :
                 Posted(v, t, r)' =>
                    (Posted(v, t, r) \/ (v = u /\ t = job.type /\ r = job.ref))
        BY <1>0, <2>1, <2>2, PostedAfter
    <2>4. job.ref \in Unique => /\ ~Posted(u, job.type, job.ref)
                                /\ ~Overlaps(c, job)
        BY <1>0, <2>1, <2>2 DEF CheckStillHolds, job, u
    <2>5. calls'[c] = Idle /\ \A d \in Caller \ {c} : calls'[d] = calls[d]
        BY <1>0, <1>5 DEF Commit, TypeOK
    <2>6. PostedOnce'
        <3> SUFFICES ASSUME NEW v \in User, NEW i \in DOMAIN ledger'[v],
                            NEW j \in DOMAIN ledger'[v],
                            ledger'[v][i].ref \in Unique,
                            ledger'[v][i].ref = ledger'[v][j].ref,
                            ledger'[v][i].type = ledger'[v][j].type
                     PROVE  i = j
            BY DEF PostedOnce
        <3>1. CASE v # u
            BY <1>0, <2>3, <3>1 DEF PostedOnce
        <3>2. CASE v = u
            <4>1. ledger[u] \in Seq(Row)
                BY <1>0, <2>1 DEF LedgerTypeOK
            <4>2. /\ n \in Nat /\ DOMAIN ledger[u] = 1 .. n
                  /\ DOMAIN ledger'[u] = 1 .. n + 1
                BY <2>3, <4>1
            <4>3. CASE i \in 1 .. n /\ j \in 1 .. n
                BY <1>0, <2>1, <2>3, <3>2, <4>2, <4>3 DEF PostedOnce
            <4>4. CASE i = n + 1 /\ j \in 1 .. n
                BY <2>3, <2>4, <3>2, <4>2, <4>4 DEF Posted
            <4>5. CASE j = n + 1 /\ i \in 1 .. n
                BY <2>3, <2>4, <3>2, <4>2, <4>5 DEF Posted
            <4>6. CASE i = n + 1 /\ j = n + 1
                BY <4>6
            <4> QED
                BY <3>2, <4>2, <4>3, <4>4, <4>5, <4>6
        <3> QED
            BY <3>1, <3>2
    <2>7. ASSUME NEW d \in Caller, calls'[d] # Idle, calls'[d].job.ref \in Unique
          PROVE  /\ ~Overlaps(d, calls[d].job)'
                 /\ calls'[d].pc # "find" =>
                      ~Posted(calls[d].job.user, calls[d].job.type, calls[d].job.ref)'
        <3>1. d # c /\ calls'[d] = calls[d] /\ calls[d] # Idle
            BY <2>5, <2>7
        <3>2. ~Overlaps(d, calls[d].job)
            BY <1>0, <2>7, <3>1 DEF CheckStillHolds
        <3>3. ~Overlaps(d, calls[d].job)'
            BY <2>5, <3>1, <3>2 DEF Overlaps
        <3>4. ~(calls[d].job.user = u /\ calls[d].job.ref = job.ref)
            BY <2>1, <3>1, <3>2 DEF Overlaps, job, u
        <3>5. calls[d].job.user \in User
            BY <1>0, <3>1, BusyCall
        <3>6. calls[d].pc # "find" =>
                  ~Posted(calls[d].job.user, calls[d].job.type, calls[d].job.ref)
            BY <1>0, <2>7, <3>1 DEF CheckStillHolds
        <3>7. ASSUME calls[d].pc # "find"
              PROVE  ~Posted(calls[d].job.user, calls[d].job.type, calls[d].job.ref)'
            <4>1. ASSUME NEW v \in User, NEW t, NEW r,
                         ~Posted(v, t, r), ~(v = u /\ r = job.ref)
                  PROVE  ~Posted(v, t, r)'
                BY <2>3, <4>1
            <4> QED
                BY <3>1, <3>4, <3>5, <3>6, <3>7, <4>1
        <3> QED
            BY <3>1, <3>3, <3>7
    <2> QED
        BY <2>6, <2>7 DEF CheckStillHolds
<1>6. ASSUME NEW u \in User, MissWallet(u) \/ OpenWallet(u)
      PROVE  PostedOnce' /\ CheckStillHolds'
    BY <1>6, <1>a, <1>b DEF MissWallet, OpenWallet
<1>7. CASE Replicate \/ UNCHANGED vars
    BY <1>7, <1>a, <1>b DEF Replicate, vars
<1> QED
    BY <1>1, <1>2, <1>3, <1>4, <1>5, <1>6, <1>7 DEF Next, Progress

\* A reference whose calls never overlap is posted once per kind, whatever
\* retries, failures and other calls there are (the findOne that deposit,
\* debit and credit begin with).
THEOREM WalletPostedOnce == Spec => []PostedOnce
<1>1. OnceInv => PostedOnce
    BY DEF OnceInv
<1> QED
    BY <1>1, InitOnce, NextOnce, PTL DEF Spec

\* What the idempotency lookup found stays true until the call commits.
THEOREM WalletCheckStillHolds == Spec => []CheckStillHolds
<1>1. OnceInv => CheckStillHolds
    BY DEF OnceInv
<1> QED
    BY <1>1, InitOnce, NextOnce, PTL DEF Spec

-----------------------------------------------------------------------------
(* Wallet implements Ledger: a commit is one posting of the abstract       *)
(* ledger, every other step leaves it alone.                               *)

LEMMA StepRefines ==
    ASSUME TypeOK, LockDiscipline, CheckStillHolds, [Next]_vars
    PROVE  [LedgerNext]_<<balance, ledger>>
<1> USE DEF At, Goto
<1>1. ASSUME NEW c \in Caller, Commit(c)
      PROVE  LedgerNext
    <2> DEFINE job == calls[c].job
    <2>1. /\ job.user \in User /\ job.type \in TransactionType
          /\ job.amount \in Amount /\ job.ref \in Ref /\ calls[c] # Idle
        BY <1>1, BusyCall DEF Commit
    <2>2. calls[c].read = balance[job.user]
        BY <1>1 DEF Commit, LockDiscipline
    <2>3. job.ref \in Unique => ~Posted(job.user, job.type, job.ref)
        BY <1>1, <2>1 DEF Commit, CheckStillHolds
    <2>4. PostOnce(job.user, job.type, job.amount, job.ref)
        BY <1>1, <2>2, <2>3 DEF Commit, PostOnce
    <2> QED
        BY <2>1, <2>4 DEF LedgerNext
<1>2. ASSUME NEW u \in User, OpenWallet(u)
      PROVE  UNCHANGED <<balance, ledger>>
    BY <1>2 DEF OpenWallet, LockDiscipline, TypeOK, LedgerTypeOK
<1>3. ASSUME NEW c \in Caller,
             \/ FindExisting(c) \/ LockWallet(c) \/ SeeNoWallet(c) \/ InsertWallet(c)
             \/ DuplicateWallet(c) \/ Refuse(c) \/ Abort(c)
      PROVE  UNCHANGED <<balance, ledger>>
    BY <1>3 DEF FindExisting, LockWallet, SeeNoWallet, InsertWallet,
                DuplicateWallet, Refuse, Abort, Rollback
<1>4. ASSUME NEW c \in Caller, NEW job \in Job, Start(c, job)
      PROVE  UNCHANGED <<balance, ledger>>
    BY <1>4 DEF Start
<1>5. ASSUME NEW u \in User, MissWallet(u)
      PROVE  UNCHANGED <<balance, ledger>>
    BY <1>5 DEF MissWallet
<1>6. ASSUME Replicate \/ UNCHANGED vars
      PROVE  UNCHANGED <<balance, ledger>>
    BY <1>6 DEF Replicate, vars
<1> QED
    BY <1>1, <1>2, <1>3, <1>4, <1>5, <1>6 DEF Next, Progress

\* WalletService keeps the promise that Ledger states: whatever runs
\* concurrently and fails, the wallets behave as if every posting were one
\* atomic, idempotent step on the current balance.
THEOREM WalletImplementsLedger == Spec => LedgerSpec
<1>1. Init => LedgerInit
    BY DEF Init
<1>2. ReplayInv => LockDiscipline
    BY DEF ReplayInv
<1>3. OnceInv => TypeOK /\ CheckStillHolds
    BY DEF OnceInv
<1>4. TypeOK /\ LockDiscipline /\ CheckStillHolds /\ [Next]_vars
          => [LedgerNext]_<<balance, ledger>>
    BY StepRefines
<1> QED
    BY <1>1, <1>2, <1>3, <1>4, InitReplay, NextReplay, InitOnce, NextOnce, PTL
       DEF Spec, LedgerSpec

\* No row of the audit trail is changed or removed, whatever calls run at once
\* and wherever one fails.
THEOREM WalletTrailStays == Spec => [][TrailIsImmutable]_<<balance, ledger>>
    BY WalletImplementsLedger, LedgerTrailStays, PTL

-----------------------------------------------------------------------------
(* How long a call can take.  The fairness of the calls apart, this is why *)
(* CallsReturn holds.                                                      *)

\* The steps that a call can still take at most.
CallLeft(c) ==
    IF calls[c] = Idle THEN 0
    ELSE CASE At(c, "find") -> 4   [] At(c, "lock") -> 3
           [] At(c, "insert") -> 2 [] OTHER -> 1

CallsAdvance ==
    \A c \in Caller :
        (calls[c] # Idle /\ calls'[c] # calls[c]) => CallLeft(c)' < CallLeft(c)

LEMMA StepAdvances ==
    ASSUME TypeOK, [Next]_vars, NEW c \in Caller, calls[c] # Idle, calls'[c] # calls[c]
    PROVE  CallLeft(c)' < CallLeft(c)
<1> USE DEF At, Goto
<1>0. calls[c] \in Call /\ calls \in [Caller -> Call \cup {Idle}]
    BY BusyCall DEF TypeOK
<1>1. PICK d \in Caller : Progress(d) \/ Abort(d) \/ \E job \in Job : Start(d, job)
    BY DEF Next, vars, MissWallet, OpenWallet, Replicate
<1>2. d = c
    BY <1>0, <1>1
       DEF Progress, FindExisting, LockWallet, SeeNoWallet, InsertWallet, DuplicateWallet,
           Commit, Refuse, Abort, Rollback, Start
<1>3. CASE calls'[c] = Idle
    BY <1>0, <1>3 DEF CallLeft, Call, Step
<1>4. CASE calls'[c] # Idle
    <2>1. \/ At(c, "find") /\ calls'[c].pc = "lock"
          \/ At(c, "lock") /\ calls'[c].pc \in {"write", "insert"}
          \/ At(c, "insert") /\ calls'[c].pc = "write"
        BY <1>0, <1>1, <1>2, <1>4
           DEF Progress, FindExisting, LockWallet, SeeNoWallet, InsertWallet, DuplicateWallet,
               Commit, Refuse, Abort, Rollback, Start, Call
    <2> QED
        BY <1>4, <2>1 DEF CallLeft
<1> QED
    BY <1>3, <1>4

\* Whatever is refused, fails or is done by others, each step of a call brings
\* it nearer to its answer.
THEOREM WalletCallsAdvance == Spec => [][CallsAdvance]_vars
<1>1. TypeOK /\ [Next]_vars => [CallsAdvance]_vars
    BY StepAdvances DEF CallsAdvance
<1> QED
    BY <1>1, WalletTypeCorrect, PTL DEF Spec

\* The user's row is locked or inserted by a transaction that is still open.
Blocked(c) ==
    LET u == calls[c].job.user IN
    /\ calls[c] # Idle
    /\ lock[u] # NoCaller
    /\ (At(c, "lock") /\ u \in wallets) \/ (At(c, "insert") /\ u \notin wallets)

WaitsAreShort ==
    \A c \in Caller : Blocked(c) =>
        LET d == lock[calls[c].job.user] IN
        /\ d \in Caller /\ calls[d] # Idle
        /\ At(d, "write")
        /\ ~Blocked(d)

\* Transactions never wait for each other in a circle, nor in a row: whoever
\* waits for a wallet waits for a transaction that has its lock, waits for
\* nobody itself and has only the commit or the rollback to come.
THEOREM WalletWaitsAreShort == Spec => []WaitsAreShort
<1>1. TypeOK /\ LockDiscipline => WaitsAreShort
    <2> SUFFICES ASSUME TypeOK, LockDiscipline, NEW c \in Caller, Blocked(c)
                 PROVE  LET d == lock[calls[c].job.user] IN
                        d \in Caller /\ calls[d] # Idle /\ At(d, "write") /\ ~Blocked(d)
        BY DEF WaitsAreShort
    <2>1. calls[c].job.user \in User
        BY BusyCall DEF Blocked
    <2>2. PICK d \in Caller : d = lock[calls[c].job.user]
        BY <2>1 DEF Blocked, TypeOK
    <2>3. At(d, "write")
        BY <2>1, <2>2 DEF Blocked, LockDiscipline
    <2>4. calls[d] # Idle /\ ~Blocked(d)
        BY <2>3 DEF At, Idle, Blocked
    <2> QED
        BY <2>2, <2>3, <2>4
<1> QED
    BY <1>1, WalletTypeCorrect, WalletLockDiscipline, PTL
=============================================================================
