---------------------------- MODULE LedgerProofs ----------------------------
(* What a posting does to the types, the replay and the contents of a      *)
(* ledger: the lemmas that the proofs about Wallet and BetFlow rest on;    *)
(* and what follows for LedgerSpec, hence for all that implements it.      *)
EXTENDS Ledger, TLAPS

\* Appending a row keeps the history and puts the row behind it.
LEMMA AppendRow ==
    ASSUME NEW S, NEW s \in Seq(S), NEW e \in S
    PROVE  /\ Append(s, e) \in Seq(S)
           /\ Len(Append(s, e)) = Len(s) + 1
           /\ DOMAIN Append(s, e) = 1 .. Len(s) + 1
           /\ \A i \in 1 .. Len(s) : Append(s, e)[i] = s[i]
           /\ Append(s, e)[Len(s) + 1] = e
    OBVIOUS

\* A posting that CanPost allows keeps the types of balance and ledger.
LEMMA PostKeepsTypes ==
    ASSUME LedgerTypeOK,
           NEW u \in User, NEW cents \in Cents, NEW type \in TransactionType,
           NEW amount \in Amount, NEW ref \in Ref,
           CanPost(cents, type, amount),
           PostFrom(u, cents, type, amount, ref)
    PROVE  LedgerTypeOK'
<1> DEFINE after == NewBalance(cents, type, amount)
           row == [type |-> type, amount |-> amount, after |-> after, ref |-> ref]
<1>1. after \in Cents
    BY DEF CanPost
<1>2. row \in Row
    BY <1>1 DEF Row
<1>3. balance' = [balance EXCEPT ![u] = after]
    BY DEF PostFrom
<1>4. ledger' = [ledger EXCEPT ![u] = Append(@, row)]
    BY DEF PostFrom
<1> HIDE DEF after, row
<1>5. Append(ledger[u], row) \in Seq(Row)
    BY <1>2, AppendRow DEF LedgerTypeOK
<1> QED
    BY <1>1, <1>3, <1>4, <1>5 DEF LedgerTypeOK

\* A posting computed from the current balance extends the history.
LEMMA PostReplays ==
    ASSUME LedgerTypeOK, LedgerReplays,
           NEW u \in User, NEW type \in TransactionType,
           NEW amount \in Amount, NEW ref \in Ref,
           CanPost(balance[u], type, amount),
           PostFrom(u, balance[u], type, amount, ref)
    PROVE  LedgerReplays'
<1> DEFINE after == NewBalance(balance[u], type, amount)
           row == [type |-> type, amount |-> amount, after |-> after, ref |-> ref]
           n == Len(ledger[u])
<1>1. after \in Cents /\ row \in Row
    BY DEF CanPost, Row
<1>2. balance' = [balance EXCEPT ![u] = after]
    BY DEF PostFrom
<1>3. ledger' = [ledger EXCEPT ![u] = Append(@, row)]
    BY DEF PostFrom
<1>4. row.after = after /\ row.type = type /\ row.amount = amount
    OBVIOUS
<1>5. balance[u] = BalanceAt(u, n)
    BY DEF LedgerReplays
<1>6. after = NewBalance(BalanceAt(u, n), row.type, row.amount)
    BY <1>4, <1>5
<1> HIDE DEF after, row
<1>7. ledger[u] \in Seq(Row) /\ n \in Nat /\ DOMAIN ledger[u] = 1 .. n
    BY DEF LedgerTypeOK
<1>8. /\ ledger'[u] = Append(ledger[u], row)
      /\ balance'[u] = after
      /\ \A v \in User \ {u} : ledger'[v] = ledger[v] /\ balance'[v] = balance[v]
    BY <1>2, <1>3 DEF LedgerTypeOK
<1>9. /\ Len(ledger'[u]) = n + 1
      /\ DOMAIN ledger'[u] = 1 .. n + 1
      /\ \A i \in 1 .. n : ledger'[u][i] = ledger[u][i]
      /\ ledger'[u][n + 1] = row
    BY <1>1, <1>7, <1>8, AppendRow
<1>10. \A i \in 0 .. n : BalanceAt(u, i)' = BalanceAt(u, i)
    BY <1>7, <1>9 DEF BalanceAt
<1>11. ledger'[u][n + 1].after = after
    BY <1>4, <1>9
<1>12. balance'[u] = BalanceAt(u, Len(ledger[u]))'
    BY <1>7, <1>8, <1>9, <1>11 DEF BalanceAt
<1>13. ASSUME NEW i \in DOMAIN ledger'[u]
       PROVE  ledger'[u][i].after = NewBalance(BalanceAt(u, i - 1)',
                                    ledger'[u][i].type, ledger'[u][i].amount)
    <2>1. CASE i = n + 1
        <3>1. BalanceAt(u, i - 1)' = BalanceAt(u, n)
            BY <1>7, <1>10, <2>1
        <3> QED
            BY <1>4, <1>6, <1>9, <2>1, <3>1
    <2>2. CASE i \in 1 .. n
        <3>1. BalanceAt(u, i - 1)' = BalanceAt(u, i - 1)
            BY <1>7, <1>10, <2>2
        <3>2. i \in DOMAIN ledger[u] /\ ledger'[u][i] = ledger[u][i]
            BY <1>7, <1>9, <2>2
        <3> QED
            BY <3>1, <3>2 DEF LedgerReplays
    <2> QED
        BY <1>7, <1>9, <2>1, <2>2
<1>14. ASSUME NEW v \in User \ {u}
       PROVE  /\ balance'[v] = BalanceAt(v, Len(ledger[v]))'
              /\ \A i \in DOMAIN ledger'[v] :
                     ledger'[v][i].after = NewBalance(BalanceAt(v, i - 1)',
                                     ledger'[v][i].type, ledger'[v][i].amount)
    BY <1>8 DEF LedgerReplays, BalanceAt
<1> QED
    BY <1>12, <1>13, <1>14 DEF LedgerReplays

\* What nothing but a posting or an opening touches.
LEMMA UnchangedReplays ==
    ASSUME LedgerReplays, UNCHANGED <<balance, ledger>>
    PROVE  LedgerReplays'
    BY DEF LedgerReplays, BalanceAt

\* What a posting adds to what is posted.
LEMMA PostedAfter ==
    ASSUME LedgerTypeOK,
           NEW u \in User, NEW cents \in Cents, NEW type \in TransactionType,
           NEW amount \in Amount, NEW ref \in Ref,
           CanPost(cents, type, amount),
           PostFrom(u, cents, type, amount, ref)
    PROVE  /\ ledger'[u] \in Seq(Row)
           /\ Len(ledger'[u]) = Len(ledger[u]) + 1
           /\ \A i \in 1 .. Len(ledger[u]) : ledger'[u][i] = ledger[u][i]
           /\ ledger'[u][Len(ledger[u]) + 1].type = type
           /\ ledger'[u][Len(ledger[u]) + 1].ref = ref
           /\ ledger'[u][Len(ledger[u]) + 1].amount = amount
           /\ \A v \in User \ {u} : ledger'[v] = ledger[v]
           /\ \A v \in User : \A t, r :
                  Posted(v, t, r)' =>
                    (Posted(v, t, r) \/ (v = u /\ t = type /\ r = ref))
<1> DEFINE after == NewBalance(cents, type, amount)
           row == [type |-> type, amount |-> amount, after |-> after, ref |-> ref]
           n == Len(ledger[u])
<1>1. row \in Row /\ row.type = type /\ row.ref = ref /\ row.amount = amount
    BY DEF CanPost, Row
<1>2. ledger' = [ledger EXCEPT ![u] = Append(@, row)]
    BY DEF PostFrom
<1> HIDE DEF row
<1>3. /\ ledger'[u] = Append(ledger[u], row)
      /\ \A v \in User \ {u} : ledger'[v] = ledger[v]
    BY <1>2 DEF LedgerTypeOK
<1>4. ledger[u] \in Seq(Row) /\ n \in Nat /\ DOMAIN ledger[u] = 1 .. n
    BY DEF LedgerTypeOK
<1>5. /\ ledger'[u] \in Seq(Row)
      /\ Len(ledger'[u]) = n + 1
      /\ DOMAIN ledger'[u] = 1 .. n + 1
      /\ \A i \in 1 .. n : ledger'[u][i] = ledger[u][i]
      /\ ledger'[u][n + 1] = row
    BY <1>1, <1>3, <1>4, AppendRow
<1>6. ASSUME NEW v \in User, NEW t, NEW r, Posted(v, t, r)'
      PROVE  Posted(v, t, r) \/ (v = u /\ t = type /\ r = ref)
    <2>1. CASE v # u
        BY <1>3, <1>6, <2>1 DEF Posted
    <2>2. CASE v = u
        <3>1. PICK i \in 1 .. n + 1 : ledger'[u][i].type = t /\ ledger'[u][i].ref = r
            BY <1>5, <1>6, <2>2 DEF Posted
        <3>2. CASE i = n + 1
            BY <1>1, <1>5, <2>2, <3>1, <3>2
        <3>3. CASE i \in 1 .. n
            BY <1>4, <1>5, <2>2, <3>1, <3>3 DEF Posted
        <3> QED
            BY <1>4, <3>2, <3>3
    <2> QED
        BY <2>1, <2>2
<1> QED
    BY <1>1, <1>3, <1>5, <1>6

\* A posting of what its reference has not posted posts nothing twice.
LEMMA PostKeepsPostedOnce ==
    ASSUME LedgerTypeOK, PostedOnce,
           NEW u \in User, NEW type \in TransactionType,
           NEW amount \in Amount, NEW ref \in Ref, NEW cents \in Cents,
           CanPost(cents, type, amount),
           PostFrom(u, cents, type, amount, ref),
           ref \in Unique => ~Posted(u, type, ref)
    PROVE  PostedOnce'
<1> DEFINE n == Len(ledger[u])
<1>1. /\ ledger'[u] \in Seq(Row)
      /\ Len(ledger'[u]) = n + 1
      /\ \A i \in 1 .. n : ledger'[u][i] = ledger[u][i]
      /\ ledger'[u][n + 1].type = type
      /\ ledger'[u][n + 1].ref = ref
      /\ \A v \in User \ {u} : ledger'[v] = ledger[v]
    BY PostedAfter
<1>2. /\ n \in Nat /\ DOMAIN ledger[u] = 1 .. n
      /\ DOMAIN ledger'[u] = 1 .. n + 1
    BY <1>1 DEF LedgerTypeOK
<1> SUFFICES ASSUME NEW v \in User, NEW i \in DOMAIN ledger'[v], NEW j \in DOMAIN ledger'[v],
                    ledger'[v][i].ref \in Unique,
                    ledger'[v][i].ref = ledger'[v][j].ref,
                    ledger'[v][i].type = ledger'[v][j].type
             PROVE  i = j
    BY DEF PostedOnce
<1>3. CASE v # u
    BY <1>1, <1>3 DEF PostedOnce
<1>4. CASE v = u
    <2>1. CASE i \in 1 .. n /\ j \in 1 .. n
        BY <1>1, <1>2, <1>4, <2>1 DEF PostedOnce
    <2>2. CASE i = n + 1 /\ j \in 1 .. n
        BY <1>1, <1>2, <1>4, <2>2 DEF Posted
    <2>3. CASE j = n + 1 /\ i \in 1 .. n
        BY <1>1, <1>2, <1>4, <2>3 DEF Posted
    <2>4. CASE i = n + 1 /\ j = n + 1
        BY <2>4
    <2> QED
        BY <1>2, <1>4, <2>1, <2>2, <2>3, <2>4
<1> QED
    BY <1>3, <1>4

-----------------------------------------------------------------------------
(* What the abstract ledger promises, and with it all that implements it.  *)

LedgerInv == LedgerTypeOK /\ LedgerReplays /\ PostedOnce

LEMMA LedgerStarts == LedgerInit => LedgerInv
<1> SUFFICES ASSUME LedgerInit PROVE LedgerInv
    OBVIOUS
<1>1. << >> \in Seq(Row) /\ Len(<< >>) = 0 /\ DOMAIN << >> = {}
    OBVIOUS
<1>2. \A u \in User : ledger[u] = << >> /\ balance[u] = 0
    BY DEF LedgerInit
<1>3. LedgerTypeOK
    BY <1>1, MaxCentsAssumption DEF LedgerInit, LedgerTypeOK, Cents
<1>4. LedgerReplays
    BY <1>1, <1>2 DEF LedgerReplays, BalanceAt
<1>5. PostedOnce
    BY <1>1, <1>2 DEF PostedOnce
<1> QED
    BY <1>3, <1>4, <1>5 DEF LedgerInv

LEMMA LedgerStays == LedgerInv /\ [LedgerNext]_<<balance, ledger>> => LedgerInv'
<1> SUFFICES ASSUME LedgerInv, [LedgerNext]_<<balance, ledger>> PROVE LedgerInv'
    OBVIOUS
<1>1. CASE UNCHANGED <<balance, ledger>>
    BY <1>1 DEF LedgerInv, LedgerTypeOK, LedgerReplays, BalanceAt, PostedOnce
<1>2. ASSUME NEW u \in User, NEW type \in TransactionType, NEW amount \in Amount,
             NEW ref \in Ref, PostOnce(u, type, amount, ref)
      PROVE  LedgerInv'
    <2>1. /\ balance[u] \in Cents
          /\ CanPost(balance[u], type, amount)
          /\ PostFrom(u, balance[u], type, amount, ref)
          /\ ref \in Unique => ~Posted(u, type, ref)
        BY <1>2 DEF PostOnce, LedgerInv, LedgerTypeOK
    <2> QED
        BY <2>1, PostKeepsTypes, PostReplays, PostKeepsPostedOnce DEF LedgerInv
<1> QED
    BY <1>1, <1>2 DEF LedgerNext

\* A balance is never below zero nor above what its column holds.
THEOREM LedgerTypeCorrect == LedgerSpec => []LedgerTypeOK
<1>1. LedgerInv => LedgerTypeOK
    BY DEF LedgerInv
<1> QED
    BY <1>1, LedgerStarts, LedgerStays, PTL DEF LedgerSpec

\* The audit trail replays to the balance, in whatever implements the ledger.
THEOREM LedgerExplainsBalance == LedgerSpec => []LedgerReplays
<1>1. LedgerInv => LedgerReplays
    BY DEF LedgerInv
<1> QED
    BY <1>1, LedgerStarts, LedgerStays, PTL DEF LedgerSpec

\* A reference without overlapping calls is posted once of each type, in
\* whatever implements the ledger.
THEOREM LedgerPostsOnce == LedgerSpec => []PostedOnce
<1>1. LedgerInv => PostedOnce
    BY DEF LedgerInv
<1> QED
    BY <1>1, LedgerStarts, LedgerStays, PTL DEF LedgerSpec

-----------------------------------------------------------------------------
\* WalletTransactionEntity.ts:11, "rows are never updated or deleted".
TrailIsImmutable ==
    \A u \in User :
        /\ DOMAIN ledger[u] \subseteq DOMAIN ledger'[u]
        /\ \A i \in DOMAIN ledger[u] : ledger'[u][i] = ledger[u][i]

\* Nothing but the row that it adds is touched by a posting.
LEMMA PostKeepsTrail ==
    ASSUME LedgerTypeOK,
           NEW u \in User, NEW type \in TransactionType,
           NEW amount \in Amount, NEW ref \in Ref, NEW cents \in Cents,
           CanPost(cents, type, amount),
           PostFrom(u, cents, type, amount, ref)
    PROVE  TrailIsImmutable
<1> DEFINE n == Len(ledger[u])
<1>1. /\ ledger'[u] \in Seq(Row)
      /\ Len(ledger'[u]) = n + 1
      /\ \A i \in 1 .. n : ledger'[u][i] = ledger[u][i]
      /\ \A v \in User \ {u} : ledger'[v] = ledger[v]
    BY PostedAfter
<1>2. /\ n \in Nat /\ DOMAIN ledger[u] = 1 .. n
      /\ DOMAIN ledger'[u] = 1 .. n + 1
    BY <1>1 DEF LedgerTypeOK
<1> QED
    BY <1>1, <1>2 DEF TrailIsImmutable

\* No row of the audit trail is ever changed or removed, in whatever implements
\* the ledger.
THEOREM LedgerTrailStays == LedgerSpec => [][TrailIsImmutable]_<<balance, ledger>>
<1>1. LedgerInv /\ [LedgerNext]_<<balance, ledger>> => [TrailIsImmutable]_<<balance, ledger>>
    <2> SUFFICES ASSUME LedgerInv, LedgerNext PROVE TrailIsImmutable
        OBVIOUS
    <2>1. PICK u \in User, type \in TransactionType, amount \in Amount, ref \in Ref :
              PostOnce(u, type, amount, ref)
        BY DEF LedgerNext
    <2>2. /\ balance[u] \in Cents
          /\ CanPost(balance[u], type, amount)
          /\ PostFrom(u, balance[u], type, amount, ref)
        BY <2>1 DEF PostOnce, LedgerInv, LedgerTypeOK
    <2> QED
        BY <2>2, PostKeepsTrail DEF LedgerInv
<1> QED
    BY <1>1, LedgerStarts, LedgerStays, PTL DEF LedgerSpec
=============================================================================
