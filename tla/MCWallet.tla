------------------------------ MODULE MCWallet ------------------------------
(* A small instance of Wallet: one busy account and one that is hardly used. *)
EXTENDS Wallet

CONSTANTS ann, bob, c1, c2, nobody, dep, bet, win

MCUser == {ann, bob}
MCRef == {dep, bet, win}

\* Calls on dep and bet never overlap; those on win may, as when two
\* settlements of one market run at once.
MCUnique == {dep, bet}

MCCall(u, type, amount, ref) ==
    [user |-> u, type |-> type, amount |-> amount, ref |-> ref]

\* The stake fits once the deposit is there.  Two payouts overflow the
\* column.  bob bets without money under the reference ann deposits with.
MCJob == { MCCall(ann, "DEPOSIT", 2, dep), MCCall(ann, "DEBIT", 1, bet),
           MCCall(ann, "CREDIT", 2, win), MCCall(ann, "DEBIT", 2, dep),
           MCCall(bob, "DEBIT", 1, dep) }
=============================================================================
