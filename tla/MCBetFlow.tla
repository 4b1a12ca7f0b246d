----------------------------- MODULE MCBetFlow ------------------------------
(* Small instances of BetFlow: one user, one market, two bets. *)
EXTENDS BetFlow, TLC

CONSTANTS ann, m1, b1, b2, dep

MCRef == Bet \cup {dep}

\* The deposit pays for either bet but not at once for both.
MCDeposits == {2}

\* ... or fills the account, which then has no room for a payout.
MCDepositOrFull == {2, MaxCents}
MCSlip == [b \in Bet |->
              [user |-> ann, market |-> m1, stake |-> IF b = b1 THEN 1 ELSE 2]]

\* Payouts 2 and 4.
MCOddsInt == [m \in Market |-> 200]

\* Handlers of one kind are interchangeable.
MCSymmetry == Permutations(Request) \cup Permutations(Worker) \cup Permutations(Admin)
=============================================================================
