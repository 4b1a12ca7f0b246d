---------------------------- MODULE BetLifecycle ----------------------------
(***************************************************************************)
(* What one bet goes through: its stake is taken, then it is recorded,     *)
(* accepted, possibly paid, and closed, and nothing is undone.  BetFlow    *)
(* implements this while settlements of one market do not overlap and the  *)
(* worker's channel is not lost, whatever crashes and errors occur.        *)
(***************************************************************************)
CONSTANT Bet

VARIABLES
    stage,      \* the status of the bets row, "ABSENT" before it exists
    charged,    \* whether the stake has been taken
    paid        \* whether the payout has been credited

vars == <<stage, charged, paid>>

Init ==
    /\ stage = [b \in Bet |-> "ABSENT"]
    /\ charged = [b \in Bet |-> FALSE]
    /\ paid = [b \in Bet |-> FALSE]

Move(b, from, to) == stage[b] = from /\ stage' = [stage EXCEPT ![b] = to]

Charge(b) ==
    /\ stage[b] = "ABSENT" /\ ~charged[b]
    /\ charged' = [charged EXCEPT ![b] = TRUE]
    /\ UNCHANGED <<stage, paid>>

\* Placement may stop after Charge; a later attempt resumes it here.
Record(b) ==
    /\ Move(b, "ABSENT", "PENDING")
    /\ charged[b]
    /\ UNCHANGED <<charged, paid>>

Accept(b) == Move(b, "PENDING", "ACCEPTED") /\ UNCHANGED <<charged, paid>>

PayOut(b) ==
    /\ stage[b] = "ACCEPTED" /\ ~paid[b]
    /\ paid' = [paid EXCEPT ![b] = TRUE]
    /\ UNCHANGED <<stage, charged>>

Close(b) == Move(b, "ACCEPTED", "SETTLED") /\ UNCHANGED <<charged, paid>>

Next == \E b \in Bet :
            Charge(b) \/ Record(b) \/ Accept(b) \/ PayOut(b) \/ Close(b)

Spec == Init /\ [][Next]_vars
=============================================================================
