---------------------------- MODULE SessionChain ----------------------------
(***************************************************************************)
(* What a login promises: a chain of refresh tokens of which one at a time *)
(* can be exchanged, and which, once it has none, never gets one again.    *)
(* Sessions implements this while a browser's requests do not overlap.     *)
(***************************************************************************)
CONSTANT Family

VARIABLE phase      \* phase[f]: what has become of f's chain

Init == phase = [f \in Family |-> "none"]

Turn(f, from, to) == phase[f] \in from /\ phase' = [phase EXCEPT ![f] = to]

Login(f) == Turn(f, {"none"}, "live")
Exchange(f) == Turn(f, {"live"}, "rotating")    \* the old token is used up
Succeed(f) == Turn(f, {"rotating"}, "live")     \* the new one is issued
End(f) == Turn(f, {"live", "rotating"}, "dead")

Next == \E f \in Family : Login(f) \/ Exchange(f) \/ Succeed(f) \/ End(f)

Spec == Init /\ [][Next]_phase
=============================================================================
