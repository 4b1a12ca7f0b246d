----------------------------- MODULE MCSessions -----------------------------
(* Small instances of Sessions: two tabs with one or two requests each. *)
EXTENDS Sessions

CONSTANTS tab1, tab2, r1, r2

\* One request of each tab.
MCHome == [r \in Request |-> IF r = r2 THEN tab2 ELSE tab1]
=============================================================================
