----------------------------- MODULE MCGateway -----------------------------
(* A small instance of Gateway: two requests of one address. *)
EXTENDS Gateway

\* nginx.conf has 5 for /v1/auth/, 60 and 120.
MCLimit == [k \in Kind |-> IF k \in {"api", "market"} THEN 2 ELSE 1]
=============================================================================
