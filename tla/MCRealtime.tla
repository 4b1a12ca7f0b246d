----------------------------- MODULE MCRealtime -----------------------------
(* A small instance of Realtime: two settlements, one deposit, one tab. *)
EXTENDS Realtime
=============================================================================
