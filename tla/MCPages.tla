------------------------------ MODULE MCPages ------------------------------
(* Small instances of Pages. *)
EXTENDS Pages
=============================================================================
