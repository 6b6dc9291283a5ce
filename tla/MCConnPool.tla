----------------------------- MODULE MCConnPool -----------------------------
(* Model-checking instances of ConnPool. *)
EXTENDS ConnPool
=============================================================================
