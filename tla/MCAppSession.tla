---------------------------- MODULE MCAppSession ----------------------------
(* AppSession on a small device. *)
EXTENDS AppSession
=============================================================================
