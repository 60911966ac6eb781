----------------------------- MODULE MCSMTPPool -----------------------------
(* A small instance of SMTPPool for TLC. *)
EXTENDS SMTPPool
=============================================================================
