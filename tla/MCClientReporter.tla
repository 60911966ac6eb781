-------------------------- MODULE MCClientReporter --------------------------
(* Small instances of ClientReporter for TLC. *)
EXTENDS ClientReporter, TLC

CONSTANTS t1, t2, m1, m2

MCTenantOf == [m \in Msgs |-> IF m = m1 THEN t1 ELSE t2]

\* Every tenant has an endpoint.
MCAllUrl == [t \in Tenants |-> "url"]
=============================================================================
