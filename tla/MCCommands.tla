----------------------------- MODULE MCCommands -----------------------------
(* Small instances of Commands.                                            *)
EXTENDS Commands, TLC

CONSTANTS t1, t2, a1, m1, m2, b1, c1, c2

Good(i) == [id |-> i, form |-> "valid"]
Bad(i) == [id |-> i, form |-> "invalid"]

AllOps == TenantOps \cup AccountOps \cup MessageOps \cup {"purgeLog"}

MCSubmissions == {<<Good(m1)>>, <<Bad(m1)>>, <<Good(m1), Bad(m1)>>}
Symmetric == Permutations(Calls) \cup Permutations(Tenants)
==============================================================================
