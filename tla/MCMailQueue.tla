---------------------------- MODULE MCMailQueue ----------------------------
(* Small instances of MailQueue for TLC. *)
EXTENDS MailQueue, TLC

CONSTANTS m1, m2, b1, a1, a2

MCBatchOf == [m \in Msgs |-> IF m = m1 THEN b1 ELSE NoBatch]
MCOneAccount == [m \in Msgs |-> a1]
MCTwoAccounts == [m \in Msgs |-> IF m = m1 THEN a1 ELSE a2]

MCSymmetry == Permutations(Clients)
=============================================================================
