---------------------------- MODULE MCReceivers ----------------------------
(* Small instances of Receivers.                                           *)
EXTENDS Receivers

CONSTANTS a1, p1

MCDeployments == {{"bounce"}, {"pec"}}

BounceMailOf(pk, report, subject) ==
    [box |-> BounceBox, pk |-> pk, report |-> report, header |-> "none", subject |-> subject]
Receipt(pk, header, subject) ==
    [box |-> a1, pk |-> pk, report |-> FALSE, header |-> header, subject |-> subject]

\* For each receiver: mails that it records, one that it ignores and one that
\* its parser raises on.
MCMails ==
    {BounceMailOf(p1, TRUE, "other"), BounceMailOf(NoPk, FALSE, "other"),
     BounceMailOf(NoPk, FALSE, "raw"),
     Receipt(p1, "accettazione", "accettazione"), Receipt(p1, "none", "mancata_consegna"),
     Receipt(NoPk, "none", "other"), Receipt(NoPk, "none", "raw")}

BounceMails == {BounceMailOf(p1, FALSE, "bounce"), BounceMailOf(NoPk, FALSE, "raw")}
==============================================================================
