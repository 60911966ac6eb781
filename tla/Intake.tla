------------------------------- MODULE Intake -------------------------------
(***************************************************************************)
(* What the receivers promise about the mails that come back: of each mail *)
(* that says something of a message, that event is recorded, under the key *)
(* the mail names, and once unless something made its receiver forget it;  *)
(* a mailbox is left behind only up to where everything is handled; and a  *)
(* message times out only while nothing has answered it.  The polls, rows  *)
(* and statements that do this are in Receivers, which implements this     *)
(* module.                                                                 *)
(***************************************************************************)
EXTENDS Naturals, Sequences

CONSTANTS
    Boxes,       \* mailboxes
    Mails,
    BoxOf,       \* BoxOf[m]: the mailbox of a mail
    Kind,        \* Kind[m]: the type of event it makes, or "none"
    Keys,        \* what an event may be recorded under
    NoKey

VARIABLES
    box,         \* box[b]: its UIDVALIDITY and its mails
    about,       \* about[m]: the key that a mail names, which never changes
    upto,        \* upto[b]: the UID up to which a mailbox is left behind
    recorded,    \* how often a mail has been recorded, at most 2
    events,      \* the types of the events recorded under a key
    forgotten,   \* mails that may be recorded though they were
    lost,        \* mails that could not be fetched
    torn         \* keys with a failure between two writes that belong together

vars == <<box, about, upto, recorded, events, forgotten, lost, torn>>

Init ==
    /\ box = [b \in Boxes |-> [validity |-> 1, mails |-> <<>>]]
    /\ about \in [Mails -> Keys \cup {NoKey}]
    /\ upto = [b \in Boxes |-> 0]
    /\ recorded = [m \in Mails |-> 0]
    /\ events = [key \in Keys |-> {}]
    /\ forgotten = {} /\ lost = {} /\ torn = {}

MailsIn(b) == {box[b].mails[u] : u \in DOMAIN box[b].mails}

Recognised(m) == Kind[m] # "none" /\ about[m] # NoKey

Handled == {m \in Mails : m \in lost \/ ~Recognised(m) \/ recorded[m] > 0}

-----------------------------------------------------------------------------
Arrive(m) ==
    /\ m \notin MailsIn(BoxOf[m])
    /\ box' = [box EXCEPT ![BoxOf[m]].mails = Append(@, m)]
    /\ UNCHANGED <<about, upto, recorded, events, forgotten, lost, torn>>

\* The FETCH of a mail fails, and the mailbox may be left behind without it.
Miss(m) ==
    /\ m \in MailsIn(BoxOf[m])
    /\ lost' = lost \cup {m}
    /\ UNCHANGED <<box, about, upto, recorded, events, forgotten, torn>>

\* Mailbox b is left behind up to some UID, or again only up to an earlier one.
Move(b) ==
    \E last \in 0..Len(box[b].mails) :
        /\ \A u \in 1..last : box[b].mails[u] \in Handled'
        /\ upto' = [upto EXCEPT ![b] = last]

\* A mail becomes an event; a second time only if the first was forgotten.
Record(m) ==
    /\ m \in MailsIn(BoxOf[m]) /\ Recognised(m)
    /\ recorded[m] > 0 => m \in forgotten
    /\ recorded' = [recorded EXCEPT ![m] = IF @ = 2 THEN 2 ELSE @ + 1]
    /\ events' = [events EXCEPT ![about[m]] = @ \cup {Kind[m]}]
    /\ UNCHANGED <<box, about, forgotten, lost, torn>>
    /\ UNCHANGED upto \/ Move(BoxOf[m])

\* A message is given up as unanswered.
Timeout(key) ==
    /\ key \in torn \/ events[key] \cap {"pec_acceptance", "pec_error"} = {}
    /\ events' = [events EXCEPT ![key] = @ \cup {"pec_timeout"}]
    /\ UNCHANGED <<box, about, upto, recorded, forgotten, lost, torn>>

\* What was recorded may be forgotten, and writes be separated.
Lose ==
    /\ \E M \in SUBSET {m \in Mails : recorded[m] > 0} : forgotten' = forgotten \cup M
    /\ \E K \in SUBSET Keys : torn' = torn \cup K

\* A receiver goes on, starts again or fails.
Proceed ==
    /\ UNCHANGED <<box, about, recorded, events, lost>>
    /\ Lose
    /\ \E b \in Boxes : Move(b)

\* A mailbox is recreated, with or without its first mail, under a new UIDVALIDITY.
Recreate(b) ==
    /\ box[b].mails # <<>>
    /\ \E mails \in {box[b].mails, Tail(box[b].mails)} :
          box' = [box EXCEPT ![b] = [validity |-> @.validity + 1, mails |-> mails]]
    /\ upto' = [upto EXCEPT ![b] = 0]
    /\ Lose
    /\ UNCHANGED <<about, recorded, events, lost>>

Next ==
    \/ Proceed
    \/ \E m \in Mails : Arrive(m) \/ Miss(m) \/ Record(m)
    \/ \E key \in Keys : Timeout(key)
    \/ \E b \in Boxes : Recreate(b)

Spec == Init /\ [][Next]_vars
=============================================================================
