----------------------------- MODULE Receivers -----------------------------
(***************************************************************************)
(* The two loops that read mailboxes over IMAP: BounceReceiver, which      *)
(* keeps the last UID it has seen in memory, and PecReceiver, which keeps  *)
(* it in the row of each PEC account and also gives up on messages that    *)
(* were not accepted in time.  Both write events of messages that the      *)
(* sender marks meanwhile.                                                 *)
(*                                                                         *)
(* The UID of a mail is its place in the mailbox.  An IMAP session is one  *)
(* step for connect, login and SELECT and one for SEARCH and the FETCHes.  *)
(***************************************************************************)
EXTENDS Naturals, Sequences, FiniteSets, SequencesExt

CONSTANTS
    BounceBox,    \* the mailbox of bounces
    Accounts,     \* PEC accounts, each with a mailbox
    Pks,          \* messages of PEC accounts, by pk
    NoPk,         \* of a mail that is about no message, and of one without header
    Via,          \* how messages were submitted: "command", "rest", "header"
    Mails,        \* the mails that may arrive, of type Mail
    Deployments,  \* which receivers are started: sets of "bounce" and "pec"
    MaxArrivals,  \* bound: mails that arrive
    MaxValidity,  \* bound: UIDVALIDITY values of a mailbox
    MaxTroubles   \* bound: restarts, failing calls of IMAP or the database,
                  \* recreated mailboxes and accounts written through the API

Boxes == {BounceBox} \cup Accounts

\* What message_events.message_pk may hold: a pk, or a client's id of a message.
ClientId(pk) == <<"id", pk>>
Keys == Pks \cup {ClientId(pk) : pk \in Pks}

\* Receipts of the PEC system.
ReceiptTypes == {"accettazione", "consegna", "mancata_consegna", "non_accettazione",
                 "presa_in_carico"}

\* pk: the message it is about; report: a multipart/report of delivery-status; header: X-Ricevuta;
\* subject: "bounce" stands for what BOUNCE_SUBJECT_PATTERNS or the senders
\* of bounces match, "raw" for one with unencoded 8-bit characters.
Mail == [box: Boxes, pk: Pks \cup {NoPk}, report: BOOLEAN,
         header: ReceiptTypes \cup {"none"},
         subject: ReceiptTypes \cup {"bounce", "other", "raw"}]

ASSUME ReceiversAssumption ==
    /\ BounceBox \notin Accounts /\ NoPk \notin Pks
    /\ \A pk \in Pks : ClientId(pk) \notin Pks
    /\ Mails \subseteq Mail /\ IsFiniteSet(Mails)
    /\ Via \subseteq {"command", "rest", "header"}
    /\ Deployments \subseteq SUBSET {"bounce", "pec"}
    /\ {MaxArrivals, MaxTroubles} \subseteq Nat /\ MaxValidity \in Nat \ {0}

VARIABLES
    box,       \* box[b]: its UIDVALIDITY and its mails
    bounce,    \* BounceReceiver: where it is, _last_uid, _uidvalidity, the mails fetched
    pec,       \* PecReceiver: where it is and its local variables
    sync,      \* imap_last_uid and imap_uidvalidity of each account; 0 is NULL
    edit,      \* the row an API call has read and will write back
    rows,      \* rows[pk]: smtp_ts and is_pec of a message
    sender,    \* what the sender is doing about each message
    late,      \* messages whose smtp_ts is older than acceptance_timeout
    events,    \* the types of the events stored under a key
    recorded,  \* history: how often a mail has become an event, at most 2
    excused,   \* history: mails that a reset lets a receiver see again
    missed,    \* history: mails whose FETCH has failed
    broken,    \* history: messages with a fault between two writes that belong together
    used       \* how much of each bound has been used

vars == <<box, bounce, pec, sync, edit, rows, sender, late, events,
          recorded, excused, missed, broken, used>>
messages == <<rows, sender, late>>
history == <<recorded, excused, missed, broken>>

-----------------------------------------------------------------------------
(* Parsers.                                                                *)

\* _build_email: X-Genro-Mail-ID is the "id" of the payload.  That is the
\* client's id in the payload of addMessages and absent from the one that the
\* REST methods store; a client may send the header itself, with the pk it got
\* when it first submitted the message.
MailId(m) ==
    IF m.pk = NoPk THEN NoPk
    ELSE CASE sender[m.pk].via = "command" -> ClientId(m.pk)
           [] sender[m.pk].via = "rest" -> NoPk
           [] sender[m.pk].via = "header" -> m.pk

\* A DSN needs no subject.  The heuristic searches the subject, which is no
\* string when it holds raw 8-bit characters: TypeError.
BounceRaises(m) == ~m.report /\ m.subject = "raw"
BounceId(m) == IF m.report \/ m.subject = "bounce" THEN MailId(m) ELSE NoPk

\* RECEIPT_SUBJECT_PATTERNS, in order; the first one is also found in "NON
\* ACCETTAZIONE:".
SubjectPatterns ==
    <<[finds |-> {"accettazione", "non_accettazione"}, type |-> "accettazione"],
      [finds |-> {"consegna"}, type |-> "consegna"],
      [finds |-> {"mancata_consegna"}, type |-> "mancata_consegna"],
      [finds |-> {"non_accettazione"}, type |-> "non_accettazione"],
      [finds |-> {"presa_in_carico"}, type |-> "presa_in_carico"]>>

DetectReceiptType(m) ==
    LET n == SelectInSeq(SubjectPatterns, LAMBDA p : m.subject \in p.finds)
    IN  IF m.header # "none" THEN m.header
        ELSE IF n = 0 THEN "none" ELSE SubjectPatterns[n].type

ReceiptRaises(m) == m.subject = "raw"
IsError(m) == DetectReceiptType(m) \in {"mancata_consegna", "non_accettazione"}
IsReceipt(m) == DetectReceiptType(m) # "none" /\ MailId(m) # NoPk

\* Mutant: the receipt type is taken for the event type.
EventTypeUnmapped(m) == DetectReceiptType(m)

\* Mutant: event_type_map knows only one of the two errors.
EventTypeDefault(m) ==
    LET t == DetectReceiptType(m)
    IN  CASE t = "non_accettazione" -> "pec_error"
          [] t = "consegna" -> "pec_delivery"
          [] OTHER -> "pec_acceptance"

\* event_type_map; "presa_in_carico" counts as an acceptance.
EventType(m) ==
    LET t == DetectReceiptType(m)
    IN  CASE t \in {"mancata_consegna", "non_accettazione"} -> "pec_error"
          [] t = "consegna" -> "pec_delivery"
          [] OTHER -> "pec_acceptance"

EventTypes == {"bounce", "pec_acceptance", "pec_delivery", "pec_error", "pec_timeout"}

\* What makes the receiver of its box stop at this mail, or record it.
Raises(m) == IF m.box = BounceBox THEN BounceRaises(m) ELSE ReceiptRaises(m)
Recognised(m) == IF m.box = BounceBox THEN BounceId(m) # NoPk ELSE IsReceipt(m)

-----------------------------------------------------------------------------
(* IMAP.                                                                   *)

Uids(b) == DOMAIN box[b].mails
Arrived(m) == \E u \in Uids(m.box) : box[m.box].mails[u] = m
UidOf(m) == CHOOSE u \in Uids(m.box) : box[m.box].mails[u] = m

\* fetch_since_uid: the UIDs after last, without those whose FETCH failed; the
\* mails are handled in the order of their UIDs.
FetchSinceUid(b, last, failed) ==
    {u \in Uids(b) : u > last /\ u \notin failed}

CanFail == used.troubles < MaxTroubles
Fault == CanFail /\ used' = [used EXCEPT !.troubles = @ + 1]

\* Either SEARCH and all FETCHes work, or one of them fails: SEARCH leaves
\* nothing to do, a FETCH leaves out its mail.
FetchOutcomes(b, last) ==
    {{}} \cup (IF CanFail THEN {{u} : u \in {x \in Uids(b) : x > last}} \cup {Uids(b)} ELSE {})

Fetched(b, failed) ==
    /\ IF failed = {} THEN UNCHANGED used ELSE Fault
    /\ missed' = missed \cup
         IF Cardinality(failed) = 1 THEN {box[b].mails[u] : u \in failed} ELSE {}

Recorded(m) == recorded' = [recorded EXCEPT ![m] = IF @ = 2 THEN 2 ELSE @ + 1]

\* Mails of b that have become events already may do so again.
Excuse(b, uids) ==
    excused' = excused \cup {m \in Mails : m.box = b /\ recorded[m] > 0 /\ Arrived(m)
                                            /\ UidOf(m) \in uids}

AddEvent(key, type) == events' = [events EXCEPT ![key] = @ \cup {type}]

-----------------------------------------------------------------------------
(* BounceReceiver.                                                         *)

FreshBounce == [pc |-> "sleep", last |-> 0, validity |-> 0, uids |-> {}]

BounceSleeps(last) == bounce' = [bounce EXCEPT !.pc = "sleep", !.uids = {}, !.last = last]

\* Mutant: the folder is selected as it was before.
BounceConnectKeepingUid ==
    /\ bounce.pc = "sleep"
    /\ bounce' = [bounce EXCEPT !.pc = "search", !.validity = box[BounceBox].validity]
    /\ UNCHANGED <<box, pec, sync, edit, messages, events, history, used>>

\* connect and select_folder; a new UIDVALIDITY starts from the first UID.
BounceConnect ==
    LET validity == box[BounceBox].validity
        reset    == bounce.validity \notin {0, validity}
    IN  /\ bounce.pc = "sleep"
        /\ bounce' = [bounce EXCEPT !.pc = "search", !.validity = validity,
                                    !.last = IF reset THEN 0 ELSE @]
        /\ UNCHANGED <<box, pec, sync, edit, messages, events, history, used>>

BounceFetch ==
    /\ bounce.pc = "search"
    /\ \E failed \in FetchOutcomes(BounceBox, bounce.last) :
          LET uids == FetchSinceUid(BounceBox, bounce.last, failed)
          IN  /\ Fetched(BounceBox, failed)
              /\ bounce' = [bounce EXCEPT !.uids = uids,
                                          !.pc = IF uids = {} THEN "sleep" ELSE "work"]
    /\ UNCHANGED <<box, pec, sync, edit, messages, events, recorded, excused, broken>>

\* The next mail of the poll.
BounceMail == box[BounceBox].mails[Min(bounce.uids)]

\* Mutant: the mail is done, _last_uid is not set.
BounceAdvancesQueue ==
    LET rest == bounce.uids \ {Min(bounce.uids)}
    IN  bounce' = [bounce EXCEPT !.uids = rest, !.pc = IF rest = {} THEN "sleep" ELSE "work"]

BounceAdvances ==
    LET rest == bounce.uids \ {Min(bounce.uids)}
    IN  bounce' = [bounce EXCEPT !.last = Min(bounce.uids), !.uids = rest,
                                 !.pc = IF rest = {} THEN "sleep" ELSE "work"]

BounceIgnored ==
    /\ bounce.pc = "work"
    /\ ~BounceRaises(BounceMail) /\ BounceId(BounceMail) = NoPk
    /\ BounceAdvances
    /\ UNCHANGED <<box, pec, sync, edit, messages, events, history, used>>

BounceRecorded ==
    /\ bounce.pc = "work"
    /\ ~BounceRaises(BounceMail) /\ BounceId(BounceMail) # NoPk
    /\ AddEvent(MailId(BounceMail), "bounce")
    /\ Recorded(BounceMail)
    /\ BounceAdvances
    /\ UNCHANGED <<box, pec, sync, edit, messages, excused, missed, broken, used>>

\* The parser raises: the poll ends, and the next one meets this mail first.
BounceAborted ==
    /\ bounce.pc = "work"
    /\ BounceRaises(BounceMail)
    /\ BounceSleeps(bounce.last)
    /\ UNCHANGED <<box, pec, sync, edit, messages, events, history, used>>

\* IMAP or add_event fails, with the same effect.
BounceFails ==
    /\ bounce.pc \in {"search", "work"}
    /\ Fault
    /\ BounceSleeps(bounce.last)
    /\ UNCHANGED <<box, pec, sync, edit, messages, events, history>>

BounceStep ==
    BounceConnect \/ BounceFetch \/ BounceIgnored \/ BounceRecorded \/ BounceAborted \/ BounceFails

-----------------------------------------------------------------------------
(* PecReceiver.                                                            *)

FreshPec == [pc |-> "sleep", todo |-> {}, stored |-> [a \in Accounts |-> [last |-> 0, validity |-> 0]],
             account |-> BounceBox, validity |-> 0, max |-> 0, uids |-> {},
             timedOut |-> {}, pk |-> NoPk]

\* list_pec_accounts: the rows as they are at the start of the poll.
PecListAccounts ==
    /\ pec.pc = "sleep"
    /\ pec' = [FreshPec EXCEPT !.pc = "accounts", !.todo = Accounts, !.stored = sync]
    /\ UNCHANGED <<box, bounce, sync, edit, messages, events, history, used>>

\* The end of one account, for whatever reason.
NextAccount == [pec EXCEPT !.pc = "accounts", !.uids = {}]

PecConnect(a) ==
    LET stored   == pec.stored[a]
        validity == box[a].validity
        reset    == stored.validity \notin {0, validity}
    IN  /\ pec.pc = "accounts" /\ a \in pec.todo
        /\ pec' = [pec EXCEPT !.pc = "search", !.todo = @ \ {a}, !.account = a,
                              !.validity = validity,
                              !.max = IF reset THEN 0 ELSE stored.last]
        /\ UNCHANGED <<box, bounce, sync, edit, messages, events, history, used>>

PecFetch ==
    LET a == pec.account
    IN  /\ pec.pc = "search"
        /\ \E failed \in FetchOutcomes(a, pec.max) :
              LET uids == FetchSinceUid(a, pec.max, failed)
              IN  /\ Fetched(a, failed)
                  /\ pec' = IF uids # {} THEN [pec EXCEPT !.pc = "work", !.uids = uids]
                            ELSE IF pec.validity # pec.stored[a].validity
                            THEN [pec EXCEPT !.pc = "sync"] ELSE NextAccount
        /\ UNCHANGED <<box, bounce, sync, edit, messages, events, recorded, excused, broken>>

PecMail == box[pec.account].mails[Min(pec.uids)]
PecAdvances ==
    LET rest == pec.uids \ {Min(pec.uids)}
    IN  pec' = [pec EXCEPT !.max = Min(pec.uids), !.uids = rest,
                           !.pc = IF rest = {} THEN "sync" ELSE "work"]

PecIgnored ==
    /\ pec.pc = "work"
    /\ ~ReceiptRaises(PecMail) /\ ~IsReceipt(PecMail)
    /\ PecAdvances
    /\ UNCHANGED <<box, bounce, sync, edit, messages, events, history, used>>

\* _handle_receipt: the event, and for an error is_pec in a later statement.
PecRecorded ==
    /\ pec.pc = "work"
    /\ ~ReceiptRaises(PecMail) /\ IsReceipt(PecMail)
    /\ AddEvent(MailId(PecMail), EventType(PecMail))
    /\ Recorded(PecMail)
    /\ IF IsError(PecMail) THEN pec' = [pec EXCEPT !.pc = "clear"] ELSE PecAdvances
    /\ UNCHANGED <<box, bounce, sync, edit, messages, excused, missed, broken, used>>

\* UPDATE messages ... WHERE pk = key.
ClearPecFlag(key) == rows' = [pk \in Pks |-> IF pk = key THEN [rows[pk] EXCEPT !.pec = FALSE] ELSE rows[pk]]

\* A flag that is cleared while the sender is about to write the row back
\* will be set again.
PecClear ==
    /\ pec.pc = "clear"
    /\ ClearPecFlag(MailId(PecMail))
    /\ broken' = IF sender[PecMail.pk].pc = "write" THEN broken \cup {PecMail.pk} ELSE broken
    /\ PecAdvances
    /\ UNCHANGED <<box, bounce, sync, edit, sender, late, events, recorded, excused, missed, used>>

\* Mutant: the state is stored for all that the search has found.
PecSyncToLast ==
    /\ pec.pc = "sync"
    /\ sync' = [sync EXCEPT ![pec.account] = [last |-> Len(box[pec.account].mails),
                                              validity |-> pec.validity]]
    /\ pec' = NextAccount
    /\ UNCHANGED <<box, bounce, edit, messages, events, history, used>>

\* update_imap_sync_state, once all mails of the poll have been handled.
PecSync ==
    /\ pec.pc = "sync"
    /\ sync' = [sync EXCEPT ![pec.account] = [last |-> pec.max, validity |-> pec.validity]]
    /\ pec' = NextAccount
    /\ UNCHANGED <<box, bounce, edit, messages, events, history, used>>

\* An account whose poll raises is given up for this time; what has been
\* recorded of it since the last PecSync will be recorded again.
PecGivesUp ==
    /\ pec' = NextAccount
    /\ Excuse(pec.account, Uids(pec.account))

PecAborted ==
    /\ pec.pc = "work"
    /\ ReceiptRaises(PecMail)
    /\ PecGivesUp
    /\ UNCHANGED <<box, bounce, sync, edit, messages, events, recorded, missed, broken, used>>

PecFails ==
    /\ pec.pc \in {"search", "work", "clear", "sync"}
    /\ Fault
    /\ PecGivesUp
    /\ broken' = IF pec.pc = "clear" THEN broken \cup {PecMail.pk} ELSE broken
    /\ UNCHANGED <<box, bounce, sync, edit, messages, events, recorded, missed>>

\* Mutant: without the NOT EXISTS.
AllLate == {pk \in Pks : rows[pk].pec /\ rows[pk].smtp # "none" /\ pk \in late}

\* get_pec_without_acceptance.
WithoutAcceptance ==
    {pk \in Pks : /\ rows[pk].pec /\ rows[pk].smtp # "none" /\ pk \in late
                  /\ "pec_acceptance" \notin events[pk]}

PecFindTimeouts ==
    /\ pec.pc = "accounts" /\ pec.todo = {}
    /\ pec' = [FreshPec EXCEPT !.timedOut = WithoutAcceptance,
                               !.pc = IF WithoutAcceptance = {} THEN "sleep" ELSE "declassify"]
    /\ UNCHANGED <<box, bounce, sync, edit, messages, events, history, used>>

PecDeclassify(pk) ==
    /\ pec.pc = "declassify" /\ pk \in pec.timedOut
    /\ ClearPecFlag(pk)
    /\ pec' = [pec EXCEPT !.pc = "timeout", !.pk = pk, !.timedOut = @ \ {pk}]
    /\ UNCHANGED <<box, bounce, sync, edit, sender, late, events, history, used>>

PecTimeout ==
    /\ pec.pc = "timeout"
    /\ AddEvent(pec.pk, "pec_timeout")
    /\ pec' = [pec EXCEPT !.pc = IF pec.timedOut = {} THEN "sleep" ELSE "declassify", !.pk = NoPk]
    /\ UNCHANGED <<box, bounce, sync, edit, messages, history, used>>

\* A failing statement ends the poll.
PecTimeoutFails ==
    /\ pec.pc \in {"declassify", "timeout"}
    /\ Fault
    /\ broken' = IF pec.pc = "timeout" THEN broken \cup {pec.pk} ELSE broken
    /\ pec' = FreshPec
    /\ UNCHANGED <<box, bounce, sync, edit, messages, events, recorded, excused, missed>>

PecStep ==
    \/ PecListAccounts \/ PecFetch \/ PecIgnored \/ PecRecorded \/ PecClear \/ PecSync
    \/ PecAborted \/ PecFails \/ PecFindTimeouts \/ PecTimeout \/ PecTimeoutFails
    \/ \E a \in Accounts : PecConnect(a)
    \/ \E pk \in Pks : PecDeclassify(pk)

-----------------------------------------------------------------------------
(* Everything else.                                                        *)

\* The sender: the message goes out or fails for good, and the event's
\* trigger reads the row and writes it back with smtp_ts.
Attempt(pk) ==
    /\ sender[pk].pc = "pending"
    /\ \E outcome \in {"sent", "error"} :
          sender' = [sender EXCEPT ![pk].pc = "read", ![pk].outcome = outcome]
    /\ UNCHANGED <<box, bounce, pec, sync, edit, rows, late, events, history, used>>

ReadRow(pk) ==
    /\ sender[pk].pc = "read"
    /\ sender' = [sender EXCEPT ![pk].pc = "write", ![pk].pec = rows[pk].pec]
    /\ UNCHANGED <<box, bounce, pec, sync, edit, rows, late, events, history, used>>

WriteRow(pk) ==
    /\ sender[pk].pc = "write"
    /\ rows' = [rows EXCEPT ![pk] = [smtp |-> sender[pk].outcome, pec |-> sender[pk].pec]]
    /\ sender' = [sender EXCEPT ![pk].pc = "done"]
    /\ UNCHANGED <<box, bounce, pec, sync, edit, late, events, history, used>>

TimePasses(pk) ==
    /\ rows[pk].smtp # "none" /\ pk \notin late
    /\ late' = late \cup {pk}
    /\ UNCHANGED <<box, bounce, pec, sync, edit, rows, sender, events, history, used>>

\* A mail about a message that has gone out, or about none.  Mailboxes that
\* nobody reads stay empty.
Arrive(m) ==
    /\ used.arrivals < MaxArrivals
    /\ used' = [used EXCEPT !.arrivals = @ + 1]
    /\ (IF m.box = BounceBox THEN bounce.pc ELSE pec.pc) # "off"
    /\ recorded[m] = 0 /\ ~Arrived(m)
    /\ m.pk # NoPk => sender[m.pk].pc # "pending" /\ sender[m.pk].outcome = "sent"
    /\ box' = [box EXCEPT ![m.box].mails = Append(@, m)]
    /\ UNCHANGED <<bounce, pec, sync, edit, messages, events, history>>

\* The mailbox is recreated with the mails it had: new UIDs, and a new
\* UIDVALIDITY to say so.  No session survives it.
Recreate(b) ==
    /\ Fault
    /\ box[b].validity < MaxValidity /\ box[b].mails # <<>>
    /\ IF b = BounceBox THEN bounce.pc = "sleep"
       ELSE pec.account # b \/ pec.pc \notin {"search", "work", "clear", "sync"}
    /\ \E mails \in {box[b].mails, Tail(box[b].mails)} :
          box' = [box EXCEPT ![b] = [validity |-> @.validity + 1, mails |-> mails]]
    /\ Excuse(b, Uids(b))
    /\ UNCHANGED <<bounce, pec, sync, edit, messages, events, recorded, missed, broken>>

\* AccountsTable.add on an account that exists: record() reads the row and
\* writes every column back, imap_last_uid among them.
EditAccount(a) ==
    /\ edit.account = BounceBox
    /\ Fault
    /\ edit' = [account |-> a, row |-> sync[a]]
    /\ UNCHANGED <<box, bounce, pec, sync, messages, events, history>>

SaveAccount ==
    /\ edit.account # BounceBox
    /\ sync' = [sync EXCEPT ![edit.account] = edit.row]
    /\ IF sync[edit.account] = edit.row THEN UNCHANGED excused
       ELSE Excuse(edit.account, Uids(edit.account))
    /\ edit' = [edit EXCEPT !.account = BounceBox]
    /\ UNCHANGED <<box, bounce, pec, messages, events, recorded, missed, broken, used>>

\* The process dies and is started again: _start_proxy_ee makes a new
\* BounceReceiver.  The sender finds its message again and settles it.
Restart ==
    /\ Fault
    /\ bounce' = IF bounce.pc = "off" THEN bounce ELSE FreshBounce
    /\ pec' = IF pec.pc = "off" THEN pec ELSE FreshPec
    /\ edit' = [edit EXCEPT !.account = BounceBox]
    /\ excused' = excused \cup {m \in Mails : recorded[m] > 0 /\
                     (m.box = BounceBox \/ (m.box = pec.account /\ pec.pc # "accounts"))}
    /\ broken' = broken \cup (IF pec.pc = "clear" THEN {PecMail.pk} ELSE {})
                        \cup (IF pec.pc = "timeout" THEN {pec.pk} ELSE {})
    /\ sender' = [pk \in Pks |-> IF sender[pk].pc = "write" THEN [sender[pk] EXCEPT !.pc = "read"]
                                 ELSE sender[pk]]
    /\ UNCHANGED <<box, sync, rows, late, events, recorded, missed>>

Init ==
    /\ box = [b \in Boxes |-> [validity |-> 1, mails |-> <<>>]]
    /\ \E started \in Deployments :
          /\ bounce = [FreshBounce EXCEPT !.pc = IF "bounce" \in started THEN @ ELSE "off"]
          /\ pec = [FreshPec EXCEPT !.pc = IF "pec" \in started THEN @ ELSE "off"]
    /\ sync = [a \in Accounts |-> [last |-> 0, validity |-> 0]]
    /\ edit = [account |-> BounceBox, row |-> [last |-> 0, validity |-> 0]]
    /\ rows = [pk \in Pks |-> [smtp |-> "none", pec |-> TRUE]]
    /\ \E via \in [Pks -> Via] :
          sender = [pk \in Pks |-> [pc |-> "pending", outcome |-> "none", pec |-> FALSE,
                                    via |-> via[pk]]]
    /\ late = {} /\ excused = {} /\ missed = {} /\ broken = {}
    /\ events = [key \in Keys |-> {}]
    /\ recorded = [m \in Mails |-> 0]
    /\ used = [arrivals |-> 0, troubles |-> 0]

Environment ==
    \/ \E pk \in Pks : Attempt(pk) \/ ReadRow(pk) \/ WriteRow(pk) \/ TimePasses(pk)
    \/ \E m \in Mails : Arrive(m)
    \/ \E b \in Boxes : Recreate(b)
    \/ \E a \in Accounts : EditAccount(a)
    \/ SaveAccount
    \/ Restart

Next == BounceStep \/ PecStep \/ Environment
Spec == Init /\ [][Next]_vars

\* _poll_loop of each receiver goes on after every error.
FairSpec == Spec /\ WF_vars(BounceStep) /\ WF_vars(PecStep)

-----------------------------------------------------------------------------
(* The refinement.                                                         *)

\* The event that a mail makes if it names a message.
Kind == [m \in Mails |->
            IF m.box = BounceBox
            THEN IF m.report \/ m.subject = "bounce" THEN "bounce" ELSE "none"
            ELSE IF DetectReceiptType(m) = "none" THEN "none" ELSE EventType(m)]

\* The position of each receiver, if it is one in the mailbox as it is now.
Upto == [b \in Boxes |-> LET at == IF b = BounceBox THEN bounce ELSE sync[b]
                         IN  IF at.validity = box[b].validity THEN at.last ELSE 0]

I == INSTANCE Intake WITH
        BoxOf <- [m \in Mails |-> m.box],
        NoKey <- NoPk,
        about <- [m \in Mails |-> MailId(m)],
        upto <- Upto,
        forgotten <- excused,
        lost <- missed,
        torn <- broken

-----------------------------------------------------------------------------
(* Properties.                                                             *)

TypeOK ==
    /\ \A b \in Boxes : box[b].validity \in 1..MaxValidity /\ box[b].mails \in Seq(Mails)
    /\ bounce.last \in 0..MaxArrivals /\ bounce.validity \in 0..MaxValidity
    /\ pec.max \in 0..MaxArrivals /\ pec.validity \in 0..MaxValidity
    /\ pec.account \in Boxes /\ pec.todo \subseteq Accounts /\ pec.timedOut \subseteq Pks
    /\ sync \in [Accounts -> [last: 0..MaxArrivals, validity: 0..MaxValidity]]
    /\ rows \in [Pks -> [smtp: {"none", "sent", "error"}, pec: BOOLEAN]]
    /\ events \in [Keys -> SUBSET EventTypes]
    /\ recorded \in [Mails -> 0..2]
    /\ late \subseteq Pks /\ broken \subseteq Pks
    /\ excused \subseteq Mails /\ missed \subseteq Mails

\* A mail whose UID the receiver of its box has left behind has become an
\* event, if it is one that its parser recognises and its FETCH never failed:
\* no restart, recreated mailbox, aborted poll or row written back loses it.
Passed(m) ==
    \/ m.box = BounceBox /\ bounce.validity = box[BounceBox].validity /\ UidOf(m) <= bounce.last
    \/ m.box # BounceBox /\ sync[m.box].validity = box[m.box].validity
         /\ UidOf(m) <= sync[m.box].last
NothingSkipped ==
    \A m \in Mails \ missed :
        Arrived(m) /\ Recognised(m) /\ Passed(m) => recorded[m] > 0

\* However the polls, the sender, API calls and failures interleave, each step
\* is one of Intake or changes nothing that a mailbox, the events and the stored
\* positions show.
ImplementsIntake == I!Spec

\* A mail becomes an event a second time only if a restart, a recreated
\* mailbox, a poll given up midway or an API call that wrote back an old row
\* has made its receiver forget it.
RecordedTwiceOnlyIfExcused == \A m \in Mails \ excused : recorded[m] < 2

\* A message is given up as not accepted only while neither an acceptance nor
\* an error of the PEC system is recorded for it, unless a fault or a row
\* written back by the sender separated the error from its flag.
TimeoutOnlyIfUnanswered ==
    [][\A pk \in Pks \ broken :
          "pec_timeout" \in events'[pk] \ events[pk] =>
              events[pk] \cap {"pec_acceptance", "pec_error"} = {}]_vars

\* A message that is no longer awaited as PEC has an event that tells its
\* client why, or is about to get it, or a fault came between.
DeclassifiedIsReported ==
    \A pk \in Pks \ broken :
        ~rows[pk].pec => \/ events[pk] \cap {"pec_error", "pec_timeout"} # {}
                         \/ pec.pc = "timeout" /\ pec.pk = pk

\* Every mail that its parser recognises becomes an event in the end, unless
\* it leaves the mailbox, its FETCH failed, or it waits behind one that the
\* parser raises on.
Blocked(m) == \E u \in 1..UidOf(m) : Raises(box[m.box].mails[u])
EveryMailRecorded ==
    \A m \in Mails : Arrived(m) /\ Recognised(m) ~>
        recorded[m] > 0 \/ ~Arrived(m) \/ m \in missed \/ Blocked(m)

\* bounce/receiver.py:171 "original_message_id contains the pk (UUID)": what is
\* recorded of a mail is recorded for the message that it is about.
EventsFindTheirMessage ==
    \A key \in Keys \ Pks : events[key] = {}
==============================================================================
