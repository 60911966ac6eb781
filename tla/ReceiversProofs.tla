-------------------------- MODULE ReceiversProofs --------------------------
(***************************************************************************)
(* Theorems about Receivers, for any mailboxes, mails, messages and bounds.*)
(*                                                                         *)
(* A position is a UID together with the UIDVALIDITY it belongs to; the    *)
(* receivers keep one in memory, in the row of an account, in the copy of  *)
(* the rows a poll starts from, and an API call may hold an old one.  The  *)
(* invariant says of each of them that nothing is left to do before it     *)
(* (Soundness) and that nothing after it must be left alone (Coverage);    *)
(* the first keeps mails from being lost, the second from being recorded   *)
(* again.  Flags relates the events of a message to its flag in the row    *)
(* and in the copy of the row that the sender holds.                       *)
(***************************************************************************)
EXTENDS Receivers, FiniteSetTheorems, WellFoundedInduction, TLAPS

-----------------------------------------------------------------------------
(* The inductive invariant.                                                *)

Position == [last : 0..MaxArrivals, validity : 0..MaxValidity]

Mailbox == [validity : 1..MaxValidity, mails : Seq(Mails)]
BounceState == [pc : {"off", "sleep", "search", "work"}, last : 0..MaxArrivals,
                validity : 0..MaxValidity, uids : SUBSET (1..MaxArrivals)]
PecState == [pc : {"off", "sleep", "accounts", "search", "work", "clear", "sync",
                   "declassify", "timeout"},
             todo : SUBSET Accounts, stored : [Accounts -> Position], account : Boxes,
             validity : 0..MaxValidity, max : 0..MaxArrivals,
             uids : SUBSET (1..MaxArrivals), timedOut : SUBSET Pks, pk : Pks \cup {NoPk}]
Edit == [account : Boxes, row : Position]
Row == [smtp : {"none", "sent", "error"}, pec : BOOLEAN]
Sending == [pc : {"pending", "read", "write", "done"},
            outcome : {"none", "sent", "error"}, pec : BOOLEAN, via : Via]
Usage == [arrivals : 0..MaxArrivals, troubles : Nat]

Types ==
    /\ box \in [Boxes -> Mailbox]
    /\ bounce \in BounceState
    /\ pec \in PecState
    /\ sync \in [Accounts -> Position]
    /\ edit \in Edit
    /\ rows \in [Pks -> Row]
    /\ sender \in [Pks -> Sending]
    /\ late \in SUBSET Pks
    /\ events \in [Keys -> SUBSET EventTypes]
    /\ recorded \in [Mails -> 0..2]
    /\ excused \in SUBSET Mails
    /\ missed \in SUBSET Mails
    /\ broken \in SUBSET Pks
    /\ used \in Usage

\* A mailbox holds its own mails, each once.
Boxed(b, B) ==
    /\ \A u \in 1..Len(B.mails) : B.mails[u].box = b
    /\ \A u, v \in 1..Len(B.mails) : B.mails[u] = B.mails[v] => u = v

\* A poll of the mailbox B, last being the UID it has got to: uids are those
\* it has yet to handle; what it passes over, it could not fetch.
Polling(B, validity, last, uids, gone) ==
    /\ validity = B.validity
    /\ uids \subseteq 1..Len(B.mails)
    /\ \A u \in uids : u > last
    /\ \A v \in 1..Len(B.mails), u \in uids :
          v > last /\ v < u /\ v \notin uids => B.mails[v] \in gone

PecOpen == pec.pc \in {"search", "work", "clear", "sync"}

Boxing ==
    /\ \A b \in Boxes : Boxed(b, box[b]) /\ Len(box[b].mails) <= used.arrivals
    /\ bounce.pc \in {"search", "work"} =>
          Polling(box[BounceBox], bounce.validity, bounce.last, bounce.uids, missed)
    /\ (bounce.pc = "work") = (bounce.uids # {})
    /\ PecOpen => /\ pec.account \in Accounts \ pec.todo
                  /\ Polling(box[pec.account], pec.validity, pec.max, pec.uids, missed)
    /\ (pec.pc \in {"work", "clear"}) = (pec.uids # {})

\* The mails that need no further look, and those that must not get one.
Handled == {m \in Mails : m \in missed \/ ~Recognised(m) \/ recorded[m] > 0}
Once == {m \in Mails \ excused : recorded[m] > 0}

\* All mails up to the position at are handled, if it is one in this mailbox.
Sound(B, at, handled) ==
    /\ at.validity <= B.validity
    /\ at.validity = 0 => at.last = 0
    /\ at.validity = B.validity =>
          at.last <= Len(B.mails) /\ \A u \in 1..at.last : B.mails[u] \in handled

\* No mail after the position at must be left alone.
Covers(B, at, once) ==
    \A u \in 1..Len(B.mails) : B.mails[u] \in once => at.validity = B.validity /\ u <= at.last

At(last, validity) == [last |-> last, validity |-> validity]

Soundness ==
    /\ Sound(box[BounceBox], At(bounce.last, bounce.validity), Handled)
    /\ \A a \in Accounts : Sound(box[a], sync[a], Handled)
    /\ \A a \in Accounts : Sound(box[a], pec.stored[a], Handled)
    /\ edit.account \in Accounts => Sound(box[edit.account], edit.row, Handled)
    /\ PecOpen => Sound(box[pec.account], At(pec.max, pec.validity), Handled)
    /\ pec.pc = "clear" => PecMail \in Handled

\* What is recorded in the open session is not yet in the row of its account,
\* nor is the receipt whose flag is about to be cleared behind pec.max.
Recording(a) == pec.account = a /\ pec.pc \in {"work", "clear", "sync"}
BeingCleared == IF pec.pc = "clear" THEN {PecMail} ELSE {}

Coverage ==
    /\ Covers(box[BounceBox], At(bounce.last, bounce.validity), Once)
    /\ \A a \in Accounts : Recording(a) \/ Covers(box[a], sync[a], Once)
    /\ \A a \in pec.todo : Covers(box[a], pec.stored[a], Once)
    /\ PecOpen => Covers(box[pec.account], At(pec.max, pec.validity), Once \ BeingCleared)

\* The flag of a message in its row and in the copy the sender will write.
FlagGone(pk) == ~rows[pk].pec \/ (sender[pk].pc = "write" /\ ~sender[pk].pec)
FlagLeft(pk) == rows[pk].pec \/ (sender[pk].pc = "write" /\ sender[pk].pec)
Told(pk) == events[pk] \cap {"pec_error", "pec_timeout"} # {} \/ (pec.pc = "timeout" /\ pec.pk = pk)
GivenUp == IF pec.pc = "declassify" THEN pec.timedOut
           ELSE IF pec.pc = "timeout" THEN pec.timedOut \cup {pec.pk} ELSE {}

Flags ==
    /\ pec.pc = "clear" => /\ MailId(PecMail) \in Keys \ {NoPk}
                           /\ "pec_error" \in events[MailId(PecMail)]
    /\ pec.pc = "timeout" => pec.pk \in Pks
    /\ \A pk \in Pks \ broken : FlagGone(pk) => Told(pk)
    /\ \A pk \in Pks \ broken : "pec_error" \in events[pk] /\ FlagLeft(pk) =>
          pec.pc = "clear" /\ MailId(PecMail) = pk
    /\ \A pk \in GivenUp \ broken : events[pk] \cap {"pec_acceptance", "pec_error"} = {}

-----------------------------------------------------------------------------
(* UIDs.                                                                   *)

\* A set of UIDs has a least one.
LEMMA MinOf ==
  ASSUME NEW S \in SUBSET Nat, S # {}
  PROVE  Min(S) \in S /\ \A u \in S : Min(S) <= u
  <1> DEFINE Below == OpToRel(<, Nat)
  <1>1. Below = {p \in Nat \X Nat : p[1] < p[2]}
    BY Zenon DEF OpToRel
  <1>2. IsWellFoundedOn(Below, Nat)
    BY NatLessThanWellFounded
  <1>3. \A u, n \in Nat : u < n => <<u, n>> \in Below
    BY <1>1
  <1> HIDE DEF Below
  <1>4. PICK n \in S : \A u \in S : ~(<<u, n>> \in Below)
    BY <1>2, WFMin
  <1>5. n \in Nat /\ \A u \in S : u \in Nat
    OBVIOUS
  <1>6. \A u \in S : ~(u < n)
    BY <1>3, <1>4, <1>5, Zenon
  <1>7. \A u \in S : n <= u
    BY <1>5, <1>6
  <1> QED  BY <1>7 DEF Min

\* What the poll handles next is the first mail it has not handled.
LEMMA NextUid ==
  ASSUME NEW B, NEW validity, NEW last, NEW uids, NEW gone,
         Polling(B, validity, last, uids, gone), uids # {}, Len(B.mails) \in Nat
  PROVE  /\ Min(uids) \in uids /\ Min(uids) \in 1..Len(B.mails)
         /\ \A u \in uids : Min(uids) <= u
  <1>1. uids \in SUBSET Nat
    BY DEF Polling
  <1> QED  BY <1>1, MinOf DEF Polling

\* The mail the bounce receiver is at is the first of those it has yet to handle.
LEMMA BounceMailIs ==
  ASSUME Types, Boxing, bounce.pc = "work"
  PROVE  /\ bounce.uids # {}
         /\ Min(bounce.uids) \in bounce.uids
         /\ Min(bounce.uids) \in 1..Len(box[BounceBox].mails)
         /\ \A u \in bounce.uids : Min(bounce.uids) <= u
         /\ BounceMail \in Mails /\ BounceMail.box = BounceBox
         /\ BounceMail = box[BounceBox].mails[Min(bounce.uids)]
  <1>1. BounceBox \in Boxes /\ box[BounceBox].mails \in Seq(Mails)
    BY DEF Types, Mailbox, Boxes, PecState
  <1>2. Polling(box[BounceBox], bounce.validity, bounce.last, bounce.uids, missed)
        /\ bounce.uids # {} /\ Boxed(BounceBox, box[BounceBox])
    BY <1>1 DEF Boxing
  <1>3. Len(box[BounceBox].mails) \in Nat
    BY <1>1
  <1>4. /\ Min(bounce.uids) \in bounce.uids
        /\ Min(bounce.uids) \in 1..Len(box[BounceBox].mails)
        /\ \A u \in bounce.uids : Min(bounce.uids) <= u
    BY <1>2, <1>3, NextUid
  <1> QED  BY <1>1, <1>2, <1>4 DEF BounceMail, Boxed

\* So is the mail the PEC receiver is at.
LEMMA PecMailIs ==
  ASSUME Types, Boxing, pec.pc \in {"work", "clear"}
  PROVE  /\ pec.uids # {}
         /\ Min(pec.uids) \in pec.uids
         /\ Min(pec.uids) \in 1..Len(box[pec.account].mails)
         /\ \A u \in pec.uids : Min(pec.uids) <= u
         /\ PecMail \in Mails /\ PecMail.box = pec.account
         /\ PecMail = box[pec.account].mails[Min(pec.uids)]
  <1>1. pec.account \in Boxes /\ box[pec.account].mails \in Seq(Mails)
    BY DEF Types, Mailbox, Boxes, PecState
  <1>2. Polling(box[pec.account], pec.validity, pec.max, pec.uids, missed)
        /\ pec.uids # {} /\ Boxed(pec.account, box[pec.account])
    BY <1>1 DEF Boxing, PecOpen
  <1>3. Len(box[pec.account].mails) \in Nat
    BY <1>1
  <1>4. /\ Min(pec.uids) \in pec.uids
        /\ Min(pec.uids) \in 1..Len(box[pec.account].mails)
        /\ \A u \in pec.uids : Min(pec.uids) <= u
    BY <1>2, <1>3, NextUid
  <1> QED  BY <1>1, <1>2, <1>4 DEF PecMail, Boxed

\* What a mail names is a key of the events, and if it is a pk, the right one.
LEMMA MailIdIs ==
  ASSUME Types, NEW m \in Mails
  PROVE  /\ m.pk \in Pks \cup {NoPk} /\ m.box \in Boxes
         /\ MailId(m) \in Keys \cup {NoPk}
         /\ MailId(m) \in Pks => MailId(m) = m.pk
         /\ MailId(m) # NoPk => m.pk \in Pks
  <1>1. m \in Mail
    BY ReceiversAssumption
  <1>2. m.pk \in Pks \cup {NoPk} /\ m.box \in Boxes
    BY <1>1 DEF Mail
  <1>3. CASE m.pk = NoPk
    BY <1>2, <1>3, ReceiversAssumption DEF MailId
  <1>4. CASE m.pk \in Pks
    <2>1. sender[m.pk].via \in {"command", "rest", "header"}
      BY <1>4, ReceiversAssumption DEF Types, Sending
    <2>2. ClientId(m.pk) \in Keys /\ m.pk \in Keys /\ ClientId(m.pk) \notin Pks /\ m.pk # NoPk
          /\ NoPk \notin Pks
      BY <1>4, ReceiversAssumption DEF Keys
    <2> QED  BY <1>2, <1>4, <2>1, <2>2 DEF MailId
  <1> QED  BY <1>2, <1>3, <1>4

-----------------------------------------------------------------------------
(* Types.                                                                  *)

\* The UIDs of a mailbox fit the bound on arrivals.
LEMMA UidsFit ==
  ASSUME Types, Boxing, NEW b \in Boxes
  PROVE  /\ Len(box[b].mails) \in 0..MaxArrivals
         /\ Uids(b) = 1..Len(box[b].mails) /\ Uids(b) \subseteq 1..MaxArrivals
  <1>1. box[b].mails \in Seq(Mails) /\ Len(box[b].mails) <= used.arrivals
    BY DEF Types, Mailbox, Boxing
  <1>2. Len(box[b].mails) \in Nat /\ used.arrivals \in 0..MaxArrivals
        /\ Len(box[b].mails) <= used.arrivals /\ MaxArrivals \in Nat
    BY <1>1, ReceiversAssumption DEF Types, Usage
  <1> QED  BY <1>1, <1>2 DEF Uids

\* Type correctness, action by action.
LEMMA FaultTypes ==
  ASSUME Types, Fault
  PROVE  used' \in Usage
  BY DEF Fault, Types, Usage

LEMMA FetchedTypes ==
  ASSUME Types, Boxing, NEW b \in Boxes, NEW last, NEW failed \in FetchOutcomes(b, last),
         Fetched(b, failed)
  PROVE  missed' \in SUBSET Mails /\ used' \in Usage
  <1>1. failed \subseteq Uids(b)
    BY DEF FetchOutcomes
  <1>2. \A u \in Uids(b) : box[b].mails[u] \in Mails
    BY UidsFit DEF Types, Mailbox
  <1>3. missed' \in SUBSET Mails
    BY <1>1, <1>2 DEF Fetched, Types
  <1>4. used' \in Usage
    BY FaultTypes DEF Fetched, Types
  <1> QED  BY <1>3, <1>4

LEMMA RecordedTypes ==
  ASSUME Types, NEW m \in Mails, Recorded(m)
  PROVE  recorded' \in [Mails -> 0..2]
  BY DEF Recorded, Types

LEMMA BounceAdvancesTypes ==
  ASSUME Types, Boxing, bounce.pc = "work", BounceAdvances
  PROVE  bounce' \in BounceState
  <1>1. bounce \in BounceState /\ MaxArrivals \in Nat
    BY ReceiversAssumption DEF Types
  <1>2. Min(bounce.uids) \in 1..MaxArrivals
    BY <1>1, BounceMailIs DEF BounceState
  <1>3. PICK pc \in {"sleep", "work"}, uids \in SUBSET bounce.uids :
          bounce' = [bounce EXCEPT !.last = Min(bounce.uids), !.uids = uids, !.pc = pc]
    BY DEF BounceAdvances
  <1>4. bounce' = [pc |-> pc, last |-> Min(bounce.uids), validity |-> bounce.validity, uids |-> uids]
    BY <1>1, <1>3 DEF BounceState
  <1> QED  BY <1>1, <1>2, <1>4 DEF BounceState

LEMMA BounceTypes ==
  ASSUME Types, Boxing, BounceStep
  PROVE  Types'
  <1>1. /\ MaxArrivals \in Nat /\ MaxValidity \in Nat \ {0} /\ BounceBox \in Boxes
        /\ bounce \in BounceState
        /\ box[BounceBox].validity \in 0..MaxValidity
        /\ used \in Usage
    BY ReceiversAssumption DEF Types, Mailbox, Boxes
  <1> SUFFICES /\ bounce' \in BounceState /\ events' \in [Keys -> SUBSET EventTypes]
               /\ recorded' \in [Mails -> 0..2] /\ missed' \in SUBSET Mails /\ used' \in Usage
    BY DEF BounceStep, BounceConnect, BounceFetch, BounceIgnored, BounceRecorded, BounceAborted,
           BounceFails, messages, history, Types
  <1>2. CASE BounceConnect
    <2>1. PICK last \in {0, bounce.last} :
            bounce' = [bounce EXCEPT !.pc = "search", !.validity = box[BounceBox].validity, !.last = last]
      BY <1>2 DEF BounceConnect
    <2>2. bounce' = [pc |-> "search", last |-> last, validity |-> box[BounceBox].validity,
                     uids |-> bounce.uids]
      BY <1>1, <2>1 DEF BounceState
    <2>3. last \in 0..MaxArrivals
      BY <1>1 DEF BounceState
    <2>4. bounce' \in BounceState
      BY <1>1, <2>2, <2>3 DEF BounceState
    <2> QED  BY <1>2, <2>4 DEF BounceConnect, history, Types
  <1>3. CASE BounceFetch
    <2>1. PICK failed \in FetchOutcomes(BounceBox, bounce.last) :
            /\ Fetched(BounceBox, failed)
            /\ bounce' = [bounce EXCEPT !.uids = FetchSinceUid(BounceBox, bounce.last, failed),
                            !.pc = IF FetchSinceUid(BounceBox, bounce.last, failed) = {}
                                   THEN "sleep" ELSE "work"]
      BY <1>3 DEF BounceFetch
    <2>2. FetchSinceUid(BounceBox, bounce.last, failed) \subseteq 1..MaxArrivals
      BY <1>1, UidsFit DEF FetchSinceUid
    <2>3. bounce' \in BounceState
      BY <1>1, <2>1, <2>2 DEF BounceState
    <2>4. missed' \in SUBSET Mails /\ used' \in Usage
      BY <1>1, <2>1, FetchedTypes
    <2> QED  BY <1>3, <2>3, <2>4 DEF BounceFetch, Types
  <1>4. CASE BounceIgnored
    <2>1. bounce' \in BounceState
      BY <1>4, BounceAdvancesTypes DEF BounceIgnored
    <2> QED  BY <1>4, <2>1 DEF BounceIgnored, history, Types
  <1>5. CASE BounceRecorded
    <2>1. MailId(BounceMail) \in Keys
      BY <1>5, BounceMailIs, MailIdIs DEF BounceRecorded, BounceId
    <2>2. BounceMail \in Mails /\ bounce' \in BounceState
      BY <1>5, BounceMailIs, BounceAdvancesTypes DEF BounceRecorded
    <2>3. events' \in [Keys -> SUBSET EventTypes]
      BY <1>5, <2>1 DEF BounceRecorded, AddEvent, EventTypes, Types
    <2>4. recorded' \in [Mails -> 0..2]
      BY <1>5, <2>2, RecordedTypes DEF BounceRecorded
    <2> QED  BY <1>5, <2>2, <2>3, <2>4 DEF BounceRecorded, Types
  <1>6. CASE BounceAborted
    <2>1. bounce' \in BounceState
      BY <1>1, <1>6 DEF BounceAborted, BounceSleeps, BounceState
    <2> QED  BY <1>6, <2>1 DEF BounceAborted, history, Types
  <1>7. CASE BounceFails
    <2>1. bounce' \in BounceState
      BY <1>1, <1>7 DEF BounceFails, BounceSleeps, BounceState
    <2>2. used' \in Usage
      BY <1>1, <1>7, FaultTypes DEF BounceFails
    <2> QED  BY <1>7, <2>1, <2>2 DEF BounceFails, history, Types
  <1> QED  BY <1>2, <1>3, <1>4, <1>5, <1>6, <1>7 DEF BounceStep

LEMMA FreshPecTypes ==
  FreshPec \in PecState
  <1>1. [a \in Accounts |-> At(0, 0)] \in [Accounts -> Position]
    BY ReceiversAssumption DEF At, Position
  <1>2. 0 \in 0..MaxArrivals /\ 0 \in 0..MaxValidity /\ BounceBox \in Boxes
    BY ReceiversAssumption DEF Boxes
  <1> QED  BY <1>1, <1>2 DEF FreshPec, PecState, At

LEMMA NextAccountTypes ==
  ASSUME Types
  PROVE  NextAccount \in PecState
  <1>1. pec \in PecState
    BY DEF Types
  <1> QED  BY <1>1 DEF NextAccount, PecState

LEMMA PecAdvancesTypes ==
  ASSUME Types, Boxing, pec.pc \in {"work", "clear"}, PecAdvances
  PROVE  pec' \in PecState
  <1>1. pec \in PecState /\ MaxArrivals \in Nat
    BY ReceiversAssumption DEF Types
  <1>2. Min(pec.uids) \in 1..MaxArrivals
    BY <1>1, PecMailIs DEF PecState
  <1>3. PICK pc \in {"sync", "work"}, uids \in SUBSET pec.uids :
          pec' = [pec EXCEPT !.max = Min(pec.uids), !.uids = uids, !.pc = pc]
    BY DEF PecAdvances
  <1>4. pec' = [pc |-> pc, todo |-> pec.todo, stored |-> pec.stored, account |-> pec.account,
                validity |-> pec.validity, max |-> Min(pec.uids), uids |-> uids,
                timedOut |-> pec.timedOut, pk |-> pec.pk]
    BY <1>1, <1>3 DEF PecState
  <1> QED  BY <1>1, <1>2, <1>4 DEF PecState

LEMMA ClearTypes ==
  ASSUME Types, NEW key, ClearPecFlag(key)
  PROVE  rows' \in [Pks -> Row]
  BY DEF Types, ClearPecFlag, Row

LEMMA AddEventTypes ==
  ASSUME Types, NEW key \in Keys, NEW type \in EventTypes, AddEvent(key, type)
  PROVE  events' \in [Keys -> SUBSET EventTypes]
  BY DEF AddEvent, Types

LEMMA ExcuseTypes ==
  ASSUME Types, NEW b, NEW uids, Excuse(b, uids)
  PROVE  excused' \in SUBSET Mails
  BY DEF Excuse, Types

\* Flags says that the message that is timed out is one.
LEMMA PecTypes ==
  ASSUME Types, Boxing, Flags, PecStep
  PROVE  Types'
  <1>1. /\ pec \in PecState /\ MaxArrivals \in Nat /\ MaxValidity \in Nat \ {0}
        /\ FreshPec \in PecState /\ NextAccount \in PecState
        /\ Pks \subseteq Keys
    BY ReceiversAssumption, FreshPecTypes, NextAccountTypes DEF Types, Keys
  <1> SUFFICES /\ pec' \in PecState /\ sync' \in [Accounts -> Position] /\ rows' \in [Pks -> Row]
               /\ events' \in [Keys -> SUBSET EventTypes] /\ recorded' \in [Mails -> 0..2]
               /\ excused' \in SUBSET Mails /\ missed' \in SUBSET Mails
               /\ broken' \in SUBSET Pks /\ used' \in Usage
    BY DEF PecStep, PecListAccounts, PecConnect, PecFetch, PecIgnored, PecRecorded, PecClear, PecSync,
           PecAborted, PecFails, PecFindTimeouts, PecDeclassify, PecTimeout, PecTimeoutFails,
           messages, history, Types
  <1>2. CASE PecListAccounts
    <2>1. pec' \in PecState
      BY <1>1, <1>2 DEF PecListAccounts, PecState, Types
    <2> QED  BY <1>2, <2>1 DEF PecListAccounts, messages, history, Types
  <1>3. ASSUME NEW a \in Accounts, PecConnect(a)
        PROVE  pec' \in PecState /\ UNCHANGED <<sync, messages, events, history, used>>
    <2>1. PICK max \in {0, pec.stored[a].last} :
            pec' = [pec EXCEPT !.pc = "search", !.todo = @ \ {a}, !.account = a,
                               !.validity = box[a].validity, !.max = max]
      BY <1>3 DEF PecConnect
    <2>2. pec' = [pc |-> "search", todo |-> pec.todo \ {a}, stored |-> pec.stored, account |-> a,
                  validity |-> box[a].validity, max |-> max, uids |-> pec.uids,
                  timedOut |-> pec.timedOut, pk |-> pec.pk]
      BY <1>1, <2>1 DEF PecState
    <2>3. max \in 0..MaxArrivals
      BY <1>1 DEF PecState, Position
    <2>4. box[a].validity \in 0..MaxValidity /\ a \in Boxes
      BY <1>1 DEF Types, Mailbox, Boxes
    <2>5. pec' \in PecState
      BY <1>1, <2>2, <2>3, <2>4 DEF PecState
    <2> QED  BY <1>3, <2>5 DEF PecConnect
  <1>4. CASE PecFetch
    <2> DEFINE a == pec.account
    <2>1. PICK failed \in FetchOutcomes(a, pec.max) :
            /\ Fetched(a, failed)
            /\ \/ pec' = [pec EXCEPT !.pc = "work", !.uids = FetchSinceUid(a, pec.max, failed)]
               \/ pec' = [pec EXCEPT !.pc = "sync"]
               \/ pec' = NextAccount
      BY <1>4 DEF PecFetch
    <2>2. a \in Boxes
      BY <1>1 DEF PecState
    <2>3. FetchSinceUid(a, pec.max, failed) \subseteq 1..MaxArrivals
      BY <2>2, UidsFit DEF FetchSinceUid
    <2> HIDE DEF a
    <2>4. pec' \in PecState
      <3>1. CASE pec' = [pec EXCEPT !.pc = "work", !.uids = FetchSinceUid(a, pec.max, failed)]
        BY <1>1, <2>3, <3>1 DEF PecState
      <3>2. CASE pec' = [pec EXCEPT !.pc = "sync"]
        BY <1>1, <3>2 DEF PecState
      <3> QED  BY <1>1, <2>1, <3>1, <3>2
    <2>5. missed' \in SUBSET Mails /\ used' \in Usage
      BY <2>1, <2>2, FetchedTypes
    <2> QED  BY <1>4, <2>4, <2>5 DEF PecFetch, messages, Types
  <1>5. CASE PecIgnored
    <2>1. pec' \in PecState
      BY <1>5, PecAdvancesTypes DEF PecIgnored
    <2> QED  BY <1>5, <2>1 DEF PecIgnored, messages, history, Types
  <1>6. CASE PecRecorded
    <2>1. PecMail \in Mails /\ MailId(PecMail) \in Keys
      BY <1>6, PecMailIs, MailIdIs DEF PecRecorded, IsReceipt
    <2>2. EventType(PecMail) \in EventTypes
      BY DEF EventType, EventTypes
    <2>3. events' \in [Keys -> SUBSET EventTypes]
      BY <1>6, <2>1, <2>2, AddEventTypes DEF PecRecorded
    <2>4. recorded' \in [Mails -> 0..2]
      BY <1>6, <2>1, RecordedTypes DEF PecRecorded
    <2>5. CASE IsError(PecMail)
      <3>1. pec' \in PecState
        BY <1>1, <1>6, <2>5 DEF PecRecorded, PecState
      <3> QED  BY <1>6, <2>3, <2>4, <3>1 DEF PecRecorded, messages, Types
    <2>6. CASE ~IsError(PecMail)
      <3>1. pec' \in PecState
        BY <1>6, <2>6, PecAdvancesTypes DEF PecRecorded
      <3> QED  BY <1>6, <2>3, <2>4, <3>1 DEF PecRecorded, messages, Types
    <2> QED  BY <2>5, <2>6
  <1>7. CASE PecClear
    <2>1. pec' \in PecState /\ rows' \in [Pks -> Row]
      BY <1>7, PecAdvancesTypes, ClearTypes DEF PecClear
    <2>2. PecMail \in Mails /\ MailId(PecMail) # NoPk
      BY <1>7, PecMailIs DEF PecClear, Flags
    <2>3. broken' \in SUBSET Pks
      BY <1>7, <2>2, MailIdIs DEF PecClear, Types
    <2> QED  BY <1>7, <2>1, <2>3 DEF PecClear, Types
  <1>8. CASE PecSync
    <2>1. At(pec.max, pec.validity) \in Position
      BY <1>1 DEF PecState, Position, At
    <2>2. sync' \in [Accounts -> Position]
      BY <1>8, <2>1 DEF PecSync, At, Types
    <2> QED  BY <1>1, <1>8, <2>2 DEF PecSync, messages, history, Types
  <1>9. CASE PecAborted
    <2>1. excused' \in SUBSET Mails
      BY <1>9, ExcuseTypes DEF PecAborted, PecGivesUp
    <2> QED  BY <1>1, <1>9, <2>1 DEF PecAborted, PecGivesUp, messages, Types
  <1>10. CASE PecFails
    <2>1. excused' \in SUBSET Mails /\ used' \in Usage
      BY <1>10, ExcuseTypes, FaultTypes DEF PecFails, PecGivesUp
    <2>2. pec.pc = "clear" => PecMail \in Mails /\ MailId(PecMail) # NoPk
      BY PecMailIs DEF Flags
    <2>3. broken' \in SUBSET Pks
      BY <1>10, <2>2, MailIdIs DEF PecFails, Types
    <2> QED  BY <1>1, <1>10, <2>1, <2>3 DEF PecFails, PecGivesUp, messages, Types
  <1>11. CASE PecFindTimeouts
    <2>1. WithoutAcceptance \subseteq Pks
      BY DEF WithoutAcceptance
    <2>2. pec' \in PecState
      BY <1>1, <1>11, <2>1 DEF PecFindTimeouts, PecState
    <2> QED  BY <1>11, <2>2 DEF PecFindTimeouts, messages, history, Types
  <1>12. ASSUME NEW pk \in Pks, PecDeclassify(pk)
         PROVE  pec' \in PecState /\ rows' \in [Pks -> Row] /\ UNCHANGED <<sync, events, history, used>>
    <2>1. pec' \in PecState
      BY <1>1, <1>12 DEF PecDeclassify, PecState
    <2> QED  BY <1>12, <2>1, ClearTypes DEF PecDeclassify
  <1>13. CASE PecTimeout
    <2>1. pec' \in PecState
      BY <1>1, <1>13 DEF PecTimeout, PecState
    <2>2. events' \in [Keys -> SUBSET EventTypes]
      BY <1>1, <1>13, AddEventTypes DEF PecTimeout, EventTypes, Flags
    <2> QED  BY <1>13, <2>1, <2>2 DEF PecTimeout, messages, history, Types
  <1>14. CASE PecTimeoutFails
    <2>1. used' \in Usage /\ broken' \in SUBSET Pks
      BY <1>14, FaultTypes DEF PecTimeoutFails, Types, Flags
    <2> QED  BY <1>1, <1>14, <2>1 DEF PecTimeoutFails, messages, Types
  <1> QED
    <2>1. CASE \E a \in Accounts : PecConnect(a)
      BY <1>3, <2>1 DEF messages, history, Types
    <2>2. CASE \E pk \in Pks : PecDeclassify(pk)
      BY <1>12, <2>2 DEF history, Types
    <2> QED  BY <1>2, <1>4, <1>5, <1>6, <1>7, <1>8, <1>9, <1>10, <1>11, <1>13, <1>14, <2>1, <2>2
             DEF PecStep

\* A mailbox is a UIDVALIDITY and a sequence of mails.
LEMMA MailboxTypes ==
  ASSUME Types, NEW b \in Boxes
  PROVE  box[b].validity \in 1..MaxValidity /\ box[b].mails \in Seq(Mails)
         /\ Len(box[b].mails) \in Nat
  BY DEF Types, Mailbox

LEMMA ArriveTypes ==
  ASSUME Types, NEW m \in Mails, Arrive(m)
  PROVE  Types'
  <1>1. m.box \in Boxes
    BY MailIdIs
  <1>2. box[m.box] \in Mailbox /\ Append(box[m.box].mails, m) \in Seq(Mails)
    BY <1>1, MailboxTypes DEF Types
  <1>3. [box[m.box] EXCEPT !.mails = Append(box[m.box].mails, m)] \in Mailbox
    BY <1>2 DEF Mailbox
  <1>4. box' = [box EXCEPT ![m.box].mails = Append(box[m.box].mails, m)]
    BY DEF Arrive
  <1>5. box' \in [Boxes -> Mailbox]
    BY <1>3, <1>4 DEF Types
  <1>6. used' \in Usage
    BY ReceiversAssumption DEF Arrive, Types, Usage
  <1> QED  BY <1>5, <1>6 DEF Arrive, messages, history, Types

LEMMA RecreateTypes ==
  ASSUME Types, NEW b \in Boxes, Recreate(b)
  PROVE  Types'
  <1>1. box[b].mails \in Seq(Mails) /\ box[b].mails # <<>> /\ box[b].validity \in 1..MaxValidity
        /\ box[b].validity < MaxValidity /\ MaxValidity \in Nat
    BY MailboxTypes, ReceiversAssumption DEF Recreate
  <1>2. PICK mails \in {box[b].mails, Tail(box[b].mails)} :
          box' = [box EXCEPT ![b] = [validity |-> @.validity + 1, mails |-> mails]]
    BY DEF Recreate
  <1>3. mails \in Seq(Mails)
    <2>1. Tail(box[b].mails) \in Seq(Mails)
      BY <1>1
    <2> QED  BY <1>1, <1>2, <2>1
  <1>4. box[b].validity + 1 \in 1..MaxValidity
    BY <1>1
  <1>5. box' \in [Boxes -> Mailbox]
    BY <1>2, <1>3, <1>4 DEF Types, Mailbox
  <1>6. used' \in Usage /\ excused' \in SUBSET Mails
    BY FaultTypes, ExcuseTypes DEF Recreate
  <1> QED  BY <1>5, <1>6 DEF Recreate, messages, Types

LEMMA RestartTypes ==
  ASSUME Types, Boxing, Flags, Restart
  PROVE  Types'
  <1>1. bounce \in BounceState /\ pec \in PecState /\ edit \in Edit /\ sender \in [Pks -> Sending]
        /\ FreshPec \in PecState /\ BounceBox \in Boxes
    BY FreshPecTypes DEF Types, Boxes
  <1>2. FreshBounce \in BounceState
    BY ReceiversAssumption DEF FreshBounce, BounceState
  <1>3. bounce' \in BounceState /\ pec' \in PecState
    BY <1>1, <1>2 DEF Restart
  <1>4. edit' \in Edit
    BY <1>1 DEF Restart, Edit
  <1>5. sender' \in [Pks -> Sending]
    BY <1>1 DEF Restart, Sending
  <1>6. excused' \in SUBSET Mails
    BY DEF Restart, Types
  <1>7. pec.pc = "clear" => PecMail \in Mails /\ MailId(PecMail) # NoPk
    BY PecMailIs DEF Flags
  <1>8. broken' \in SUBSET Pks
    BY <1>7, MailIdIs DEF Restart, Types, Flags
  <1>9. used' \in Usage
    BY FaultTypes DEF Restart
  <1> QED  BY <1>3, <1>4, <1>5, <1>6, <1>8, <1>9 DEF Restart, Types

LEMMA EnvironmentTypes ==
  ASSUME Types, Boxing, Flags, Environment
  PROVE  Types'
  <1>1. ASSUME NEW pk \in Pks, Attempt(pk)
        PROVE  Types'
    <2>1. PICK outcome \in {"sent", "error"} :
            sender' = [sender EXCEPT ![pk] = [sender[pk] EXCEPT !.pc = "read", !.outcome = outcome]]
      BY <1>1 DEF Attempt
    <2>2. [sender[pk] EXCEPT !.pc = "read", !.outcome = outcome] \in Sending
      BY DEF Types, Sending
    <2>3. sender' \in [Pks -> Sending]
      BY <2>1, <2>2 DEF Types
    <2> QED  BY <1>1, <2>3 DEF Attempt, history, Types
  <1>2. ASSUME NEW pk \in Pks, ReadRow(pk)
        PROVE  Types'
    <2>1. rows[pk].pec \in BOOLEAN /\ sender[pk] \in Sending
      BY DEF Types, Row
    <2>2. [sender[pk] EXCEPT !.pc = "write", !.pec = rows[pk].pec] \in Sending
      BY <2>1 DEF Sending
    <2>3. sender' \in [Pks -> Sending]
      BY <1>2, <2>2 DEF ReadRow, Types
    <2> QED  BY <1>2, <2>3 DEF ReadRow, history, Types
  <1>3. ASSUME NEW pk \in Pks, WriteRow(pk)
        PROVE  Types'
    <2>1. sender' \in [Pks -> Sending] /\ rows' \in [Pks -> Row]
      BY <1>3 DEF WriteRow, Types, Sending, Row
    <2> QED  BY <1>3, <2>1 DEF WriteRow, history, Types
  <1>4. ASSUME NEW pk \in Pks, TimePasses(pk)
        PROVE  Types'
    BY <1>4 DEF TimePasses, history, Types
  <1>5. ASSUME NEW a \in Accounts, EditAccount(a)
        PROVE  Types'
    <2>1. edit' \in Edit
      BY <1>5 DEF EditAccount, Edit, Types, Boxes
    <2>2. used' \in Usage
      BY <1>5, FaultTypes DEF EditAccount
    <2> QED  BY <1>5, <2>1, <2>2 DEF EditAccount, messages, history, Types
  <1>6. CASE SaveAccount
    <2>1. sync' \in [Accounts -> Position]
      BY <1>6 DEF SaveAccount, Types, Edit
    <2>2. edit' \in Edit
      BY <1>6 DEF SaveAccount, Types, Edit, Boxes
    <2>3. excused' \in SUBSET Mails
      BY <1>6, ExcuseTypes DEF SaveAccount, Types
    <2> QED  BY <1>6, <2>1, <2>2, <2>3 DEF SaveAccount, messages, Types
  <1> QED
    BY <1>1, <1>2, <1>3, <1>4, <1>5, <1>6, ArriveTypes, RecreateTypes, RestartTypes DEF Environment

-----------------------------------------------------------------------------
(* What a step may do.                                                     *)

\* The ways a mailbox, an account's row and the state of a receiver change.
LEMMA BoxSteps ==
  ASSUME Types, [Next]_vars
  PROVE  \/ box' = box /\ used'.arrivals = used.arrivals
         \/ \E m \in Mails : Arrive(m)
         \/ \E b \in Boxes : Recreate(b)
  <1>0. /\ Fault => used'.arrivals = used.arrivals
        /\ \A b, failed : Fetched(b, failed) => used'.arrivals = used.arrivals
    BY DEF Fault, Fetched, Types, Usage
  <1>1. CASE UNCHANGED vars
    BY <1>1 DEF vars
  <1>2. CASE BounceStep
    BY <1>0, <1>2 DEF BounceStep, BounceConnect, BounceFetch, BounceIgnored, BounceRecorded, BounceAborted,
                BounceFails, history
  <1>3. CASE PecStep
    BY <1>0, <1>3 DEF PecStep, PecListAccounts, PecConnect, PecFetch, PecIgnored, PecRecorded, PecClear,
                PecSync, PecAborted, PecFails, PecFindTimeouts, PecDeclassify, PecTimeout,
                PecTimeoutFails
  <1>4. CASE Environment
    BY <1>0, <1>4 DEF Environment, Attempt, ReadRow, WriteRow, TimePasses, EditAccount, SaveAccount, Restart
  <1> QED  BY <1>1, <1>2, <1>3, <1>4 DEF Next

\* Who moves the bounce receiver.
LEMMA BounceSteps ==
  ASSUME [Next]_vars
  PROVE  bounce' = bounce \/ BounceStep \/ Restart
  BY DEF Next, vars, PecStep, PecListAccounts, PecConnect, PecFetch, PecIgnored, PecRecorded, PecClear,
         PecSync, PecAborted, PecFails, PecFindTimeouts, PecDeclassify, PecTimeout, PecTimeoutFails,
         Environment, Attempt, ReadRow, WriteRow, TimePasses, Arrive, Recreate, EditAccount, SaveAccount

\* Who moves the PEC receiver.
LEMMA PecSteps ==
  ASSUME [Next]_vars
  PROVE  pec' = pec \/ PecStep \/ Restart
  BY DEF Next, vars, BounceStep, BounceConnect, BounceFetch, BounceIgnored, BounceRecorded,
         BounceAborted, BounceFails,
         Environment, Attempt, ReadRow, WriteRow, TimePasses, Arrive, Recreate, EditAccount, SaveAccount

\* What has been excused, missed or broken stays so.
LEMMA HistoryGrows ==
  ASSUME Types, [Next]_vars
  PROVE  missed \subseteq missed' /\ excused \subseteq excused' /\ broken \subseteq broken'
  <1>1. CASE UNCHANGED vars
    BY <1>1 DEF vars
  <1>2. CASE BounceStep
    BY <1>2 DEF BounceStep, BounceConnect, BounceFetch, BounceIgnored, BounceRecorded, BounceAborted,
                BounceFails, Fetched, history
  <1>3. CASE PecStep
    BY <1>3 DEF PecStep, PecListAccounts, PecConnect, PecFetch, PecIgnored, PecRecorded, PecClear,
                PecSync, PecAborted, PecFails, PecFindTimeouts, PecDeclassify, PecTimeout,
                PecTimeoutFails, Fetched, PecGivesUp, Excuse, history
  <1>4. CASE Environment
    BY <1>4 DEF Environment, Attempt, ReadRow, WriteRow, TimePasses, Arrive, Recreate, EditAccount,
                SaveAccount, Restart, Excuse, history
  <1> QED  BY <1>1, <1>2, <1>3, <1>4 DEF Next

-----------------------------------------------------------------------------
(* Mailboxes and polls.                                                    *)

\* A new mail has a UID of its own, after all others.
LEMMA Arriving ==
  ASSUME Types, Boxing, NEW m \in Mails, Arrive(m)
  PROVE  /\ m.box \in Boxes
         /\ \A b \in Boxes \ {m.box} : box'[b] = box[b]
         /\ box'[m.box].validity = box[m.box].validity
         /\ box'[m.box].mails = Append(box[m.box].mails, m)
         /\ \A u \in 1..Len(box[m.box].mails) : box[m.box].mails[u] # m
         /\ recorded[m] = 0
         /\ used'.arrivals = used.arrivals + 1
         /\ UNCHANGED <<bounce, pec, sync, edit, events, rows, sender, recorded, excused, missed, broken>>
  <1>1. m.box \in Boxes
    BY MailIdIs
  <1>2. box \in [Boxes -> Mailbox] /\ used \in Usage
    BY DEF Types
  <1>3. /\ \A b \in Boxes \ {m.box} : box'[b] = box[b]
        /\ box'[m.box] = [box[m.box] EXCEPT !.mails = Append(box[m.box].mails, m)]
    BY <1>1, <1>2 DEF Arrive
  <1>4. \A u \in 1..Len(box[m.box].mails) : box[m.box].mails[u] # m
    BY <1>1, UidsFit DEF Arrive, Arrived
  <1> QED  BY <1>1, <1>2, <1>3, <1>4 DEF Arrive, Mailbox, Usage, messages, history

\* A mailbox that is recreated has another UIDVALIDITY, and no session.
LEMMA Recreating ==
  ASSUME Types, Boxing, NEW b \in Boxes, Recreate(b)
  PROVE  /\ \A c \in Boxes \ {b} : box'[c] = box[c]
         /\ box'[b].validity = box[b].validity + 1
         /\ box'[b].mails \in {box[b].mails, Tail(box[b].mails)} /\ box[b].mails # <<>>
         /\ b = BounceBox => bounce.pc = "sleep"
         /\ b # BounceBox => ~(PecOpen /\ pec.account = b)
         /\ used'.arrivals = used.arrivals
         /\ Excuse(b, Uids(b))
         /\ UNCHANGED <<bounce, pec, sync, edit, events, rows, sender, recorded, missed, broken>>
  <1>1. PICK mails \in {box[b].mails, Tail(box[b].mails)} :
          box' = [box EXCEPT ![b] = [validity |-> box[b].validity + 1, mails |-> mails]]
    BY DEF Recreate
  <1>2. /\ \A c \in Boxes \ {b} : box'[c] = box[c]
        /\ box'[b] = [validity |-> box[b].validity + 1, mails |-> mails]
    BY <1>1 DEF Types
  <1>3. used'.arrivals = used.arrivals
    BY DEF Recreate, Fault, Types, Usage
  <1> QED  BY <1>2, <1>3 DEF Recreate, PecOpen, messages

\* A mail arrives once, in its own mailbox.
LEMMA BoxedStays ==
  ASSUME Types, Boxing, [Next]_vars
  PROVE  \A b \in Boxes : Boxed(b, box'[b]) /\ Len(box'[b].mails) <= used'.arrivals
  <1>1. TAKE b \in Boxes
  <1>2. /\ box[b].mails \in Seq(Mails) /\ Len(box[b].mails) \in Nat
        /\ Boxed(b, box[b]) /\ Len(box[b].mails) <= used.arrivals /\ used.arrivals \in Nat
    BY MailboxTypes, ReceiversAssumption DEF Boxing, Types, Usage
  <1>3. CASE box' = box /\ used'.arrivals = used.arrivals
    BY <1>2, <1>3
  <1>4. ASSUME NEW m \in Mails, Arrive(m)
        PROVE  Boxed(b, box'[b]) /\ Len(box'[b].mails) <= used'.arrivals
    <2>1. CASE b # m.box
      <3>1. box'[b] = box[b] /\ used'.arrivals = used.arrivals + 1
        BY <1>4, <2>1, Arriving
      <3> QED  BY <1>2, <3>1
    <2>2. CASE b = m.box
      <3>1. /\ box'[b].mails = Append(box[b].mails, m)
            /\ \A u \in 1..Len(box[b].mails) : box[b].mails[u] # m
            /\ used'.arrivals = used.arrivals + 1
        BY <1>4, <2>2, Arriving
      <3>2. /\ Len(box'[b].mails) = Len(box[b].mails) + 1
            /\ \A u \in 1..Len(box[b].mails) : box'[b].mails[u] = box[b].mails[u]
            /\ box'[b].mails[Len(box[b].mails) + 1] = m
        BY <1>2, <3>1
      <3> DEFINE n == Len(box[b].mails)
      <3>3. 1..(n + 1) = 1..n \cup {n + 1} /\ n \in Nat
        BY <1>2
      <3>4. \A u \in 1..n : box[b].mails[u].box = b
        BY <1>2 DEF Boxed
      <3>5. \A u, v \in 1..n : box[b].mails[u] = box[b].mails[v] => u = v
        BY <1>2 DEF Boxed
      <3> HIDE DEF n
      <3>6. \A u \in 1..(n + 1) : box'[b].mails[u].box = b
        BY <2>2, <3>2, <3>3, <3>4 DEF n
      <3>7. \A u, v \in 1..(n + 1) : box'[b].mails[u] = box'[b].mails[v] => u = v
        BY <3>1, <3>2, <3>3, <3>5 DEF n
      <3>8. n <= used.arrivals /\ Len(box'[b].mails) = n + 1
        BY <1>2, <3>2 DEF n
      <3> QED  BY <1>2, <3>1, <3>3, <3>6, <3>7, <3>8 DEF Boxed
    <2> QED  BY <2>1, <2>2
  <1>5. ASSUME NEW c \in Boxes, Recreate(c)
        PROVE  Boxed(b, box'[b]) /\ Len(box'[b].mails) <= used'.arrivals
    <2>1. CASE b # c \/ box'[b].mails = box[b].mails
      <3>1. box'[b].mails = box[b].mails /\ used'.arrivals = used.arrivals
        BY <1>5, <2>1, Recreating
      <3> QED  BY <1>2, <3>1 DEF Boxed
    <2>2. CASE b = c /\ box'[b].mails = Tail(box[b].mails)
      <3>1. box[b].mails # <<>> /\ used'.arrivals = used.arrivals
        BY <1>5, <2>2, Recreating
      <3>2. /\ Len(box'[b].mails) = Len(box[b].mails) - 1 /\ Len(box[b].mails) >= 1
            /\ \A u \in 1..(Len(box[b].mails) - 1) : box'[b].mails[u] = box[b].mails[u + 1]
        BY <1>2, <2>2, <3>1
      <3> DEFINE n == Len(box[b].mails)
      <3>3. \A u \in 1..(n - 1) : u \in 1..n /\ u + 1 \in 1..n
        BY <1>2
      <3>4. \A u \in 1..n : box[b].mails[u].box = b
        BY <1>2 DEF Boxed
      <3>5. \A u, v \in 1..n : box[b].mails[u] = box[b].mails[v] => u = v
        BY <1>2 DEF Boxed
      <3> HIDE DEF n
      <3>6. \A u \in 1..(n - 1) : box'[b].mails[u].box = b
        BY <3>2, <3>3, <3>4 DEF n
      <3>7. ASSUME NEW u \in 1..(n - 1), NEW v \in 1..(n - 1), box'[b].mails[u] = box'[b].mails[v]
            PROVE  u = v
        <4>1. u + 1 = v + 1
          BY <3>2, <3>3, <3>5, <3>7 DEF n
        <4> QED  BY <4>1
      <3>8. Len(box'[b].mails) = n - 1 /\ n \in Nat /\ n <= used.arrivals
        BY <1>2, <3>2 DEF n
      <3> QED  BY <1>2, <3>1, <3>6, <3>7, <3>8 DEF Boxed
    <2> QED  BY <1>5, <2>1, <2>2, Recreating
  <1> QED  BY <1>3, <1>4, <1>5, BoxSteps

\* A poll goes on while mails arrive and while other FETCHes fail.
LEMMA PollingGoesOn ==
  ASSUME NEW B, NEW validity, NEW last \in Nat, NEW uids, NEW gone, NEW C, NEW more,
         Polling(B, validity, last, uids, gone), gone \subseteq more,
         NEW S, B.mails \in Seq(S), C.validity = B.validity,
         C.mails = B.mails \/ \E m \in S : C.mails = Append(B.mails, m)
  PROVE  Polling(C, validity, last, uids, more)
  <1>1. CASE C.mails = B.mails
    BY <1>1 DEF Polling
  <1>2. ASSUME NEW m \in S, C.mails = Append(B.mails, m)
        PROVE  Polling(C, validity, last, uids, more)
    <2>1. /\ Len(B.mails) \in Nat /\ Len(C.mails) = Len(B.mails) + 1
          /\ \A u \in 1..Len(B.mails) : C.mails[u] = B.mails[u]
      BY <1>2
    <2> QED  BY <2>1 DEF Polling
  <1> QED  BY <1>1, <1>2

\* A mail that is handled is the first of the poll, so the rest is a poll behind it.
LEMMA PollingAdvances ==
  ASSUME NEW B, NEW validity, NEW last \in Nat, NEW uids, NEW gone,
         Polling(B, validity, last, uids, gone), uids # {}, Len(B.mails) \in Nat
  PROVE  Polling(B, validity, Min(uids), uids \ {Min(uids)}, gone)
  <1>1. /\ Min(uids) \in uids /\ Min(uids) \in 1..Len(B.mails)
        /\ \A u \in uids : Min(uids) <= u
    BY NextUid
  <1>2. Min(uids) > last /\ uids \subseteq 1..Len(B.mails) /\ validity = B.validity
    BY <1>1 DEF Polling
  <1>3. \A u \in uids \ {Min(uids)} : u > Min(uids)
    BY <1>1, <1>2
  <1>4. ASSUME NEW v \in 1..Len(B.mails), NEW u \in uids \ {Min(uids)},
               v > Min(uids), v < u, v \notin uids \ {Min(uids)}
        PROVE  B.mails[v] \in gone
    <2>1. v \notin uids /\ v > last
      BY <1>1, <1>2, <1>4
    <2> QED  BY <1>4, <2>1 DEF Polling
  <1> QED  BY <1>2, <1>3, <1>4 DEF Polling

\* What FETCH returns is a poll, and what it could not return is missed.
LEMMA PollingFetches ==
  ASSUME Types, Boxing, NEW b \in Boxes, NEW last \in Nat,
         NEW failed \in FetchOutcomes(b, last), Fetched(b, failed)
  PROVE  Polling(box[b], box[b].validity, last, FetchSinceUid(b, last, failed), missed')
  <1>1. Uids(b) = 1..Len(box[b].mails) /\ Len(box[b].mails) \in Nat
    BY UidsFit
  <1>2. CASE failed = {} \/ failed = Uids(b)
    BY <1>1, <1>2 DEF Polling, FetchSinceUid
  <1>3. ASSUME NEW u \in Uids(b), failed = {u}
        PROVE  Polling(box[b], box[b].validity, last, FetchSinceUid(b, last, failed), missed')
    <2>1. Cardinality(failed) = 1
      BY <1>3, FS_Singleton
    <2>2. box[b].mails[u] \in missed'
      BY <1>3, <2>1 DEF Fetched
    <2> QED  BY <1>1, <1>3, <2>2 DEF Polling, FetchSinceUid
  <1> QED  BY <1>2, <1>3 DEF FetchOutcomes

\* An empty poll has nothing to pass over.
LEMMA NoPollNeeded ==
  ASSUME NEW B, NEW last, NEW gone
  PROVE  Polling(B, B.validity, last, {}, gone)
  BY DEF Polling

\* While a receiver has a mailbox open, mails may arrive in it, nothing else.
Extends(C, B) ==
  /\ C.validity = B.validity
  /\ C.mails = B.mails \/ \E m \in Mails : C.mails = Append(B.mails, m)

\* No mailbox is recreated under an open session; mails are only appended.
LEMMA OpenBoxes ==
  ASSUME Types, Boxing, [Next]_vars
  PROVE  /\ bounce.pc \in {"search", "work"} => Extends(box'[BounceBox], box[BounceBox])
         /\ PecOpen => Extends(box'[pec.account], box[pec.account])
  <1>1. BounceBox \in Boxes /\ pec.account \in Boxes /\ (PecOpen => pec.account # BounceBox)
    BY ReceiversAssumption DEF Types, PecState, Boxes, Boxing
  <1>2. CASE box' = box
    BY <1>2 DEF Extends
  <1>3. ASSUME NEW m \in Mails, Arrive(m), NEW b \in Boxes
        PROVE  Extends(box'[b], box[b])
    <2>1. CASE b # m.box
      <3>1. box'[b] = box[b]
        BY <1>3, <2>1, Arriving
      <3> QED  BY <3>1 DEF Extends
    <2>2. CASE b = m.box
      <3>1. box'[b].validity = box[b].validity /\ box'[b].mails = Append(box[b].mails, m)
        BY <1>3, <2>2, Arriving
      <3> QED  BY <3>1 DEF Extends
    <2> QED  BY <2>1, <2>2
  <1>4. ASSUME NEW c \in Boxes, Recreate(c)
        PROVE  /\ bounce.pc \in {"search", "work"} => Extends(box'[BounceBox], box[BounceBox])
               /\ PecOpen => Extends(box'[pec.account], box[pec.account])
    BY <1>1, <1>4, Recreating DEF Extends
  <1> QED  BY <1>1, <1>2, <1>3, <1>4, BoxSteps

\* The poll of the bounce receiver in the state st.
BouncePolls(st, B, gone) ==
  /\ st.pc \in {"search", "work"} => Polling(B, st.validity, st.last, st.uids, gone)
  /\ (st.pc = "work") = (st.uids # {})

\* The poll of the bounce receiver.
LEMMA BouncePollsOn ==
  ASSUME Types, Boxing, [Next]_vars
  PROVE  BouncePolls(bounce', box'[BounceBox], missed')
  <1> DEFINE B == box[BounceBox]
  <1>1. /\ BounceBox \in Boxes /\ B.mails \in Seq(Mails) /\ Len(B.mails) \in Nat
        /\ bounce \in BounceState /\ bounce.last \in Nat
        /\ BouncePolls(bounce, B, missed) /\ missed \subseteq missed'
    <2>1. BounceBox \in Boxes
      BY DEF Boxes
    <2>2. bounce \in BounceState /\ bounce.last \in Nat
      BY ReceiversAssumption DEF Types, BounceState
    <2> QED  BY <2>1, <2>2, MailboxTypes, HistoryGrows DEF Boxing, BouncePolls
  <1>2. CASE bounce' = bounce
    <2>1. CASE bounce.pc \in {"search", "work"}
      <3>1. Extends(box'[BounceBox], B)
        BY <2>1, OpenBoxes
      <3>2. Polling(B, bounce.validity, bounce.last, bounce.uids, missed)
        BY <1>1, <2>1 DEF BouncePolls
      <3>3. Polling(box'[BounceBox], bounce.validity, bounce.last, bounce.uids, missed')
        BY <1>1, <3>1, <3>2, PollingGoesOn DEF Extends
      <3> QED  BY <1>1, <1>2, <3>3 DEF BouncePolls
    <2> QED  BY <1>1, <1>2, <2>1 DEF BouncePolls
  <1>3. CASE Restart
    BY <1>1, <1>2, <1>3 DEF Restart, FreshBounce, BouncePolls
  <1>4. CASE BounceStep
    <2>1. box' = box
      BY <1>4 DEF BounceStep, BounceConnect, BounceFetch, BounceIgnored, BounceRecorded, BounceAborted,
                  BounceFails
    <2>2. CASE BounceConnect
      <3>1. bounce'.pc = "search" /\ bounce'.validity = B.validity /\ bounce'.uids = {}
        BY <1>1, <2>2 DEF BounceConnect, BounceState, BouncePolls
      <3> QED  BY <2>1, <3>1, NoPollNeeded DEF BouncePolls
    <2>3. CASE BounceFetch
      <3>1. PICK failed \in FetchOutcomes(BounceBox, bounce.last) :
              /\ Fetched(BounceBox, failed)
              /\ bounce' = [bounce EXCEPT !.uids = FetchSinceUid(BounceBox, bounce.last, failed),
                              !.pc = IF FetchSinceUid(BounceBox, bounce.last, failed) = {}
                                     THEN "sleep" ELSE "work"]
        BY <2>3 DEF BounceFetch
      <3> DEFINE uids == FetchSinceUid(BounceBox, bounce.last, failed)
      <3>2. Polling(B, B.validity, bounce.last, uids, missed')
        BY <1>1, <3>1, PollingFetches
      <3>3. bounce.validity = B.validity
        BY <1>1, <2>3 DEF BounceFetch, BouncePolls, Polling
      <3> HIDE DEF uids
      <3>4. bounce' = [bounce EXCEPT !.uids = uids, !.pc = IF uids = {} THEN "sleep" ELSE "work"]
        BY <3>1 DEF uids
      <3>5. /\ bounce'.pc = IF uids = {} THEN "sleep" ELSE "work"
            /\ bounce'.uids = uids /\ bounce'.last = bounce.last /\ bounce'.validity = bounce.validity
        BY <1>1, <3>4 DEF BounceState
      <3> QED  BY <2>1, <3>2, <3>3, <3>5 DEF BouncePolls
    <2>4. CASE bounce.pc = "work" /\ BounceAdvances
      <3> DEFINE rest == bounce.uids \ {Min(bounce.uids)}
      <3>1. Polling(B, bounce.validity, bounce.last, bounce.uids, missed) /\ bounce.uids # {}
        BY <1>1, <2>4 DEF BouncePolls
      <3>2. Polling(B, bounce.validity, Min(bounce.uids), rest, missed)
        BY <1>1, <3>1, PollingAdvances
      <3>3. Polling(B, bounce.validity, Min(bounce.uids), rest, missed')
        BY <1>1, <3>2 DEF Polling
      <3>4. bounce' = [bounce EXCEPT !.last = Min(bounce.uids), !.uids = rest,
                                     !.pc = IF rest = {} THEN "sleep" ELSE "work"]
        BY <2>4 DEF BounceAdvances
      <3> HIDE DEF rest
      <3>5. /\ bounce'.pc = IF rest = {} THEN "sleep" ELSE "work"
            /\ bounce'.uids = rest /\ bounce'.last = Min(bounce.uids)
            /\ bounce'.validity = bounce.validity
        BY <1>1, <3>4 DEF BounceState
      <3> QED  BY <2>1, <3>3, <3>5 DEF BouncePolls
    <2>5. CASE BounceSleeps(bounce.last)
      <3>1. bounce'.pc = "sleep" /\ bounce'.uids = {}
        BY <1>1, <2>5 DEF BounceSleeps, BounceState
      <3> QED  BY <3>1 DEF BouncePolls
    <2> QED
      BY <1>4, <2>2, <2>3, <2>4, <2>5
      DEF BounceStep, BounceIgnored, BounceRecorded, BounceAborted, BounceFails
  <1> QED  BY <1>2, <1>3, <1>4, BounceSteps

\* The poll of the PEC receiver in the state st.
PecPolls(st, B, gone) ==
  /\ st.pc \in {"search", "work", "clear", "sync"} =>
        /\ st.account \in Accounts \ st.todo
        /\ Polling(B[st.account], st.validity, st.max, st.uids, gone)
  /\ (st.pc \in {"work", "clear"}) = (st.uids # {})

\* The poll of the PEC receiver.
LEMMA PecPollsOn ==
  ASSUME Types, Boxing, [Next]_vars
  PROVE  PecPolls(pec', box', missed')
  <1> DEFINE a == pec.account
  <1>1. /\ a \in Boxes /\ box[a].mails \in Seq(Mails) /\ Len(box[a].mails) \in Nat
        /\ pec \in PecState /\ pec.max \in Nat
        /\ PecPolls(pec, box, missed) /\ missed \subseteq missed'
    <2>1. pec \in PecState /\ pec.max \in Nat /\ a \in Boxes
      BY ReceiversAssumption DEF Types, PecState
    <2> QED  BY <2>1, MailboxTypes, HistoryGrows DEF Boxing, PecOpen, PecPolls
  <1>2. CASE pec' = pec
    <2>1. CASE PecOpen
      <3>1. Extends(box'[a], box[a])
        BY <2>1, OpenBoxes
      <3>2. Polling(box[a], pec.validity, pec.max, pec.uids, missed)
        BY <1>1, <2>1 DEF PecPolls, PecOpen
      <3>3. Polling(box'[a], pec.validity, pec.max, pec.uids, missed')
        BY <1>1, <3>1, <3>2, PollingGoesOn DEF Extends
      <3> QED  BY <1>1, <1>2, <2>1, <3>3 DEF PecPolls, PecOpen
    <2> QED  BY <1>1, <1>2, <2>1 DEF PecPolls, PecOpen
  <1>3. ASSUME pec' \in {FreshPec, NextAccount}
        PROVE  PecPolls(pec', box', missed')
    <2>1. pec'.pc \in {"sleep", "accounts"} /\ pec'.uids = {}
      <3>1. FreshPec.pc = "sleep" /\ FreshPec.uids = {}
        BY DEF FreshPec
      <3>2. NextAccount.pc = "accounts" /\ NextAccount.uids = {}
        BY <1>1 DEF NextAccount, PecState
      <3> QED  BY <1>3, <3>1, <3>2
    <2> QED  BY <2>1 DEF PecPolls
  <1>4. CASE Restart
    BY <1>2, <1>3, <1>4 DEF Restart
  <1>5. CASE PecStep
    <2>1. box' = box
      BY <1>5 DEF PecStep, PecListAccounts, PecConnect, PecFetch, PecIgnored, PecRecorded, PecClear,
                  PecSync, PecAborted, PecFails, PecFindTimeouts, PecDeclassify, PecTimeout,
                  PecTimeoutFails
    <2>2. CASE PecListAccounts
      <3>1. pec'.pc = "accounts" /\ pec'.uids = {}
        BY <2>2 DEF PecListAccounts, FreshPec
      <3> QED  BY <3>1 DEF PecPolls
    <2>3. ASSUME NEW c \in Accounts, PecConnect(c)
          PROVE  PecPolls(pec', box', missed')
      <3>1. /\ pec'.pc = "search" /\ pec'.uids = {} /\ pec'.account = c /\ pec'.todo = pec.todo \ {c}
            /\ pec'.validity = box[c].validity
        BY <1>1, <2>3 DEF PecConnect, PecState, PecPolls
      <3> QED  BY <2>1, <3>1, NoPollNeeded DEF PecPolls
    <2>4. CASE PecFetch
      <3>1. PICK failed \in FetchOutcomes(a, pec.max) :
              /\ Fetched(a, failed)
              /\ \/ /\ pec' = [pec EXCEPT !.pc = "work", !.uids = FetchSinceUid(a, pec.max, failed)]
                    /\ FetchSinceUid(a, pec.max, failed) # {}
                 \/ pec' = [pec EXCEPT !.pc = "sync"]
                 \/ pec' = NextAccount
        BY <2>4 DEF PecFetch
      <3> DEFINE uids == FetchSinceUid(a, pec.max, failed)
      <3>2. Polling(box[a], box[a].validity, pec.max, uids, missed')
        BY <1>1, <3>1, PollingFetches
      <3>3. pec.validity = box[a].validity /\ a \in Accounts \ pec.todo /\ pec.uids = {}
        BY <1>1, <2>4 DEF PecFetch, PecPolls, Polling
      <3> HIDE DEF uids, a
      <3>4. CASE pec' = [pec EXCEPT !.pc = "work", !.uids = uids] /\ uids # {}
        <4>1. /\ pec'.pc = "work" /\ pec'.uids = uids /\ pec'.max = pec.max
              /\ pec'.validity = pec.validity /\ pec'.account = a /\ pec'.todo = pec.todo
          BY <1>1, <3>4 DEF PecState, a
        <4> QED  BY <2>1, <3>2, <3>3, <3>4, <4>1 DEF PecPolls
      <3>5. CASE pec' = [pec EXCEPT !.pc = "sync"]
        <4>1. /\ pec'.pc = "sync" /\ pec'.uids = {} /\ pec'.max = pec.max
              /\ pec'.validity = pec.validity /\ pec'.account = a /\ pec'.todo = pec.todo
          BY <1>1, <3>3, <3>5 DEF PecState, a
        <4> QED  BY <2>1, <3>3, <4>1, NoPollNeeded DEF PecPolls
      <3> QED  BY <1>3, <3>1, <3>4, <3>5 DEF uids
    <2>5. CASE pec.pc \in {"work", "clear"} /\ PecAdvances
      <3> DEFINE rest == pec.uids \ {Min(pec.uids)}
      <3>1. /\ Polling(box[a], pec.validity, pec.max, pec.uids, missed) /\ pec.uids # {}
            /\ a \in Accounts \ pec.todo
        BY <1>1, <2>5 DEF PecPolls
      <3>2. Polling(box[a], pec.validity, Min(pec.uids), rest, missed)
        BY <1>1, <3>1, PollingAdvances
      <3>3. Polling(box[a], pec.validity, Min(pec.uids), rest, missed')
        BY <1>1, <3>2 DEF Polling
      <3>4. pec' = [pec EXCEPT !.max = Min(pec.uids), !.uids = rest,
                               !.pc = IF rest = {} THEN "sync" ELSE "work"]
        BY <2>5 DEF PecAdvances
      <3> HIDE DEF rest, a
      <3>5. /\ pec'.pc = IF rest = {} THEN "sync" ELSE "work"
            /\ pec'.uids = rest /\ pec'.max = Min(pec.uids)
            /\ pec'.validity = pec.validity /\ pec'.account = a /\ pec'.todo = pec.todo
        BY <1>1, <3>4 DEF PecState, a
      <3> QED  BY <2>1, <3>1, <3>3, <3>5 DEF PecPolls
    <2>6. CASE pec.pc = "work" /\ pec' = [pec EXCEPT !.pc = "clear"]
      <3>1. /\ Polling(box[a], pec.validity, pec.max, pec.uids, missed) /\ pec.uids # {}
            /\ a \in Accounts \ pec.todo
        BY <1>1, <2>6 DEF PecPolls
      <3>2. Polling(box[a], pec.validity, pec.max, pec.uids, missed')
        BY <1>1, <3>1 DEF Polling
      <3>3. /\ pec'.pc = "clear" /\ pec'.uids = pec.uids /\ pec'.max = pec.max
            /\ pec'.validity = pec.validity /\ pec'.account = a /\ pec'.todo = pec.todo
        BY <1>1, <2>6 DEF PecState
      <3> QED  BY <2>1, <3>1, <3>2, <3>3 DEF PecPolls
    <2>7. CASE PecFindTimeouts \/ (\E pk \in Pks : PecDeclassify(pk)) \/ PecTimeout
      <3>1. pec'.pc \in {"sleep", "declassify", "timeout"} /\ pec'.uids = {}
        BY <1>1, <2>7 DEF PecFindTimeouts, PecDeclassify, PecTimeout, FreshPec, PecState, PecPolls
      <3> QED  BY <3>1 DEF PecPolls
    <2> QED
      BY <1>3, <1>5, <2>2, <2>3, <2>4, <2>5, <2>6, <2>7
      DEF PecStep, PecIgnored, PecRecorded, PecClear, PecSync, PecAborted, PecFails, PecGivesUp,
          PecTimeoutFails
  <1> QED  BY <1>2, <1>4, <1>5, PecSteps

\* Boxing is inductive.
LEMMA BoxingStays ==
  ASSUME Types, Boxing, [Next]_vars
  PROVE  Boxing'
  <1>1. \A b \in Boxes : Boxed(b, box'[b]) /\ Len(box'[b].mails) <= used'.arrivals
    BY BoxedStays
  <1>2. BouncePolls(bounce', box'[BounceBox], missed')
    BY BouncePollsOn
  <1>3. PecPolls(pec', box', missed')
    BY PecPollsOn
  <1> QED  BY <1>1, <1>2, <1>3 DEF Boxing, BouncePolls, PecPolls, PecOpen

-----------------------------------------------------------------------------
(* Nothing is skipped.                                                     *)

\* The key of a mail by how its message was submitted.
LEMMA MailIdForm ==
  ASSUME Types, NEW m \in Mails, m.pk # NoPk
  PROVE  /\ m.pk \in Pks
         /\ MailId(m) = IF sender[m.pk].via = "command" THEN ClientId(m.pk)
                        ELSE IF sender[m.pk].via = "rest" THEN NoPk ELSE m.pk
  <1>1. m.pk \in Pks
    BY MailIdIs
  <1>2. sender[m.pk].via \in {"command", "rest", "header"}
    BY <1>1, ReceiversAssumption DEF Types, Sending
  <1> QED  BY <1>1, <1>2 DEF MailId

\* How a message was submitted never changes.
LEMMA ViaStays ==
  ASSUME Types, [Next]_vars
  PROVE  \A pk \in Pks : sender'[pk].via = sender[pk].via
  <1>1. \A pk \in Pks : sender[pk] \in Sending /\ sender \in [Pks -> Sending]
    BY DEF Types
  <1>2. ASSUME NEW pk \in Pks, Attempt(pk)
        PROVE  \A q \in Pks : sender'[q].via = sender[q].via
    BY <1>1, <1>2 DEF Attempt, Sending
  <1>3. ASSUME NEW pk \in Pks, ReadRow(pk)
        PROVE  \A q \in Pks : sender'[q].via = sender[q].via
    BY <1>1, <1>3 DEF ReadRow, Sending
  <1>4. ASSUME NEW pk \in Pks, WriteRow(pk)
        PROVE  \A q \in Pks : sender'[q].via = sender[q].via
    BY <1>1, <1>4 DEF WriteRow, Sending
  <1>5. CASE Restart
    BY <1>1, <1>5 DEF Restart, Sending
  <1>6. CASE UNCHANGED sender
    BY <1>6
  <1> QED
    BY <1>2, <1>3, <1>4, <1>5, <1>6
    DEF Next, vars, messages, BounceStep, BounceConnect, BounceFetch, BounceIgnored, BounceRecorded,
        BounceAborted, BounceFails, PecStep, PecListAccounts, PecConnect, PecFetch, PecIgnored,
        PecRecorded, PecClear, PecSync, PecAborted, PecFails, PecFindTimeouts, PecDeclassify,
        PecTimeout, PecTimeoutFails, Environment, TimePasses, Arrive, Recreate, EditAccount, SaveAccount

\* What a mail is about, and whether its receiver sees that, does not change.
LEMMA MailIdStays ==
  ASSUME Types, Types', [Next]_vars, NEW m \in Mails
  PROVE  MailId(m)' = MailId(m) /\ Recognised(m)' = Recognised(m)
  <1>1. CASE m.pk = NoPk
    BY <1>1 DEF MailId, Recognised, BounceId, IsReceipt
  <1>2. CASE m.pk # NoPk
    <2>1. m.pk \in Pks /\ sender[m.pk].via \in {"command", "rest", "header"}
      BY <1>2, MailIdForm, ReceiversAssumption DEF Types, Sending
    <2>2. sender'[m.pk].via = sender[m.pk].via
      BY <2>1, ViaStays
    <2>3. MailId(m)' = MailId(m)
      BY <1>2, <2>1, <2>2 DEF MailId
    <2> QED  BY <2>3 DEF Recognised, BounceId, IsReceipt
  <1> QED  BY <1>1, <1>2

\* Who records mails.
LEMMA RecordingSteps ==
  ASSUME [Next]_vars
  PROVE  recorded' = recorded \/ BounceRecorded \/ PecRecorded
  BY DEF Next, vars, history, BounceStep, BounceConnect, BounceFetch, BounceIgnored, BounceAborted,
         BounceFails, PecStep, PecListAccounts, PecConnect, PecFetch, PecIgnored, PecClear, PecSync,
         PecAborted, PecFails, PecFindTimeouts, PecDeclassify, PecTimeout, PecTimeoutFails, Environment,
         Attempt, ReadRow, WriteRow, TimePasses, Arrive, Recreate, EditAccount, SaveAccount, Restart

\* What is recorded stays recorded.
LEMMA RecordedGrows ==
  ASSUME Types, Boxing, [Next]_vars
  PROVE  \A m \in Mails : recorded[m] > 0 => recorded'[m] > 0
  <1>1. recorded \in [Mails -> 0..2]
    BY DEF Types
  <1>2. ASSUME NEW m \in Mails, Recorded(m)
        PROVE  \A n \in Mails : recorded[n] > 0 => recorded'[n] > 0
    BY <1>1, <1>2 DEF Recorded
  <1>3. CASE BounceRecorded
    BY <1>2, <1>3, BounceMailIs DEF BounceRecorded
  <1>4. CASE PecRecorded
    BY <1>2, <1>4, PecMailIs DEF PecRecorded
  <1> QED  BY <1>3, <1>4, RecordingSteps

\* What needs no further look never will again.
LEMMA HandledGrows ==
  ASSUME Types, Types', Boxing, [Next]_vars
  PROVE  Handled \subseteq Handled' /\ missed \cup missed' \subseteq Handled'
  <1>1. missed \subseteq missed' /\ missed' \in SUBSET Mails
    BY HistoryGrows DEF Types
  <1> QED  BY <1>1, RecordedGrows, MailIdStays DEF Handled

\* A position that is sound stays so in every step that leaves it alone.
LEMMA SoundStays ==
  ASSUME Types, Types', Boxing, [Next]_vars, NEW b \in Boxes, NEW at \in Position,
         Sound(box[b], at, Handled)
  PROVE  Sound(box'[b], at, Handled')
  <1>1. /\ box[b].validity \in 1..MaxValidity /\ Len(box[b].mails) \in Nat /\ box[b].mails \in Seq(Mails)
        /\ at.validity \in Nat /\ at.last \in Nat
    BY MailboxTypes, ReceiversAssumption DEF Position
  <1>2. Sound(box[b], at, Handled')
    BY HandledGrows DEF Sound
  <1>3. CASE box'[b] = box[b]
    BY <1>2, <1>3
  <1>4. ASSUME NEW m \in Mails, Arrive(m), b = m.box
        PROVE  Sound(box'[b], at, Handled')
    <2>1. box'[b].validity = box[b].validity /\ box'[b].mails = Append(box[b].mails, m)
      BY <1>4, Arriving
    <2>2. /\ Len(box'[b].mails) = Len(box[b].mails) + 1
          /\ \A u \in 1..Len(box[b].mails) : box'[b].mails[u] = box[b].mails[u]
      BY <1>1, <2>1
    <2> QED  BY <1>1, <1>2, <2>1, <2>2 DEF Sound
  <1>5. ASSUME NEW c \in Boxes, Recreate(c), b = c
        PROVE  Sound(box'[b], at, Handled')
    <2>1. box'[b].validity = box[b].validity + 1
      BY <1>5, Recreating
    <2> QED  BY <1>1, <1>2, <2>1 DEF Sound
  <1> QED  BY <1>3, <1>4, <1>5, BoxSteps, Arriving, Recreating

\* A position may move past a mail that is handled and those that were missed.
LEMMA SoundAdvances ==
  ASSUME NEW B, NEW validity, NEW last \in Nat, NEW uids, NEW gone, NEW handled,
         Polling(B, validity, last, uids, gone), uids # {}, Len(B.mails) \in Nat,
         B.validity \in Nat \ {0}, gone \subseteq handled,
         Sound(B, At(last, validity), handled), B.mails[Min(uids)] \in handled
  PROVE  Sound(B, At(Min(uids), validity), handled)
  <1>1. /\ Min(uids) \in uids /\ Min(uids) \in 1..Len(B.mails)
        /\ \A u \in uids : Min(uids) <= u
    BY NextUid
  <1>2. validity = B.validity /\ \A u \in 1..last : B.mails[u] \in handled
    BY DEF Polling, Sound, At
  <1>3. ASSUME NEW u \in 1..Min(uids)
        PROVE  B.mails[u] \in handled
    <2>1. CASE u <= last
      BY <1>2, <2>1
    <2>2. CASE u = Min(uids)
      BY <2>2
    <2>3. CASE u > last /\ u < Min(uids)
      <3>1. u \notin uids /\ u \in 1..Len(B.mails)
        BY <1>1, <2>3
      <3> QED  BY <1>1, <2>3, <3>1 DEF Polling
    <2> QED  BY <1>1, <2>1, <2>2, <2>3
  <1> QED  BY <1>1, <1>2, <1>3 DEF Sound, At

\* Before the first UID there is nothing to handle.
LEMMA SoundFromStart ==
  ASSUME NEW B, NEW validity, NEW handled, validity <= B.validity, Len(B.mails) \in Nat
  PROVE  Sound(B, At(0, validity), handled)
  BY DEF Sound, At

\* The position of the bounce receiver in the state st.
BounceSound(st, B, handled) == Sound(B, At(st.last, st.validity), handled)

\* The position of the bounce receiver stays sound.
LEMMA BounceSoundStays ==
  ASSUME Types, Types', Boxing, Soundness, [Next]_vars
  PROVE  BounceSound(bounce', box'[BounceBox], Handled')
  <1> DEFINE B == box[BounceBox]
             at == At(bounce.last, bounce.validity)
  <1>1. /\ BounceBox \in Boxes /\ Len(B.mails) \in Nat /\ B.validity \in Nat \ {0}
        /\ bounce \in BounceState /\ bounce.last \in Nat /\ at \in Position
    <2>1. BounceBox \in Boxes
      BY DEF Boxes
    <2>2. bounce \in BounceState /\ bounce.last \in Nat /\ at \in Position
      BY ReceiversAssumption DEF Types, BounceState, Position, At
    <2> QED  BY <2>1, <2>2, MailboxTypes, ReceiversAssumption
  <1>2. Sound(box'[BounceBox], at, Handled')
    BY <1>1, SoundStays DEF Soundness
  <1>3. CASE bounce'.last = bounce.last /\ bounce'.validity = bounce.validity
    BY <1>2, <1>3 DEF BounceSound
  <1>4. CASE Restart
    <2>1. bounce' = bounce \/ (bounce'.last = 0 /\ bounce'.validity = 0)
      BY <1>4 DEF Restart, FreshBounce
    <2>2. Sound(B, At(0, 0), Handled') /\ box' = box
      BY <1>1, <1>4, SoundFromStart DEF Restart
    <2> QED  BY <1>2, <2>1, <2>2 DEF BounceSound
  <1>5. CASE BounceStep
    <2>1. box' = box
      BY <1>5 DEF BounceStep, BounceConnect, BounceFetch, BounceIgnored, BounceRecorded, BounceAborted,
                  BounceFails
    <2>2. CASE BounceConnect
      <3>1. /\ bounce'.validity = B.validity
            /\ bounce'.last = IF bounce.validity \notin {0, B.validity} THEN 0 ELSE bounce.last
        BY <1>1, <2>2 DEF BounceConnect, BounceState
      <3>2. CASE bounce'.last = 0
        BY <1>1, <2>1, <3>1, <3>2, SoundFromStart DEF BounceSound
      <3>3. CASE bounce.validity = B.validity
        BY <1>3, <3>1, <3>3
      <3>4. CASE bounce.validity = 0
        <4>1. bounce.last = 0
          BY <1>2, <3>4 DEF Sound, At
        <4> QED  BY <3>1, <3>2, <3>4, <4>1
      <3> QED  BY <3>1, <3>2, <3>3, <3>4
    <2>3. CASE bounce.pc = "work" /\ BounceAdvances /\ BounceMail \in Handled'
      <3>1. Polling(B, bounce.validity, bounce.last, bounce.uids, missed) /\ bounce.uids # {}
            /\ BounceMail = B.mails[Min(bounce.uids)]
        BY <2>3, BounceMailIs DEF Boxing
      <3>2. Sound(B, At(Min(bounce.uids), bounce.validity), Handled')
        BY <1>1, <1>2, <2>1, <2>3, <3>1, HandledGrows, SoundAdvances
      <3>3. bounce'.last = Min(bounce.uids) /\ bounce'.validity = bounce.validity
        BY <1>1, <2>3 DEF BounceAdvances, BounceState
      <3> QED  BY <2>1, <3>2, <3>3 DEF BounceSound
    <2>4. CASE BounceIgnored
      <3>1. BounceMail \in Handled
        BY <2>4, BounceMailIs DEF BounceIgnored, Handled, Recognised
      <3> QED  BY <2>3, <2>4, <3>1, HandledGrows DEF BounceIgnored
    <2>5. CASE BounceRecorded
      <3>1. BounceMail \in Mails /\ recorded'[BounceMail] > 0
        BY <2>5, BounceMailIs DEF BounceRecorded, Recorded, Types
      <3>2. BounceMail \in Handled'
        BY <3>1 DEF Handled
      <3> QED  BY <2>3, <2>5, <3>2 DEF BounceRecorded
    <2>6. CASE BounceFetch \/ BounceAborted \/ BounceFails
      BY <1>1, <1>3, <2>6 DEF BounceFetch, BounceAborted, BounceFails, BounceSleeps, BounceState
    <2> QED  BY <1>5, <2>2, <2>4, <2>5, <2>6 DEF BounceStep
  <1> QED  BY <1>3, <1>4, <1>5, BounceSteps

\* So do those in the rows and in a row read by an API call.
LEMMA RowsSoundStay ==
  ASSUME Types, Types', Boxing, Soundness, [Next]_vars
  PROVE  /\ \A a \in Accounts : Sound(box'[a], sync'[a], Handled')
         /\ edit'.account \in Accounts => Sound(box'[edit'.account], edit'.row, Handled')
  <1>1. Accounts \subseteq Boxes /\ sync \in [Accounts -> Position] /\ edit \in Edit
        /\ BounceBox \notin Accounts
    BY ReceiversAssumption DEF Types, Boxes
  <1>2. \A a \in Accounts : Sound(box'[a], sync[a], Handled')
    BY <1>1, SoundStays DEF Soundness
  <1>3. edit.account \in Accounts => Sound(box'[edit.account], edit.row, Handled')
    BY <1>1, SoundStays DEF Soundness, Edit
  <1>4. CASE UNCHANGED <<sync, edit>>
    BY <1>2, <1>3, <1>4
  <1>5. CASE PecSync
    <2>1. /\ pec \in PecState /\ PecOpen /\ pec.account \in Accounts
          /\ At(pec.max, pec.validity) \in Position
      BY <1>5, ReceiversAssumption DEF PecSync, PecOpen, Boxing, Types, PecState, Position, At
    <2>2. Sound(box'[pec.account], At(pec.max, pec.validity), Handled')
      BY <1>1, <2>1, SoundStays DEF Soundness
    <2>3. sync' = [sync EXCEPT ![pec.account] = At(pec.max, pec.validity)] /\ edit' = edit
      BY <1>5 DEF PecSync, At
    <2> QED  BY <1>1, <1>2, <1>3, <2>1, <2>2, <2>3
  <1>6. ASSUME NEW a \in Accounts, EditAccount(a)
        PROVE  sync' = sync /\ edit'.account = a /\ edit'.row = sync[a]
    BY <1>6 DEF EditAccount
  <1>7. CASE SaveAccount
    <2>1. sync' = [sync EXCEPT ![edit.account] = edit.row] /\ edit.account \in Accounts
          /\ edit'.account = BounceBox
      BY <1>1, <1>7 DEF SaveAccount, Edit, Boxes
    <2> QED  BY <1>1, <1>2, <1>3, <2>1
  <1>8. CASE Restart
    <2>1. edit'.account = BounceBox /\ sync' = sync
      BY <1>1, <1>8 DEF Restart, Edit
    <2> QED  BY <1>1, <1>2, <2>1
  <1>9. \/ UNCHANGED <<sync, edit>> \/ PecSync \/ SaveAccount \/ Restart
        \/ \E a \in Accounts : EditAccount(a)
    BY DEF Next, vars, BounceStep, BounceConnect, BounceFetch, BounceIgnored, BounceRecorded,
           BounceAborted, BounceFails, PecStep, PecListAccounts, PecConnect, PecFetch, PecIgnored,
           PecRecorded, PecClear, PecAborted, PecFails, PecFindTimeouts, PecDeclassify,
           PecTimeout, PecTimeoutFails, Environment, Attempt, ReadRow, WriteRow, TimePasses, Arrive,
           Recreate
  <1> QED  BY <1>2, <1>4, <1>5, <1>6, <1>7, <1>8, <1>9

\* The positions of the PEC receiver in the state st.
PecSound(st, B, handled) ==
  /\ \A a \in Accounts : Sound(B[a], st.stored[a], handled)
  /\ st.pc \in {"search", "work", "clear", "sync"} =>
        Sound(B[st.account], At(st.max, st.validity), handled)

\* So do those of the PEC receiver.
LEMMA PecSoundStays ==
  ASSUME Types, Types', Boxing, Soundness, [Next]_vars
  PROVE  PecSound(pec', box', Handled')
  <1> DEFINE b == pec.account
             at == At(pec.max, pec.validity)
  <1>1. /\ Accounts \subseteq Boxes /\ b \in Boxes /\ at \in Position
        /\ pec \in PecState /\ pec.max \in Nat
        /\ Len(box[b].mails) \in Nat /\ box[b].validity \in Nat \ {0}
    <2>1. pec \in PecState /\ b \in Boxes /\ pec.max \in Nat /\ at \in Position
      BY ReceiversAssumption DEF Types, PecState, Position, At
    <2> QED  BY <2>1, MailboxTypes, ReceiversAssumption DEF Boxes
  <1>2. \A a \in Accounts : Sound(box'[a], pec.stored[a], Handled')
    BY <1>1, SoundStays DEF Soundness, PecState
  <1>3. PecOpen => Sound(box'[b], at, Handled')
    BY <1>1, SoundStays DEF Soundness
  <1>4. CASE /\ pec'.stored = pec.stored
             /\ pec'.pc \notin {"search", "work", "clear", "sync"}
    BY <1>2, <1>4 DEF PecSound
  <1>5. CASE /\ pec'.stored = pec.stored /\ pec'.account = pec.account
             /\ pec'.max = pec.max /\ pec'.validity = pec.validity
             /\ pec'.pc \in {"search", "work", "clear", "sync"} => PecOpen
    BY <1>2, <1>3, <1>5 DEF PecSound
  <1>6. CASE pec' = FreshPec \/ (pec'.pc \in {"sleep", "declassify"} /\ pec'.stored = FreshPec.stored)
    <2>1. \A a \in Accounts : pec'.stored[a] = At(0, 0)
      BY <1>6 DEF FreshPec, At
    <2>2. \A a \in Accounts : Sound(box'[a], At(0, 0), Handled')
      <3>1. \A a \in Accounts : box'[a].validity \in Nat /\ Len(box'[a].mails) \in Nat
        BY <1>1, ReceiversAssumption DEF Types, Mailbox
      <3> QED  BY <3>1, SoundFromStart
    <2>3. pec'.pc \in {"sleep", "declassify"}
      BY <1>6 DEF FreshPec
    <2> QED  BY <2>1, <2>2, <2>3 DEF PecSound
  <1>7. CASE Restart
    BY <1>5, <1>6, <1>7 DEF Restart, PecOpen
  <1>8. CASE PecStep
    <2>1. box' = box
      BY <1>8 DEF PecStep, PecListAccounts, PecConnect, PecFetch, PecIgnored, PecRecorded, PecClear,
                  PecSync, PecAborted, PecFails, PecFindTimeouts, PecDeclassify, PecTimeout,
                  PecTimeoutFails
    <2>2. CASE PecListAccounts
      <3>1. pec'.pc = "accounts" /\ pec'.stored = sync /\ sync' = sync
        BY <2>2 DEF PecListAccounts, FreshPec
      <3> QED  BY <3>1, RowsSoundStay DEF PecSound
    <2>3. ASSUME NEW a \in Accounts, PecConnect(a)
          PROVE  PecSound(pec', box', Handled')
      <3>1. /\ pec'.pc = "search" /\ pec'.account = a /\ pec'.stored = pec.stored
            /\ pec'.validity = box[a].validity
            /\ pec'.max = IF pec.stored[a].validity \notin {0, box[a].validity} THEN 0
                          ELSE pec.stored[a].last
        BY <1>1, <2>3 DEF PecConnect, PecState
      <3>2. box[a].validity \in Nat \ {0} /\ Len(box[a].mails) \in Nat
        BY <1>1, MailboxTypes, ReceiversAssumption
      <3>3. Sound(box'[a], At(pec'.max, box[a].validity), Handled')
        <4>1. CASE pec'.max = 0
          BY <2>1, <3>2, <4>1, SoundFromStart
        <4>2. CASE pec.stored[a].validity = box[a].validity
          BY <1>2, <3>1, <3>2, <4>2 DEF Sound, At
        <4>3. CASE pec.stored[a].validity = 0
          <5>1. pec.stored[a].last = 0
            BY <1>2, <4>3 DEF Sound
          <5> QED  BY <3>1, <4>1, <4>3, <5>1
        <4> QED  BY <3>1, <4>1, <4>2, <4>3
      <3> QED  BY <1>2, <3>1, <3>3 DEF PecSound
    <2>4. CASE PecFetch
      <3>1. \/ \E uids : pec' = [pec EXCEPT !.pc = "work", !.uids = uids]
            \/ pec' = [pec EXCEPT !.pc = "sync"]
            \/ pec' = NextAccount
        BY <2>4 DEF PecFetch
      <3>2. /\ pec'.stored = pec.stored /\ pec'.account = pec.account
            /\ pec'.max = pec.max /\ pec'.validity = pec.validity
        BY <1>1, <3>1 DEF PecState, NextAccount
      <3> QED  BY <1>5, <2>4, <3>2 DEF PecFetch, PecOpen
    <2>5. CASE pec.pc \in {"work", "clear"} /\ PecAdvances /\ PecMail \in Handled'
      <3>1. Polling(box[b], pec.validity, pec.max, pec.uids, missed) /\ pec.uids # {}
            /\ PecMail = box[b].mails[Min(pec.uids)] /\ PecOpen
        BY <2>5, PecMailIs DEF Boxing, PecOpen
      <3>2. Sound(box[b], At(Min(pec.uids), pec.validity), Handled')
        BY <1>1, <1>3, <2>1, <2>5, <3>1, HandledGrows, SoundAdvances
      <3>3. /\ pec'.max = Min(pec.uids) /\ pec'.validity = pec.validity /\ pec'.account = b
            /\ pec'.stored = pec.stored
        BY <1>1, <2>5 DEF PecAdvances, PecState
      <3> QED  BY <1>2, <2>1, <3>2, <3>3 DEF PecSound
    <2>6. CASE PecIgnored
      <3>1. PecMail.box # BounceBox /\ PecMail \in Mails
        BY <2>6, PecMailIs, ReceiversAssumption DEF PecIgnored, Boxing, PecOpen
      <3>2. PecMail \in Handled
        BY <2>6, <3>1 DEF PecIgnored, Handled, Recognised
      <3> QED  BY <2>5, <2>6, <3>2, HandledGrows DEF PecIgnored
    <2>7. CASE PecRecorded
      <3>1. PecMail \in Mails /\ recorded'[PecMail] > 0
        BY <2>7, PecMailIs DEF PecRecorded, Recorded, Types
      <3>2. PecMail \in Handled'
        BY <3>1 DEF Handled
      <3>3. CASE pec' = [pec EXCEPT !.pc = "clear"]
        <4>1. /\ pec'.stored = pec.stored /\ pec'.account = pec.account
              /\ pec'.max = pec.max /\ pec'.validity = pec.validity
          BY <1>1, <3>3 DEF PecState
        <4> QED  BY <1>5, <2>7, <4>1 DEF PecRecorded, PecOpen
      <3> QED  BY <2>5, <2>7, <3>2, <3>3 DEF PecRecorded
    <2>8. CASE PecClear
      <3>1. PecMail \in Handled
        BY <2>8 DEF PecClear, Soundness
      <3> QED  BY <2>5, <2>8, <3>1, HandledGrows DEF PecClear
    <2>9. CASE pec' = NextAccount
      <3>1. pec'.pc = "accounts" /\ pec'.stored = pec.stored
        BY <1>1, <2>9 DEF NextAccount, PecState
      <3> QED  BY <1>4, <3>1
    <2>10. CASE PecFindTimeouts
      <3>1. pec'.pc \in {"sleep", "declassify"} /\ pec'.stored = FreshPec.stored
        BY <2>10 DEF PecFindTimeouts, FreshPec
      <3> QED  BY <1>6, <3>1
    <2>11. CASE (\E pk \in Pks : PecDeclassify(pk)) \/ PecTimeout
      <3>1. pec'.pc \in {"sleep", "declassify", "timeout"} /\ pec'.stored = pec.stored
        BY <1>1, <2>11 DEF PecDeclassify, PecTimeout, PecState
      <3> QED  BY <1>4, <3>1
    <2> QED
      BY <1>6, <1>8, <2>2, <2>3, <2>4, <2>6, <2>7, <2>8, <2>9, <2>10, <2>11
      DEF PecStep, PecSync, PecAborted, PecFails, PecGivesUp, PecTimeoutFails
  <1> QED  BY <1>5, <1>7, <1>8, PecSteps DEF PecOpen

\* The mail at hand is the same until its receiver has done with it.
LEMMA PecMailStays ==
  ASSUME Types, Boxing, [Next]_vars, pec.pc \in {"work", "clear"},
         pec'.account = pec.account, pec'.uids = pec.uids
  PROVE  PecMail' = PecMail
  <1> DEFINE B == box[pec.account]
             C == box'[pec.account]
             u == Min(pec.uids)
  <1>1. PecMail = B.mails[u] /\ u \in 1..Len(B.mails)
    BY PecMailIs
  <1>2. PecMail' = C.mails[u]
    BY DEF PecMail
  <1>3. pec.account \in Boxes /\ B.mails \in Seq(Mails)
    BY MailboxTypes DEF Types, PecState
  <1>4. Extends(C, B)
    BY OpenBoxes DEF PecOpen
  <1>5. C.mails[u] = B.mails[u]
    <2>1. CASE C.mails = B.mails
      BY <2>1
    <2>2. ASSUME NEW m \in Mails, C.mails = Append(B.mails, m)
          PROVE  C.mails[u] = B.mails[u]
      <3> HIDE DEF B, C, u
      <3> QED  BY <1>1, <1>3, <2>2 DEF B, C
    <2> QED  BY <1>4, <2>1, <2>2 DEF Extends
  <1> QED  BY <1>1, <1>2, <1>5

\* The flag is cleared only after an error has been recorded.
LEMMA OnlyErrorsAreCleared ==
  ASSUME Types, PecStep, pec'.pc = "clear"
  PROVE  PecRecorded /\ IsError(PecMail)
  <1>1. pec \in PecState
    BY DEF Types
  <1>2. NextAccount.pc = "accounts" /\ FreshPec.pc = "sleep"
    BY <1>1 DEF NextAccount, FreshPec, PecState
  <1>3. ~PecAdvances
    BY <1>1 DEF PecAdvances, PecState
  <1>4. ~PecListAccounts /\ ~(\E a \in Accounts : PecConnect(a))
    BY <1>1 DEF PecListAccounts, PecConnect, FreshPec, PecState
  <1>5. ~PecFetch
    BY <1>1, <1>2 DEF PecFetch, PecState
  <1>6. ~PecFindTimeouts /\ ~(\E pk \in Pks : PecDeclassify(pk)) /\ ~PecTimeout
    BY <1>1 DEF PecFindTimeouts, PecDeclassify, PecTimeout, FreshPec, PecState
  <1> QED
    BY <1>2, <1>3, <1>4, <1>5, <1>6
    DEF PecStep, PecIgnored, PecRecorded, PecClear, PecSync, PecAborted, PecFails, PecGivesUp,
        PecTimeoutFails

\* Soundness is inductive.
LEMMA SoundnessStays ==
  ASSUME Types, Types', Boxing, Soundness, [Next]_vars
  PROVE  Soundness'
  <1>1. Sound(box[BounceBox], At(bounce.last, bounce.validity), Handled)'
    BY BounceSoundStays DEF BounceSound
  <1>2. /\ \A a \in Accounts : Sound(box'[a], sync'[a], Handled')
        /\ edit'.account \in Accounts => Sound(box'[edit'.account], edit'.row, Handled')
    BY RowsSoundStay
  <1>3. PecSound(pec', box', Handled')
    BY PecSoundStays
  <1>4. pec'.pc = "clear" => PecMail' \in Handled'
    <2>1. CASE pec' = pec
      <3>1. pec.pc = "clear" => PecMail' = PecMail
        BY <2>1, PecMailStays
      <3> QED  BY <2>1, <3>1, HandledGrows DEF Soundness
    <2>2. CASE PecRecorded
      <3>1. PecMail \in Mails /\ recorded'[PecMail] > 0 /\ pec \in PecState
        BY <2>2, PecMailIs DEF PecRecorded, Recorded, Types
      <3>2. PecMail \in Handled'
        BY <3>1 DEF Handled
      <3>3. CASE pec' = [pec EXCEPT !.pc = "clear"]
        <4>1. pec'.account = pec.account /\ pec'.uids = pec.uids
          BY <3>1, <3>3 DEF PecState
        <4> QED  BY <2>2, <3>2, <4>1, PecMailStays DEF PecRecorded
      <3>4. CASE PecAdvances
        BY <3>1, <3>4 DEF PecAdvances, PecState
      <3> QED  BY <2>2, <3>3, <3>4 DEF PecRecorded
    <2>3. CASE PecStep /\ ~PecRecorded
      <3> QED  BY <2>3, OnlyErrorsAreCleared
    <2>4. CASE Restart
      BY <2>1, <2>4 DEF Restart, FreshPec
    <2> QED  BY <2>1, <2>2, <2>3, <2>4, PecSteps
  <1> QED  BY <1>1, <1>2, <1>3, <1>4 DEF Soundness, PecSound, PecOpen

-----------------------------------------------------------------------------
(* Nothing is recorded twice.                                              *)

\* A mailbox whose recorded mails are excused needs no position.
LEMMA CoversNone ==
  ASSUME NEW B, NEW at, NEW once, \A u \in 1..Len(B.mails) : B.mails[u] \notin once
  PROVE  Covers(B, at, once)
  BY DEF Covers

\* A mail that is recorded and in the mailbox is excused with the mailbox.
LEMMA Excusing ==
  ASSUME Types, Boxing, NEW b \in Boxes, Excuse(b, Uids(b))
  PROVE  \A u \in 1..Len(box[b].mails) :
            recorded[box[b].mails[u]] > 0 => box[b].mails[u] \in excused'
  <1>1. TAKE u \in 1..Len(box[b].mails)
  <1> DEFINE m == box[b].mails[u]
  <1>2. Uids(b) = 1..Len(box[b].mails)
    BY UidsFit
  <1>3. m \in Mails /\ m.box = b
    BY MailboxTypes DEF Boxing, Boxed
  <1>4. Arrived(m) /\ UidOf(m) \in Uids(b)
    BY <1>2, <1>3 DEF Arrived, UidOf
  <1> QED  BY <1>3, <1>4 DEF Excuse

\* After that any position covers what must be left alone: nothing is.
LEMMA ExcusedCovers ==
  ASSUME Types, Boxing, NEW b \in Boxes, Excuse(b, Uids(b)), UNCHANGED recorded,
         NEW B, \A u \in 1..Len(B.mails) : \E v \in 1..Len(box[b].mails) : B.mails[u] = box[b].mails[v],
         NEW at
  PROVE  Covers(B, at, Once')
  <1>1. \A v \in 1..Len(box[b].mails) : box[b].mails[v] \notin Once'
    BY Excusing DEF Once
  <1> QED  BY <1>1, CoversNone

\* What joins Once is the mail that is being recorded.
LEMMA OnceGrows ==
  ASSUME Types, Boxing, [Next]_vars
  PROVE  /\ BounceRecorded => Once' \subseteq Once \cup {BounceMail}
         /\ PecRecorded => Once' \subseteq Once \cup {PecMail}
         /\ ~BounceRecorded /\ ~PecRecorded => Once' \subseteq Once
  <1>1. excused \subseteq excused' /\ recorded \in [Mails -> 0..2]
    BY HistoryGrows DEF Types
  <1>2. ASSUME NEW m \in Mails, Recorded(m)
        PROVE  Once' \subseteq Once \cup {m}
    BY <1>1, <1>2 DEF Recorded, Once
  <1>3. BounceRecorded => Once' \subseteq Once \cup {BounceMail}
    BY <1>2, BounceMailIs DEF BounceRecorded
  <1>4. PecRecorded => Once' \subseteq Once \cup {PecMail}
    BY <1>2, PecMailIs DEF PecRecorded
  <1>5. ~BounceRecorded /\ ~PecRecorded => Once' \subseteq Once
    BY <1>1, RecordingSteps DEF Once
  <1> QED  BY <1>3, <1>4, <1>5

\* In a mailbox where nothing is being recorded a position goes on covering.
LEMMA CoversStays ==
  ASSUME Types, Boxing, [Next]_vars, NEW b \in Boxes, NEW at, NEW S,
         Covers(box[b], at, Once \ S), \A m \in Once' \ Once : m.box # b
  PROVE  Covers(box'[b], at, Once' \ S)
  <1>1. /\ box[b].mails \in Seq(Mails) /\ Len(box[b].mails) \in Nat
        /\ \A u \in 1..Len(box[b].mails) : box[b].mails[u].box = b
    BY MailboxTypes DEF Boxing, Boxed
  <1>2. Covers(box[b], at, Once' \ S)
    BY <1>1 DEF Covers
  <1>3. CASE box'[b] = box[b]
    BY <1>2, <1>3
  <1>4. ASSUME NEW m \in Mails, Arrive(m), b = m.box
        PROVE  Covers(box'[b], at, Once' \ S)
    <2>1. /\ box'[b].validity = box[b].validity /\ box'[b].mails = Append(box[b].mails, m)
          /\ m \notin Once'
      BY <1>4, Arriving DEF Once
    <2>2. /\ Len(box'[b].mails) = Len(box[b].mails) + 1
          /\ \A u \in 1..Len(box[b].mails) : box'[b].mails[u] = box[b].mails[u]
          /\ box'[b].mails[Len(box[b].mails) + 1] = m
      BY <1>1, <2>1
    <2>3. ASSUME NEW u \in 1..Len(box'[b].mails), box'[b].mails[u] \in Once' \ S
          PROVE  at.validity = box'[b].validity /\ u <= at.last
      <3>1. u # Len(box[b].mails) + 1
        BY <2>1, <2>2, <2>3
      <3>2. u \in 1..Len(box[b].mails)
        BY <1>1, <2>2, <3>1
      <3> QED  BY <1>2, <2>1, <2>2, <2>3, <3>2 DEF Covers
    <2> QED  BY <2>3 DEF Covers
  <1>5. ASSUME NEW c \in Boxes, Recreate(c), b = c
        PROVE  Covers(box'[b], at, Once' \ S)
    <2>1. /\ box'[b].mails \in {box[b].mails, Tail(box[b].mails)} /\ box[b].mails # <<>>
          /\ Excuse(b, Uids(b)) /\ UNCHANGED recorded
      BY <1>5, Recreating
    <2>2. \A u \in 1..Len(box'[b].mails) : \E v \in 1..Len(box[b].mails) :
             box'[b].mails[u] = box[b].mails[v]
      <3>1. CASE box'[b].mails = box[b].mails
        BY <3>1
      <3>2. CASE box'[b].mails = Tail(box[b].mails)
        <4>1. /\ Len(box'[b].mails) = Len(box[b].mails) - 1 /\ Len(box[b].mails) >= 1
              /\ \A u \in 1..(Len(box[b].mails) - 1) : box'[b].mails[u] = box[b].mails[u + 1]
          BY <1>1, <2>1, <3>2
        <4>2. \A u \in 1..(Len(box[b].mails) - 1) : u + 1 \in 1..Len(box[b].mails)
          BY <1>1
        <4> QED  BY <4>1, <4>2
      <3> QED  BY <2>1, <3>1, <3>2
    <2>3. Covers(box'[b], at, Once')
      BY <2>1, <2>2, ExcusedCovers
    <2> QED  BY <2>3 DEF Covers
  <1>6. \/ box'[b] = box[b] \/ Recreate(b)
        \/ \E m \in Mails : Arrive(m) /\ b = m.box
    BY BoxSteps, Arriving, Recreating
  <1> QED  BY <1>3, <1>4, <1>5, <1>6

\* The mail at hand may be recorded as the poll advances over it.
LEMMA CoversAdvances ==
  ASSUME NEW B, NEW b, NEW validity, NEW last \in Nat, NEW uids, NEW gone, NEW once, NEW more, NEW m,
         Polling(B, validity, last, uids, gone), uids # {}, Len(B.mails) \in Nat, Boxed(b, B),
         Covers(B, At(last, validity), once \ {m}), m = B.mails[Min(uids)], more \subseteq once \cup {m}
  PROVE  Covers(B, At(Min(uids), validity), more)
  <1>1. Min(uids) \in uids /\ Min(uids) \in 1..Len(B.mails) /\ Min(uids) > last
        /\ validity = B.validity
    BY NextUid DEF Polling
  <1>2. ASSUME NEW u \in 1..Len(B.mails), B.mails[u] \in more
        PROVE  u <= Min(uids)
    <2>1. CASE B.mails[u] = m
      BY <1>1, <2>1 DEF Boxed
    <2>2. CASE B.mails[u] # m
      <3>1. u <= last
        BY <1>2, <2>2 DEF Covers, At
      <3> QED  BY <1>1, <3>1
    <2> QED  BY <2>1, <2>2
  <1> QED  BY <1>1, <1>2 DEF Covers, At

\* What is recorded anew is in the mailbox that its receiver has open.
LEMMA NewlyRecorded ==
  ASSUME Types, Boxing, [Next]_vars
  PROVE  \A m \in Once' \ Once :
            \/ BounceRecorded /\ m = BounceMail /\ m.box = BounceBox
            \/ PecRecorded /\ m = PecMail /\ m.box = pec.account /\ PecOpen /\ pec.pc = "work"
                 /\ pec.account \in Accounts
  <1>1. BounceRecorded => BounceMail.box = BounceBox
    BY BounceMailIs DEF BounceRecorded
  <1>2. PecRecorded => /\ PecMail.box = pec.account /\ PecOpen /\ pec.pc = "work"
                       /\ pec.account \in Accounts
    BY PecMailIs DEF PecRecorded, PecOpen, Boxing
  <1> QED  BY <1>1, <1>2, OnceGrows

\* What the position of the bounce receiver has to cover.
BounceCovers(st, B, once) == Covers(B, At(st.last, st.validity), once)

\* The position of the bounce receiver stays behind all it has recorded.
LEMMA BounceCoversOn ==
  ASSUME Types, Boxing, Coverage, [Next]_vars
  PROVE  BounceCovers(bounce', box'[BounceBox], Once')
  <1> DEFINE B == box[BounceBox]
             at == At(bounce.last, bounce.validity)
  <1>1. /\ BounceBox \in Boxes /\ BounceBox \notin Accounts /\ Len(B.mails) \in Nat
        /\ bounce \in BounceState /\ bounce.last \in Nat /\ Boxed(BounceBox, B)
    <2>1. BounceBox \in Boxes
      BY DEF Boxes
    <2>2. bounce \in BounceState /\ bounce.last \in Nat
      BY ReceiversAssumption DEF Types, BounceState
    <2> QED  BY <2>1, <2>2, MailboxTypes, ReceiversAssumption DEF Boxing
  <1>2. Covers(B, at, Once)
    BY DEF Coverage
  <1>3. ~BounceRecorded => Covers(box'[BounceBox], at, Once')
    <2>1. Covers(B, at, Once \ {})
      BY <1>2 DEF Covers
    <2>2. ~BounceRecorded => \A m \in Once' \ Once : m.box # BounceBox
      BY <1>1, NewlyRecorded
    <2>3. ~BounceRecorded => Covers(box'[BounceBox], at, Once' \ {})
      BY <1>1, <2>1, <2>2, CoversStays
    <2> QED  BY <2>3
  <1>4. CASE ~BounceRecorded /\ bounce'.last = bounce.last /\ bounce'.validity = bounce.validity
    BY <1>3, <1>4 DEF BounceCovers
  <1>5. CASE Restart
    <2>1. \A u \in 1..Len(B.mails) : B.mails[u] \notin Once'
      BY <1>1, <1>5, MailboxTypes DEF Restart, Once, Boxed
    <2> QED  BY <1>5, <2>1, CoversNone DEF BounceCovers, Restart
  <1>6. CASE BounceStep
    <2>1. box' = box
      BY <1>6 DEF BounceStep, BounceConnect, BounceFetch, BounceIgnored, BounceRecorded, BounceAborted,
                  BounceFails
    <2>2. CASE BounceConnect
      <3>1. /\ bounce'.validity = B.validity
            /\ bounce'.last = IF bounce.validity \notin {0, B.validity} THEN 0 ELSE bounce.last
        BY <1>1, <2>2 DEF BounceConnect, BounceState
      <3>2. ~BounceRecorded
        BY <2>2 DEF BounceConnect, BounceRecorded
      <3>3. CASE bounce.validity = B.validity
        BY <1>4, <3>1, <3>2, <3>3
      <3>4. CASE bounce.validity # B.validity
        <4>1. \A u \in 1..Len(B.mails) : B.mails[u] \notin Once'
          BY <1>3, <2>1, <3>2, <3>4 DEF Covers, At
        <4> QED  BY <2>1, <4>1, CoversNone DEF BounceCovers
      <3> QED  BY <3>3, <3>4
    <2>3. CASE BounceIgnored \/ BounceRecorded
      <3>1. /\ Polling(B, bounce.validity, bounce.last, bounce.uids, missed) /\ bounce.uids # {}
            /\ BounceMail = B.mails[Min(bounce.uids)] /\ BounceAdvances
        BY <2>3, BounceMailIs DEF Boxing, BounceIgnored, BounceRecorded
      <3>2. Once' \subseteq Once \cup {BounceMail} /\ Covers(B, at, Once \ {BounceMail})
        <4>1. Once' \subseteq Once \cup {BounceMail}
          <5>1. BounceIgnored => Once' = Once
            BY DEF BounceIgnored, history, Once
          <5> QED  BY <2>3, <5>1, OnceGrows
        <4> QED  BY <1>2, <4>1 DEF Covers
      <3>3. Covers(B, At(Min(bounce.uids), bounce.validity), Once')
        BY <1>1, <3>1, <3>2, CoversAdvances
      <3>4. bounce'.last = Min(bounce.uids) /\ bounce'.validity = bounce.validity
        BY <1>1, <3>1 DEF BounceAdvances, BounceState
      <3> QED  BY <2>1, <3>3, <3>4 DEF BounceCovers
    <2>4. CASE BounceFetch \/ BounceAborted \/ BounceFails
      <3>1. bounce'.last = bounce.last /\ bounce'.validity = bounce.validity
        BY <1>1, <2>4 DEF BounceFetch, BounceAborted, BounceFails, BounceSleeps, BounceState
      <3>2. Once' \subseteq Once
        BY <2>4, HistoryGrows DEF BounceFetch, BounceAborted, BounceFails, history, Once
      <3> QED  BY <1>2, <2>1, <3>1, <3>2 DEF BounceCovers, Covers
    <2> QED  BY <1>6, <2>2, <2>3, <2>4 DEF BounceStep
  <1>7. CASE bounce' = bounce /\ ~BounceStep
    BY <1>4, <1>7 DEF BounceStep
  <1> QED  BY <1>5, <1>6, <1>7, BounceSteps

\* So do the rows, except that of the account being polled.
LEMMA RowsCover ==
  ASSUME Types, Boxing, Coverage, [Next]_vars
  PROVE  \A a \in Accounts : Recording(a)' \/ Covers(box'[a], sync'[a], Once')
  <1> SUFFICES ASSUME NEW a \in Accounts
               PROVE  Recording(a)' \/ Covers(box'[a], sync'[a], Once')
    OBVIOUS
  <1>1. /\ a \in Boxes /\ a # BounceBox /\ pec \in PecState /\ edit \in Edit
        /\ sync \in [Accounts -> Position]
        /\ box[a].mails \in Seq(Mails) /\ \A u \in 1..Len(box[a].mails) : box[a].mails[u].box = a
    <2>1. a \in Boxes /\ a # BounceBox
      BY ReceiversAssumption DEF Boxes
    <2> QED  BY <2>1, MailboxTypes DEF Types, Boxing, Boxed
  <1>2. ASSUME box' = box, UNCHANGED recorded, Excuse(a, Uids(a))
        PROVE  Covers(box'[a], sync'[a], Once')
    BY <1>1, <1>2, ExcusedCovers
  <1>3. CASE SaveAccount
    <2>1. box' = box /\ UNCHANGED <<recorded, pec>>
      BY <1>3 DEF SaveAccount
    <2>2. CASE sync'[a] = sync[a]
      <3>1. Once' \subseteq Once
        BY <2>1, HistoryGrows DEF Once
      <3> QED  BY <2>1, <2>2, <3>1 DEF Coverage, Recording, Covers
    <2>3. CASE sync'[a] # sync[a]
      <3>1. edit.account = a /\ Excuse(a, Uids(a))
        BY <1>1, <1>3, <2>3 DEF SaveAccount
      <3> QED  BY <1>2, <2>1, <3>1
    <2> QED  BY <2>2, <2>3
  <1>4. CASE Recording(a) /\ ~Recording(a)'
    <2>1. CASE PecSync
      <3>1. sync'[a] = At(pec.max, pec.validity) /\ box' = box /\ UNCHANGED <<recorded, excused>>
        BY <1>1, <1>4, <2>1 DEF PecSync, Recording, At, history
      <3>2. Covers(box[a], At(pec.max, pec.validity), Once)
        BY <1>4, <2>1 DEF Coverage, PecOpen, PecSync, Recording, BeingCleared
      <3> QED  BY <3>1, <3>2 DEF Once
    <2>2. CASE PecAborted \/ PecFails
      BY <1>2, <1>4, <2>2 DEF PecAborted, PecFails, PecGivesUp, Recording
    <2>3. CASE Restart
      <3>1. \A u \in 1..Len(box[a].mails) : box[a].mails[u] \notin Once'
        BY <1>1, <1>4, <2>3 DEF Restart, Once, Recording
      <3> QED  BY <2>3, <3>1, CoversNone DEF Restart
    <2>4. CASE PecIgnored \/ PecRecorded \/ PecClear
      <3>1. PecAdvances \/ pec' = [pec EXCEPT !.pc = "clear"]
        BY <2>4 DEF PecIgnored, PecRecorded, PecClear
      <3>2. pec'.account = pec.account /\ pec'.pc \in {"work", "sync", "clear"}
        BY <1>1, <3>1 DEF PecAdvances, PecState
      <3> QED  BY <1>4, <3>2 DEF Recording
    <2>5. pec' = pec \/ PecStep \/ Restart
      BY PecSteps
    <2>6. pec' # pec
      BY <1>4 DEF Recording
    <2>7. PecStep => PecSync \/ PecAborted \/ PecFails \/ PecIgnored \/ PecRecorded \/ PecClear
      BY <1>4 DEF PecStep, Recording, PecListAccounts, PecConnect, PecFetch, PecFindTimeouts,
                  PecDeclassify, PecTimeout, PecTimeoutFails
    <2> QED  BY <2>1, <2>2, <2>3, <2>4, <2>5, <2>6, <2>7
  <1>5. CASE ~Recording(a) /\ sync'[a] = sync[a]
    <2>1. Covers(box[a], sync[a], Once \ {})
      BY <1>5 DEF Coverage, Covers
    <2>2. \A m \in Once' \ Once : m.box # a
      BY <1>1, <1>5, NewlyRecorded DEF Recording
    <2>3. Covers(box'[a], sync[a], Once' \ {})
      BY <1>1, <2>1, <2>2, CoversStays
    <2> QED  BY <1>5, <2>3
  <1>6. CASE ~Recording(a) /\ sync'[a] # sync[a]
    <2>1. ~PecSync
      BY <1>1, <1>6 DEF PecSync, Recording
    <2>2. SaveAccount
      BY <1>6, <2>1
      DEF Next, vars, BounceStep, BounceConnect, BounceFetch, BounceIgnored, BounceRecorded,
          BounceAborted, BounceFails, PecStep, PecListAccounts, PecConnect, PecFetch, PecIgnored,
          PecRecorded, PecClear, PecAborted, PecFails, PecFindTimeouts, PecDeclassify, PecTimeout,
          PecTimeoutFails, Environment, Attempt, ReadRow, WriteRow, TimePasses, Arrive, Recreate,
          EditAccount, Restart
    <2> QED  BY <1>3, <2>2
  <1> QED  BY <1>4, <1>5, <1>6

\* What the positions of the PEC receiver have to cover.
PecCovers(st, B, S, once) ==
  /\ \A a \in st.todo : Covers(B[a], st.stored[a], once)
  /\ st.pc \in {"search", "work", "clear", "sync"} =>
        Covers(B[st.account], At(st.max, st.validity), once \ S)

\* So do the positions of the PEC receiver, but for the error whose flag it is to clear.
LEMMA PecCoversOn ==
  ASSUME Types, Boxing, Coverage, [Next]_vars
  PROVE  PecCovers(pec', box', BeingCleared', Once')
  <1> DEFINE b == pec.account
             at == At(pec.max, pec.validity)
  <1>1. /\ Accounts \subseteq Boxes /\ BounceBox \notin Accounts /\ b \in Boxes
        /\ pec \in PecState /\ pec.max \in Nat /\ pec.todo \subseteq Accounts
        /\ Len(box[b].mails) \in Nat /\ Boxed(b, box[b])
    <2>1. pec \in PecState /\ b \in Boxes /\ pec.max \in Nat /\ pec.todo \subseteq Accounts
      BY ReceiversAssumption DEF Types, PecState
    <2> QED  BY <2>1, MailboxTypes, ReceiversAssumption DEF Boxes, Boxing
  <1>2. \A a \in pec.todo : Covers(box'[a], pec.stored[a], Once')
    <2>1. TAKE a \in pec.todo
    <2>2. a \in Boxes /\ Covers(box[a], pec.stored[a], Once \ {})
      BY <1>1 DEF Coverage, Covers
    <2>3. PecOpen => b # a
      BY DEF Boxing
    <2>4. \A m \in Once' \ Once : m.box # a
      BY <1>1, <2>3, NewlyRecorded
    <2>5. Covers(box'[a], pec.stored[a], Once' \ {})
      BY <2>2, <2>4, CoversStays
    <2> QED  BY <2>5
  <1>3. PecOpen /\ ~PecRecorded => Covers(box'[b], at, Once' \ BeingCleared)
    <2>1. PecOpen => Covers(box[b], at, Once \ BeingCleared)
      BY DEF Coverage
    <2>2. PecOpen => b # BounceBox
      BY <1>1 DEF Boxing
    <2>3. PecOpen /\ ~PecRecorded => \A m \in Once' \ Once : m.box # b
      BY <2>2, NewlyRecorded
    <2> QED  BY <1>1, <2>1, <2>3, CoversStays
  <1>4. CASE pec'.todo \subseteq pec.todo /\ pec'.stored = pec.stored
             /\ pec'.pc \notin {"search", "work", "clear", "sync"}
    BY <1>2, <1>4 DEF PecCovers
  <1>5. CASE pec' = pec /\ ~PecRecorded
    <2>1. PecOpen => BeingCleared' = BeingCleared
      BY <1>5, PecMailStays DEF BeingCleared
    <2> QED  BY <1>2, <1>3, <1>5, <2>1 DEF PecCovers, PecOpen
  <1>6. CASE pec'.todo = {} /\ pec'.pc \notin {"search", "work", "clear", "sync"}
    BY <1>6 DEF PecCovers
  <1>7. CASE Restart
    <2>1. pec' = FreshPec => pec'.todo = {} /\ pec'.pc \notin {"search", "work", "clear", "sync"}
      BY DEF FreshPec
    <2>2. pec' = pec => pec.pc # "work"
      BY <1>7 DEF Restart, FreshPec
    <2> QED  BY <1>5, <1>6, <1>7, <2>1, <2>2 DEF Restart, PecRecorded
  <1>8. CASE PecStep
    <2>1. box' = box
      BY <1>8 DEF PecStep, PecListAccounts, PecConnect, PecFetch, PecIgnored, PecRecorded, PecClear,
                  PecSync, PecAborted, PecFails, PecFindTimeouts, PecDeclassify, PecTimeout,
                  PecTimeoutFails
    <2>2. CASE PecListAccounts
      <3>1. pec'.pc = "accounts" /\ pec'.stored = sync /\ sync' = sync /\ pec'.todo = Accounts
        BY <2>2 DEF PecListAccounts, FreshPec
      <3>2. \A a \in Accounts : ~Recording(a)'
        BY <3>1 DEF Recording
      <3> QED  BY <3>1, <3>2, RowsCover DEF PecCovers
    <2>3. ASSUME NEW a \in Accounts, PecConnect(a)
          PROVE  PecCovers(pec', box', BeingCleared', Once')
      <3>1. /\ pec'.pc = "search" /\ pec'.account = a /\ pec'.stored = pec.stored
            /\ pec'.validity = box[a].validity /\ pec'.todo \subseteq pec.todo /\ a \in pec.todo
            /\ pec'.max = IF pec.stored[a].validity \notin {0, box[a].validity} THEN 0
                          ELSE pec.stored[a].last
        BY <1>1, <2>3 DEF PecConnect, PecState
      <3>2. Covers(box[a], pec.stored[a], Once')
        BY <1>2, <2>1, <3>1
      <3>3. Covers(box[a], At(pec'.max, pec'.validity), Once')
        <4>1. CASE pec.stored[a].validity = box[a].validity
          BY <3>1, <3>2, <4>1 DEF Covers, At
        <4>2. CASE pec.stored[a].validity # box[a].validity
          BY <3>2, <4>2 DEF Covers
        <4> QED  BY <4>1, <4>2
      <3> QED  BY <1>2, <2>1, <3>1, <3>3 DEF PecCovers, Covers
    <2>4. CASE PecFetch
      <3>1. \/ \E uids : pec' = [pec EXCEPT !.pc = "work", !.uids = uids]
            \/ pec' = [pec EXCEPT !.pc = "sync"]
            \/ pec' = NextAccount
        BY <2>4 DEF PecFetch
      <3>2. /\ pec'.stored = pec.stored /\ pec'.account = pec.account /\ pec'.todo = pec.todo
            /\ pec'.max = pec.max /\ pec'.validity = pec.validity /\ pec.pc = "search"
        BY <1>1, <2>4, <3>1 DEF PecState, NextAccount, PecFetch
      <3>3. Covers(box'[b], at, Once')
        BY <1>3, <2>4, <3>2 DEF PecOpen, BeingCleared, PecRecorded
      <3> QED  BY <1>2, <3>2, <3>3 DEF PecCovers, Covers
    <2>5. CASE /\ pec.pc \in {"work", "clear"} /\ PecAdvances
               /\ Covers(box[b], at, Once \ {PecMail}) /\ Once' \subseteq Once \cup {PecMail}
      <3>1. Polling(box[b], pec.validity, pec.max, pec.uids, missed) /\ pec.uids # {}
            /\ PecMail = box[b].mails[Min(pec.uids)]
        BY <2>5, PecMailIs DEF Boxing, PecOpen
      <3> DEFINE B == box[b]
                 uids == pec.uids
                 more == Once'
      <3>2. /\ Polling(B, pec.validity, pec.max, uids, missed) /\ uids # {} /\ Len(B.mails) \in Nat
            /\ Boxed(b, B) /\ Covers(B, At(pec.max, pec.validity), Once \ {PecMail})
            /\ PecMail = B.mails[Min(uids)] /\ more \subseteq Once \cup {PecMail} /\ pec.max \in Nat
        BY <1>1, <2>5, <3>1
      <3> HIDE DEF B, uids, more
      <3>3. Covers(B, At(Min(uids), pec.validity), more)
        BY <3>2, CoversAdvances
      <3>4. Covers(box[b], At(Min(pec.uids), pec.validity), Once')
        BY <3>3 DEF B, uids, more
      <3>5. /\ pec'.max = Min(pec.uids) /\ pec'.validity = pec.validity /\ pec'.account = b
            /\ pec'.stored = pec.stored /\ pec'.todo = pec.todo
        BY <1>1, <2>5 DEF PecAdvances, PecState
      <3> QED  BY <1>2, <2>1, <3>4, <3>5 DEF PecCovers, Covers
    <2>6. CASE PecIgnored \/ PecClear
      <3>1. Once' = Once
        BY <2>6 DEF PecIgnored, PecClear, history, Once
      <3>2. Covers(box[b], at, Once \ {PecMail})
        BY <2>6 DEF PecIgnored, PecClear, Coverage, PecOpen, BeingCleared, Covers
      <3> QED  BY <2>5, <2>6, <3>1, <3>2 DEF PecIgnored, PecClear
    <2>7. CASE PecRecorded
      <3>1. Once' \subseteq Once \cup {PecMail}
        BY <2>7, OnceGrows
      <3>2. pec.pc = "work" /\ Covers(box[b], at, Once)
        BY <2>7 DEF PecRecorded, Coverage, PecOpen, BeingCleared
      <3>3. CASE pec' = [pec EXCEPT !.pc = "clear"]
        <4>1. /\ pec'.stored = pec.stored /\ pec'.account = pec.account /\ pec'.todo = pec.todo
              /\ pec'.max = pec.max /\ pec'.validity = pec.validity /\ pec'.uids = pec.uids
              /\ pec'.pc = "clear"
          BY <1>1, <3>3 DEF PecState
        <4>2. BeingCleared' = {PecMail}
          BY <3>2, <4>1, PecMailStays DEF BeingCleared
        <4>3. Covers(box[b], at, Once' \ {PecMail})
          BY <3>1, <3>2 DEF Covers
        <4> QED  BY <1>2, <2>1, <4>1, <4>2, <4>3 DEF PecCovers
      <3>4. Covers(box[b], at, Once \ {PecMail})
        BY <3>2 DEF Covers
      <3> QED  BY <2>5, <2>7, <3>1, <3>2, <3>3, <3>4 DEF PecRecorded
    <2>8. CASE pec' = NextAccount
      <3>1. pec'.pc = "accounts" /\ pec'.stored = pec.stored /\ pec'.todo = pec.todo
        BY <1>1, <2>8 DEF NextAccount, PecState
      <3> QED  BY <1>4, <3>1
    <2>9. CASE PecFindTimeouts \/ PecTimeoutFails
      <3>1. pec'.todo = {} /\ pec'.pc \in {"sleep", "declassify"}
        <4>1. CASE PecFindTimeouts
          BY <4>1 DEF PecFindTimeouts, FreshPec
        <4>2. CASE PecTimeoutFails
          BY <4>2 DEF PecTimeoutFails, FreshPec
        <4> QED  BY <2>9, <4>1, <4>2
      <3> QED  BY <1>6, <3>1
    <2>10. CASE (\E pk \in Pks : PecDeclassify(pk)) \/ PecTimeout
      <3>1. pec'.pc \in {"sleep", "declassify", "timeout"} /\ pec'.stored = pec.stored
            /\ pec'.todo = pec.todo
        <4>1. CASE \E pk \in Pks : PecDeclassify(pk)
          BY <1>1, <4>1 DEF PecDeclassify, PecState
        <4>2. CASE PecTimeout
          BY <1>1, <4>2 DEF PecTimeout, PecState
        <4> QED  BY <2>10, <4>1, <4>2
      <3> QED  BY <1>4, <3>1
    <2> QED
      BY <1>8, <2>2, <2>3, <2>4, <2>6, <2>7, <2>8, <2>9, <2>10
      DEF PecStep, PecSync, PecAborted, PecFails, PecGivesUp
  <1>9. CASE pec' = pec /\ ~PecStep
    BY <1>5, <1>9 DEF PecStep
  <1> QED  BY <1>7, <1>8, <1>9, PecSteps

\* Coverage is inductive.
LEMMA CoverageStays ==
  ASSUME Types, Boxing, Coverage, [Next]_vars
  PROVE  Coverage'
  BY BounceCoversOn, RowsCover, PecCoversOn DEF Coverage, BounceCovers, PecCovers, PecOpen

-----------------------------------------------------------------------------
(* Events and flags.                                                       *)

\* Who writes events: under which key, and of which type.
LEMMA EventSteps ==
  ASSUME Types, [Next]_vars, NEW key \in Keys, NEW type \in events'[key] \ events[key]
  PROVE  \/ BounceRecorded /\ type = "bounce"
         \/ PecRecorded /\ key = MailId(PecMail) /\ type = EventType(PecMail)
         \/ PecTimeout /\ key = pec.pk /\ type = "pec_timeout"
  <1>1. events \in [Keys -> SUBSET EventTypes]
    BY DEF Types
  <1>2. ASSUME NEW k, NEW t, AddEvent(k, t)
        PROVE  key = k /\ type = t
    BY <1>1, <1>2 DEF AddEvent
  <1>3. events' = events \/ BounceRecorded \/ PecRecorded \/ PecTimeout
    BY DEF Next, vars, BounceStep, BounceConnect, BounceFetch, BounceIgnored, BounceAborted,
           BounceFails, PecStep, PecListAccounts, PecConnect, PecFetch, PecIgnored, PecClear, PecSync,
           PecAborted, PecFails, PecFindTimeouts, PecDeclassify, PecTimeoutFails, Environment,
           Attempt, ReadRow, WriteRow, TimePasses, Arrive, Recreate, EditAccount, SaveAccount, Restart
  <1>4. BounceRecorded => type = "bounce"
    BY <1>2 DEF BounceRecorded
  <1>5. PecRecorded => key = MailId(PecMail) /\ type = EventType(PecMail)
    BY <1>2 DEF PecRecorded
  <1>6. PecTimeout => key = pec.pk /\ type = "pec_timeout"
    BY <1>2 DEF PecTimeout
  <1> QED  BY <1>3, <1>4, <1>5, <1>6

\* Events stay.
LEMMA EventsGrow ==
  ASSUME Types, [Next]_vars, NEW key \in Keys
  PROVE  events[key] \subseteq events'[key]
  <1>1. events \in [Keys -> SUBSET EventTypes]
    BY DEF Types
  <1>2. ASSUME NEW k, NEW t, AddEvent(k, t)
        PROVE  events[key] \subseteq events'[key]
    BY <1>1, <1>2 DEF AddEvent
  <1>3. events' = events \/ \E k, t : AddEvent(k, t)
    BY DEF Next, vars, BounceStep, BounceConnect, BounceFetch, BounceIgnored, BounceRecorded,
           BounceAborted, BounceFails, PecStep, PecListAccounts, PecConnect, PecFetch, PecIgnored,
           PecRecorded, PecClear, PecSync, PecAborted, PecFails, PecFindTimeouts, PecDeclassify,
           PecTimeout, PecTimeoutFails, Environment, Attempt, ReadRow, WriteRow, TimePasses, Arrive,
           Recreate, EditAccount, SaveAccount, Restart
  <1> QED  BY <1>2, <1>3

\* Who clears flags, and what the sender may write back.
LEMMA FlagSteps ==
  ASSUME Types, [Next]_vars, NEW pk \in Pks
  PROVE  /\ FlagGone(pk)' => \/ FlagGone(pk)
                             \/ PecClear /\ MailId(PecMail) = pk
                             \/ PecDeclassify(pk)
         /\ FlagLeft(pk)' => FlagLeft(pk)
         /\ PecClear /\ MailId(PecMail) = pk /\ FlagLeft(pk)' => sender[pk].pc = "write"
  <1>1. /\ rows \in [Pks -> Row] /\ sender \in [Pks -> Sending]
        /\ rows[pk] \in Row /\ sender[pk] \in Sending
    BY DEF Types
  <1> DEFINE Goal == /\ FlagGone(pk)' => \/ FlagGone(pk)
                                         \/ PecClear /\ MailId(PecMail) = pk
                                         \/ PecDeclassify(pk)
                     /\ FlagLeft(pk)' => FlagLeft(pk)
                     /\ PecClear /\ MailId(PecMail) = pk /\ FlagLeft(pk)' => sender[pk].pc = "write"
  <1>2. CASE UNCHANGED <<rows, sender>>
    <2>1. PecClear => rows'[pk] = IF pk = MailId(PecMail) THEN [rows[pk] EXCEPT !.pec = FALSE] ELSE rows[pk]
      BY DEF PecClear, ClearPecFlag
    <2>2. PecClear /\ MailId(PecMail) = pk => ~rows'[pk].pec
      BY <1>1, <2>1 DEF Row
    <2> QED  BY <1>2, <2>2 DEF FlagGone, FlagLeft
  <1>3. ASSUME NEW key, ClearPecFlag(key), UNCHANGED sender
        PROVE  /\ FlagGone(pk)' => FlagGone(pk) \/ pk = key
               /\ FlagLeft(pk)' => FlagLeft(pk)
               /\ pk = key /\ FlagLeft(pk)' => sender[pk].pc = "write"
    <2>1. rows'[pk] = IF pk = key THEN [rows[pk] EXCEPT !.pec = FALSE] ELSE rows[pk]
      BY <1>3 DEF ClearPecFlag
    <2>2. pk = key => rows'[pk].pec = FALSE
      BY <1>1, <2>1 DEF Row
    <2> QED  BY <1>3, <2>1, <2>2 DEF FlagGone, FlagLeft
  <1>4. CASE PecClear
    BY <1>3, <1>4 DEF PecClear
  <1>5. ASSUME NEW q \in Pks, PecDeclassify(q)
        PROVE  Goal
    <2>1. ClearPecFlag(q) /\ UNCHANGED sender /\ ~PecClear
      BY <1>5 DEF PecDeclassify, PecClear
    <2>2. /\ FlagGone(pk)' => FlagGone(pk) \/ pk = q
          /\ FlagLeft(pk)' => FlagLeft(pk)
      BY <1>3, <2>1
    <2> QED  BY <1>5, <2>1, <2>2
  <1>6. ASSUME NEW q \in Pks, Attempt(q)
        PROVE  Goal
    <2>1. rows' = rows /\ (sender'[pk] = sender[pk] \/ sender'[pk].pc = "read")
      BY <1>1, <1>6 DEF Attempt, Sending
    <2>2. ~PecClear
      BY <1>1, <1>6 DEF Attempt, PecClear, PecAdvances, Sending
    <2> QED  BY <2>1, <2>2 DEF FlagGone, FlagLeft
  <1>7. ASSUME NEW q \in Pks, ReadRow(q)
        PROVE  Goal
    <2>1. rows' = rows /\ (sender'[pk] = sender[pk] \/ sender'[pk].pec = rows[pk].pec)
      BY <1>1, <1>7 DEF ReadRow, Sending
    <2>2. ~PecClear
      BY <1>1, <1>7 DEF ReadRow, PecClear, PecAdvances, Sending
    <2> QED  BY <2>1, <2>2 DEF FlagGone, FlagLeft
  <1>8. ASSUME NEW q \in Pks, WriteRow(q)
        PROVE  Goal
    <2>1. CASE q # pk
      <3>1. rows'[pk] = rows[pk] /\ sender'[pk] = sender[pk]
        BY <1>1, <1>8, <2>1 DEF WriteRow
      <3>2. ~PecClear
        BY <1>1, <1>8 DEF WriteRow, PecClear, PecAdvances, Sending
      <3> QED  BY <3>1, <3>2 DEF FlagGone, FlagLeft
    <2>2. CASE q = pk
      <3>1. rows'[pk].pec = sender[pk].pec /\ sender'[pk].pc = "done" /\ sender[pk].pc = "write"
        BY <1>1, <1>8, <2>2 DEF WriteRow, Sending
      <3> QED  BY <3>1 DEF FlagGone, FlagLeft
    <2> QED  BY <2>1, <2>2
  <1>9. CASE Restart
    <2>1. rows' = rows /\ (sender'[pk] = sender[pk] \/ sender'[pk].pc = "read")
      BY <1>1, <1>9 DEF Restart, Sending
    <2>2. sender[pk].pc # "write" => sender'[pk] = sender[pk]
      BY <1>9 DEF Restart
    <2> QED  BY <2>1, <2>2, <1>4 DEF FlagGone, FlagLeft
  <1>10. \/ UNCHANGED <<rows, sender>> \/ PecClear \/ Restart
         \/ \E q \in Pks : PecDeclassify(q) \/ Attempt(q) \/ ReadRow(q) \/ WriteRow(q)
    BY DEF Next, vars, messages, BounceStep, BounceConnect, BounceFetch, BounceIgnored, BounceRecorded,
           BounceAborted, BounceFails, PecStep, PecListAccounts, PecConnect, PecFetch, PecIgnored,
           PecRecorded, PecSync, PecAborted, PecFails, PecFindTimeouts,
           PecTimeout, PecTimeoutFails, Environment, TimePasses, Arrive, Recreate, EditAccount, SaveAccount
  <1> QED  BY <1>2, <1>4, <1>5, <1>6, <1>7, <1>8, <1>9, <1>10

\* What may follow where the receiver is between two writes.
LEMMA HalfwaySteps ==
  ASSUME Types, PecStep
  PROVE  /\ pec.pc = "timeout" => PecTimeout \/ PecTimeoutFails
         /\ pec.pc = "clear" => PecClear \/ PecFails
  <1>1. pec.pc = "timeout" => PecTimeout \/ PecTimeoutFails
    BY DEF PecStep, PecListAccounts, PecConnect, PecFetch, PecIgnored, PecRecorded, PecClear, PecSync,
           PecAborted, PecFails, PecFindTimeouts, PecDeclassify
  <1>2. pec.pc = "clear" => PecClear \/ PecFails
    BY DEF PecStep, PecListAccounts, PecConnect, PecFetch, PecIgnored, PecRecorded, PecSync,
           PecAborted, PecFindTimeouts, PecDeclassify, PecTimeout, PecTimeoutFails
  <1> QED  BY <1>1, <1>2

\* The mail at hand stays the same while it is, and stays about the same message.
LEMMA ReceiptStays ==
  ASSUME Types, Types', Boxing, [Next]_vars, pec.pc \in {"work", "clear"},
         pec'.account = pec.account, pec'.uids = pec.uids
  PROVE  PecMail' = PecMail /\ MailId(PecMail)' = MailId(PecMail)
  <1>1. PecMail' = PecMail /\ PecMail \in Mails
    BY PecMailStays, PecMailIs
  <1>2. PICK m \in Mails : m = PecMail
    BY <1>1
  <1>3. MailId(m)' = MailId(m)
    BY MailIdStays
  <1>4. MailId(PecMail)' = MailId(m)'
    BY <1>1, <1>2 DEF MailId
  <1> QED  BY <1>1, <1>2, <1>3, <1>4

\* A client that is told of a message stays told, or is about to be.
LEMMA ToldStays ==
  ASSUME Types, [Next]_vars, NEW pk \in Pks, pk \notin broken', Told(pk)
  PROVE  Told(pk)'
  <1>1. pk \in Keys /\ events[pk] \subseteq events'[pk] /\ events \in [Keys -> SUBSET EventTypes]
    BY EventsGrow DEF Keys, Types
  <1>2. CASE events[pk] \cap {"pec_error", "pec_timeout"} # {}
    BY <1>1, <1>2 DEF Told
  <1>3. CASE pec.pc = "timeout" /\ pec.pk = pk
    <2>1. CASE pec' = pec
      BY <1>3, <2>1 DEF Told
    <2>2. CASE PecTimeout
      BY <1>1, <1>3, <2>2 DEF PecTimeout, AddEvent, Told
    <2>3. CASE PecTimeoutFails \/ Restart
      BY <1>3, <2>3 DEF PecTimeoutFails, Restart
    <2> QED  BY <1>3, <2>1, <2>2, <2>3, PecSteps, HalfwaySteps
  <1> QED  BY <1>2, <1>3 DEF Told

\* What is being cleared is the flag of an error that is recorded.
LEMMA ClearingStays ==
  ASSUME Types, Types', Boxing, Flags, [Next]_vars, pec'.pc = "clear"
  PROVE  MailId(PecMail)' \in Keys \ {NoPk} /\ "pec_error" \in events'[MailId(PecMail)']
  <1>1. pec \in PecState /\ events \in [Keys -> SUBSET EventTypes]
    BY DEF Types
  <1>2. CASE pec' = pec
    <2>1. MailId(PecMail)' = MailId(PecMail) /\ MailId(PecMail) \in Keys \ {NoPk}
          /\ "pec_error" \in events[MailId(PecMail)]
      BY <1>2, ReceiptStays DEF Flags
    <2> QED  BY <2>1, EventsGrow
  <1>3. CASE PecStep
    <2>1. PecRecorded /\ IsError(PecMail)
      BY <1>3, OnlyErrorsAreCleared
    <2>2. pec.pc = "work" /\ pec'.account = pec.account /\ pec'.uids = pec.uids
      BY <1>1, <2>1 DEF PecRecorded, PecState
    <2>3. MailId(PecMail)' = MailId(PecMail) /\ PecMail \in Mails
      BY <2>2, ReceiptStays, PecMailIs
    <2>4. MailId(PecMail) # NoPk /\ MailId(PecMail) \in Keys
      BY <2>1, <2>3, MailIdIs DEF PecRecorded, IsReceipt
    <2>5. EventType(PecMail) = "pec_error"
      BY <2>1 DEF IsError, EventType
    <2>6. "pec_error" \in events'[MailId(PecMail)]
      BY <1>1, <2>1, <2>4, <2>5 DEF PecRecorded, AddEvent
    <2> QED  BY <2>3, <2>4, <2>6
  <1>4. CASE Restart /\ pec' # pec
    BY <1>4 DEF Restart, FreshPec
  <1> QED  BY <1>2, <1>3, <1>4, PecSteps

\* After an error is recorded, the flag is cleared next or the message is broken.
LEMMA ErrorsAreCleared ==
  ASSUME Types, Types', Boxing, Flags, [Next]_vars, NEW pk \in Pks, pk \notin broken',
         "pec_error" \in events'[pk], FlagLeft(pk)'
  PROVE  pec'.pc = "clear" /\ MailId(PecMail)' = pk
  <1>1. pec \in PecState /\ events \in [Keys -> SUBSET EventTypes] /\ pk \in Keys /\ pk \notin broken
    BY HistoryGrows DEF Types, Keys
  <1>2. FlagLeft(pk)
    BY FlagSteps
  <1>3. CASE "pec_error" \in events[pk]
    <2>1. pec.pc = "clear" /\ MailId(PecMail) = pk
      BY <1>1, <1>2, <1>3 DEF Flags
    <2>2. PecMail \in Mails /\ PecMail.pk = pk
      BY <2>1, PecMailIs, MailIdIs
    <2>3. CASE pec' = pec
      BY <2>1, <2>3, ReceiptStays
    <2>4. ~PecClear
      BY <2>1, <2>2, FlagSteps DEF PecClear
    <2>5. ~PecFails /\ ~(Restart /\ pec' # pec)
      BY <2>1, <2>2 DEF PecFails, Restart
    <2> QED  BY <2>1, <2>3, <2>4, <2>5, PecSteps, HalfwaySteps
  <1>4. CASE "pec_error" \notin events[pk]
    <2>1. PecRecorded /\ pk = MailId(PecMail) /\ EventType(PecMail) = "pec_error"
      BY <1>1, <1>4, EventSteps
    <2>2. IsError(PecMail)
      BY <2>1 DEF EventType, IsError
    <2>3. /\ pec.pc = "work" /\ pec'.pc = "clear"
          /\ pec'.account = pec.account /\ pec'.uids = pec.uids
      BY <1>1, <2>1, <2>2 DEF PecRecorded, PecState
    <2> QED  BY <2>1, <2>3, ReceiptStays
  <1> QED  BY <1>3, <1>4

\* What is given up for want of an acceptance has got no answer since.
LEMMA GivenUpSteps ==
  ASSUME Types, [Next]_vars, NEW pk \in GivenUp'
  PROVE  (pk \in GivenUp /\ ~PecRecorded) \/ (PecFindTimeouts /\ pk \in WithoutAcceptance)
  <1>1. pec \in PecState
    BY DEF Types
  <1>2. CASE pec' = pec
    BY <1>1, <1>2 DEF GivenUp, PecRecorded, PecAdvances, PecState
  <1>3. CASE PecFindTimeouts
    <2>1. pec' = [FreshPec EXCEPT !.timedOut = WithoutAcceptance,
                                  !.pc = IF WithoutAcceptance = {} THEN "sleep" ELSE "declassify"]
      BY <1>3 DEF PecFindTimeouts
    <2> QED  BY <1>3, <2>1 DEF GivenUp, FreshPec
  <1>4. ASSUME NEW q \in Pks, PecDeclassify(q)
        PROVE  pk \in GivenUp /\ ~PecRecorded
    <2>1. pec'.pc = "timeout" /\ pec'.pk = q /\ pec'.timedOut = pec.timedOut \ {q}
      BY <1>1, <1>4 DEF PecDeclassify, PecState
    <2> QED  BY <1>4, <2>1 DEF GivenUp, PecDeclassify, PecRecorded
  <1>5. CASE PecTimeout
    <2>1. pec'.pc \in {"sleep", "declassify"} /\ pec'.timedOut = pec.timedOut
      BY <1>1, <1>5 DEF PecTimeout, PecState
    <2> QED  BY <1>5, <2>1 DEF GivenUp, PecTimeout, PecRecorded
  <1>6. pec'.pc \in {"declassify", "timeout"}
    BY DEF GivenUp
  <1>7. ~PecListAccounts /\ ~PecTimeoutFails /\ ~(Restart /\ pec' # pec)
    <2>1. FreshPec.pc = "sleep"
      BY DEF FreshPec
    <2>2. PecListAccounts => pec'.pc = "accounts"
      BY DEF PecListAccounts, FreshPec
    <2> QED  BY <1>6, <2>1, <2>2 DEF PecTimeoutFails, Restart
  <1>8. NextAccount.pc = "accounts"
    BY <1>1 DEF NextAccount, PecState
  <1>9. ~PecAdvances
    BY <1>1, <1>6 DEF PecAdvances, PecState
  <1>10. ~PecIgnored /\ ~PecRecorded /\ ~PecClear /\ ~PecSync /\ ~PecAborted /\ ~PecFails
    BY <1>1, <1>6, <1>8, <1>9
    DEF PecIgnored, PecRecorded, PecClear, PecSync, PecAborted, PecFails, PecGivesUp, PecState
  <1>11. ~PecFetch /\ ~(\E a \in Accounts : PecConnect(a))
    BY <1>1, <1>6, <1>8 DEF PecFetch, PecConnect, PecState
  <1> QED
    BY <1>2, <1>3, <1>4, <1>5, <1>7, <1>10, <1>11, PecSteps DEF PecStep

\* Nobody answers for a message that is being given up, and none had one before.
LEMMA UnansweredStays ==
  ASSUME Types, Flags, [Next]_vars, NEW pk \in Pks, pk \in GivenUp', pk \notin broken'
  PROVE  events'[pk] \cap {"pec_acceptance", "pec_error"} = {}
  <1>1. pk \in Keys /\ pk \notin broken /\ events \in [Keys -> SUBSET EventTypes]
    BY HistoryGrows DEF Keys, Types
  <1>2. CASE pk \in GivenUp /\ ~PecRecorded
    <2>1. events[pk] \cap {"pec_acceptance", "pec_error"} = {}
      BY <1>1, <1>2 DEF Flags
    <2>2. \A type \in events'[pk] \ events[pk] : type \in {"bounce", "pec_timeout"}
      <3>1. ASSUME NEW type \in events'[pk] \ events[pk]
            PROVE  type \in {"bounce", "pec_timeout"}
        BY <1>1, <1>2, EventSteps
      <3> QED  BY <3>1
    <2> QED  BY <2>1, <2>2
  <1>3. CASE PecFindTimeouts /\ pk \in WithoutAcceptance
    <2>1. pec.pc = "accounts" /\ events' = events
      BY <1>3 DEF PecFindTimeouts
    <2>2. FlagLeft(pk) /\ "pec_acceptance" \notin events[pk]
      BY <1>3 DEF WithoutAcceptance, FlagLeft
    <2>3. "pec_error" \notin events[pk]
      BY <1>1, <2>1, <2>2 DEF Flags
    <2> QED  BY <2>1, <2>2, <2>3
  <1> QED  BY <1>2, <1>3, GivenUpSteps

\* Flags is inductive.
LEMMA FlagsStay ==
  ASSUME Types, Types', Boxing, Flags, [Next]_vars
  PROVE  Flags'
  <1>1. broken \subseteq broken'
    BY HistoryGrows
  <1>2. pec'.pc = "timeout" => pec'.pk \in Pks
    <2>1. pec \in PecState /\ pec' \in PecState
      BY DEF Types
    <2>2. ASSUME pec'.pc = "timeout"
          PROVE  pec'.pk \in GivenUp'
      BY <2>2 DEF GivenUp
    <2>3. GivenUp \subseteq Pks
      BY <2>1 DEF GivenUp, Flags, PecState
    <2>4. WithoutAcceptance \subseteq Pks
      BY DEF WithoutAcceptance
    <2> QED  BY <2>2, <2>3, <2>4, GivenUpSteps
  <1>3. ASSUME NEW pk \in Pks, pk \notin broken', FlagGone(pk)'
        PROVE  Told(pk)'
    <2>1. pk \notin broken /\ pk \in Keys
      BY <1>1, <1>3 DEF Keys
    <2>2. CASE FlagGone(pk)
      <3>1. Told(pk)
        BY <2>1, <2>2 DEF Flags
      <3> QED  BY <1>3, <3>1, ToldStays
    <2>3. CASE PecClear /\ MailId(PecMail) = pk
      <3>1. "pec_error" \in events[pk]
        BY <2>3 DEF PecClear, Flags
      <3> QED  BY <2>1, <3>1, EventsGrow DEF Told
    <2>4. CASE PecDeclassify(pk)
      <3>1. pec'.pc = "timeout" /\ pec'.pk = pk
        BY <2>4 DEF PecDeclassify, Types, PecState
      <3> QED  BY <3>1 DEF Told
    <2> QED  BY <1>3, <2>2, <2>3, <2>4, FlagSteps
  <1>4. pec'.pc = "clear" => /\ MailId(PecMail)' \in Keys \ {NoPk}
                             /\ "pec_error" \in events'[MailId(PecMail)']
    BY ClearingStays
  <1>5. \A pk \in Pks \ broken' : "pec_error" \in events'[pk] /\ FlagLeft(pk)' =>
           pec'.pc = "clear" /\ MailId(PecMail)' = pk
    BY ErrorsAreCleared
  <1>6. \A pk \in Pks : pk \in GivenUp' /\ pk \notin broken' =>
           events'[pk] \cap {"pec_acceptance", "pec_error"} = {}
    BY UnansweredStays
  <1>7. GivenUp' \subseteq Pks
    BY <1>2 DEF GivenUp, Types, PecState
  <1> QED  BY <1>2, <1>3, <1>4, <1>5, <1>6, <1>7 DEF Flags

-----------------------------------------------------------------------------
(* Mails that become events twice, and the whole invariant.                *)

IInv == Types /\ Boxing /\ Soundness /\ Coverage /\ Flags /\ RecordedTwiceOnlyIfExcused

\* What a receiver is about to record it has not recorded, or is excused for.
LEMMA NotAgain ==
  ASSUME Types, Boxing, Coverage
  PROVE  /\ bounce.pc = "work" => BounceMail \notin Once
         /\ pec.pc = "work" => PecMail \notin Once
  <1>1. ASSUME bounce.pc = "work"
        PROVE  BounceMail \notin Once
    <2>1. /\ BounceMail \in Mails /\ BounceMail = box[BounceBox].mails[Min(bounce.uids)]
          /\ Min(bounce.uids) \in bounce.uids /\ Min(bounce.uids) \in 1..Len(box[BounceBox].mails)
      BY <1>1, BounceMailIs
    <2>2. Min(bounce.uids) > bounce.last
      BY <1>1, <2>1 DEF Boxing, Polling
    <2> QED  BY <2>1, <2>2 DEF Coverage, Covers, At, Types, BounceState
  <1>2. ASSUME pec.pc = "work"
        PROVE  PecMail \notin Once
    <2>1. /\ PecMail \in Mails /\ PecMail = box[pec.account].mails[Min(pec.uids)]
          /\ Min(pec.uids) \in pec.uids /\ Min(pec.uids) \in 1..Len(box[pec.account].mails)
      BY <1>2, PecMailIs
    <2>2. Min(pec.uids) > pec.max
      BY <1>2, <2>1 DEF Boxing, Polling, PecOpen
    <2>3. Covers(box[pec.account], At(pec.max, pec.validity), Once)
      BY <1>2 DEF Coverage, BeingCleared, PecOpen
    <2> QED  BY <2>1, <2>2, <2>3 DEF Covers, At, Types, PecState
  <1> QED  BY <1>1, <1>2

\* No receiver meets again what it has recorded and is not excused for.
LEMMA RecordedTwiceStays ==
  ASSUME Types, Boxing, Coverage, RecordedTwiceOnlyIfExcused, [Next]_vars
  PROVE  RecordedTwiceOnlyIfExcused'
  <1>1. recorded \in [Mails -> 0..2] /\ excused \subseteq excused'
    BY HistoryGrows DEF Types
  <1>2. ASSUME NEW n \in Mails, Recorded(n), n \notin Once
        PROVE  RecordedTwiceOnlyIfExcused'
    <2> SUFFICES ASSUME NEW m \in Mails, m \notin excused'
                 PROVE  recorded'[m] < 2
      BY DEF RecordedTwiceOnlyIfExcused
    <2>2. m \notin excused /\ recorded[m] \in 0..2 /\ recorded[m] < 2
      BY <1>1 DEF RecordedTwiceOnlyIfExcused
    <2>3. CASE m # n
      BY <1>1, <1>2, <2>2, <2>3 DEF Recorded
    <2>4. CASE m = n
      <3>1. recorded[m] = 0
        BY <1>2, <2>2, <2>4 DEF Once
      <3>2. recorded'[m] = 1
        BY <1>1, <1>2, <2>4, <3>1 DEF Recorded
      <3> QED  BY <3>2
    <2> QED  BY <2>3, <2>4
  <1>3. CASE BounceRecorded
    <2>1. bounce.pc = "work" /\ Recorded(BounceMail)
      BY <1>3 DEF BounceRecorded
    <2> QED  BY <1>2, <2>1, BounceMailIs, NotAgain
  <1>4. CASE PecRecorded
    <2>1. pec.pc = "work" /\ PecOpen /\ Recorded(PecMail)
      BY <1>4 DEF PecRecorded, PecOpen
    <2> QED  BY <1>2, <2>1, PecMailIs, NotAgain
  <1>5. CASE recorded' = recorded
    BY <1>1, <1>5 DEF RecordedTwiceOnlyIfExcused
  <1> QED  BY <1>3, <1>4, <1>5, RecordingSteps

\* Types is inductive, given Boxing and Flags.
LEMMA TypesStay ==
  ASSUME Types, Boxing, Flags, [Next]_vars
  PROVE  Types'
  <1>1. CASE UNCHANGED vars
    BY <1>1 DEF vars, Types
  <1> QED  BY <1>1, BounceTypes, PecTypes, EnvironmentTypes DEF Next

\* The invariant is inductive.
LEMMA Invariance ==
  ASSUME IInv, [Next]_vars
  PROVE  IInv'
  <1>1. Types /\ Boxing /\ Soundness /\ Coverage /\ Flags /\ RecordedTwiceOnlyIfExcused
    BY DEF IInv
  <1>2. Types'
    BY <1>1, TypesStay
  <1>3. Boxing'
    BY <1>1, <1>2, BoxingStays
  <1>4. Soundness'
    BY <1>1, <1>2, <1>3, SoundnessStays
  <1>5. Coverage'
    BY <1>1, <1>2, <1>3, CoverageStays
  <1>6. Flags'
    BY <1>1, <1>2, FlagsStay
  <1>7. RecordedTwiceOnlyIfExcused'
    BY <1>1, RecordedTwiceStays
  <1> QED  BY <1>2, <1>3, <1>4, <1>5, <1>6, <1>7 DEF IInv

\* The invariant holds when the service starts, whatever receivers it starts.
LEMMA Start ==
  Init => IInv
  <1> SUFFICES ASSUME Init PROVE IInv
    OBVIOUS
  <1>1. MaxArrivals \in Nat /\ MaxTroubles \in Nat /\ MaxValidity \in Nat \ {0}
        /\ BounceBox \in Boxes /\ BounceBox \notin Accounts
        /\ Accounts \subseteq Boxes
    BY ReceiversAssumption DEF Boxes
  <1>2. box \in [Boxes -> Mailbox] /\ \A b \in Boxes : box[b].mails = <<>> /\ box[b].validity = 1
    BY <1>1 DEF Init, Mailbox
  <1>3. PICK started \in Deployments :
          /\ bounce = [FreshBounce EXCEPT !.pc = IF "bounce" \in started THEN FreshBounce.pc ELSE "off"]
          /\ pec = [FreshPec EXCEPT !.pc = IF "pec" \in started THEN FreshPec.pc ELSE "off"]
    BY DEF Init
  <1>4. bounce.pc \in {"off", "sleep"} /\ bounce.last = 0 /\ bounce.validity = 0 /\ bounce.uids = {}
        /\ bounce \in BounceState
    <2>1. PICK pc \in {"off", "sleep"} : bounce = [pc |-> pc, last |-> 0, validity |-> 0, uids |-> {}]
      BY <1>3 DEF FreshBounce
    <2> QED  BY <1>1, <2>1 DEF BounceState
  <1>5. /\ pec \in PecState /\ pec.pc \in {"off", "sleep"} /\ pec.uids = {} /\ pec.todo = {}
        /\ \A a \in Accounts : pec.stored[a] = [last |-> 0, validity |-> 0]
    <2>1. FreshPec \in PecState
      BY FreshPecTypes
    <2>2. PICK pc \in {"off", "sleep"} : pec = [FreshPec EXCEPT !.pc = pc]
      BY <1>3 DEF FreshPec
    <2> QED  BY <2>1, <2>2 DEF PecState, FreshPec
  <1>6. /\ sync \in [Accounts -> Position] /\ edit \in Edit
        /\ \A a \in Accounts : sync[a] = [last |-> 0, validity |-> 0]
        /\ edit.account = BounceBox
    BY <1>1 DEF Init, Position, Edit
  <1>7. rows \in [Pks -> Row] /\ \A pk \in Pks : rows[pk].pec
    BY DEF Init, Row
  <1>8. sender \in [Pks -> Sending] /\ \A pk \in Pks : sender[pk].pc = "pending"
    <2>1. PICK via \in [Pks -> Via] :
            sender = [pk \in Pks |-> [pc |-> "pending", outcome |-> "none", pec |-> FALSE,
                                      via |-> via[pk]]]
      BY DEF Init
    <2> QED  BY <2>1 DEF Sending
  <1>9. /\ events \in [Keys -> SUBSET EventTypes] /\ \A key \in Keys : events[key] = {}
        /\ recorded \in [Mails -> 0..2] /\ \A m \in Mails : recorded[m] = 0
        /\ late = {} /\ excused = {} /\ missed = {} /\ broken = {}
        /\ used \in Usage /\ used.arrivals = 0
    BY <1>1 DEF Init, Usage
  <1>10. Types
    BY <1>2, <1>4, <1>5, <1>6, <1>7, <1>8, <1>9 DEF Types
  <1>11. Boxing
    BY <1>1, <1>2, <1>4, <1>5, <1>9 DEF Boxing, Boxed, PecOpen
  <1>12. Soundness
    BY <1>1, <1>2, <1>4, <1>5, <1>6 DEF Soundness, Sound, At, PecOpen
  <1>13. Coverage
    BY <1>1, <1>2, <1>4, <1>5, <1>6 DEF Coverage, Covers, PecOpen
  <1>14. Flags
    <2>1. \A pk \in Pks : pk \in Keys
      BY DEF Keys
    <2> QED  BY <1>5, <1>7, <1>8, <1>9, <2>1 DEF Flags, FlagGone, GivenUp
  <1>15. RecordedTwiceOnlyIfExcused
    BY <1>9 DEF RecordedTwiceOnlyIfExcused
  <1> QED  BY <1>10, <1>11, <1>12, <1>13, <1>14, <1>15 DEF IInv

\* The invariant holds always.
LEMMA Invariant ==
  Spec => []IInv
  <1>1. IInv /\ [Next]_vars => IInv'
    BY Invariance
  <1> QED  BY Start, <1>1, PTL DEF Spec

-----------------------------------------------------------------------------
(* The properties.                                                         *)

\* The positions, rows, events and histories have their types whatever the receivers,
\* the sender and the API calls do: no position gets past the mails and UIDVALIDITYs there are.
THEOREM TypesHold ==
  Spec => []TypeOK
  <1>1. IInv => TypeOK
    BY DEF IInv, Types, TypeOK, Mailbox, BounceState, PecState, Position, Row, Boxes
  <1> QED  BY Invariant, <1>1, PTL

\* A mail behind the position of its receiver (_last_uid, or imap_last_uid of the
\* account) under the UIDVALIDITY of its mailbox has become an event, unless its parser does not
\* recognise it or its FETCH failed: neither a restart, nor a recreated mailbox, nor an aborted
\* poll, nor update_imap_sync_state or an API call writing an old row loses it.
THEOREM NothingIsSkipped ==
  Spec => []NothingSkipped
  <1>1. ASSUME IInv, NEW m \in Mails \ missed, Arrived(m), Recognised(m), Passed(m)
        PROVE  recorded[m] > 0
    <2>1. Types /\ Boxing /\ Soundness
      BY <1>1 DEF IInv
    <2>2. m.box \in Boxes
      BY <2>1, MailIdIs
    <2>3. UidOf(m) \in 1..Len(box[m.box].mails) /\ box[m.box].mails[UidOf(m)] = m
      BY <1>1, <2>1, <2>2, UidsFit DEF Arrived, UidOf
    <2>4. m \in Handled
      <3>1. CASE m.box = BounceBox
        BY <1>1, <2>1, <2>3, <3>1 DEF Passed, Soundness, Sound, At, Types, BounceState
      <3>2. CASE m.box # BounceBox
        BY <1>1, <2>1, <2>2, <2>3, <3>2 DEF Passed, Soundness, Sound, Types, Position, Boxes
      <3> QED  BY <3>1, <3>2
    <2> QED  BY <1>1, <2>4 DEF Handled
  <1>2. IInv => NothingSkipped
    BY <1>1 DEF NothingSkipped
  <1> QED  BY Invariant, <1>2, PTL

\* A mail becomes an event twice only if its receiver was made to forget it.
THEOREM RecordedTwiceIsExcused ==
  Spec => []RecordedTwiceOnlyIfExcused
  <1>1. IInv => RecordedTwiceOnlyIfExcused
    BY DEF IInv
  <1> QED  BY Invariant, <1>1, PTL

\* A message whose is_pec is cleared, by _handle_receipt or by _check_timeouts, has the
\* event that tells its client why or is about to get it, unless a fault or the write-back of
\* the sender came between.
THEOREM DeclassifyingIsReported ==
  Spec => []DeclassifiedIsReported
  <1>1. IInv => DeclassifiedIsReported
    BY DEF IInv, Flags, FlagGone, Told, DeclassifiedIsReported
  <1> QED  BY Invariant, <1>1, PTL

\* _check_timeouts records pec_timeout only for a message without acceptance and without
\* error, whatever receipts arrive while it works through its list.
THEOREM TimeoutsAreUnanswered ==
  Spec => TimeoutOnlyIfUnanswered
  <1>1. ASSUME IInv, [Next]_vars, NEW pk \in Pks \ broken,
               "pec_timeout" \in events'[pk] \ events[pk]
        PROVE  events[pk] \cap {"pec_acceptance", "pec_error"} = {}
    <2>1. Types /\ Flags /\ pk \in Keys
      BY <1>1 DEF IInv, Keys
    <2>2. \A m : EventType(m) # "pec_timeout"
      BY DEF EventType
    <2>3. PecTimeout /\ pk = pec.pk
      BY <1>1, <2>1, <2>2, EventSteps
    <2>4. pk \in GivenUp
      BY <2>3 DEF PecTimeout, GivenUp
    <2> QED  BY <1>1, <2>1, <2>4 DEF Flags
  <1>2. IInv /\ [Next]_vars =>
          [\A pk \in Pks \ broken :
              "pec_timeout" \in events'[pk] \ events[pk] =>
                  events[pk] \cap {"pec_acceptance", "pec_error"} = {}]_vars
    BY <1>1
  <1> QED  BY Invariant, <1>2, PTL DEF Spec, TimeoutOnlyIfUnanswered

-----------------------------------------------------------------------------
(* The refinement of Intake.                                               *)

About == [m \in Mails |-> MailId(m)]

\* What Intake takes for an event, for arrived and for handled is what it is.
LEMMA MappedKinds ==
  ASSUME NEW m \in Mails
  PROVE  I!Recognised(m) <=> Recognised(m)
  <1>1. EventType(m) # "none" /\ About[m] = MailId(m)
    BY DEF EventType, About
  <1>2. CASE m.box = BounceBox
    BY <1>1, <1>2 DEF I!Recognised, Recognised, Kind, BounceId, About
  <1>3. CASE m.box # BounceBox
    BY <1>1, <1>3 DEF I!Recognised, Recognised, Kind, IsReceipt, About
  <1> QED  BY <1>2, <1>3

LEMMA MappedHandled ==
  I!Handled = Handled
  BY MappedKinds DEF I!Handled, Handled

LEMMA MappedMails ==
  ASSUME Types, NEW b \in Boxes, NEW u \in 1..Len(box[b].mails)
  PROVE  box[b].mails[u] \in I!MailsIn(b)
  <1>1. DOMAIN box[b].mails = 1..Len(box[b].mails)
    BY MailboxTypes
  <1> QED  BY <1>1 DEF I!MailsIn

\* What a mail is about stays as it is.
LEMMA AboutStays ==
  ASSUME Types, Types', [Next]_vars
  PROVE  About' = About
  BY MailIdStays DEF About

\* A sound position is one up to which all is handled.
LEMMA Behind ==
  ASSUME NEW B, NEW at, NEW handled, Sound(B, at, handled), at.last \in Nat, Len(B.mails) \in Nat,
         NEW n, n = IF at.validity = B.validity THEN at.last ELSE 0
  PROVE  n \in 0..Len(B.mails) /\ \A u \in 1..n : B.mails[u] \in handled
  BY DEF Sound

\* Wherever a mailbox is left behind after a step, all before is handled then.
LEMMA LeftBehind ==
  ASSUME Types, Types', Soundness', UNCHANGED box, NEW b \in Boxes
  PROVE  Upto'[b] \in 0..Len(box[b].mails) /\ \A u \in 1..Upto'[b] : box[b].mails[u] \in Handled'
  <1>1. Len(box[b].mails) \in Nat
    BY MailboxTypes
  <1>2. CASE b = BounceBox
    <2>1. Sound(box[b], At(bounce'.last, bounce'.validity), Handled')
      BY <1>2 DEF Soundness
    <2>2. bounce'.last \in Nat
      BY ReceiversAssumption DEF Types, BounceState
    <2>3. Upto'[b] = IF bounce'.validity = box[b].validity THEN bounce'.last ELSE 0
      BY <1>2 DEF Upto
    <2> HIDE DEF Sound, Handled
    <2> QED  BY <1>1, <2>1, <2>2, <2>3, Behind DEF At
  <1>3. CASE b # BounceBox
    <2>1. b \in Accounts
      BY <1>3 DEF Boxes
    <2>2. Sound(box[b], sync'[b], Handled')
      BY <2>1 DEF Soundness
    <2>3. sync'[b].last \in Nat
      BY <2>1, ReceiversAssumption DEF Types, Position
    <2>4. Upto'[b] = IF sync'[b].validity = box[b].validity THEN sync'[b].last ELSE 0
      BY <1>3 DEF Upto
    <2> QED  BY <1>1, <2>2, <2>3, <2>4, Behind
  <1> QED  BY <1>2, <1>3

\* A step that concerns one mailbox moves what is left behind of it, if anything.
LEMMA Moving ==
  ASSUME Types, Types', Soundness', UNCHANGED box, NEW b \in Boxes,
         \A c \in Boxes \ {b} : Upto'[c] = Upto[c]
  PROVE  I!Move(b)
  <1>1. Upto'[b] \in 0..Len(box[b].mails) /\ \A u \in 1..Upto'[b] : box[b].mails[u] \in Handled'
    BY LeftBehind
  <1>2. Upto' = [Upto EXCEPT ![b] = Upto'[b]]
    BY DEF Upto
  <1>3. (I!Handled = Handled)'
    BY MappedHandled, PTL
  <1>4. \A u \in 1..Upto'[b] : box[b].mails[u] \in (I!Handled)'
    BY <1>1, <1>3
  <1> HIDE DEF Upto
  <1> QED  BY <1>1, <1>2, <1>4 DEF I!Move

-----------------------------------------------------------------------------
\* The start.
LEMMA InitIntake ==
  Init => I!Init
  <1> SUFFICES ASSUME Init PROVE I!Init
    OBVIOUS
  <1>1. Types
    BY Start DEF IInv
  <1>2. About \in [Mails -> Keys \cup {NoPk}]
    BY <1>1, MailIdIs DEF About
  <1>3. \A b \in Boxes : Upto[b] = 0
    <2>1. bounce.last = 0
      BY DEF Init, FreshBounce
    <2>2. \A a \in Accounts : sync[a].last = 0
      BY DEF Init
    <2> QED  BY <2>1, <2>2 DEF Upto, Boxes
  <1>4. Upto = [b \in Boxes |-> 0]
    BY <1>3 DEF Upto
  <1> QED  BY <1>2, <1>4 DEF Init, I!Init, About

\* A new mail.
LEMMA ArriveIntake ==
  ASSUME Types, Types', Boxing, [Next]_vars, NEW m \in Mails, Arrive(m)
  PROVE  I!Arrive(m)
  <1>1. /\ m.box \in Boxes /\ box \in [Boxes -> Mailbox]
        /\ \A u \in 1..Len(box[m.box].mails) : box[m.box].mails[u] # m
        /\ \A b \in Boxes : box'[b].validity = box[b].validity
        /\ UNCHANGED <<bounce, pec, sync, edit, events, rows, sender, recorded, excused, missed, broken>>
    BY Arriving DEF Types
  <1>2. m \notin I!MailsIn(m.box)
    BY <1>1, UidsFit DEF I!MailsIn, Uids
  <1>3. box' = [box EXCEPT ![m.box].mails = Append(@, m)]
    BY <1>1 DEF Arrive
  <1>4. Upto' = Upto
    BY <1>1 DEF Upto
  <1>5. About' = About
    BY AboutStays
  <1> HIDE DEF Upto
  <1> QED  BY <1>1, <1>2, <1>3, <1>4, <1>5 DEF I!Arrive, About

\* What is excused or broken in a step was recorded, or is a message.
LEMMA Losing ==
  ASSUME Types, Types', [Next]_vars, ~BounceRecorded, ~PecRecorded
  PROVE  I!Lose
  <1>1. \A m \in excused' \ excused : m \in Mails /\ recorded[m] > 0
    <2>1. excused' = excused \/ (\E b, U : Excuse(b, U)) \/ Restart
      BY DEF Next, vars, history, BounceStep, BounceConnect, BounceFetch, BounceIgnored, BounceAborted,
             BounceFails, PecStep, PecListAccounts, PecConnect, PecFetch, PecIgnored, PecClear, PecSync,
             PecAborted, PecFails, PecGivesUp, PecFindTimeouts, PecDeclassify, PecTimeout,
             PecTimeoutFails, Environment, Attempt, ReadRow, WriteRow, TimePasses, Arrive, Recreate,
             EditAccount, SaveAccount
    <2> QED  BY <2>1 DEF Excuse, Restart
  <1>2. excused' = excused \cup (excused' \ excused) /\ broken' = broken \cup (broken' \ broken)
    BY HistoryGrows
  <1>3. excused' \ excused \in SUBSET {m \in Mails : recorded[m] > 0}
    BY <1>1
  <1>4. broken' \ broken \in SUBSET Keys
    BY DEF Types, Keys
  <1> QED  BY <1>2, <1>3, <1>4 DEF I!Lose

\* A mailbox is recreated: its position is of another UIDVALIDITY now.
LEMMA RecreateIntake ==
  ASSUME Types, Types', Boxing, Soundness, [Next]_vars, NEW b \in Boxes, Recreate(b)
  PROVE  I!Recreate(b)
  <1>1. /\ box[b].mails # <<>>
        /\ \A c \in Boxes \ {b} : box'[c] = box[c]
        /\ box'[b].validity = box[b].validity + 1
        /\ UNCHANGED <<bounce, pec, sync, edit, events, rows, sender, recorded, missed, broken>>
    BY Recreating
  <1>2. \E mails \in {box[b].mails, Tail(box[b].mails)} :
          box' = [box EXCEPT ![b] = [validity |-> @.validity + 1, mails |-> mails]]
    BY DEF Recreate
  <1>3. Upto'[b] = 0
    <2>1. box[b].validity \in Nat
      BY MailboxTypes
    <2>2. CASE b = BounceBox
      <3>1. bounce.validity <= box[b].validity /\ bounce.validity \in Nat
        BY <2>2, ReceiversAssumption DEF Soundness, Sound, At, Types, BounceState
      <3>2. bounce'.validity # box'[b].validity
        BY <1>1, <2>1, <3>1
      <3> QED  BY <2>2, <3>2 DEF Upto
    <2>3. CASE b # BounceBox
      <3>1. b \in Accounts
        BY <2>3 DEF Boxes
      <3>2. sync[b].validity <= box[b].validity /\ sync[b].validity \in Nat
        BY <3>1, ReceiversAssumption DEF Soundness, Sound, Types, Position
      <3>3. sync'[b].validity # box'[b].validity
        BY <1>1, <2>1, <3>2
      <3> QED  BY <2>3, <3>3 DEF Upto
    <2> QED  BY <2>2, <2>3
  <1>4. Upto' = [Upto EXCEPT ![b] = 0]
    <2>1. \A c \in Boxes \ {b} : Upto'[c] = Upto[c]
      BY <1>1 DEF Upto
    <2> QED  BY <1>3, <2>1 DEF Upto
  <1>5. I!Lose
    <2>1. box' # box
      BY <1>1, MailboxTypes
    <2> QED  BY <2>1, Losing DEF BounceRecorded, PecRecorded
  <1>6. About' = About
    BY AboutStays
  <1> HIDE DEF Upto
  <1> QED  BY <1>1, <1>2, <1>4, <1>5, <1>6 DEF I!Recreate, About

\* A FETCH that fails misses one mail of the mailbox.
LEMMA Missing ==
  ASSUME Types, Boxing, NEW b \in Boxes, NEW last, NEW failed \in FetchOutcomes(b, last),
         Fetched(b, failed), missed' # missed
  PROVE  \E m \in Mails : m.box = b /\ m \in I!MailsIn(b) /\ missed' = missed \cup {m}
  <1>1. failed \subseteq Uids(b) /\ Uids(b) = 1..Len(box[b].mails) /\ Len(box[b].mails) \in Nat
    BY UidsFit, MailboxTypes DEF FetchOutcomes
  <1>2. Cardinality(failed) = 1
    BY DEF Fetched
  <1>3. IsFiniteSet(failed)
    <2>1. IsFiniteSet(1..Len(box[b].mails))
      BY <1>1, FS_Interval
    <2> QED  BY <1>1, <2>1, FS_Subset
  <1>4. PICK u : failed = {u}
    BY <1>2, <1>3, FS_Singleton
  <1>5. u \in 1..Len(box[b].mails) /\ box[b].mails[u] \in Mails /\ box[b].mails[u].box = b
    BY <1>1, <1>4, MailboxTypes DEF Boxing, Boxed
  <1>6. missed' = missed \cup {box[b].mails[u]}
    BY <1>2, <1>4 DEF Fetched
  <1> QED  BY <1>5, <1>6, MappedMails

\* A poll that fetches, and misses something.
LEMMA FetchIntake ==
  ASSUME Types, Types', Boxing, [Next]_vars, BounceFetch \/ PecFetch, missed' # missed
  PROVE  \E m \in Mails : I!Miss(m)
  <1>1. PICK b, last, failed :
          b \in Boxes /\ failed \in FetchOutcomes(b, last) /\ Fetched(b, failed)
    <2>1. BounceBox \in Boxes /\ pec.account \in Boxes
      BY DEF Boxes, Types, PecState
    <2> QED  BY <2>1 DEF BounceFetch, PecFetch
  <1>2. PICK m \in Mails : m.box = b /\ m \in I!MailsIn(b) /\ missed' = missed \cup {m}
    BY <1>1, Missing
  <1>3. /\ UNCHANGED <<box, sync, events, recorded, excused, broken>>
        /\ bounce'.last = bounce.last /\ bounce'.validity = bounce.validity
    BY DEF BounceFetch, PecFetch, Types, BounceState
  <1>4. Upto' = Upto
    BY <1>3 DEF Upto
  <1>5. About' = About
    BY AboutStays
  <1> HIDE DEF Upto
  <1> QED  BY <1>2, <1>3, <1>4, <1>5 DEF I!Miss, About

\* A bounce becomes an event, and its mailbox is left behind up to it.
LEMMA BounceIntake ==
  ASSUME Types, Types', Boxing, Soundness', Coverage, [Next]_vars, BounceRecorded
  PROVE  BounceMail \in Mails /\ I!Record(BounceMail)
  <1> DEFINE m == BounceMail
  <1>1. /\ bounce.pc = "work" /\ BounceId(m) # NoPk /\ Recorded(m) /\ AddEvent(MailId(m), "bounce")
        /\ UNCHANGED <<box, sync, excused, missed, broken>>
    BY DEF BounceRecorded
  <1>2. /\ m \in Mails /\ m.box = BounceBox /\ BounceBox \in Boxes
        /\ m \in I!MailsIn(m.box)
    BY <1>1, BounceMailIs, MappedMails DEF Boxes
  <1>3. I!Recognised(m) /\ Kind[m] = "bounce" /\ About[m] = MailId(m)
    <2>1. Recognised(m) /\ (m.report \/ m.subject = "bounce")
      BY <1>1, <1>2 DEF Recognised, BounceId
    <2>2. I!Recognised(m)
      BY <1>2, <2>1, MappedKinds
    <2> HIDE DEF m
    <2> QED  BY <1>2, <2>1, <2>2 DEF Kind, About
  <1>4. recorded[m] > 0 => m \in excused
    BY <1>1, <1>2, NotAgain DEF Once
  <1>5. I!Move(m.box)
    <2>1. \A c \in Boxes \ {m.box} : Upto'[c] = Upto[c]
      BY <1>1, <1>2 DEF Upto
    <2> HIDE DEF m
    <2> QED  BY <1>1, <1>2, <2>1, Moving
  <1>6. About' = About
    BY AboutStays
  <1>7. events' = [events EXCEPT ![About[m]] = @ \cup {Kind[m]}]
    BY <1>1, <1>3 DEF AddEvent
  <1>8. recorded' = [recorded EXCEPT ![m] = IF @ = 2 THEN 2 ELSE @ + 1]
    BY <1>1 DEF Recorded
  <1> HIDE DEF m
  <1>9. m \in Mails /\ I!Record(m)
    BY <1>1, <1>2, <1>3, <1>4, <1>5, <1>6, <1>7, <1>8 DEF I!Record, About
  <1> QED  BY <1>9 DEF m

\* A receipt becomes an event; its mailbox is left behind later.
LEMMA ReceiptIntake ==
  ASSUME Types, Types', Boxing, Coverage, [Next]_vars, PecRecorded
  PROVE  PecMail \in Mails /\ I!Record(PecMail)
  <1> DEFINE m == PecMail
  <1>1. /\ pec.pc = "work" /\ IsReceipt(m) /\ Recorded(m) /\ AddEvent(MailId(m), EventType(m))
        /\ UNCHANGED <<box, bounce, sync, excused, missed, broken>>
    BY DEF PecRecorded
  <1>2. /\ m \in Mails /\ m.box # BounceBox /\ m.box \in Boxes
        /\ m \in I!MailsIn(m.box)
    <2>1. pec.account \in Accounts
      BY <1>1 DEF Boxing, PecOpen
    <2>2. pec.account \in Boxes /\ pec.account # BounceBox
      BY <2>1, ReceiversAssumption DEF Boxes
    <2> QED  BY <1>1, <2>2, PecMailIs, MappedMails
  <1>3. I!Recognised(m) /\ Kind[m] = EventType(m) /\ About[m] = MailId(m)
    <2>1. Recognised(m) /\ DetectReceiptType(m) # "none"
      BY <1>1, <1>2 DEF Recognised, IsReceipt
    <2>2. I!Recognised(m)
      BY <1>2, <2>1, MappedKinds
    <2> HIDE DEF m
    <2> QED  BY <1>2, <2>1, <2>2 DEF Kind, About
  <1>4. recorded[m] > 0 => m \in excused
    BY <1>1, <1>2, NotAgain DEF Once
  <1>5. Upto' = Upto
    BY <1>1 DEF Upto
  <1>6. About' = About
    BY AboutStays
  <1>7. events' = [events EXCEPT ![About[m]] = @ \cup {Kind[m]}]
    BY <1>1, <1>3 DEF AddEvent
  <1>8. recorded' = [recorded EXCEPT ![m] = IF @ = 2 THEN 2 ELSE @ + 1]
    BY <1>1 DEF Recorded
  <1> HIDE DEF m, Upto
  <1>9. m \in Mails /\ I!Record(m)
    BY <1>1, <1>2, <1>3, <1>4, <1>5, <1>6, <1>7, <1>8 DEF I!Record, About
  <1> QED  BY <1>9 DEF m

\* A message times out.
LEMMA TimeoutIntake ==
  ASSUME Types, Types', Flags, [Next]_vars, PecTimeout
  PROVE  \E key \in Keys : I!Timeout(key)
  <1>1. /\ pec.pc = "timeout" /\ AddEvent(pec.pk, "pec_timeout")
        /\ UNCHANGED <<box, bounce, sync, recorded, excused, missed, broken>>
    BY DEF PecTimeout, history
  <1>2. pec.pk \in Pks /\ pec.pk \in Keys
    BY <1>1 DEF Flags, Keys
  <1>3. pec.pk \in broken \/ events[pec.pk] \cap {"pec_acceptance", "pec_error"} = {}
    BY <1>1, <1>2 DEF Flags, GivenUp
  <1>4. Upto' = Upto
    BY <1>1 DEF Upto
  <1>5. About' = About
    BY AboutStays
  <1> HIDE DEF Upto
  <1> QED  BY <1>1, <1>2, <1>3, <1>4, <1>5 DEF I!Timeout, AddEvent, About

\* No step moves more than one position: that of the bounce receiver, or that
\* of the account which a poll stores or an API call writes back.
LEMMA OnePosition ==
  ASSUME Types, [Next]_vars
  PROVE  \E b \in Boxes :
           /\ b # BounceBox => bounce'.last = bounce.last /\ bounce'.validity = bounce.validity
           /\ \A a \in Accounts \ {b} : sync'[a] = sync[a]
  <1>1. BounceBox \in Boxes /\ pec.account \in Boxes /\ edit.account \in Boxes
    BY DEF Boxes, Types, PecState, Edit
  <1>2. CASE sync' = sync
    BY <1>1, <1>2
  <1>3. CASE sync' # sync
    <2>1. bounce' = bounce /\ (PecSync \/ SaveAccount)
      BY <1>3 DEF Next, vars, BounceStep, BounceConnect, BounceFetch, BounceIgnored, BounceRecorded,
             BounceAborted, BounceFails, PecStep, PecListAccounts, PecConnect, PecFetch, PecIgnored,
             PecRecorded, PecClear, PecSync, PecAborted, PecFails, PecFindTimeouts, PecDeclassify,
             PecTimeout, PecTimeoutFails, Environment, Attempt, ReadRow, WriteRow, TimePasses, Arrive,
             Recreate, EditAccount, SaveAccount, Restart
    <2>2. CASE PecSync
      <3>1. \A a \in Accounts \ {pec.account} : sync'[a] = sync[a]
        BY <2>2 DEF PecSync, Types
      <3> QED  BY <1>1, <2>1, <3>1
    <2>3. CASE SaveAccount
      <3>1. \A a \in Accounts \ {edit.account} : sync'[a] = sync[a]
        BY <2>3 DEF SaveAccount, Types
      <3> QED  BY <1>1, <2>1, <3>1
    <2> QED  BY <2>1, <2>2, <2>3
  <1> QED  BY <1>2, <1>3

\* Every other step of the receivers, the sender and the API.
LEMMA ProceedIntake ==
  ASSUME Types, Types', Soundness', [Next]_vars, UNCHANGED <<box, recorded, events, missed>>,
         ~BounceRecorded, ~PecRecorded
  PROVE  I!Proceed
  <1>1. PICK b \in Boxes :
           /\ b # BounceBox => bounce'.last = bounce.last /\ bounce'.validity = bounce.validity
           /\ \A a \in Accounts \ {b} : sync'[a] = sync[a]
    BY OnePosition
  <1>2. \A c \in Boxes \ {b} : Upto'[c] = Upto[c]
    BY <1>1 DEF Upto, Boxes
  <1>3. I!Move(b)
    BY <1>2, Moving
  <1>4. I!Lose
    BY Losing
  <1>5. About' = About
    BY AboutStays
  <1> HIDE DEF Upto
  <1> QED  BY <1>3, <1>4, <1>5 DEF I!Proceed, About

\* Every step of the receivers is one of Intake.
LEMMA NextIntake ==
  ASSUME IInv, IInv', [Next]_vars
  PROVE  I!Next
  <1> USE DEF IInv
  <1>1. CASE BounceRecorded
    BY <1>1, BounceIntake DEF I!Next
  <1>2. CASE PecRecorded
    BY <1>2, ReceiptIntake DEF I!Next
  <1>3. CASE PecTimeout
    BY <1>3, TimeoutIntake DEF I!Next
  <1>4. ASSUME NEW m \in Mails, Arrive(m)
        PROVE  I!Next
    BY <1>4, ArriveIntake DEF I!Next
  <1>5. ASSUME NEW b \in Boxes, Recreate(b)
        PROVE  I!Next
    BY <1>5, RecreateIntake DEF I!Next
  <1>6. CASE (BounceFetch \/ PecFetch) /\ missed' # missed
    BY <1>6, FetchIntake DEF I!Next
  <1>7. ASSUME ~BounceRecorded, ~PecRecorded, ~PecTimeout,
               \A m \in Mails : ~Arrive(m), \A b \in Boxes : ~Recreate(b),
               missed' = missed \/ ~(BounceFetch \/ PecFetch)
        PROVE  I!Next
    <2>1. box' = box
      BY <1>7, BoxSteps
    <2>2. UNCHANGED <<recorded, events, missed>>
      BY <1>7 DEF Next, vars, history, BounceStep, BounceConnect, BounceFetch, BounceIgnored,
             BounceAborted, BounceFails, PecStep, PecListAccounts, PecConnect, PecFetch, PecIgnored,
             PecClear, PecSync, PecAborted, PecFails, PecFindTimeouts, PecDeclassify,
             PecTimeoutFails, Environment, Attempt, ReadRow, WriteRow, TimePasses,
             EditAccount, SaveAccount, Restart
    <2> QED  BY <1>7, <2>1, <2>2, ProceedIntake DEF I!Next
  <1> QED  BY <1>1, <1>2, <1>3, <1>4, <1>5, <1>6, <1>7

\* Whatever the receivers, the sender, API calls, mailboxes and failures do, of each mail that
\* came back its event is recorded under the key it names, again only if its receiver was made to
\* forget it; a stored position leaves nothing unhandled before it; and a message times out only
\* while nothing has answered it: the polls of bounce/receiver.py and pec/receiver.py implement
\* Intake.
THEOREM ReceiversImplementIntake ==
  Spec => ImplementsIntake
  <1>1. IInv /\ IInv' /\ [Next]_vars => [I!Next]_(I!vars)
    BY NextIntake
  <1> QED  BY InitIntake, <1>1, Invariant, PTL DEF Spec, I!Spec, ImplementsIntake
=============================================================================
