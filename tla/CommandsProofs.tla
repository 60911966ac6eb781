--------------------------- MODULE CommandsProofs ---------------------------
(***************************************************************************)
(* Theorems about Commands, for any number of tenants, accounts, messages, *)
(* tasks and calls.                                                        *)
(***************************************************************************)
EXTENDS Commands, FiniteSetTheorems, SequenceTheorems, WellFoundedInduction, TLAPS

-----------------------------------------------------------------------------
(* What a call may look like.                                              *)

Adds == {"addMessages", "addBatch", "add"}
KnownOps == TenantOps \cup AccountOps \cup MessageOps \cup {"purgeLog"}

\* Steps of a call that inserts messages; in BatchPcs it works on an entry.
MarkPcs == {"event", "selectMark", "mark"}
BatchPcs == {"resolve", "exists", "insertMessage", "selectMessage", "store"} \cup MarkPcs
AddPcs == BatchPcs \cup {"check", "publish", "answer"}
Pcs == AddPcs \cup {"select", "write", "get", "insert", "messages", "accounts", "tenant", "key",
                    "remove", "ids", "existing", "delete", "log", "count", "purge"}

Call == [op: KnownOps, rest: BOOLEAN, pc: Pcs, t: Tenants, a: AccountIds \cup {"none"},
         codes: SUBSET Codes, active: BOOLEAN, items: Seq(Item), valid: Seq(Item),
         batch: Seq(Item), refused: BOOLEAN, failed: BOOLEAN, publish: Int, queued: Int,
         pk: 0..MaxPk, account: 0..MaxPk, pec: BOOLEAN, tenantCopy: TenantRow,
         accountCopy: AccountRow, messageCopy: MessageRow, ok: BOOLEAN]

\* A call has the parameters that its next steps read.
Shape(call) ==
    /\ call.op \in AccountOps \cup Adds => call.a \in AccountIds
    /\ call.pc \in AddPcs => call.op \in Adds
    /\ call.pc \in BatchPcs => call.batch # <<>>
    /\ call.pc \in {"check", "ids"} \/ call.refused => call.items # <<>>
    /\ call.pc = "check" => ~call.refused
    /\ call.pc = "ids" => call.op \in {"deleteMessages", "deleteBatch"}
    /\ call.op = "deleteBatch" => call.items # <<>>
    /\ call.pc \in {"selectMessage", "store"} \cup MarkPcs => call.pk # 0
    /\ call.pc \in MarkPcs => call.refused
    /\ call.pc = "remove" => call.op = "deleteAccount" \/ call.pk # 0

CallsFine ==
    /\ calls \in [Calls -> Call \cup {IdleCall}]
    /\ \A c \in Calls : Busy(c) => calls[c] \in Call /\ Shape(calls[c])

\* What the steps of a message from entry to entry leave alone.
Same(call, new) ==
    /\ new.op = call.op /\ new.t = call.t /\ new.a = call.a
    /\ new.pk = call.pk /\ new.account = call.account
    /\ new.tenantCopy = call.tenantCopy /\ new.accountCopy = call.accountCopy
    /\ new.messageCopy = call.messageCopy

LEMMA CallFields ==
  ASSUME NEW call \in Call
  PROVE  /\ call.op \in KnownOps /\ call.rest \in BOOLEAN /\ call.pc \in Pcs /\ call.t \in Tenants
         /\ call.a \in AccountIds \cup {"none"} /\ call.codes \in SUBSET Codes
         /\ call.active \in BOOLEAN /\ call.items \in Seq(Item) /\ call.valid \in Seq(Item)
         /\ call.batch \in Seq(Item) /\ call.refused \in BOOLEAN /\ call.failed \in BOOLEAN
         /\ call.publish \in Int /\ call.queued \in Int /\ call.pk \in 0..MaxPk
         /\ call.account \in 0..MaxPk /\ call.pec \in BOOLEAN /\ call.tenantCopy \in TenantRow
         /\ call.accountCopy \in AccountRow /\ call.messageCopy \in MessageRow /\ call.ok \in BOOLEAN
  BY DEF Call

\* The steps that only go on.
LEMMA PcFine ==
  ASSUME NEW call \in Call, NEW pc \in Pcs
  PROVE  /\ [call EXCEPT !.pc = pc] \in Call
         /\ [call EXCEPT !.pc = pc].pc = pc
         /\ Same(call, [call EXCEPT !.pc = pc])
         /\ [call EXCEPT !.pc = pc].items = call.items
         /\ [call EXCEPT !.pc = pc].batch = call.batch
         /\ [call EXCEPT !.pc = pc].refused = call.refused
  BY DEF Call, Same

LEMMA FinishFine ==
  ASSUME NEW call \in Call
  PROVE  /\ Finish(call) \in Call /\ Same(call, Finish(call))
         /\ Finish(call).pc \in {"publish", "answer"}
         /\ Finish(call).items = call.items /\ Finish(call).refused = call.refused
         /\ Finish(call).batch = call.batch
  BY PcFine DEF Finish, Pcs, AddPcs

LEMMA ContinueFine ==
  ASSUME NEW call \in Call, ~call.refused
  PROVE  /\ Continue(call) \in Call /\ Same(call, Continue(call))
         /\ Continue(call).pc \in {"check", "resolve", "publish", "answer"}
         /\ Continue(call).pc = "check" => Continue(call).items # <<>>
         /\ Continue(call).pc = "resolve" => Continue(call).batch # <<>>
         /\ ~Continue(call).refused
  <1>1. CASE call.items # <<>>
    <2> DEFINE new == [call EXCEPT !.pc = "check"]
    <2>1. Continue(call) = new /\ "check" \in Pcs
      BY <1>1 DEF Continue, Pcs, AddPcs
    <2>2. new \in Call /\ Same(call, new) /\ new.pc = "check" /\ new.items = call.items /\ ~new.refused
      BY <2>1, PcFine
    <2> QED  BY <1>1, <2>1, <2>2
  <1>2. CASE call.items = <<>> /\ call.valid # <<>>
    <2> DEFINE new == [call EXCEPT !.pc = "resolve", !.batch = call.valid, !.valid = <<>>]
    <2>1. Continue(call) = new
      BY <1>2 DEF Continue
    <2>2. "resolve" \in Pcs /\ <<>> \in Seq(Item)
      BY DEF Pcs, AddPcs, BatchPcs
    <2>3. new \in Call
      BY <2>2 DEF Call
    <2>4. Same(call, new) /\ new.pc = "resolve" /\ new.batch = call.valid /\ ~new.refused
      BY DEF Call, Same
    <2> QED  BY <1>2, <2>1, <2>3, <2>4
  <1>3. CASE call.items = <<>> /\ call.valid = <<>>
    BY <1>3, FinishFine DEF Continue
  <1> QED  BY <1>1, <1>2, <1>3

LEMMA TailFine ==
  ASSUME NEW S, NEW s \in Seq(S), s # <<>>
  PROVE  Tail(s) \in Seq(S) /\ Head(s) \in S
  OBVIOUS

\* insert_batch goes on: to the next entry, to the next item, or to the reply.
LEMMA NextEntryFine ==
  ASSUME NEW call \in Call, Shape(call), call.pc \in BatchPcs
  PROVE  /\ NextEntry(call) \in Call /\ Same(call, NextEntry(call)) /\ Shape(NextEntry(call))
         /\ NextEntry(call).pc \in {"check", "resolve", "publish", "answer"}
  <1> DEFINE done == [call EXCEPT !.items = Tail(call.items), !.batch = <<>>, !.refused = FALSE,
                                  !.failed = TRUE, !.publish = call.publish + 1]
             next == [call EXCEPT !.pc = "resolve", !.batch = Tail(call.batch)]
             last == [call EXCEPT !.batch = <<>>]
  <1>1. call.items \in Seq(Item) /\ call.batch \in Seq(Item) /\ call.publish \in Int
    BY CallFields
  <1>2. Tail(call.batch) \in Seq(Item) /\ <<>> \in Seq(Item)
    BY <1>1, TailFine DEF Shape
  <1>4. call.op \in Adds /\ call.op # "deleteBatch" /\ call.a \in AccountIds
    BY DEF Shape, Adds, AddPcs
  <1>3. CASE call.refused
    <2>1. Tail(call.items) \in Seq(Item)
      BY <1>1, <1>3, TailFine DEF Shape
    <2> DEFINE rest == [call EXCEPT !.items = Tail(call.items), !.batch = <<>>]
    <2>6. rest \in Call /\ rest.publish = call.publish
      BY <1>2, <2>1 DEF Call
    <2> DEFINE told == [rest EXCEPT !.publish = call.publish + 1]
    <2>7. call.publish + 1 \in Int
      BY <1>1
    <2>8. told \in Call
      BY <2>6, <2>7 DEF Call
    <2>9. [told EXCEPT !.refused = FALSE, !.failed = TRUE] \in Call
      BY <2>8 DEF Call
    <2>2. done \in Call
      BY <2>9
    <2>3. Same(call, done) /\ ~done.refused
      BY DEF Call, Same
    <2>4. NextEntry(call) = Continue(done)
      BY <1>3 DEF NextEntry
    <2>5. /\ Continue(done) \in Call /\ Same(done, Continue(done))
          /\ Continue(done).pc \in {"check", "resolve", "publish", "answer"}
          /\ Continue(done).pc = "check" => Continue(done).items # <<>>
          /\ Continue(done).pc = "resolve" => Continue(done).batch # <<>>
          /\ ~Continue(done).refused
      BY <2>2, <2>3, ContinueFine
    <2> QED  BY <1>4, <2>3, <2>4, <2>5 DEF Same, Shape, Adds, AddPcs, BatchPcs, MarkPcs
  <1>5. CASE ~call.refused /\ Tail(call.batch) # <<>>
    <2>1. NextEntry(call) = next /\ "resolve" \in Pcs
      BY <1>5 DEF NextEntry, Pcs, AddPcs, BatchPcs
    <2>2. next \in Call
      BY <1>2, <2>1 DEF Call
    <2>3. Same(call, next) /\ ~next.refused /\ next.pc = "resolve" /\ next.batch = Tail(call.batch)
      BY <1>5 DEF Call, Same
    <2> QED  BY <1>4, <1>5, <2>1, <2>2, <2>3 DEF Same, Shape, Adds, AddPcs, BatchPcs, MarkPcs
  <1>6. CASE ~call.refused /\ Tail(call.batch) = <<>>
    <2>1. NextEntry(call) = Finish(last)
      BY <1>6 DEF NextEntry
    <2>2. last \in Call
      BY <1>2 DEF Call
    <2>3. Same(call, last) /\ ~last.refused
      BY <1>6 DEF Call, Same
    <2>4. /\ Finish(last) \in Call /\ Same(last, Finish(last))
          /\ Finish(last).pc \in {"publish", "answer"} /\ ~Finish(last).refused
      BY <2>2, <2>3, FinishFine
    <2> QED  BY <1>4, <2>1, <2>3, <2>4 DEF Same, Shape, Adds, AddPcs, BatchPcs, MarkPcs
  <1> QED  BY <1>3, <1>5, <1>6

-----------------------------------------------------------------------------
(* How a step moves a call.                                                *)

\* The steps at which a call holds something that the invariants speak of.
LoudPcs == {"write", "accounts", "tenant", "selectMark", "mark"}

Puts(c, new) == calls' = [calls EXCEPT ![c] = new]
Fits(call, new) == new \in Call /\ Shape(new) /\ new.op = call.op /\ new.t = call.t

\* The call ends, or goes on with what it knew.
Quietly(c) ==
    \E new : /\ Puts(c, new)
             /\ \/ new = IdleCall
                \/ /\ Fits(calls[c], new) /\ Same(calls[c], new)
                   /\ new.pc \notin LoudPcs

LEMMA PutsFine ==
  ASSUME CallsFine, NEW c \in Calls, NEW new, Puts(c, new),
         new = IdleCall \/ (new \in Call /\ Shape(new))
  PROVE  CallsFine'
  <1>1. calls \in [Calls -> Call \cup {IdleCall}]
    BY DEF CallsFine
  <1>2. calls' \in [Calls -> Call \cup {IdleCall}]
    BY <1>1 DEF Puts
  <1>3. ASSUME NEW d \in Calls, calls'[d].pc # "idle"
        PROVE  calls'[d] \in Call /\ Shape(calls'[d])
    <2>1. CASE d = c
      BY <1>1, <1>3, <2>1 DEF Puts, IdleCall
    <2>2. CASE d # c
      BY <1>1, <1>3, <2>2 DEF Puts, CallsFine, Busy
    <2> QED  BY <2>1, <2>2
  <1> QED  BY <1>2, <1>3 DEF CallsFine, Busy

LEMMA QuietFine ==
  ASSUME CallsFine, NEW c \in Calls, Quietly(c)
  PROVE  CallsFine'
  BY PutsFine DEF Quietly, Fits

LEMMA GoToQuiet ==
  ASSUME CallsFine, NEW c \in Calls, Busy(c), NEW pc \in Pcs \ LoudPcs, GoTo(c, pc),
         Shape([calls[c] EXCEPT !.pc = pc])
  PROVE  Quietly(c)
  <1>1. calls[c] \in Call
    BY DEF CallsFine
  <1> DEFINE new == [calls[c] EXCEPT !.pc = pc]
  <1>2. new \in Call /\ new.pc = pc /\ Same(calls[c], new)
    BY <1>1, PcFine
  <1>3. Puts(c, new)
    BY DEF GoTo, Puts
  <1> QED  BY <1>2, <1>3 DEF Quietly, Fits, Same

\* The call is over, except that it may be logged.
Ends(c) ==
    \E new : /\ Puts(c, new)
             /\ \/ new = IdleCall
                \/ Fits(calls[c], new) /\ Same(calls[c], new) /\ new.pc = "log"

LEMMA AnswerEnds ==
  ASSUME CallsFine, NEW c \in Calls, Busy(c), NEW ok \in BOOLEAN, Answer(c, ok)
  PROVE  Ends(c)
  <1> DEFINE new == [calls[c] EXCEPT !.pc = "log", !.ok = ok]
  <1>1. calls[c] \in Call /\ Shape(calls[c])
    BY DEF CallsFine
  <1>2. Puts(c, new) \/ Puts(c, IdleCall)
    BY DEF Answer, Answered, Puts
  <1>3. "log" \in Pcs /\ "log" \notin AddPcs \cup {"check", "ids", "remove"}
    BY DEF Pcs, AddPcs, BatchPcs, MarkPcs
  <1>4. new \in Call /\ new.pc = "log" /\ Same(calls[c], new)
    BY <1>1, <1>3 DEF Call, Same
  <1>5. Shape(new)
    BY <1>1, <1>3 DEF Call, Shape, AddPcs, BatchPcs
  <1> QED  BY <1>2, <1>4, <1>5 DEF Ends, Fits, Same

LEMMA AnswerQuiet ==
  ASSUME CallsFine, NEW c \in Calls, Busy(c), NEW ok \in BOOLEAN, Answer(c, ok)
  PROVE  Quietly(c)
  BY AnswerEnds DEF Ends, Quietly, LoudPcs

LEMMA IdleQuiet ==
  ASSUME NEW c \in Calls, Raise(c)
  PROVE  Quietly(c)
  BY DEF Raise, Quietly, Puts

-----------------------------------------------------------------------------
(* Type correctness.                                                       *)

Counters ==
    /\ results \in 0..QueueSize
    /\ used \in [calls: 0..MaxCalls, faults: 0..MaxFaults]
    /\ dirty \subseteq Tenants /\ orphaned \subseteq Tenants
    /\ serial \in [Tenants -> TenantRow]

TypeInv == TablesOK /\ CallsFine /\ Counters

\* The steps that change no row, and nothing that the call knows of one.
QuietStep(c) ==
    \/ GetTenant(c) \/ CreateKeyGet(c) \/ GetAccount(c) \/ CheckItem(c)
    \/ Publish(c) \/ Reply(c) \/ IdsForTenant(c) \/ NotOwn(c) \/ LogStep(c)

rows == <<tenants, accounts, messages, events, nextPk, nextKey, serial, dirty, orphaned>>

LEMMA BusyCall ==
  ASSUME CallsFine, NEW c \in Calls, calls[c].pc # "idle"
  PROVE  /\ Busy(c) /\ calls[c] \in Call /\ Shape(calls[c])
         /\ calls[c].t \in Tenants /\ calls[c].items \in Seq(Item)
         /\ calls[c].batch \in Seq(Item) /\ calls[c].op \in KnownOps
  BY CallFields DEF CallsFine, Busy

LEMMA CheckItemQuiet ==
  ASSUME CallsFine, NEW c \in Calls, CheckItem(c)
  PROVE  Quietly(c)
  <1> DEFINE call == calls[c]
             good == [call EXCEPT !.valid = Append(call.valid, Head(call.items)),
                                  !.items = Tail(call.items)]
             bad == [call EXCEPT !.pc = "resolve", !.refused = TRUE,
                                 !.batch = <<Head(call.items)>>]
  <1>1. call.pc = "check" /\ call.op = "addMessages"
    BY DEF CheckItem, At
  <1>2. /\ call \in Call /\ Shape(call) /\ call.items \in Seq(Item) /\ call.items # <<>>
        /\ call.valid \in Seq(Item)
    BY <1>1, BusyCall, CallFields DEF Shape
  <1>3. Head(call.items) \in Item /\ Tail(call.items) \in Seq(Item)
    BY <1>2, TailFine
  <1>4. call.a \in AccountIds
    BY <1>1, <1>2 DEF Shape, Adds
  <1>5. CASE IsValid(call)
    <2>1. Append(call.valid, Head(call.items)) \in Seq(Item)
      BY <1>2, <1>3
    <2>2. good \in Call
      BY <1>2, <1>3, <2>1 DEF Call
    <2>3. Same(call, good) /\ ~good.refused
      BY <1>1, <1>2 DEF Call, Same, Shape
    <2>4. /\ Continue(good) \in Call /\ Same(good, Continue(good))
          /\ Continue(good).pc \in {"check", "resolve", "publish", "answer"}
          /\ Continue(good).pc = "check" => Continue(good).items # <<>>
          /\ Continue(good).pc = "resolve" => Continue(good).batch # <<>>
          /\ ~Continue(good).refused
      BY <2>2, <2>3, ContinueFine
    <2>5. Puts(c, Continue(good))
      BY <1>5 DEF CheckItem, Puts
    <2>6. Same(call, Continue(good))
      BY <2>3, <2>4 DEF Same
    <2>7. Shape(Continue(good))
      BY <1>1, <1>4, <2>4, <2>6 DEF Same, Shape, Adds, AddPcs, BatchPcs, MarkPcs
    <2> QED  BY <2>4, <2>5, <2>6, <2>7 DEF Quietly, Fits, Same, LoudPcs
  <1>6. CASE ~IsValid(call)
    <2>1. <<Head(call.items)>> \in Seq(Item) /\ <<Head(call.items)>> # <<>> /\ "resolve" \in Pcs
      BY <1>3 DEF Pcs, AddPcs, BatchPcs
    <2>2. bad \in Call
      BY <1>2, <2>1 DEF Call
    <2>3. /\ Same(call, bad) /\ bad.pc = "resolve" /\ bad.items = call.items
          /\ bad.batch = <<Head(call.items)>>
      BY <1>2 DEF Call, Same
    <2>4. Puts(c, bad)
      BY <1>6 DEF CheckItem, Puts
    <2>5. Shape(bad)
      BY <1>1, <1>2, <1>4, <2>1, <2>3 DEF Same, Shape, Adds, AddPcs, BatchPcs, MarkPcs
    <2> QED  BY <2>2, <2>3, <2>4, <2>5 DEF Quietly, Fits, Same, LoudPcs
  <1> QED  BY <1>5, <1>6

LEMMA PublishQuiet ==
  ASSUME CallsFine, NEW c \in Calls, Publish(c)
  PROVE  Quietly(c)
  <1> DEFINE call == calls[c]
             less == [call EXCEPT !.publish = call.publish - 1]
  <1>1. call.pc = "publish"
    BY DEF Publish
  <1>2. call \in Call /\ Shape(call) /\ call.publish \in Int
    BY <1>1, BusyCall, CallFields
  <1>3. call.publish - 1 \in Int
    BY <1>2
  <1>4. less \in Call
    BY <1>2, <1>3 DEF Call
  <1>5. /\ Same(call, less) /\ less.items = call.items /\ less.refused = call.refused
        /\ less.batch = call.batch
    BY <1>2 DEF Call, Same
  <1>6. /\ Finish(less) \in Call /\ Same(less, Finish(less))
        /\ Finish(less).pc \in {"publish", "answer"}
        /\ Finish(less).items = call.items /\ Finish(less).refused = call.refused
    BY <1>4, <1>5, FinishFine
  <1>7. Puts(c, Finish(less)) /\ Same(call, Finish(less))
    BY <1>5, <1>6 DEF Publish, Puts, Same
  <1>8. Shape(Finish(less))
    BY <1>1, <1>2, <1>6, <1>7 DEF Same, Shape, AddPcs, BatchPcs, MarkPcs
  <1> QED  BY <1>6, <1>7, <1>8 DEF Quietly, Fits, Same, LoudPcs

\* A step to a part of the call that needs no more than what it has.
LEMMA PlainQuiet ==
  ASSUME CallsFine, NEW c \in Calls, Busy(c), NEW pc,
         pc \in {"select", "insert", "key", "remove", "get", "existing", "purge"},
         pc = "remove" => calls[c].op = "deleteAccount", GoTo(c, pc)
  PROVE  Quietly(c)
  <1> DEFINE new == [calls[c] EXCEPT !.pc = pc]
  <1>1. pc \in Pcs \ LoudPcs /\ pc \notin AddPcs /\ pc \notin {"check", "ids"}
    BY DEF Pcs, LoudPcs, AddPcs, BatchPcs, MarkPcs
  <1>2. calls[c] \in Call /\ Shape(calls[c])
    BY DEF CallsFine
  <1>3. /\ new.pc = pc /\ Same(calls[c], new) /\ new.items = calls[c].items
        /\ new.batch = calls[c].batch /\ new.refused = calls[c].refused
    BY <1>1, <1>2, PcFine
  <1>4. Shape(new)
    BY <1>1, <1>2, <1>3 DEF Same, Shape, AddPcs, BatchPcs
  <1> QED  BY <1>1, <1>4, GoToQuiet

LEMMA QuietSteps ==
  ASSUME TypeInv, NEW c \in Calls, QuietStep(c)
  PROVE  Quietly(c) /\ UNCHANGED rows
  <1> USE DEF rows, tables, history
  <1>0. CallsFine
    BY DEF TypeInv
  <1>1. CASE GetTenant(c)
    <2>1. Busy(c)
      BY <1>0, <1>1, BusyCall DEF GetTenant, At
    <2> QED  BY <1>0, <1>1, <2>1, PlainQuiet DEF GetTenant
  <1>2. CASE CreateKeyGet(c)
    <2>1. Busy(c)
      BY <1>0, <1>2, BusyCall DEF CreateKeyGet, At
    <2> QED  BY <1>0, <1>2, <2>1, PlainQuiet, AnswerQuiet DEF CreateKeyGet
  <1>3. CASE GetAccount(c)
    <2>1. Busy(c)
      BY <1>0, <1>3, BusyCall DEF GetAccount, At
    <2> QED  BY <1>0, <1>3, <2>1, PlainQuiet, AnswerQuiet DEF GetAccount, At
  <1>4. CASE CheckItem(c)
    BY <1>0, <1>4, CheckItemQuiet DEF CheckItem
  <1>5. CASE Publish(c)
    BY <1>0, <1>5, PublishQuiet DEF Publish
  <1>6. CASE Reply(c)
    <2>1. Busy(c) /\ (calls[c].queued > 0 \/ ~calls[c].failed) \in BOOLEAN
      BY <1>0, <1>6, BusyCall, CallFields DEF Reply
    <2> QED  BY <1>0, <1>6, <2>1, AnswerQuiet DEF Reply
  <1>7. CASE IdsForTenant(c)
    <2>1. Busy(c) /\ calls[c].op \in {"deleteMessages", "deleteBatch"}
      BY <1>0, <1>7, BusyCall DEF IdsForTenant, Shape
    <2>2. \/ Raise(c) \/ Answer(c, TRUE) \/ GoTo(c, "get") \/ GoTo(c, "existing")
      BY <1>7, <2>1 DEF IdsForTenant
    <2> QED  BY <1>0, <1>7, <2>1, <2>2, PlainQuiet, AnswerQuiet, IdleQuiet DEF IdsForTenant
  <1>8. CASE NotOwn(c)
    <2>1. Busy(c)
      BY <1>0, <1>8, BusyCall DEF NotOwn, At
    <2> QED  BY <1>0, <1>8, <2>1, AnswerQuiet DEF NotOwn
  <1>9. CASE LogStep(c)
    <2>1. CASE LogCommand(c)
      BY <2>1, IdleQuiet DEF LogCommand, Raise
    <2>2. CASE CountLog(c)
      <3>1. Busy(c)
        BY <1>0, <2>2, BusyCall DEF CountLog, At
      <3> QED  BY <1>0, <2>2, <3>1, PlainQuiet, AnswerQuiet DEF CountLog
    <2>3. CASE PurgeLog(c)
      <3>1. Busy(c)
        BY <1>0, <2>3, BusyCall DEF PurgeLog, At
      <3> QED  BY <1>0, <2>3, <3>1, AnswerQuiet DEF PurgeLog
    <2> QED  BY <1>9, <2>1, <2>2, <2>3 DEF LogStep
  <1> QED  BY <1>1, <1>2, <1>3, <1>4, <1>5, <1>6, <1>7, <1>8, <1>9 DEF QuietStep

-----------------------------------------------------------------------------
(* What the statements make of the tables.                                 *)

LEMMA TenantRows ==
  ASSUME NEW row \in TenantRow, NEW codes \in SUBSET Codes, NEW active \in BOOLEAN
  PROVE  /\ SuspendBatch(row, codes) \in TenantRow /\ ActivateBatch(row, codes) \in TenantRow
         /\ UpdateFields(row, active) \in TenantRow /\ AddExisting(row, active) \in TenantRow
  <1>1. row.suspended \in (SUBSET Codes) \cup {All}
    BY DEF TenantRow
  <1>2. SuspendBatch(row, codes) \in TenantRow
    <2> DEFINE s == IF codes = {} \/ row.suspended = All THEN All ELSE row.suspended \cup codes
    <2>1. row.suspended # All => row.suspended \cup codes \in SUBSET Codes
      BY <1>1
    <2>2. s \in (SUBSET Codes) \cup {All}
      BY <2>1
    <2> HIDE DEF s
    <2>3. [row EXCEPT !.suspended = s] \in TenantRow
      BY <2>2 DEF TenantRow
    <2> QED  BY <2>3 DEF SuspendBatch, s
  <1>3. ActivateBatch(row, codes) \in TenantRow
    <2> DEFINE s == IF codes = {} THEN {}
                    ELSE IF row.suspended = All THEN All ELSE row.suspended \ codes
    <2>1. row.suspended # All => row.suspended \ codes \in SUBSET Codes
      BY <1>1
    <2>4. {} \in SUBSET Codes
      OBVIOUS
    <2>2. s \in (SUBSET Codes) \cup {All}
      BY <2>1, <2>4
    <2> HIDE DEF s
    <2>3. [row EXCEPT !.suspended = s] \in TenantRow
      BY <2>2 DEF TenantRow
    <2> QED  BY <2>3 DEF ActivateBatch, s
  <1>4. UpdateFields(row, active) \in TenantRow
    BY DEF UpdateFields, TenantRow
  <1> QED  BY <1>2, <1>3, <1>4 DEF AddExisting

LEMMA NewTenant ==
  ASSUME NEW active \in BOOLEAN, nextKey \in 1..(MaxKeys + 1), nextKey <= MaxKeys
  PROVE  AddNew(active) \in TenantRow /\ AddNew(active).there
  <1>1. MaxKeys \in Nat
    BY TablesAssumption
  <1>2. nextKey \in 0..MaxKeys
    BY <1>1
  <1> QED  BY <1>2 DEF AddNew, NoTenant, TenantRow

LEMMA Nones ==
  NoTenant \in TenantRow /\ NoAccount \in AccountRow /\ NoMessage \in MessageRow
  <1>1. 0 \in 0..MaxKeys /\ 0 \in 0..MaxPk
    BY TablesAssumption
  <1> QED  BY <1>1 DEF NoTenant, NoAccount, NoMessage, TenantRow, AccountRow, MessageRow, Forms

LEMMA DeletesFine ==
  ASSUME TablesOK, NEW keys
  PROVE  /\ DeleteMessages(keys) \in [MessageKeys -> MessageRow]
         /\ DeleteAccounts(keys) \in [AccountKeys -> AccountRow]
  BY Nones DEF TablesOK, DeleteMessages, DeleteAccounts

LEMMA UpdatesFine ==
  ASSUME TablesOK
  PROVE  /\ \A t \in Tenants, row \in TenantRow : UpdateTenant(t, row) \in [Tenants -> TenantRow]
         /\ \A t \in Tenants, key \in 0..MaxKeys : SetApiKey(t, key) \in [Tenants -> TenantRow]
         /\ \A k \in MessageKeys, row \in MessageRow :
               UpdateMessage(k, row) \in [MessageKeys -> MessageRow]
         /\ \A row \in MessageRow, account \in 0..MaxPk, form \in Forms, pec \in BOOLEAN :
               PendingColumns(row, account, form, pec) \in MessageRow
         /\ \A pk \in 1..MaxPk : \A type : AddEvent(pk, type) \in [1..MaxPk -> EventRows]
  <1>1. ASSUME NEW t \in Tenants, NEW row \in TenantRow
        PROVE  UpdateTenant(t, row) \in [Tenants -> TenantRow]
    BY DEF TablesOK, UpdateTenant
  <1>2. ASSUME NEW t \in Tenants, NEW key \in 0..MaxKeys
        PROVE  SetApiKey(t, key) \in [Tenants -> TenantRow]
    <2>1. [tenants[t] EXCEPT !.key = key] \in TenantRow
      BY DEF TablesOK, TenantRow
    <2> QED  BY <2>1 DEF TablesOK, SetApiKey
  <1>3. ASSUME NEW k \in MessageKeys, NEW row \in MessageRow
        PROVE  UpdateMessage(k, row) \in [MessageKeys -> MessageRow]
    BY DEF TablesOK, UpdateMessage
  <1>4. ASSUME NEW row \in MessageRow, NEW account \in 0..MaxPk, NEW form \in Forms,
               NEW pec \in BOOLEAN
        PROVE  PendingColumns(row, account, form, pec) \in MessageRow
    BY DEF PendingColumns, MessageRow
  <1>5. ASSUME NEW pk \in 1..MaxPk, NEW type
        PROVE  AddEvent(pk, type) \in [1..MaxPk -> EventRows]
    <2>1. events[pk].sent \in BOOLEAN /\ events[pk].error \in BOOLEAN
      BY DEF TablesOK, EventRows
    <2>2. [sent |-> events[pk].sent \/ type = "sent", error |-> events[pk].error \/ type = "error",
           told |-> "no"] \in EventRows
      BY <2>1 DEF EventRows
    <2> QED  BY <2>2 DEF TablesOK, AddEvent
  <1> QED  BY <1>1, <1>2, <1>3, <1>4, <1>5

-----------------------------------------------------------------------------
(* The steps that write to a table and move the call quietly.              *)

LEMMA StoredQuiet ==
  ASSUME NEW call \in Call, Shape(call), call.pc \in BatchPcs, call.pk # 0
  PROVE  /\ Stored(call) \in Call /\ Shape(Stored(call)) /\ Same(call, Stored(call))
         /\ Stored(call).pc \in {"event", "check", "resolve", "publish", "answer"}
  <1> DEFINE told == [call EXCEPT !.pc = "event"]
             more == [call EXCEPT !.queued = call.queued + 1]
  <1>1. CASE call.refused
    <2>1. "event" \in Pcs
      BY DEF Pcs, AddPcs, BatchPcs, MarkPcs
    <2>2. /\ told \in Call /\ Same(call, told) /\ told.pc = "event" /\ told.items = call.items
          /\ told.batch = call.batch /\ told.refused = call.refused
      BY <2>1, PcFine
    <2>3. Shape(told)
      BY <1>1, <2>2 DEF Same, Shape, AddPcs, BatchPcs, MarkPcs
    <2> QED  BY <1>1, <2>2, <2>3 DEF Stored
  <1>2. CASE ~call.refused
    <2>1. call.queued + 1 \in Int
      BY CallFields
    <2>2. more \in Call
      BY <2>1 DEF Call
    <2>3. /\ Same(call, more) /\ more.pc = call.pc /\ more.items = call.items
          /\ more.batch = call.batch /\ more.refused = call.refused
      BY DEF Call, Same
    <2>4. Shape(more)
      BY <2>3 DEF Same, Shape
    <2>5. /\ NextEntry(more) \in Call /\ Same(more, NextEntry(more)) /\ Shape(NextEntry(more))
          /\ NextEntry(more).pc \in {"check", "resolve", "publish", "answer"}
      BY <2>2, <2>3, <2>4, NextEntryFine
    <2> QED  BY <1>2, <2>3, <2>5 DEF Stored, Same
  <1> QED  BY <1>1, <1>2

LEMMA TenantWritesQuiet ==
  ASSUME CallsFine, NEW c \in Calls,
         WriteTenant(c) \/ InsertTenant(c) \/ RemoveTenant(c) \/ WriteKey(c), TablesOK
  PROVE  Quietly(c)
  <1>1. \A t \in Tenants : tenants[t].there \in BOOLEAN
    BY DEF TablesOK, TenantRow
  <1>2. CASE WriteTenant(c)
    <2>1. Busy(c) /\ calls[c] \in Call
      BY <1>2, BusyCall DEF WriteTenant
    <2>2. calls[c].tenantCopy.there \in BOOLEAN
      BY <2>1, CallFields DEF TenantRow
    <2>3. Succeeds(calls[c], calls[c].tenantCopy) \in BOOLEAN
      BY <2>2 DEF Succeeds
    <2> QED  BY <1>2, <2>1, <2>3, AnswerQuiet DEF WriteTenant
  <1>3. CASE InsertTenant(c)
    <2>1. Busy(c) /\ calls[c].t \in Tenants
      BY <1>3, BusyCall DEF InsertTenant, At
    <2> QED  BY <1>1, <1>3, <2>1, AnswerQuiet DEF InsertTenant
  <1>4. CASE RemoveTenant(c)
    <2>1. Busy(c) /\ calls[c].t \in Tenants
      BY <1>4, BusyCall DEF RemoveTenant, At
    <2> QED  BY <1>1, <1>4, <2>1, AnswerQuiet DEF RemoveTenant
  <1>5. CASE WriteKey(c)
    <2>1. Busy(c) /\ calls[c].t \in Tenants
      BY <1>5, BusyCall DEF WriteKey
    <2> QED  BY <1>1, <1>5, <2>1, AnswerQuiet DEF WriteKey
  <1> QED  BY <1>2, <1>3, <1>4, <1>5

LEMMA OtherWritesQuiet ==
  ASSUME CallsFine, NEW c \in Calls,
         \/ WriteAccount(c) \/ RemoveAccount(c) \/ StoreMessage(c) \/ MarkRefused(c)
         \/ RemoveMessage(c) \/ Cleanup(c)
  PROVE  Quietly(c)
  <1>1. CASE WriteAccount(c)
    <2> DEFINE new == calls[c].accountCopy.pk = 0
               done == new <=> accounts[<<calls[c].t, calls[c].a>>].pk = 0
    <2>1. Busy(c)
      BY <1>1, BusyCall DEF WriteAccount
    <2>2. done \in BOOLEAN /\ Answer(c, done)
      BY <1>1 DEF WriteAccount
    <2> QED  BY <2>1, <2>2, AnswerQuiet
  <1>2. CASE RemoveAccount(c)
    <2>1. Busy(c)
      BY <1>2, BusyCall DEF RemoveAccount, At
    <2> QED  BY <1>2, <2>1, AnswerQuiet DEF RemoveAccount
  <1>3. CASE StoreMessage(c)
    <2>1. /\ calls[c] \in Call /\ Shape(calls[c]) /\ calls[c].pc = "store"
          /\ Puts(c, Stored(calls[c]))
      BY <1>3, BusyCall DEF StoreMessage, Puts
    <2>2. calls[c].pc \in BatchPcs /\ calls[c].pk # 0
      BY <2>1 DEF Shape, BatchPcs
    <2> QED  BY <2>1, <2>2, StoredQuiet DEF Quietly, Fits, Same, LoudPcs
  <1>4. CASE MarkRefused(c)
    <2>1. /\ calls[c] \in Call /\ Shape(calls[c]) /\ calls[c].pc = "mark"
          /\ Puts(c, NextEntry(calls[c]))
      BY <1>4, BusyCall DEF MarkRefused, Puts
    <2>2. calls[c].pc \in BatchPcs
      BY <2>1 DEF BatchPcs, MarkPcs
    <2> QED  BY <2>1, <2>2, NextEntryFine DEF Quietly, Fits, Same, LoudPcs
  <1>5. CASE RemoveMessage(c)
    <2>1. Busy(c)
      BY <1>5, BusyCall DEF RemoveMessage
    <2> QED  BY <1>5, <2>1, AnswerQuiet DEF RemoveMessage
  <1>6. CASE Cleanup(c)
    <2>1. Busy(c)
      BY <1>6, BusyCall DEF Cleanup, At
    <2> QED  BY <1>6, <2>1, AnswerQuiet DEF Cleanup
  <1> QED  BY <1>1, <1>2, <1>3, <1>4, <1>5, <1>6

-----------------------------------------------------------------------------
(* The steps after which a call knows something new.                       *)

\* The call goes on to pc with what it knew.
Moves(c, pc) ==
    \E new : Puts(c, new) /\ Fits(calls[c], new) /\ Same(calls[c], new) /\ new.pc = pc

LEMMA GoToMoves ==
  ASSUME CallsFine, NEW c \in Calls
  PROVE  /\ RemoveMessages(c) => Moves(c, "accounts")
         /\ RemoveAccounts(c) => Moves(c, "tenant")
         /\ RefusedEvent(c) => Moves(c, "selectMark")
  <1>1. ASSUME Busy(c), NEW pc \in {"accounts", "tenant"}, GoTo(c, pc)
        PROVE  Moves(c, pc)
    <2> DEFINE new == [calls[c] EXCEPT !.pc = pc]
    <2>1. pc \in Pcs /\ pc \notin AddPcs /\ pc \notin {"check", "ids"}
      BY <1>1 DEF Pcs, AddPcs, BatchPcs, MarkPcs
    <2>2. calls[c] \in Call /\ Shape(calls[c])
      BY <1>1 DEF CallsFine
    <2>3. /\ new \in Call /\ new.pc = pc /\ Same(calls[c], new) /\ new.items = calls[c].items
          /\ new.batch = calls[c].batch /\ new.refused = calls[c].refused
      BY <2>1, <2>2, PcFine
    <2>4. Shape(new)
      BY <2>1, <2>2, <2>3 DEF Same, Shape, AddPcs, BatchPcs
    <2>5. Puts(c, new)
      BY <1>1 DEF GoTo, Puts
    <2> QED  BY <2>3, <2>4, <2>5 DEF Moves, Fits, Same
  <1>2. RemoveMessages(c) => Moves(c, "accounts")
    BY <1>1, BusyCall DEF RemoveMessages, At
  <1>3. RemoveAccounts(c) => Moves(c, "tenant")
    BY <1>1, BusyCall DEF RemoveAccounts, At
  <1>4. ASSUME RefusedEvent(c)
        PROVE  Moves(c, "selectMark")
    <2> DEFINE new == [calls[c] EXCEPT !.pc = "selectMark"]
    <2>1. "selectMark" \in Pcs /\ calls[c].pc = "event"
      BY <1>4 DEF RefusedEvent, Pcs, AddPcs, BatchPcs, MarkPcs
    <2>2. calls[c] \in Call /\ Shape(calls[c])
      BY <2>1, BusyCall
    <2>3. /\ new \in Call /\ new.pc = "selectMark" /\ Same(calls[c], new)
          /\ new.items = calls[c].items /\ new.batch = calls[c].batch
          /\ new.refused = calls[c].refused
      BY <2>1, <2>2, PcFine
    <2>4. Shape(new)
      BY <2>1, <2>2, <2>3 DEF Same, Shape, AddPcs, BatchPcs, MarkPcs
    <2>5. Puts(c, new)
      BY <1>4 DEF RefusedEvent, GoTo, Puts
    <2> QED  BY <2>3, <2>4, <2>5 DEF Moves, Fits, Same
  <1> QED  BY <1>2, <1>3, <1>4

LEMMA SelectTenantMoves ==
  ASSUME CallsFine, TablesOK, NEW c \in Calls, SelectTenant(c)
  PROVE  \E new : /\ Puts(c, new) /\ Fits(calls[c], new) /\ new.pc = "write"
                  /\ new.tenantCopy = tenants[calls[c].t]
                  /\ new.pk = calls[c].pk /\ new.account = calls[c].account
                  /\ new.accountCopy = calls[c].accountCopy
                  /\ new.messageCopy = calls[c].messageCopy
  <1> DEFINE call == calls[c]
             new == [call EXCEPT !.pc = "write", !.tenantCopy = tenants[call.t]]
  <1>1. call.pc = "select"
    BY DEF SelectTenant
  <1>2. call \in Call /\ Shape(call) /\ call.t \in Tenants
    BY <1>1, BusyCall
  <1>3. tenants[call.t] \in TenantRow /\ "write" \in Pcs /\ "write" \notin AddPcs
    BY <1>2 DEF TablesOK, Pcs, AddPcs, BatchPcs, MarkPcs
  <1>4. new \in Call
    BY <1>2, <1>3 DEF Call
  <1>5. /\ new.pc = "write" /\ new.op = call.op /\ new.t = call.t /\ new.a = call.a
        /\ new.items = call.items /\ new.batch = call.batch /\ new.refused = call.refused
        /\ new.pk = call.pk /\ new.account = call.account /\ new.accountCopy = call.accountCopy
        /\ new.messageCopy = call.messageCopy /\ new.tenantCopy = tenants[call.t]
    BY <1>2 DEF Call
  <1>6. Shape(new)
    BY <1>2, <1>3, <1>5 DEF Shape, AddPcs, BatchPcs
  <1>7. Puts(c, new)
    BY DEF SelectTenant, Puts
  <1> HIDE DEF new
  <1> QED  BY <1>4, <1>5, <1>6, <1>7 DEF Fits

LEMMA SelectAccountMoves ==
  ASSUME CallsFine, TablesOK, NEW c \in Calls, SelectAccount(c)
  PROVE  \E new : /\ Puts(c, new) /\ Fits(calls[c], new) /\ new.pc = "write"
                  /\ new.accountCopy = accounts[<<calls[c].t, calls[c].a>>]
                  /\ calls[c].a \in AccountIds
                  /\ new.pk = calls[c].pk /\ new.account = calls[c].account
                  /\ new.messageCopy = calls[c].messageCopy
                  /\ new.tenantCopy = calls[c].tenantCopy
  <1> DEFINE call == calls[c]
             new == [call EXCEPT !.pc = "write", !.accountCopy = accounts[<<call.t, call.a>>]]
  <1>1. call.pc = "select" /\ call.op \in {"addAccount", "addPecAccount"}
    BY DEF SelectAccount
  <1>2. call \in Call /\ Shape(call) /\ call.t \in Tenants
    BY <1>1, BusyCall
  <1>3. call.a \in AccountIds
    BY <1>1, <1>2 DEF Shape, AccountOps
  <1>4. /\ accounts[<<call.t, call.a>>] \in AccountRow
        /\ "write" \in Pcs /\ "write" \notin AddPcs
    BY <1>2, <1>3 DEF TablesOK, AccountKeys, Pcs, AddPcs, BatchPcs, MarkPcs
  <1>5. new \in Call
    BY <1>2, <1>4 DEF Call
  <1>6. /\ new.pc = "write" /\ new.op = call.op /\ new.t = call.t /\ new.a = call.a
        /\ new.items = call.items /\ new.batch = call.batch /\ new.refused = call.refused
        /\ new.pk = call.pk /\ new.account = call.account /\ new.tenantCopy = call.tenantCopy
        /\ new.messageCopy = call.messageCopy
        /\ new.accountCopy = accounts[<<call.t, call.a>>]
    BY <1>2 DEF Call
  <1>7. Shape(new)
    BY <1>2, <1>4, <1>6 DEF Shape, AddPcs, BatchPcs
  <1>8. Puts(c, new)
    BY DEF SelectAccount, Puts
  <1> HIDE DEF new
  <1> QED  BY <1>3, <1>5, <1>6, <1>7, <1>8 DEF Fits

LEMMA ResolveMoves ==
  ASSUME CallsFine, TablesOK, NEW c \in Calls, Resolve(c)
  PROVE  \E new : /\ Puts(c, new) /\ Fits(calls[c], new) /\ new.pc = "exists"
                  /\ new.account = accounts[<<calls[c].t, calls[c].a>>].pk
                  /\ calls[c].a \in AccountIds
                  /\ new.pk = calls[c].pk /\ new.accountCopy = calls[c].accountCopy
                  /\ new.messageCopy = calls[c].messageCopy
                  /\ new.tenantCopy = calls[c].tenantCopy
  <1> DEFINE call == calls[c]
             account == accounts[<<call.t, call.a>>].pk
             pec == call.a \in PecAccountIds
             new == [call EXCEPT !.pc = "exists", !.account = account, !.pec = pec]
  <1>1. call.pc = "resolve"
    BY DEF Resolve
  <1>2. call \in Call /\ Shape(call) /\ call.t \in Tenants
    BY <1>1, BusyCall
  <1>3. call.a \in AccountIds /\ call.op \in Adds
    BY <1>1, <1>2 DEF Shape, AddPcs, BatchPcs
  <1>4. account \in 0..MaxPk /\ pec \in BOOLEAN /\ "exists" \in Pcs
    BY <1>2, <1>3 DEF TablesOK, AccountKeys, AccountRow, Pcs, AddPcs, BatchPcs, MarkPcs
  <1>8. Puts(c, new)
    BY DEF Resolve, Puts
  <1> HIDE DEF account, pec
  <1>5. [call EXCEPT !.pc = "exists", !.account = account] \in Call
    BY <1>2, <1>4 DEF Call
  <1>6. new \in Call
    BY <1>4, <1>5 DEF Call
  <1>7. /\ new.pc = "exists" /\ new.op = call.op /\ new.t = call.t /\ new.a = call.a
        /\ new.items = call.items /\ new.batch = call.batch /\ new.refused = call.refused
        /\ new.pk = call.pk /\ new.accountCopy = call.accountCopy
        /\ new.tenantCopy = call.tenantCopy /\ new.messageCopy = call.messageCopy
        /\ new.account = account
    BY <1>2 DEF Call
  <1>9. Shape(new)
    BY <1>1, <1>2, <1>3, <1>7 DEF Shape, AddPcs, BatchPcs, MarkPcs
  <1> HIDE DEF new
  <1> QED  BY <1>3, <1>6, <1>7, <1>8, <1>9 DEF Fits, account

LEMMA BatchKey ==
  ASSUME NEW call \in Call, Shape(call), call.pc \in BatchPcs
  PROVE  Key(call) \in MessageKeys /\ Key(call)[1] = call.t /\ Head(call.batch).form \in Forms
  <1>1. call.batch \in Seq(Item) /\ call.batch # <<>> /\ call.t \in Tenants
    BY CallFields DEF Shape
  <1>2. Head(call.batch) \in Item
    BY <1>1, TailFine
  <1> QED  BY <1>1, <1>2 DEF Key, MessageKeys, Item

LEMMA LookupMoves ==
  ASSUME CallsFine, TablesOK, NEW c \in Calls, LookupMessage(c)
  PROVE  \/ Quietly(c)
         \/ \E new : /\ Puts(c, new) /\ Fits(calls[c], new) /\ new.pc = "selectMessage"
                     /\ new.pk = messages[Key(calls[c])].pk
                     /\ new.account = calls[c].account
                     /\ new.tenantCopy = calls[c].tenantCopy
                     /\ new.accountCopy = calls[c].accountCopy
                     /\ new.messageCopy = calls[c].messageCopy
  <1> DEFINE call == calls[c]
             row == messages[Key(call)]
             found == [call EXCEPT !.pc = "selectMessage", !.pk = row.pk]
             absent == [call EXCEPT !.pc = "insertMessage"]
  <1>1. call.pc = "exists" /\ call.pc \in BatchPcs
    BY DEF LookupMessage, BatchPcs
  <1>2. call \in Call /\ Shape(call)
    BY <1>1, BusyCall
  <1>3. row.pk \in 0..MaxPk
    BY <1>1, <1>2, BatchKey DEF TablesOK, MessageRow
  <1>4. CASE row.pk = 0
    <2>1. "insertMessage" \in Pcs
      BY DEF Pcs, AddPcs, BatchPcs
    <2>2. /\ absent \in Call /\ absent.pc = "insertMessage" /\ Same(call, absent)
          /\ absent.items = call.items /\ absent.batch = call.batch
          /\ absent.refused = call.refused
      BY <1>2, <2>1, PcFine
    <2>3. Shape(absent)
      BY <1>1, <1>2, <2>2 DEF Same, Shape, AddPcs, BatchPcs, MarkPcs
    <2>4. Puts(c, absent)
      BY <1>4 DEF LookupMessage, Puts
    <2> QED  BY <2>2, <2>3, <2>4 DEF Quietly, Fits, Same, LoudPcs
  <1>5. CASE row.pk # 0 /\ row.done
    <2>1. Puts(c, NextEntry(call))
      BY <1>5 DEF LookupMessage, Puts
    <2> QED  BY <1>1, <1>2, <2>1, NextEntryFine DEF Quietly, Fits, Same, LoudPcs
  <1>6. CASE row.pk # 0 /\ ~row.done
    <2>1. row.pk \in 0..MaxPk
      BY <1>3
    <2>2. Puts(c, found)
      BY <1>6 DEF LookupMessage, Puts
    <2> HIDE DEF row
    <2>3. /\ found \in Call /\ found.pc = "selectMessage" /\ found.pk = row.pk
          /\ found.op = call.op /\ found.t = call.t /\ found.a = call.a
          /\ found.items = call.items /\ found.batch = call.batch
          /\ found.refused = call.refused /\ found.account = call.account
          /\ found.tenantCopy = call.tenantCopy /\ found.accountCopy = call.accountCopy
          /\ found.messageCopy = call.messageCopy
      <3>1. "selectMessage" \in Pcs
        BY DEF Pcs, AddPcs, BatchPcs
      <3>2. found \in Call
        BY <1>2, <2>1, <3>1 DEF Call
      <3> QED  BY <1>2, <3>2 DEF Call
    <2> HIDE DEF found
    <2>4. Shape(found)
      BY <1>1, <1>2, <1>6, <2>3 DEF Shape, AddPcs, BatchPcs, MarkPcs
    <2> QED  BY <2>2, <2>3, <2>4 DEF Fits, row
  <1> QED  BY <1>4, <1>5, <1>6

LEMMA InsertMoves ==
  ASSUME CallsFine, TablesOK, NEW c \in Calls, InsertMessage(c)
  PROVE  \/ Quietly(c) /\ UNCHANGED messages
         \/ /\ messages[Key(calls[c])].pk = 0
            /\ \E new : /\ Puts(c, new) /\ Fits(calls[c], new)
                        /\ new.pc \in {"event", "check", "resolve", "publish", "answer"}
                        /\ new.pk = nextPk /\ new.account = calls[c].account
                        /\ new.tenantCopy = calls[c].tenantCopy
                        /\ new.accountCopy = calls[c].accountCopy
                        /\ new.messageCopy = calls[c].messageCopy
  <1> DEFINE call == calls[c]
             drawn == [call EXCEPT !.pk = nextPk]
  <1>1. call.pc = "insertMessage" /\ call.pc \in BatchPcs
    BY DEF InsertMessage, BatchPcs
  <1>2. call \in Call /\ Shape(call)
    BY <1>1, BusyCall
  <1>3. CASE messages[Key(call)].pk # 0
    BY <1>3, IdleQuiet DEF InsertMessage
  <1>4. CASE messages[Key(call)].pk = 0
    <2>1. nextPk \in 1..MaxPk /\ nextPk \in 0..MaxPk /\ nextPk # 0
      BY TablesAssumption DEF InsertMessage, TablesOK
    <2>2. drawn \in Call
      BY <1>2, <2>1 DEF Call
    <2>3. /\ drawn.pc = call.pc /\ drawn.pk = nextPk /\ drawn.op = call.op /\ drawn.t = call.t
          /\ drawn.a = call.a /\ drawn.items = call.items /\ drawn.batch = call.batch
          /\ drawn.refused = call.refused /\ drawn.account = call.account
          /\ drawn.tenantCopy = call.tenantCopy /\ drawn.accountCopy = call.accountCopy
          /\ drawn.messageCopy = call.messageCopy
      BY <1>2 DEF Call
    <2>4. Puts(c, Stored(drawn))
      BY <1>4 DEF InsertMessage, Puts
    <2> HIDE DEF drawn
    <2>5. Shape(drawn)
      BY <1>1, <1>2, <2>1, <2>3 DEF Shape
    <2>6. /\ Stored(drawn) \in Call /\ Shape(Stored(drawn)) /\ Same(drawn, Stored(drawn))
          /\ Stored(drawn).pc \in {"event", "check", "resolve", "publish", "answer"}
      BY <1>1, <2>1, <2>2, <2>3, <2>5, StoredQuiet
    <2> QED  BY <1>4, <2>3, <2>4, <2>6 DEF Fits, Same
  <1> QED  BY <1>3, <1>4

LEMMA SelectMessageMoves ==
  ASSUME CallsFine, TablesOK, NEW c \in Calls, SelectMessage(c)
  PROVE  LET row == messages[Key(calls[c])]
         IN  \E new : /\ Puts(c, new) /\ Fits(calls[c], new)
                      /\ new.pc = IF calls[c].pc = "selectMark" THEN "mark" ELSE "store"
                      /\ new.messageCopy = IF row.pk = calls[c].pk THEN row ELSE NoMessage
                      /\ new.pk = calls[c].pk /\ new.account = calls[c].account
                      /\ new.tenantCopy = calls[c].tenantCopy
                      /\ new.accountCopy = calls[c].accountCopy
  <1> DEFINE call == calls[c]
             row == messages[Key(call)]
             copy == IF row.pk = call.pk THEN row ELSE NoMessage
             pc == IF call.pc = "selectMark" THEN "mark" ELSE "store"
             new == [call EXCEPT !.pc = pc, !.messageCopy = copy]
  <1>1. call.pc \in {"selectMessage", "selectMark"} /\ call.pc \in BatchPcs
    BY DEF SelectMessage, BatchPcs, MarkPcs
  <1>2. call \in Call /\ Shape(call)
    BY <1>1, BusyCall
  <1>3. copy \in MessageRow /\ pc \in Pcs
    BY <1>1, <1>2, BatchKey, Nones DEF TablesOK, Pcs, AddPcs, BatchPcs, MarkPcs
  <1>4. Puts(c, new)
    BY DEF SelectMessage, Puts
  <1> HIDE DEF copy
  <1>5. new \in Call
    <2> HIDE DEF pc
    <2> QED  BY <1>2, <1>3 DEF Call
  <1>6. /\ new.pc = pc /\ new.op = call.op /\ new.t = call.t /\ new.a = call.a
        /\ new.items = call.items /\ new.batch = call.batch /\ new.refused = call.refused
        /\ new.pk = call.pk /\ new.account = call.account /\ new.accountCopy = call.accountCopy
        /\ new.tenantCopy = call.tenantCopy /\ new.messageCopy = copy
    <2> HIDE DEF pc
    <2> QED  BY <1>2 DEF Call
  <1> HIDE DEF new
  <1>7. Shape(new)
    BY <1>1, <1>2, <1>6 DEF Shape, AddPcs, BatchPcs, MarkPcs
  <1> QED  BY <1>4, <1>5, <1>6, <1>7 DEF Fits, copy

LEMMA GetMessageMoves ==
  ASSUME CallsFine, TablesOK, NEW c \in Calls, GetMessage(c)
  PROVE  \/ Quietly(c)
         \/ \E new, k : /\ Puts(c, new) /\ Fits(calls[c], new) /\ new.pc = "remove"
                        /\ k \in MessageKeys /\ k[1] = calls[c].t /\ new.pk = messages[k].pk
                        /\ new.account = calls[c].account
                        /\ new.tenantCopy = calls[c].tenantCopy
                        /\ new.accountCopy = calls[c].accountCopy
                        /\ new.messageCopy = calls[c].messageCopy
  <1> DEFINE call == calls[c]
             k == <<call.t, Head(call.items).id>>
             pk == messages[k].pk
             new == [call EXCEPT !.pc = "remove", !.pk = pk]
  <1>1. call.pc = "get" /\ call.op = "deleteBatch"
    BY DEF GetMessage, At
  <1>2. call \in Call /\ Shape(call) /\ call.t \in Tenants /\ call.items \in Seq(Item) /\ Busy(c)
    BY <1>1, BusyCall
  <1>3. Head(call.items) \in Item
    BY <1>1, <1>2, TailFine DEF Shape
  <1>4. k \in MessageKeys /\ k[1] = call.t
    BY <1>2, <1>3 DEF MessageKeys, Item
  <1>5. pk \in 0..MaxPk
    BY <1>4 DEF TablesOK, MessageRow
  <1>6. CASE pk = 0
    BY <1>2, <1>6, AnswerQuiet DEF GetMessage
  <1>7. CASE pk # 0
    <2>1. pk \in 0..MaxPk /\ pk # 0
      BY <1>5, <1>7
    <2>2. Puts(c, new)
      BY <1>7 DEF GetMessage, Puts
    <2> HIDE DEF pk
    <2>3. /\ new \in Call /\ new.pc = "remove" /\ new.pk = pk
          /\ new.op = call.op /\ new.t = call.t /\ new.a = call.a
          /\ new.items = call.items /\ new.batch = call.batch
          /\ new.refused = call.refused /\ new.account = call.account
          /\ new.tenantCopy = call.tenantCopy /\ new.accountCopy = call.accountCopy
          /\ new.messageCopy = call.messageCopy
      <3>1. "remove" \in Pcs
        BY DEF Pcs, AddPcs, BatchPcs
      <3>2. new \in Call
        BY <1>2, <2>1, <3>1 DEF Call
      <3> QED  BY <1>2, <3>2 DEF Call
    <2> HIDE DEF new
    <2>4. Shape(new)
      BY <1>1, <1>2, <2>1, <2>3 DEF Shape, AddPcs, BatchPcs, MarkPcs
    <2> QED  BY <1>4, <2>2, <2>3, <2>4 DEF Fits, pk
  <1> QED  BY <1>6, <1>7

-----------------------------------------------------------------------------
(* The step with which a call comes.                                       *)

Fresh(new) ==
    /\ new \in Call /\ Shape(new)
    /\ new.pc \notin LoudPcs \cup {"log"}
    /\ new.op = "addTenant" => new.pc = "get"
    /\ new.account = 0 /\ new.tenantCopy = NoTenant
    /\ new.accountCopy = NoAccount /\ new.messageCopy = NoMessage
    /\ new.pk = 0 \/ (new.op = "delete" /\ \E k \in MessageKeys : new.pk = messages[k].pk)

FirstPcs == {"select", "get", "messages", "delete", "check", "ids", "resolve", "remove", "key",
             "count"}

\* What a call knows before its parameters are in it.
Blank(new, op, t, first) ==
    /\ new.op = op /\ new.t = t /\ new.pc = first /\ ~new.refused /\ new.account = 0
    /\ new.tenantCopy = NoTenant /\ new.accountCopy = NoAccount /\ new.messageCopy = NoMessage

LEMMA NewCallFine ==
  ASSUME NEW op \in KnownOps, NEW t \in Tenants, NEW first \in FirstPcs, NEW rest,
         rest = TRUE \/ rest = FALSE
  PROVE  /\ NewCall(op, t, first, rest) \in Call
         /\ Blank(NewCall(op, t, first, rest), op, t, first)
         /\ NewCall(op, t, first, rest).pk = 0
  <1>1. /\ first \in Pcs /\ 0 \in 0..MaxPk /\ <<>> \in Seq(Item) /\ {} \in SUBSET Codes
        /\ 0 \in Int
    BY TablesAssumption DEF FirstPcs, Pcs, AddPcs, BatchPcs
  <1>2. NewCall(op, t, first, rest) \in Call
    BY <1>1, Nones DEF NewCall, Call
  <1> QED  BY <1>2 DEF NewCall, Blank

LEMMA RequestBegins ==
  ASSUME TablesOK, NEW c \in Calls, NEW t \in Tenants, Request(c, t)
  PROVE  \E new : Begin(c, new) /\ Fresh(new) /\ new.t = t
  <1> USE DEF Fresh
  <1>1. ASSUME NEW codes \in CodeArgs, NEW op \in {"suspend", "activate"}, NEW rest \in BOOLEAN,
               Begin(c, [NewCall(op, t, "select", rest) EXCEPT !.codes = codes])
        PROVE  \E new : Begin(c, new) /\ Fresh(new) /\ new.t = t
    <2> DEFINE base == NewCall(op, t, "select", rest)
               new == [base EXCEPT !.codes = codes]
    <2>1. op \in KnownOps /\ "select" \in FirstPcs
      BY DEF KnownOps, TenantOps, RecordOps, KeyOps, AccountOps, MessageOps, FirstPcs
    <2>2. base \in Call /\ Blank(base, op, t, "select") /\ base.pk = 0
      BY <1>1, <2>1, NewCallFine
    <2>3. codes \in SUBSET Codes
      BY <1>1 DEF CodeArgs
    <2>4. Begin(c, new)
      BY <1>1
    <2> HIDE DEF base
    <2>5. new \in Call
      BY <1>1, <2>2, <2>3 DEF Call
    <2>6. Blank(new, op, t, "select") /\ new.pk = 0
      BY <2>2 DEF Call, Blank
    <2> HIDE DEF new
    <2>7. Shape(new)
      BY <1>1, <2>3, <2>6 DEF Blank, Shape, AddPcs, BatchPcs, MarkPcs, AccountOps, Adds
    <2> QED  BY <1>1, <2>3, <2>4, <2>5, <2>6, <2>7 DEF Blank, LoudPcs
  <1>2. ASSUME NEW v \in BOOLEAN, NEW rest \in BOOLEAN,
               Begin(c, [NewCall("updateTenant", t, "select", rest) EXCEPT !.active = v])
        PROVE  \E new : Begin(c, new) /\ Fresh(new) /\ new.t = t
    <2> DEFINE base == NewCall("updateTenant", t, "select", rest)
               new == [base EXCEPT !.active = v]
    <2>1. "updateTenant" \in KnownOps /\ "select" \in FirstPcs
      BY DEF KnownOps, TenantOps, RecordOps, KeyOps, AccountOps, MessageOps, FirstPcs
    <2>2. base \in Call /\ Blank(base, "updateTenant", t, "select") /\ base.pk = 0
      BY <1>2, <2>1, NewCallFine
    <2>4. Begin(c, new)
      BY <1>2
    <2> HIDE DEF base
    <2>5. new \in Call
      BY <1>2, <2>2 DEF Call
    <2>6. Blank(new, "updateTenant", t, "select") /\ new.pk = 0
      BY <2>2 DEF Call, Blank
    <2> HIDE DEF new
    <2>7. Shape(new)
      BY <1>2, <2>6 DEF Blank, Shape, AddPcs, BatchPcs, MarkPcs, AccountOps, Adds
    <2> QED  BY <1>2, <2>4, <2>5, <2>6, <2>7 DEF Blank, LoudPcs
  <1>3. ASSUME NEW v \in BOOLEAN, NEW rest \in BOOLEAN,
               Begin(c, [NewCall("addTenant", t, "get", rest) EXCEPT !.active = v])
        PROVE  \E new : Begin(c, new) /\ Fresh(new) /\ new.t = t
    <2> DEFINE base == NewCall("addTenant", t, "get", rest)
               new == [base EXCEPT !.active = v]
    <2>1. "addTenant" \in KnownOps /\ "get" \in FirstPcs
      BY DEF KnownOps, TenantOps, RecordOps, KeyOps, AccountOps, MessageOps, FirstPcs
    <2>2. base \in Call /\ Blank(base, "addTenant", t, "get") /\ base.pk = 0
      BY <1>3, <2>1, NewCallFine
    <2>4. Begin(c, new)
      BY <1>3
    <2> HIDE DEF base
    <2>5. new \in Call
      BY <1>3, <2>2 DEF Call
    <2>6. Blank(new, "addTenant", t, "get") /\ new.pk = 0
      BY <2>2 DEF Call, Blank
    <2> HIDE DEF new
    <2>7. Shape(new)
      BY <1>3, <2>6 DEF Blank, Shape, AddPcs, BatchPcs, MarkPcs, AccountOps, Adds
    <2> QED  BY <1>3, <2>4, <2>5, <2>6, <2>7 DEF Blank, LoudPcs
  <1>4. ASSUME NEW rest \in BOOLEAN,
               Begin(c, NewCall("deleteTenant", t, "messages", rest))
        PROVE  \E new : Begin(c, new) /\ Fresh(new) /\ new.t = t
    <2> DEFINE base == NewCall("deleteTenant", t, "messages", rest)
               new == base
    <2>1. "deleteTenant" \in KnownOps /\ "messages" \in FirstPcs
      BY DEF KnownOps, TenantOps, RecordOps, KeyOps, AccountOps, MessageOps, FirstPcs
    <2>2. base \in Call /\ Blank(base, "deleteTenant", t, "messages") /\ base.pk = 0
      BY <1>4, <2>1, NewCallFine
    <2>4. Begin(c, new)
      BY <1>4
    <2> HIDE DEF base
    <2>5. new \in Call
      BY <1>4, <2>2 DEF Call
    <2>6. Blank(new, "deleteTenant", t, "messages") /\ new.pk = 0
      BY <2>2 DEF Call, Blank
    <2> HIDE DEF new
    <2>7. Shape(new)
      BY <1>4, <2>6 DEF Blank, Shape, AddPcs, BatchPcs, MarkPcs, AccountOps, Adds
    <2> QED  BY <1>4, <2>4, <2>5, <2>6, <2>7 DEF Blank, LoudPcs
  <1>5. ASSUME NEW a \in AccountIds, NEW rest \in BOOLEAN,
               Begin(c, [NewCall("addAccount", t, "select", rest) EXCEPT !.a = a])
        PROVE  \E new : Begin(c, new) /\ Fresh(new) /\ new.t = t
    <2> DEFINE base == NewCall("addAccount", t, "select", rest)
               new == [base EXCEPT !.a = a]
    <2>1. "addAccount" \in KnownOps /\ "select" \in FirstPcs
      BY DEF KnownOps, TenantOps, RecordOps, KeyOps, AccountOps, MessageOps, FirstPcs
    <2>2. base \in Call /\ Blank(base, "addAccount", t, "select") /\ base.pk = 0
      BY <1>5, <2>1, NewCallFine
    <2>4. Begin(c, new)
      BY <1>5
    <2> HIDE DEF base
    <2>5. new \in Call
      BY <1>5, <2>2 DEF Call
    <2>6. Blank(new, "addAccount", t, "select") /\ new.pk = 0 /\ new.a = a
      BY <2>2 DEF Call, Blank
    <2> HIDE DEF new
    <2>7. Shape(new)
      BY <1>5, <2>6 DEF Blank, Shape, AddPcs, BatchPcs, MarkPcs, AccountOps, Adds
    <2> QED  BY <1>5, <2>4, <2>5, <2>6, <2>7 DEF Blank, LoudPcs
  <1>6. ASSUME NEW rest \in BOOLEAN,
               Begin(c, NewCall("cleanupMessages", t, "delete", rest))
        PROVE  \E new : Begin(c, new) /\ Fresh(new) /\ new.t = t
    <2> DEFINE base == NewCall("cleanupMessages", t, "delete", rest)
               new == base
    <2>1. "cleanupMessages" \in KnownOps /\ "delete" \in FirstPcs
      BY DEF KnownOps, TenantOps, RecordOps, KeyOps, AccountOps, MessageOps, FirstPcs
    <2>2. base \in Call /\ Blank(base, "cleanupMessages", t, "delete") /\ base.pk = 0
      BY <1>6, <2>1, NewCallFine
    <2>4. Begin(c, new)
      BY <1>6
    <2> HIDE DEF base
    <2>5. new \in Call
      BY <1>6, <2>2 DEF Call
    <2>6. Blank(new, "cleanupMessages", t, "delete") /\ new.pk = 0
      BY <2>2 DEF Call, Blank
    <2> HIDE DEF new
    <2>7. Shape(new)
      BY <1>6, <2>6 DEF Blank, Shape, AddPcs, BatchPcs, MarkPcs, AccountOps, Adds
    <2> QED  BY <1>6, <2>4, <2>5, <2>6, <2>7 DEF Blank, LoudPcs
  <1>7. ASSUME NEW a \in AccountIds,
               Begin(c, [NewCall("deleteAccount", t, "get", FALSE) EXCEPT !.a = a])
        PROVE  \E new : Begin(c, new) /\ Fresh(new) /\ new.t = t
    <2> DEFINE base == NewCall("deleteAccount", t, "get", FALSE)
               new == [base EXCEPT !.a = a]
    <2>1. "deleteAccount" \in KnownOps /\ "get" \in FirstPcs
      BY DEF KnownOps, TenantOps, RecordOps, KeyOps, AccountOps, MessageOps, FirstPcs
    <2>2. base \in Call /\ Blank(base, "deleteAccount", t, "get") /\ base.pk = 0
      BY <1>7, <2>1, NewCallFine
    <2>4. Begin(c, new)
      BY <1>7
    <2> HIDE DEF base
    <2>5. new \in Call
      BY <1>7, <2>2 DEF Call
    <2>6. Blank(new, "deleteAccount", t, "get") /\ new.pk = 0 /\ new.a = a
      BY <2>2 DEF Call, Blank
    <2> HIDE DEF new
    <2>7. Shape(new)
      BY <1>7, <2>6 DEF Blank, Shape, AddPcs, BatchPcs, MarkPcs, AccountOps, Adds
    <2> QED  BY <1>7, <2>4, <2>5, <2>6, <2>7 DEF Blank, LoudPcs
  <1>8. ASSUME NEW a \in AccountIds, NEW s \in Submissions,
               Begin(c, [NewCall("addMessages", t, "check", FALSE) EXCEPT !.a = a, !.items = s])
        PROVE  \E new : Begin(c, new) /\ Fresh(new) /\ new.t = t
    <2> DEFINE base == NewCall("addMessages", t, "check", FALSE)
               new == [base EXCEPT !.a = a, !.items = s]
    <2>1. "addMessages" \in KnownOps /\ "check" \in FirstPcs
      BY DEF KnownOps, TenantOps, RecordOps, KeyOps, AccountOps, MessageOps, FirstPcs
    <2>2. base \in Call /\ Blank(base, "addMessages", t, "check") /\ base.pk = 0
      BY <1>8, <2>1, NewCallFine
    <2>3. s \in Seq(Item) /\ s # <<>>
      BY <1>8, CommandsAssumption
    <2>4. Begin(c, new)
      BY <1>8
    <2> HIDE DEF base
    <2>5. new \in Call
      BY <1>8, <2>2, <2>3 DEF Call
    <2>6. Blank(new, "addMessages", t, "check") /\ new.pk = 0 /\ new.a = a /\ new.items = s
      BY <2>2 DEF Call, Blank
    <2> HIDE DEF new
    <2>7. Shape(new)
      BY <1>8, <2>3, <2>6 DEF Blank, Shape, AddPcs, BatchPcs, MarkPcs, AccountOps, Adds
    <2> QED  BY <1>8, <2>3, <2>4, <2>5, <2>6, <2>7 DEF Blank, LoudPcs
  <1>9. ASSUME NEW i \in Ids,
               Begin(c, [NewCall("deleteMessages", t, "ids", FALSE) EXCEPT !.items = <<Valid(i)>>])
        PROVE  \E new : Begin(c, new) /\ Fresh(new) /\ new.t = t
    <2> DEFINE base == NewCall("deleteMessages", t, "ids", FALSE)
               new == [base EXCEPT !.items = <<Valid(i)>>]
    <2>1. "deleteMessages" \in KnownOps /\ "ids" \in FirstPcs
      BY DEF KnownOps, TenantOps, RecordOps, KeyOps, AccountOps, MessageOps, FirstPcs
    <2>2. base \in Call /\ Blank(base, "deleteMessages", t, "ids") /\ base.pk = 0
      BY <1>9, <2>1, NewCallFine
    <2>3. <<Valid(i)>> \in Seq(Item) /\ <<Valid(i)>> # <<>>
      BY <1>9 DEF Valid, Item, Forms
    <2>4. Begin(c, new)
      BY <1>9
    <2> HIDE DEF base
    <2>5. new \in Call
      BY <1>9, <2>2, <2>3 DEF Call
    <2>6. Blank(new, "deleteMessages", t, "ids") /\ new.pk = 0 /\ new.items = <<Valid(i)>>
      BY <2>2 DEF Call, Blank
    <2> HIDE DEF new
    <2>7. Shape(new)
      BY <1>9, <2>3, <2>6 DEF Blank, Shape, AddPcs, BatchPcs, MarkPcs, AccountOps, Adds
    <2> QED  BY <1>9, <2>3, <2>4, <2>5, <2>6, <2>7 DEF Blank, LoudPcs
  <1>10. ASSUME NEW a \in AccountIds, NEW i \in Ids,
               Begin(c, [NewCall("add", t, "resolve", TRUE) EXCEPT !.a = a, !.batch = <<Valid(i)>>])
        PROVE  \E new : Begin(c, new) /\ Fresh(new) /\ new.t = t
    <2> DEFINE base == NewCall("add", t, "resolve", TRUE)
               new == [base EXCEPT !.a = a, !.batch = <<Valid(i)>>]
    <2>1. "add" \in KnownOps /\ "resolve" \in FirstPcs
      BY DEF KnownOps, TenantOps, RecordOps, KeyOps, AccountOps, MessageOps, FirstPcs
    <2>2. base \in Call /\ Blank(base, "add", t, "resolve") /\ base.pk = 0
      BY <1>10, <2>1, NewCallFine
    <2>3. <<Valid(i)>> \in Seq(Item) /\ <<Valid(i)>> # <<>>
      BY <1>10 DEF Valid, Item, Forms
    <2>4. Begin(c, new)
      BY <1>10
    <2> HIDE DEF base
    <2>5. new \in Call
      BY <1>10, <2>2, <2>3 DEF Call
    <2>6. Blank(new, "add", t, "resolve") /\ new.pk = 0 /\ new.a = a /\ new.batch = <<Valid(i)>>
      BY <2>2 DEF Call, Blank
    <2> HIDE DEF new
    <2>7. Shape(new)
      BY <1>10, <2>3, <2>6 DEF Blank, Shape, AddPcs, BatchPcs, MarkPcs, AccountOps, Adds
    <2> QED  BY <1>10, <2>3, <2>4, <2>5, <2>6, <2>7 DEF Blank, LoudPcs
  <1>11. ASSUME NEW k \in {j \in MessageKeys : messages[j].pk # 0},
               Begin(c, [NewCall("delete", t, "remove", TRUE) EXCEPT !.pk = messages[k].pk])
        PROVE  \E new : Begin(c, new) /\ Fresh(new) /\ new.t = t
    <2> DEFINE base == NewCall("delete", t, "remove", TRUE)
               new == [base EXCEPT !.pk = messages[k].pk]
    <2>1. "delete" \in KnownOps /\ "remove" \in FirstPcs
      BY DEF KnownOps, TenantOps, RecordOps, KeyOps, AccountOps, MessageOps, FirstPcs
    <2>2. base \in Call /\ Blank(base, "delete", t, "remove") /\ base.pk = 0
      BY <1>11, <2>1, NewCallFine
    <2>3. k \in MessageKeys /\ messages[k].pk \in 0..MaxPk /\ messages[k].pk # 0
      BY <1>11 DEF TablesOK, MessageRow
    <2>4. Begin(c, new)
      BY <1>11
    <2> HIDE DEF base
    <2>5. new \in Call
      BY <1>11, <2>2, <2>3 DEF Call
    <2>6. Blank(new, "delete", t, "remove") /\ new.pk = messages[k].pk
      BY <2>2 DEF Call, Blank
    <2> HIDE DEF new
    <2>7. Shape(new)
      BY <1>11, <2>3, <2>6 DEF Blank, Shape, AddPcs, BatchPcs, MarkPcs, AccountOps, Adds
    <2> QED  BY <1>11, <2>3, <2>4, <2>5, <2>6, <2>7 DEF Blank, LoudPcs
  <1>12. ASSUME Begin(c, NewCall("createKey", t, "get", TRUE))
        PROVE  \E new : Begin(c, new) /\ Fresh(new) /\ new.t = t
    <2> DEFINE base == NewCall("createKey", t, "get", TRUE)
               new == base
    <2>1. "createKey" \in KnownOps /\ "get" \in FirstPcs
      BY DEF KnownOps, TenantOps, RecordOps, KeyOps, AccountOps, MessageOps, FirstPcs
    <2>2. base \in Call /\ Blank(base, "createKey", t, "get") /\ base.pk = 0
      BY <1>12, <2>1, NewCallFine
    <2>4. Begin(c, new)
      BY <1>12
    <2> HIDE DEF base
    <2>5. new \in Call
      BY <1>12, <2>2 DEF Call
    <2>6. Blank(new, "createKey", t, "get") /\ new.pk = 0
      BY <2>2 DEF Call, Blank
    <2> HIDE DEF new
    <2>7. Shape(new)
      BY <2>6 DEF Blank, Shape, AddPcs, BatchPcs, MarkPcs, AccountOps, Adds
    <2> QED  BY <2>4, <2>5, <2>6, <2>7 DEF Blank, LoudPcs
  <1>13. ASSUME Begin(c, NewCall("revokeKey", t, "key", TRUE))
        PROVE  \E new : Begin(c, new) /\ Fresh(new) /\ new.t = t
    <2> DEFINE base == NewCall("revokeKey", t, "key", TRUE)
               new == base
    <2>1. "revokeKey" \in KnownOps /\ "key" \in FirstPcs
      BY DEF KnownOps, TenantOps, RecordOps, KeyOps, AccountOps, MessageOps, FirstPcs
    <2>2. base \in Call /\ Blank(base, "revokeKey", t, "key") /\ base.pk = 0
      BY <1>13, <2>1, NewCallFine
    <2>4. Begin(c, new)
      BY <1>13
    <2> HIDE DEF base
    <2>5. new \in Call
      BY <1>13, <2>2 DEF Call
    <2>6. Blank(new, "revokeKey", t, "key") /\ new.pk = 0
      BY <2>2 DEF Call, Blank
    <2> HIDE DEF new
    <2>7. Shape(new)
      BY <2>6 DEF Blank, Shape, AddPcs, BatchPcs, MarkPcs, AccountOps, Adds
    <2> QED  BY <2>4, <2>5, <2>6, <2>7 DEF Blank, LoudPcs
  <1>14. ASSUME Begin(c, NewCall("purgeLog", t, "count", TRUE))
        PROVE  \E new : Begin(c, new) /\ Fresh(new) /\ new.t = t
    <2> DEFINE base == NewCall("purgeLog", t, "count", TRUE)
               new == base
    <2>1. "purgeLog" \in KnownOps /\ "count" \in FirstPcs
      BY DEF KnownOps, TenantOps, RecordOps, KeyOps, AccountOps, MessageOps, FirstPcs
    <2>2. base \in Call /\ Blank(base, "purgeLog", t, "count") /\ base.pk = 0
      BY <1>14, <2>1, NewCallFine
    <2>4. Begin(c, new)
      BY <1>14
    <2> HIDE DEF base
    <2>5. new \in Call
      BY <1>14, <2>2 DEF Call
    <2>6. Blank(new, "purgeLog", t, "count") /\ new.pk = 0
      BY <2>2 DEF Call, Blank
    <2> HIDE DEF new
    <2>7. Shape(new)
      BY <2>6 DEF Blank, Shape, AddPcs, BatchPcs, MarkPcs, AccountOps, Adds
    <2> QED  BY <2>4, <2>5, <2>6, <2>7 DEF Blank, LoudPcs
  <1>15. ASSUME NEW i \in Ids,
               Begin(c, [NewCall("deleteBatch", t, "ids", TRUE) EXCEPT !.items = <<Valid(i)>>])
        PROVE  \E new : Begin(c, new) /\ Fresh(new) /\ new.t = t
    <2> DEFINE base == NewCall("deleteBatch", t, "ids", TRUE)
               new == [base EXCEPT !.items = <<Valid(i)>>]
    <2>1. "deleteBatch" \in KnownOps /\ "ids" \in FirstPcs
      BY DEF KnownOps, TenantOps, RecordOps, KeyOps, AccountOps, MessageOps, FirstPcs
    <2>2. base \in Call /\ Blank(base, "deleteBatch", t, "ids") /\ base.pk = 0
      BY <1>15, <2>1, NewCallFine
    <2>3. <<Valid(i)>> \in Seq(Item) /\ <<Valid(i)>> # <<>>
      BY <1>15 DEF Valid, Item, Forms
    <2>4. Begin(c, new)
      BY <1>15
    <2> HIDE DEF base
    <2>5. new \in Call
      BY <1>15, <2>2, <2>3 DEF Call
    <2>6. Blank(new, "deleteBatch", t, "ids") /\ new.pk = 0 /\ new.items = <<Valid(i)>>
      BY <2>2 DEF Call, Blank
    <2> HIDE DEF new
    <2>7. Shape(new)
      BY <1>15, <2>3, <2>6 DEF Blank, Shape, AddPcs, BatchPcs, MarkPcs, AccountOps, Adds
    <2> QED  BY <1>15, <2>3, <2>4, <2>5, <2>6, <2>7 DEF Blank, LoudPcs
  <1>16. ASSUME NEW a \in AccountIds,
               Begin(c, [NewCall("addPecAccount", t, "select", TRUE) EXCEPT !.a = a])
        PROVE  \E new : Begin(c, new) /\ Fresh(new) /\ new.t = t
    <2> DEFINE base == NewCall("addPecAccount", t, "select", TRUE)
               new == [base EXCEPT !.a = a]
    <2>1. "addPecAccount" \in KnownOps /\ "select" \in FirstPcs
      BY DEF KnownOps, TenantOps, RecordOps, KeyOps, AccountOps, MessageOps, FirstPcs
    <2>2. base \in Call /\ Blank(base, "addPecAccount", t, "select") /\ base.pk = 0
      BY <1>16, <2>1, NewCallFine
    <2>4. Begin(c, new)
      BY <1>16
    <2> HIDE DEF base
    <2>5. new \in Call
      BY <1>16, <2>2 DEF Call
    <2>6. Blank(new, "addPecAccount", t, "select") /\ new.pk = 0 /\ new.a = a
      BY <2>2 DEF Call, Blank
    <2> HIDE DEF new
    <2>7. Shape(new)
      BY <1>16, <2>6 DEF Blank, Shape, AddPcs, BatchPcs, MarkPcs, AccountOps, Adds
    <2> QED  BY <1>16, <2>4, <2>5, <2>6, <2>7 DEF Blank, LoudPcs
  <1>17. ASSUME NEW a \in AccountIds,
               Begin(c, [NewCall("deleteAccount", t, "remove", TRUE) EXCEPT !.a = a])
        PROVE  \E new : Begin(c, new) /\ Fresh(new) /\ new.t = t
    <2> DEFINE base == NewCall("deleteAccount", t, "remove", TRUE)
               new == [base EXCEPT !.a = a]
    <2>1. "deleteAccount" \in KnownOps /\ "remove" \in FirstPcs
      BY DEF KnownOps, TenantOps, RecordOps, KeyOps, AccountOps, MessageOps, FirstPcs
    <2>2. base \in Call /\ Blank(base, "deleteAccount", t, "remove") /\ base.pk = 0
      BY <1>17, <2>1, NewCallFine
    <2>4. Begin(c, new)
      BY <1>17
    <2> HIDE DEF base
    <2>5. new \in Call
      BY <1>17, <2>2 DEF Call
    <2>6. Blank(new, "deleteAccount", t, "remove") /\ new.pk = 0 /\ new.a = a
      BY <2>2 DEF Call, Blank
    <2> HIDE DEF new
    <2>7. Shape(new)
      BY <1>17, <2>6 DEF Blank, Shape, AddPcs, BatchPcs, MarkPcs, AccountOps, Adds
    <2> QED  BY <1>17, <2>4, <2>5, <2>6, <2>7 DEF Blank, LoudPcs
  <1>18. ASSUME NEW a \in AccountIds, NEW s \in Submissions,
               Begin(c, [NewCall("addBatch", t, "resolve", TRUE) EXCEPT !.a = a, !.batch = s])
        PROVE  \E new : Begin(c, new) /\ Fresh(new) /\ new.t = t
    <2> DEFINE base == NewCall("addBatch", t, "resolve", TRUE)
               new == [base EXCEPT !.a = a, !.batch = s]
    <2>1. "addBatch" \in KnownOps /\ "resolve" \in FirstPcs
      BY DEF KnownOps, TenantOps, RecordOps, KeyOps, AccountOps, MessageOps, FirstPcs
    <2>2. base \in Call /\ Blank(base, "addBatch", t, "resolve") /\ base.pk = 0
      BY <1>18, <2>1, NewCallFine
    <2>3. s \in Seq(Item) /\ s # <<>>
      BY <1>18, CommandsAssumption
    <2>4. Begin(c, new)
      BY <1>18
    <2> HIDE DEF base
    <2>5. new \in Call
      BY <1>18, <2>2, <2>3 DEF Call
    <2>6. Blank(new, "addBatch", t, "resolve") /\ new.pk = 0 /\ new.a = a /\ new.batch = s
      BY <2>2 DEF Call, Blank
    <2> HIDE DEF new
    <2>7. Shape(new)
      BY <1>18, <2>3, <2>6 DEF Blank, Shape, AddPcs, BatchPcs, MarkPcs, AccountOps, Adds
    <2> QED  BY <1>18, <2>3, <2>4, <2>5, <2>6, <2>7 DEF Blank, LoudPcs
  <1> QED  BY <1>1, <1>2, <1>3, <1>4, <1>5, <1>6, <1>7, <1>8, <1>9,
              <1>10, <1>11, <1>12, <1>13, <1>14, <1>15, <1>16, <1>17, <1>18
           DEF Request, Method, Command, Route, AddRoute, DeleteRoute

-----------------------------------------------------------------------------
(* Every step keeps the types.                                             *)

LEMMA InitTypes ==
  ASSUME Init
  PROVE  TypeInv
  <1>1. InitTenants \in [Tenants -> TenantRow]
    <2>1. ASSUME NEW t \in Tenants
          PROVE  [NoTenant EXCEPT !.there = t \in Existing] \in TenantRow
      <3>1. (t \in Existing) \in BOOLEAN
        OBVIOUS
      <3> QED  BY <3>1, Nones DEF TenantRow
    <2> QED  BY <2>1 DEF InitTenants
  <1>2. /\ Cardinality(AccountKeys) \in Nat /\ Cardinality(AccountKeys) <= MaxPk
        /\ MaxPk \in Nat /\ MaxKeys \in Nat /\ QueueSize \in Nat /\ MaxCalls \in Nat
        /\ MaxFaults \in Nat
    BY FS_Product, FS_CardinalityType, TablesAssumption, CommandsAssumption DEF AccountKeys
  <1>3. accounts \in [AccountKeys -> AccountRow]
    <2>1. PICK pk \in [AccountKeys -> 0..Cardinality(AccountKeys)] :
             accounts = [k \in AccountKeys |-> [NoAccount EXCEPT !.pk = pk[k]]]
      BY DEF Init
    <2>2. ASSUME NEW k \in AccountKeys
          PROVE  [NoAccount EXCEPT !.pk = pk[k]] \in AccountRow
      <3>1. pk[k] \in 0..MaxPk
        BY <1>2
      <3> QED  BY <3>1 DEF NoAccount, AccountRow
    <2> QED  BY <2>1, <2>2
  <1>4. TablesOK
    <2>1. messages \in [MessageKeys -> MessageRow]
      BY Nones DEF Init
    <2>2. events \in [1..MaxPk -> EventRows]
      BY DEF Init, NoEvents, EventRows
    <2>3. nextPk \in 1..(MaxPk + 1) /\ nextKey \in 1..(MaxKeys + 1)
      BY <1>2 DEF Init
    <2> QED  BY <1>1, <1>3, <2>1, <2>2, <2>3 DEF Init, TablesOK
  <1>5. CallsFine
    BY DEF Init, CallsFine, Busy, IdleCall
  <1>6. Counters
    <2>1. results \in 0..QueueSize /\ used \in [calls: 0..MaxCalls, faults: 0..MaxFaults]
      BY <1>2 DEF Init
    <2> QED  BY <1>1, <2>1 DEF Init, Counters
  <1> QED  BY <1>4, <1>5, <1>6 DEF TypeInv

LEMMA Bounds ==
  /\ MaxPk \in Nat /\ MaxKeys \in Nat /\ QueueSize \in Nat /\ MaxCalls \in Nat /\ MaxFaults \in Nat
  BY TablesAssumption, CommandsAssumption

LEMMA RequestTypes ==
  ASSUME TypeInv, NEW c \in Calls, NEW t \in Tenants, Request(c, t)
  PROVE  TypeInv'
  <1>1. PICK new : Begin(c, new) /\ Fresh(new) /\ new.t = t
    BY RequestBegins DEF TypeInv
  <1>2. Puts(c, new) /\ UNCHANGED tables
    BY <1>1 DEF Begin, Puts
  <1>3. CallsFine'
    BY <1>1, <1>2, PutsFine DEF TypeInv, Fresh
  <1>4. TablesOK'
    BY <1>2 DEF TypeInv, TablesOK, tables
  <1>5. used' \in [calls: 0..MaxCalls, faults: 0..MaxFaults]
    <2>1. used \in [calls: 0..MaxCalls, faults: 0..MaxFaults] /\ used.calls < MaxCalls
      BY <1>1 DEF Begin, TypeInv, Counters
    <2>2. used.calls + 1 \in 0..MaxCalls
      BY <2>1, Bounds
    <2> QED  BY <1>1, <2>1, <2>2 DEF Begin
  <1>6. orphaned' \subseteq Tenants
    BY <1>1 DEF Begin, TypeInv, Counters
  <1>7. results' = results /\ serial' = serial /\ dirty' = dirty
    BY <1>1 DEF Begin
  <1> QED  BY <1>3, <1>4, <1>5, <1>6, <1>7 DEF TypeInv, Counters

LEMMA QuietTypes ==
  ASSUME TypeInv, NEW c \in Calls, QuietStep(c)
  PROVE  TypeInv'
  <1>1. CallsFine' /\ UNCHANGED rows
    BY QuietSteps, QuietFine DEF TypeInv
  <1>2. TablesOK'
    BY <1>1 DEF TypeInv, TablesOK, rows
  <1>3. results' \in 0..QueueSize
    <2>1. results \in 0..QueueSize
      BY DEF TypeInv, Counters
    <2>2. results' = results \/ (results < QueueSize /\ results' = results + 1)
      BY DEF QuietStep, GetTenant, CreateKeyGet, GetAccount, CheckItem, Publish, Reply,
             IdsForTenant, NotOwn, LogStep, LogCommand, CountLog, PurgeLog
    <2> QED  BY <2>1, <2>2, Bounds
  <1>4. used' \in [calls: 0..MaxCalls, faults: 0..MaxFaults]
    <2>1. used \in [calls: 0..MaxCalls, faults: 0..MaxFaults]
      BY DEF TypeInv, Counters
    <2>2. \/ used' = used
          \/ used.faults < MaxFaults /\ used' = [used EXCEPT !.faults = used.faults + 1]
      BY DEF QuietStep, GetTenant, CreateKeyGet, GetAccount, CheckItem, Publish, Reply,
             IdsForTenant, NotOwn, LogStep, LogCommand, CountLog, PurgeLog
    <2>3. used.faults < MaxFaults => used.faults + 1 \in 0..MaxFaults
      BY <2>1, Bounds
    <2> QED  BY <2>1, <2>2, <2>3
  <1> QED  BY <1>1, <1>2, <1>3, <1>4 DEF TypeInv, Counters, rows

LEMMA TenantTypes ==
  ASSUME TypeInv, NEW c \in Calls,
         WriteTenant(c) \/ InsertTenant(c) \/ RemoveTenant(c) \/ WriteKey(c)
  PROVE  TypeInv'
  <1>1. CallsFine /\ TablesOK /\ Counters
    BY DEF TypeInv
  <1>2. Quietly(c) /\ CallsFine'
    BY <1>1, TenantWritesQuiet, QuietFine
  <1>3. calls[c] \in Call /\ calls[c].t \in Tenants
    BY <1>1, BusyCall DEF WriteTenant, InsertTenant, RemoveTenant, WriteKey, At
  <1>4. /\ calls[c].codes \in SUBSET Codes /\ calls[c].active \in BOOLEAN
        /\ calls[c].tenantCopy \in TenantRow
    BY <1>3, CallFields
  <1>5. /\ tenants \in [Tenants -> TenantRow] /\ serial \in [Tenants -> TenantRow]
        /\ nextKey \in 1..(MaxKeys + 1)
    BY <1>1 DEF TablesOK, Counters
  <1>6. /\ UNCHANGED <<accounts, messages, events, nextPk, results, used, orphaned>>
        /\ dirty' \subseteq Tenants
    BY <1>1, <1>3 DEF WriteTenant, InsertTenant, RemoveTenant, WriteKey, TouchTenant, Counters
  <1>7. /\ tenants' \in [Tenants -> TenantRow] /\ serial' \in [Tenants -> TenantRow]
        /\ nextKey' \in 1..(MaxKeys + 1)
    <2>1. CASE WriteTenant(c)
      <3>1. \A row \in TenantRow : TenantColumns(calls[c], row) \in TenantRow
        BY <1>4, <2>1, TenantRows DEF WriteTenant, TenantColumns, RecordOps
      <3>2. tenants' \in [Tenants -> TenantRow]
        BY <1>1, <1>3, <1>4, <2>1, <3>1, UpdatesFine DEF WriteTenant
      <3>3. serial' \in [Tenants -> TenantRow]
        BY <1>3, <1>5, <2>1, <3>1 DEF WriteTenant
      <3> QED  BY <1>5, <2>1, <3>2, <3>3 DEF WriteTenant
    <2>2. CASE InsertTenant(c)
      <3>1. AddNew(calls[c].active) \in TenantRow /\ nextKey' \in 1..(MaxKeys + 1)
        BY <1>4, <1>5, <2>2, NewTenant, Bounds DEF InsertTenant
      <3> QED  BY <1>3, <1>5, <2>2, <3>1 DEF InsertTenant
    <2>3. CASE RemoveTenant(c)
      BY <1>3, <1>5, <2>3, Nones DEF RemoveTenant
    <2>4. CASE WriteKey(c)
      <3> DEFINE key == IF calls[c].op = "createKey" THEN nextKey ELSE 0
      <3>1. key \in 0..MaxKeys /\ nextKey' \in 1..(MaxKeys + 1)
        BY <1>5, <2>4, Bounds DEF WriteKey
      <3>2. /\ tenants' = SetApiKey(calls[c].t, key)
            /\ serial' = IF tenants[calls[c].t].there
                         THEN [serial EXCEPT ![calls[c].t].key = key] ELSE serial
        BY <2>4 DEF WriteKey
      <3> HIDE DEF key
      <3>3. tenants' \in [Tenants -> TenantRow]
        BY <1>1, <1>3, <3>1, <3>2, UpdatesFine
      <3>4. [serial[calls[c].t] EXCEPT !.key = key] \in TenantRow
        BY <1>3, <1>5, <3>1 DEF TenantRow
      <3> QED  BY <1>5, <3>1, <3>2, <3>3, <3>4
    <2> QED  BY <2>1, <2>2, <2>3, <2>4
  <1> QED  BY <1>1, <1>2, <1>6, <1>7 DEF TypeInv, TablesOK, Counters

\* The other steps of calls that write to no tenant.
OtherStep(c) ==
    \/ SelectTenant(c) \/ RemoveMessages(c) \/ RemoveAccounts(c)
    \/ SelectAccount(c) \/ WriteAccount(c) \/ RemoveAccount(c)
    \/ Resolve(c) \/ LookupMessage(c) \/ InsertMessage(c) \/ SelectMessage(c)
    \/ StoreMessage(c) \/ RefusedEvent(c) \/ MarkRefused(c)
    \/ GetMessage(c) \/ RemoveMessage(c) \/ Cleanup(c)

LEMMA OtherCalls ==
  ASSUME CallsFine, TablesOK, NEW c \in Calls, OtherStep(c)
  PROVE  CallsFine'
  <1>1. ASSUME NEW new, Puts(c, new), Fits(calls[c], new)
        PROVE  CallsFine'
    BY <1>1, PutsFine DEF Fits
  <1>2. SelectTenant(c) => CallsFine'
    BY <1>1, SelectTenantMoves
  <1>3. RemoveMessages(c) \/ RemoveAccounts(c) \/ RefusedEvent(c) => CallsFine'
    BY <1>1, GoToMoves DEF Moves
  <1>4. SelectAccount(c) => CallsFine'
    BY <1>1, SelectAccountMoves
  <1>5. ASSUME \/ WriteAccount(c) \/ RemoveAccount(c) \/ StoreMessage(c) \/ MarkRefused(c)
               \/ RemoveMessage(c) \/ Cleanup(c)
        PROVE  CallsFine'
    BY <1>5, OtherWritesQuiet, QuietFine
  <1>6. Resolve(c) => CallsFine'
    BY <1>1, ResolveMoves
  <1>7. LookupMessage(c) => CallsFine'
    BY <1>1, LookupMoves, QuietFine
  <1>8. InsertMessage(c) => CallsFine'
    BY <1>1, InsertMoves, QuietFine
  <1>9. SelectMessage(c) => CallsFine'
    BY <1>1, SelectMessageMoves
  <1>10. GetMessage(c) => CallsFine'
    BY <1>1, GetMessageMoves, QuietFine
  <1> QED  BY <1>2, <1>3, <1>4, <1>5, <1>6, <1>7, <1>8, <1>9, <1>10 DEF OtherStep

LEMMA OtherTables ==
  ASSUME TypeInv, NEW c \in Calls, OtherStep(c)
  PROVE  TablesOK'
  <1>1. CallsFine /\ TablesOK
    BY DEF TypeInv
  <1>2. UNCHANGED <<tenants, nextKey>>
    BY DEF OtherStep, SelectTenant, RemoveMessages, RemoveAccounts, SelectAccount, WriteAccount,
           RemoveAccount, Resolve, LookupMessage, InsertMessage, SelectMessage, StoreMessage,
           RefusedEvent, MarkRefused, GetMessage, RemoveMessage, Cleanup, tables
  <1>3. ASSUME UNCHANGED <<accounts, events, nextPk>>, messages' \in [MessageKeys -> MessageRow]
        PROVE  TablesOK'
    BY <1>1, <1>2, <1>3 DEF TablesOK
  <1>4. ASSUME UNCHANGED tables
        PROVE  TablesOK'
    BY <1>1, <1>4 DEF TablesOK, tables
  <1>5. ASSUME UNCHANGED <<messages, events, nextPk>>, accounts' \in [AccountKeys -> AccountRow]
        PROVE  TablesOK'
    BY <1>1, <1>2, <1>5 DEF TablesOK
  <1>6. CASE SelectTenant(c) \/ SelectAccount(c) \/ Resolve(c) \/ LookupMessage(c)
             \/ SelectMessage(c) \/ GetMessage(c)
    BY <1>4, <1>6 DEF SelectTenant, SelectAccount, Resolve, LookupMessage, SelectMessage, GetMessage
  <1>7. CASE RemoveMessages(c) \/ RemoveMessage(c) \/ Cleanup(c)
    BY <1>1, <1>3, <1>7, DeletesFine DEF RemoveMessages, RemoveMessage, Cleanup, RemoveByPk
  <1>8. CASE RemoveAccounts(c) \/ RemoveAccount(c)
    BY <1>1, <1>5, <1>8, DeletesFine DEF RemoveAccounts, RemoveAccount
  <1>9. CASE WriteAccount(c)
    <2> DEFINE call == calls[c]
               row == AddAccountColumns(call.accountCopy, call.op = "addPecAccount")
    <2>1. /\ call \in Call /\ call.t \in Tenants /\ Shape(call)
          /\ call.op \in {"addAccount", "addPecAccount"}
      BY <1>1, <1>9, BusyCall DEF WriteAccount
    <2>2. call.a \in AccountIds /\ call.accountCopy \in AccountRow
      BY <2>1, CallFields DEF Shape, AccountOps
    <2>3. /\ row.pk <= MaxPk /\ nextPk \in 1..(MaxPk + 1)
          /\ row.pk = IF call.accountCopy.pk = 0 THEN nextPk ELSE call.accountCopy.pk
          /\ row.pec = (call.op = "addPecAccount")
          /\ nextPk' = IF call.accountCopy.pk = 0 THEN nextPk + 1 ELSE nextPk
      BY <1>1, <1>9 DEF WriteAccount, AddAccountColumns, TablesOK
    <2>4. call.accountCopy.pk \in 0..MaxPk
      BY <2>2 DEF AccountRow
    <2>5. row.pk \in 0..MaxPk /\ nextPk' \in 1..(MaxPk + 1)
      BY <2>3, <2>4, Bounds
    <2>6. row \in AccountRow
      BY <2>3, <2>5 DEF AddAccountColumns, AccountRow
    <2>7. accounts' \in [AccountKeys -> AccountRow]
      <3>1. <<call.t, call.a>> \in AccountKeys
        BY <2>1, <2>2 DEF AccountKeys
      <3>2. accounts' = accounts \/ accounts' = [accounts EXCEPT ![<<call.t, call.a>>] = row]
        BY <1>9 DEF WriteAccount
      <3> HIDE DEF row
      <3> QED  BY <1>1, <2>6, <3>1, <3>2 DEF TablesOK
    <2>8. messages' = messages /\ events' = events
      BY <1>9 DEF WriteAccount
    <2> QED  BY <1>1, <1>2, <2>5, <2>7, <2>8 DEF TablesOK
  <1>10. CASE InsertMessage(c)
    <2>1. calls[c] \in Call /\ Shape(calls[c]) /\ calls[c].pc \in BatchPcs
      BY <1>1, <1>10, BusyCall DEF InsertMessage, BatchPcs
    <2>2. nextPk \in 1..MaxPk /\ nextPk \in 0..MaxPk /\ nextPk' \in 1..(MaxPk + 1)
      BY <1>1, <1>10, Bounds DEF InsertMessage, TablesOK
    <2>3. [NoMessage EXCEPT !.pk = nextPk] \in MessageRow
      BY <2>2, Nones DEF MessageRow
    <2>4. PendingColumns([NoMessage EXCEPT !.pk = nextPk], calls[c].account,
                         Head(calls[c].batch).form, calls[c].pec) \in MessageRow
      BY <1>1, <2>1, <2>3, BatchKey, UpdatesFine, CallFields
    <2>5. messages' \in [MessageKeys -> MessageRow]
      BY <1>1, <1>10, <2>1, <2>4, BatchKey DEF InsertMessage, TablesOK
    <2>6. accounts' = accounts /\ events' = events
      BY <1>10 DEF InsertMessage
    <2> QED  BY <1>1, <1>2, <2>2, <2>5, <2>6 DEF TablesOK
  <1>11. CASE StoreMessage(c)
    <2>1. calls[c] \in Call /\ Shape(calls[c]) /\ calls[c].pc \in BatchPcs
      BY <1>1, <1>11, BusyCall DEF StoreMessage, BatchPcs
    <2>2. PendingColumns(calls[c].messageCopy, calls[c].account,
                         Head(calls[c].batch).form, calls[c].pec) \in MessageRow
      BY <1>1, <2>1, BatchKey, UpdatesFine, CallFields
    <2>3. messages' \in [MessageKeys -> MessageRow]
      BY <1>1, <1>11, <2>1, <2>2, BatchKey, UpdatesFine DEF StoreMessage
    <2> QED  BY <1>3, <1>11, <2>3 DEF StoreMessage
  <1>12. CASE RefusedEvent(c)
    <2>1. calls[c] \in Call /\ Shape(calls[c]) /\ calls[c].pc = "event"
      BY <1>1, <1>12, BusyCall DEF RefusedEvent
    <2>2. calls[c].pk \in 1..MaxPk
      BY <2>1, CallFields, Bounds DEF Shape, MarkPcs
    <2>3. events' \in [1..MaxPk -> EventRows]
      BY <1>1, <1>12, <2>2, UpdatesFine DEF RefusedEvent
    <2> QED  BY <1>1, <1>2, <1>12, <2>3 DEF TablesOK, RefusedEvent
  <1>13. CASE MarkRefused(c)
    <2>1. calls[c] \in Call /\ Shape(calls[c]) /\ calls[c].pc \in BatchPcs
      BY <1>1, <1>13, BusyCall DEF MarkRefused, BatchPcs, MarkPcs
    <2>2. [calls[c].messageCopy EXCEPT !.done = TRUE] \in MessageRow
      BY <2>1, CallFields DEF MessageRow
    <2>3. messages' \in [MessageKeys -> MessageRow]
      BY <1>1, <1>13, <2>1, <2>2, BatchKey, UpdatesFine DEF MarkRefused
    <2> QED  BY <1>3, <1>13, <2>3 DEF MarkRefused
  <1> QED  BY <1>6, <1>7, <1>8, <1>9, <1>10, <1>11, <1>12, <1>13 DEF OtherStep

LEMMA OtherTypes ==
  ASSUME TypeInv, NEW c \in Calls, OtherStep(c)
  PROVE  TypeInv' /\ UNCHANGED <<tenants, serial, dirty, orphaned>>
  <1>1. UNCHANGED <<tenants, results, used, serial, dirty, orphaned>>
    BY DEF OtherStep, SelectTenant, RemoveMessages, RemoveAccounts, SelectAccount, WriteAccount,
           RemoveAccount, Resolve, LookupMessage, InsertMessage, SelectMessage, StoreMessage,
           RefusedEvent, MarkRefused, GetMessage, RemoveMessage, Cleanup, tables, history
  <1> QED  BY <1>1, OtherCalls, OtherTables DEF TypeInv, Counters

LEMMA ProxyTypes ==
  ASSUME TypeInv,
         \/ \E k \in MessageKeys : Deliver(k)
         \/ \E pk \in 1..MaxPk : Report(pk)
         \/ ReadResult \/ Crash
  PROVE  TypeInv'
  <1>1. TablesOK /\ CallsFine /\ Counters
    BY DEF TypeInv
  <1>2. CASE \E k \in MessageKeys : Deliver(k)
    <2>1. PICK k \in MessageKeys : Deliver(k)
      BY <1>2
    <2>2. messages[k] \in MessageRow /\ messages[k].pk \in 0..MaxPk /\ messages[k].pk # 0
      BY <1>1, <2>1 DEF TablesOK, MessageRow, Deliver
    <2>3. messages[k].pk \in 1..MaxPk
      BY <2>2, Bounds
    <2>4. [messages[k] EXCEPT !.done = TRUE] \in MessageRow
      BY <2>2 DEF MessageRow
    <2>5. messages' \in [MessageKeys -> MessageRow]
      BY <1>1, <2>1, <2>4 DEF Deliver, TablesOK
    <2>6. events' \in [1..MaxPk -> EventRows]
      BY <1>1, <2>1, <2>3, UpdatesFine DEF Deliver
    <2>7. results' \in 0..QueueSize
      BY <1>1, <2>1, Bounds DEF Deliver, Counters
    <2>8. UNCHANGED <<tenants, accounts, nextPk, nextKey, calls, used, serial, dirty, orphaned>>
      BY <2>1 DEF Deliver, history
    <2> QED  BY <1>1, <2>5, <2>6, <2>7, <2>8 DEF TypeInv, TablesOK, CallsFine, Busy, Counters
  <1>3. CASE \E pk \in 1..MaxPk : Report(pk)
    <2>1. PICK pk \in 1..MaxPk : Report(pk)
      BY <1>3
    <2>2. [events[pk] EXCEPT !.told = "yes"] \in EventRows
      BY <1>1 DEF TablesOK, EventRows
    <2>3. events' \in [1..MaxPk -> EventRows]
      BY <1>1, <2>1, <2>2 DEF Report, TablesOK
    <2>4. UNCHANGED <<tenants, accounts, messages, nextPk, nextKey, calls, results, used, serial,
                      dirty, orphaned>>
      BY <2>1 DEF Report, history
    <2> QED  BY <1>1, <2>3, <2>4 DEF TypeInv, TablesOK, CallsFine, Busy, Counters
  <1>4. CASE ReadResult
    <2>1. results' \in 0..QueueSize
      BY <1>1, <1>4, Bounds DEF ReadResult, Counters
    <2>2. UNCHANGED <<tables, calls, used, serial, dirty, orphaned>>
      BY <1>4 DEF ReadResult, history
    <2> QED  BY <1>1, <2>1, <2>2 DEF TypeInv, TablesOK, CallsFine, Busy, Counters, tables
  <1>5. CASE Crash
    <2>1. results' \in 0..QueueSize /\ used' \in [calls: 0..MaxCalls, faults: 0..MaxFaults]
      <3>1. used \in [calls: 0..MaxCalls, faults: 0..MaxFaults] /\ used.faults < MaxFaults
        BY <1>1, <1>5 DEF Counters, Crash
      <3>2. used.faults + 1 \in 0..MaxFaults /\ 0 \in 0..QueueSize
        BY <3>1, Bounds
      <3> QED  BY <1>5, <3>1, <3>2 DEF Crash
    <2>2. CallsFine'
      BY <1>5 DEF Crash, CallsFine, Busy, IdleCall
    <2>3. UNCHANGED <<tables, serial, dirty, orphaned>>
      BY <1>5 DEF Crash
    <2> QED  BY <1>1, <2>1, <2>2, <2>3 DEF TypeInv, TablesOK, Counters, tables
  <1> QED  BY <1>2, <1>3, <1>4, <1>5

\* The steps of Next, grouped.
LEMMA Steps ==
  ASSUME [Next]_vars
  PROVE  \/ \E c \in Calls, t \in Tenants : Request(c, t)
         \/ \E c \in Calls : QuietStep(c)
         \/ \E c \in Calls : WriteTenant(c) \/ InsertTenant(c) \/ RemoveTenant(c) \/ WriteKey(c)
         \/ \E c \in Calls : OtherStep(c)
         \/ \E k \in MessageKeys : Deliver(k)
         \/ \E pk \in 1..MaxPk : Report(pk)
         \/ ReadResult \/ Crash
         \/ UNCHANGED vars
  <1>1. ASSUME NEW c \in Calls, CallStep(c)
        PROVE  \/ QuietStep(c) \/ OtherStep(c)
               \/ WriteTenant(c) \/ InsertTenant(c) \/ RemoveTenant(c) \/ WriteKey(c)
    BY <1>1 DEF CallStep, TenantStep, AccountStep, AddStep, RemoveStep, QuietStep, OtherStep
  <1> QED  BY <1>1 DEF Next

LEMMA TypeStep ==
  ASSUME TypeInv, [Next]_vars
  PROVE  TypeInv'
  <1>1. CASE UNCHANGED vars
    BY <1>1 DEF vars, tables, history, TypeInv, TablesOK, CallsFine, Busy, Counters
  <1> QED  BY <1>1, Steps, RequestTypes, QuietTypes, TenantTypes, OtherTypes, ProxyTypes

\* A call in progress has the fields that its next steps read.
THEOREM SpecTypes == Spec => []TypeInv
  <1>1. Init => TypeInv
    BY InitTypes
  <1>2. TypeInv /\ [Next]_vars => TypeInv'
    BY TypeStep
  <1> QED  BY <1>1, <1>2, PTL DEF Spec

\* TypeOK: rows, keys and counters stay in their ranges, and what a call in
\* progress has read is a row.
THEOREM TypesHold == Spec => []TypeOK
  <1>1. TypeInv => TypeOK
    <2>1. ASSUME CallsFine, NEW c \in Calls, Busy(c)
          PROVE  /\ calls[c].t \in Tenants /\ calls[c].tenantCopy \in TenantRow
                 /\ calls[c].accountCopy \in AccountRow /\ calls[c].messageCopy \in MessageRow
      BY <2>1, CallFields DEF CallsFine
    <2> QED  BY <2>1 DEF TypeInv, Counters, TypeOK, CallTypes
  <1> QED  BY <1>1, SpecTypes, PTL

-----------------------------------------------------------------------------
(* The inductive invariants.                                               *)

\* No one else has written the row of a tenant since a call that will write
\* it back has read it.
CopiesFresh ==
    \A t \in Tenants \ dirty :
        /\ tenants[t] = serial[t]
        /\ \A c \in Calls :
              /\ Busy(c) /\ calls[c].t = t /\ calls[c].pc = "write"
              /\ calls[c].op \in RecordOps \cup {"addTenant"}
              /\ calls[c].tenantCopy.there
              => calls[c].tenantCopy = tenants[t]

\* Calls for a tenant do not overlap its removal, and find it there; what the
\* removal has passed stays empty.
RemovalAlone ==
    \A t \in Tenants \ orphaned :
        /\ ~tenants[t].there => AccountsOf(t) = {} /\ MessagesOf(t) = {}
        /\ \A c \in Calls : Busy(c) /\ calls[c].t = t =>
              /\ tenants[t].there \/ (calls[c].op = "deleteTenant" /\ calls[c].pc = "log")
              /\ calls[c].op = "deleteTenant" =>
                    /\ Others(c, t) = {}
                    /\ calls[c].pc \in {"accounts", "tenant"} => MessagesOf(t) = {}
                    /\ calls[c].pc = "tenant" => AccountsOf(t) = {}

Told(pk) == pk \in 1..MaxPk /\ events[pk].told # "none"

\* A call that is about to settle a row has stored an event for it.
SettledTold ==
    /\ \A k \in MessageKeys : messages[k].pk # 0 /\ messages[k].done => Told(messages[k].pk)
    /\ \A c \in Calls : Busy(c) =>
          /\ calls[c].messageCopy.pk # 0 /\ calls[c].messageCopy.done
             => Told(calls[c].messageCopy.pk)
          /\ calls[c].pc \in {"selectMark", "mark"} => Told(calls[c].pk)
          /\ calls[c].pc = "mark" => calls[c].messageCopy.pk \in {0, calls[c].pk}

\* Every key drawn so far, below n, is for one tenant, its owner: the tenant of
\* the rows that hold it, and of the calls that do, but for a REST delete.
Owned(owner, n, t, pk) == pk # 0 => pk < n /\ owner[pk] = t

CallOwned(owner, n, call) ==
    /\ call.op # "delete" => Owned(owner, n, call.t, call.pk)
    /\ Owned(owner, n, call.t, call.account)
    /\ Owned(owner, n, call.t, call.accountCopy.pk)
    /\ Owned(owner, n, call.t, call.messageCopy.pk)
    /\ Owned(owner, n, call.t, call.messageCopy.account)

AccountsOwned(owner, n, table) == \A k \in AccountKeys : Owned(owner, n, k[1], table[k].pk)
MessagesOwned(owner, n, table) ==
    \A k \in MessageKeys :
        Owned(owner, n, k[1], table[k].pk) /\ Owned(owner, n, k[1], table[k].account)

Owns(owner) ==
    /\ AccountsOwned(owner, nextPk, accounts) /\ MessagesOwned(owner, nextPk, messages)
    /\ \A c \in Calls : Busy(c) => CallOwned(owner, nextPk, calls[c])

KeysOwned == \E owner : Owns(owner)

-----------------------------------------------------------------------------
(* What a tenant's commands make of its row.                               *)

WritesBack(call) == call.pc = "write" /\ call.op \in RecordOps \cup {"addTenant"}

LEMMA FreshKept ==
  ASSUME CopiesFresh, CallsFine, NEW c \in Calls, NEW new, Puts(c, new),
         WritesBack(new) => new.tenantCopy = tenants[new.t],
         UNCHANGED <<tenants, serial, dirty>>
  PROVE  CopiesFresh'
  <1>1. \A d \in Calls : calls'[d] = IF d = c THEN new ELSE calls[d]
    BY DEF CallsFine, Puts
  <1>2. ASSUME NEW t \in Tenants \ dirty, NEW d \in Calls, calls'[d].t = t, WritesBack(calls'[d]),
               calls'[d].tenantCopy.there
        PROVE  calls'[d].tenantCopy = tenants[t]
    <2>1. CASE d = c
      BY <1>1, <1>2, <2>1
    <2>2. CASE d # c
      BY <1>1, <1>2, <2>2 DEF CopiesFresh, WritesBack, Busy
    <2> QED  BY <2>1, <2>2
  <1> QED  BY <1>2 DEF CopiesFresh, WritesBack

LEMMA QuietNoCopy ==
  ASSUME NEW c \in Calls, Quietly(c)
  PROVE  \E new : Puts(c, new) /\ ~WritesBack(new)
  BY DEF Quietly, WritesBack, LoudPcs, IdleCall

LEMMA FreshTenant ==
  ASSUME TypeInv, CopiesFresh, NEW c \in Calls,
         WriteTenant(c) \/ InsertTenant(c) \/ RemoveTenant(c) \/ WriteKey(c)
  PROVE  CopiesFresh'
  <1> DEFINE u == calls[c].t
  <1>1. /\ tenants \in [Tenants -> TenantRow] /\ serial \in [Tenants -> TenantRow]
        /\ CallsFine /\ TablesOK
    BY DEF TypeInv, TablesOK, Counters
  <1>2. u \in Tenants /\ Busy(c)
    BY <1>1, BusyCall DEF WriteTenant, InsertTenant, RemoveTenant, WriteKey, At
  <1>3. PICK new : Puts(c, new) /\ ~WritesBack(new)
    BY <1>1, TenantWritesQuiet, QuietNoCopy
  <1>4. \A d \in Calls : calls'[d] = IF d = c THEN new ELSE calls[d]
    BY <1>1, <1>3 DEF CallsFine, Puts
  <1>5. /\ dirty \subseteq dirty'
        /\ \A d \in Calls \ {c} : Busy(d) /\ calls[d].t = u /\ calls[d].tenantCopy.there => u \in dirty'
    BY DEF WriteTenant, InsertTenant, RemoveTenant, WriteKey, TouchTenant, Others
  <1>6. \A t \in Tenants \ {u} : tenants'[t] = tenants[t] /\ serial'[t] = serial[t]
    <2>1. CASE WriteTenant(c)
      BY <1>1, <1>2, <2>1 DEF WriteTenant, UpdateTenant
    <2>2. CASE InsertTenant(c)
      BY <1>1, <1>2, <2>2 DEF InsertTenant
    <2>3. CASE RemoveTenant(c)
      BY <1>1, <1>2, <2>3 DEF RemoveTenant
    <2>4. CASE WriteKey(c)
      BY <1>1, <1>2, <2>4 DEF WriteKey, SetApiKey
    <2> QED  BY <2>1, <2>2, <2>3, <2>4
  <1>7. u \notin dirty => tenants'[u] = serial'[u]
    <2> SUFFICES ASSUME u \notin dirty PROVE tenants'[u] = serial'[u]
      OBVIOUS
    <2>0. tenants[u] = serial[u]
      BY <1>2 DEF CopiesFresh
    <2>1. CASE WriteTenant(c)
      <3>1. calls[c].tenantCopy.there => calls[c].tenantCopy = tenants[u]
        BY <1>2, <2>1 DEF CopiesFresh, WriteTenant
      <3>2. CASE calls[c].tenantCopy.there /\ tenants[u].there
        <4> DEFINE row == TenantColumns(calls[c], tenants[u])
        <4>1. serial' = [serial EXCEPT ![u] = row] /\ tenants' = UpdateTenant(u, row)
          BY <2>0, <2>1, <3>1, <3>2 DEF WriteTenant
        <4>2. row.there
          BY <1>1, <1>2, <2>1, <3>2
             DEF WriteTenant, RecordOps, TenantColumns, SuspendBatch, ActivateBatch,
                 UpdateFields, AddExisting, TenantRow
        <4> HIDE DEF row
        <4> QED  BY <1>1, <1>2, <3>2, <4>1, <4>2 DEF UpdateTenant
      <3>3. CASE ~(calls[c].tenantCopy.there /\ tenants[u].there)
        <4>1. ~calls[c].tenantCopy.there
          BY <3>1, <3>3
        <4>2. serial' = serial
          BY <2>1, <4>1 DEF WriteTenant
        <4>3. TenantColumns(calls[c], calls[c].tenantCopy).there = FALSE
          <5>1. calls[c].tenantCopy \in TenantRow
            BY <1>1, <2>1, BusyCall, CallFields DEF WriteTenant
          <5>2. calls[c].tenantCopy.there = FALSE
            BY <4>1, <5>1 DEF TenantRow
          <5> QED  BY <2>1, <5>1, <5>2
                   DEF WriteTenant, RecordOps, TenantColumns, SuspendBatch, ActivateBatch,
                       UpdateFields, AddExisting, TenantRow
        <4>4. tenants' = tenants
          BY <2>1, <4>3 DEF WriteTenant, UpdateTenant
        <4> QED  BY <2>0, <4>2, <4>4
      <3> QED  BY <3>2, <3>3
    <2>2. CASE InsertTenant(c)
      BY <1>1, <1>2, <2>0, <2>2 DEF InsertTenant
    <2>3. CASE RemoveTenant(c)
      BY <1>1, <1>2, <2>3 DEF RemoveTenant
    <2>4. CASE WriteKey(c)
      BY <1>1, <1>2, <2>0, <2>4 DEF WriteKey, SetApiKey
    <2> QED  BY <2>1, <2>2, <2>3, <2>4
  <1>8. ASSUME NEW t \in Tenants \ dirty', NEW d \in Calls, calls'[d].t = t, WritesBack(calls'[d]),
               calls'[d].tenantCopy.there
        PROVE  calls'[d].tenantCopy = tenants'[t]
    <2>1. d # c /\ calls'[d] = calls[d] /\ Busy(d)
      BY <1>3, <1>4, <1>8 DEF WritesBack, Busy
    <2>2. t # u /\ t \notin dirty
      BY <1>5, <1>8, <2>1
    <2> QED  BY <1>6, <1>8, <2>1, <2>2 DEF CopiesFresh, WritesBack
  <1> QED  BY <1>5, <1>6, <1>7, <1>8 DEF CopiesFresh, WritesBack

LEMMA FreshOther ==
  ASSUME TypeInv, CopiesFresh, NEW c \in Calls, OtherStep(c)
  PROVE  CopiesFresh'
  <1>0. CallsFine /\ TablesOK /\ UNCHANGED <<tenants, serial, dirty>>
    BY OtherTypes DEF TypeInv
  <1>1. ASSUME NEW new, Puts(c, new), WritesBack(new) => new.tenantCopy = tenants[new.t]
        PROVE  CopiesFresh'
    BY <1>0, <1>1, FreshKept
  <1>2. Quietly(c) => CopiesFresh'
    BY <1>1, QuietNoCopy
  <1>3. ASSUME SelectTenant(c) PROVE CopiesFresh'
    <2>1. PICK new : Puts(c, new) /\ Fits(calls[c], new) /\ new.tenantCopy = tenants[calls[c].t]
      BY <1>0, <1>3, SelectTenantMoves
    <2> QED  BY <1>1, <2>1 DEF Fits
  <1>4. RemoveMessages(c) \/ RemoveAccounts(c) \/ RefusedEvent(c) => CopiesFresh'
    BY <1>0, <1>1, GoToMoves DEF Moves, WritesBack
  <1>5. ASSUME SelectAccount(c) PROVE CopiesFresh'
    <2>1. PICK new : Puts(c, new) /\ Fits(calls[c], new)
      BY <1>0, <1>5, SelectAccountMoves
    <2>2. ~WritesBack(new)
      BY <1>5, <2>1 DEF SelectAccount, Fits, WritesBack, RecordOps
    <2> QED  BY <1>1, <2>1, <2>2
  <1>6. ASSUME \/ WriteAccount(c) \/ RemoveAccount(c) \/ StoreMessage(c) \/ MarkRefused(c)
               \/ RemoveMessage(c) \/ Cleanup(c)
        PROVE  CopiesFresh'
    BY <1>0, <1>2, <1>6, OtherWritesQuiet
  <1>7. Resolve(c) => CopiesFresh'
    BY <1>0, <1>1, ResolveMoves DEF WritesBack
  <1>8. LookupMessage(c) => CopiesFresh'
    BY <1>0, <1>1, <1>2, LookupMoves DEF WritesBack
  <1>9. InsertMessage(c) => CopiesFresh'
    BY <1>0, <1>1, <1>2, InsertMoves DEF WritesBack
  <1>10. SelectMessage(c) => CopiesFresh'
    BY <1>0, <1>1, SelectMessageMoves DEF WritesBack
  <1>11. GetMessage(c) => CopiesFresh'
    BY <1>0, <1>1, <1>2, GetMessageMoves DEF WritesBack
  <1> QED  BY <1>3, <1>4, <1>5, <1>6, <1>7, <1>8, <1>9, <1>10, <1>11 DEF OtherStep

LEMMA FreshStep ==
  ASSUME TypeInv, CopiesFresh, [Next]_vars
  PROVE  CopiesFresh'
  <1>1. CallsFine /\ TablesOK
    BY DEF TypeInv
  <1>2. ASSUME NEW c \in Calls, NEW t \in Tenants, Request(c, t)
        PROVE  CopiesFresh'
    <2>1. PICK new : Begin(c, new) /\ Fresh(new)
      BY <1>1, <1>2, RequestBegins
    <2>2. Puts(c, new) /\ ~WritesBack(new) /\ UNCHANGED <<tenants, serial, dirty>>
      BY <2>1 DEF Begin, Puts, Fresh, WritesBack, LoudPcs, tables
    <2> QED  BY <1>1, <2>2, FreshKept
  <1>3. ASSUME NEW c \in Calls, QuietStep(c)
        PROVE  CopiesFresh'
    <2>1. Quietly(c) /\ UNCHANGED rows
      BY <1>3, QuietSteps
    <2> QED  BY <1>1, <2>1, QuietNoCopy, FreshKept DEF rows
  <1>4. ASSUME UNCHANGED <<tenants, serial, dirty, calls>>
        PROVE  CopiesFresh'
    BY <1>4 DEF CopiesFresh, Busy
  <1>5. (\E k \in MessageKeys : Deliver(k)) => CopiesFresh'
    BY <1>4 DEF Deliver, history
  <1>6. (\E pk \in 1..MaxPk : Report(pk)) => CopiesFresh'
    BY <1>4 DEF Report, history
  <1>7. ReadResult => CopiesFresh'
    BY <1>4 DEF ReadResult, history, tables
  <1>8. Crash => CopiesFresh'
    BY DEF Crash, CopiesFresh, Busy, IdleCall, tables
  <1>9. UNCHANGED vars => CopiesFresh'
    BY <1>4 DEF vars, history, tables
  <1> QED  BY <1>2, <1>3, <1>5, <1>6, <1>7, <1>8, <1>9, FreshTenant, FreshOther, Steps

\* TenantRowIsSerial: a suspension, a key or a field that one command has set
\* is not undone by another, unless a record() section of the two overlapped:
\* for any number of tenants, tasks and commands.
THEOREM TenantRowsSerial == Spec => []TenantRowIsSerial
  <1>1. Init => CopiesFresh
    BY DEF Init, CopiesFresh, Busy, IdleCall
  <1>2. TypeInv /\ CopiesFresh /\ [Next]_vars => CopiesFresh'
    BY FreshStep
  <1>3. CopiesFresh => TenantRowIsSerial
    BY DEF CopiesFresh, TenantRowIsSerial
  <1> QED  BY <1>1, <1>2, <1>3, SpecTypes, PTL DEF Spec

-----------------------------------------------------------------------------
(* What a removal leaves.                                                  *)

NoAccounts(t) == \A k \in AccountKeys : k[1] = t => accounts[k].pk = 0
NoMessages(t) == \A k \in MessageKeys : k[1] = t => messages[k].pk = 0

LEMMA Emptiness ==
  /\ \A t \in Tenants : AccountsOf(t) = {} <=> NoAccounts(t)
  /\ \A t \in Tenants : MessagesOf(t) = {} <=> NoMessages(t)
  BY DEF AccountsOf, MessagesOf, NoAccounts, NoMessages

\* RemovalAlone, said with each row and each pair of calls.
Alone(t) ==
    /\ ~tenants[t].there => NoAccounts(t) /\ NoMessages(t)
    /\ \A c \in Calls : Busy(c) /\ calls[c].t = t =>
          /\ tenants[t].there \/ (calls[c].op = "deleteTenant" /\ calls[c].pc = "log")
          /\ calls[c].op = "deleteTenant" =>
                /\ \A d \in Calls : Busy(d) /\ calls[d].t = t => d = c
                /\ calls[c].pc \in {"accounts", "tenant"} => NoMessages(t)
                /\ calls[c].pc = "tenant" => NoAccounts(t)

LEMMA AloneMeans == RemovalAlone <=> \A t \in Tenants \ orphaned : Alone(t)
  BY Emptiness DEF RemovalAlone, Alone, Others

\* What a removal may have passed, and what its next steps count on.
Passed(new) ==
    /\ new.pc \in {"accounts", "tenant"} => NoMessages(new.t)
    /\ new.pc = "tenant" => NoAccounts(new.t)

LEMMA AloneKept ==
  ASSUME CallsFine, NEW c \in Calls, Busy(c), NEW new, Puts(c, new),
         calls[c].pc # "log" \/ new = IdleCall,
         new = IdleCall \/ Fits(calls[c], new),
         UNCHANGED tenants, NEW t \in Tenants, Alone(t),
         new.op = "deleteTenant" /\ new.t = t => Passed(new)',
         \/ NoAccounts(t) => NoAccounts(t)'
         \/ calls[c].t = t /\ calls[c].op # "deleteTenant",
         \/ NoMessages(t) => NoMessages(t)'
         \/ calls[c].t = t /\ calls[c].op # "deleteTenant"
  PROVE  Alone(t)'
  <1>1. \A d \in Calls : calls'[d] = IF d = c THEN new ELSE calls[d]
    BY DEF CallsFine, Puts
  <1>2. \A d \in Calls : Busy(d)' => Busy(d) /\ calls'[d].t = calls[d].t /\ calls'[d].op = calls[d].op
    BY <1>1 DEF Busy, Fits, IdleCall
  <1>3. CASE calls[c].t = t /\ calls[c].op # "deleteTenant"
    <2>1. tenants[t].there
      BY <1>3 DEF Alone
    <2>2. \A d \in Calls : Busy(d) /\ calls[d].t = t => calls[d].op # "deleteTenant"
      BY <1>3 DEF Alone
    <2> QED  BY <1>2, <2>1, <2>2 DEF Alone
  <1>4. CASE ~(calls[c].t = t /\ calls[c].op # "deleteTenant")
    <2>1. (NoAccounts(t) => NoAccounts(t)') /\ (NoMessages(t) => NoMessages(t)')
      BY <1>4
    <2>2. ASSUME NEW d \in Calls, Busy(d)', calls'[d].t = t
          PROVE  /\ tenants[t].there \/ (calls'[d].op = "deleteTenant" /\ calls'[d].pc = "log")
                 /\ calls'[d].op = "deleteTenant" =>
                       /\ \A e \in Calls : Busy(e)' /\ calls'[e].t = t => e = d
                       /\ calls'[d].pc \in {"accounts", "tenant"} => NoMessages(t)'
                       /\ calls'[d].pc = "tenant" => NoAccounts(t)'
      <3>1. Busy(d) /\ calls[d].t = t /\ calls'[d].op = calls[d].op
        BY <1>2, <2>2
      <3>2. tenants[t].there \/ (calls'[d].op = "deleteTenant" /\ calls'[d].pc = "log")
        BY <1>1, <2>2, <3>1 DEF Alone, Busy, IdleCall
      <3>3. calls'[d].op = "deleteTenant" => \A e \in Calls : Busy(e)' /\ calls'[e].t = t => e = d
        BY <1>2, <3>1 DEF Alone
      <3>4. ASSUME calls'[d].op = "deleteTenant"
            PROVE  /\ calls'[d].pc \in {"accounts", "tenant"} => NoMessages(t)'
                   /\ calls'[d].pc = "tenant" => NoAccounts(t)'
        <4>1. CASE d = c
          <5>1. calls'[d] = new /\ Passed(new)' /\ new.t = t
            BY <1>1, <2>2, <3>4, <4>1
          <5> QED  BY <5>1 DEF Passed
        <4>2. CASE d # c
          BY <1>1, <2>1, <3>1, <3>4, <4>2 DEF Alone
        <4> QED  BY <4>1, <4>2
      <3> QED  BY <3>2, <3>3, <3>4
    <2> QED  BY <2>1, <2>2 DEF Alone
  <1> QED  BY <1>3, <1>4

LEMMA UpdateKeepsPk ==
  ASSUME TablesOK, NEW k \in MessageKeys, NEW row
  PROVE  \A x \in MessageKeys : UpdateMessage(k, row)[x].pk = messages[x].pk
  BY DEF UpdateMessage, TablesOK

LEMMA DeletesEmpty ==
  ASSUME TablesOK, NEW keys
  PROVE  /\ \A x \in MessageKeys : messages[x].pk = 0 \/ x \in keys => DeleteMessages(keys)[x].pk = 0
         /\ \A x \in AccountKeys : accounts[x].pk = 0 \/ x \in keys => DeleteAccounts(keys)[x].pk = 0
  BY DEF DeleteMessages, DeleteAccounts, NoMessage, NoAccount

\* A call that ends, or that goes on to no step of a removal.
LEMMA QuietPasses ==
  ASSUME NEW c \in Calls, Quietly(c)
  PROVE  \E new : /\ Puts(c, new) /\ (new = IdleCall \/ Fits(calls[c], new))
                  /\ new.pc \notin {"accounts", "tenant"}
  BY DEF Quietly, LoudPcs, IdleCall

LEMMA AloneOther ==
  ASSUME TypeInv, NEW c \in Calls, OtherStep(c), NEW t \in Tenants, Alone(t)
  PROVE  Alone(t)'
  <1>0. CallsFine /\ TablesOK /\ UNCHANGED tenants
    BY OtherTypes DEF TypeInv
  <1>1. Busy(c) /\ calls[c].pc # "log" /\ calls[c].t \in Tenants /\ calls[c] \in Call /\ Shape(calls[c])
    BY <1>0, BusyCall
       DEF OtherStep, SelectTenant, RemoveMessages, RemoveAccounts, SelectAccount, WriteAccount,
           RemoveAccount, Resolve, LookupMessage, InsertMessage, SelectMessage, StoreMessage,
           RefusedEvent, MarkRefused, GetMessage, RemoveMessage, Cleanup, At
  \* Rows may go, and rows of a call that adds some may come.
  <1>2. ASSUME NEW new, Puts(c, new), new = IdleCall \/ Fits(calls[c], new),
               new.pc \notin {"accounts", "tenant"},
               \/ \A k \in AccountKeys : accounts[k].pk = 0 => accounts'[k].pk = 0
               \/ /\ calls[c].op # "deleteTenant"
                  /\ \A k \in AccountKeys : k[1] # calls[c].t => accounts'[k] = accounts[k],
               \/ \A k \in MessageKeys : messages[k].pk = 0 => messages'[k].pk = 0
               \/ /\ calls[c].op # "deleteTenant"
                  /\ \A k \in MessageKeys : k[1] # calls[c].t => messages'[k] = messages[k]
        PROVE  Alone(t)'
    <2>1. \/ NoAccounts(t) => NoAccounts(t)'
          \/ calls[c].t = t /\ calls[c].op # "deleteTenant"
      BY <1>2 DEF NoAccounts
    <2>2. \/ NoMessages(t) => NoMessages(t)'
          \/ calls[c].t = t /\ calls[c].op # "deleteTenant"
      BY <1>2 DEF NoMessages
    <2>3. Passed(new)'
      BY <1>2 DEF Passed
    <2> QED  BY <1>0, <1>1, <1>2, <2>1, <2>2, <2>3, AloneKept
  <1>3. ASSUME UNCHANGED <<accounts, messages>>, NEW new, Puts(c, new), Fits(calls[c], new),
               new.pc \notin {"accounts", "tenant"}
        PROVE  Alone(t)'
    BY <1>2, <1>3
  <1>4. ASSUME UNCHANGED <<accounts, messages>>, Quietly(c)
        PROVE  Alone(t)'
    BY <1>2, <1>4, QuietPasses
  <1>5. SelectTenant(c) => Alone(t)'
    BY <1>0, <1>3, SelectTenantMoves DEF SelectTenant, tables
  <1>6. SelectAccount(c) => Alone(t)'
    BY <1>0, <1>3, SelectAccountMoves DEF SelectAccount, tables
  <1>7. Resolve(c) => Alone(t)'
    BY <1>0, <1>3, ResolveMoves DEF Resolve, tables
  <1>8. LookupMessage(c) => Alone(t)'
    BY <1>0, <1>3, <1>4, LookupMoves DEF LookupMessage, tables
  <1>9. SelectMessage(c) => Alone(t)'
    BY <1>0, <1>3, SelectMessageMoves DEF SelectMessage, tables
  <1>10. GetMessage(c) => Alone(t)'
    BY <1>0, <1>3, <1>4, GetMessageMoves DEF GetMessage, tables
  <1>11. RefusedEvent(c) => Alone(t)'
    BY <1>0, <1>3, GoToMoves DEF Moves, RefusedEvent
  <1>12. ASSUME RemoveAccount(c) PROVE Alone(t)'
    <2>1. UNCHANGED messages /\ \A k \in AccountKeys : accounts[k].pk = 0 => accounts'[k].pk = 0
      BY <1>0, <1>12, DeletesEmpty DEF RemoveAccount
    <2> QED  BY <1>0, <1>2, <1>12, <2>1, OtherWritesQuiet, QuietPasses
  <1>13. ASSUME RemoveMessage(c) \/ Cleanup(c) PROVE Alone(t)'
    <2>1. UNCHANGED accounts /\ \A k \in MessageKeys : messages[k].pk = 0 => messages'[k].pk = 0
      <3>1. UNCHANGED accounts /\ \E keys : messages' = DeleteMessages(keys)
        BY <1>13 DEF RemoveMessage, Cleanup, RemoveByPk
      <3> QED  BY <1>0, <3>1, DeletesEmpty
    <2> QED  BY <1>0, <1>2, <1>13, <2>1, OtherWritesQuiet, QuietPasses
  <1>14. ASSUME StoreMessage(c) \/ MarkRefused(c) PROVE Alone(t)'
    <2>1. Key(calls[c]) \in MessageKeys
      BY <1>1, <1>14, BatchKey DEF StoreMessage, MarkRefused, BatchPcs, MarkPcs
    <2>2. UNCHANGED accounts /\ \A k \in MessageKeys : messages'[k].pk = messages[k].pk
      <3>1. UNCHANGED accounts /\ \E row : messages' = UpdateMessage(Key(calls[c]), row)
        BY <1>14 DEF StoreMessage, MarkRefused
      <3> QED  BY <1>0, <2>1, <3>1, UpdateKeepsPk
    <2> QED  BY <1>0, <1>2, <1>14, <2>2, OtherWritesQuiet, QuietPasses
  <1>15. ASSUME WriteAccount(c) PROVE Alone(t)'
    <2>1. calls[c].op \in {"addAccount", "addPecAccount"} /\ UNCHANGED messages
      BY <1>15 DEF WriteAccount
    <2>2. \A k \in AccountKeys : k[1] # calls[c].t => accounts'[k] = accounts[k]
      <3>1. \/ accounts' = accounts
            \/ \E row : accounts' = [accounts EXCEPT ![<<calls[c].t, calls[c].a>>] = row]
        BY <1>15 DEF WriteAccount
      <3> QED  BY <1>0, <3>1 DEF TablesOK
    <2> QED  BY <1>0, <1>2, <1>15, <2>1, <2>2, OtherWritesQuiet, QuietPasses
  <1>16. ASSUME InsertMessage(c) PROVE Alone(t)'
    <2>1. Key(calls[c])[1] = calls[c].t /\ calls[c].op \in Adds /\ UNCHANGED accounts
      BY <1>1, <1>16, BatchKey DEF InsertMessage, Shape, BatchPcs, AddPcs
    <2>2. \A k \in MessageKeys : k[1] # calls[c].t => messages'[k] = messages[k]
      <3>1. \/ messages' = messages
            \/ \E row : messages' = [messages EXCEPT ![Key(calls[c])] = row]
        BY <1>16 DEF InsertMessage
      <3> QED  BY <1>0, <2>1, <3>1 DEF TablesOK
    <2> QED  BY <1>0, <1>2, <1>16, <2>1, <2>2, InsertMoves, QuietPasses DEF Adds
  <1>17. ASSUME RemoveMessages(c) PROVE Alone(t)'
    <2>1. PICK new : Puts(c, new) /\ Fits(calls[c], new) /\ new.pc = "accounts"
      BY <1>0, <1>17, GoToMoves DEF Moves
    <2>2. UNCHANGED accounts /\ messages' = DeleteMessages(MessagesOf(calls[c].t))
      BY <1>17 DEF RemoveMessages
    <2>3. \A k \in MessageKeys : messages[k].pk = 0 \/ k[1] = calls[c].t => messages'[k].pk = 0
      BY <1>0, <2>2, DeletesEmpty DEF MessagesOf
    <2>4. NoMessages(t) => NoMessages(t)'
      BY <2>3 DEF NoMessages
    <2>5. NoAccounts(t) => NoAccounts(t)'
      BY <2>2 DEF NoAccounts
    <2>6. Passed(new)'
      BY <2>1, <2>3 DEF Passed, NoMessages, Fits
    <2> QED  BY <1>0, <1>1, <2>1, <2>4, <2>5, <2>6, AloneKept
  <1>18. ASSUME RemoveAccounts(c) PROVE Alone(t)'
    <2>1. PICK new : Puts(c, new) /\ Fits(calls[c], new) /\ new.pc = "tenant"
      BY <1>0, <1>18, GoToMoves DEF Moves
    <2>2. /\ UNCHANGED messages /\ accounts' = DeleteAccounts(AccountsOf(calls[c].t))
          /\ calls[c].op = "deleteTenant" /\ calls[c].pc = "accounts"
      BY <1>18 DEF RemoveAccounts, At
    <2>3. \A k \in AccountKeys : accounts[k].pk = 0 \/ k[1] = calls[c].t => accounts'[k].pk = 0
      BY <1>0, <2>2, DeletesEmpty DEF AccountsOf
    <2>4. NoAccounts(t) => NoAccounts(t)'
      BY <2>3 DEF NoAccounts
    <2>5. NoMessages(t) => NoMessages(t)'
      BY <2>2 DEF NoMessages
    <2>6. new.t = t => Passed(new)'
      <3>1. calls[c].t = t => NoMessages(t)
        BY <1>1, <2>2 DEF Alone
      <3> QED  BY <2>1, <2>3, <2>5, <3>1 DEF Passed, NoAccounts, Fits
    <2> QED  BY <1>0, <1>1, <2>1, <2>4, <2>5, <2>6, AloneKept
  <1> QED  BY <1>5, <1>6, <1>7, <1>8, <1>9, <1>10, <1>11, <1>12, <1>13, <1>14, <1>15, <1>16,
              <1>17, <1>18 DEF OtherStep

LEMMA AloneQuiet ==
  ASSUME TypeInv, NEW c \in Calls, QuietStep(c), NEW t \in Tenants, Alone(t)
  PROVE  Alone(t)'
  <1>0. CallsFine /\ Quietly(c) /\ UNCHANGED <<tenants, accounts, messages>>
    BY QuietSteps DEF TypeInv, rows
  <1>1. Busy(c)
    BY <1>0, BusyCall
       DEF QuietStep, GetTenant, CreateKeyGet, GetAccount, CheckItem, Publish, Reply,
           IdsForTenant, NotOwn, LogStep, LogCommand, CountLog, PurgeLog, At
  <1>2. PICK new : /\ Puts(c, new) /\ (new = IdleCall \/ Fits(calls[c], new))
                   /\ new.pc \notin {"accounts", "tenant"}
                   /\ calls[c].pc # "log" \/ new = IdleCall
    <2>1. CASE calls[c].pc = "log"
      <3>1. LogCommand(c)
        BY <2>1 DEF QuietStep, GetTenant, CreateKeyGet, GetAccount, CheckItem, Publish, Reply,
                    IdsForTenant, NotOwn, LogStep, CountLog, PurgeLog, At
      <3> QED  BY <3>1 DEF LogCommand, Puts, IdleCall
    <2>2. CASE calls[c].pc # "log"
      BY <1>0, <2>2, QuietPasses
    <2> QED  BY <2>1, <2>2
  <1>3. (NoAccounts(t) => NoAccounts(t)') /\ (NoMessages(t) => NoMessages(t)') /\ Passed(new)'
    BY <1>0, <1>2 DEF NoAccounts, NoMessages, Passed
  <1> QED  BY <1>0, <1>1, <1>2, <1>3, AloneKept

\* The row of the tenant is there after every write but a removal, which is
\* the last step of a call that is alone.
LEMMA AloneTenant ==
  ASSUME TypeInv, NEW c \in Calls,
         WriteTenant(c) \/ InsertTenant(c) \/ RemoveTenant(c) \/ WriteKey(c),
         NEW t \in Tenants, Alone(t)
  PROVE  Alone(t)'
  <1>0. CallsFine /\ TablesOK /\ UNCHANGED <<accounts, messages>>
    BY DEF TypeInv, WriteTenant, InsertTenant, RemoveTenant, WriteKey
  <1>1. /\ Busy(c) /\ calls[c].t \in Tenants /\ calls[c].pc # "log"
        /\ ~RemoveTenant(c) => calls[c].op # "deleteTenant"
    BY <1>0, BusyCall DEF WriteTenant, InsertTenant, RemoveTenant, WriteKey, At, RecordOps, KeyOps
  <1>2. (NoAccounts(t)' <=> NoAccounts(t)) /\ (NoMessages(t)' <=> NoMessages(t))
    BY <1>0 DEF NoAccounts, NoMessages
  <1>3. CASE RemoveTenant(c) /\ calls[c].t = t
    <2>1. Ends(c)
      <3>1. tenants[t].there \in BOOLEAN /\ Answer(c, tenants[t].there)
        BY <1>0, <1>3 DEF RemoveTenant, TablesOK, TenantRow
      <3> QED  BY <1>0, <1>1, <3>1, AnswerEnds
    <2>2. PICK new : /\ Puts(c, new)
                     /\ \/ new = IdleCall
                        \/ Fits(calls[c], new) /\ Same(calls[c], new) /\ new.pc = "log"
      BY <2>1 DEF Ends
    <2>3. \A d \in Calls : calls'[d] = IF d = c THEN new ELSE calls[d]
      BY <1>0, <2>2 DEF CallsFine, Puts
    <2>4. /\ calls[c].op = "deleteTenant" /\ NoAccounts(t) /\ NoMessages(t)
          /\ \A d \in Calls : Busy(d) /\ calls[d].t = t => d = c
      BY <1>1, <1>3 DEF RemoveTenant, At, Alone
    <2>5. \A d \in Calls : Busy(d)' /\ calls'[d].t = t =>
             d = c /\ calls'[d].op = "deleteTenant" /\ calls'[d].pc = "log"
      BY <2>2, <2>3, <2>4 DEF Busy, Fits, IdleCall
    <2> QED  BY <1>2, <2>4, <2>5 DEF Alone
  <1>4. CASE ~(RemoveTenant(c) /\ calls[c].t = t)
    <2>1. tenants[t].there => tenants'[t].there
      <3>1. CASE WriteTenant(c)
        <4>1. \A row : UpdateTenant(calls[c].t, row)[t].there \/ ~tenants[t].there
          BY <1>0, <1>1 DEF UpdateTenant, TablesOK
        <4> QED  BY <3>1, <4>1 DEF WriteTenant
      <3>2. CASE InsertTenant(c)
        BY <1>0, <1>1, <3>2 DEF InsertTenant, TablesOK, AddNew, NoTenant
      <3>3. CASE RemoveTenant(c)
        BY <1>0, <1>1, <1>4, <3>3 DEF RemoveTenant, TablesOK
      <3>4. CASE WriteKey(c)
        <4>1. \A key : SetApiKey(calls[c].t, key)[t].there \/ ~tenants[t].there
          BY <1>0, <1>1 DEF SetApiKey, TablesOK, TenantRow
        <4> QED  BY <3>4, <4>1 DEF WriteKey
      <3> QED  BY <3>1, <3>2, <3>3, <3>4
    <2>2. PICK new : /\ Puts(c, new) /\ (new = IdleCall \/ Fits(calls[c], new))
                     /\ new.pc \notin {"accounts", "tenant"}
      BY <1>0, TenantWritesQuiet, QuietPasses
    <2>3. \A d \in Calls : calls'[d] = IF d = c THEN new ELSE calls[d]
      BY <1>0, <2>2 DEF CallsFine, Puts
    <2>4. \A d \in Calls : Busy(d)' =>
             Busy(d) /\ calls'[d].t = calls[d].t /\ calls'[d].op = calls[d].op
      BY <1>1, <2>2, <2>3 DEF Busy, Fits, IdleCall
    <2>5. calls[c].t = t => calls[c].op # "deleteTenant"
      BY <1>1, <1>4
    <2>6. ASSUME NEW d \in Calls, Busy(d)', calls'[d].t = t
          PROVE  /\ tenants'[t].there \/ (calls'[d].op = "deleteTenant" /\ calls'[d].pc = "log")
                 /\ calls'[d].op = "deleteTenant" =>
                       /\ \A e \in Calls : Busy(e)' /\ calls'[e].t = t => e = d
                       /\ calls'[d].pc \in {"accounts", "tenant"} => NoMessages(t)
                       /\ calls'[d].pc = "tenant" => NoAccounts(t)
      <3>1. Busy(d) /\ calls[d].t = t /\ calls'[d].op = calls[d].op
        BY <2>4, <2>6
      <3>2. tenants'[t].there \/ (calls'[d].op = "deleteTenant" /\ calls'[d].pc = "log")
        BY <1>1, <2>1, <2>3, <2>5, <3>1 DEF Alone
      <3>3. calls'[d].op = "deleteTenant" => d # c /\ calls'[d] = calls[d]
        BY <2>3, <2>5, <3>1
      <3> QED  BY <2>4, <3>1, <3>2, <3>3 DEF Alone
    <2>7. ~tenants'[t].there => NoAccounts(t) /\ NoMessages(t)
      BY <2>1 DEF Alone
    <2> QED  BY <1>2, <2>6, <2>7 DEF Alone
  <1> QED  BY <1>3, <1>4

LEMMA AloneRequest ==
  ASSUME TypeInv, NEW c \in Calls, NEW u \in Tenants, Request(c, u),
         NEW t \in Tenants \ orphaned', Alone(t)
  PROVE  Alone(t)'
  <1>1. CallsFine /\ TablesOK
    BY DEF TypeInv
  <1>2. PICK new : Begin(c, new) /\ Fresh(new)
    BY <1>1, RequestBegins
  <1>3. Puts(c, new) /\ ~Busy(c) /\ UNCHANGED <<tenants, accounts, messages>>
    BY <1>2 DEF Begin, Puts, tables
  <1>4. \A d \in Calls : calls'[d] = IF d = c THEN new ELSE calls[d]
    BY <1>1, <1>3 DEF CallsFine, Puts
  <1>5. (NoAccounts(t)' <=> NoAccounts(t)) /\ (NoMessages(t)' <=> NoMessages(t))
    BY <1>3 DEF NoAccounts, NoMessages
  <1>6. new.t = t => /\ tenants[t].there
                     /\ \A d \in Calls \ {c} : Busy(d) /\ calls[d].t = t =>
                           new.op # "deleteTenant" /\ calls[d].op # "deleteTenant"
    BY <1>2 DEF Begin, Others
  <1>7. new.pc \notin {"accounts", "tenant"}
    BY <1>2 DEF Fresh, LoudPcs
  <1>8. ASSUME NEW d \in Calls, Busy(d)', calls'[d].t = t
        PROVE  /\ tenants[t].there \/ (calls'[d].op = "deleteTenant" /\ calls'[d].pc = "log")
               /\ calls'[d].op = "deleteTenant" =>
                     /\ \A e \in Calls : Busy(e)' /\ calls'[e].t = t => e = d
                     /\ calls'[d].pc \in {"accounts", "tenant"} => NoMessages(t)
                     /\ calls'[d].pc = "tenant" => NoAccounts(t)
    <2>1. CASE d = c
      BY <1>4, <1>6, <1>7, <1>8, <2>1 DEF Busy
    <2>2. CASE d # c
      <3>1. calls'[d] = calls[d] /\ Busy(d)
        BY <1>4, <1>8, <2>2 DEF Busy
      <3>2. calls[d].op = "deleteTenant" => new.t # t
        BY <1>6, <1>8, <2>2, <3>1
      <3>3. calls[d].op = "deleteTenant" => \A e \in Calls : Busy(e)' /\ calls'[e].t = t => e = d
        BY <1>4, <1>8, <3>1, <3>2 DEF Busy, Alone
      <3> QED  BY <1>8, <3>1, <3>3 DEF Alone
    <2> QED  BY <2>1, <2>2
  <1> QED  BY <1>3, <1>5, <1>8 DEF Alone

LEMMA AloneStep ==
  ASSUME TypeInv, RemovalAlone, [Next]_vars
  PROVE  RemovalAlone'
  <1>1. CallsFine /\ TablesOK /\ \A t \in Tenants \ orphaned : Alone(t)
    BY AloneMeans DEF TypeInv
  <1>2. ASSUME orphaned \subseteq orphaned', \A t \in Tenants \ orphaned' : Alone(t)'
        PROVE  RemovalAlone'
    <2>1. (\A t \in Tenants \ orphaned : Alone(t))'
      BY <1>2
    <2> QED  BY <2>1, AloneMeans, PTL
  <1>3. ASSUME NEW c \in Calls, NEW u \in Tenants, Request(c, u)
        PROVE  RemovalAlone'
    <2>1. PICK new : Begin(c, new)
      BY <1>1, <1>3, RequestBegins
    <2>2. orphaned \subseteq orphaned'
      BY <2>1 DEF Begin
    <2> QED  BY <1>1, <1>2, <1>3, <2>2, AloneRequest
  <1>4. ASSUME NEW c \in Calls, QuietStep(c)
        PROVE  RemovalAlone'
    BY <1>1, <1>2, <1>4, QuietSteps, AloneQuiet DEF rows
  <1>5. ASSUME NEW c \in Calls, WriteTenant(c) \/ InsertTenant(c) \/ RemoveTenant(c) \/ WriteKey(c)
        PROVE  RemovalAlone'
    <2>1. orphaned' = orphaned
      BY <1>5 DEF WriteTenant, InsertTenant, RemoveTenant, WriteKey
    <2> QED  BY <1>1, <1>2, <1>5, <2>1, AloneTenant
  <1>6. ASSUME NEW c \in Calls, OtherStep(c)
        PROVE  RemovalAlone'
    BY <1>1, <1>2, <1>6, OtherTypes, AloneOther
  <1>7. ASSUME UNCHANGED <<tenants, accounts, orphaned>>,
               UNCHANGED calls \/ \A c \in Calls : ~Busy(c)',
               \A k \in MessageKeys : messages'[k].pk = messages[k].pk
        PROVE  RemovalAlone'
    <2>1. ASSUME NEW t \in Tenants, Alone(t)
          PROVE  Alone(t)'
      <3>1. (NoAccounts(t)' <=> NoAccounts(t)) /\ (NoMessages(t)' <=> NoMessages(t))
        BY <1>7 DEF NoAccounts, NoMessages
      <3> QED  BY <1>7, <2>1, <3>1 DEF Alone, Busy
    <2> QED  BY <1>1, <1>2, <1>7, <2>1
  <1>8. ASSUME NEW k \in MessageKeys, Deliver(k)
        PROVE  RemovalAlone'
    <2>1. \A x \in MessageKeys : messages'[x].pk = messages[x].pk
      BY <1>1, <1>8 DEF Deliver, TablesOK, MessageRow
    <2> QED  BY <1>7, <1>8, <2>1 DEF Deliver, history
  <1>9. (\E pk \in 1..MaxPk : Report(pk)) => RemovalAlone'
    BY <1>7 DEF Report, history
  <1>10. ReadResult => RemovalAlone'
    BY <1>7 DEF ReadResult, history, tables
  <1>11. Crash => RemovalAlone'
    BY <1>7 DEF Crash, Busy, IdleCall, tables
  <1>12. UNCHANGED vars => RemovalAlone'
    BY <1>7 DEF vars, history, tables
  <1> QED  BY <1>3, <1>4, <1>5, <1>6, <1>8, <1>9, <1>10, <1>11, <1>12, Steps

\* NoOrphans: a tenant that has been removed leaves no account and no message
\* behind, unless a call for it overlapped the removal or came later: for any
\* number of calls of any kind, wherever they are between their statements.
THEOREM RemovalsLeaveNothing == Spec => []NoOrphans
  <1>1. Init => RemovalAlone
    <2> SUFFICES ASSUME Init PROVE RemovalAlone
      OBVIOUS
    <2>1. ASSUME NEW t \in Tenants
          PROVE  Alone(t)
      <3>1. ~tenants[t].there => NoAccounts(t)
        <4>1. PICK pk \in [AccountKeys -> 0..Cardinality(AccountKeys)] :
                 /\ \A k \in AccountKeys : pk[k] = 0 <=> k[1] \notin Existing
                 /\ accounts = [k \in AccountKeys |-> [NoAccount EXCEPT !.pk = pk[k]]]
          BY DEF Init
        <4>2. tenants[t].there <=> t \in Existing
          BY DEF Init, InitTenants, NoTenant
        <4> QED  BY <4>1, <4>2 DEF NoAccounts, NoAccount
      <3>2. NoMessages(t)
        BY DEF Init, NoMessages, NoMessage
      <3> QED  BY <3>1, <3>2 DEF Init, Alone, Busy, IdleCall
    <2> QED  BY <2>1, AloneMeans
  <1>2. TypeInv /\ RemovalAlone /\ [Next]_vars => RemovalAlone'
    BY AloneStep
  <1>3. RemovalAlone => NoOrphans
    BY DEF RemovalAlone, NoOrphans
  <1> QED  BY <1>1, <1>2, <1>3, SpecTypes, PTL DEF Spec

-----------------------------------------------------------------------------
(* What a processed message has.                                           *)

RowsTold == \A k \in MessageKeys : messages[k].pk # 0 /\ messages[k].done => Told(messages[k].pk)

CallTold(call) ==
    /\ call.messageCopy.pk # 0 /\ call.messageCopy.done => Told(call.messageCopy.pk)
    /\ call.pc \in {"selectMark", "mark"} => Told(call.pk)
    /\ call.pc = "mark" => call.messageCopy.pk \in {0, call.pk}

CallsTold == \A c \in Calls : Busy(c) => CallTold(calls[c])

LEMMA SettledMeans == SettledTold <=> RowsTold /\ CallsTold
  BY DEF SettledTold, RowsTold, CallsTold, CallTold

\* No statement takes events away.
ToldNext(pk) == pk \in 1..MaxPk /\ events'[pk].told # "none"
KeepsTold == \A pk : Told(pk) => ToldNext(pk)

LEMMA SettledKept ==
  ASSUME CallsFine, SettledTold, NEW c \in Calls, NEW new, Puts(c, new),
         new = IdleCall \/ CallTold(new)', KeepsTold, RowsTold'
  PROVE  SettledTold'
  <1>1. \A d \in Calls : calls'[d] = IF d = c THEN new ELSE calls[d]
    BY DEF CallsFine, Puts
  <1>2. ASSUME NEW d \in Calls, Busy(d)'
        PROVE  CallTold(calls[d])'
    <2>1. CASE d = c
      BY <1>1, <1>2, <2>1 DEF Busy, IdleCall, CallTold
    <2>2. CASE d # c
      <3>1. Busy(d) /\ calls'[d] = calls[d] /\ CallTold(calls[d])
        BY <1>1, <1>2, <2>2, SettledMeans DEF Busy, CallsTold
      <3> QED  BY <3>1 DEF CallTold, KeepsTold, Told, ToldNext
    <2> QED  BY <2>1, <2>2
  <1>3. RowsTold' /\ CallsTold'
    BY <1>2 DEF CallsTold
  <1> QED  BY <1>3, SettledMeans, PTL

LEMMA QuietTold ==
  ASSUME CallsFine, SettledTold, NEW c \in Calls, Busy(c), Quietly(c), KeepsTold
  PROVE  \E new : Puts(c, new) /\ (new = IdleCall \/ CallTold(new)')
  <1>1. PICK new : /\ Puts(c, new)
                   /\ \/ new = IdleCall
                      \/ Same(calls[c], new) /\ new.pc \notin LoudPcs
    BY DEF Quietly
  <1>2. new = IdleCall \/ CallTold(new)'
    BY <1>1, SettledMeans DEF Same, LoudPcs, CallsTold, CallTold, KeepsTold, Told, ToldNext
  <1> QED  BY <1>1, <1>2

LEMMA EventsTold ==
  ASSUME TablesOK, NEW pk \in 1..MaxPk, NEW type, events' = AddEvent(pk, type)
  PROVE  KeepsTold /\ ToldNext(pk)
  <1>1. events' = [events EXCEPT ![pk] = events'[pk]] /\ events'[pk].told = "no"
    BY DEF TablesOK, AddEvent
  <1> QED  BY <1>1 DEF KeepsTold, Told, TablesOK, ToldNext

LEMMA RowTold ==
  ASSUME TablesOK, RowsTold, KeepsTold, NEW k \in MessageKeys, NEW row,
         row.pk # 0 /\ row.done => ToldNext(row.pk),
         messages' = [messages EXCEPT ![k] = row] \/ messages' = UpdateMessage(k, row)
  PROVE  RowsTold'
  <1>1. \A x \in MessageKeys : messages'[x] = messages[x] \/ (x = k /\ messages'[x] = row)
    BY DEF TablesOK, UpdateMessage
  <1> QED  BY <1>1 DEF RowsTold, KeepsTold, Told, ToldNext

LEMMA RowsGone ==
  ASSUME TablesOK, RowsTold, KeepsTold, NEW keys, messages' = DeleteMessages(keys)
  PROVE  RowsTold'
  <1>1. \A x \in MessageKeys : messages'[x] = messages[x] \/ messages'[x] = NoMessage
    BY DEF DeleteMessages
  <1> QED  BY <1>1 DEF RowsTold, KeepsTold, NoMessage, Told, ToldNext

LEMMA SettledOther ==
  ASSUME TypeInv, SettledTold, NEW c \in Calls, OtherStep(c)
  PROVE  SettledTold'
  <1>0. CallsFine /\ TablesOK /\ RowsTold /\ CallsTold
    BY SettledMeans DEF TypeInv
  <1>1. Busy(c) /\ calls[c] \in Call /\ Shape(calls[c]) /\ CallTold(calls[c])
    BY <1>0, BusyCall
       DEF OtherStep, SelectTenant, RemoveMessages, RemoveAccounts, SelectAccount, WriteAccount,
           RemoveAccount, Resolve, LookupMessage, InsertMessage, SelectMessage, StoreMessage,
           RefusedEvent, MarkRefused, GetMessage, RemoveMessage, Cleanup, At, CallsTold
  <1>2. ASSUME UNCHANGED events
        PROVE  KeepsTold
    BY <1>2 DEF KeepsTold, Told, ToldNext
  <1>3. ASSUME UNCHANGED events, RowsTold', NEW new, Puts(c, new),
               new.messageCopy = calls[c].messageCopy, new.pc \notin {"selectMark", "mark"}
        PROVE  SettledTold'
    <2>1. CallTold(new)'
      BY <1>1, <1>2, <1>3 DEF CallTold, KeepsTold, Told, ToldNext
    <2> QED  BY <1>0, <1>2, <1>3, <2>1, SettledKept
  <1>4. ASSUME UNCHANGED events, RowsTold', Quietly(c)
        PROVE  SettledTold'
    BY <1>0, <1>1, <1>2, <1>4, QuietTold, SettledKept
  <1>5. UNCHANGED <<messages, events>> => RowsTold' /\ UNCHANGED events
    BY <1>0 DEF RowsTold, Told
  <1>6. SelectTenant(c) => SettledTold'
    BY <1>0, <1>3, <1>5, SelectTenantMoves DEF SelectTenant, tables
  <1>7. SelectAccount(c) => SettledTold'
    BY <1>0, <1>3, <1>5, SelectAccountMoves DEF SelectAccount, tables
  <1>8. Resolve(c) => SettledTold'
    BY <1>0, <1>3, <1>5, ResolveMoves DEF Resolve, tables
  <1>9. LookupMessage(c) => SettledTold'
    BY <1>0, <1>3, <1>4, <1>5, LookupMoves DEF LookupMessage, tables
  <1>10. GetMessage(c) => SettledTold'
    BY <1>0, <1>3, <1>4, <1>5, GetMessageMoves DEF GetMessage, tables
  <1>11. WriteAccount(c) \/ RemoveAccount(c) => SettledTold'
    BY <1>0, <1>4, <1>5, OtherWritesQuiet DEF WriteAccount, RemoveAccount
  <1>12. RemoveAccounts(c) => SettledTold'
    BY <1>0, <1>3, <1>5, GoToMoves DEF Moves, Same, RemoveAccounts
  <1>13. ASSUME RemoveMessages(c) PROVE SettledTold'
    <2>1. UNCHANGED events /\ \E keys : messages' = DeleteMessages(keys)
      BY <1>13 DEF RemoveMessages
    <2>2. RowsTold'
      BY <1>0, <1>2, <2>1, RowsGone
    <2> QED  BY <1>0, <1>3, <1>13, <2>1, <2>2, GoToMoves DEF Moves, Same
  <1>14. ASSUME RemoveMessage(c) \/ Cleanup(c) PROVE SettledTold'
    <2>1. UNCHANGED events /\ \E keys : messages' = DeleteMessages(keys)
      BY <1>14 DEF RemoveMessage, RemoveByPk, Cleanup
    <2>2. RowsTold'
      BY <1>0, <1>2, <2>1, RowsGone
    <2> QED  BY <1>0, <1>4, <1>14, <2>1, <2>2, OtherWritesQuiet
  <1>15. ASSUME InsertMessage(c) PROVE SettledTold'
    <2> DEFINE row == PendingColumns([NoMessage EXCEPT !.pk = nextPk], calls[c].account,
                                     Head(calls[c].batch).form, calls[c].pec)
    <2>1. /\ UNCHANGED events
          /\ messages' = messages \/ messages' = [messages EXCEPT ![Key(calls[c])] = row]
      BY <1>15 DEF InsertMessage
    <2>2. ~row.done
      BY DEF PendingColumns, NoMessage
    <2>3. Key(calls[c]) \in MessageKeys
      BY <1>1, <1>15, BatchKey DEF InsertMessage, BatchPcs
    <2> HIDE DEF row
    <2>4. RowsTold'
      BY <1>0, <1>2, <1>5, <2>1, <2>2, <2>3, RowTold
    <2> QED  BY <1>0, <1>3, <1>4, <1>15, <2>1, <2>4, InsertMoves
  <1>16. ASSUME StoreMessage(c) PROVE SettledTold'
    <2> DEFINE row == PendingColumns(calls[c].messageCopy, calls[c].account,
                                     Head(calls[c].batch).form, calls[c].pec)
    <2>1. UNCHANGED events /\ messages' = UpdateMessage(Key(calls[c]), row)
      BY <1>16 DEF StoreMessage
    <2>2. row.pk = calls[c].messageCopy.pk /\ row.done = calls[c].messageCopy.done
      BY <1>1, CallFields DEF PendingColumns, MessageRow
    <2>3. Key(calls[c]) \in MessageKeys
      BY <1>1, <1>16, BatchKey DEF StoreMessage, BatchPcs
    <2> HIDE DEF row
    <2>4. row.pk # 0 /\ row.done => ToldNext(row.pk)
      BY <1>1, <1>2, <2>1, <2>2 DEF CallTold, KeepsTold, Told, ToldNext
    <2>5. RowsTold'
      BY <1>0, <1>2, <2>1, <2>3, <2>4, RowTold
    <2> QED  BY <1>0, <1>4, <1>16, <2>1, <2>5, OtherWritesQuiet
  <1>17. ASSUME MarkRefused(c) PROVE SettledTold'
    <2> DEFINE row == [calls[c].messageCopy EXCEPT !.done = TRUE]
    <2>1. /\ UNCHANGED events /\ messages' = UpdateMessage(Key(calls[c]), row)
          /\ calls[c].pc = "mark"
      BY <1>17 DEF MarkRefused
    <2>2. row.pk = calls[c].messageCopy.pk
      BY <1>1, CallFields DEF MessageRow
    <2>3. Key(calls[c]) \in MessageKeys
      BY <1>1, <2>1, BatchKey DEF BatchPcs, MarkPcs
    <2> HIDE DEF row
    <2>4. row.pk # 0 => ToldNext(row.pk)
      BY <1>1, <1>2, <2>1, <2>2 DEF CallTold, KeepsTold, Told, ToldNext
    <2>5. RowsTold'
      BY <1>0, <1>2, <2>1, <2>3, <2>4, RowTold
    <2> QED  BY <1>0, <1>4, <1>17, <2>1, <2>5, OtherWritesQuiet
  <1>18. ASSUME SelectMessage(c) PROVE SettledTold'
    <2> DEFINE row == messages[Key(calls[c])]
    <2>1. PICK new : /\ Puts(c, new)
                     /\ new.pc = IF calls[c].pc = "selectMark" THEN "mark" ELSE "store"
                     /\ new.messageCopy = IF row.pk = calls[c].pk THEN row ELSE NoMessage
                     /\ new.pk = calls[c].pk
      BY <1>0, <1>18, SelectMessageMoves
    <2>2. UNCHANGED <<messages, events>>
      BY <1>18 DEF SelectMessage, tables
    <2>3. row.pk # 0 /\ row.done => Told(row.pk)
      BY <1>0, <1>1, <1>18, BatchKey DEF SelectMessage, BatchPcs, MarkPcs, RowsTold
    <2>4. CallTold(new)'
      BY <1>1, <1>2, <2>1, <2>2, <2>3 DEF CallTold, KeepsTold, NoMessage, Told, ToldNext
    <2> QED  BY <1>0, <1>2, <1>5, <2>1, <2>2, <2>4, SettledKept
  <1>19. ASSUME RefusedEvent(c) PROVE SettledTold'
    <2>1. PICK new : Puts(c, new) /\ Same(calls[c], new) /\ new.pc = "selectMark"
      BY <1>0, <1>19, GoToMoves DEF Moves
    <2>2. /\ UNCHANGED messages /\ events' = AddEvent(calls[c].pk, "error")
          /\ calls[c].pc = "event"
      BY <1>19 DEF RefusedEvent
    <2>3. calls[c].pk \in 1..MaxPk
      BY <1>1, <2>2, CallFields, Bounds DEF Shape, MarkPcs
    <2>4. KeepsTold /\ ToldNext(calls[c].pk)
      BY <1>0, <2>2, <2>3, EventsTold
    <2>5. CallTold(new)'
      BY <1>1, <2>1, <2>4 DEF CallTold, KeepsTold, Same, Told, ToldNext
    <2>6. RowsTold'
      BY <1>0, <2>2, <2>4 DEF RowsTold, KeepsTold, Told, ToldNext
    <2> QED  BY <1>0, <2>1, <2>4, <2>5, <2>6, SettledKept
  <1> QED  BY <1>6, <1>7, <1>8, <1>9, <1>10, <1>11, <1>12, <1>13, <1>14, <1>15, <1>16, <1>17,
              <1>18, <1>19 DEF OtherStep

LEMMA SettledStep ==
  ASSUME TypeInv, SettledTold, [Next]_vars
  PROVE  SettledTold'
  <1>0. CallsFine /\ TablesOK /\ RowsTold /\ CallsTold
    BY SettledMeans DEF TypeInv
  <1>1. ASSUME UNCHANGED <<messages, events>>
        PROVE  KeepsTold /\ RowsTold'
    BY <1>0, <1>1 DEF KeepsTold, RowsTold, Told, ToldNext
  <1>2. ASSUME NEW c \in Calls, NEW t \in Tenants, Request(c, t)
        PROVE  SettledTold'
    <2>1. PICK new : Begin(c, new) /\ Fresh(new)
      BY <1>0, <1>2, RequestBegins
    <2>2. Puts(c, new) /\ UNCHANGED <<messages, events>> /\ CallTold(new)'
      BY <2>1 DEF Begin, Puts, Fresh, CallTold, LoudPcs, NoMessage, tables
    <2> QED  BY <1>0, <1>1, <2>2, SettledKept
  <1>3. ASSUME NEW c \in Calls, Quietly(c), Busy(c), UNCHANGED <<messages, events>>
        PROVE  SettledTold'
    BY <1>0, <1>1, <1>3, QuietTold, SettledKept
  <1>4. ASSUME NEW c \in Calls, QuietStep(c)
        PROVE  SettledTold'
    <2>1. Busy(c)
      BY <1>0, <1>4, BusyCall
         DEF QuietStep, GetTenant, CreateKeyGet, GetAccount, CheckItem, Publish, Reply,
             IdsForTenant, NotOwn, LogStep, LogCommand, CountLog, PurgeLog, At
    <2> QED  BY <1>3, <1>4, <2>1, QuietSteps DEF rows
  <1>5. ASSUME NEW c \in Calls, WriteTenant(c) \/ InsertTenant(c) \/ RemoveTenant(c) \/ WriteKey(c)
        PROVE  SettledTold'
    <2>1. Busy(c) /\ UNCHANGED <<messages, events>>
      BY <1>0, <1>5, BusyCall DEF WriteTenant, InsertTenant, RemoveTenant, WriteKey, At
    <2> QED  BY <1>0, <1>3, <1>5, <2>1, TenantWritesQuiet
  <1>6. ASSUME UNCHANGED calls \/ \A c \in Calls : ~Busy(c)', KeepsTold, RowsTold'
        PROVE  SettledTold'
    <2>1. CallsTold'
      BY <1>0, <1>6 DEF CallsTold, CallTold, KeepsTold, Busy, Told, ToldNext
    <2> QED  BY <1>6, <2>1, SettledMeans, PTL
  <1>7. ASSUME NEW k \in MessageKeys, Deliver(k)
        PROVE  SettledTold'
    <2> DEFINE row == [messages[k] EXCEPT !.done = TRUE]
    <2>1. messages[k] \in MessageRow /\ messages[k].pk \in 0..MaxPk /\ messages[k].pk # 0
      BY <1>0, <1>7 DEF TablesOK, MessageRow, Deliver
    <2>2. messages[k].pk \in 1..MaxPk /\ row.pk = messages[k].pk
      BY <2>1, Bounds DEF MessageRow
    <2>3. PICK type : events' = AddEvent(messages[k].pk, type)
      BY <1>7 DEF Deliver
    <2>4. KeepsTold /\ ToldNext(messages[k].pk)
      BY <1>0, <2>2, <2>3, EventsTold
    <2>5. UNCHANGED calls /\ messages' = [messages EXCEPT ![k] = row]
      BY <1>7 DEF Deliver
    <2> HIDE DEF row
    <2>6. RowsTold'
      BY <1>0, <2>2, <2>4, <2>5, RowTold
    <2> QED  BY <1>6, <2>4, <2>5, <2>6
  <1>8. ASSUME NEW pk \in 1..MaxPk, Report(pk)
        PROVE  SettledTold'
    <2>1. UNCHANGED <<messages, calls>> /\ events' = [events EXCEPT ![pk].told = "yes"]
      BY <1>8 DEF Report
    <2>2. KeepsTold
      BY <1>0, <2>1 DEF KeepsTold, Told, TablesOK, EventRows, ToldNext
    <2>3. RowsTold'
      BY <1>0, <2>1, <2>2 DEF RowsTold, KeepsTold, Told, ToldNext
    <2> QED  BY <1>6, <2>1, <2>2, <2>3
  <1>9. ReadResult => SettledTold'
    BY <1>1, <1>6 DEF ReadResult, tables
  <1>10. Crash => SettledTold'
    BY <1>1, <1>6 DEF Crash, Busy, IdleCall, tables
  <1>11. UNCHANGED vars => SettledTold'
    BY <1>1, <1>6 DEF vars, tables
  <1> QED  BY <1>2, <1>4, <1>5, <1>7, <1>8, <1>9, <1>10, <1>11, SettledOther, Steps

\* DoneHasOutcome: a message shown as processed has an event, whatever calls,
\* the dispatch loop and crashes do between the statements that refuse it.
THEOREM DoneMessagesHaveOutcome == Spec => []DoneHasOutcome
  <1>1. Init => SettledTold
    BY DEF Init, SettledTold, NoMessage, Busy, IdleCall
  <1>2. TypeInv /\ SettledTold /\ [Next]_vars => SettledTold'
    BY SettledStep
  <1>3. SettledTold => DoneHasOutcome
    BY DEF SettledTold, DoneHasOutcome, Told
  <1> QED  BY <1>1, <1>2, <1>3, SpecTypes, PTL DEF Spec

-----------------------------------------------------------------------------
(* Whose the rows are.                                                     *)

\* An owner of the keys that are drawn still owns what it did.
Follows(more, owner) ==
    \A t \in Tenants : \A pk \in 0..MaxPk :
        Owned(owner, nextPk, t, pk) => Owned(more, nextPk', t, pk)

LEMMA Drawn ==
  ASSUME TablesOK, nextPk <= MaxPk, nextPk' = nextPk + 1, NEW owner, NEW t \in Tenants
  PROVE  \E more : Follows(more, owner) /\ Owned(more, nextPk', t, nextPk)
  <1> DEFINE more == [pk \in 1..MaxPk |-> IF pk = nextPk THEN t ELSE owner[pk]]
  <1>1. nextPk \in 1..MaxPk /\ MaxPk \in Nat
    BY Bounds DEF TablesOK
  <1>2. Owned(more, nextPk', t, nextPk)
    BY <1>1 DEF Owned
  <1>3. ASSUME NEW u \in Tenants, NEW pk \in 0..MaxPk, Owned(owner, nextPk, u, pk)
        PROVE  Owned(more, nextPk', u, pk)
    <2>1. CASE pk = 0
      BY <2>1 DEF Owned
    <2>2. CASE pk # 0
      <3>1. pk \in 1..MaxPk /\ pk < nextPk /\ owner[pk] = u
        BY <1>1, <1>3, <2>2 DEF Owned
      <3>2. more[pk] = u /\ pk < nextPk'
        BY <1>1, <3>1
      <3> HIDE DEF more
      <3> QED  BY <3>2 DEF Owned
    <2> QED  BY <2>1, <2>2
  <1> HIDE DEF more
  <1> QED  BY <1>2, <1>3 DEF Follows

LEMMA Undrawn ==
  ASSUME UNCHANGED nextPk, NEW owner
  PROVE  Follows(owner, owner)
  BY DEF Follows

LEMMA CallsFollow ==
  ASSUME NEW owner, NEW more, Follows(more, owner), NEW call \in Call,
         CallOwned(owner, nextPk, call)
  PROVE  CallOwned(more, nextPk', call)
  <1>1. /\ call.t \in Tenants /\ call.pk \in 0..MaxPk /\ call.account \in 0..MaxPk
        /\ call.accountCopy.pk \in 0..MaxPk /\ call.messageCopy.pk \in 0..MaxPk
        /\ call.messageCopy.account \in 0..MaxPk
    BY CallFields DEF AccountRow, MessageRow
  <1> QED  BY <1>1 DEF CallOwned, Follows

LEMMA RowsFollow ==
  ASSUME TablesOK, NEW owner, NEW more, Follows(more, owner)
  PROVE  /\ AccountsOwned(owner, nextPk, accounts) => AccountsOwned(more, nextPk', accounts)
         /\ MessagesOwned(owner, nextPk, messages) => MessagesOwned(more, nextPk', messages)
  <1>1. \A k \in AccountKeys : k[1] \in Tenants /\ accounts[k].pk \in 0..MaxPk
    BY DEF TablesOK, AccountKeys, AccountRow
  <1>2. \A k \in MessageKeys : /\ k[1] \in Tenants /\ messages[k].pk \in 0..MaxPk
                               /\ messages[k].account \in 0..MaxPk
    BY DEF TablesOK, MessageKeys, MessageRow
  <1> QED  BY <1>1, <1>2 DEF AccountsOwned, MessagesOwned, Follows

LEMMA OwnsKept ==
  ASSUME CallsFine, NEW owner, NEW more, Owns(owner), Follows(more, owner),
         NEW c \in Calls, NEW new, Puts(c, new),
         new = IdleCall \/ CallOwned(more, nextPk', new),
         AccountsOwned(more, nextPk', accounts'), MessagesOwned(more, nextPk', messages')
  PROVE  KeysOwned'
  <1>1. \A d \in Calls : calls'[d] = IF d = c THEN new ELSE calls[d]
    BY DEF CallsFine, Puts
  <1>2. ASSUME NEW d \in Calls, calls'[d].pc # "idle"
        PROVE  CallOwned(more, nextPk', calls'[d])
    <2>1. CASE d = c
      BY <1>1, <1>2, <2>1 DEF IdleCall
    <2>2. CASE d # c
      <3>1. calls'[d] = calls[d] /\ calls[d] \in Call /\ CallOwned(owner, nextPk, calls[d])
        BY <1>1, <1>2, <2>2 DEF Busy, CallsFine, Owns
      <3> QED  BY <3>1, CallsFollow
    <2> QED  BY <2>1, <2>2
  <1> QED  BY <1>2 DEF KeysOwned, Owns, Busy

\* Deleting rows, and updating the row of a message, hand no key to another tenant.
LEMMA DeletesOwned ==
  ASSUME TablesOK, NEW owner, NEW n, NEW keys
  PROVE  /\ MessagesOwned(owner, n, messages) => MessagesOwned(owner, n, DeleteMessages(keys))
         /\ AccountsOwned(owner, n, accounts) => AccountsOwned(owner, n, DeleteAccounts(keys))
  <1>1. \A k \in MessageKeys : \/ DeleteMessages(keys)[k] = messages[k]
                               \/ DeleteMessages(keys)[k] = NoMessage
    BY DEF DeleteMessages
  <1>2. \A k \in AccountKeys : \/ DeleteAccounts(keys)[k] = accounts[k]
                               \/ DeleteAccounts(keys)[k] = NoAccount
    BY DEF DeleteAccounts
  <1> QED  BY <1>1, <1>2 DEF MessagesOwned, AccountsOwned, Owned, NoMessage, NoAccount

LEMMA UpdateOwned ==
  ASSUME TablesOK, NEW owner, NEW n, NEW k \in MessageKeys, NEW row, NEW table,
         MessagesOwned(owner, n, messages),
         Owned(owner, n, k[1], row.pk), Owned(owner, n, k[1], row.account),
         \/ table = UpdateMessage(k, row)
         \/ table = [messages EXCEPT ![k] = row]
  PROVE  MessagesOwned(owner, n, table)
  <1>1. \A x \in MessageKeys : table[x] = messages[x] \/ (x = k /\ table[x] = row)
    BY DEF TablesOK, UpdateMessage
  <1> QED  BY <1>1 DEF MessagesOwned

LEMMA OwnsOther ==
  ASSUME TypeInv, NEW owner, Owns(owner), NEW c \in Calls, OtherStep(c)
  PROVE  KeysOwned'
  <1> DEFINE call == calls[c]
  <1>0. /\ CallsFine /\ TablesOK
        /\ AccountsOwned(owner, nextPk, accounts) /\ MessagesOwned(owner, nextPk, messages)
    BY DEF TypeInv, Owns
  <1>1. /\ Busy(c) /\ call.t \in Tenants /\ call \in Call /\ Shape(call)
        /\ CallOwned(owner, nextPk, call)
    BY <1>0, BusyCall
       DEF OtherStep, SelectTenant, RemoveMessages, RemoveAccounts, SelectAccount, WriteAccount,
           RemoveAccount, Resolve, LookupMessage, InsertMessage, SelectMessage, StoreMessage,
           RefusedEvent, MarkRefused, GetMessage, RemoveMessage, Cleanup, At, Owns
  <1>2. ASSUME UNCHANGED nextPk, NEW new, Puts(c, new),
               new = IdleCall \/ CallOwned(owner, nextPk, new),
               AccountsOwned(owner, nextPk, accounts'), MessagesOwned(owner, nextPk, messages')
        PROVE  KeysOwned'
    BY <1>0, <1>2, Undrawn, OwnsKept
  <1>3. ASSUME UNCHANGED nextPk, NEW new, Puts(c, new), new.t = call.t, Same(call, new),
               AccountsOwned(owner, nextPk, accounts'), MessagesOwned(owner, nextPk, messages')
        PROVE  KeysOwned'
    BY <1>1, <1>2, <1>3 DEF Same, CallOwned
  <1>4. ASSUME UNCHANGED nextPk, Quietly(c),
               AccountsOwned(owner, nextPk, accounts'), MessagesOwned(owner, nextPk, messages')
        PROVE  KeysOwned'
    BY <1>2, <1>3, <1>4 DEF Quietly, Same
  <1>5. ASSUME UNCHANGED tables
        PROVE  /\ UNCHANGED nextPk /\ AccountsOwned(owner, nextPk, accounts')
               /\ MessagesOwned(owner, nextPk, messages')
    BY <1>0, <1>5 DEF tables
  <1>6. ASSUME SelectTenant(c) PROVE KeysOwned'
    <2>1. UNCHANGED tables
      BY <1>6 DEF SelectTenant
    <2>2. PICK new : /\ Puts(c, new) /\ new.op = call.op /\ new.t = call.t
                     /\ new.pk = call.pk
                     /\ new.account = call.account /\ new.accountCopy = call.accountCopy
                     /\ new.messageCopy = call.messageCopy
      BY <1>0, <1>6, SelectTenantMoves DEF Fits
    <2> QED  BY <1>1, <1>2, <1>5, <2>1, <2>2 DEF CallOwned
  <1>7. ASSUME SelectAccount(c) PROVE KeysOwned'
    <2>1. UNCHANGED tables
      BY <1>7 DEF SelectAccount
    <2>2. PICK new : /\ Puts(c, new) /\ new.op = call.op /\ new.t = call.t
                     /\ new.pk = call.pk
                     /\ new.account = call.account
                     /\ new.accountCopy = accounts[<<call.t, call.a>>] /\ call.a \in AccountIds
                     /\ new.messageCopy = call.messageCopy
      BY <1>0, <1>7, SelectAccountMoves DEF Fits
    <2>3. Owned(owner, nextPk, call.t, accounts[<<call.t, call.a>>].pk)
      BY <1>0, <1>1, <2>2 DEF AccountsOwned, AccountKeys
    <2> QED  BY <1>1, <1>2, <1>5, <2>1, <2>2, <2>3 DEF CallOwned
  <1>8. ASSUME Resolve(c) PROVE KeysOwned'
    <2>1. UNCHANGED tables
      BY <1>8 DEF Resolve
    <2>2. PICK new : /\ Puts(c, new) /\ new.op = call.op /\ new.t = call.t
                     /\ new.pk = call.pk
                     /\ new.accountCopy = call.accountCopy
                     /\ new.account = accounts[<<call.t, call.a>>].pk /\ call.a \in AccountIds
                     /\ new.messageCopy = call.messageCopy
      BY <1>0, <1>8, ResolveMoves DEF Fits
    <2>3. Owned(owner, nextPk, call.t, accounts[<<call.t, call.a>>].pk)
      BY <1>0, <1>1, <2>2 DEF AccountsOwned, AccountKeys
    <2> QED  BY <1>1, <1>2, <1>5, <2>1, <2>2, <2>3 DEF CallOwned
  <1>9. ASSUME LookupMessage(c) PROVE KeysOwned'
    <2>1. UNCHANGED tables /\ Key(call) \in MessageKeys /\ Key(call)[1] = call.t
      BY <1>1, <1>9, BatchKey DEF LookupMessage, BatchPcs
    <2>2. CASE Quietly(c)
      BY <1>4, <1>5, <2>1, <2>2
    <2>3. CASE ~Quietly(c)
      <3>1. PICK new : /\ Puts(c, new) /\ new.t = call.t /\ new.pk = messages[Key(call)].pk
                       /\ new.account = call.account /\ new.accountCopy = call.accountCopy
                       /\ new.messageCopy = call.messageCopy
        BY <1>0, <1>9, <2>3, LookupMoves DEF Fits
      <3>2. Owned(owner, nextPk, call.t, messages[Key(call)].pk)
        BY <1>0, <2>1 DEF MessagesOwned
      <3> QED  BY <1>1, <1>2, <1>5, <2>1, <3>1, <3>2 DEF CallOwned
    <2> QED  BY <2>2, <2>3
  <1>10. ASSUME GetMessage(c) PROVE KeysOwned'
    <2>1. UNCHANGED tables
      BY <1>10 DEF GetMessage
    <2>2. CASE Quietly(c)
      BY <1>4, <1>5, <2>1, <2>2
    <2>3. CASE ~Quietly(c)
      <3>1. PICK new, k : /\ Puts(c, new) /\ new.t = call.t /\ new.pk = messages[k].pk
                          /\ k \in MessageKeys /\ k[1] = call.t
                          /\ new.account = call.account /\ new.accountCopy = call.accountCopy
                          /\ new.messageCopy = call.messageCopy
        BY <1>0, <1>10, <2>3, GetMessageMoves DEF Fits
      <3>2. Owned(owner, nextPk, call.t, messages[k].pk)
        BY <1>0, <3>1 DEF MessagesOwned
      <3> QED  BY <1>1, <1>2, <1>5, <2>1, <3>1, <3>2 DEF CallOwned
    <2> QED  BY <2>2, <2>3
  <1>11. ASSUME SelectMessage(c) PROVE KeysOwned'
    <2>1. UNCHANGED tables /\ Key(call) \in MessageKeys /\ Key(call)[1] = call.t
      BY <1>1, <1>11, BatchKey DEF SelectMessage, BatchPcs, MarkPcs
    <2>2. PICK new : /\ Puts(c, new) /\ new.op = call.op /\ new.t = call.t
                     /\ new.pk = call.pk
                     /\ new.messageCopy = messages[Key(call)] \/ new.messageCopy = NoMessage
                     /\ new.account = call.account /\ new.accountCopy = call.accountCopy
      BY <1>0, <1>11, SelectMessageMoves DEF Fits
    <2>3. /\ Owned(owner, nextPk, call.t, messages[Key(call)].pk)
          /\ Owned(owner, nextPk, call.t, messages[Key(call)].account)
          /\ Owned(owner, nextPk, call.t, NoMessage.pk)
          /\ Owned(owner, nextPk, call.t, NoMessage.account)
      BY <1>0, <2>1 DEF MessagesOwned, Owned, NoMessage
    <2> QED  BY <1>1, <1>2, <1>5, <2>1, <2>2, <2>3 DEF CallOwned
  <1>12. ASSUME RefusedEvent(c) PROVE KeysOwned'
    <2>1. PICK new : Puts(c, new) /\ Same(call, new)
      BY <1>0, <1>12, GoToMoves DEF Moves
    <2> QED  BY <1>0, <1>3, <1>12, <2>1 DEF RefusedEvent, Same
  <1>13. ASSUME RemoveMessages(c) \/ RemoveAccounts(c) PROVE KeysOwned'
    <2>1. PICK new : Puts(c, new) /\ Same(call, new)
      BY <1>0, <1>13, GoToMoves DEF Moves
    <2>2. UNCHANGED nextPk /\ AccountsOwned(owner, nextPk, accounts')
          /\ MessagesOwned(owner, nextPk, messages')
      BY <1>0, <1>13, DeletesOwned DEF RemoveMessages, RemoveAccounts
    <2> QED  BY <1>3, <2>1, <2>2 DEF Same
  <1>14. ASSUME RemoveAccount(c) \/ RemoveMessage(c) \/ Cleanup(c) PROVE KeysOwned'
    <2>1. UNCHANGED nextPk /\ AccountsOwned(owner, nextPk, accounts')
          /\ MessagesOwned(owner, nextPk, messages')
      BY <1>0, <1>14, DeletesOwned DEF RemoveAccount, RemoveMessage, RemoveByPk, Cleanup
    <2> QED  BY <1>0, <1>4, <1>14, <2>1, OtherWritesQuiet
  <1>15. ASSUME StoreMessage(c) PROVE KeysOwned'
    <2> DEFINE row == PendingColumns(call.messageCopy, call.account, Head(call.batch).form, call.pec)
    <2>1. /\ UNCHANGED <<nextPk, accounts>> /\ messages' = UpdateMessage(Key(call), row)
          /\ Key(call) \in MessageKeys /\ Key(call)[1] = call.t
      BY <1>1, <1>15, BatchKey DEF StoreMessage, BatchPcs
    <2>2. row.pk = call.messageCopy.pk /\ row.account = call.account
      BY <1>1, CallFields DEF PendingColumns, MessageRow
    <2> HIDE DEF row
    <2>3. MessagesOwned(owner, nextPk, messages')
      BY <1>0, <1>1, <2>1, <2>2, UpdateOwned DEF CallOwned
    <2> QED  BY <1>0, <1>4, <1>15, <2>1, <2>3, OtherWritesQuiet
  <1>16. ASSUME MarkRefused(c) PROVE KeysOwned'
    <2> DEFINE row == [call.messageCopy EXCEPT !.done = TRUE]
    <2>1. /\ UNCHANGED <<nextPk, accounts>> /\ messages' = UpdateMessage(Key(call), row)
          /\ Key(call) \in MessageKeys /\ Key(call)[1] = call.t
      BY <1>1, <1>16, BatchKey DEF MarkRefused, BatchPcs, MarkPcs
    <2>2. row.pk = call.messageCopy.pk /\ row.account = call.messageCopy.account
      BY <1>1, CallFields DEF MessageRow
    <2> HIDE DEF row
    <2>3. MessagesOwned(owner, nextPk, messages')
      BY <1>0, <1>1, <2>1, <2>2, UpdateOwned DEF CallOwned
    <2> QED  BY <1>0, <1>4, <1>16, <2>1, <2>3, OtherWritesQuiet
  <1>17. ASSUME WriteAccount(c) PROVE KeysOwned'
    <2> DEFINE k == <<call.t, call.a>>
               row == AddAccountColumns(call.accountCopy, call.op = "addPecAccount")
    <2>1. /\ UNCHANGED messages /\ row.pk <= MaxPk
          /\ accounts' = accounts \/ accounts' = [accounts EXCEPT ![k] = row]
          /\ nextPk' = IF call.accountCopy.pk = 0 THEN nextPk + 1 ELSE nextPk
      BY <1>17 DEF WriteAccount
    <2>2. row.pk = IF call.accountCopy.pk = 0 THEN nextPk ELSE call.accountCopy.pk
      BY DEF AddAccountColumns
    <2>3. PICK new : /\ Puts(c, new)
                     /\ new = IdleCall \/ (Same(call, new) /\ new.t = call.t)
      BY <1>0, <1>17, OtherWritesQuiet DEF Quietly, Same
    <2> HIDE DEF row
    <2>4. PICK more : Follows(more, owner) /\ Owned(more, nextPk', call.t, row.pk)
      <3>1. CASE call.accountCopy.pk = 0
        BY <1>0, <1>1, <2>1, <2>2, <3>1, Drawn
      <3>2. CASE call.accountCopy.pk # 0
        BY <1>1, <2>1, <2>2, <3>2, Undrawn DEF CallOwned
      <3> QED  BY <3>1, <3>2
    <2>5. /\ AccountsOwned(more, nextPk', accounts) /\ MessagesOwned(more, nextPk', messages')
          /\ CallOwned(more, nextPk', call)
      BY <1>0, <1>1, <2>1, <2>4, RowsFollow, CallsFollow
    <2>6. AccountsOwned(more, nextPk', accounts')
      <3>1. \A x \in AccountKeys : accounts'[x] = accounts[x] \/ (x = k /\ accounts'[x] = row)
        BY <1>0, <2>1 DEF TablesOK
      <3> QED  BY <2>4, <2>5, <3>1 DEF AccountsOwned
    <2>7. new = IdleCall \/ CallOwned(more, nextPk', new)
      BY <2>3, <2>5 DEF Same, CallOwned
    <2> QED  BY <1>0, <2>3, <2>4, <2>5, <2>6, <2>7, OwnsKept
  <1>18. ASSUME InsertMessage(c) PROVE KeysOwned'
    <2> DEFINE row == PendingColumns([NoMessage EXCEPT !.pk = nextPk], call.account,
                                     Head(call.batch).form, call.pec)
    <2>1. /\ UNCHANGED accounts /\ nextPk <= MaxPk /\ nextPk' = nextPk + 1
          /\ messages' = messages \/ messages' = [messages EXCEPT ![Key(call)] = row]
          /\ Key(call) \in MessageKeys /\ Key(call)[1] = call.t
      BY <1>1, <1>18, BatchKey DEF InsertMessage, BatchPcs
    <2>2. row.pk = nextPk /\ row.account = call.account
      BY DEF PendingColumns, NoMessage
    <2> HIDE DEF row
    <2>3. PICK more : Follows(more, owner) /\ Owned(more, nextPk', call.t, nextPk)
      BY <1>0, <1>1, <2>1, Drawn
    <2>4. /\ AccountsOwned(more, nextPk', accounts') /\ MessagesOwned(more, nextPk', messages)
          /\ CallOwned(more, nextPk', call)
      BY <1>0, <1>1, <2>1, <2>3, RowsFollow, CallsFollow
    <2>5. MessagesOwned(more, nextPk', messages')
      BY <1>0, <2>1, <2>2, <2>3, <2>4, UpdateOwned DEF CallOwned
    <2>6. PICK new : /\ Puts(c, new)
                     /\ \/ new = IdleCall
                        \/ Same(call, new) /\ new.t = call.t
                        \/ /\ new.t = call.t /\ new.pk = nextPk /\ new.account = call.account
                           /\ new.accountCopy = call.accountCopy
                           /\ new.messageCopy = call.messageCopy
      BY <1>0, <1>18, InsertMoves DEF Quietly, Same, Fits
    <2>7. new = IdleCall \/ CallOwned(more, nextPk', new)
      BY <2>3, <2>4, <2>6 DEF Same, CallOwned
    <2> QED  BY <1>0, <2>3, <2>4, <2>5, <2>6, <2>7, OwnsKept
  <1> QED  BY <1>6, <1>7, <1>8, <1>9, <1>10, <1>11, <1>12, <1>13, <1>14, <1>15, <1>16, <1>17,
              <1>18 DEF OtherStep

LEMMA OwnsStep ==
  ASSUME TypeInv, KeysOwned, [Next]_vars
  PROVE  KeysOwned'
  <1>1. PICK owner : Owns(owner)
    BY DEF KeysOwned
  <1>2. /\ CallsFine /\ TablesOK
        /\ AccountsOwned(owner, nextPk, accounts) /\ MessagesOwned(owner, nextPk, messages)
    BY <1>1 DEF TypeInv, Owns
  <1>3. ASSUME UNCHANGED <<accounts, messages, nextPk>>, NEW c \in Calls, NEW new, Puts(c, new),
               new = IdleCall \/ CallOwned(owner, nextPk, new)
        PROVE  KeysOwned'
    BY <1>1, <1>2, <1>3, Undrawn, OwnsKept
  <1>4. ASSUME NEW c \in Calls, Busy(c), Quietly(c), UNCHANGED <<accounts, messages, nextPk>>
        PROVE  KeysOwned'
    <2>1. CallOwned(owner, nextPk, calls[c])
      BY <1>1, <1>4 DEF Owns
    <2> QED  BY <1>3, <1>4, <2>1 DEF Quietly, Same, CallOwned
  <1>5. ASSUME NEW c \in Calls, NEW t \in Tenants, Request(c, t)
        PROVE  KeysOwned'
    <2>1. PICK new : Begin(c, new) /\ Fresh(new)
      BY <1>2, <1>5, RequestBegins
    <2>2. Puts(c, new) /\ UNCHANGED <<accounts, messages, nextPk>>
      BY <2>1 DEF Begin, Puts, tables
    <2>3. CallOwned(owner, nextPk, new)
      BY <1>2, <2>1 DEF Fresh, CallOwned, Owned, MessagesOwned, NoAccount, NoMessage
    <2> QED  BY <1>3, <2>2, <2>3
  <1>6. ASSUME NEW c \in Calls, QuietStep(c)
        PROVE  KeysOwned'
    <2>1. Busy(c)
      BY <1>2, <1>6, BusyCall
         DEF QuietStep, GetTenant, CreateKeyGet, GetAccount, CheckItem, Publish, Reply,
             IdsForTenant, NotOwn, LogStep, LogCommand, CountLog, PurgeLog, At
    <2> QED  BY <1>4, <1>6, <2>1, QuietSteps DEF rows
  <1>7. ASSUME NEW c \in Calls, WriteTenant(c) \/ InsertTenant(c) \/ RemoveTenant(c) \/ WriteKey(c)
        PROVE  KeysOwned'
    <2>1. Busy(c) /\ UNCHANGED <<accounts, messages, nextPk>>
      BY <1>2, <1>7, BusyCall DEF WriteTenant, InsertTenant, RemoveTenant, WriteKey, At
    <2> QED  BY <1>2, <1>4, <1>7, <2>1, TenantWritesQuiet
  <1>8. ASSUME NEW c \in Calls, OtherStep(c)
        PROVE  KeysOwned'
    BY <1>1, <1>8, OwnsOther
  <1>9. ASSUME UNCHANGED <<accounts, nextPk>>, UNCHANGED calls \/ \A c \in Calls : ~Busy(c)',
               MessagesOwned(owner, nextPk, messages')
        PROVE  KeysOwned'
    BY <1>1, <1>2, <1>9 DEF KeysOwned, Owns, Busy
  <1>10. ASSUME NEW k \in MessageKeys, Deliver(k)
         PROVE  KeysOwned'
    <2>1. \A x \in MessageKeys : /\ messages'[x].pk = messages[x].pk
                                 /\ messages'[x].account = messages[x].account
      BY <1>2, <1>10 DEF Deliver, TablesOK, MessageRow
    <2>2. MessagesOwned(owner, nextPk, messages')
      BY <1>2, <2>1 DEF MessagesOwned
    <2> QED  BY <1>9, <1>10, <2>2 DEF Deliver
  <1>11. (\E pk \in 1..MaxPk : Report(pk)) => KeysOwned'
    BY <1>2, <1>9 DEF Report
  <1>12. ReadResult => KeysOwned'
    BY <1>2, <1>9 DEF ReadResult, tables
  <1>13. Crash => KeysOwned'
    BY <1>2, <1>9 DEF Crash, Busy, IdleCall, tables
  <1>14. UNCHANGED vars => KeysOwned'
    BY <1>2, <1>9 DEF vars, tables
  <1> QED  BY <1>5, <1>6, <1>7, <1>8, <1>10, <1>11, <1>12, <1>13, <1>14, Steps

LEMMA OwnsInit ==
  ASSUME Init
  PROVE  KeysOwned
  <1>1. PICK pk \in [AccountKeys -> 0..Cardinality(AccountKeys)] :
           /\ \A j, k \in AccountKeys : pk[j] = pk[k] /\ pk[j] # 0 => j = k
           /\ accounts = [k \in AccountKeys |-> [NoAccount EXCEPT !.pk = pk[k]]]
    BY DEF Init
  <1> DEFINE owner == [n \in 1..Cardinality(AccountKeys) |->
                         CHOOSE t : \E k \in AccountKeys : pk[k] = n /\ t = k[1]]
  <1>2. Cardinality(AccountKeys) \in Nat
    BY FS_Product, FS_CardinalityType, TablesAssumption DEF AccountKeys
  <1>3. \A k \in AccountKeys : accounts[k].pk = pk[k]
    BY <1>1 DEF NoAccount
  <1>4. ASSUME NEW k \in AccountKeys, pk[k] # 0
        PROVE  pk[k] < nextPk /\ owner[pk[k]] = k[1]
    <2>1. pk[k] \in 1..Cardinality(AccountKeys) /\ pk[k] < nextPk
      BY <1>1, <1>2, <1>4 DEF Init
    <2>2. \A t : (\E j \in AccountKeys : pk[j] = pk[k] /\ t = j[1]) <=> t = k[1]
      BY <1>1, <1>4
    <2>3. (CHOOSE t : \E j \in AccountKeys : pk[j] = pk[k] /\ t = j[1]) = k[1]
      BY <2>2
    <2> QED  BY <2>1, <2>3
  <1> HIDE DEF owner
  <1>5. AccountsOwned(owner, nextPk, accounts)
    BY <1>3, <1>4 DEF AccountsOwned, Owned
  <1>6. MessagesOwned(owner, nextPk, messages)
    BY DEF Init, MessagesOwned, Owned, NoMessage
  <1>7. \A c \in Calls : ~Busy(c)
    BY DEF Init, Busy, IdleCall
  <1> QED  BY <1>5, <1>6, <1>7 DEF KeysOwned, Owns

\* A step leaves the rows of tenant u alone.
AccountsSpared(u, table) == \A a \in AccountIds : table[<<u, a>>] = accounts[<<u, a>>]
MessagesSpared(u, table) == \A i \in Ids : table[<<u, i>>] = messages[<<u, i>>]
Spared(u) ==
    tenants'[u] = tenants[u] /\ AccountsSpared(u, accounts') /\ MessagesSpared(u, messages')

LEMMA RowsSpared ==
  ASSUME TablesOK, NEW t, NEW u \in Tenants \ {t}
  PROVE  /\ \A keys : (\A k \in keys \cap MessageKeys : k[1] = t)
                      => MessagesSpared(u, DeleteMessages(keys))
         /\ \A keys : (\A k \in keys \cap AccountKeys : k[1] = t)
                      => AccountsSpared(u, DeleteAccounts(keys))
         /\ \A k, row : k[1] = t => /\ MessagesSpared(u, UpdateMessage(k, row))
                                    /\ MessagesSpared(u, [messages EXCEPT ![k] = row])
                                    /\ AccountsSpared(u, [accounts EXCEPT ![k] = row])
  <1>1. /\ \A i \in Ids : <<u, i>> \in MessageKeys /\ <<u, i>>[1] = u
        /\ \A a \in AccountIds : <<u, a>> \in AccountKeys /\ <<u, a>>[1] = u
    BY DEF MessageKeys, AccountKeys
  <1>2. ASSUME NEW keys, \A k \in keys \cap MessageKeys : k[1] = t
        PROVE  MessagesSpared(u, DeleteMessages(keys))
    BY <1>1, <1>2 DEF MessagesSpared, DeleteMessages
  <1>3. ASSUME NEW keys, \A k \in keys \cap AccountKeys : k[1] = t
        PROVE  AccountsSpared(u, DeleteAccounts(keys))
    BY <1>1, <1>3 DEF AccountsSpared, DeleteAccounts
  <1>4. ASSUME NEW k, NEW row, k[1] = t
        PROVE  /\ MessagesSpared(u, UpdateMessage(k, row))
               /\ MessagesSpared(u, [messages EXCEPT ![k] = row])
               /\ AccountsSpared(u, [accounts EXCEPT ![k] = row])
    <2>1. /\ \A i \in Ids : <<u, i>> # k
          /\ \A a \in AccountIds : <<u, a>> # k
      BY <1>1, <1>4
    <2> QED  BY <1>1, <2>1 DEF TablesOK, MessagesSpared, AccountsSpared, UpdateMessage
  <1> QED  BY <1>2, <1>3, <1>4

\* Whose a key is decides whose the rows are that a statement finds by it.
LEMMA FoundByKey ==
  ASSUME TablesOK, NEW owner, Owns(owner), NEW t
  PROVE  /\ \A pk : pk # 0 /\ Owned(owner, nextPk, t, pk)
                    => \A k \in MessageKeys : messages[k].pk = pk => k[1] = t
         /\ \A k \in FullyReportedForTenant(t) : k[1] = t
  <1>1. /\ AccountsOwned(owner, nextPk, accounts) /\ MessagesOwned(owner, nextPk, messages)
    BY DEF Owns
  <1>2. \A k \in MessageKeys : JoinsTenant(k, t) => k[1] = t
    BY <1>1 DEF JoinsTenant, AccountsOf, AccountsOwned, MessagesOwned, Owned
  <1> QED  BY <1>1, <1>2 DEF MessagesOwned, Owned, FullyReportedForTenant

LEMMA TenantSpared ==
  ASSUME TablesOK, NEW c \in Calls, calls[c].t \in Tenants,
         WriteTenant(c) \/ InsertTenant(c) \/ RemoveTenant(c) \/ WriteKey(c),
         NEW u \in Tenants \ {calls[c].t}
  PROVE  Spared(u)
  <1>1. UNCHANGED <<accounts, messages>>
    BY DEF WriteTenant, InsertTenant, RemoveTenant, WriteKey
  <1>2. tenants'[u] = tenants[u]
    <2>1. CASE WriteTenant(c)
      BY <2>1 DEF TablesOK, WriteTenant, UpdateTenant
    <2>2. CASE InsertTenant(c)
      BY <2>2 DEF TablesOK, InsertTenant
    <2>3. CASE RemoveTenant(c)
      BY <2>3 DEF TablesOK, RemoveTenant
    <2>4. CASE WriteKey(c)
      BY <2>4 DEF TablesOK, WriteKey, SetApiKey
    <2> QED  BY <2>1, <2>2, <2>3, <2>4
  <1> QED  BY <1>1, <1>2 DEF Spared, AccountsSpared, MessagesSpared

\* Except for the message that call c removes by the pk it was given.
SparedBy(c, u) ==
    /\ tenants'[u] = tenants[u] /\ AccountsSpared(u, accounts')
    /\ \A i \in Ids : \/ messages'[<<u, i>>] = messages[<<u, i>>]
                      \/ DeletedByPk(calls[c], <<u, i>>)

LEMMA OtherSpared ==
  ASSUME TypeInv, KeysOwned, NEW c \in Calls, OtherStep(c), NEW u \in Tenants \ {calls[c].t}
  PROVE  SparedBy(c, u)
  <1> DEFINE call == calls[c]
  <1>1. PICK owner : Owns(owner)
    BY DEF KeysOwned
  <1>2. CallsFine /\ TablesOK
    BY DEF TypeInv
  <1>3. Busy(c) /\ call \in Call /\ Shape(call) /\ CallOwned(owner, nextPk, call)
    BY <1>1, <1>2, BusyCall
       DEF OtherStep, SelectTenant, RemoveMessages, RemoveAccounts, SelectAccount, WriteAccount,
           RemoveAccount, Resolve, LookupMessage, InsertMessage, SelectMessage, StoreMessage,
           RefusedEvent, MarkRefused, GetMessage, RemoveMessage, Cleanup, At, Owns
  <1>4. tenants' = tenants
    BY DEF OtherStep, SelectTenant, RemoveMessages, RemoveAccounts, SelectAccount, WriteAccount,
           RemoveAccount, Resolve, LookupMessage, InsertMessage, SelectMessage, StoreMessage,
           RefusedEvent, MarkRefused, GetMessage, RemoveMessage, Cleanup, tables
  <1>5. ASSUME UNCHANGED accounts, MessagesSpared(u, messages')
        PROVE  SparedBy(c, u)
    BY <1>4, <1>5 DEF SparedBy, MessagesSpared, AccountsSpared
  <1>6. ASSUME UNCHANGED messages, AccountsSpared(u, accounts')
        PROVE  SparedBy(c, u)
    BY <1>4, <1>6 DEF SparedBy
  <1>7. CASE SelectTenant(c) \/ SelectAccount(c) \/ Resolve(c) \/ LookupMessage(c)
             \/ SelectMessage(c) \/ GetMessage(c) \/ RefusedEvent(c)
    BY <1>5, <1>7
       DEF SelectTenant, SelectAccount, Resolve, LookupMessage, SelectMessage, GetMessage,
           RefusedEvent, tables, MessagesSpared
  <1>8. CASE RemoveMessages(c) \/ (RemoveMessage(c) /\ call.op # "delete") \/ Cleanup(c)
    <2>1. PICK keys : messages' = DeleteMessages(keys) /\ \A k \in keys : k[1] = call.t
      <3>1. CASE RemoveMessages(c)
        BY <3>1 DEF RemoveMessages, MessagesOf
      <3>2. CASE RemoveMessage(c) /\ call.op # "delete"
        <4>1. call.pk # 0 /\ Owned(owner, nextPk, call.t, call.pk)
          BY <1>3, <3>2 DEF RemoveMessage, Shape, CallOwned
        <4> DEFINE keys == {k \in MessageKeys : messages[k].pk = call.pk}
        <4>2. \A k \in keys : k[1] = call.t
          BY <1>1, <1>2, <4>1, FoundByKey
        <4> QED  BY <3>2, <4>2 DEF RemoveMessage, RemoveByPk
      <3>3. CASE Cleanup(c)
        BY <1>1, <1>2, <3>3, FoundByKey DEF Cleanup
      <3> QED  BY <1>8, <3>1, <3>2, <3>3
    <2>2. MessagesSpared(u, messages')
      BY <1>2, <2>1, RowsSpared
    <2> QED  BY <1>5, <1>8, <2>2 DEF RemoveMessages, RemoveMessage, Cleanup
  <1>9. CASE RemoveAccounts(c) \/ RemoveAccount(c)
    <2>1. PICK keys : accounts' = DeleteAccounts(keys) /\ \A k \in keys : k[1] = call.t
      <3>1. CASE RemoveAccounts(c)
        BY <3>1 DEF RemoveAccounts, AccountsOf
      <3>2. CASE RemoveAccount(c)
        <4> DEFINE keys == {<<call.t, call.a>>}
        <4>1. accounts' = DeleteAccounts(keys) /\ \A k \in keys : k[1] = call.t
          BY <3>2 DEF RemoveAccount
        <4> HIDE DEF keys
        <4> QED  BY <4>1
      <3> QED  BY <1>9, <3>1, <3>2
    <2>2. AccountsSpared(u, accounts')
      BY <1>2, <2>1, RowsSpared
    <2> QED  BY <1>6, <1>9, <2>2 DEF RemoveAccounts, RemoveAccount
  <1>10. CASE WriteAccount(c)
    <2>1. \/ accounts' = accounts
          \/ \E row : accounts' = [accounts EXCEPT ![<<call.t, call.a>>] = row]
      BY <1>10 DEF WriteAccount
    <2>2. AccountsSpared(u, accounts')
      <3>1. CASE accounts' = accounts
        BY <3>1 DEF AccountsSpared
      <3>2. CASE accounts' # accounts
        <4>1. PICK row : accounts' = [accounts EXCEPT ![<<call.t, call.a>>] = row]
          BY <2>1, <3>2
        <4>2. <<call.t, call.a>>[1] = call.t
          OBVIOUS
        <4>3. AccountsSpared(u, [accounts EXCEPT ![<<call.t, call.a>>] = row])
          BY <1>2, <4>2, RowsSpared
        <4> QED  BY <4>1, <4>3
      <3> QED  BY <3>1, <3>2
    <2> QED  BY <1>6, <1>10, <2>2 DEF WriteAccount
  <1>11. CASE InsertMessage(c) \/ StoreMessage(c) \/ MarkRefused(c)
    <2>1. Key(call)[1] = call.t
      BY DEF Key
    <2>2. \/ messages' = messages
          \/ \E row : \/ messages' = [messages EXCEPT ![Key(call)] = row]
                      \/ messages' = UpdateMessage(Key(call), row)
      BY <1>11 DEF InsertMessage, StoreMessage, MarkRefused
    <2>3. MessagesSpared(u, messages')
      <3>1. CASE messages' = messages
        BY <3>1 DEF MessagesSpared
      <3>2. CASE messages' # messages
        <4>1. PICK row : \/ messages' = [messages EXCEPT ![Key(call)] = row]
                         \/ messages' = UpdateMessage(Key(call), row)
          BY <2>2, <3>2
        <4>2. /\ MessagesSpared(u, [messages EXCEPT ![Key(call)] = row])
              /\ MessagesSpared(u, UpdateMessage(Key(call), row))
          BY <1>2, <2>1, RowsSpared
        <4> QED  BY <4>1, <4>2
      <3> QED  BY <3>1, <3>2
    <2> QED  BY <1>5, <1>11, <2>3 DEF InsertMessage, StoreMessage, MarkRefused
  <1>12. CASE RemoveMessage(c) /\ call.op = "delete"
    <2>1. accounts' = accounts /\ messages' = RemoveByPk(call.pk)
      BY <1>12 DEF RemoveMessage
    <2>2. \A i \in Ids : \/ messages'[<<u, i>>] = messages[<<u, i>>]
                        \/ DeletedByPk(call, <<u, i>>)
      <3>1. \A i \in Ids : <<u, i>> \in MessageKeys
        BY DEF MessageKeys
      <3> QED  BY <1>12, <2>1, <3>1 DEF RemoveByPk, DeleteMessages, DeletedByPk
    <2> QED  BY <1>4, <2>1, <2>2 DEF SparedBy, AccountsSpared
  <1> QED  BY <1>7, <1>8, <1>9, <1>10, <1>11, <1>12 DEF OtherStep

LEMMA OtherPuts ==
  ASSUME TypeInv, NEW c \in Calls, OtherStep(c)
  PROVE  \E new : Puts(c, new)
  <1>1. CallsFine /\ TablesOK
    BY DEF TypeInv
  <1> QED  BY <1>1, SelectTenantMoves, GoToMoves, SelectAccountMoves, OtherWritesQuiet, ResolveMoves,
              LookupMoves, InsertMoves, SelectMessageMoves, GetMessageMoves
           DEF OtherStep, Quietly, Moves

LEMMA StepSpares ==
  ASSUME TypeInv, KeysOwned, [Next]_vars, NEW c \in Calls, calls'[c] # calls[c], Busy(c),
         NEW u \in Tenants \ {calls[c].t}
  PROVE  SparedBy(c, u)
  <1>1. CallsFine /\ TablesOK
    BY DEF TypeInv
  <1>2. ASSUME NEW d \in Calls, NEW new, Puts(d, new)
        PROVE  d = c
    BY <1>1, <1>2 DEF Puts, CallsFine
  <1>3. ASSUME UNCHANGED <<tenants, accounts, messages>>
        PROVE  Spared(u)
    BY <1>3 DEF Spared, AccountsSpared, MessagesSpared
  <1>0. Spared(u) => SparedBy(c, u)
    BY DEF Spared, SparedBy, MessagesSpared
  <1>4. ASSUME NEW d \in Calls, NEW t \in Tenants, Request(d, t)
        PROVE  Spared(u)
    <2>1. PICK new : Begin(d, new)
      BY <1>1, <1>4, RequestBegins
    <2> QED  BY <1>3, <2>1 DEF Begin, tables
  <1>5. ASSUME NEW d \in Calls, QuietStep(d)
        PROVE  Spared(u)
    BY <1>3, <1>5, QuietSteps DEF rows
  <1>6. ASSUME NEW d \in Calls, WriteTenant(d) \/ InsertTenant(d) \/ RemoveTenant(d) \/ WriteKey(d)
        PROVE  Spared(u)
    <2>1. d = c
      BY <1>1, <1>2, <1>6, TenantWritesQuiet DEF Quietly
    <2>2. calls[c].t \in Tenants
      BY <1>1, BusyCall DEF Busy
    <2> QED  BY <1>1, <1>6, <2>1, <2>2, TenantSpared
  <1>7. ASSUME NEW d \in Calls, OtherStep(d)
        PROVE  SparedBy(c, u)
    <2>1. d = c
      BY <1>2, <1>7, OtherPuts
    <2> QED  BY <1>7, <2>1, OtherSpared
  <1>8. ~(\E k \in MessageKeys : Deliver(k)) /\ ~(\E pk \in 1..MaxPk : Report(pk))
        /\ ~ReadResult /\ ~UNCHANGED vars
    BY DEF Deliver, Report, ReadResult, vars
  <1>9. Crash => Spared(u)
    BY <1>3 DEF Crash, tables
  <1> QED  BY <1>0, <1>4, <1>5, <1>6, <1>7, <1>8, <1>9, Steps

\* TenantIsolation: no step of a call for one tenant touches rows of another one, though
\* messages and accounts are found by keys that all tenants draw from one counter;
\* only MessageEndpoint.delete removes the message it is given, whatever tenant it belongs to.
THEOREM TenantsAreIsolated == Spec => TenantIsolation
  <1>1. Init => KeysOwned
    BY OwnsInit
  <1>2. TypeInv /\ KeysOwned /\ [Next]_vars => KeysOwned'
    BY OwnsStep
  <1>3. TypeInv /\ KeysOwned /\ [Next]_vars
        => [\A c \in Calls : calls'[c] # calls[c] /\ Busy(c) =>
              \A u \in Tenants \ {calls[c].t} :
                 /\ tenants'[u] = tenants[u]
                 /\ \A a \in AccountIds : accounts'[<<u, a>>] = accounts[<<u, a>>]
                 /\ \A i \in Ids : \/ messages'[<<u, i>>] = messages[<<u, i>>]
                                   \/ DeletedByPk(calls[c], <<u, i>>)]_vars
    BY StepSpares DEF SparedBy, AccountsSpared
  <1> QED  BY <1>1, <1>2, <1>3, SpecTypes, PTL DEF Spec, TenantIsolation

-----------------------------------------------------------------------------
(* Induction over an initial part of the naturals, by a least counterexample. *)

\* Every set of naturals that is not empty has a least element.
LEMMA Least ==
  ASSUME NEW T \in SUBSET Nat, T # {}
  PROVE  \E n \in T : \A u \in T : n <= u
  <1> DEFINE Below == OpToRel(<, Nat)
  <1>1. Below = {p \in Nat \X Nat : p[1] < p[2]}
    BY Zenon DEF OpToRel
  <1>2. IsWellFoundedOn(Below, Nat)
    BY NatLessThanWellFounded
  <1>3. \A u, n \in Nat : u < n => <<u, n>> \in Below
    BY <1>1
  <1> HIDE DEF Below
  <1>4. PICK n \in T : \A u \in T : ~(<<u, n>> \in Below)
    BY <1>2, WFMin
  <1>5. n \in Nat /\ \A u \in T : u \in Nat
    OBVIOUS
  <1>6. \A u \in T : ~(u < n)
    BY <1>3, <1>4, <1>5, Zenon
  <1> QED  BY <1>5, <1>6

\* A set that holds 0, and n + 1 with every n below L, holds all of 0..L.
LEMMA Induction ==
  ASSUME NEW L \in Nat, NEW S \in SUBSET Nat, 0 \in S, \A n \in S : n < L => n + 1 \in S
  PROVE  0..L \subseteq S
  <1> DEFINE T == 0..L \ S
  <1>1. ASSUME T # {}
        PROVE  FALSE
    <2>1. T \in SUBSET Nat
      OBVIOUS
    <2>2. PICK n \in T : \A u \in T : n <= u
      BY <1>1, <2>1, Least
    <2>3. n \in Nat /\ n # 0 /\ n <= L /\ n \notin S
      BY <2>2
    <2>4. n - 1 \in Nat /\ n - 1 < n /\ n - 1 \in 0..L /\ ~(n <= n - 1)
      BY <2>3
    <2>5. n - 1 \in S
      BY <2>2, <2>4
    <2>6. n - 1 + 1 \in S
      BY <2>3, <2>4, <2>5
    <2> QED  BY <2>3, <2>6
  <1> QED  BY <1>1

-----------------------------------------------------------------------------
(* What the log tells of the tenants.                                      *)

\* The commands that change what can be seen of a tenant.
RowOps == TenantOps \ KeyOps

View(row) == [there |-> row.there, active |-> row.active, suspended |-> row.suspended]

\* What an entry makes of what can be seen of its tenant.
Redo(v, e) ==
    IF ~v.there /\ e.op # "addTenant" THEN v
    ELSE CASE e.op = "suspend"      -> SuspendBatch(v, e.codes)
           [] e.op = "activate"     -> ActivateBatch(v, e.codes)
           [] e.op = "updateTenant" -> UpdateFields(v, e.active)
           [] e.op = "addTenant"    -> IF v.there THEN AddExisting(v, e.active)
                                       ELSE [there |-> TRUE, active |-> e.active, suspended |-> {}]
           [] e.op = "deleteTenant" -> View(NoTenant)
           [] OTHER                 -> v

\* The command has been executed for t and is not in the log yet.
Waits(call, t) == call.pc = "log" /\ call.op \in RowOps /\ call.t = t

Changes(c) == Busy(c) /\ calls[c].op \in TenantOps

\* What a call that changes a tenant, with nobody beside it, knows of its row.
Ready(call, row) ==
    /\ call.op \in RowOps => ~call.rest
    /\ call.pc = "write" /\ call.op \in RecordOps \cup {"addTenant"} => call.tenantCopy = row
    /\ call.op = "addTenant" /\ call.pc \in {"select", "write"} => row.there
    /\ call.op = "addTenant" /\ call.pc = "insert" => ~row.there

\* v is what the log tells of t: its row, or its row before the command whose
\* entry is still to come.
Shows(v, t) ==
    /\ (\A c \in Calls : ~Waits(calls[c], t)) => View(tenants[t]) = v[t]
    /\ \A c \in Calls : Waits(calls[c], t) => View(tenants[t]) = Redo(v[t], Entry(calls[c]))

\* The same for the tenants of a log.
Redone(vs, e) == [t \in Tenants |-> IF t = e.t THEN Redo(vs[t], e) ELSE vs[t]]

\* f takes what can be seen at the start from entry to entry.
Replays(lg, f) ==
    /\ f[0] = Visible(InitTenants)
    /\ \A n \in 1..Len(lg) : f[n] = Redone(f[n - 1], lg[n])

LogEntry == [op: KnownOps, t: Tenants, codes: SUBSET Codes, active: BOOLEAN]

Reaches(lg, v) == \E f : Replays(lg, f) /\ f[Len(lg)] = v

\* Unless something has come in between, calls that change a tenant come one
\* at a time, and the log leads to the tenants of now.
LogSound ==
    /\ log \in Seq(LogEntry)
    /\ ~gap =>
          /\ \A c, d \in Calls : Changes(c) /\ Changes(d) /\ calls[c].t = calls[d].t => c = d
          /\ \A c \in Calls : Changes(c) => Ready(calls[c], tenants[calls[c].t])
          /\ \A t \in Tenants : ~tenants[t].there => View(tenants[t]) = View(NoTenant)
          /\ \E v : Reaches(log, v) /\ \A t \in Tenants : Shows(v, t)

\* There is one way to go through a log.
LEMMA ReplaysAgree ==
  ASSUME NEW lg \in Seq(LogEntry), NEW f, NEW g, Replays(lg, f), Replays(lg, g)
  PROVE  f[Len(lg)] = g[Len(lg)]
  <1> DEFINE L == Len(lg)
             S == {n \in Nat : n \in 0..L => f[n] = g[n]}
  <1>1. L \in Nat /\ 0 \in S /\ S \in SUBSET Nat
    BY DEF Replays
  <1>2. ASSUME NEW n \in S, n < L
        PROVE  n + 1 \in S
    <2>1. n + 1 \in 1..L /\ n + 1 - 1 = n /\ n \in 0..L
      BY <1>1, <1>2
    <2> QED  BY <2>1 DEF Replays
  <1> HIDE DEF S
  <1>3. 0..L \subseteq S
    BY <1>1, <1>2, Induction
  <1>4. L \in S
    BY <1>1, <1>3
  <1> QED  BY <1>1, <1>4 DEF S

LEMMA ReachesNothing ==
  Reaches(<<>>, Visible(InitTenants))
  <1>1. Replays(<<>>, [n \in {0} |-> Visible(InitTenants)])
    BY DEF Replays
  <1> QED  BY <1>1 DEF Reaches

LEMMA ReachesAppend ==
  ASSUME NEW lg \in Seq(LogEntry), NEW e \in LogEntry, NEW v, Reaches(lg, v)
  PROVE  Reaches(Append(lg, e), Redone(v, e))
  <1> DEFINE L == Len(lg)
             longer == Append(lg, e)
  <1>1. PICK f : Replays(lg, f) /\ f[L] = v
    BY DEF Reaches
  <1> DEFINE g == [n \in 0..(L + 1) |-> IF n = L + 1 THEN Redone(v, e) ELSE f[n]]
  <1>2. L \in Nat /\ Len(longer) = L + 1 /\ longer[L + 1] = e /\ \A n \in 1..L : longer[n] = lg[n]
    OBVIOUS
  <1>3. g[0] = Visible(InitTenants) /\ g[L + 1] = Redone(v, e)
    BY <1>1, <1>2 DEF Replays
  <1>4. ASSUME NEW n \in 1..(L + 1)
        PROVE  g[n] = Redone(g[n - 1], longer[n])
    <2>1. CASE n = L + 1
      <3>1. g[n - 1] = v
        BY <1>1, <1>2, <2>1
      <3> QED  BY <1>2, <1>3, <2>1, <3>1
    <2>2. CASE n # L + 1
      <3>1. n \in 1..L /\ n - 1 \in 0..L /\ n \in 0..(L + 1) /\ n - 1 \in 0..(L + 1) /\ n - 1 # L + 1
        BY <1>2, <2>2
      <3>2. g[n] = f[n] /\ g[n - 1] = f[n - 1]
        BY <2>2, <3>1
      <3> QED  BY <1>1, <1>2, <3>1, <3>2 DEF Replays
    <2> QED  BY <2>1, <2>2
  <1> HIDE DEF g, longer
  <1>5. Replays(longer, g)
    BY <1>2, <1>3, <1>4 DEF Replays
  <1> QED  BY <1>2, <1>3, <1>5 DEF Reaches, longer

-----------------------------------------------------------------------------
(* What the export of the log gives.                                       *)

\* A row of Replay: its key is drawn anew and may be one more than MaxKeys.
ReplayRow == [there: BOOLEAN, active: BOOLEAN, suspended: (SUBSET Codes) \cup {All}, key: Nat]

LEMMA SuspendSeen ==
  ASSUME NEW row \in ReplayRow, NEW codes \in SUBSET Codes
  PROVE  /\ SuspendBatch(row, codes) \in ReplayRow
         /\ View(SuspendBatch(row, codes)) = SuspendBatch(View(row), codes)
  <1> DEFINE s == IF codes = {} \/ row.suspended = All THEN All ELSE row.suspended \cup codes
  <1>1. row.suspended \in (SUBSET Codes) \cup {All}
    BY DEF ReplayRow
  <1>2. row.suspended # All => row.suspended \cup codes \in SUBSET Codes
    BY <1>1
  <1>3. s \in (SUBSET Codes) \cup {All}
    BY <1>2
  <1>4. SuspendBatch(row, codes) = [row EXCEPT !.suspended = s]
    BY DEF SuspendBatch
  <1>5. SuspendBatch(View(row), codes) = [there |-> row.there, active |-> row.active, suspended |-> s]
    BY DEF SuspendBatch, View
  <1> HIDE DEF s
  <1>6. /\ [row EXCEPT !.suspended = s] \in ReplayRow
        /\ View([row EXCEPT !.suspended = s])
             = [there |-> row.there, active |-> row.active, suspended |-> s]
    BY <1>3 DEF ReplayRow, View
  <1> QED  BY <1>4, <1>5, <1>6

LEMMA ActivateSeen ==
  ASSUME NEW row \in ReplayRow, NEW codes \in SUBSET Codes
  PROVE  /\ ActivateBatch(row, codes) \in ReplayRow
         /\ View(ActivateBatch(row, codes)) = ActivateBatch(View(row), codes)
  <1> DEFINE s == IF codes = {} THEN {}
                  ELSE IF row.suspended = All THEN All ELSE row.suspended \ codes
  <1>1. row.suspended \in (SUBSET Codes) \cup {All} /\ {} \in SUBSET Codes
    BY DEF ReplayRow
  <1>2. row.suspended # All => row.suspended \ codes \in SUBSET Codes
    BY <1>1
  <1>3. s \in (SUBSET Codes) \cup {All}
    BY <1>1, <1>2
  <1>4. ActivateBatch(row, codes) = [row EXCEPT !.suspended = s]
    BY DEF ActivateBatch
  <1>5. ActivateBatch(View(row), codes) = [there |-> row.there, active |-> row.active, suspended |-> s]
    BY DEF ActivateBatch, View
  <1> HIDE DEF s
  <1>6. /\ [row EXCEPT !.suspended = s] \in ReplayRow
        /\ View([row EXCEPT !.suspended = s])
             = [there |-> row.there, active |-> row.active, suspended |-> s]
    BY <1>3 DEF ReplayRow, View
  <1> QED  BY <1>4, <1>5, <1>6

LEMMA UpdateSeen ==
  ASSUME NEW row \in ReplayRow, NEW active \in BOOLEAN
  PROVE  /\ UpdateFields(row, active) \in ReplayRow
         /\ View(UpdateFields(row, active)) = UpdateFields(View(row), active)
  BY DEF UpdateFields, ReplayRow, View

LEMMA NewSeen ==
  ASSUME NEW active \in BOOLEAN, nextKey \in Nat
  PROVE  /\ AddNew(active) \in ReplayRow
         /\ View(AddNew(active)) = [there |-> TRUE, active |-> active, suspended |-> {}]
  BY DEF AddNew, NoTenant, ReplayRow, View

LEMMA NoneSeen ==
  NoTenant \in ReplayRow
  BY DEF NoTenant, ReplayRow

\* What an entry makes of a row, the tenants of Replay taken one by one.
LEMMA ReplayedSeen ==
  ASSUME NEW ts \in [Tenants -> ReplayRow], NEW e \in LogEntry, nextKey \in Nat
  PROVE  /\ Replayed(ts, e) \in [Tenants -> ReplayRow]
         /\ Visible(Replayed(ts, e)) = Redone(Visible(ts), e)
  <1> DEFINE row == ts[e.t]
             next == Replayed(ts, e)
  <1>1. /\ e.op \in KnownOps /\ e.t \in Tenants /\ e.codes \in SUBSET Codes /\ e.active \in BOOLEAN
        /\ row \in ReplayRow
    BY DEF LogEntry
  <1>2. View(row).there = row.there
    BY DEF View
  <1>3. \E new \in ReplayRow : next = [ts EXCEPT ![e.t] = new] /\ View(new) = Redo(View(row), e)
    <2>1. CASE ~row.there /\ e.op # "addTenant"
      <3>1. next = [ts EXCEPT ![e.t] = row] /\ Redo(View(row), e) = View(row)
        BY <1>2, <2>1 DEF Replayed, Redo
      <3> QED  BY <1>1, <3>1
    <2>2. CASE row.there /\ e.op = "suspend"
      <3>1. next = [ts EXCEPT ![e.t] = SuspendBatch(row, e.codes)]
        BY <2>2 DEF Replayed
      <3>2. Redo(View(row), e) = SuspendBatch(View(row), e.codes)
        BY <1>2, <2>2 DEF Redo
      <3> QED  BY <1>1, <3>1, <3>2, SuspendSeen
    <2>3. CASE row.there /\ e.op = "activate"
      <3>1. next = [ts EXCEPT ![e.t] = ActivateBatch(row, e.codes)]
        BY <2>3 DEF Replayed
      <3>2. Redo(View(row), e) = ActivateBatch(View(row), e.codes)
        BY <1>2, <2>3 DEF Redo
      <3> QED  BY <1>1, <3>1, <3>2, ActivateSeen
    <2>4. CASE row.there /\ e.op \in {"updateTenant", "addTenant"}
      <3>1. next = [ts EXCEPT ![e.t] = UpdateFields(row, e.active)]
        BY <2>4 DEF Replayed, AddExisting
      <3>2. Redo(View(row), e) = UpdateFields(View(row), e.active)
        BY <1>2, <2>4 DEF Redo, AddExisting
      <3> QED  BY <1>1, <3>1, <3>2, UpdateSeen
    <2>5. CASE ~row.there /\ e.op = "addTenant"
      <3>1. next = [ts EXCEPT ![e.t] = AddNew(e.active)]
        BY <2>5 DEF Replayed
      <3>2. Redo(View(row), e) = [there |-> TRUE, active |-> e.active, suspended |-> {}]
        BY <1>2, <2>5 DEF Redo
      <3> QED  BY <1>1, <3>1, <3>2, NewSeen
    <2>6. CASE row.there /\ e.op = "deleteTenant"
      <3>1. next = [ts EXCEPT ![e.t] = NoTenant]
        BY <2>6 DEF Replayed
      <3>2. Redo(View(row), e) = View(NoTenant)
        BY <1>2, <2>6 DEF Redo
      <3> QED  BY <3>1, <3>2, NoneSeen
    <2>7. CASE row.there /\ e.op \notin RowOps
      <3>0. e.op \notin {"suspend", "activate", "updateTenant", "addTenant", "deleteTenant"}
        BY <2>7 DEF RowOps, TenantOps, RecordOps, KeyOps
      <3>1. next = [ts EXCEPT ![e.t] = row]
        BY <2>7, <3>0 DEF Replayed
      <3>2. Redo(View(row), e) = View(row)
        BY <1>2, <2>7, <3>0 DEF Redo
      <3> QED  BY <1>1, <3>1, <3>2
    <2> QED  BY <1>1, <2>1, <2>2, <2>3, <2>4, <2>5, <2>6, <2>7
             DEF RowOps, TenantOps, RecordOps, KeyOps, ReplayRow
  <1> HIDE DEF next
  <1>4. PICK new \in ReplayRow : next = [ts EXCEPT ![e.t] = new] /\ View(new) = Redo(View(row), e)
    BY <1>3
  <1>5. next \in [Tenants -> ReplayRow]
    BY <1>1, <1>4
  <1>6. \A t \in Tenants : View(next[t]) = IF t = e.t THEN Redo(View(ts[t]), e) ELSE View(ts[t])
    BY <1>1, <1>4
  <1>7. \A t \in Tenants : Visible(ts)[t] = View(ts[t])
    BY DEF Visible, View
  <1>8. Visible(next) = [t \in Tenants |-> View(next[t])]
    BY DEF Visible, View
  <1>9. Redone(Visible(ts), e)
          = [t \in Tenants |-> IF t = e.t THEN Redo(View(ts[t]), e) ELSE View(ts[t])]
    BY <1>7 DEF Redone
  <1> QED  BY <1>5, <1>6, <1>8, <1>9 DEF next

\* FoldLeft goes over the indices, from the greatest downwards: Replay is where
\* the entries, taken one by one, lead.
LEMMA ReplayReaches ==
  ASSUME log \in Seq(LogEntry), nextKey \in Nat
  PROVE  Reaches(log, Visible(Replay))
  <1> DEFINE L == Len(log)
             Top(s) == CHOOSE x \in s : \A y \in s : x >= y
             Step(g, s) == IF s = {} THEN InitTenants
                           ELSE LET x == Top(s) IN Replayed(g[s \ {x}], log[x])
             G == CHOOSE g : g = [s \in SUBSET DOMAIN log |-> Step(g, s)]
  <1>1. Replay = G[DOMAIN log]
    BY DEF Replay, FoldLeft, MapThenFoldSet, Max
  <1>2. L \in Nat /\ DOMAIN log = 1..L /\ \A n \in 1..L : log[n] \in LogEntry
    OBVIOUS
  <1>3. ASSUME NEW n \in Nat, NEW s \in SUBSET (1..n), n \in s
        PROVE  Top(s) = n
    <2>1. \A y \in s : y \in Nat /\ n >= y
      OBVIOUS
    <2>2. \A x \in s : (\A y \in s : x >= y) => x = n
      BY <1>3, <2>1
    <2> QED  BY <1>3, <2>1, <2>2
  <1> HIDE DEF L, Top
  <1>4. \E g : g = [s \in SUBSET (1..L) |-> Step(g, s)]
    <2> DEFINE P(n) == \E g : g = [s \in SUBSET (1..n) |-> Step(g, s)]
               S == {n \in Nat : P(n)}
    <2>1. 0 \in S
      <3> DEFINE g == [s \in SUBSET (1..0) |-> InitTenants]
      <3>1. \A s \in SUBSET (1..0) : Step(g, s) = InitTenants
        BY DEF Step
      <3> QED  BY <3>1
    <2>2. ASSUME NEW n \in S
          PROVE  n + 1 \in S
      <3>1. n \in Nat /\ n + 1 \in Nat
        OBVIOUS
      <3>2. PICK g : g = [s \in SUBSET (1..n) |-> Step(g, s)]
        OBVIOUS
      <3> DEFINE h == [s \in SUBSET (1..(n + 1)) |->
                         IF n + 1 \in s THEN Replayed(g[s \ {n + 1}], log[n + 1]) ELSE g[s]]
      <3>3. ASSUME NEW s \in SUBSET (1..(n + 1))
            PROVE  h[s] = Step(h, s)
        <4>1. CASE n + 1 \in s
          <5>1. s \ {n + 1} \in SUBSET (1..n) /\ s \ {n + 1} \in SUBSET (1..(n + 1))
            BY <3>1
          <5>2. h[s \ {n + 1}] = g[s \ {n + 1}]
            BY <5>1
          <5>3. Step(h, s) = Replayed(h[s \ {n + 1}], log[n + 1])
            BY <1>3, <3>1, <4>1
          <5> QED  BY <4>1, <5>2, <5>3
        <4>2. CASE n + 1 \notin s
          <5>1. s \in SUBSET (1..n) /\ h[s] = g[s]
            BY <3>1, <4>2
          <5>2. g[s] = Step(g, s)
            BY <3>2, <5>1
          <5>3. s \ {Top(s)} \in SUBSET (1..n) /\ s \ {Top(s)} \in SUBSET (1..(n + 1))
                /\ n + 1 \notin s \ {Top(s)}
            BY <4>2, <5>1
          <5>4. h[s \ {Top(s)}] = g[s \ {Top(s)}]
            BY <5>3
          <5> QED  BY <5>1, <5>2, <5>4
        <4> QED  BY <4>1, <4>2
      <3>4. h = [s \in SUBSET (1..(n + 1)) |-> Step(h, s)]
        <4>1. h = [s \in SUBSET (1..(n + 1)) |-> h[s]]
          OBVIOUS
        <4> HIDE DEF h
        <4> QED  BY <3>3, <4>1
      <3> QED  BY <3>1, <3>4
    <2> HIDE DEF S
    <2>3. 0..L \subseteq S
      <3>1. S \in SUBSET Nat
        BY DEF S
      <3> QED  BY <1>2, <2>1, <2>2, <3>1, Induction
    <2>4. L \in S
      BY <1>2, <2>3
    <2> QED  BY <2>4 DEF S
  <1>5. G = [s \in SUBSET (1..L) |-> Step(G, s)]
    <2>1. \E g : g = [s \in SUBSET DOMAIN log |-> Step(g, s)]
      BY <1>2, <1>4
    <2> QED  BY <1>2, <2>1
  <1> HIDE DEF G
  <1> DEFINE r == [n \in 0..L |-> G[1..n]]
  <1>6. r[0] = InitTenants
    BY <1>2, <1>5
  <1>7. ASSUME NEW n \in 1..L
        PROVE  r[n] = Replayed(r[n - 1], log[n])
    <2>1. n \in Nat /\ n \in 1..n /\ 1..n \in SUBSET (1..L) /\ n - 1 \in 0..L /\ n \in 0..L
      BY <1>2
    <2>2. (1..n) \ {n} = 1..(n - 1)
      BY <1>2
    <2>3. Top(1..n) = n
      BY <1>3, <2>1
    <2>4. G[1..n] = Step(G, 1..n)
      BY <1>5, <2>1
    <2>5. G[1..n] = Replayed(G[1..(n - 1)], log[n])
      BY <2>1, <2>2, <2>3, <2>4
    <2> QED  BY <2>1, <2>5
  <1>8. Replay = r[L]
    BY <1>1, <1>2
  <1> HIDE DEF r
  <1>9. \A n \in 0..L : r[n] \in [Tenants -> ReplayRow]
    <2> DEFINE S == {n \in Nat : n \in 0..L => r[n] \in [Tenants -> ReplayRow]}
    <2>1. 0 \in S /\ S \in SUBSET Nat
      <3>1. InitTenants \in [Tenants -> ReplayRow]
        <4>1. ASSUME NEW t \in Tenants
              PROVE  [NoTenant EXCEPT !.there = t \in Existing] \in ReplayRow
          <5>1. (t \in Existing) \in BOOLEAN
            OBVIOUS
          <5> QED  BY <5>1, NoneSeen DEF ReplayRow
        <4> QED  BY <4>1 DEF InitTenants
      <3> QED  BY <1>6, <3>1
    <2>2. \A n \in S : n < L => n + 1 \in S
      <3>1. ASSUME NEW n \in S, n < L
            PROVE  r[n + 1] \in [Tenants -> ReplayRow] /\ n + 1 \in Nat
        <4>1. n \in 0..L /\ n + 1 \in 1..L /\ n + 1 - 1 = n /\ n \in Nat
          BY <1>2, <3>1
        <4>2. r[n + 1] = Replayed(r[n], log[n + 1]) /\ r[n] \in [Tenants -> ReplayRow]
          BY <1>7, <4>1
        <4>3. log[n + 1] \in LogEntry
          BY <1>2, <4>1
        <4> QED  BY <4>1, <4>2, <4>3, ReplayedSeen
      <3> QED  BY <3>1
    <2> HIDE DEF S
    <2>3. 0..L \subseteq S
      BY <1>2, <2>1, <2>2, Induction
    <2> QED  BY <2>3 DEF S
  <1> DEFINE f == [n \in 0..L |-> Visible(r[n])]
  <1>10. f[0] = Visible(InitTenants) /\ f[L] = Visible(Replay)
    BY <1>2, <1>6, <1>8
  <1>11. ASSUME NEW n \in 1..L
         PROVE  f[n] = Redone(f[n - 1], log[n])
    <2>1. n \in 0..L /\ n - 1 \in 0..L /\ log[n] \in LogEntry
      BY <1>2
    <2>2. Visible(r[n]) = Redone(Visible(r[n - 1]), log[n])
      BY <1>7, <1>9, <2>1, ReplayedSeen
    <2> QED  BY <2>1, <2>2
  <1> HIDE DEF f
  <1>12. Replays(log, f) /\ f[Len(log)] = Visible(Replay)
    BY <1>10, <1>11 DEF Replays, L
  <1> QED  BY <1>12 DEF Reaches

-----------------------------------------------------------------------------
(* Every step keeps the log sound.                                         *)

LEMMA TenantSeen ==
  ASSUME TypeInv
  PROVE  /\ nextKey \in Nat /\ tenants \in [Tenants -> TenantRow]
         /\ \A row \in TenantRow : row \in ReplayRow
  <1>1. \A n \in 0..MaxKeys : n \in Nat
    BY Bounds
  <1>2. nextKey \in Nat /\ tenants \in [Tenants -> TenantRow]
    BY Bounds DEF TypeInv, TablesOK
  <1> QED  BY <1>1, <1>2 DEF TenantRow, ReplayRow

\* A call goes on, and its tenant's row with it, while no other call changes
\* that row.
LEMMA SoundMoves ==
  ASSUME CallsFine, LogSound, NEW c \in Calls, NEW new, Puts(c, new), Busy(c),
         log' = log, gap' = gap,
         \A t \in Tenants \ {calls[c].t} : tenants'[t] = tenants[t],
         new = IdleCall \/ (new.op = calls[c].op /\ new.t = calls[c].t),
         ~Waits(calls[c], calls[c].t),
         ~gap => LET u == calls[c].t
                 IN  /\ calls[c].op \notin TenantOps => tenants'[u] = tenants[u]
                     /\ calls[c].op \in TenantOps /\ new # IdleCall => Ready(new, tenants'[u])
                     /\ ~tenants'[u].there => View(tenants'[u]) = View(NoTenant)
                     /\ Waits(new, u) => View(tenants'[u]) = Redo(View(tenants[u]), Entry(new))
                     /\ ~Waits(new, u) => View(tenants'[u]) = View(tenants[u])
  PROVE  LogSound'
  <1>0. PICK u \in Tenants : u = calls[c].t
    BY BusyCall DEF Busy
  <1>1. \A d \in Calls : calls'[d] = IF d = c THEN new ELSE calls[d]
    BY DEF CallsFine, Puts
  <1>2. SUFFICES ASSUME ~gap
                 PROVE  /\ \A a, b \in Calls : Changes(a)' /\ Changes(b)' /\ calls'[a].t = calls'[b].t => a = b
                        /\ \A d \in Calls : Changes(d)' => Ready(calls'[d], tenants'[calls'[d].t])
                        /\ \A t \in Tenants : ~tenants'[t].there => View(tenants'[t]) = View(NoTenant)
                        /\ \E v : Reaches(log, v) /\ \A t \in Tenants : Shows(v, t)'
    BY DEF LogSound
  <1>3. /\ calls[c].op \notin TenantOps => tenants'[u] = tenants[u]
        /\ calls[c].op \in TenantOps /\ new # IdleCall => Ready(new, tenants'[u])
        /\ ~tenants'[u].there => View(tenants'[u]) = View(NoTenant)
        /\ Waits(new, u) => View(tenants'[u]) = Redo(View(tenants[u]), Entry(new))
        /\ ~Waits(new, u) => View(tenants'[u]) = View(tenants[u])
    BY <1>0, <1>2
  <1>4. /\ \A a, b \in Calls : Changes(a) /\ Changes(b) /\ calls[a].t = calls[b].t => a = b
        /\ \A d \in Calls : Changes(d) => Ready(calls[d], tenants[calls[d].t])
        /\ \A t \in Tenants : ~tenants[t].there => View(tenants[t]) = View(NoTenant)
    BY <1>2 DEF LogSound
  <1>5. PICK v : Reaches(log, v) /\ \A t \in Tenants : Shows(v, t)
    BY <1>2 DEF LogSound
  <1>6. \A d \in Calls : Changes(d)' => Changes(d) /\ calls'[d].t = calls[d].t
    <2>1. ASSUME Changes(c)'
          PROVE  Changes(c) /\ calls'[c].t = calls[c].t
      <3>1. new.pc # "idle" /\ new.op \in TenantOps
        BY <1>1, <2>1 DEF Changes, Busy
      <3>2. new # IdleCall
        BY <3>1 DEF IdleCall
      <3> QED  BY <1>1, <3>1, <3>2 DEF Changes
    <2> QED  BY <1>1, <2>1 DEF Changes, Busy
  <1>7. \A d \in Calls, t \in Tenants : Waits(calls[d], t) => Changes(d) /\ calls[d].t = t
    BY DEF Waits, Changes, Busy, RowOps
  <1>8. ~Waits(IdleCall, u)
    BY DEF Waits, IdleCall
  <1>9. \A d \in Calls : Changes(d)' => Ready(calls'[d], tenants'[calls'[d].t])
    <2>1. ASSUME Changes(c)'
          PROVE  Ready(calls'[c], tenants'[calls'[c].t])
      <3>1. new # IdleCall
        BY <1>1, <2>1 DEF Changes, Busy, IdleCall
      <3>2. calls[c].op \in TenantOps
        BY <1>6, <2>1 DEF Changes
      <3>3. Ready(new, tenants'[u]) /\ new.t = u
        BY <1>0, <1>3, <3>1, <3>2
      <3> QED  BY <1>1, <3>3
    <2>2. ASSUME NEW d \in Calls \ {c}, Changes(d)'
          PROVE  Ready(calls'[d], tenants'[calls'[d].t])
      <3>1. Changes(d) /\ calls'[d] = calls[d]
        BY <1>1, <1>6, <2>2
      <3>2. calls[d].t \in Tenants
        BY <3>1, BusyCall DEF Changes, Busy
      <3>3. tenants'[calls[d].t] = tenants[calls[d].t]
        <4>1. CASE calls[d].t # u
          BY <1>0, <3>2, <4>1
        <4>2. CASE calls[d].t = u
          <5>1. ~Changes(c)
            BY <1>0, <1>4, <2>2, <3>1, <4>2
          <5> QED  BY <1>3, <4>2, <5>1 DEF Changes
        <4> QED  BY <4>1, <4>2
      <3> QED  BY <1>4, <3>1, <3>3
    <2> QED  BY <2>1, <2>2
  <1>10. \A t \in Tenants : ~tenants'[t].there => View(tenants'[t]) = View(NoTenant)
    BY <1>0, <1>3, <1>4
  <1>11. ASSUME NEW t \in Tenants \ {u}
         PROVE  Shows(v, t)'
    <2>1. tenants'[t] = tenants[t] /\ Shows(v, t)
      BY <1>0, <1>5, <1>11
    <2>2. ~Waits(calls[c], t) /\ ~Waits(new, t)
      BY <1>0, <1>11 DEF Waits, IdleCall
    <2>3. \A d \in Calls : /\ Waits(calls'[d], t) <=> Waits(calls[d], t)
                           /\ Waits(calls[d], t) => calls'[d] = calls[d]
      BY <1>1, <2>2
    <2> QED  BY <2>1, <2>3 DEF Shows
  <1>12. Shows(v, u)'
    <2>0. Shows(v, u)
      BY <1>0, <1>5
    <2>1. CASE calls[c].op \in TenantOps
      <3>1. \A d \in Calls : ~Waits(calls[d], u)
        <4>1. Changes(c)
          BY <2>1 DEF Changes
        <4>2. \A d \in Calls : Waits(calls[d], u) => d = c
          BY <1>0, <1>4, <1>7, <4>1
        <4> QED  BY <1>0, <4>2
      <3>2. View(tenants[u]) = v[u]
        BY <2>0, <3>1 DEF Shows
      <3>3. \A d \in Calls \ {c} : ~Waits(calls'[d], u)
        BY <1>1, <3>1
      <3>4. calls'[c] = new
        BY <1>1
      <3>5. CASE Waits(new, u)
        <4>1. View(tenants'[u]) = Redo(v[u], Entry(new))
          BY <1>3, <3>2, <3>5
        <4> QED  BY <3>3, <3>4, <3>5, <4>1 DEF Shows
      <3>6. CASE ~Waits(new, u)
        BY <1>3, <3>2, <3>3, <3>4, <3>6 DEF Shows
      <3> QED  BY <3>5, <3>6
    <2>2. CASE calls[c].op \notin TenantOps
      <3>1. ~Waits(calls[c], u) /\ ~Waits(new, u)
        BY <1>0, <1>8, <2>2 DEF Waits, RowOps
      <3>2. \A d \in Calls : /\ Waits(calls'[d], u) <=> Waits(calls[d], u)
                             /\ Waits(calls[d], u) => calls'[d] = calls[d]
        BY <1>1, <3>1
      <3> QED  BY <1>3, <2>0, <2>2, <3>2 DEF Shows
    <2> QED  BY <2>1, <2>2
  <1>13. \A a, b \in Calls : Changes(a)' /\ Changes(b)' /\ calls'[a].t = calls'[b].t => a = b
    BY <1>4, <1>6
  <1> QED  BY <1>5, <1>9, <1>10, <1>11, <1>12, <1>13

\* The steps of calls that change no tenant.
ForeignStep(c) ==
    \/ GetAccount(c) \/ CheckItem(c) \/ Publish(c) \/ Reply(c) \/ IdsForTenant(c) \/ NotOwn(c)
    \/ CountLog(c) \/ SelectAccount(c) \/ WriteAccount(c) \/ RemoveAccount(c)
    \/ Resolve(c) \/ LookupMessage(c) \/ InsertMessage(c) \/ SelectMessage(c)
    \/ StoreMessage(c) \/ RefusedEvent(c) \/ MarkRefused(c)
    \/ GetMessage(c) \/ RemoveMessage(c) \/ Cleanup(c)

LEMMA ForeignOps ==
  ASSUME CallsFine, NEW c \in Calls, ForeignStep(c)
  PROVE  Busy(c) /\ calls[c].op \notin TenantOps
  <1>1. calls[c].pc # "idle"
    BY DEF ForeignStep, GetAccount, CheckItem, Publish, Reply, IdsForTenant, NotOwn, CountLog,
           SelectAccount, WriteAccount, RemoveAccount, Resolve, LookupMessage, InsertMessage,
           SelectMessage, StoreMessage, RefusedEvent, MarkRefused, GetMessage, RemoveMessage,
           Cleanup, At
  <1>2. Busy(c) /\ Shape(calls[c])
    BY <1>1, BusyCall
  <1>3. \/ calls[c].pc \in AddPcs \/ calls[c].pc = "ids"
        \/ calls[c].op \in AccountOps \cup MessageOps \cup {"purgeLog"}
    BY DEF ForeignStep, GetAccount, CheckItem, Publish, Reply, IdsForTenant, NotOwn, CountLog,
           SelectAccount, WriteAccount, RemoveAccount, Resolve, LookupMessage, InsertMessage,
           SelectMessage, StoreMessage, RefusedEvent, MarkRefused, GetMessage, RemoveMessage,
           Cleanup, At, AccountOps, MessageOps, AddPcs, BatchPcs, MarkPcs
  <1>4. calls[c].op \in AccountOps \cup MessageOps \cup {"purgeLog"}
    BY <1>2, <1>3 DEF Shape, Adds, MessageOps
  <1> QED  BY <1>2, <1>4 DEF AccountOps, MessageOps, TenantOps, RecordOps, KeyOps

LEMMA ForeignMoves ==
  ASSUME TypeInv, NEW c \in Calls, ForeignStep(c)
  PROVE  /\ \E new : Puts(c, new) /\ (new = IdleCall \/ Fits(calls[c], new))
         /\ UNCHANGED <<tenants, log, gap>>
  <1>1. CallsFine /\ TablesOK
    BY DEF TypeInv
  <1>2. UNCHANGED <<tenants, log, gap>>
    BY DEF ForeignStep, GetAccount, CheckItem, Publish, Reply, IdsForTenant, NotOwn, CountLog,
           SelectAccount, WriteAccount, RemoveAccount, Resolve, LookupMessage, InsertMessage,
           SelectMessage, StoreMessage, RefusedEvent, MarkRefused, GetMessage, RemoveMessage,
           Cleanup, tables, history
  <1> DEFINE Goal == \E new : Puts(c, new) /\ (new = IdleCall \/ Fits(calls[c], new))
  <1>3. Quietly(c) => Goal
    BY DEF Quietly
  <1>4. ASSUME \/ GetAccount(c) \/ CheckItem(c) \/ Publish(c) \/ Reply(c) \/ IdsForTenant(c)
               \/ NotOwn(c) \/ CountLog(c)
        PROVE  Goal
    BY <1>3, <1>4, QuietSteps DEF QuietStep, LogStep
  <1>5. ASSUME \/ WriteAccount(c) \/ RemoveAccount(c) \/ StoreMessage(c) \/ MarkRefused(c)
               \/ RemoveMessage(c) \/ Cleanup(c)
        PROVE  Goal
    BY <1>1, <1>3, <1>5, OtherWritesQuiet
  <1>6. RefusedEvent(c) => Goal
    BY <1>1, GoToMoves DEF Moves
  <1>7. SelectAccount(c) => Goal
    BY <1>1, SelectAccountMoves
  <1>8. Resolve(c) => Goal
    BY <1>1, ResolveMoves
  <1>9. LookupMessage(c) => Goal
    BY <1>1, <1>3, LookupMoves
  <1>10. InsertMessage(c) => Goal
    BY <1>1, <1>3, InsertMoves
  <1>11. SelectMessage(c) => Goal
    BY <1>1, SelectMessageMoves
  <1>12. GetMessage(c) => Goal
    BY <1>1, <1>3, GetMessageMoves
  <1> HIDE DEF Goal
  <1>13. Goal
    BY <1>4, <1>5, <1>6, <1>7, <1>8, <1>9, <1>10, <1>11, <1>12 DEF ForeignStep
  <1> QED  BY <1>2, <1>13 DEF Goal

LEMMA SoundForeign ==
  ASSUME TypeInv, LogSound, NEW c \in Calls, ForeignStep(c)
  PROVE  LogSound'
  <1>1. Busy(c) /\ calls[c].op \notin TenantOps /\ CallsFine
    BY ForeignOps DEF TypeInv
  <1>2. PICK new : Puts(c, new) /\ (new = IdleCall \/ Fits(calls[c], new))
    BY ForeignMoves
  <1>3. UNCHANGED <<tenants, log, gap>>
    BY ForeignMoves
  <1>4. new = IdleCall \/ (new.op = calls[c].op /\ new.t = calls[c].t)
    BY <1>2 DEF Fits
  <1>5. \A t \in Tenants : ~Waits(calls[c], t) /\ ~Waits(new, t)
    BY <1>1, <1>4 DEF Waits, RowOps, IdleCall
  <1>6. calls[c].t \in Tenants
    BY <1>1, BusyCall DEF Busy
  <1>7. ~gap => (~tenants[calls[c].t].there => View(tenants[calls[c].t]) = View(NoTenant))
    BY <1>6 DEF LogSound
  <1> QED  BY <1>1, <1>2, <1>3, <1>4, <1>5, <1>6, <1>7, SoundMoves

\* Once there is a gap, nothing is said but that the log has entries.
LEMMA SoundGap ==
  ASSUME log \in Seq(LogEntry), log' = log, gap'
  PROVE  LogSound'
  BY DEF LogSound

\* The calls that change a tenant: up to the statement that does.
LEMMA Logging ==
  /\ RowOps \subseteq LoggedCommands /\ KeyOps \cap LoggedCommands = {}
  /\ RowOps = RecordOps \cup {"addTenant", "deleteTenant"}
  BY DEF RowOps, TenantOps, RecordOps, KeyOps, LoggedCommands

\* A call that only goes on, or learns what the row is.
LEMMA SoundGoesOn ==
  ASSUME TypeInv, LogSound, ~gap, NEW c \in Calls, Busy(c), NEW new, Puts(c, new),
         UNCHANGED <<tenants, log, gap>>, calls[c].pc # "log",
         \/ new = IdleCall
         \/ /\ new.op = calls[c].op /\ new.t = calls[c].t /\ new.pc # "log"
            /\ Ready(new, tenants[calls[c].t])
  PROVE  LogSound'
  <1>1. CallsFine /\ calls[c].t \in Tenants
    BY BusyCall DEF TypeInv, Busy
  <1>2. \A t \in Tenants : ~Waits(calls[c], t) /\ ~Waits(new, t)
    BY DEF Waits, IdleCall
  <1>3. ~tenants[calls[c].t].there => View(tenants[calls[c].t]) = View(NoTenant)
    BY <1>1 DEF LogSound
  <1>4. new = IdleCall \/ (new.op = calls[c].op /\ new.t = calls[c].t)
    OBVIOUS
  <1>5. new # IdleCall => Ready(new, tenants[calls[c].t])
    OBVIOUS
  <1> QED  BY <1>1, <1>2, <1>3, <1>4, <1>5, SoundMoves

LEMMA SoundReads ==
  ASSUME TypeInv, LogSound, NEW c \in Calls,
         \/ GetTenant(c) \/ SelectTenant(c) \/ RemoveMessages(c) \/ RemoveAccounts(c)
         \/ CreateKeyGet(c)
  PROVE  LogSound'
  <1> DEFINE call == calls[c]
  <1>1. UNCHANGED <<tenants, log, gap>>
    BY DEF GetTenant, SelectTenant, RemoveMessages, RemoveAccounts, CreateKeyGet, tables, history
  <1>2. CASE gap
    BY <1>1, <1>2, SoundGap DEF LogSound
  <1>3. CASE ~gap
    <2>1. call.pc # "log" /\ call.pc # "idle" /\ call.op \in TenantOps
      BY DEF GetTenant, SelectTenant, RemoveMessages, RemoveAccounts, CreateKeyGet, At, TenantOps,
             RecordOps, KeyOps
    <2>2. Busy(c) /\ call \in Call /\ call.t \in Tenants
      BY <2>1, BusyCall DEF TypeInv
    <2>3. Ready(call, tenants[call.t])
      BY <1>3, <2>1, <2>2 DEF LogSound, Changes
    <2>4. ASSUME NEW pc, pc # "log", Puts(c, [call EXCEPT !.pc = pc]),
                 Ready([call EXCEPT !.pc = pc], tenants[call.t])
          PROVE  LogSound'
      <3> DEFINE new == [call EXCEPT !.pc = pc]
      <3>1. new.op = call.op /\ new.t = call.t /\ new.pc = pc
        BY <2>2 DEF Call
      <3> HIDE DEF new
      <3>2. Puts(c, new) /\ Ready(new, tenants[call.t])
        BY <2>4 DEF new
      <3> QED  BY <1>1, <1>3, <2>1, <2>2, <2>4, <3>1, <3>2, SoundGoesOn
    <2>5. \A pc : LET new == [call EXCEPT !.pc = pc]
                  IN  /\ new.op = call.op /\ new.rest = call.rest /\ new.pc = pc
                      /\ new.tenantCopy = call.tenantCopy
      BY <2>2 DEF Call
    <2>6. CASE GetTenant(c)
      <3>1. PICK pc : /\ pc = IF tenants[call.t].there THEN "select" ELSE "insert"
                      /\ Puts(c, [call EXCEPT !.pc = pc])
        BY <2>6 DEF GetTenant, GoTo, Puts
      <3>2. Ready([call EXCEPT !.pc = pc], tenants[call.t])
        BY <2>3, <2>5, <3>1 DEF Ready
      <3> QED  BY <2>4, <3>1, <3>2
    <2>7. CASE RemoveMessages(c) \/ RemoveAccounts(c)
      <3>1. PICK pc \in {"accounts", "tenant"} : Puts(c, [call EXCEPT !.pc = pc])
        BY <2>7 DEF RemoveMessages, RemoveAccounts, GoTo, Puts
      <3>2. Ready([call EXCEPT !.pc = pc], tenants[call.t])
        BY <2>3, <2>5, <3>1 DEF Ready
      <3> QED  BY <2>4, <3>1, <3>2
    <2>8. CASE CreateKeyGet(c)
      <3>1. call.op = "createKey" /\ call.op \notin RowOps /\ call.op \notin LoggedCommands
        BY <2>8, Logging DEF CreateKeyGet, At, KeyOps, RowOps
      <3>2. CASE tenants[call.t].there
        <4>1. Puts(c, [call EXCEPT !.pc = "key"])
          BY <2>8, <3>2 DEF CreateKeyGet, GoTo, Puts
        <4>2. Ready([call EXCEPT !.pc = "key"], tenants[call.t])
          BY <2>3, <2>5, <3>1 DEF Ready
        <4> QED  BY <2>4, <4>1, <4>2
      <3>3. CASE ~tenants[call.t].there
        <4>1. Puts(c, IdleCall)
          BY <2>8, <3>1, <3>3 DEF CreateKeyGet, Answer, Answered, Puts
        <4> QED  BY <1>1, <1>3, <2>1, <2>2, <4>1, SoundGoesOn
      <3> QED  BY <3>2, <3>3
    <2>9. CASE SelectTenant(c)
      <3> DEFINE new == [call EXCEPT !.pc = "write", !.tenantCopy = tenants[call.t]]
      <3>1. Puts(c, new) /\ call.pc = "select"
        BY <2>9 DEF SelectTenant, Puts
      <3>2. /\ new.op = call.op /\ new.t = call.t /\ new.pc = "write" /\ new.rest = call.rest
            /\ new.tenantCopy = tenants[call.t]
        BY <2>2 DEF Call
      <3> HIDE DEF new
      <3>3. Ready(new, tenants[call.t])
        BY <2>3, <3>1, <3>2 DEF Ready
      <3> QED  BY <1>1, <1>3, <2>1, <2>2, <3>1, <3>2, <3>3, SoundGoesOn
    <2> QED  BY <2>6, <2>7, <2>8, <2>9
  <1> QED  BY <1>2, <1>3

\* The statement that changes what can be seen of a row: its entry says how.
LEMMA SoundChange ==
  ASSUME TypeInv, LogSound, ~gap, NEW c \in Calls, Busy(c), calls[c].pc # "log",
         calls[c].op \in RowOps, NEW ok, Answer(c, ok), log' = log, gap' = gap,
         \A t \in Tenants \ {calls[c].t} : tenants'[t] = tenants[t],
         ~tenants'[calls[c].t].there => View(tenants'[calls[c].t]) = View(NoTenant),
         View(tenants'[calls[c].t]) = Redo(View(tenants[calls[c].t]), Entry(calls[c]))
  PROVE  LogSound'
  <1> DEFINE call == calls[c]
             new == [call EXCEPT !.pc = "log", !.ok = ok]
  <1>1. CallsFine /\ call \in Call /\ call.t \in Tenants
    BY BusyCall DEF TypeInv, Busy
  <1>2. call.op \in TenantOps /\ call.op \in LoggedCommands
    BY Logging DEF RowOps
  <1>3. Ready(call, tenants[call.t])
    BY <1>1, <1>2 DEF LogSound, Changes
  <1>4. Puts(c, new)
    BY <1>2, <1>3 DEF Ready, Answer, Answered, Puts
  <1>5. /\ new.op = call.op /\ new.t = call.t /\ new.codes = call.codes /\ new.active = call.active
        /\ new.pc = "log" /\ new.rest = call.rest
    BY <1>1 DEF Call
  <1> HIDE DEF new
  <1>6. Entry(new) = Entry(call) /\ Waits(new, call.t) /\ ~Waits(call, call.t)
    BY <1>5 DEF Entry, Waits
  <1>7. Ready(new, tenants'[call.t])
    BY <1>3, <1>5 DEF Ready
  <1> QED  BY <1>1, <1>2, <1>4, <1>5, <1>6, <1>7, SoundMoves

LEMMA SoundWriteTenant ==
  ASSUME TypeInv, LogSound, NEW c \in Calls, WriteTenant(c)
  PROVE  LogSound'
  <1> DEFINE call == calls[c]
  <1>1. log' = log /\ gap' = gap /\ Answer(c, Succeeds(call, call.tenantCopy))
    BY DEF WriteTenant
  <1>2. CASE gap
    BY <1>1, <1>2, SoundGap DEF LogSound
  <1>3. CASE ~gap
    <2>1. call.pc = "write" /\ call.op \in RecordOps \cup {"addTenant"}
      BY DEF WriteTenant
    <2>2. Busy(c) /\ call \in Call /\ call.t \in Tenants
      BY <2>1, BusyCall DEF TypeInv
    <2>3. /\ call.codes \in SUBSET Codes /\ call.active \in BOOLEAN
          /\ call.tenantCopy \in TenantRow
      BY <2>2, CallFields
    <2>4. call.op \in RowOps /\ call.op \in TenantOps
      BY <2>1, Logging DEF RowOps
    <2>5. PICK row \in TenantRow : row = tenants[call.t]
      BY <2>2, TenantSeen
    <2>6. Ready(call, row)
      BY <1>3, <2>2, <2>4, <2>5 DEF LogSound, Changes
    <2>7. call.tenantCopy = row /\ (call.op = "addTenant" => row.there)
      BY <2>1, <2>6 DEF Ready
    <2>8. tenants' = UpdateTenant(call.t, TenantColumns(call, row))
      BY <2>7 DEF WriteTenant
    <2>9. /\ \A t \in Tenants \ {call.t} : tenants'[t] = tenants[t]
          /\ tenants'[call.t] = IF TenantColumns(call, row).there /\ row.there
                                THEN TenantColumns(call, row) ELSE row
      BY <2>2, <2>5, <2>8, TenantSeen DEF UpdateTenant
    <2>10. row \in ReplayRow /\ View(row).there = row.there
      BY TenantSeen DEF View
    <2>11. /\ Entry(call).op = call.op /\ Entry(call).codes = call.codes
           /\ Entry(call).active = call.active
      BY DEF Entry
    <2>12. CASE row.there
      <3>1. TenantColumns(call, row).there
        BY <2>1, <2>5, <2>12
           DEF RecordOps, TenantColumns, SuspendBatch, ActivateBatch, UpdateFields, AddExisting,
               TenantRow
      <3>2. View(TenantColumns(call, row)) = Redo(View(row), Entry(call))
        <4>1. CASE call.op = "suspend"
          <5>1. /\ TenantColumns(call, row) = SuspendBatch(row, call.codes)
                /\ Redo(View(row), Entry(call)) = SuspendBatch(View(row), call.codes)
            BY <2>10, <2>11, <2>12, <4>1 DEF TenantColumns, Redo
          <5> QED  BY <2>3, <2>10, <5>1, SuspendSeen
        <4>2. CASE call.op = "activate"
          <5>1. /\ TenantColumns(call, row) = ActivateBatch(row, call.codes)
                /\ Redo(View(row), Entry(call)) = ActivateBatch(View(row), call.codes)
            BY <2>10, <2>11, <2>12, <4>2 DEF TenantColumns, Redo
          <5> QED  BY <2>3, <2>10, <5>1, ActivateSeen
        <4>3. CASE call.op \in {"updateTenant", "addTenant"}
          <5>1. /\ TenantColumns(call, row) = UpdateFields(row, call.active)
                /\ Redo(View(row), Entry(call)) = UpdateFields(View(row), call.active)
            BY <2>10, <2>11, <2>12, <4>3 DEF TenantColumns, Redo, AddExisting
          <5> QED  BY <2>3, <2>10, <5>1, UpdateSeen
        <4> QED  BY <2>1, <4>1, <4>2, <4>3 DEF RecordOps
      <3>3. tenants'[call.t] = TenantColumns(call, row)
        BY <2>9, <2>12, <3>1
      <3> QED  BY <1>1, <1>3, <2>1, <2>2, <2>4, <2>5, <2>9, <3>1, <3>2, <3>3, SoundChange
    <2>13. CASE ~row.there
      <3>1. Redo(View(row), Entry(call)) = View(row) /\ tenants'[call.t] = row
        BY <2>7, <2>9, <2>10, <2>11, <2>13 DEF Redo
      <3>2. View(row) = View(NoTenant)
        BY <1>3, <2>2, <2>5, <2>13 DEF LogSound
      <3> QED  BY <1>1, <1>3, <2>1, <2>2, <2>4, <2>5, <2>9, <3>1, <3>2, SoundChange
    <2> QED  BY <2>12, <2>13
  <1> QED  BY <1>2, <1>3

LEMMA SoundInsertTenant ==
  ASSUME TypeInv, LogSound, NEW c \in Calls, InsertTenant(c)
  PROVE  LogSound'
  <1> DEFINE call == calls[c]
  <1>1. log' = log /\ gap' = gap /\ Answer(c, ~tenants[call.t].there)
    BY DEF InsertTenant
  <1>2. CASE gap
    BY <1>1, <1>2, SoundGap DEF LogSound
  <1>3. CASE ~gap
    <2>1. call.pc = "insert" /\ call.op = "addTenant"
      BY DEF InsertTenant, At
    <2>2. Busy(c) /\ call \in Call /\ call.t \in Tenants
      BY <2>1, BusyCall DEF TypeInv
    <2>3. call.active \in BOOLEAN /\ call.op \in RowOps /\ call.op \in TenantOps
      BY <2>1, <2>2, CallFields, Logging DEF RowOps
    <2>4. ~tenants[call.t].there
      BY <1>3, <2>1, <2>2, <2>3 DEF LogSound, Changes, Ready
    <2>5. tenants' = [tenants EXCEPT ![call.t] = AddNew(call.active)]
      BY <2>4 DEF InsertTenant
    <2>6. /\ \A t \in Tenants \ {call.t} : tenants'[t] = tenants[t]
          /\ tenants'[call.t] = AddNew(call.active)
      BY <2>2, <2>5, TenantSeen
    <2>7. Redo(View(tenants[call.t]), Entry(call))
            = [there |-> TRUE, active |-> call.active, suspended |-> {}]
      BY <2>1, <2>4 DEF Redo, View, Entry
    <2>8. /\ View(tenants'[call.t]) = Redo(View(tenants[call.t]), Entry(call))
          /\ tenants'[call.t].there
      BY <2>3, <2>6, <2>7, NewSeen, TenantSeen DEF AddNew, NoTenant
    <2> QED  BY <1>1, <1>3, <2>1, <2>2, <2>3, <2>6, <2>8, SoundChange
  <1> QED  BY <1>2, <1>3

LEMMA SoundRemoveTenant ==
  ASSUME TypeInv, LogSound, NEW c \in Calls, RemoveTenant(c)
  PROVE  LogSound'
  <1> DEFINE call == calls[c]
  <1>1. log' = log /\ gap' = gap /\ Answer(c, tenants[call.t].there)
    BY DEF RemoveTenant
  <1>2. CASE gap
    BY <1>1, <1>2, SoundGap DEF LogSound
  <1>3. CASE ~gap
    <2>1. call.pc = "tenant" /\ call.op = "deleteTenant" /\ call.op \in RowOps
      BY Logging DEF RemoveTenant, At
    <2>2. Busy(c) /\ call.t \in Tenants
      BY <2>1, BusyCall DEF TypeInv
    <2>3. /\ \A t \in Tenants \ {call.t} : tenants'[t] = tenants[t]
          /\ tenants'[call.t] = NoTenant
      BY <2>2, TenantSeen DEF RemoveTenant
    <2>4. Redo(View(tenants[call.t]), Entry(call)) = View(NoTenant)
      <3>1. CASE tenants[call.t].there
        BY <2>1, <3>1 DEF Redo, Entry, View
      <3>2. CASE ~tenants[call.t].there
        <4>1. Redo(View(tenants[call.t]), Entry(call)) = View(tenants[call.t])
          BY <2>1, <3>2 DEF Redo, Entry, View
        <4> QED  BY <1>3, <2>2, <3>2, <4>1 DEF LogSound
      <3> QED  BY <3>1, <3>2
    <2> QED  BY <1>1, <1>3, <2>1, <2>2, <2>3, <2>4, SoundChange
  <1> QED  BY <1>2, <1>3

\* A key is no part of what the log tells.
LEMMA SoundWriteKey ==
  ASSUME TypeInv, LogSound, NEW c \in Calls, WriteKey(c)
  PROVE  LogSound'
  <1> DEFINE call == calls[c]
             key == IF call.op = "createKey" THEN nextKey ELSE 0
  <1>1. log' = log /\ gap' = gap
    BY DEF WriteKey
  <1>2. CASE gap
    BY <1>1, <1>2, SoundGap DEF LogSound
  <1>3. CASE ~gap
    <2>1. /\ call.pc = "key" /\ call.op \in KeyOps /\ call.op \notin LoggedCommands
          /\ call.op \notin RowOps /\ call.op \in TenantOps
      BY Logging DEF WriteKey, RowOps, TenantOps
    <2>2. CallsFine /\ Busy(c) /\ call.t \in Tenants
      BY <2>1, BusyCall DEF TypeInv
    <2>3. tenants' = SetApiKey(call.t, key) /\ Puts(c, IdleCall)
      BY <2>1 DEF WriteKey, Answer, Answered, Puts
    <2> HIDE DEF key
    <2>4. \A row \in TenantRow : View([row EXCEPT !.key = key]) = View(row)
      BY DEF TenantRow, View
    <2>5. /\ \A t \in Tenants \ {call.t} : tenants'[t] = tenants[t]
          /\ View(tenants'[call.t]) = View(tenants[call.t])
      BY <2>2, <2>3, <2>4, TenantSeen DEF SetApiKey
    <2>6. \A row : View(row).there = row.there
      BY DEF View
    <2>7. ~tenants'[call.t].there => View(tenants'[call.t]) = View(NoTenant)
      <3>1. tenants'[call.t].there = tenants[call.t].there
        BY <2>5, <2>6
      <3> QED  BY <1>3, <2>2, <2>5, <3>1 DEF LogSound
    <2>8. \A t \in Tenants : ~Waits(call, t) /\ ~Waits(IdleCall, t)
      BY <2>1 DEF Waits, IdleCall
    <2> QED  BY <1>1, <2>1, <2>2, <2>3, <2>5, <2>7, <2>8, SoundMoves
  <1> QED  BY <1>2, <1>3

\* The entry of a command that has been executed comes to the log.
LEMMA SoundLogged ==
  ASSUME TypeInv, LogSound, NEW c \in Calls, LogCommand(c)
  PROVE  LogSound'
  <1> DEFINE call == calls[c]
             e == Entry(call)
  <1>1. call.pc = "log" /\ CallsFine /\ log \in Seq(LogEntry)
    BY DEF LogCommand, TypeInv, LogSound
  <1>2. Busy(c) /\ call \in Call /\ call.t \in Tenants
    BY <1>1, BusyCall
  <1>3. e \in LogEntry
    <2>1. /\ call.op \in KnownOps /\ call.codes \in SUBSET Codes /\ call.active \in BOOLEAN
      BY <1>2, CallFields
    <2> QED  BY <1>2, <2>1 DEF Entry, LogEntry
  <1>4. CASE log' = log /\ gap'
    BY <1>1, <1>4, SoundGap
  <1>5. CASE log' = Append(log, e) /\ gap' = gap
    <2>0. log' \in Seq(LogEntry)
      BY <1>1, <1>3, <1>5
    <2>1. CASE gap
      BY <1>5, <2>0, <2>1 DEF LogSound
    <2>2. CASE ~gap
      <3>1. /\ \A a, b \in Calls : Changes(a) /\ Changes(b) /\ calls[a].t = calls[b].t => a = b
            /\ \A d \in Calls : Changes(d) => Ready(calls[d], tenants[calls[d].t])
            /\ \A t \in Tenants : ~tenants[t].there => View(tenants[t]) = View(NoTenant)
        BY <2>2 DEF LogSound
      <3>2. PICK v : Reaches(log, v) /\ \A t \in Tenants : Shows(v, t)
        BY <2>2 DEF LogSound
      <3>3. PICK w : w = Redone(v, e)
        OBVIOUS
      <3>4. Reaches(log', w)
        BY <1>1, <1>3, <1>5, <3>2, <3>3, ReachesAppend
      <3>5. tenants' = tenants /\ \A d \in Calls : calls'[d] = IF d = c THEN IdleCall ELSE calls[d]
        BY <1>1 DEF LogCommand, CallsFine
      <3>6. ASSUME NEW d \in Calls, Changes(d)'
            PROVE  d # c /\ Changes(d) /\ calls'[d] = calls[d]
        BY <3>5, <3>6 DEF Changes, Busy, IdleCall
      <3>7. \A d \in Calls : Changes(d)' => Ready(calls'[d], tenants'[calls'[d].t])
        BY <3>1, <3>5, <3>6
      <3>8. \A a, b \in Calls : Changes(a)' /\ Changes(b)' /\ calls'[a].t = calls'[b].t => a = b
        BY <3>1, <3>6
      <3>9. ASSUME NEW t \in Tenants
            PROVE  Shows(w, t)'
        <4>1. Shows(v, t) /\ e.t = call.t /\ e.op = call.op
          BY <3>2 DEF Entry
        <4>2. w[t] = IF t = call.t THEN Redo(v[t], e) ELSE v[t]
          BY <3>3, <4>1 DEF Redone
        <4>3. ~Waits(IdleCall, t)
          BY DEF Waits, IdleCall
        <4>4. CASE t = call.t /\ call.op \in RowOps
          <5>1. Waits(call, t) /\ View(tenants[t]) = w[t]
            BY <1>1, <4>1, <4>2, <4>4 DEF Waits, Shows
          <5>2. \A d \in Calls : Waits(calls[d], t) => d = c
            <6>1. ASSUME NEW d \in Calls, Waits(calls[d], t)
                  PROVE  d = c
              <7>1. Changes(d) /\ Changes(c) /\ calls[d].t = call.t
                BY <1>2, <4>4, <6>1 DEF Waits, Changes, Busy, RowOps
              <7> QED  BY <3>1, <7>1
            <6> QED  BY <6>1
          <5>3. \A d \in Calls : ~Waits(calls'[d], t)
            BY <3>5, <4>3, <5>2
          <5> QED  BY <3>5, <5>1, <5>3 DEF Shows
        <4>5. CASE ~(t = call.t /\ call.op \in RowOps)
          <5>1. w[t] = v[t]
            <6>1. CASE t = call.t
              <7>1. e.op \notin {"suspend", "activate", "updateTenant", "addTenant", "deleteTenant"}
                BY <4>1, <4>5, <6>1, Logging DEF RecordOps
              <7> QED  BY <4>2, <6>1, <7>1 DEF Redo
            <6> QED  BY <4>2, <6>1
          <5>2. ~Waits(call, t)
            BY <4>5 DEF Waits
          <5>3. \A d \in Calls : /\ Waits(calls'[d], t) <=> Waits(calls[d], t)
                                 /\ Waits(calls[d], t) => calls'[d] = calls[d]
            BY <3>5, <4>3, <5>2
          <5> QED  BY <3>5, <4>1, <5>1, <5>3 DEF Shows
        <4> QED  BY <4>4, <4>5
      <3>10. \A t \in Tenants : ~tenants'[t].there => View(tenants'[t]) = View(NoTenant)
        BY <3>1, <3>5
      <3> QED  BY <2>0, <3>4, <3>7, <3>8, <3>9, <3>10 DEF LogSound
    <2> QED  BY <2>1, <2>2
  <1> QED  BY <1>4, <1>5 DEF LogCommand

\* A request that comes beside another one for its tenant, or that the log
\* will not hear of, leaves a gap.
LEMMA SoundRequest ==
  ASSUME TypeInv, LogSound, NEW c \in Calls, NEW t \in Tenants, Request(c, t)
  PROVE  LogSound'
  <1>1. PICK new : Begin(c, new) /\ Fresh(new) /\ new.t = t
    BY RequestBegins DEF TypeInv
  <1>2. /\ CallsFine /\ log' = log /\ tenants' = tenants /\ ~Busy(c)
        /\ gap' = (gap \/ Overlaps(c, new) \/ Untold(new))
        /\ \A d \in Calls : calls'[d] = IF d = c THEN new ELSE calls[d]
    BY <1>1 DEF Begin, tables, TypeInv, CallsFine
  <1>3. CASE gap'
    BY <1>2, <1>3, SoundGap DEF LogSound
  <1>4. CASE ~gap'
    <2>1. ~gap /\ ~Overlaps(c, new) /\ ~Untold(new)
      BY <1>2, <1>4
    <2>2. /\ \A a, b \in Calls : Changes(a) /\ Changes(b) /\ calls[a].t = calls[b].t => a = b
          /\ \A d \in Calls : Changes(d) => Ready(calls[d], tenants[calls[d].t])
          /\ \A u \in Tenants : ~tenants[u].there => View(tenants[u]) = View(NoTenant)
      BY <2>1 DEF LogSound
    <2>3. PICK v : Reaches(log, v) /\ \A u \in Tenants : Shows(v, u)
      BY <2>1 DEF LogSound
    <2>4. \A d \in Calls \ {c} : (Changes(d)' <=> Changes(d)) /\ calls'[d] = calls[d]
      BY <1>2 DEF Changes, Busy
    <2>5. Changes(c)' => new.op \in TenantOps /\ calls'[c] = new
      BY <1>2 DEF Changes
    <2>6. \A d \in Calls \ {c} : Changes(d) /\ calls[d].t = new.t => new.op \notin TenantOps
      BY <2>1 DEF Overlaps, Others, Changes
    <2>7. \A a, b \in Calls : Changes(a)' /\ Changes(b)' /\ calls'[a].t = calls'[b].t => a = b
      BY <2>2, <2>4, <2>5, <2>6
    <2>8. new.op \in TenantOps => Ready(new, tenants[new.t])
      BY <1>1, <2>1 DEF Untold, RowOps, Ready, Fresh, LoudPcs
    <2>9. \A d \in Calls : Changes(d)' => Ready(calls'[d], tenants'[calls'[d].t])
      BY <1>2, <2>2, <2>4, <2>5, <2>8
    <2>10. ASSUME NEW u \in Tenants
           PROVE  Shows(v, u)'
      <3>1. ~Waits(new, u) /\ ~Waits(calls[c], u)
        BY <1>1, <1>2 DEF Fresh, Waits, Busy
      <3>2. \A d \in Calls : /\ Waits(calls'[d], u) <=> Waits(calls[d], u)
                             /\ Waits(calls[d], u) => calls'[d] = calls[d]
        BY <1>2, <3>1
      <3> QED  BY <1>2, <2>3, <3>2 DEF Shows
    <2>11. \A u \in Tenants : ~tenants'[u].there => View(tenants'[u]) = View(NoTenant)
      BY <1>2, <2>2
    <2> QED  BY <1>2, <2>3, <2>7, <2>9, <2>10, <2>11 DEF LogSound
  <1> QED  BY <1>3, <1>4

\* With no command on a tenant in progress, a crash loses nothing of the log.
LEMMA SoundCrash ==
  ASSUME TypeInv, LogSound, Crash
  PROVE  LogSound'
  <1>1. /\ log' = log /\ tenants' = tenants /\ \A d \in Calls : calls'[d] = IdleCall
        /\ gap' = (gap \/ \E d \in Calls : Changes(d))
    BY DEF Crash, tables, Changes
  <1>2. CASE gap'
    BY <1>1, <1>2, SoundGap DEF LogSound
  <1>3. CASE ~gap'
    <2>1. ~gap /\ \A d \in Calls : ~Changes(d)
      BY <1>1, <1>3
    <2>2. \A d \in Calls : ~Changes(d)'
      BY <1>1 DEF Changes, Busy, IdleCall
    <2>3. PICK v : Reaches(log, v) /\ \A t \in Tenants : Shows(v, t)
      BY <2>1 DEF LogSound
    <2>4. ASSUME NEW t \in Tenants
          PROVE  Shows(v, t)'
      <3>1. \A d \in Calls : ~Waits(calls[d], t)
        BY <2>1 DEF Waits, Changes, Busy, RowOps
      <3>2. \A d \in Calls : ~Waits(calls'[d], t)
        BY <1>1 DEF Waits, IdleCall
      <3>3. Shows(v, t)
        BY <2>3
      <3> QED  BY <1>1, <3>1, <3>2, <3>3 DEF Shows
    <2>5. \A t \in Tenants : ~tenants'[t].there => View(tenants'[t]) = View(NoTenant)
      BY <1>1, <2>1 DEF LogSound
    <2> QED  BY <1>1, <2>2, <2>3, <2>4, <2>5 DEF LogSound
  <1> QED  BY <1>2, <1>3

LEMMA SoundStep ==
  ASSUME TypeInv, LogSound, [Next]_vars
  PROVE  LogSound'
  <1>1. ASSUME UNCHANGED <<tenants, calls, log, gap>>
        PROVE  LogSound'
    BY <1>1 DEF LogSound, Changes, Busy, Shows
  <1>2. ASSUME NEW c \in Calls, QuietStep(c)
        PROVE  LogSound'
    <2>1. CASE PurgeLog(c)
      BY <2>1 DEF PurgeLog, LogSound
    <2>2. CASE GetTenant(c) \/ CreateKeyGet(c)
      BY <2>2, SoundReads
    <2>3. CASE LogCommand(c)
      BY <2>3, SoundLogged
    <2>4. CASE ForeignStep(c)
      BY <2>4, SoundForeign
    <2> QED  BY <1>2, <2>1, <2>2, <2>3, <2>4 DEF QuietStep, LogStep, ForeignStep
  <1>3. ASSUME NEW c \in Calls, OtherStep(c)
        PROVE  LogSound'
    BY <1>3, SoundReads, SoundForeign DEF OtherStep, ForeignStep
  <1>4. ASSUME NEW c \in Calls,
               WriteTenant(c) \/ InsertTenant(c) \/ RemoveTenant(c) \/ WriteKey(c)
        PROVE  LogSound'
    BY <1>4, SoundWriteTenant, SoundInsertTenant, SoundRemoveTenant, SoundWriteKey
  <1>5. (\E k \in MessageKeys : Deliver(k)) => LogSound'
    BY <1>1 DEF Deliver, history
  <1>6. (\E pk \in 1..MaxPk : Report(pk)) => LogSound'
    BY <1>1 DEF Report, history
  <1>7. ReadResult => LogSound'
    BY <1>1 DEF ReadResult, history, tables
  <1>8. UNCHANGED vars => LogSound'
    BY <1>1 DEF vars, history, tables
  <1> QED  BY <1>2, <1>3, <1>4, <1>5, <1>6, <1>7, <1>8, SoundRequest, SoundCrash, Steps

\* LogReplays: replaying the log on the tenants of the start gives the tenants
\* of now, once no command is in progress, for any number of tenants, tasks and
\* commands; commands on several tenants may come to the log in any order.
THEOREM LogsReplay == Spec => []LogReplays
  <1>1. Init => LogSound
    <2> SUFFICES ASSUME Init PROVE LogSound
      OBVIOUS
    <2>1. log = <<>> /\ tenants = InitTenants /\ \A c \in Calls : calls[c] = IdleCall
      BY DEF Init
    <2>2. Reaches(log, Visible(InitTenants))
      BY <2>1, ReachesNothing
    <2>3. ASSUME NEW t \in Tenants
          PROVE  /\ Shows(Visible(InitTenants), t)
                 /\ ~tenants[t].there => View(tenants[t]) = View(NoTenant)
      <3>1. View(tenants[t]) = Visible(InitTenants)[t]
        BY <2>1 DEF Visible, View
      <3>2. \A c \in Calls : ~Waits(calls[c], t)
        BY <2>1 DEF Waits, IdleCall
      <3>3. ~tenants[t].there => View(tenants[t]) = View(NoTenant)
        <4>1. /\ tenants[t].there = (t \in Existing) /\ tenants[t].active = NoTenant.active
              /\ tenants[t].suspended = NoTenant.suspended /\ NoTenant.there = FALSE
          BY <2>1 DEF InitTenants, NoTenant
        <4>2. ~tenants[t].there => tenants[t].there = NoTenant.there
          <5>1. (t \in Existing) \in BOOLEAN
            OBVIOUS
          <5>2. tenants[t].there \in BOOLEAN
            BY <4>1, <5>1
          <5> QED  BY <4>1, <5>2
        <4> QED  BY <4>1, <4>2 DEF View
      <3> QED  BY <3>1, <3>2, <3>3 DEF Shows
    <2>4. \A c \in Calls : ~Changes(c)
      BY <2>1 DEF Changes, Busy, IdleCall
    <2> QED  BY <2>1, <2>2, <2>3, <2>4 DEF LogSound
  <1>2. TypeInv /\ LogSound /\ [Next]_vars => LogSound'
    BY SoundStep
  <1>3. TypeInv /\ LogSound => LogReplays
    <2> SUFFICES ASSUME TypeInv, LogSound, ~gap, \A c \in Calls : ~Busy(c)
                 PROVE  Visible(Replay) = Visible(tenants)
      BY DEF LogReplays
    <2>1. PICK v : Reaches(log, v) /\ \A t \in Tenants : Shows(v, t)
      BY DEF LogSound
    <2>2. log \in Seq(LogEntry) /\ Reaches(log, Visible(Replay))
      BY TenantSeen, ReplayReaches DEF LogSound
    <2>3. Visible(Replay) = v
      BY <2>1, <2>2, ReplaysAgree DEF Reaches
    <2>4. \A t \in Tenants : v[t] = View(tenants[t])
      BY <2>1 DEF Shows, Waits, Busy
    <2>5. /\ Visible(Replay) = [t \in Tenants |-> View(Replay[t])]
          /\ Visible(tenants) = [t \in Tenants |-> View(tenants[t])]
      BY DEF Visible, View
    <2>6. \A t \in Tenants : View(Replay[t]) = View(tenants[t])
      BY <2>3, <2>4, <2>5
    <2> QED  BY <2>5, <2>6
  <1> QED  BY <1>1, <1>2, <1>3, SpecTypes, PTL DEF Spec
=============================================================================
