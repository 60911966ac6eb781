------------------------------- MODULE Tables -------------------------------
(***************************************************************************)
(* The tables that the API works on: tenants, accounts, messages,          *)
(* message_events and command_log, and the statements and row changes of   *)
(* their table classes.  An operator named after a statement gives the new *)
(* contents of the table; who executes it, and when, is in Commands.       *)
(*                                                                         *)
(* Two tables are abstracted.  Of the columns of tenants, `active` stands  *)
(* for all that update and add write.  Of message_events, what is kept for *)
(* a message is which kinds of event it has and whether they are reported. *)
(***************************************************************************)
EXTENDS Naturals, Sequences, FiniteSets

CONSTANTS
    Tenants,     \* tenants.id
    AccountIds,  \* accounts.id, unique within a tenant
    Ids,         \* messages.id, unique within a tenant
    Codes,       \* batch codes
    MaxPk,       \* bound: account and message keys ever drawn by get_uuid()
    MaxKeys      \* bound: API keys ever generated

ASSUME TablesAssumption ==
    /\ IsFiniteSet(Tenants) /\ IsFiniteSet(AccountIds) /\ IsFiniteSet(Ids)
    /\ "*" \notin Codes
    /\ {MaxPk, MaxKeys} \subseteq Nat

VARIABLES
    tenants,   \* tenants[t], there or not
    accounts,  \* accounts[<<t, a>>], pk = 0 when there is none
    messages,  \* messages[<<t, i>>], pk = 0 when there is none
    events,    \* message_events, by message pk
    log,       \* command_log, in id order
    nextPk,    \* what get_uuid() returns next
    nextKey    \* what secrets.token_urlsafe() returns next

tables == <<tenants, accounts, messages, events, log, nextPk, nextKey>>

-----------------------------------------------------------------------------
(* Rows.                                                                   *)

\* suspended_batches: a set of codes, or "*".
All == {"*"}

TenantRow == [there: BOOLEAN, active: BOOLEAN,
              suspended: (SUBSET Codes) \cup {All}, key: 0..MaxKeys]
NoTenant == [there |-> FALSE, active |-> TRUE, suspended |-> {}, key |-> 0]

AccountRow == [pk: 0..MaxPk, pec: BOOLEAN]
NoAccount == [pk |-> 0, pec |-> FALSE]

\* form: whether the payload has every field _build_email needs.
Forms == {"valid", "invalid"}
MessageRow == [pk: 0..MaxPk, account: 0..MaxPk, form: Forms, pec: BOOLEAN, done: BOOLEAN]
NoMessage == [pk |-> 0, account |-> 0, form |-> "valid", pec |-> FALSE, done |-> FALSE]

EventRows == [sent: BOOLEAN, error: BOOLEAN, told: {"none", "no", "yes"}]
NoEvents == [sent |-> FALSE, error |-> FALSE, told |-> "none"]

AccountKeys == Tenants \X AccountIds
MessageKeys == Tenants \X Ids

-----------------------------------------------------------------------------
(* TenantsTable.                                                           *)

\* Mutant: a batch is added to whatever is there.
SuspendAlwaysAdds(row, codes) ==
    [row EXCEPT !.suspended = IF codes = {} THEN All ELSE @ \cup codes]

\* suspend_batch and activate_batch on the row that record() has read; codes
\* is {} for batch_code None.  A batch cannot be taken out of "*".
SuspendBatch(row, codes) ==
    [row EXCEPT !.suspended = IF codes = {} \/ @ = All THEN All ELSE @ \cup codes]
ActivateBatch(row, codes) ==
    [row EXCEPT !.suspended = IF codes = {} THEN {} ELSE IF @ = All THEN All ELSE @ \ codes]
ActivateRefused(row, codes) == codes # {} /\ row.suspended = All

\* update_fields, and add for a tenant that exists.
UpdateFields(row, active) == [row EXCEPT !.active = active]

AddExisting(row, active) == UpdateFields(row, active)

\* add for a new tenant: an API key comes with it.
AddNew(active) == [NoTenant EXCEPT !.there = TRUE, !.active = active, !.key = nextKey]

\* Table.update from record().__aexit__: every column, if there was a row
\* when __aenter__ read it and there is one now.
UpdateTenant(t, row) ==
    IF row.there /\ tenants[t].there THEN [tenants EXCEPT ![t] = row] ELSE tenants

\* Mutant: the row is written anew around the key.
ReplaceForApiKey(t, key) ==
    IF tenants[t].there
    THEN [tenants EXCEPT ![t] = [NoTenant EXCEPT !.there = TRUE, !.key = key]]
    ELSE tenants

\* UPDATE tenants SET api_key_hash: this column and no other.
SetApiKey(t, key) ==
    IF tenants[t].there THEN [tenants EXCEPT ![t].key = key] ELSE tenants

-----------------------------------------------------------------------------
(* AccountsTable.                                                          *)

\* add, on the row that record() has read: is_pec_account is always written,
\* a pk only for a new account.
AddAccountColumns(row, pec) ==
    [pk |-> IF row.pk = 0 THEN nextPk ELSE row.pk, pec |-> pec]

AccountsOf(t) == {k \in AccountKeys : k[1] = t /\ accounts[k].pk # 0}

DeleteAccounts(keys) == [k \in AccountKeys |-> IF k \in keys THEN NoAccount ELSE accounts[k]]

\* get_pec_account_ids: ids, of whatever tenant.
PecAccountIds == {k[2] : k \in {x \in AccountKeys : accounts[x].pk # 0 /\ accounts[x].pec}}

-----------------------------------------------------------------------------
(* MessagesTable.                                                          *)

\* JOIN accounts a ON m.account_pk = a.pk WHERE a.tenant_id = t: a message
\* whose account has been removed belongs to nobody.
JoinsTenant(k, t) ==
    \E x \in AccountsOf(t) : messages[k].pk # 0 /\ accounts[x].pk = messages[k].account

GetIdsForTenant(ids, t) ==
    {i \in ids : \E u \in Tenants : JoinsTenant(<<u, i>>, t)}

MessagesOf(t) == {k \in MessageKeys : k[1] = t /\ messages[k].pk # 0}

DeleteMessages(keys) == [k \in MessageKeys |-> IF k \in keys THEN NoMessage ELSE messages[k]]

RemoveByPk(pk) == DeleteMessages({k \in MessageKeys : messages[k].pk = pk})

\* remove_fully_reported_before_for_tenant, with a threshold that all reports
\* are older than.
FullyReportedForTenant(t) ==
    {k \in MessageKeys : /\ JoinsTenant(k, t)
                         /\ messages[k].done
                         /\ events[messages[k].pk].told = "yes"}

\* insert_batch writes every column but smtp_ts.
PendingColumns(row, account, form, pec) ==
    [row EXCEPT !.account = account, !.form = form, !.pec = pec]

\* UPDATE messages ... WHERE pk, from record().__aexit__.
UpdateMessage(k, row) ==
    IF row.pk # 0 /\ messages[k].pk = row.pk THEN [messages EXCEPT ![k] = row] ELSE messages

\* add_event stores one more event that the client has not been told of.
AddEvent(pk, type) ==
    [events EXCEPT ![pk] = [sent |-> @.sent \/ type = "sent",
                            error |-> @.error \/ type = "error", told |-> "no"]]

-----------------------------------------------------------------------------
TablesOK ==
    /\ tenants \in [Tenants -> TenantRow]
    /\ accounts \in [AccountKeys -> AccountRow]
    /\ messages \in [MessageKeys -> MessageRow]
    /\ events \in [1..MaxPk -> EventRows]
    /\ nextPk \in 1..(MaxPk + 1)
    /\ nextKey \in 1..(MaxKeys + 1)
==============================================================================
