------------------------------ MODULE Webhook ------------------------------
(***************************************************************************)
(* The HTTP processes and their webhook handler, between Telegram, which   *)
(* sends an update again until it has seen a 200, and the inbox, where     *)
(* workers move on what was stored.                                        *)
(*                                                                         *)
(* A request is handled by one task of one process; several may carry the  *)
(* same update, in one process or in several.  PostgreSQL lets one of them *)
(* insert the row and makes the others wait for the end of that.           *)
(***************************************************************************)
EXTENDS Inbox

CONSTANTS Servers,        \* HTTP processes
          Slots,          \* requests one process handles at once
          NoUpdate,
          MaxFaults,      \* bounds crashes, failures and lost answers
          MaxAttempts     \* bounds the claims of an update

VARIABLES telegram,       \* what has become of an update at Telegram
          payload,        \* whose payload the row of an update holds
          valid,          \* the updates the handler's validation accepts
          registered,     \* Telegram knows the webhook and its secret
          server,
          request,
          faults

wvars == <<inbox, payload, telegram, valid, registered, server, request, faults>>

ASSUME WebhookAssumption ==
    /\ NoUpdate \notin Updates
    /\ MaxFaults \in Nat
    /\ MaxAttempts \in Nat

Requests == Servers \X Slots
RequestsOf(s) == {r \in Requests : r[1] = s}

\* received    the handler has not looked at it yet
\* inserting   its INSERT runs, or waits for another one
\* inserted    its row is written and not committed
\* duplicate   its INSERT met a committed row
\* ok, refused, error   answered with 200; with 401 or 422; with 500
Answered == {"ok", "refused", "error"}
Stages == {"free", "received", "inserting", "inserted", "duplicate"}
             \cup Answered

\* genuine: it carries the secret, so Telegram sent it.
Request == [ stage : Stages, update : Updates \cup {NoUpdate},
             genuine : BOOLEAN ]

NoRequest == [stage |-> "free", update |-> NoUpdate, genuine |-> FALSE]

WebhookInit ==
    /\ inbox = [u \in Updates |-> NoRow("capture")]
    /\ payload = [u \in Updates |-> "none"]
    /\ telegram = [u \in Updates |-> "unsent"]
    /\ valid \in SUBSET Updates
    /\ registered = FALSE
    /\ server = [s \in Servers |-> "down"]
    /\ request = [r \in Requests |-> NoRequest]
    /\ faults = 0

Fault == faults < MaxFaults /\ faults' = faults + 1

Goto(r, from, to) ==
    /\ request[r].stage = from
    /\ request' = [request EXCEPT ![r].stage = to]

-----------------------------------------------------------------------------
\* The handler.

\* 401, before the update is looked at.
Unauthorized(r) ==
    /\ ~request[r].genuine
    /\ Goto(r, "received", "refused")
    /\ UNCHANGED <<inbox, payload, telegram, valid, registered, server, faults>>

\* 422, from pydantic's errors.
Unprocessable(r) ==
    /\ request[r].genuine
    /\ request[r].update \notin valid
    /\ Goto(r, "received", "refused")
    /\ UNCHANGED <<inbox, payload, telegram, valid, registered, server, faults>>

\* Mutant: the secret is not compared.
AcceptAnyone(r) ==
    /\ request[r].update \in valid
    /\ Goto(r, "received", "inserting")
    /\ UNCHANGED <<inbox, payload, telegram, valid, registered, server, faults>>

BeginInsert(r) ==
    /\ request[r].genuine
    /\ request[r].update \in valid
    /\ Goto(r, "received", "inserting")
    /\ UNCHANGED <<inbox, payload, telegram, valid, registered, server, faults>>

Inserting(u) ==
    \E r \in Requests : request[r].stage = "inserted" /\ request[r].update = u

\* No row, and nobody about to commit one.
InsertRow(r) ==
    /\ Goto(r, "inserting", "inserted")
    /\ inbox[request[r].update].status = "absent"
    /\ ~Inserting(request[r].update)
    /\ UNCHANGED <<inbox, payload, telegram, valid, registered, server, faults>>

\* Mutant: a row that another handler is inserting counts as stored.
FindUncommittedRow(r) ==
    /\ Goto(r, "inserting", "duplicate")
    /\ \/ inbox[request[r].update].status # "absent"
       \/ Inserting(request[r].update)
    /\ UNCHANGED <<inbox, payload, telegram, valid, registered, server, faults>>

\* Mutant: ON CONFLICT DO UPDATE, with the values of a new row.
ResetRow(r) ==
    LET u == request[r].update IN
    /\ Goto(r, "inserting", "duplicate")
    /\ inbox[u].status # "absent"
    /\ inbox' = [inbox EXCEPT ![u] =
                   [NoRow("capture") EXCEPT !.status = "pending", !.due = TRUE]]
    /\ UNCHANGED <<payload, telegram, valid, registered, server, faults>>

\* ON CONFLICT DO NOTHING.  A row that is still being inserted is waited
\* for: neither this step nor InsertRow is possible.
FindRow(r) ==
    /\ Goto(r, "inserting", "duplicate")
    /\ inbox[request[r].update].status # "absent"
    /\ UNCHANGED <<inbox, payload, telegram, valid, registered, server, faults>>

\* The payload is stored as it came.
StoreRow(u, genuine) ==
    /\ InsertUpdate(u)
    /\ payload' = [payload EXCEPT ![u] = IF genuine THEN "telegrams" ELSE "other"]

CommitRow(r) ==
    /\ Goto(r, "inserted", "ok")
    /\ StoreRow(request[r].update, request[r].genuine)
    /\ UNCHANGED <<telegram, valid, registered, server, faults>>

\* Mutant: a repeated update is a conflict, 409.
RefuseDuplicate(r) ==
    /\ Goto(r, "duplicate", "refused")
    /\ UNCHANGED <<inbox, payload, telegram, valid, registered, server, faults>>

CommitNothing(r) ==
    /\ Goto(r, "duplicate", "ok")
    /\ UNCHANGED <<inbox, payload, telegram, valid, registered, server, faults>>

\* The row is stored; the exception of the lost commit becomes a 500.
CommitUnacknowledged(r) ==
    /\ Fault
    /\ Goto(r, "inserted", "error")
    /\ StoreRow(request[r].update, request[r].genuine)
    /\ UNCHANGED <<telegram, valid, registered, server>>

\* Nothing is stored: no connection, statement or commit failed.
InsertFails(r) ==
    /\ Fault
    /\ \E stage \in {"inserting", "inserted", "duplicate"} :
          Goto(r, stage, "error")
    /\ UNCHANGED <<inbox, payload, telegram, valid, registered, server>>

-----------------------------------------------------------------------------
\* Telegram, strangers and the network.

SendUpdate(u) ==
    /\ telegram[u] = "unsent"
    /\ telegram' = [telegram EXCEPT ![u] = "sending"]
    /\ UNCHANGED <<inbox, payload, valid, registered, server, request, faults>>

Arrives(r, u, genuine) ==
    /\ server[r[1]] = "serving"
    /\ request[r].stage = "free"
    /\ request' = [request EXCEPT ![r] =
          [stage |-> "received", update |-> u, genuine |-> genuine]]
    /\ UNCHANGED <<inbox, payload, telegram, valid, registered, server, faults>>

\* Telegram does not wait for the answer to an earlier request.
Deliver(r, u) ==
    /\ registered
    /\ telegram[u] = "sending"
    /\ Arrives(r, u, TRUE)

\* Somebody else posts an update of his own under the same id.
Intrude(r, u) == Arrives(r, u, FALSE)

\* Only a 200 makes Telegram stop.
TakeAnswer(r) ==
    LET u == request[r].update IN
    /\ request[r].stage \in Answered
    /\ telegram' = IF request[r].stage = "ok" /\ request[r].genuine
                   THEN [telegram EXCEPT ![u] = "delivered"] ELSE telegram
    /\ request' = [request EXCEPT ![r] = NoRequest]
    /\ UNCHANGED <<inbox, payload, valid, registered, server, faults>>

LoseAnswer(r) ==
    /\ Fault
    /\ request[r].stage \in Answered
    /\ request' = [request EXCEPT ![r] = NoRequest]
    /\ UNCHANGED <<inbox, payload, telegram, valid, registered, server>>

-----------------------------------------------------------------------------
\* The processes: lifespan and death.

StartServer(s) ==
    /\ server[s] = "down"
    /\ server' = [server EXCEPT ![s] = "starting"]
    /\ UNCHANGED <<inbox, payload, telegram, valid, registered, request, faults>>

\* set_webhook; requests are served only after it.
RegisterWebhook(s) ==
    /\ server[s] = "starting"
    /\ server' = [server EXCEPT ![s] = "serving"]
    /\ registered' = TRUE
    /\ UNCHANGED <<inbox, payload, telegram, valid, request, faults>>

\* set_webhook raises, before or after it took effect: session and engine
\* are closed and the process ends.
RegisterFails(s) ==
    /\ Fault
    /\ server[s] = "starting"
    /\ server' = [server EXCEPT ![s] = "down"]
    /\ registered' \in {registered, TRUE}
    /\ UNCHANGED <<inbox, payload, telegram, valid, request>>

\* Mutant: the requests of a dead process stay where they are.
EndServerOnly(s) ==
    /\ Fault
    /\ server[s] # "down"
    /\ server' = [server EXCEPT ![s] = "down"]
    /\ UNCHANGED <<inbox, payload, telegram, valid, registered, request>>

\* A process that is told to end answers what it has accepted first; a dying
\* one drops it, and its transactions are rolled back.  Their death may also
\* come between a commit and the answer.
EndServer(s) ==
    /\ Fault
    /\ server[s] # "down"
    /\ server' = [server EXCEPT ![s] = "down"]
    /\ request' = [r \in Requests |->
                     IF r[1] = s THEN NoRequest ELSE request[r]]
    /\ UNCHANGED <<inbox, payload, telegram, valid, registered>>

-----------------------------------------------------------------------------
\* The workers, as the inbox sees them: any of them, in any order.

WorkersMove(u) ==
    LET c == [update |-> u, attempt |-> inbox[u].attempt] IN
    /\ \/ inbox[u].attempt < MaxAttempts /\ ClaimPendingUpdate(u)
       \/ BecomeDue(u)
       \/ ClaimExpires(u)
       \/ MarkExternalMutationStarted(c)
       \/ Reschedule(c)
       \/ \E status \in TerminalStatuses : MarkTerminal(c, status)
       \/ inbox' = [inbox EXCEPT ![u] = Recovered(@)]
    /\ UNCHANGED <<payload, telegram, valid, registered, server, request, faults>>

-----------------------------------------------------------------------------

HandlerStep(r) ==
    \/ Unauthorized(r) \/ Unprocessable(r) \/ BeginInsert(r)
    \/ InsertRow(r) \/ FindRow(r) \/ CommitRow(r) \/ CommitNothing(r)
    \/ CommitUnacknowledged(r) \/ InsertFails(r)

RequestStep(r) ==
    \/ HandlerStep(r) \/ TakeAnswer(r) \/ LoseAnswer(r)
    \/ \E u \in Updates : Deliver(r, u) \/ Intrude(r, u)

ServerStep(s) ==
    \/ StartServer(s) \/ RegisterWebhook(s) \/ RegisterFails(s) \/ EndServer(s)

WebhookNext ==
    \/ \E r \in Requests : RequestStep(r)
    \/ \E s \in Servers : ServerStep(s)
    \/ \E u \in Updates : SendUpdate(u) \/ WorkersMove(u)

WebhookSpec == WebhookInit /\ [][WebhookNext]_wvars

\* Processes are restarted by their supervisor; handlers run and statements
\* end; answers that are not lost arrive; Telegram keeps sending an update
\* and gets through now and then.  Nothing is assumed of the workers.
WebhookFairness ==
    /\ \A s \in Servers : WF_wvars(StartServer(s) \/ RegisterWebhook(s))
    /\ \A r \in Requests : WF_wvars(HandlerStep(r)) /\ WF_wvars(TakeAnswer(r))
    /\ \A u \in Updates : SF_wvars(\E r \in Requests : Deliver(r, u))

FairWebhookSpec == WebhookSpec /\ WebhookFairness

-----------------------------------------------------------------------------

\* Type invariant.  A process that does not serve has no requests.
WebhookTypeOK ==
    /\ InboxTypeOK
    /\ telegram \in [Updates -> {"unsent", "sending", "delivered"}]
    /\ payload \in [Updates -> {"none", "telegrams", "other"}]
    /\ valid \in SUBSET Updates
    /\ registered \in BOOLEAN
    /\ server \in [Servers -> {"down", "starting", "serving"}]
    /\ request \in [Requests -> Request]
    /\ faults \in 0 .. MaxFaults
    /\ \A r \in Requests : request[r].stage # "free" =>
          /\ server[r[1]] = "serving"
          /\ request[r].update \in Updates

\* A 200 means durable acceptance: whoever answered it, the handler that
\* stored the update or one that found it there, a committed row backs it
\* (architecture.md: "HTTP 200 means durable acceptance"), also when the
\* other handler fails in between.  Telegram forgets only such updates.
AnsweredIsStored ==
    /\ \A r \in Requests : request[r].stage \in {"ok", "duplicate"} =>
          inbox[request[r].update].status # "absent"
    /\ \A u \in Updates : telegram[u] = "delivered" =>
          inbox[u].status # "absent"

\* The row of an update is what Telegram sent: nobody else's payload takes
\* its place first, to be kept by ON CONFLICT DO NOTHING and answered with
\* 200 when Telegram comes, and nothing is stored that the handler found
\* invalid.
StoredIsTelegrams ==
    \A u \in Updates : inbox[u].status # "absent" =>
        /\ payload[u] = "telegrams"
        /\ u \in valid
        /\ telegram[u] # "unsent"

\* However often and however late an update is delivered again, a row that
\* exists is moved by workers only: nothing is processed twice because
\* Telegram resent it.
RedeliveryIsHarmless ==
    [][\A u \in Updates : inbox[u].status # "absent" /\ inbox'[u] # inbox[u] =>
          WorkersMove(u)]_wvars

\* A valid update Telegram keeps sending is acknowledged in the end.
UpdatesAreAcknowledged ==
    \A u \in Updates :
        telegram[u] = "sending" /\ u \in valid ~> telegram[u] = "delivered"
=============================================================================
