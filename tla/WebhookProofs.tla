---------------------------- MODULE WebhookProofs ----------------------------
(***************************************************************************)
(* What holds of the webhook for any number of processes, slots, updates   *)
(* and failures.  The inductive invariant says of each request what its    *)
(* handler has already established, and of each update that its row is     *)
(* Telegram's; both survive whatever the rest of the system does, because  *)
(* rows never disappear and Telegram never forgets that it sent something. *)
(***************************************************************************)
EXTENDS Webhook, InboxProofs

\* The stages behind the checks of the handler.
Accepted == {"inserting", "inserted", "duplicate", "ok"}

RequestOK(x, rows, sent, accepted) ==
    /\ x \in Request
    /\ x.stage # "free" => x.update \in Updates
    /\ x.stage \in Accepted => x.genuine /\ x.update \in accepted
    /\ x.stage # "free" /\ x.genuine => sent[x.update] # "unsent"
    /\ x.stage \in {"duplicate", "ok"} => rows[x.update].status # "absent"

UpdateOK(u, rows, stored, sent, accepted) ==
    /\ rows[u].status # "absent" =>
          stored[u] = "telegrams" /\ u \in accepted /\ sent[u] # "unsent"
    /\ sent[u] = "delivered" => rows[u].status # "absent"

VariablesOK ==
    /\ InboxTypeOK
    /\ telegram \in [Updates -> {"unsent", "sending", "delivered"}]
    /\ payload \in [Updates -> {"none", "telegrams", "other"}]
    /\ valid \in SUBSET Updates
    /\ registered \in BOOLEAN
    /\ server \in [Servers -> {"down", "starting", "serving"}]
    /\ request \in [Requests -> Request]
    /\ faults \in 0 .. MaxFaults

RequestsOK ==
    \A r \in Requests : RequestOK(request[r], inbox, telegram, valid)

UpdatesOK == \A u \in Updates : UpdateOK(u, inbox, payload, telegram, valid)

ServersOK == \A r \in Requests : request[r].stage # "free" =>
                 server[r[1]] = "serving"

WebhookInv == VariablesOK /\ RequestsOK /\ UpdatesOK /\ ServersOK

\* Rows stay, what was sent stays sent, validation does not change.
OnlyForward ==
    /\ \A u \in Updates : inbox[u].status # "absent" => inbox'[u].status # "absent"
    /\ \A u \in Updates : telegram[u] # "unsent" => telegram'[u] # "unsent"
    /\ valid' = valid

-----------------------------------------------------------------------------

LEMMA ServerOfRequest ==
    \A r \in Requests : r[1] \in Servers /\ r \in RequestsOf(r[1])
  BY DEF Requests, RequestsOf

LEMMA FaultType ==
    ASSUME faults \in 0 .. MaxFaults, Fault
    PROVE  faults' \in 0 .. MaxFaults
  BY WebhookAssumption DEF Fault

\* What a handler has established stays true.
LEMMA RequestStaysOK ==
    ASSUME OnlyForward, NEW x, RequestOK(x, inbox, telegram, valid)
    PROVE  RequestOK(x, inbox', telegram', valid')
  <1>1. x.stage = "free" \/ x.update \in Updates
    BY DEF RequestOK
  <1> QED
    BY <1>1 DEF RequestOK, OnlyForward, Accepted

LEMMA OneRequestMoves ==
    ASSUME VariablesOK, RequestsOK, OnlyForward, NEW r \in Requests, NEW x,
           RequestOK(x, inbox', telegram', valid'),
           request' = [request EXCEPT ![r] = x]
    PROVE  /\ RequestsOK'
           /\ request' \in [Requests -> Request]
  <1>1. x \in Request
    BY DEF RequestOK
  <1>2. request' \in [Requests -> Request]
    BY <1>1 DEF VariablesOK
  <1>3. ASSUME NEW q \in Requests
        PROVE  RequestOK(request'[q], inbox', telegram', valid')
    <2>1. CASE q = r
      BY <2>1, <1>1 DEF VariablesOK
    <2>2. CASE q # r
      <3>1. request'[q] = request[q]
        BY <2>2 DEF VariablesOK
      <3> QED
        BY <3>1, RequestStaysOK DEF RequestsOK
    <2> QED
      BY <2>1, <2>2
  <1> QED
    BY <1>2, <1>3 DEF RequestsOK

LEMMA RequestsStay ==
    ASSUME RequestsOK, OnlyForward, request' = request
    PROVE  RequestsOK'
  BY RequestStaysOK DEF RequestsOK

LEMMA NoRequestOK ==
    RequestOK(NoRequest, inbox', telegram', valid')
  BY DEF RequestOK, NoRequest, Request, Stages, Accepted

\* A step from one stage to another.
LEMMA Advanced ==
    ASSUME NEW r \in Requests, NEW from, NEW to, request \in [Requests -> Request],
           Goto(r, from, to), to \in Stages
    PROVE  /\ request[r].stage = from
           /\ request' = [request EXCEPT ![r] = [request[r] EXCEPT !.stage = to]]
           /\ [request[r] EXCEPT !.stage = to] \in Request
           /\ [request[r] EXCEPT !.stage = to].stage = to
           /\ [request[r] EXCEPT !.stage = to].update = request[r].update
           /\ [request[r] EXCEPT !.stage = to].genuine = request[r].genuine
  BY DEF Goto, Request

-----------------------------------------------------------------------------

THEOREM WebhookInitInv == WebhookInit => WebhookInv
  <1> SUFFICES ASSUME WebhookInit PROVE WebhookInv
    OBVIOUS
  <1>1. NoRow("capture") \in Row /\ NoRow("capture").status = "absent"
    BY DEF NoRow, Row, Statuses, Kinds
  <1>2. InboxTypeOK
    BY <1>1 DEF WebhookInit, InboxTypeOK
  <1>3. NoRequest \in Request /\ NoRequest.stage = "free"
    BY DEF NoRequest, Request, Stages
  <1>4. VariablesOK
    <2>1. request \in [Requests -> Request]
      BY <1>3 DEF WebhookInit
    <2>2. 0 \in 0 .. MaxFaults
      BY WebhookAssumption
    <2>3. /\ telegram \in [Updates -> {"unsent", "sending", "delivered"}]
          /\ payload \in [Updates -> {"none", "telegrams", "other"}]
          /\ server \in [Servers -> {"down", "starting", "serving"}]
      BY DEF WebhookInit
    <2> QED
      BY <1>2, <2>1, <2>2, <2>3 DEF WebhookInit, VariablesOK
  <1>5. RequestsOK
    BY <1>3 DEF WebhookInit, RequestsOK, RequestOK, Accepted
  <1>6. UpdatesOK
    BY <1>1 DEF WebhookInit, UpdatesOK, UpdateOK
  <1>7. ServersOK
    BY <1>3 DEF WebhookInit, ServersOK
  <1> QED
    BY <1>4, <1>5, <1>6, <1>7 DEF WebhookInv

\* A step of a handler that writes nothing.
LEMMA HandlerAdvances ==
    ASSUME WebhookInv, NEW r \in Requests, NEW from, NEW to \in Stages,
           Goto(r, from, to), from # "free", to # "free",
           UNCHANGED <<inbox, payload, telegram, valid, registered, server>>,
           faults' \in 0 .. MaxFaults,
           to \in Accepted => /\ request[r].genuine
                              /\ request[r].update \in valid,
           to \in {"duplicate", "ok"} =>
               inbox[request[r].update].status # "absent"
    PROVE  WebhookInv'
  <1> DEFINE x == [request[r] EXCEPT !.stage = to]
  <1>1. /\ request[r].stage = from
        /\ request' = [request EXCEPT ![r] = x]
        /\ x \in Request
        /\ x.stage = to
        /\ x.update = request[r].update
        /\ x.genuine = request[r].genuine
    BY Advanced DEF WebhookInv, VariablesOK
  <1> HIDE DEF x
  <1>2. RequestOK(request[r], inbox, telegram, valid)
    BY DEF WebhookInv, RequestsOK
  <1>3. RequestOK(x, inbox', telegram', valid')
    BY <1>1, <1>2 DEF RequestOK
  <1>4. OnlyForward
    BY DEF OnlyForward
  <1>5. RequestsOK' /\ request' \in [Requests -> Request]
    BY <1>1, <1>3, <1>4, OneRequestMoves DEF WebhookInv
  <1>6. VariablesOK'
    BY <1>5 DEF WebhookInv, VariablesOK, InboxTypeOK
  <1>7. UpdatesOK'
    BY DEF WebhookInv, UpdatesOK, UpdateOK
  <1>8. ServersOK'
    BY <1>1 DEF WebhookInv, ServersOK, VariablesOK
  <1> QED
    BY <1>5, <1>6, <1>7, <1>8 DEF WebhookInv

\* The commit of an insert.
LEMMA RowStored ==
    ASSUME WebhookInv, NEW r \in Requests, NEW to \in {"ok", "error"},
           Goto(r, "inserted", to),
           StoreRow(request[r].update, request[r].genuine),
           UNCHANGED <<telegram, valid, registered, server>>,
           faults' \in 0 .. MaxFaults
    PROVE  WebhookInv'
  <1> DEFINE x == [request[r] EXCEPT !.stage = to]
             u == request[r].update
  <1>1. /\ request[r].stage = "inserted"
        /\ request' = [request EXCEPT ![r] = x]
        /\ x \in Request
        /\ x.stage = to
        /\ x.update = u
        /\ x.genuine = request[r].genuine
    BY Advanced DEF WebhookInv, VariablesOK, Stages, Answered
  <1> HIDE DEF x
  <1>2. /\ RequestOK(request[r], inbox, telegram, valid)
        /\ u \in Updates /\ u \in valid /\ telegram[u] # "unsent"
        /\ request[r].genuine
    BY <1>1 DEF WebhookInv, RequestsOK, RequestOK, Accepted
  <1>3. /\ InsertUpdate(u)
        /\ payload' = [payload EXCEPT ![u] = "telegrams"]
    BY <1>2 DEF StoreRow
  <1> HIDE DEF u
  <1>4. /\ InboxTypeOK'
        /\ OtherRowsUnchanged(u)
        /\ inbox'[u].status = "pending"
    BY <1>2, <1>3, InsertedRow DEF WebhookInv, VariablesOK
  <1>5. OnlyForward
    BY <1>4 DEF OnlyForward, OtherRowsUnchanged
  <1>6. RequestOK(x, inbox', telegram', valid')
    BY <1>1, <1>2, <1>4 DEF RequestOK, u
  <1>7. RequestsOK' /\ request' \in [Requests -> Request]
    BY <1>1, <1>5, <1>6, OneRequestMoves DEF WebhookInv
  <1>8. VariablesOK'
    BY <1>3, <1>4, <1>7 DEF WebhookInv, VariablesOK
  <1>9. UpdatesOK'
    <2> SUFFICES ASSUME NEW v \in Updates
                 PROVE  UpdateOK(v, inbox', payload', telegram', valid')
      BY DEF UpdatesOK
    <2>1. CASE v = u
      BY <2>1, <1>2, <1>3, <1>4 DEF UpdateOK, WebhookInv, VariablesOK
    <2>2. CASE v # u
      BY <2>2, <1>3, <1>4
         DEF UpdateOK, UpdatesOK, WebhookInv, VariablesOK, OtherRowsUnchanged
    <2> QED
      BY <2>1, <2>2
  <1>10. ServersOK'
    BY <1>1 DEF WebhookInv, ServersOK, VariablesOK
  <1> QED
    BY <1>7, <1>8, <1>9, <1>10 DEF WebhookInv

\* A request arrives, or its task ends.
LEMMA RequestReplaced ==
    ASSUME WebhookInv, NEW r \in Requests, NEW x,
           request' = [request EXCEPT ![r] = x],
           OnlyForward, RequestOK(x, inbox', telegram', valid'),
           x.stage # "free" => server[r[1]] = "serving",
           UNCHANGED <<inbox, payload, registered, server>>,
           telegram' \in [Updates -> {"unsent", "sending", "delivered"}],
           UpdatesOK',
           faults' \in 0 .. MaxFaults
    PROVE  WebhookInv'
  <1>1. RequestsOK' /\ request' \in [Requests -> Request]
    BY OneRequestMoves DEF WebhookInv
  <1>2. VariablesOK'
    BY <1>1 DEF WebhookInv, VariablesOK, InboxTypeOK, OnlyForward
  <1>3. ServersOK'
    BY DEF WebhookInv, ServersOK, VariablesOK
  <1> QED
    BY <1>1, <1>2, <1>3 DEF WebhookInv

\* A process changes its state; requests go only with the process.
LEMMA ServerMoves ==
    ASSUME WebhookInv, NEW s \in Servers, NEW to \in {"down", "starting", "serving"},
           server' = [server EXCEPT ![s] = to],
           UNCHANGED <<inbox, payload, telegram, valid>>,
           registered' \in BOOLEAN, faults' \in 0 .. MaxFaults,
           \/ server[s] # "serving" /\ request' = request
           \/ request' = [r \in Requests |->
                 IF r[1] = s THEN NoRequest ELSE request[r]]
    PROVE  WebhookInv'
  <1>1. OnlyForward
    BY DEF OnlyForward
  <1>2. NoRequest \in Request /\ NoRequest.stage = "free"
    BY DEF NoRequest, Request, Stages
  <1>3. RequestsOK' /\ request' \in [Requests -> Request]
    <2>1. request' \in [Requests -> Request]
      BY <1>2 DEF WebhookInv, VariablesOK
    <2>2. ASSUME NEW r \in Requests
          PROVE  RequestOK(request'[r], inbox', telegram', valid')
      <3>1. request'[r] = request[r] \/ request'[r] = NoRequest
        OBVIOUS
      <3> QED
        BY <3>1, <1>1, RequestStaysOK, NoRequestOK DEF WebhookInv, RequestsOK
    <2> QED
      BY <2>1, <2>2 DEF RequestsOK
  <1>4. VariablesOK'
    BY <1>3 DEF WebhookInv, VariablesOK, InboxTypeOK
  <1>5. UpdatesOK'
    BY DEF WebhookInv, UpdatesOK, UpdateOK
  <1>6. ServersOK'
    BY <1>2, ServerOfRequest DEF WebhookInv, ServersOK, VariablesOK
  <1> QED
    BY <1>3, <1>4, <1>5, <1>6 DEF WebhookInv

\* A worker moves a row that exists to another state of a row that exists.
LEMMA WorkersMoveRow ==
    ASSUME InboxTypeOK, NEW u \in Updates, WorkersMove(u)
    PROVE  /\ InboxTypeOK'
           /\ OtherRowsUnchanged(u)
           /\ (inbox[u].status = "absent") <=> (inbox'[u].status = "absent")
  <1> DEFINE c == [update |-> u, attempt |-> inbox[u].attempt]
  <1>1. c \in Claim /\ c.update = u /\ c.attempt = inbox[u].attempt
    BY DEF InboxTypeOK, Row, Claim
  <1>2. IsCurrent(c) => inbox[u].status # "absent"
    BY <1>1 DEF IsCurrent
  <1> HIDE DEF c
  <1>3. CASE ClaimPendingUpdate(u)
    BY <1>3, ClaimedRow
  <1>4. CASE BecomeDue(u) \/ ClaimExpires(u)
    BY <1>4, AgedRow
  <1>5. CASE MarkExternalMutationStarted(c)
    BY <1>5, <1>1, <1>2, MarkedRow
  <1>6. CASE Reschedule(c)
    BY <1>6, <1>1, <1>2, RescheduledRow
  <1>7. ASSUME NEW status \in TerminalStatuses, MarkTerminal(c, status)
        PROVE  /\ InboxTypeOK'
               /\ OtherRowsUnchanged(u)
               /\ inbox[u].status # "absent"
               /\ inbox'[u].status # "absent"
    <2>1. status # "absent"
      BY DEF TerminalStatuses
    <2> QED
      BY <1>7, <2>1, <1>1, <1>2, ClosedRow
  <1>8. CASE inbox' = [inbox EXCEPT ![u] = Recovered(@)]
    <2>1. inbox[u] \in Row
      BY DEF InboxTypeOK
    <2>2. /\ Recovered(inbox[u]) \in Row
          /\ (inbox[u].status = "absent") <=> (Recovered(inbox[u]).status = "absent")
      BY <2>1 DEF Recovered, Abandoned, Row, Statuses, TerminalStatuses
    <2> QED
      BY <1>8, <2>2 DEF InboxTypeOK, OtherRowsUnchanged
  <1> QED
    BY <1>3, <1>4, <1>5, <1>6, <1>7, <1>8 DEF WorkersMove, c

-----------------------------------------------------------------------------

LEMMA HandlerStepInv ==
    ASSUME WebhookInv, NEW r \in Requests, HandlerStep(r)
    PROVE  WebhookInv'
  <1> USE DEF Stages, Answered, Accepted
  <1>0. faults \in 0 .. MaxFaults
    BY DEF WebhookInv, VariablesOK
  <1>1. CASE Unauthorized(r)
    BY <1>0, <1>1, HandlerAdvances DEF Unauthorized
  <1>2. CASE Unprocessable(r)
    BY <1>0, <1>2, HandlerAdvances DEF Unprocessable
  <1>3. CASE BeginInsert(r)
    BY <1>0, <1>3, HandlerAdvances DEF BeginInsert
  <1>A. request[r].stage \in Accepted =>
           /\ request[r].genuine /\ request[r].update \in valid
           /\ request[r].stage = "duplicate" =>
                 inbox[request[r].update].status # "absent"
    BY DEF WebhookInv, RequestsOK, RequestOK
  <1>4. CASE InsertRow(r)
    BY <1>0, <1>4, <1>A, HandlerAdvances DEF InsertRow, Goto
  <1>5. CASE FindRow(r)
    BY <1>0, <1>5, <1>A, HandlerAdvances DEF FindRow, Goto
  <1>6. CASE CommitRow(r)
    BY <1>0, <1>6, RowStored DEF CommitRow
  <1>7. CASE CommitNothing(r)
    BY <1>0, <1>7, <1>A, HandlerAdvances DEF CommitNothing, Goto
  <1>8. CASE CommitUnacknowledged(r)
    BY <1>0, <1>8, FaultType, RowStored DEF CommitUnacknowledged
  <1>9. CASE InsertFails(r)
    <2>1. faults' \in 0 .. MaxFaults
      BY <1>0, <1>9, FaultType DEF InsertFails
    <2>2. PICK stage \in {"inserting", "inserted", "duplicate"} :
             Goto(r, stage, "error")
      BY <1>9 DEF InsertFails
    <2> QED
      BY <1>9, <2>1, <2>2, HandlerAdvances DEF InsertFails
  <1> QED
    BY <1>1, <1>2, <1>3, <1>4, <1>5, <1>6, <1>7, <1>8, <1>9 DEF HandlerStep

LEMMA ArrivalInv ==
    ASSUME WebhookInv, NEW r \in Requests, NEW u \in Updates,
           NEW genuine \in BOOLEAN, Arrives(r, u, genuine),
           genuine => telegram[u] # "unsent"
    PROVE  WebhookInv'
  <1> DEFINE x == [stage |-> "received", update |-> u, genuine |-> genuine]
  <1>1. RequestOK(x, inbox', telegram', valid')
    BY DEF RequestOK, Request, Stages, Accepted, Arrives
  <1>2. OnlyForward
    BY DEF OnlyForward, Arrives
  <1>3. UpdatesOK'
    BY DEF Arrives, WebhookInv, UpdatesOK, UpdateOK
  <1>4. /\ request' = [request EXCEPT ![r] = x]
        /\ server[r[1]] = "serving"
        /\ UNCHANGED <<inbox, payload, telegram, valid, registered, server, faults>>
    BY DEF Arrives
  <1> HIDE DEF x
  <1> QED
    BY <1>1, <1>2, <1>3, <1>4, RequestReplaced DEF WebhookInv, VariablesOK

LEMMA AnswerInv ==
    ASSUME WebhookInv, NEW r \in Requests, TakeAnswer(r) \/ LoseAnswer(r)
    PROVE  WebhookInv'
  <1> DEFINE u == request[r].update
  <1>1. /\ u \in Updates
        /\ request[r].stage = "ok" => inbox[u].status # "absent"
        /\ request[r].genuine => telegram[u] # "unsent"
    BY DEF TakeAnswer, LoseAnswer, Answered, WebhookInv, RequestsOK, RequestOK
  <1>2. /\ request' = [request EXCEPT ![r] = NoRequest]
        /\ UNCHANGED <<inbox, payload, valid, registered, server>>
        /\ \/ telegram' = telegram
           \/ /\ telegram' = [telegram EXCEPT ![u] = "delivered"]
              /\ request[r].stage = "ok"
    BY DEF TakeAnswer, LoseAnswer
  <1>3. faults' \in 0 .. MaxFaults
    BY FaultType DEF TakeAnswer, LoseAnswer, WebhookInv, VariablesOK
  <1> HIDE DEF u
  <1>4. telegram' \in [Updates -> {"unsent", "sending", "delivered"}]
    BY <1>1, <1>2 DEF WebhookInv, VariablesOK
  <1>5. OnlyForward
    BY <1>1, <1>2 DEF OnlyForward, WebhookInv, VariablesOK
  <1>6. UpdatesOK'
    <2> SUFFICES ASSUME NEW v \in Updates
                 PROVE  UpdateOK(v, inbox', payload', telegram', valid')
      BY DEF UpdatesOK
    <2>1. UpdateOK(v, inbox, payload, telegram, valid)
      BY DEF WebhookInv, UpdatesOK
    <2>2. \/ telegram'[v] = telegram[v]
          \/ /\ v = u
             /\ telegram'[v] = "delivered"
             /\ inbox[v].status # "absent"
      BY <1>1, <1>2 DEF WebhookInv, VariablesOK
    <2> QED
      BY <1>2, <2>1, <2>2 DEF UpdateOK
  <1>7. NoRequest.stage = "free"
    BY DEF NoRequest
  <1> QED
    BY <1>2, <1>3, <1>4, <1>5, <1>6, <1>7, NoRequestOK, RequestReplaced

LEMMA ServerStepInv ==
    ASSUME WebhookInv, NEW s \in Servers, ServerStep(s)
    PROVE  WebhookInv'
  <1>0. faults \in 0 .. MaxFaults /\ registered \in BOOLEAN
    BY DEF WebhookInv, VariablesOK
  <1>1. CASE StartServer(s)
    BY <1>0, <1>1, ServerMoves DEF StartServer
  <1>2. CASE RegisterWebhook(s)
    BY <1>0, <1>2, ServerMoves DEF RegisterWebhook
  <1>3. CASE RegisterFails(s)
    BY <1>0, <1>3, FaultType, ServerMoves DEF RegisterFails
  <1>4. CASE EndServer(s)
    BY <1>0, <1>4, FaultType, ServerMoves DEF EndServer
  <1> QED
    BY <1>1, <1>2, <1>3, <1>4 DEF ServerStep

LEMMA SendUpdateInv ==
    ASSUME WebhookInv, NEW u \in Updates, SendUpdate(u)
    PROVE  WebhookInv'
  <1>1. OnlyForward
    BY DEF SendUpdate, OnlyForward, WebhookInv, VariablesOK
  <1>2. RequestsOK'
    BY <1>1, RequestsStay DEF SendUpdate, WebhookInv
  <1>3. VariablesOK'
    BY DEF SendUpdate, WebhookInv, VariablesOK, InboxTypeOK
  <1>4. UpdatesOK'
    BY DEF SendUpdate, WebhookInv, VariablesOK, UpdatesOK, UpdateOK
  <1>5. ServersOK'
    BY DEF SendUpdate, WebhookInv, ServersOK
  <1> QED
    BY <1>2, <1>3, <1>4, <1>5 DEF WebhookInv

LEMMA WorkersMoveInv ==
    ASSUME WebhookInv, NEW u \in Updates, WorkersMove(u)
    PROVE  WebhookInv'
  <1>1. /\ InboxTypeOK'
        /\ \A v \in Updates :
              (inbox[v].status = "absent") <=> (inbox'[v].status = "absent")
    BY WorkersMoveRow DEF WebhookInv, VariablesOK, OtherRowsUnchanged
  <1>2. UNCHANGED <<payload, telegram, valid, registered, server, request, faults>>
    BY DEF WorkersMove
  <1>3. OnlyForward
    BY <1>1, <1>2 DEF OnlyForward
  <1>4. RequestsOK'
    BY <1>2, <1>3, RequestsStay DEF WebhookInv
  <1>5. VariablesOK'
    BY <1>1, <1>2 DEF WebhookInv, VariablesOK
  <1>6. UpdatesOK'
    BY <1>1, <1>2 DEF WebhookInv, UpdatesOK, UpdateOK
  <1>7. ServersOK'
    BY <1>2 DEF WebhookInv, ServersOK
  <1> QED
    BY <1>4, <1>5, <1>6, <1>7 DEF WebhookInv

LEMMA WebhookStutter ==
    ASSUME WebhookInv, UNCHANGED wvars
    PROVE  WebhookInv'
  BY DEF wvars, WebhookInv, VariablesOK, InboxTypeOK, RequestsOK, RequestOK,
         UpdatesOK, UpdateOK, ServersOK

THEOREM WebhookNextInv == WebhookInv /\ [WebhookNext]_wvars => WebhookInv'
  <1> SUFFICES ASSUME WebhookInv, [WebhookNext]_wvars PROVE WebhookInv'
    OBVIOUS
  <1>1. ASSUME NEW r \in Requests, RequestStep(r)
        PROVE  WebhookInv'
    <2>1. CASE HandlerStep(r)
      BY <2>1, HandlerStepInv
    <2>2. CASE TakeAnswer(r) \/ LoseAnswer(r)
      BY <2>2, AnswerInv
    <2>3. ASSUME NEW u \in Updates, Deliver(r, u) \/ Intrude(r, u)
          PROVE  WebhookInv'
      BY <2>3, ArrivalInv DEF Deliver, Intrude
    <2> QED
      BY <1>1, <2>1, <2>2, <2>3 DEF RequestStep
  <1>2. ASSUME NEW s \in Servers, ServerStep(s)
        PROVE  WebhookInv'
    BY <1>2, ServerStepInv
  <1>3. ASSUME NEW u \in Updates, SendUpdate(u) \/ WorkersMove(u)
        PROVE  WebhookInv'
    BY <1>3, SendUpdateInv, WorkersMoveInv
  <1> QED
    BY <1>1, <1>2, <1>3, WebhookStutter DEF WebhookNext

THEOREM WebhookInvariance == WebhookSpec => []WebhookInv
  BY WebhookInitInv, WebhookNextInv, PTL DEF WebhookSpec

-----------------------------------------------------------------------------

\* Types, and: requests live in serving processes only.
THEOREM WebhookTyped == WebhookSpec => []WebhookTypeOK
  <1>1. WebhookInv => WebhookTypeOK
    BY DEF WebhookInv, VariablesOK, RequestsOK, RequestOK, ServersOK,
           WebhookTypeOK
  <1> QED
    BY <1>1, WebhookInvariance, PTL

\* A 200, given or about to be given, is backed by a committed row.
THEOREM AcknowledgedMeansStored == WebhookSpec => []AnsweredIsStored
  <1>1. WebhookInv => AnsweredIsStored
    BY DEF WebhookInv, RequestsOK, RequestOK, UpdatesOK, UpdateOK,
           AnsweredIsStored
  <1> QED
    BY <1>1, WebhookInvariance, PTL

\* Every row holds a valid update that Telegram sent.
THEOREM RowsAreTelegrams == WebhookSpec => []StoredIsTelegrams
  <1>1. WebhookInv => StoredIsTelegrams
    BY DEF WebhookInv, UpdatesOK, UpdateOK, StoredIsTelegrams
  <1> QED
    BY <1>1, WebhookInvariance, PTL

LEMMA StoringTouchesNoRow ==
    ASSUME InboxTypeOK, NEW v \in Updates, InsertUpdate(v)
    PROVE  \A u \in Updates : inbox[u].status # "absent" => inbox'[u] = inbox[u]
  BY InsertedRow DEF OtherRowsUnchanged

\* A row that exists is changed by workers only.
THEOREM RowsAreLeftToWorkers == WebhookSpec => RedeliveryIsHarmless
  <1> DEFINE Harmless ==
        \A u \in Updates : inbox[u].status # "absent" /\ inbox'[u] # inbox[u]
            => WorkersMove(u)
  <1>1. WebhookInv /\ [WebhookNext]_wvars => [Harmless]_wvars
    <2> SUFFICES ASSUME WebhookInv, WebhookNext PROVE Harmless
      BY DEF wvars
    <2>0. InboxTypeOK
      BY DEF WebhookInv, VariablesOK
    <2>1. ASSUME NEW r \in Requests, RequestStep(r)
          PROVE  Harmless
      <3>1. CASE inbox' = inbox
        BY <3>1
      <3>2. CASE CommitRow(r) \/ CommitUnacknowledged(r)
        <4>1. /\ request[r].update \in Updates
              /\ InsertUpdate(request[r].update)
          BY <3>2 DEF CommitRow, CommitUnacknowledged, StoreRow, Goto,
                      WebhookInv, RequestsOK, RequestOK
        <4> QED
          BY <2>0, <4>1, StoringTouchesNoRow
      <3> QED
        BY <2>1, <3>1, <3>2
           DEF RequestStep, HandlerStep, Unauthorized, Unprocessable,
               BeginInsert, InsertRow, FindRow, CommitNothing, InsertFails,
               TakeAnswer, LoseAnswer, Deliver, Intrude, Arrives
    <2>2. ASSUME NEW s \in Servers, ServerStep(s)
          PROVE  Harmless
      BY <2>2 DEF ServerStep, StartServer, RegisterWebhook, RegisterFails,
                  EndServer
    <2>3. ASSUME NEW v \in Updates, SendUpdate(v)
          PROVE  Harmless
      BY <2>3 DEF SendUpdate
    <2>4. ASSUME NEW v \in Updates, WorkersMove(v)
          PROVE  Harmless
      BY <2>0, <2>4, WorkersMoveRow DEF OtherRowsUnchanged
    <2> QED
      BY <2>1, <2>2, <2>3, <2>4 DEF WebhookNext
  <1> QED
    BY <1>1, WebhookInvariance, PTL DEF WebhookSpec, RedeliveryIsHarmless

=============================================================================
