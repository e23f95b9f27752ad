-------------------------- MODULE UpdateLifecycle --------------------------
(***************************************************************************)
(* What the bot promises about an update it accepted, without workers,     *)
(* attempts, claims or clocks: the life of its row, and of the only        *)
(* Singularity request it may ever cause.                                  *)
(*                                                                         *)
(* The promise: a request is issued at most once; what goes back to the    *)
(* queue has issued none; succeeded and failed tell the truth about the    *)
(* effect; uncertain is left to captures; a terminal status is final.      *)
(***************************************************************************)
CONSTANT Updates

VARIABLES captures,   \* the updates that ask for a task; never changes
          status,
          effect      \* what became of the request of an update

vars == <<captures, status, effect>>

Statuses == { "absent", "pending", "processing",
              "succeeded", "failed", "uncertain" }
Effects == {"none", "issued", "applied", "refused"}

Init ==
    /\ captures \in SUBSET Updates
    /\ status = [u \in Updates |-> "absent"]
    /\ effect = [u \in Updates |-> "none"]

StatusMoves(u, from, to) ==
    /\ status[u] = from
    /\ status'[u] = to
    /\ effect'[u] = effect[u]

EffectMoves(u, from, to) ==
    /\ effect[u] = from
    /\ effect'[u] = to
    /\ status'[u] = status[u]

Accept(u) == StatusMoves(u, "absent", "pending")
Begin(u) == StatusMoves(u, "pending", "processing")

\* Retried only when the request is known not to have been issued.
GiveBack(u) == StatusMoves(u, "processing", "pending") /\ effect[u] = "none"

\* A worker may be overtaken by recovery between its marker and its call, so
\* the request of an uncertain update may still be issued.
Issue(u) ==
    /\ u \in captures
    /\ status[u] \in {"processing", "uncertain"}
    /\ EffectMoves(u, "none", "issued")

TakeEffect(u) == EffectMoves(u, "issued", "applied")
Refuse(u) == EffectMoves(u, "issued", "refused")

Succeed(u) ==
    /\ StatusMoves(u, "processing", "succeeded")
    /\ effect[u] = IF u \in captures THEN "applied" ELSE "none"

Fail(u) ==
    /\ StatusMoves(u, "processing", "failed")
    /\ effect[u] \in {"none", "refused"}

Doubt(u) ==
    /\ u \in captures
    /\ StatusMoves(u, "processing", "uncertain")

Rests(u) == status'[u] = status[u] /\ effect'[u] = effect[u]

Advances(u) ==
    \/ Accept(u) \/ Begin(u) \/ GiveBack(u)
    \/ Issue(u) \/ TakeEffect(u) \/ Refuse(u)
    \/ Succeed(u) \/ Fail(u) \/ Doubt(u)

\* One recovery pass moves many rows at once, so a step may advance several
\* updates, each by one move.
Next ==
    /\ captures' = captures
    /\ status' \in [Updates -> Statuses]
    /\ effect' \in [Updates -> Effects]
    /\ \A u \in Updates : Advances(u) \/ Rests(u)

Spec == Init /\ [][Next]_vars
=============================================================================
