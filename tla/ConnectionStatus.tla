-------------------------- MODULE ConnectionStatus --------------------------
(* The tables of the platform-connection domain: the statuses a connection   *)
(* may have, the transitions domain/connections.py allows, the lifecycle     *)
(* actions a user may request, and the reconciliation decisions that         *)
(* domain/connection_reconciliation.py accepts from a platform.              *)

Statuses == {"pending", "active", "degraded", "reauth_required", "disconnected"}

\* A connection identifier whose row has not been inserted.
Absent == "absent"

AllowedTransitions ==
  [s \in Statuses |->
     CASE s = "pending"         -> {"active", "degraded", "reauth_required", "disconnected"}
       [] s = "active"          -> {"degraded", "reauth_required", "disconnected"}
       [] s = "degraded"        -> {"active", "reauth_required", "disconnected"}
       [] s = "reauth_required" -> {"active", "disconnected"}
       [] s = "disconnected"    -> {}]

Reasons == {"initial_pending", "healthy", "preflight_failed", "token_expired",
            "scopes_missing", "platform_unreachable", "resource_removed",
            "reauthorized", "revoked", "disconnected"}

LifecycleActions == {"reauthorize", "revoke", "disconnect"}

TargetStatus(action) ==
  CASE action = "reauthorize" -> "active"
    [] action = "revoke"      -> "reauth_required"
    [] action = "disconnect"  -> "disconnected"

ActionReason(action) ==
  CASE action = "reauthorize" -> "reauthorized"
    [] action = "revoke"      -> "revoked"
    [] action = "disconnect"  -> "disconnected"

\* The targets each reconciliation reason may carry; any other pair is refused
\* when the decision is built, and counts as an unavailable platform.
AllowedTargets ==
  [r \in {"healthy", "preflight_failed", "token_expired", "scopes_missing",
          "platform_unreachable", "resource_removed"} |->
     CASE r = "healthy"              -> {"pending", "active", "degraded"}
       [] r = "preflight_failed"     -> {"pending", "degraded"}
       [] r = "token_expired"        -> {"reauth_required"}
       [] r = "scopes_missing"       -> {"reauth_required"}
       [] r = "platform_unreachable" -> {"degraded"}
       [] r = "resource_removed"     -> {"disconnected"}]

Decisions == {d \in [target : Statuses, reason : DOMAIN AllowedTargets] :
                d.target \in AllowedTargets[d.reason]}

\* What a probe that cannot reach its platform decides.
UnreachableDecision == [target |-> "degraded", reason |-> "platform_unreachable"]
=============================================================================
