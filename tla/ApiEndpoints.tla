------------------------------ MODULE ApiEndpoints ------------------------------
(***************************************************************************)
(* The endpoints that create_app registers. A handler does the same things *)
(* in the same order: it asks the rate limiter, it looks for the           *)
(* principal, it answers 503 if its use case is not configured, it calls   *)
(* the use case and turns the errors it knows into a status. An endpoint   *)
(* is the record of what is particular to it. Shapes of requests and       *)
(* responses are left out.                                                 *)
(***************************************************************************)
EXTENDS Integers

Unlimited == "unlimited"    \* no rate limit scope

\* needs is what the handler wants to know of its caller, configurable whether its
\* use case may be missing, answer the status of a success, raises the statuses of
\* the errors it handles, writes whether the use case changes anything, cookies
\* what a success may do to the cookies of the session, ends the sessions it ends.
Read ==
  [method |-> "GET", needs |-> "actor", scope |-> Unlimited, configurable |-> TRUE,
   answer |-> 200, raises |-> {403}, writes |-> FALSE, cookies |-> {"kept"},
   ends |-> "none"]

Write == [Read EXCEPT !.method = "POST", !.writes = TRUE]

\* A call of a platform, which may be missing, fail or be refused.
Control == [Read EXCEPT !.raises = {403, 404, 503}]

Public == [Read EXCEPT !.needs = "anyone", !.raises = {}]

Open == [Write EXCEPT !.needs = "anyone"]

-----------------------------------------------------------------------------
(* Operations.                                                               *)

healthz == [Public EXCEPT !.configurable = FALSE]

\* A probe that fails or raises answers 503.
readyz == [Public EXCEPT !.raises = {503}]

metrics == Public

-----------------------------------------------------------------------------
(* Sessions, identities and passwords.                                       *)

get_browser_session == [Read EXCEPT !.configurable = FALSE, !.raises = {}]

revoke_browser_session ==
  [Write EXCEPT !.method = "DELETE", !.needs = "principal", !.answer = 204, !.cookies = {"deleted"},
                !.ends = "own"]

list_browser_sessions == [Read EXCEPT !.needs = "principal"]

revoke_all_browser_sessions ==
  [Write EXCEPT !.method = "DELETE", !.needs = "principal", !.cookies = {"deleted"},
                !.ends = "all"]

reauthenticate_browser_session ==
  [Write EXCEPT !.needs = "principal", !.scope = "auth.reauthentication", !.answer = 204]

list_login_identities == Read

unlink_login_identity == [Write EXCEPT !.method = "DELETE", !.needs = "principal"]

change_email_password == [Write EXCEPT !.method = "PUT", !.needs = "principal", !.answer = 204]

request_password_recovery ==
  [Open EXCEPT !.scope = "auth.password_recovery.request", !.answer = 202, !.raises = {503}]

complete_password_recovery ==
  [Open EXCEPT !.scope = "auth.password_recovery.complete", !.answer = 204,
               !.raises = {403, 503}, !.ends = "all"]

start_email_password_registration ==
  [Open EXCEPT !.scope = "auth.registration", !.answer = 202, !.raises = {422, 503}]

verify_email_password_registration ==
  [Open EXCEPT !.scope = "auth.registration.verification", !.raises = {403, 503}]

resend_email_password_registration_verification ==
  [Open EXCEPT !.scope = "auth.registration.resend", !.answer = 202, !.raises = {503}]

authenticate_email_password ==
  [Open EXCEPT !.scope = "auth.login", !.answer = 204, !.raises = {401}, !.cookies = {"set"}]

-----------------------------------------------------------------------------
(* External identities. The five providers share their handlers.             *)

begin_external_identity_link == Write

begin_oauth_login == [Open EXCEPT !.scope = "auth.oauth.start", !.raises = {503}]

\* A GET that writes: it tries the login transaction, whose success sets the cookies,
\* and then the link transaction.
complete_external_identity_link_callback ==
  [Open EXCEPT !.method = "GET", !.scope = "auth.oauth.callback", !.answer = 303,
               !.raises = {400, 503}, !.cookies = {"set", "kept"}]

begin_discord_identity_link == begin_external_identity_link
begin_twitch_identity_link == begin_external_identity_link
begin_google_identity_link == begin_external_identity_link
begin_yandex_identity_link == begin_external_identity_link
begin_telegram_identity_link == begin_external_identity_link

list_oauth_providers == [Public EXCEPT !.configurable = FALSE]

begin_discord_oauth_login == begin_oauth_login
begin_twitch_oauth_login == begin_oauth_login
begin_telegram_oauth_login == begin_oauth_login
begin_google_oauth_login == begin_oauth_login
begin_yandex_oauth_login == begin_oauth_login

complete_discord_oauth_callback == complete_external_identity_link_callback
complete_twitch_identity_link_callback == complete_external_identity_link_callback
complete_google_oauth_callback == complete_external_identity_link_callback
complete_yandex_oauth_callback == complete_external_identity_link_callback
complete_telegram_oauth_callback == complete_external_identity_link_callback

-----------------------------------------------------------------------------
(* Organizations and their members.                                          *)

list_organizations == Read

create_organization == [Write EXCEPT !.answer = 201]

list_organization_members == Read

add_organization_member == [Write EXCEPT !.answer = 201]

update_organization_member == [Write EXCEPT !.method = "PUT"]

remove_organization_member == [Write EXCEPT !.method = "DELETE", !.answer = 204]

create_organization_member_invitation ==
  [Write EXCEPT !.scope = "organization.invitation.create", !.answer = 202]

list_organization_member_invitations == Read

revoke_organization_member_invitation == [Write EXCEPT !.method = "DELETE", !.answer = 204]

accept_organization_member_invitation == [Write EXCEPT !.scope = "auth.invitation.accept"]

list_organization_audit_events == [Read EXCEPT !.raises = {403, 422}]

-----------------------------------------------------------------------------
(* Platform connections.                                                     *)

list_platform_connection_candidates == [Read EXCEPT !.raises = {403, 503}]

connect_platform_connection == [Write EXCEPT !.answer = 201, !.raises = {403, 503}]

list_platform_connections == Read

run_platform_connection_lifecycle == Write

reauthorize_platform_connection == run_platform_connection_lifecycle

revoke_platform_connection == run_platform_connection_lifecycle

disconnect_platform_connection ==
  [run_platform_connection_lifecycle EXCEPT !.method = "DELETE"]

-----------------------------------------------------------------------------
(* Platform control.                                                         *)

\* Its use case has a default that denies everything.
list_control_modules == [Read EXCEPT !.configurable = FALSE, !.raises = {403, 503}]

get_platform_health == Control
get_platform_dashboard_summary == Control
get_platform_bot_settings == Control
get_platform_audit_timeline == Control
get_platform_server_statistics == Control
get_platform_integrations == Control
list_platform_connection_channels == Control
get_platform_channel_purposes == Control
get_platform_ai_moderation_summary == Control
get_platform_ai_moderation_policy == Control
get_platform_welcome_settings == Control

update_platform_ai_moderation_policy ==
  [Control EXCEPT !.method = "PUT", !.needs = "principal", !.writes = TRUE]

update_platform_channel_purpose == [Control EXCEPT !.method = "PUT", !.writes = TRUE]

update_platform_welcome_settings == [Control EXCEPT !.method = "PUT", !.writes = TRUE]

-----------------------------------------------------------------------------
(* What is decided per path.                                                 *)

Endpoints ==
  [healthz |-> healthz, readyz |-> readyz, metrics |-> metrics,
   get_browser_session |-> get_browser_session,
   revoke_browser_session |-> revoke_browser_session,
   list_browser_sessions |-> list_browser_sessions,
   revoke_all_browser_sessions |-> revoke_all_browser_sessions,
   reauthenticate_browser_session |-> reauthenticate_browser_session,
   list_login_identities |-> list_login_identities,
   unlink_login_identity |-> unlink_login_identity,
   change_email_password |-> change_email_password,
   request_password_recovery |-> request_password_recovery,
   complete_password_recovery |-> complete_password_recovery,
   start_email_password_registration |-> start_email_password_registration,
   verify_email_password_registration |-> verify_email_password_registration,
   resend_email_password_registration_verification |->
     resend_email_password_registration_verification,
   authenticate_email_password |-> authenticate_email_password,
   begin_discord_identity_link |-> begin_discord_identity_link,
   begin_twitch_identity_link |-> begin_twitch_identity_link,
   begin_google_identity_link |-> begin_google_identity_link,
   begin_yandex_identity_link |-> begin_yandex_identity_link,
   begin_telegram_identity_link |-> begin_telegram_identity_link,
   list_oauth_providers |-> list_oauth_providers,
   begin_discord_oauth_login |-> begin_discord_oauth_login,
   begin_twitch_oauth_login |-> begin_twitch_oauth_login,
   begin_telegram_oauth_login |-> begin_telegram_oauth_login,
   begin_google_oauth_login |-> begin_google_oauth_login,
   begin_yandex_oauth_login |-> begin_yandex_oauth_login,
   complete_discord_oauth_callback |-> complete_discord_oauth_callback,
   complete_twitch_identity_link_callback |-> complete_twitch_identity_link_callback,
   complete_google_oauth_callback |-> complete_google_oauth_callback,
   complete_yandex_oauth_callback |-> complete_yandex_oauth_callback,
   complete_telegram_oauth_callback |-> complete_telegram_oauth_callback,
   list_organizations |-> list_organizations,
   create_organization |-> create_organization,
   list_organization_members |-> list_organization_members,
   add_organization_member |-> add_organization_member,
   update_organization_member |-> update_organization_member,
   remove_organization_member |-> remove_organization_member,
   create_organization_member_invitation |-> create_organization_member_invitation,
   list_organization_member_invitations |-> list_organization_member_invitations,
   revoke_organization_member_invitation |-> revoke_organization_member_invitation,
   accept_organization_member_invitation |-> accept_organization_member_invitation,
   list_organization_audit_events |-> list_organization_audit_events,
   list_platform_connection_candidates |-> list_platform_connection_candidates,
   connect_platform_connection |-> connect_platform_connection,
   list_platform_connections |-> list_platform_connections,
   reauthorize_platform_connection |-> reauthorize_platform_connection,
   revoke_platform_connection |-> revoke_platform_connection,
   disconnect_platform_connection |-> disconnect_platform_connection,
   list_control_modules |-> list_control_modules,
   get_platform_health |-> get_platform_health,
   get_platform_dashboard_summary |-> get_platform_dashboard_summary,
   get_platform_bot_settings |-> get_platform_bot_settings,
   get_platform_audit_timeline |-> get_platform_audit_timeline,
   get_platform_server_statistics |-> get_platform_server_statistics,
   get_platform_integrations |-> get_platform_integrations,
   list_platform_connection_channels |-> list_platform_connection_channels,
   get_platform_channel_purposes |-> get_platform_channel_purposes,
   get_platform_ai_moderation_summary |-> get_platform_ai_moderation_summary,
   get_platform_ai_moderation_policy |-> get_platform_ai_moderation_policy,
   get_platform_welcome_settings |-> get_platform_welcome_settings,
   update_platform_ai_moderation_policy |-> update_platform_ai_moderation_policy,
   update_platform_channel_purpose |-> update_platform_channel_purpose,
   update_platform_welcome_settings |-> update_platform_welcome_settings]

CSRF_EXEMPT_PATHS ==
  {"start_email_password_registration", "verify_email_password_registration",
   "resend_email_password_registration_verification", "authenticate_email_password",
   "begin_discord_oauth_login", "begin_twitch_oauth_login", "begin_telegram_oauth_login",
   "begin_google_oauth_login", "begin_yandex_oauth_login",
   "request_password_recovery", "complete_password_recovery"}

SAFE_HTTP_METHODS == {"GET", "HEAD", "OPTIONS"}

\* Fault: the callback asks for a scope that has no rule.
LimitedScopesButCallback ==
  {"auth.registration", "auth.registration.verification", "auth.registration.resend",
   "auth.login", "auth.oauth.start", "auth.reauthentication",
   "auth.password_recovery.request", "auth.password_recovery.complete",
   "auth.invitation.accept", "organization.invitation.create"}

\* The scopes that have a rule in DEFAULT_AUTH_RATE_LIMIT_RULES; a scope without one
\* is not limited.
LimitedScopes ==
  {"auth.registration", "auth.registration.verification", "auth.registration.resend",
   "auth.login", "auth.oauth.start", "auth.oauth.callback", "auth.reauthentication",
   "auth.password_recovery.request", "auth.password_recovery.complete",
   "auth.invitation.accept", "organization.invitation.create"}
=============================================================================
