---------------------------- MODULE ControlContracts ----------------------------
(***************************************************************************)
(* What is particular to each control call: what its use case asks for     *)
(* before it calls the platform, what its client method claims in the      *)
(* assertion, and how its parser fails. What the calls share is in         *)
(* PlatformControl.                                                        *)
(***************************************************************************)
EXTENDS Integers

-----------------------------------------------------------------------------
(* Parsers. What an answer holds is left out: a parser is told by what it      *)
(* makes of an answer it does not accept.                                     *)

\* The type of every field is looked at before it is used.
Checked == "checked"

\* A field is stripped or converted as it comes: a wrong type, or a number without an
\* integer, raises an error that the parser does not translate.
Unchecked == "unchecked"

parse_modules == Checked
parse_health == Checked
parse_dashboard == Checked
parse_server_statistics == Checked
parse_audit_timeline == Unchecked
parse_bot_settings == Checked
parse_integrations == Unchecked
parse_channel_catalog == Unchecked
parse_channel_purposes == Checked
parse_ai_moderation_summary == Unchecked
parse_welcome_settings == Checked
parse_ai_moderation_policy == Unchecked
parse_catalog == Checked
parse_twitch_health == Checked
parse_twitch_catalog == Checked

\* The statuses of the answers to the browser when a parser does not accept its own.
Refusals(parser) == IF parser = Unchecked THEN {500, 503} ELSE {503}

-----------------------------------------------------------------------------
(* Client methods. claims is the action named in the assertion, subject       *)
(* whether the actor must have linked an identity of the platform, without    *)
(* the status of the answer when there is none.                               *)

Get(parser) ==
  [method |-> "GET", claims |-> "read", subject |-> FALSE, without |-> 503, parser |-> parser]

GetAs(parser) == [Get(parser) EXCEPT !.subject = TRUE]

PutAs(parser) == [GetAs(parser) EXCEPT !.method = "PUT"]

list_for_organization == Get(parse_modules)
get_for_organization == Get(parse_health)
get_for_connection == Get(parse_dashboard)
get_bot_settings_for_connection == GetAs(parse_bot_settings)
get_integrations_for_connection == GetAs(parse_integrations)
get_server_statistics_for_connection == GetAs(parse_server_statistics)
get_audit_timeline_for_connection == GetAs(parse_audit_timeline)
get_channel_catalog_for_connection == Get(parse_channel_catalog)
get_channel_purposes_for_connection == Get(parse_channel_purposes)
get_ai_moderation_summary_for_connection == Get(parse_ai_moderation_summary)
get_ai_moderation_policy_for_connection == GetAs(parse_ai_moderation_policy)
get_welcome_settings_for_connection == Get(parse_welcome_settings)
update_channel_purpose_for_connection == PutAs(parse_channel_purposes)
update_ai_moderation_policy_for_connection == PutAs(parse_ai_moderation_summary)
update_welcome_settings_for_connection == PutAs(parse_welcome_settings)

\* Without a linked identity the catalogue of candidates is empty.
discord_candidates == [GetAs(parse_catalog) EXCEPT !.claims = "manage", !.without = 200]

twitch_candidates == [GetAs(parse_twitch_catalog) EXCEPT !.claims = "manage", !.without = 200]

twitch_get_for_organization == Get(parse_twitch_health)

-----------------------------------------------------------------------------
(* Use cases. names is what the path names: a connection, a platform that     *)
(* must have one, any platform, or only the organization; usable the statuses *)
(* its connection may have; clients what composition gives it for each        *)
(* platform, missing the answer for a platform without one.                   *)

Usable == {"active", "degraded"}

ReadOf(client) ==
  [resource |-> "control_modules", action |-> "read", names |-> "connection", usable |-> Usable,
   missing |-> 404, recent |-> FALSE, audited |-> FALSE, clients |-> [discord |-> client]]

ManagedReadOf(client) == [ReadOf(client) EXCEPT !.action = "manage"]

UpdateOf(client) == [ManagedReadOf(client) EXCEPT !.usable = {"active"}]

ListControlModules == [ReadOf(list_for_organization) EXCEPT !.names = "organization"]

GetPlatformHealth ==
  [ReadOf(get_for_organization) EXCEPT
     !.names = "platform",
     !.clients = [discord |-> get_for_organization, twitch |-> twitch_get_for_organization]]

GetPlatformDashboardSummary == ReadOf(get_for_connection)
GetPlatformBotSettings == ManagedReadOf(get_bot_settings_for_connection)
GetPlatformAuditTimeline == ManagedReadOf(get_audit_timeline_for_connection)
GetPlatformServerStatistics == ManagedReadOf(get_server_statistics_for_connection)
GetPlatformIntegrations == ManagedReadOf(get_integrations_for_connection)
ListPlatformConnectionChannels == ReadOf(get_channel_catalog_for_connection)
GetPlatformChannelPurposes == ReadOf(get_channel_purposes_for_connection)
GetPlatformAiModerationSummary == ReadOf(get_ai_moderation_summary_for_connection)
GetPlatformAiModerationPolicy == ManagedReadOf(get_ai_moderation_policy_for_connection)
GetPlatformWelcomeSettings == ReadOf(get_welcome_settings_for_connection)
UpdatePlatformChannelPurpose == UpdateOf(update_channel_purpose_for_connection)
UpdatePlatformWelcomeSettings == UpdateOf(update_welcome_settings_for_connection)

\* Only this one is audited and wants a recent authentication.
UpdatePlatformAiModerationPolicy ==
  [UpdateOf(update_ai_moderation_policy_for_connection) EXCEPT !.recent = TRUE, !.audited = TRUE]

ListPlatformConnectionCandidates ==
  [ManagedReadOf(discord_candidates) EXCEPT
     !.resource = "platform_connections", !.names = "any platform", !.missing = 503,
     !.clients = [discord |-> discord_candidates, twitch |-> twitch_candidates]]

UseCases ==
  {ListControlModules, GetPlatformHealth, GetPlatformDashboardSummary, GetPlatformBotSettings,
   GetPlatformAuditTimeline, GetPlatformServerStatistics, GetPlatformIntegrations,
   ListPlatformConnectionChannels, GetPlatformChannelPurposes, GetPlatformAiModerationSummary,
   GetPlatformAiModerationPolicy, GetPlatformWelcomeSettings, UpdatePlatformChannelPurpose,
   UpdatePlatformWelcomeSettings, UpdatePlatformAiModerationPolicy,
   ListPlatformConnectionCandidates}
=============================================================================
