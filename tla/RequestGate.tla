------------------------------- MODULE RequestGate -------------------------------
(***************************************************************************)
(* The way of a request through the API: the middleware in the order it is *)
(* called (metrics, CSRF, session, correlation identifier, browser         *)
(* headers), the rate limiter, the checks of the handler, the use case and *)
(* the answer. Requests of one browser run concurrently in several         *)
(* processes; each is made once.                                           *)
(*                                                                         *)
(* The token of a session also stands for the CSRF token that is issued    *)
(* with it. Every session belongs to the same user.                        *)
(***************************************************************************)
EXTENDS ApiEndpoints, RateLimiter

CONSTANTS
  Requests,
  Sessions,
  LimiterConfigured,   \* create_app was given a rate limiter
  None                 \* no cookie, no session

\* One client: its keys are the scopes.
ASSUME GateAssumption ==
  None \notin Sessions /\ LimitedScopes \subseteq Keys /\ LimiterConfigured \in BOOLEAN

VARIABLES
  live,   \* sessions that resolve
  used,   \* sessions that were issued
  jar,    \* the cookies of the browser
  req     \* local state of each request

vars == <<redis, bucket, recent, live, used, jar, req>>

-----------------------------------------------------------------------------
\* The requests whose CSRF token is compared.
Compared(path) ==
  Endpoints[path].method \notin SAFE_HTTP_METHODS /\ path \notin CSRF_EXEMPT_PATHS

\* What the middleware and the handlers tell apart of the paths.
Routes == {[endpoint |-> Endpoints[path], compared |-> Compared(path)] : path \in DOMAIN Endpoints}

\* A page of the Console sends the CSRF token it reads from the cookie; any other page
\* makes the browser send the cookies, but cannot read them.
Origins == {"console", "elsewhere"}

New == [pc |-> "new"]

\* An answer that leaves the cookies alone is the end of the request.
Answer(status) == [pc |-> "done", status |-> status]

GateInit ==
  /\ LimiterInit
  /\ live \in {{s} : s \in Sessions}
  /\ used = live
  /\ jar \in live
  /\ req = [r \in Requests |-> New]

Becomes(r, q) == req' = [req EXCEPT ![r] = q]

E(r) == req[r].endpoint

Answered(r, status) == Becomes(r, Answer(status))

Cookies(r, status, cookie) ==
  Becomes(r, [pc |-> "answered", status |-> status, cookie |-> cookie])

-----------------------------------------------------------------------------
\* Fault: a missing token is compared like any other.
CsrfPassesEmpty(route, cookie, header) ==
  ~route.compared \/ header \in {cookie, None}

\* protect_mutations_from_csrf
CsrfPasses(route, cookie, header) ==
  ~route.compared \/ (cookie # None /\ header = cookie)

\* A request arrives with the cookies of the browser. History: origin is the page that
\* made it, gone the sessions that had ended by then, counted whether the rate limiter
\* counted it.
Arrive(r) ==
  /\ req[r] = New
  /\ \E route \in Routes, p \in Processes, origin \in Origins :
       LET header == IF origin = "console" THEN jar ELSE None IN
       IF CsrfPasses(route, jar, header)
         THEN Becomes(r, [pc |-> "resolve", endpoint |-> route.endpoint, process |-> p, cookie |-> jar,
                          origin |-> origin, gone |-> Sessions \ live, actor |-> None, counted |-> FALSE])
         ELSE Answered(r, 403)
  /\ UNCHANGED <<limiterVars, live, used, jar>>

\* Fault: the session is found by its token alone.
ResolvedUsed(cookie) == IF cookie \in used THEN cookie ELSE None

\* ResolveBrowserSession, as AccountSecurity models it.
Resolved(cookie) == IF cookie \in live THEN cookie ELSE None

\* resolve_browser_session. When the resolver raises, the handler reads the
\* correlation identifier, which is not there yet, and raises too.
resolve_session(r) ==
  LET q == req[r] IN
  /\ q.pc = "resolve"
  /\ \/ Becomes(r, [q EXCEPT !.pc = IF E(r).scope = Unlimited THEN "check" ELSE "limit",
                            !.actor = Resolved(q.cookie)])
     \/ q.cookie # None /\ Answered(r, 500)
  /\ UNCHANGED <<limiterVars, live, used, jar>>

\* enforce_auth_rate_limit; without a limiter, or a rule for the scope, every request
\* is let through.
enforce_auth_rate_limit(r) ==
  LET q == req[r] IN
  /\ q.pc = "limit"
  /\ IF LimiterConfigured /\ E(r).scope \in LimitedScopes
       THEN \/ /\ Allow(q.process, E(r).scope)
               /\ Becomes(r, [q EXCEPT !.pc = "check", !.counted = TRUE])
            \/ Refuse(q.process, E(r).scope) /\ Answered(r, 429)
       ELSE /\ Becomes(r, [q EXCEPT !.pc = "check"])
            /\ UNCHANGED limiterVars
  /\ UNCHANGED <<live, used, jar>>

HasPrincipal(r) == E(r).needs = "anyone" \/ req[r].actor # None

\* The checks of the handler, up to the call of the use case.
CheckCaller(r) ==
  LET q == req[r] IN
  /\ q.pc = "check"
  /\ \/ ~HasPrincipal(r) /\ Answered(r, 403)
     \/ HasPrincipal(r) /\ E(r).configurable /\ Answered(r, 503)
     \/ HasPrincipal(r) /\ Becomes(r, [q EXCEPT !.pc = "call"])
  /\ UNCHANGED <<limiterVars, live, used, jar>>

\* The sessions that are left after a success.
LiveAfter(e, actor) ==
  {s \in live : e.ends = "none" \/ (e.ends = "own" /\ s # actor)}

\* The use case takes effect and the handler answers. A login opens a session and sets
\* its cookies; the callback of a link does neither.
Succeed(r) ==
  LET q == req[r]
      e == E(r)
  IN
  /\ q.pc = "call"
  /\ \/ /\ "set" \in e.cookies
        /\ \E s \in Sessions \ used :
             /\ used' = used \cup {s}
             /\ live' = live \cup {s}
             /\ Cookies(r, e.answer, s)
     \/ /\ \/ "kept" \in e.cookies /\ Answered(r, e.answer)
           \/ "deleted" \in e.cookies /\ Cookies(r, e.answer, None)
        /\ live' = LiveAfter(e, q.actor)
        /\ UNCHANGED used
  /\ UNCHANGED <<limiterVars, jar>>

\* The use case refuses or fails. An error that no handler knows is answered by the
\* correlation middleware.
Fail(r) ==
  /\ req[r].pc = "call"
  /\ E(r).configurable \/ E(r).raises # {}
  /\ \E status \in E(r).raises \cup {500} : Answered(r, status)
  /\ UNCHANGED <<limiterVars, live, used, jar>>

\* The answer reaches the browser, or is lost.
Receive(r) ==
  LET a == req[r] IN
  /\ a.pc = "answered"
  /\ jar' \in {jar, a.cookie}
  /\ Answered(r, a.status)
  /\ UNCHANGED <<limiterVars, live, used>>

-----------------------------------------------------------------------------
\* A session expires, or is revoked elsewhere.
Lapse(s) ==
  /\ s \in live
  /\ live' = live \ {s}
  /\ UNCHANGED <<limiterVars, used, jar, req>>

Clock == TimePasses /\ UNCHANGED <<live, used, jar, req>>

GateNext ==
  \/ \E r \in Requests : \/ Arrive(r) \/ resolve_session(r) \/ enforce_auth_rate_limit(r)
                         \/ CheckCaller(r) \/ Succeed(r) \/ Fail(r) \/ Receive(r)
  \/ \E s \in Sessions : Lapse(s)
  \/ Clock

GateSpec == GateInit /\ [][GateNext]_vars

-----------------------------------------------------------------------------
(* Properties.                                                               *)

\* "CSRF protection for authenticated mutations": a use case that writes in the name of
\* the browser's user runs only for a request of a Console page, whatever the cookies
\* were when it arrived, signed out or replaced meanwhile included. The methods, the
\* exemptions and the caller checks of the handlers are kept apart and have to agree.
CallersWriteFromConsole ==
  \A r \in Requests :
    req[r].pc = "call" /\ E(r).writes /\ E(r).needs # "anyone" => req[r].origin = "console"

\* "Rate-limit login, callback, recovery": with a limiter, a use case that writes for
\* anybody runs only for a request that was counted. The scope a handler names and the
\* rules are kept apart, and a scope without a rule is let through.
OpenWritesAreCounted ==
  LimiterConfigured =>
    \A r \in Requests :
      req[r].pc = "call" /\ E(r).writes /\ E(r).needs = "anyone" => req[r].counted

\* A use case acts for the session of the request's own cookie, and for none that had
\* ended before the request arrived: signing out in one request leaves later requests
\* nothing, even in another process. Only a session that ends meanwhile may still act.
ActsForLiveSession ==
  \A r \in Requests :
    req[r].pc = "call" /\ E(r).needs # "anyone" =>
      /\ req[r].actor \in Sessions \ req[r].gone
      /\ req[r].actor = req[r].cookie
=============================================================================
