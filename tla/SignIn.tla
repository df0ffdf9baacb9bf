-------------------------------- MODULE SignIn ---------------------------------
(***************************************************************************)
(* Signing in and out, and the ID tokens that the routes of the web        *)
(* application and the chat agent work with.  The tabs of one browser      *)
(* share its cookies: state and PKCE verifier of the sign-in that was      *)
(* begun last, and the tokens of the session, which every route that calls *)
(* fetchAuthSession may renew and put back with its answer.  The identity  *)
(* center accepts an ID token once.                                        *)
(***************************************************************************)
EXTENDS Naturals

CONSTANTS
  Tabs,
  Requests,     \* requests to routes that can be in flight at a time
  MaxTokens     \* bound: ID tokens that Cognito issues

VARIABLES
  cookie,    \* PKCE_COOKIE and STATE_COOKIE: the tab whose sign-in set them
  token,     \* the ID token in the cookies: its jti and whether it claims the group
  at,        \* the page that each tab is on, or on its way to
  req,       \* requests: kind, step, token
  issued,    \* Cognito: number of ID tokens so far
  spent,     \* identity center: tokens that were exchanged
  member,    \* identity center: the user is in the group
  crossed,   \* history: tabs whose sign-in another one or a sign-out has crossed
  since,     \* history: requests in whose time the user has been a member
  out        \* history: signed out for good, no request was under way

history == <<crossed, since, out>>
signVars == <<cookie, token, at, req, issued, spent, member, history>>

Pages == {"out", "start", "idp", "callback", "app", "leaving", "error"}
Kinds == {"page", "query", "chat"}
Unset == "unset"
Stale == "stale"   \* of a sign-in that no tab goes on with
NoToken == [jti |-> 0, group |-> FALSE]
NoRequest == [kind |-> "page", step |-> "idle", token |-> NoToken]

TokenType == [jti : 0 .. issued, group : BOOLEAN]

TypeOK ==
  /\ cookie \in Tabs \cup {Unset, Stale} /\ token \in TokenType
  /\ at \in [Tabs -> Pages]
  /\ req \in [Requests -> [kind : Kinds, step : {"idle", "session", "exchange", "respond"},
                           token : TokenType]]
  /\ issued \in Nat /\ spent \subseteq 1 .. issued
  /\ member \in BOOLEAN
  /\ crossed \subseteq Tabs /\ since \subseteq Requests /\ out \in BOOLEAN

Init ==
  /\ cookie = Unset /\ token = NoToken
  /\ at = [t \in Tabs |-> "out"]
  /\ req = [r \in Requests |-> NoRequest]
  /\ issued = 0 /\ spent = {} /\ member \in BOOLEAN
  /\ crossed = {} /\ since = {} /\ out = TRUE

-----------------------------------------------------------------------------
(* Cognito and the identity center *)

InFlight == {r \in Requests : req[r].step # "idle"}

\* The trigger puts the groups of the user into a token; when GetUserId fails, for
\* whatever reason, it takes the user for one without groups.
Claim == IF member THEN BOOLEAN ELSE {FALSE}

\* The tokens that Cognito may issue next.
NewTokens == [jti : {issued + 1}, group : Claim]
Issues == issued < MaxTokens /\ issued' = issued + 1

MembershipChanges ==
  /\ member' = ~member
  /\ since' = IF member' THEN since \cup InFlight ELSE since
  /\ UNCHANGED <<cookie, token, at, req, issued, spent, crossed, out>>

-----------------------------------------------------------------------------
(* Signing in *)

Moves(t, page) == at' = [at EXCEPT ![t] = page]

\* The sign-ins of other tabs that are under way.
Others(t) == {u \in Tabs \ {t} : at[u] \in {"idp", "callback"}}

\* proxy.ts: a page is shown if there are tokens.
Visit(t) ==
  /\ at[t] \in {"out", "error", "app", "leaving"}
  /\ Moves(t, IF token # NoToken THEN "app" ELSE "out")
  /\ crossed' = crossed \ {t}
  /\ UNCHANGED <<cookie, token, req, issued, spent, member, since, out>>

\* GET /api/auth/sign-in: a new verifier and state replace those in the cookies.
SignIn(t) ==
  /\ at[t] \in {"out", "start"}
  /\ cookie' = t /\ Moves(t, "idp")
  /\ crossed' = (crossed \ {t}) \cup Others(t)
  /\ UNCHANGED <<token, req, issued, spent, member, since, out>>

\* The portal of the identity center sends the user to Cognito without a state.
FromPortal(t) ==
  /\ at[t] = "out"
  /\ Moves(t, "idp")
  /\ crossed' = IF cookie = Unset THEN crossed \ {t} ELSE crossed \cup {t}
  /\ UNCHANGED <<cookie, token, req, issued, spent, member, since, out>>

\* The user goes back.
Abandon(t) ==
  /\ at[t] = "idp"
  /\ Moves(t, "out") /\ crossed' = crossed \ {t}
  /\ cookie' = IF cookie = t THEN Stale ELSE cookie
  /\ UNCHANGED <<token, req, issued, spent, member, since, out>>

\* COOKIE_MAX_AGE is over.
CookieExpires ==
  /\ cookie # Unset /\ cookie' = Unset
  /\ UNCHANGED <<token, at, req, issued, spent, member, history>>

\* Amplify's handler: the state must be that of the cookie; then the code is
\* exchanged for tokens, and the cookies of the attempt are cleared.
Amplify(t) ==
  \/ /\ cookie = t
     /\ Issues /\ token' \in NewTokens
     /\ cookie' = Unset /\ out' = FALSE
     /\ Moves(t, "callback")
  \/ /\ cookie # t
     /\ Moves(t, "error")
     /\ UNCHANGED <<cookie, token, issued, out>>

\* Mutant: the callback is always left to Amplify.
CallbackToAmplify(t) ==
  /\ at[t] = "idp"
  /\ Amplify(t)
  /\ UNCHANGED <<req, spent, member, crossed, since>>

\* GET /api/auth/sign-in-callback: without cookies the sign-in is begun again.
Callback(t) ==
  /\ at[t] = "idp"
  /\ \/ cookie # Unset /\ Amplify(t)
     \/ cookie = Unset /\ Moves(t, "start") /\ UNCHANGED <<cookie, token, issued, out>>
  /\ UNCHANGED <<req, spent, member, crossed, since>>

\* /auth-callback asks for the session and throws if there is none.
AuthCallback(t) ==
  /\ at[t] = "callback"
  /\ Moves(t, IF token # NoToken THEN "app" ELSE "error")
  /\ UNCHANGED <<cookie, token, req, issued, spent, member, history>>

-----------------------------------------------------------------------------
(* Signing out *)

\* Mutant: only the cookies of the attempt are removed.
SignOutKeepingTokens(t) ==
  /\ at[t] = "app"
  /\ cookie' = Unset /\ UNCHANGED token
  /\ Moves(t, "leaving")
  /\ crossed' = crossed \cup Others(t) /\ out' = (InFlight = {})
  /\ UNCHANGED <<req, issued, spent, member, since>>

\* GET /api/auth/sign-out removes all cookies before Cognito is asked.
SignOut(t) ==
  /\ at[t] = "app"
  /\ cookie' = Unset /\ token' = NoToken
  /\ Moves(t, "leaving")
  /\ crossed' = crossed \cup Others(t) /\ out' = (InFlight = {})
  /\ UNCHANGED <<req, issued, spent, member, since>>

\* GET /api/sign-out-cleanup, if Cognito comes back, removes them again.
Cleanup(t) ==
  /\ at[t] = "leaving"
  /\ cookie' = Unset /\ token' = NoToken
  /\ Moves(t, "out")
  /\ crossed' = crossed \cup Others(t)
  /\ UNCHANGED <<req, issued, spent, member, since, out>>

-----------------------------------------------------------------------------
(* Routes that need the session: "page" stands for pages, /api/projects and    *)
(* /api/sessions, "query" for /api/query and /api/s3-credentials, "chat" for   *)
(* /api/cognito-token and the request to the chat agent that follows.          *)

Goes(r, step) ==
  req' = [req EXCEPT ![r] = IF step = "idle" THEN NoRequest ELSE [@ EXCEPT !.step = step]]

\* The request is over.
Forgets(r) == since' = since \ {r} /\ UNCHANGED <<crossed, out>>

\* The browser sends the cookies with the request.
Send(r) ==
  /\ req[r].step = "idle" /\ token # NoToken
  /\ \E kind \in Kinds : req' = [req EXCEPT ![r] = [kind |-> kind, step |-> "session", token |-> token]]
  /\ since' = IF member THEN since \cup {r} ELSE since \ {r}
  /\ UNCHANGED <<cookie, token, at, issued, spent, member, crossed, out>>

\* Mutant: the tokens of a chat are those in the cookies.
ForcedByQueries(kind) == kind = "query"

\* Who calls fetchAuthSession with forceRefresh.
Forced(kind) == kind \in {"query", "chat"}

\* fetchAuthSession: Cognito renews the tokens if asked to or if they are expired.
GetSession(r) ==
  LET next == IF req[r].kind = "query" THEN "exchange" ELSE "respond"
  IN  /\ req[r].step = "session"
      /\ \/ /\ Issues
            /\ \E new \in NewTokens : req' = [req EXCEPT ![r].step = next, ![r].token = new]
         \/ ~Forced(req[r].kind) /\ Goes(r, next) /\ UNCHANGED issued
      /\ UNCHANGED <<cookie, token, at, spent, member, history>>

\* CreateTokenWithIAM; a token that was exchanged before is refused.
Exchange(r) ==
  /\ req[r].step = "exchange"
  /\ spent' \in {spent, spent \cup {req[r].token.jti}}
  /\ UNCHANGED <<cookie, token, at, issued, member>>

ExchangeForQuery(r) ==
  /\ req[r].kind = "query" /\ Exchange(r)
  /\ Goes(r, "respond") /\ UNCHANGED history

\* The chat agent exchanges the token at once, and whatever comes of it goes on.
ExchangeForChat(r) ==
  /\ req[r].kind = "chat" /\ Exchange(r)
  /\ Goes(r, "idle") /\ Forgets(r)

\* The answer sets the cookies; a chat goes on with the token it was given.
Respond(r) ==
  /\ req[r].step = "respond"
  /\ token' = req[r].token
  /\ \/ req[r].kind = "chat" /\ Goes(r, "exchange") /\ UNCHANGED history
     \/ req[r].kind # "chat" /\ Goes(r, "idle") /\ Forgets(r)
  /\ UNCHANGED <<cookie, at, issued, spent, member>>

\* A call is rejected, or the answer is lost.
Fails(r) ==
  /\ req[r].step # "idle"
  /\ Goes(r, "idle") /\ Forgets(r)
  /\ UNCHANGED <<cookie, token, at, issued, spent, member>>

Next ==
  \/ \E t \in Tabs :
       \/ Visit(t) \/ SignIn(t) \/ FromPortal(t) \/ Abandon(t) \/ Callback(t) \/ AuthCallback(t)
       \/ SignOut(t) \/ Cleanup(t)
  \/ \E r \in Requests :
       \/ Send(r) \/ GetSession(r) \/ ExchangeForQuery(r) \/ ExchangeForChat(r)
       \/ Respond(r) \/ Fails(r)
  \/ CookieExpires \/ MembershipChanges

Spec == Init /\ [][Next]_signVars

-----------------------------------------------------------------------------
\* A token that is about to be exchanged was not exchanged before, and the groups
\* it claims are the user's at some moment since the request was sent, whichever
\* requests of whichever tabs renew the session meanwhile (the comments in
\* /api/query and /api/s3-credentials give the first as the reason to renew it).
TokenIsFresh ==
  \A r \in Requests :
    req[r].step = "exchange" =>
      /\ req[r].token.jti \notin spent
      /\ req[r].token.group => r \in since

\* A sign-in ends in an error only if another sign-in of the browser was begun
\* and not completed, or a sign-out removed the cookies, meanwhile; not because
\* it took longer than its cookies live, or because it began in the portal.
SignInFailsByCrossing == \A t \in Tabs : at[t] = "error" => t \in crossed

\* After a sign-out while no request was in flight, no tokens come back until a
\* sign-in completes, whatever the cleanup does and whenever it comes.  (A
\* request in flight may bring them back with its answer.)
SignedOutStays == out => token = NoToken
=============================================================================
