----------------------------- MODULE SignInProofs -----------------------------
(***************************************************************************)
(* Theorems about SignIn, for any number of tabs, of requests in flight    *)
(* and of tokens.                                                          *)
(***************************************************************************)
EXTENDS SignIn, TLAPS

-----------------------------------------------------------------------------
(* Types *)

\* Tokens stay tokens when others are issued (TokenType).
LEMMA TokensStay ==
  ASSUME NEW i \in Nat, NEW j \in Nat, i <= j
  PROVE  [jti : 0 .. i, group : BOOLEAN] \subseteq [jti : 0 .. j, group : BOOLEAN]
  OBVIOUS

\* So do the requests that carry them.
LEMMA RequestsStay ==
  ASSUME NEW T, NEW U, T \subseteq U, NEW S,
         NEW q \in [Requests -> [kind : Kinds, step : S, token : T]]
  PROVE  q \in [Requests -> [kind : Kinds, step : S, token : U]]
  OBVIOUS

\* A token that is issued is none of those before it, and claims the group only
\* of a member (pre-token-generation.ts).
LEMMA NewTokenType ==
  ASSUME TypeOK, NEW new \in NewTokens, issued' = issued + 1
  PROVE  /\ new \in TokenType' /\ new.jti = issued + 1
         /\ new.group => member
         /\ new # NoToken
<1>1. issued \in Nat /\ member \in BOOLEAN
  BY DEF TypeOK
<1>2. PICK i \in {issued + 1}, g \in Claim : new = [jti |-> i, group |-> g]
  BY DEF NewTokens
<1>3. g \in BOOLEAN /\ (g => member)
  BY <1>1 DEF Claim
<1>4. new \in TokenType'
  BY <1>1, <1>2, <1>3 DEF TokenType
<1>5. new.jti = issued + 1 /\ new # NoToken
  BY <1>1, <1>2 DEF NoToken
<1>6. new.group => member
  BY <1>2, <1>3
<1>. QED BY <1>4, <1>5, <1>6

\* An ended request leaves no token behind.
LEMMA NoRequestType ==
  TypeOK => NoRequest \in [kind : Kinds, step : {"idle", "session", "exchange", "respond"},
                           token : TokenType]
  BY DEF TypeOK, NoRequest, NoToken, TokenType, Kinds

\* What is not the absence of a token was issued: a token in the cookies, and
\* that of a request under way.
TokensIssued ==
  /\ token # NoToken => token.jti # 0
  /\ \A r \in Requests : req[r].step # "idle" => req[r].token.jti # 0

LEMMA NextTypeOK == TypeOK /\ TokensIssued /\ [Next]_signVars => TypeOK'
<1> SUFFICES ASSUME TypeOK, TokensIssued, [Next]_signVars PROVE TypeOK'
  OBVIOUS
<1> USE DEF TypeOK, history, Moves, Others, Pages, Kinds
<1>1. ASSUME NEW t \in Tabs, Visit(t) PROVE TypeOK'
  BY <1>1 DEF Visit, TokenType
<1>2. ASSUME NEW t \in Tabs, SignIn(t) PROVE TypeOK'
  BY <1>2 DEF SignIn, TokenType
<1>3. ASSUME NEW t \in Tabs, FromPortal(t) PROVE TypeOK'
  BY <1>3 DEF FromPortal, TokenType
<1>4. ASSUME NEW t \in Tabs, Abandon(t) PROVE TypeOK'
  BY <1>4 DEF Abandon, TokenType
<1>5. ASSUME NEW t \in Tabs, Callback(t) PROVE TypeOK'
  <2>1. CASE Amplify(t) /\ Issues
    <3>1. issued' = issued + 1
      BY <2>1 DEF Issues
    <3>2. TokenType \subseteq TokenType'
      BY <3>1, TokensStay DEF TokenType
    <3>3. token' \in TokenType'
      <4>1. CASE token' \in NewTokens
        BY <3>1, <4>1, NewTokenType
      <4>2. CASE token' = token
        BY <3>2, <4>2
      <4>. QED BY <2>1, <4>1, <4>2 DEF Amplify
    <3>4. req' \in [Requests -> [kind : Kinds, step : {"idle", "session", "exchange", "respond"},
                                 token : TokenType']]
      BY <1>5, <3>2, RequestsStay DEF Callback
    <3>5. cookie' \in Tabs \cup {Unset, Stale} /\ at' \in [Tabs -> Pages] /\ out' \in BOOLEAN
      BY <1>5, <2>1 DEF Callback, Amplify
    <3>. QED BY <1>5, <3>1, <3>3, <3>4, <3>5 DEF Callback
  <2>2. CASE ~(Amplify(t) /\ Issues)
    BY <1>5, <2>2 DEF Callback, Amplify, TokenType
  <2>. QED BY <2>1, <2>2
<1>6. ASSUME NEW t \in Tabs, AuthCallback(t) PROVE TypeOK'
  BY <1>6 DEF AuthCallback, TokenType
<1>7. ASSUME NEW t \in Tabs, SignOut(t) PROVE TypeOK'
  BY <1>7 DEF SignOut, TokenType, NoToken
<1>8. ASSUME NEW t \in Tabs, Cleanup(t) PROVE TypeOK'
  BY <1>8 DEF Cleanup, TokenType, NoToken
<1>9. ASSUME NEW r \in Requests, Send(r) PROVE TypeOK'
  BY <1>9 DEF Send, TokenType
<1>10. ASSUME NEW r \in Requests, GetSession(r) PROVE TypeOK'
  <2>1. CASE Issues
    <3>1. issued' = issued + 1
      BY <2>1 DEF Issues
    <3>2. TokenType \subseteq TokenType'
      BY <3>1, TokensStay DEF TokenType
    <3>3. \A new \in NewTokens : new \in TokenType'
      BY <3>1, NewTokenType
    <3>4. req' \in [Requests -> [kind : Kinds, step : {"idle", "session", "exchange", "respond"},
                                 token : TokenType']]
      BY <1>10, <2>1, <3>1, <3>2, <3>3 DEF GetSession, Goes, NoRequest
    <3>. QED BY <1>10, <3>1, <3>2, <3>4 DEF GetSession
  <2>2. CASE ~Issues
    BY <1>10, <2>2, SMTT(20) DEF GetSession, Goes, TokenType
  <2>. QED BY <2>1, <2>2
<1>11. ASSUME NEW r \in Requests, ExchangeForQuery(r) PROVE TypeOK'
  BY <1>11 DEF ExchangeForQuery, Exchange, Goes, TokenType, TokensIssued
<1>12. ASSUME NEW r \in Requests, ExchangeForChat(r) PROVE TypeOK'
  BY <1>12, NoRequestType DEF ExchangeForChat, Exchange, Goes, Forgets, TokenType, TokensIssued
<1>13. ASSUME NEW r \in Requests, Respond(r) PROVE TypeOK'
  BY <1>13, NoRequestType DEF Respond, Goes, Forgets, TokenType
<1>14. ASSUME NEW r \in Requests, Fails(r) PROVE TypeOK'
  BY <1>14, NoRequestType DEF Fails, Goes, Forgets, TokenType
<1>15. CASE CookieExpires
  BY <1>15 DEF CookieExpires, TokenType
<1>16. CASE MembershipChanges
  BY <1>16 DEF MembershipChanges, InFlight, TokenType
<1>17. CASE UNCHANGED signVars
  BY <1>17 DEF signVars, TokenType
<1>. QED
  BY <1>1, <1>2, <1>3, <1>4, <1>5, <1>6, <1>7, <1>8, <1>9, <1>10, <1>11, <1>12, <1>13, <1>14,
     <1>15, <1>16, <1>17 DEF Next

\* No step sends or keeps a token that was not issued.
LEMMA NextIssued == TypeOK /\ TokensIssued /\ [Next]_signVars => TokensIssued'
<1> SUFFICES ASSUME TypeOK, TokensIssued, [Next]_signVars PROVE TokensIssued'
  OBVIOUS
<1> USE DEF TokensIssued
<1>1. ASSUME NEW t \in Tabs,
             Visit(t) \/ SignIn(t) \/ FromPortal(t) \/ Abandon(t) \/ AuthCallback(t)
      PROVE  TokensIssued'
  BY <1>1 DEF Visit, SignIn, FromPortal, Abandon, AuthCallback
<1>2. ASSUME NEW t \in Tabs, Callback(t) PROVE TokensIssued'
  <2>1. CASE token' = token
    BY <1>2, <2>1 DEF Callback
  <2>2. CASE issued' = issued + 1 /\ token' \in NewTokens
    <3>1. token'.jti = issued + 1
      BY <2>2, NewTokenType
    <3>. QED BY <1>2, <3>1 DEF Callback, TypeOK
  <2>. QED BY <1>2, <2>1, <2>2 DEF Callback, Amplify, Issues
<1>3. ASSUME NEW t \in Tabs, SignOut(t) \/ Cleanup(t) PROVE TokensIssued'
  BY <1>3 DEF SignOut, Cleanup
<1>4. ASSUME NEW r \in Requests, Send(r) PROVE TokensIssued'
  BY <1>4 DEF Send, TypeOK
<1>5. ASSUME NEW r \in Requests, GetSession(r) PROVE TokensIssued'
  <2>1. CASE Issues
    <3>1. \A new \in NewTokens : new.jti = issued + 1
      BY <2>1, NewTokenType DEF Issues
    <3>2. \A q \in Requests : req'[q].token = req[q].token \/ req'[q].token \in NewTokens
      BY <1>5 DEF GetSession, Goes, TypeOK
    <3>3. \A q \in Requests : req'[q].step # "idle" => req[q].step # "idle"
      BY <1>5 DEF GetSession, Goes, TypeOK
    <3>. QED BY <1>5, <3>1, <3>2, <3>3 DEF GetSession, TypeOK
  <2>2. CASE ~Issues
    BY <1>5, <2>2 DEF GetSession, Goes, TypeOK
  <2>. QED BY <2>1, <2>2
<1>6. ASSUME NEW r \in Requests,
             ExchangeForQuery(r) \/ ExchangeForChat(r) \/ Respond(r) \/ Fails(r)
      PROVE  TokensIssued'
  BY <1>6 DEF ExchangeForQuery, ExchangeForChat, Exchange, Respond, Fails, Goes, NoRequest, TypeOK
<1>7. CASE CookieExpires \/ MembershipChanges \/ UNCHANGED signVars
  BY <1>7 DEF CookieExpires, MembershipChanges, signVars
<1>. QED
  BY <1>1, <1>2, <1>3, <1>4, <1>5, <1>6, <1>7 DEF Next

LEMMA InitTypes == Init => TypeOK /\ TokensIssued
  BY DEF Init, TypeOK, TokensIssued, TokenType, NoToken, NoRequest, Pages, Kinds

LEMMA TypesHold == Spec => [](TypeOK /\ TokensIssued)
  BY InitTypes, NextTypeOK, NextIssued, PTL DEF Spec

\* Every reachable state is well typed: the tokens in cookies and requests were
\* issued, and only such tokens were exchanged.
THEOREM SignInTypeCorrect == Spec => []TypeOK
  BY TypesHold, PTL
-----------------------------------------------------------------------------
(* Signing out *)

\* Nothing that is under way survives the flag `out`.
OutInv == out => token = NoToken /\ InFlight = {}

LEMMA NextOut == TypeOK /\ OutInv /\ [Next]_signVars => OutInv'
<1> SUFFICES ASSUME TypeOK, OutInv, [Next]_signVars PROVE OutInv'
  OBVIOUS
<1> USE DEF OutInv, InFlight, history
<1>1. ASSUME NEW t \in Tabs,
             Visit(t) \/ SignIn(t) \/ FromPortal(t) \/ Abandon(t) \/ AuthCallback(t)
      PROVE  OutInv'
  BY <1>1 DEF Visit, SignIn, FromPortal, Abandon, AuthCallback
<1>2. ASSUME NEW t \in Tabs, Callback(t) PROVE OutInv'
  BY <1>2 DEF Callback, Amplify
<1>3. ASSUME NEW t \in Tabs, SignOut(t) \/ Cleanup(t) PROVE OutInv'
  BY <1>3 DEF SignOut, Cleanup
<1>4. ASSUME NEW r \in Requests, Send(r) PROVE OutInv'
  BY <1>4 DEF Send
<1>5. ASSUME NEW r \in Requests,
             GetSession(r) \/ ExchangeForQuery(r) \/ ExchangeForChat(r) \/ Respond(r) \/ Fails(r)
      PROVE  OutInv'
  <2>1. r \in InFlight /\ ~out
    BY <1>5 DEF GetSession, ExchangeForQuery, ExchangeForChat, Exchange, Respond, Fails
  <2>2. out' = out
    BY <1>5 DEF GetSession, ExchangeForQuery, ExchangeForChat, Exchange, Respond, Fails, Forgets
  <2>. QED BY <2>1, <2>2
<1>6. CASE CookieExpires \/ MembershipChanges \/ UNCHANGED signVars
  BY <1>6 DEF CookieExpires, MembershipChanges, signVars
<1>. QED
  BY <1>1, <1>2, <1>3, <1>4, <1>5, <1>6 DEF Next

\* After a sign-out with no request under way the cookies hold no tokens until
\* somebody signs in, whatever the cleanup route and other tabs do
\* (/api/auth/sign-out, /api/sign-out-cleanup).
THEOREM SignOutIsFinal == Spec => []SignedOutStays
<1>1. Init => OutInv
  BY DEF Init, OutInv, InFlight, NoRequest
<1>2. OutInv => SignedOutStays
  BY DEF OutInv, SignedOutStays
<1>. QED BY <1>1, <1>2, NextOut, TypesHold, PTL DEF Spec

-----------------------------------------------------------------------------
(* Signing in *)

\* A tab that waits for the callback with another attempt's cookies, or for the
\* session without tokens, was crossed; so was one that sees the error.
CrossedInv ==
  /\ \A t \in Tabs : at[t] = "idp" /\ cookie # Unset /\ cookie # t => t \in crossed
  /\ \A t \in Tabs : at[t] = "callback" /\ token = NoToken => t \in crossed
  /\ SignInFailsByCrossing

LEMMA NextCrossed ==
  ASSUME Unset \notin Tabs
  PROVE  TypeOK /\ TokensIssued /\ CrossedInv /\ [Next]_signVars => CrossedInv'
<1> SUFFICES ASSUME TypeOK, TokensIssued, CrossedInv, [Next]_signVars PROVE CrossedInv'
  OBVIOUS
<1> USE DEF CrossedInv, SignInFailsByCrossing, history, Moves, Others, TypeOK
<1>1. ASSUME NEW t \in Tabs, Visit(t) PROVE CrossedInv'
  BY <1>1 DEF Visit
<1>2. ASSUME NEW t \in Tabs, SignIn(t) PROVE CrossedInv'
  BY <1>2 DEF SignIn
<1>3. ASSUME NEW t \in Tabs, FromPortal(t) PROVE CrossedInv'
  BY <1>3 DEF FromPortal
<1>4. ASSUME NEW t \in Tabs, Abandon(t) PROVE CrossedInv'
  BY <1>4 DEF Abandon
<1>5. ASSUME NEW t \in Tabs, Callback(t) PROVE CrossedInv'
  <2>1. issued' = issued + 1 => \A new \in NewTokens : new # NoToken
    BY NewTokenType
  <2>. QED BY <1>5, <2>1 DEF Callback, Amplify, Issues
<1>6. ASSUME NEW t \in Tabs, AuthCallback(t) PROVE CrossedInv'
  BY <1>6 DEF AuthCallback
<1>7. ASSUME NEW t \in Tabs, SignOut(t) \/ Cleanup(t) PROVE CrossedInv'
  BY <1>7 DEF SignOut, Cleanup
<1>8. ASSUME NEW r \in Requests,
             Send(r) \/ GetSession(r) \/ ExchangeForQuery(r) \/ ExchangeForChat(r) \/ Fails(r)
      PROVE  CrossedInv'
  BY <1>8 DEF Send, GetSession, ExchangeForQuery, ExchangeForChat, Exchange, Fails, Forgets
<1>9. ASSUME NEW r \in Requests, Respond(r) PROVE CrossedInv'
  <2>1. token' # NoToken
    BY <1>9 DEF Respond, TokensIssued, NoToken
  <2>. QED BY <1>9, <2>1 DEF Respond, Forgets
<1>10. CASE CookieExpires \/ MembershipChanges \/ UNCHANGED signVars
  BY <1>10 DEF CookieExpires, MembershipChanges, signVars
<1>. QED
  BY <1>1, <1>2, <1>3, <1>4, <1>5, <1>6, <1>7, <1>8, <1>9, <1>10 DEF Next

\* However many tabs sign in and out: a sign-in that ends in an error was crossed
\* by another one or by a sign-out; none fails for the age of its cookies or for
\* having begun in the portal (/api/auth/sign-in, sign-in-callback).
THEOREM SignInFailsOnlyByCrossing ==
  ASSUME Unset \notin Tabs
  PROVE  Spec => []SignInFailsByCrossing
<1>1. Init => CrossedInv
  BY DEF Init, CrossedInv, SignInFailsByCrossing
<1>2. CrossedInv => SignInFailsByCrossing
  BY DEF CrossedInv
<1>3. TypeOK /\ TokensIssued /\ CrossedInv /\ [Next]_signVars => CrossedInv'
  BY NextCrossed
<1>. QED BY <1>1, <1>2, <1>3, TypesHold, PTL DEF Spec

-----------------------------------------------------------------------------
(* Exchanging tokens *)

\* Requests that hold a token which was issued for them to be exchanged.
Holds(r) == req[r].step = "exchange" \/ (req[r].kind = "chat" /\ req[r].step = "respond")

\* Such tokens are new and no two of them are the same; the group they claim is
\* the user's since the request was sent.
FreshInv ==
  /\ \A r \in Requests : Holds(r) =>
       req[r].token.jti \notin spent /\ (req[r].token.group => r \in since)
  /\ \A r, q \in Requests :
       Holds(r) /\ Holds(q) /\ r # q => req[r].token.jti # req[q].token.jti
  /\ member => InFlight \subseteq since

\* What one step of a request does to the others.
LEMMA OthersKeep ==
  ASSUME TypeOK, NEW r \in Requests, NEW STATE s,
         req' = [req EXCEPT ![r] = s]
  PROVE  /\ req'[r] = s
         /\ \A q \in Requests \ {r} : req'[q] = req[q] /\ (Holds(q)' <=> Holds(q))
  BY DEF TypeOK, Holds

\* A request that ends, or goes on without a token of its own.
LEMMA DroppingKeepsFresh ==
  ASSUME TypeOK, FreshInv, NEW r \in Requests, NEW STATE s,
         req' = [req EXCEPT ![r] = s], ~Holds(r)',
         s.step = "idle" \/ ~member \/ r \in since',
         since \ {r} \subseteq since', spent' = spent, member' = member
  PROVE  FreshInv'
<1>1. \A q \in Requests \ {r} : req'[q] = req[q] /\ (Holds(q)' <=> Holds(q))
  BY OthersKeep
<1>2. req'[r] = s
  BY OthersKeep
<1>3. \A q \in Requests : Holds(q)' => q # r /\ Holds(q) /\ req'[q] = req[q]
  BY <1>1
<1>4. member' => InFlight' \subseteq since'
  BY <1>1, <1>2 DEF FreshInv, InFlight
<1>. QED BY <1>3, <1>4 DEF FreshInv

LEMMA NextFresh == TypeOK /\ TokensIssued /\ FreshInv /\ [Next]_signVars => FreshInv'
<1> SUFFICES ASSUME TypeOK, TokensIssued, FreshInv, [Next]_signVars PROVE FreshInv'
  OBVIOUS
<1> USE DEF history
<1>1. ASSUME UNCHANGED <<req, spent, member, since>> PROVE FreshInv'
  BY <1>1 DEF FreshInv, Holds, InFlight
<1>2. ASSUME NEW t \in Tabs,
             Visit(t) \/ SignIn(t) \/ FromPortal(t) \/ Abandon(t) \/ Callback(t) \/ AuthCallback(t)
               \/ SignOut(t) \/ Cleanup(t)
      PROVE  FreshInv'
  BY <1>1, <1>2
  DEF Visit, SignIn, FromPortal, Abandon, Callback, AuthCallback, SignOut, Cleanup
<1>3. CASE CookieExpires \/ UNCHANGED signVars
  BY <1>1, <1>3 DEF CookieExpires, signVars
<1>4. CASE MembershipChanges
  BY <1>4 DEF MembershipChanges, FreshInv, Holds, InFlight
<1>5. ASSUME NEW r \in Requests, Send(r) PROVE FreshInv'
  <2>1. PICK kind \in Kinds :
          req' = [req EXCEPT ![r] = [kind |-> kind, step |-> "session", token |-> token]]
    BY <1>5 DEF Send
  <2>2. ~Holds(r)'
    BY <2>1 DEF Holds, TypeOK
  <2>3. ~member \/ r \in since'
    BY <1>5 DEF Send
  <2>. QED BY <1>5, <2>1, <2>2, <2>3, DroppingKeepsFresh DEF Send
<1>6. ASSUME NEW r \in Requests, GetSession(r) PROVE FreshInv'
  <2>1. r \in InFlight /\ UNCHANGED <<spent, member, since>>
    BY <1>6 DEF GetSession, InFlight
  <2>2. ~member \/ r \in since'
    BY <2>1 DEF FreshInv
  <2> DEFINE next == IF req[r].kind = "query" THEN "exchange" ELSE "respond"
  <2>3. CASE ~Forced(req[r].kind) /\ Goes(r, next)
    <3>1. req' = [req EXCEPT ![r] = [req[r] EXCEPT !.step = next]]
      BY <2>3 DEF Goes
    <3>2. ~Holds(r)'
      BY <2>3, <3>1, OthersKeep DEF Holds, Forced, TypeOK
    <3>. QED BY <2>1, <2>2, <3>1, <3>2, DroppingKeepsFresh
  <2>4. CASE /\ Issues
             /\ \E new \in NewTokens : req' = [req EXCEPT ![r].step = next, ![r].token = new]
    <3>1. PICK new \in NewTokens : req' = [req EXCEPT ![r].step = next, ![r].token = new]
      BY <2>4
    <3>2. new.jti = issued + 1 /\ (new.group => member)
      BY <2>4, NewTokenType DEF Issues
    <3>3. req'[r].token = new
      BY <3>1 DEF TypeOK
    <3>4. \A q \in Requests \ {r} : req'[q] = req[q] /\ (Holds(q)' <=> Holds(q))
      BY <3>1 DEF TypeOK, Holds
    <3>5. \A q \in Requests : req[q].token.jti \in 0 .. issued
      BY DEF TypeOK, TokenType
    <3>6. new.jti \notin spent /\ \A q \in Requests : req[q].token.jti # new.jti
      BY <3>2, <3>5 DEF TypeOK
    <3>7. new.group => r \in since'
      BY <2>2, <3>2
    <3>8. member' => InFlight' \subseteq since'
      BY <2>1, <2>2, <3>4 DEF FreshInv, InFlight
    <3>. QED BY <2>1, <3>3, <3>4, <3>6, <3>7, <3>8 DEF FreshInv
  <2>. QED BY <1>6, <2>3, <2>4 DEF GetSession
<1>7. ASSUME NEW r \in Requests, ExchangeForQuery(r) \/ ExchangeForChat(r) PROVE FreshInv'
  <2>1. Holds(r) /\ spent' \in {spent, spent \cup {req[r].token.jti}}
    BY <1>7 DEF ExchangeForQuery, ExchangeForChat, Exchange, Holds
  <2>2. \E s : req' = [req EXCEPT ![r] = s] /\ (s.step = "idle" \/ (s.kind = "query" /\ s.step = "respond"))
    BY <1>7 DEF ExchangeForQuery, ExchangeForChat, Goes, NoRequest, TypeOK
  <2>3. ~Holds(r)' /\ (r \in InFlight' => req'[r].step = "respond")
    BY <2>2, OthersKeep DEF Holds, InFlight
  <2>4. \A q \in Requests \ {r} : req'[q] = req[q] /\ (Holds(q)' <=> Holds(q))
    BY <2>2, OthersKeep
  <2>5. \A q \in Requests : Holds(q)' => q # r /\ Holds(q) /\ req'[q] = req[q]
    BY <2>3, <2>4
  <2>6. since \ {r} \subseteq since' /\ member' = member
    BY <1>7 DEF ExchangeForQuery, ExchangeForChat, Exchange, Forgets
  <2>7. r \in InFlight' => since' = since /\ r \in InFlight
    BY <1>7 DEF ExchangeForQuery, ExchangeForChat, Exchange, Goes, NoRequest, InFlight, TypeOK
  <2>8. member' => InFlight' \subseteq since'
    BY <2>4, <2>6, <2>7 DEF FreshInv, InFlight
  <2>. QED BY <2>1, <2>5, <2>6, <2>8 DEF FreshInv
<1>8. ASSUME NEW r \in Requests, Respond(r) PROVE FreshInv'
  <2>1. r \in InFlight /\ UNCHANGED <<spent, member>>
    BY <1>8 DEF Respond, InFlight
  <2>2. CASE req[r].kind = "chat" /\ Goes(r, "exchange") /\ UNCHANGED history
    <3>1. req' = [req EXCEPT ![r] = [req[r] EXCEPT !.step = "exchange"]]
      BY <2>2 DEF Goes
    <3>2. Holds(r) /\ req'[r].token = req[r].token /\ req'[r].step = "exchange"
      BY <1>8, <2>2, <3>1 DEF Respond, Holds, TypeOK
    <3>3. \A q \in Requests \ {r} : req'[q] = req[q] /\ (Holds(q)' <=> Holds(q))
      BY <3>1, OthersKeep
    <3>4. \A q \in Requests : Holds(q)' => Holds(q) /\ req'[q].token = req[q].token
      BY <3>2, <3>3
    <3>5. InFlight' \subseteq InFlight
      BY <2>1, <3>3 DEF InFlight
    <3>. QED BY <2>1, <2>2, <3>4, <3>5 DEF FreshInv
  <2>3. CASE req[r].kind # "chat" /\ Goes(r, "idle") /\ Forgets(r)
    <3>1. req' = [req EXCEPT ![r] = NoRequest] /\ ~Holds(r)'
      BY <2>3 DEF Goes, NoRequest, Holds, TypeOK
    <3>. QED BY <2>1, <2>3, <3>1, DroppingKeepsFresh DEF Forgets, NoRequest
  <2>. QED BY <1>8, <2>2, <2>3 DEF Respond
<1>9. ASSUME NEW r \in Requests, Fails(r) PROVE FreshInv'
  <2>1. req' = [req EXCEPT ![r] = NoRequest] /\ ~Holds(r)'
    BY <1>9 DEF Fails, Goes, NoRequest, Holds, TypeOK
  <2>. QED BY <1>9, <2>1, DroppingKeepsFresh DEF Fails, Forgets, NoRequest
<1>. QED
  BY <1>2, <1>3, <1>4, <1>5, <1>6, <1>7, <1>8, <1>9 DEF Next

\* However many requests of however many tabs renew the session at a time: a
\* token that is about to be exchanged was never exchanged, and claims no group
\* that the user was not in since the request (/api/query, /api/s3-credentials,
\* /api/cognito-token, pre-token-generation.ts).
THEOREM ExchangedTokensAreFresh == Spec => []TokenIsFresh
<1>1. Init => FreshInv
  BY DEF Init, FreshInv, Holds, InFlight, NoRequest
<1>2. FreshInv => TokenIsFresh
  BY DEF FreshInv, TokenIsFresh, Holds
<1>. QED BY <1>1, <1>2, NextFresh, TypesHold, PTL DEF Spec
=============================================================================
