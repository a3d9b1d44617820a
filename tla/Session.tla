------------------------------- MODULE Session -------------------------------
(***************************************************************************)
(* The session of a user in the tabs of one browser: the token in           *)
(* localStorage (lib/auth/storage.ts), the guards of the routes             *)
(* (app/router.tsx) and the interceptors of the HTTP client                 *)
(* (lib/api/http.ts).  Tabs share the token; each request carries the token *)
(* of the moment it is sent, and a 401 clears whatever token is stored when *)
(* it arrives.                                                              *)
(***************************************************************************)
EXTENDS Integers

CONSTANTS Tabs,         \* browser tabs
          MaxSessions   \* bound: logins

NoToken == 0
Sessions == 1 .. MaxSessions
NoCall == [token |-> NoToken, answer |-> "none", at |-> "idle", mine |-> FALSE]
LoginPages == {"login"}
UserPages == {"console", "public"}   \* behind RequireRole, and beside it

VARIABLES
  token,     \* localStorage
  valid,     \* sessions the server accepts
  logins,    \* sessions opened so far
  location,  \* where a tab is
  profile,   \* of the layout on screen: "none" yet, "loaded" or "failed"
  call       \* a request of the tab: [token, answer, at, mine (of the layout on screen)]

sessionVars == <<token, valid, logins, location, profile, call>>

SessionInit ==
  /\ token = NoToken /\ valid = {} /\ logins = 0
  /\ location = [t \in Tabs |-> "login"]
  /\ profile = [t \in Tabs |-> "none"]
  /\ call = [t \in Tabs |-> NoCall]

\* The layout of the page is mounted anew; a request of the one before goes on.
Enter(t, page) ==
  /\ location' = [location EXCEPT ![t] = page]
  /\ profile' = [profile EXCEPT ![t] = "none"]
Leaving(t) == call' = [call EXCEPT ![t].mine = FALSE]

\* A login page that is open stays open when another tab logs in.
Login(t) ==
  /\ location[t] = "login" /\ logins < MaxSessions
  /\ logins' = logins + 1 /\ valid' = valid \cup {logins'}
  /\ token' = logins'
  /\ Enter(t, "public") /\ Leaving(t)

\* RequireRole and PublicOnly look at the token when a route is entered; a login
\* page with a token leads to the dashboard, which is one of the public pages.
Landing(page) ==
  CASE page = "console" /\ token = NoToken -> "login"
    [] page = "login" /\ token # NoToken -> "public"
    [] OTHER -> page

Visit(t, page) ==
  /\ location[t] # Landing(page)
  /\ Enter(t, Landing(page)) /\ Leaving(t)
  /\ UNCHANGED <<token, valid, logins>>

\* GiftArrival, in the layout of every page but login, asks for the profile once,
\* token or not, and then for gifts every 30 seconds, if the profile came.
Request(t) ==
  /\ location[t] \in UserPages /\ profile[t] # "failed" /\ call[t] = NoCall
  /\ call' = [call EXCEPT ![t] = [token |-> token, answer |-> "none", at |-> "sent", mine |-> TRUE]]
  /\ UNCHANGED <<token, valid, logins, location, profile>>

Serve(t) ==
  /\ call[t].at = "sent"
  /\ call' = [call EXCEPT ![t].at = "answered", ![t].answer = IF call[t].token \in valid THEN "ok" ELSE "401"]
  /\ UNCHANGED <<token, valid, logins, location, profile>>

Cleared(t) == call' = [call EXCEPT ![t] = NoCall]
Rejected(t) == call[t].answer = "401"

Answered(t) ==
  /\ call[t].at = "answered" /\ ~Rejected(t)
  /\ Cleared(t)
  /\ profile' = IF call[t].mine THEN [profile EXCEPT ![t] = "loaded"] ELSE profile
  /\ UNCHANGED <<token, valid, logins, location>>

\* Mutant of Unauthorized: the token is cleared, the page stays.
UnauthorizedStays(t) ==
  /\ call[t].at = "answered" /\ Rejected(t)
  /\ token' = NoToken /\ Cleared(t)
  /\ UNCHANGED <<valid, logins, location, profile>>

\* clearRoleToken, then a load of the login page unless it is on screen.
Unauthorized(t) ==
  /\ call[t].at = "answered" /\ Rejected(t)
  /\ token' = NoToken
  /\ Enter(t, "login")
  /\ Cleared(t)
  /\ UNCHANGED <<valid, logins>>

\* The request fails on the way: nothing is cleared. Without a profile nothing is
\* asked again.
CallFails(t) ==
  /\ call[t] # NoCall /\ Cleared(t)
  /\ profile' = IF call[t].mine /\ profile[t] = "none" THEN [profile EXCEPT ![t] = "failed"] ELSE profile
  /\ UNCHANGED <<token, valid, logins, location>>

\* ConsoleLayout: the token is removed; the server is not told.
Logout(t) ==
  /\ location[t] \in UserPages /\ token # NoToken
  /\ token' = NoToken
  /\ Enter(t, "login") /\ Leaving(t)
  /\ UNCHANGED <<valid, logins>>

\* The token expires, or an administrator disables the account.
Expire(s) ==
  /\ s \in valid /\ valid' = valid \ {s}
  /\ UNCHANGED <<token, logins, location, profile, call>>

SessionNext ==
  \/ \E t \in Tabs :
       \/ Login(t) \/ Request(t) \/ Serve(t) \/ Answered(t) \/ Unauthorized(t) \/ CallFails(t) \/ Logout(t)
       \/ \E page \in {"login", "console", "public"} : Visit(t, page)
  \/ \E s \in Sessions : Expire(s)

\* The tab is visible, so the interval of GiftArrival asks, and requests do not
\* fail for ever.
SessionFairness ==
  \A t \in Tabs : /\ WF_sessionVars(Request(t)) /\ SF_sessionVars(Serve(t))
                  /\ WF_sessionVars(Answered(t)) /\ SF_sessionVars(Unauthorized(t))

SessionSpec == SessionInit /\ [][SessionNext]_sessionVars /\ SessionFairness

SessionTypeOK ==
  /\ token \in Sessions \cup {NoToken} /\ valid \subseteq Sessions /\ logins \in Sessions \cup {0}
  /\ location \in [Tabs -> LoginPages \cup UserPages]
  /\ profile \in [Tabs -> {"none", "loaded", "failed"}]
  /\ call \in [Tabs -> [token : Sessions \cup {NoToken}, answer : {"none", "ok", "401"}, at : {"idle", "sent", "answered"}, mine : BOOLEAN]]

\* A tab whose user the server no longer accepts does not stay on a page of the
\* console: it reaches the login page, or a tab logs in again, unless the profile
\* could not be loaded, after which the page asks for nothing. The guards of the
\* routes alone would leave it there, and a dead token would send the login page
\* back to the dashboard for ever.
DeadSessionReachesLogin ==
  \A t \in Tabs : (location[t] = "console" /\ token \notin valid) ~> (location[t] = "login" \/ token \in valid \/ profile[t] = "failed")

\* A visitor who never logged in is not sent away from a public page.
PublicRoutesVisible ==
  [][\A t \in Tabs : location[t] = "public" /\ logins = 0 => location'[t] = "public" \/ \E p \in {"login", "console"} : Visit(t, p)]_sessionVars
=============================================================================
