---------------------------- MODULE AuthSessions ----------------------------
(***************************************************************************)
(* The sessions of one browser: its tabs share the refresh cookie and the  *)
(* access token, each tab exchanges the cookie for a new pair when a call  *)
(* is answered 401, and the API keeps a row per refresh token that it      *)
(* revokes on rotation and logout.  Session i stands for its refresh token *)
(* and for the access token issued with it.  An operator with a suffix is  *)
(* a mutation.                                                             *)
(***************************************************************************)
EXTENDS Naturals, FiniteSets

CONSTANTS Tabs, Calls,  \* tabs, and API calls under way in them
          TabOf,        \* TabOf[c]: the tab that makes call c
          None,
          MaxSessions, MaxSubmits, MaxExpiries, MaxLosses \* bounds

ASSUME SessionsAssumption ==
  /\ TabOf \in [Calls -> Tabs] /\ None \notin Calls
  /\ MaxSessions \in Nat \ {0} /\ {MaxSubmits, MaxExpiries, MaxLosses} \subseteq Nat

Ids == 1..MaxSessions

VARIABLES session,  \* user_sessions; the row of each session issued so far
          expired,  \* access tokens past their thirty minutes
          cookie,   \* the refresh token the browser holds; 0 if none
          access,   \* the access token in localStorage; 0 if none
          page,     \* page[t]: a page of the application, or /login
          promise,  \* refreshPromise of the tab: the call that started it
          call,     \* an apiFetch and what it waits for
          refresh,  \* refresh[c]: the rotation that call c started
          form,     \* form[t]: the login or logout under way in t
          loggedOut, overlapped, raced, submits, losses, expiries \* history

vars == <<session, expired, cookie, access, page, promise, call, refresh, form,
          loggedOut, overlapped, raced, submits, losses, expiries>>
history == <<loggedOut, overlapped, raced, submits, losses, expiries>>

(* A row; age 1: the token's own expiry has passed, 2: the row's, which is set
   a moment later, has too. *)
Row(login, parent) == [revoked |-> FALSE, age |-> 0, login |-> login, parent |-> parent]
IdleCall == [pc |-> "idle", token |-> 0, retried |-> FALSE, on |-> None]
IdleRefresh == [pc |-> "idle", token |-> 0, new |-> 0]
Refused == [IdleRefresh EXCEPT !.pc = "refused"]
Rotated(i) == [IdleRefresh EXCEPT !.pc = "rotated", !.new = i]
IdleForm == [pc |-> "idle", id |-> 0, token |-> 0]

(* The browser after its first login. *)
Init ==
  /\ session = <<Row(1, 0)>>
  /\ expired = {}
  /\ cookie = 1 /\ access = 1
  /\ page = [t \in Tabs |-> "app"]
  /\ promise = [t \in Tabs |-> None]
  /\ call = [c \in Calls |-> IdleCall]
  /\ refresh = [c \in Calls |-> IdleRefresh]
  /\ form = [t \in Tabs |-> IdleForm]
  /\ loggedOut = {} /\ overlapped = {} /\ raced = FALSE
  /\ submits = 0 /\ losses = 0 /\ expiries = 0
-----------------------------------------------------------------------------
Issued == DOMAIN session
NextId == Cardinality(Issued) + 1
Issue(row) == [i \in Issued \cup {NextId} |-> IF i = NextId THEN row ELSE session[i]]

Refreshing == {c \in Calls : refresh[c].pc # "idle"}
Submitting == {t \in Tabs : form[t].pc # "idle"}

(* get_current_user *)
Authenticated(token) == token # 0 /\ token \notin expired
-----------------------------------------------------------------------------
(* The browser: apiFetch. *)

Fetch(c) ==
  /\ call[c].pc = "idle" /\ page[TabOf[c]] = "app"
  /\ call' = [call EXCEPT ![c] = [IdleCall EXCEPT !.pc = "sent", !.token = access]]
  /\ UNCHANGED <<session, expired, cookie, access, page, promise, refresh, form, history>>

(* Answered with anything but a 401, or with a 401 once more after a refresh;
   most callers show the error and stay where they are. *)
Answered(c) ==
  /\ call[c].pc = "sent"
  /\ Authenticated(call[c].token) \/ call[c].retried
  /\ call' = [call EXCEPT ![c] = IdleCall]
  /\ UNCHANGED <<session, expired, cookie, access, page, promise, refresh, form, history>>

(* AppShell asks for /auth/me when it is mounted, and takes whatever error it
   gets for the end of the session: a limit, a network failure, a second 401. *)
ProfileFails(c) ==
  /\ call[c].pc = "sent" /\ losses < MaxLosses
  /\ losses' = losses + 1
  /\ call' = [call EXCEPT ![c] = IdleCall]
  /\ access' = 0
  /\ page' = [page EXCEPT ![TabOf[c]] = "login"]
  /\ UNCHANGED <<session, expired, cookie, promise, refresh, form, loggedOut, overlapped, raced, submits, expiries>>

Starts_Always(c) == TRUE

(* A tab has one refresh at a time. *)
Starts(c) == promise[TabOf[c]] = None

(* A 401: refreshAccessToken starts a rotation or joins the one under way; the
   cookie is attached when the request is sent. *)
Unauthorized(c) ==
  LET t == TabOf[c] IN
  /\ call[c].pc = "sent" /\ ~Authenticated(call[c].token) /\ ~call[c].retried
  /\ call' = [call EXCEPT ![c] = [IdleCall EXCEPT !.pc = "waiting", !.on = IF Starts(c) THEN c ELSE promise[t]]]
  /\ IF Starts(c)
       THEN /\ promise' = [promise EXCEPT ![t] = c]
            /\ refresh' = [refresh EXCEPT ![c] = [pc |-> "sent", token |-> cookie, new |-> 0]]
            /\ raced' = (raced \/ Submitting # {} \/ \E d \in Refreshing : TabOf[d] # t)
       ELSE UNCHANGED <<promise, refresh, raced>>
  /\ UNCHANGED <<session, expired, cookie, access, page, form, loggedOut, overlapped, submits, losses, expiries>>
-----------------------------------------------------------------------------
(* The API: rotate_refresh_token, which reads the row and commits later. *)

Exchangeable_Revoked(i) == i # 0 /\ session[i].age < 2

Exchangeable(i) == i # 0 /\ ~session[i].revoked /\ session[i].age < 2

LoadSession(c) ==
  LET i == refresh[c].token IN
  /\ refresh[c].pc = "sent"
  /\ refresh' = [refresh EXCEPT ![c] = IF Exchangeable(i) THEN [@ EXCEPT !.pc = "loaded"] ELSE Refused]
  /\ overlapped' = IF \E d \in Calls : refresh[d].pc = "loaded" /\ refresh[d].token = i
                     THEN overlapped \cup {i} ELSE overlapped
  /\ UNCHANGED <<session, expired, cookie, access, page, promise, call, form, loggedOut, raced, submits, losses, expiries>>

CommitRotation_KeepsOld(c) ==
  LET i == refresh[c].token IN
  /\ refresh[c].pc = "loaded" /\ NextId \in Ids
  /\ session' = Issue(Row(session[i].login, i))
  /\ refresh' = [refresh EXCEPT ![c] = Rotated(NextId)]
  /\ UNCHANGED <<expired, cookie, access, page, promise, call, form, history>>

(* The old row is revoked; its successor is inserted with the same commit,
   unless the token itself no longer verifies. *)
CommitRotation(c) ==
  LET i == refresh[c].token IN
  /\ refresh[c].pc = "loaded"
  /\ IF session[i].age = 0
       THEN /\ NextId \in Ids
            /\ session' = [Issue(Row(session[i].login, i)) EXCEPT ![i].revoked = TRUE]
            /\ refresh' = [refresh EXCEPT ![c] = Rotated(NextId)]
       ELSE /\ session' = [session EXCEPT ![i].revoked = TRUE]
            /\ refresh' = [refresh EXCEPT ![c] = Refused]
  /\ UNCHANGED <<expired, cookie, access, page, promise, call, form, history>>

(* A rate limit, a network failure or an error of the server on the way in. *)
TurnedAway(c) ==
  /\ refresh[c].pc \in {"sent", "loaded"} /\ losses < MaxLosses
  /\ losses' = losses + 1
  /\ refresh' = [refresh EXCEPT ![c] = Refused]
  /\ UNCHANGED <<session, expired, cookie, access, page, promise, call, form, loggedOut, overlapped, raced, submits, expiries>>
-----------------------------------------------------------------------------
(* The browser: the promise is settled and those who await it go on at once. *)

Awaiting(c) == {d \in Calls : call[d].pc = "waiting" /\ call[d].on = c}

Settled_Kept(c) ==
  /\ UNCHANGED promise
  /\ refresh' = [refresh EXCEPT ![c] = IdleRefresh]

Settled(c) ==
  /\ promise' = [promise EXCEPT ![TabOf[c]] = None]
  /\ refresh' = [refresh EXCEPT ![c] = IdleRefresh]

(* The response sets the cookie and the access token; the calls are repeated. *)
Refreshed(c) ==
  /\ refresh[c].pc = "rotated"
  /\ cookie' = refresh[c].new /\ access' = refresh[c].new
  /\ Settled(c)
  /\ call' = [d \in Calls |->
       IF d \in Awaiting(c) THEN [pc |-> "sent", token |-> 0, retried |-> TRUE, on |-> None] ELSE call[d]]
  /\ UNCHANGED <<session, expired, page, form, history>>

(* No new token: the access token is dropped and the tab loads /login, which
   ends everything it had under way. *)
NotRefreshed(c) ==
  LET t == TabOf[c] IN
  /\ \/ refresh[c].pc = "refused" /\ UNCHANGED losses
     \/ refresh[c].pc = "rotated" /\ losses < MaxLosses /\ losses' = losses + 1
  /\ access' = 0
  /\ Settled(c)
  /\ page' = [page EXCEPT ![t] = "login"]
  /\ call' = [d \in Calls |-> IF d \in Awaiting(c) \/ (page[t] = "app" /\ TabOf[d] = t) THEN IdleCall ELSE call[d]]
  /\ form' = IF page[t] = "app" THEN [form EXCEPT ![t] = IdleForm] ELSE form
  /\ UNCHANGED <<session, expired, cookie, loggedOut, overlapped, raced, submits, expiries>>
-----------------------------------------------------------------------------
(* Login and logout. *)

Submit(t, request) ==
  /\ form[t] = IdleForm /\ submits < MaxSubmits
  /\ submits' = submits + 1
  /\ form' = [form EXCEPT ![t] = request]
  /\ raced' = (raced \/ Refreshing # {} \/ Submitting # {})
  /\ UNCHANGED <<session, expired, cookie, access, page, promise, call, refresh, loggedOut, overlapped, losses, expiries>>

Login(t) == page[t] = "login" /\ Submit(t, [pc |-> "login", id |-> 0, token |-> 0])
Logout(t) == page[t] = "app" /\ Submit(t, [pc |-> "logout", id |-> cookie, token |-> access])

(* create_user_session, committed on its own before the audit entry. *)
CommitLogin(t) ==
  /\ form[t].pc = "login" /\ NextId \in Ids
  /\ session' = Issue(Row(NextId, 0))
  /\ form' = [form EXCEPT ![t].pc = "loggedin", ![t].id = NextId]
  /\ UNCHANGED <<expired, cookie, access, page, promise, call, refresh, history>>

CommitLogout_CookieOnly(t) ==
  LET f == form[t] IN
  /\ f.pc = "logout"
  /\ form' = [form EXCEPT ![t].pc = IF Authenticated(f.token) THEN "loggedout" ELSE "refused"]
  /\ UNCHANGED <<session, expired, cookie, access, page, promise, call, refresh, history>>

(* revoke_session, reached only with a valid access token. *)
CommitLogout(t) ==
  LET f == form[t] IN
  /\ f.pc = "logout"
  /\ IF Authenticated(f.token)
       THEN /\ session' = IF f.id = 0 THEN session ELSE [session EXCEPT ![f.id].revoked = TRUE]
            /\ form' = [form EXCEPT ![t].pc = "loggedout"]
       ELSE form' = [form EXCEPT ![t].pc = "refused"] /\ UNCHANGED session
  /\ UNCHANGED <<expired, cookie, access, page, promise, call, refresh, history>>

LoggedIn(t) ==
  /\ form[t].pc = "loggedin"
  /\ cookie' = form[t].id /\ access' = form[t].id
  /\ page' = [page EXCEPT ![t] = "app"]
  /\ form' = [form EXCEPT ![t] = IdleForm]
  /\ UNCHANGED <<session, expired, promise, call, refresh, history>>

(* handleLogout forgets the access token whatever the answer; only a 204 clears
   the cookie.  Calls of the page go on. *)
LoggedOut(t) ==
  LET f == form[t] IN
  /\ f.pc \in {"loggedout", "refused"}
  /\ cookie' = IF f.pc = "loggedout" THEN 0 ELSE cookie
  /\ loggedOut' = IF f.pc = "loggedout" /\ f.id # 0 THEN loggedOut \cup {session[f.id].login} ELSE loggedOut
  /\ access' = 0
  /\ page' = [page EXCEPT ![t] = "login"]
  /\ form' = [form EXCEPT ![t] = IdleForm]
  /\ UNCHANGED <<session, expired, promise, call, refresh, overlapped, raced, submits, losses, expiries>>

(* The request or its answer is lost, or the audit entry fails: an error. *)
SubmitFails(t) ==
  /\ form[t].pc # "idle" /\ losses < MaxLosses
  /\ losses' = losses + 1
  /\ IF page[t] = "app" THEN access' = 0 /\ page' = [page EXCEPT ![t] = "login"] ELSE UNCHANGED <<access, page>>
  /\ form' = [form EXCEPT ![t] = IdleForm]
  /\ UNCHANGED <<session, expired, cookie, promise, call, refresh, loggedOut, overlapped, raced, submits, expiries>>
-----------------------------------------------------------------------------
AccessExpires(i) ==
  /\ i \in Issued \ expired /\ expiries < MaxExpiries
  /\ expired' = expired \cup {i} /\ expiries' = expiries + 1
  /\ UNCHANGED <<session, cookie, access, page, promise, call, refresh, form, loggedOut, overlapped, raced, submits, losses>>

SessionAges(i) ==
  /\ i \in expired /\ session[i].age < 2 /\ expiries < MaxExpiries
  /\ session' = [session EXCEPT ![i].age = @ + 1] /\ expiries' = expiries + 1
  /\ UNCHANGED <<expired, cookie, access, page, promise, call, refresh, form, loggedOut, overlapped, raced, submits, losses>>

Next ==
  \/ \E c \in Calls : \/ Fetch(c) \/ Answered(c) \/ ProfileFails(c) \/ Unauthorized(c)
                      \/ LoadSession(c) \/ CommitRotation(c) \/ TurnedAway(c)
                      \/ Refreshed(c) \/ NotRefreshed(c)
  \/ \E t \in Tabs : \/ Login(t) \/ CommitLogin(t) \/ LoggedIn(t)
                     \/ Logout(t) \/ CommitLogout(t) \/ LoggedOut(t) \/ SubmitFails(t)
  \/ \E i \in Issued : AccessExpires(i) \/ SessionAges(i)

Spec == Init /\ [][Next]_vars
-----------------------------------------------------------------------------
Live(i) == ~session[i].revoked /\ session[i].age = 0

(* The types, and nobody waits for ever: a call that awaits a refresh awaits one
   that is under way, and so does a tab that makes others join it
   (lib/api.ts:279-303). *)
TypeOK ==
  /\ session \in [Issued -> [revoked : BOOLEAN, age : 0..2, login : Ids, parent : 0..MaxSessions]]
  /\ Issued \subseteq Ids /\ expired \subseteq Issued
  /\ cookie \in {0} \cup Issued /\ access \in {0} \cup Issued
  /\ page \in [Tabs -> {"app", "login"}]
  /\ promise \in [Tabs -> Calls \cup {None}]
  /\ call \in [Calls -> [pc : {"idle", "sent", "waiting"}, token : {0} \cup Issued, retried : BOOLEAN, on : Calls \cup {None}]]
  /\ refresh \in [Calls -> [pc : {"idle", "sent", "loaded", "rotated", "refused"}, token : {0} \cup Issued, new : {0} \cup Issued]]
  /\ form \in [Tabs -> [pc : {"idle", "login", "loggedin", "logout", "loggedout", "refused"}, id : {0} \cup Issued, token : {0} \cup Issued]]
  /\ \A c \in Calls : call[c].pc = "waiting" => call[c].on \in Refreshing
  /\ \A t \in Tabs : promise[t] # None => promise[t] \in Refreshing

(* "Concurrent 401s share one request" (lib/api.ts:277): as long as no answer
   is lost or an error and no two tabs are at it at once, a tab gives up its user's access
   only when there is no cookie or its session has run out, and never because
   the cookie was exchanged or revoked meanwhile. *)
KeptSignedIn ==
  [][access # 0 /\ access' = 0 /\ form' = form /\ ~raced /\ losses' = 0
       => cookie = 0 \/ session[cookie].age > 0]_vars

(* A refresh token is exchanged once, unless two rotations of it overlap: both
   then read the row before either commits (auth_service.py:151-185). *)
RotatedOnce ==
  \A i \in Issued \ overlapped : Cardinality({j \in Issued : session[j].parent = i}) <= 1

(* After a logout was answered 204 no token that descends from the login can be
   exchanged, though it presents only the latest of them, as long as no answer
   was lost and nothing overlapped (routes/auth.py:140-142). *)
LogoutEnds ==
  ~raced /\ losses = 0 => \A i \in Issued : session[i].login \in loggedOut => ~Live(i)
=============================================================================
