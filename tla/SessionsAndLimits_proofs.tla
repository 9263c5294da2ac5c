--------------------- MODULE SessionsAndLimits_proofs ---------------------
(***************************************************************************)
(* What AuthSessions guarantees for every number of tabs, calls, sessions, *)
(* submitted forms, expiries and lost answers, and what RateLimiter        *)
(* guarantees for every number of processes, limits, window and delay.     *)
(* The two share nothing but the module: first the sessions, then the      *)
(* limiter.                                                                *)
(***************************************************************************)
EXTENDS AuthSessions, RateLimiter, FiniteSetTheorems, SequenceTheorems, WellFoundedInduction, TLAPS

-----------------------------------------------------------------------------
(* The inductive invariant.                                                 *)

Token == {0} \cup Issued
SessionRow == [revoked : BOOLEAN, age : 0..2, login : Ids, parent : 0..MaxSessions]
CallState(T) ==
  [pc : {"idle", "sent", "waiting"}, token : T, retried : BOOLEAN, on : Calls \cup {None}]
RefreshState(T) ==
  [pc : {"idle", "sent", "loaded", "rotated", "refused"}, token : T, new : T]
FormState(T) ==
  [pc : {"idle", "login", "loggedin", "logout", "loggedout", "refused"}, id : T, token : T]

(* The sessions are numbered in the order of their rows. *)
SessionsOK ==
  /\ \E n \in Ids : Issued = 1..n
  /\ session \in [Issued -> SessionRow] /\ expired \subseteq Issued

RefreshOK ==
  /\ refresh \in [Calls -> RefreshState(Token)]
  /\ \A c \in Calls : refresh[c].pc = "loaded" => refresh[c].token \in Issued

BrowserOK ==
  /\ cookie \in Token /\ access \in Token
  /\ page \in [Tabs -> {"app", "login"}] /\ form \in [Tabs -> FormState(Token)]

(* A promise belongs to its tab, so it is that tab which settles it, and with it
   all who wait for it. *)
WaitsOK ==
  /\ call \in [Calls -> CallState(Token)] /\ promise \in [Tabs -> Calls \cup {None}]
  /\ \A c \in Calls : call[c].pc = "waiting" => call[c].on \in Refreshing
  /\ \A t \in Tabs : promise[t] # None => promise[t] \in Refreshing /\ TabOf[promise[t]] = t

(* Unless two rotations of a token have met, one at most has read its row, only
   before the token has a successor, and it has one successor at most. *)
Loaded(c, i) == refresh[c].pc = "loaded" /\ refresh[c].token = i
Succeeds(j, i) == session[j].parent = i
Alone(i) ==
  /\ \A c, d \in Calls : Loaded(c, i) /\ Loaded(d, i) => c = d
  /\ \A c \in Calls, j \in Issued : ~(Loaded(c, i) /\ Succeeds(j, i))
  /\ \A j, k \in Issued : Succeeds(j, i) /\ Succeeds(k, i) => j = k
RotationOK ==
  /\ \A j \in Issued, i \in Ids : Succeeds(j, i) => i \in Issued /\ session[i].revoked
  /\ \A i \in Ids \ overlapped : Alone(i)

IInv == SessionsOK /\ RefreshOK /\ BrowserOK /\ WaitsOK /\ RotationOK

-----------------------------------------------------------------------------
(* The records.                                                             *)

LEMMA TokensGrow ==
  ASSUME NEW T, NEW U, T \subseteq U
  PROVE  /\ CallState(T) \subseteq CallState(U)
         /\ RefreshState(T) \subseteq RefreshState(U)
         /\ FormState(T) \subseteq FormState(U)
BY DEF CallState, RefreshState, FormState

LEMMA NothingUnderWay ==
  ASSUME NEW T, 0 \in T
  PROVE  /\ IdleCall \in CallState(T) /\ IdleCall.pc = "idle"
         /\ IdleRefresh \in RefreshState(T) /\ IdleRefresh.pc = "idle"
         /\ Refused \in RefreshState(T) /\ Refused.pc = "refused"
         /\ \A i \in T : Rotated(i) \in RefreshState(T) /\ Rotated(i).pc = "rotated" /\ Rotated(i).new = i
         /\ IdleForm \in FormState(T) /\ IdleForm.pc = "idle"
BY DEF IdleCall, CallState, IdleRefresh, Refused, Rotated, RefreshState, IdleForm, FormState

LEMMA Numbers ==
  ASSUME SessionsOK
  PROVE  /\ Issued \subseteq Ids /\ 0 \notin Issued /\ 0 \in Token /\ Issued \subseteq Token
         /\ NextId \notin Issued /\ NextId \in Nat \ {0}
         /\ \E n \in Ids : Issued = 1..n /\ NextId = n + 1
<1> PICK n \in Ids : Issued = 1..n
  BY DEF SessionsOK
<1>1. n \in Nat /\ n >= 1 /\ n <= MaxSessions /\ MaxSessions \in Nat
  BY SessionsAssumption DEF Ids
<1>2. Cardinality(1..n) = n
  <2>1. Cardinality(1..n) = IF 1 > n THEN 0 ELSE n - 1 + 1
    BY <1>1, FS_Interval
  <2> QED
    BY <1>1, <2>1
<1>3. NextId = n + 1
  BY <1>2 DEF NextId
<1> QED
  BY <1>1, <1>3 DEF Token, Ids

(* A row of its own for the next session. *)
LEMMA Issuing ==
  ASSUME IInv, NextId \in Ids, NEW row \in SessionRow
  PROVE  /\ Issue(row) \in [Issued \cup {NextId} -> SessionRow]
         /\ Issue(row)[NextId] = row /\ \A i \in Issued : Issue(row)[i] = session[i]
         /\ \E n \in Ids : Issued \cup {NextId} = 1..n
<1>1. SessionsOK
  BY DEF IInv
<1> PICK n \in Ids : Issued = 1..n /\ NextId = n + 1
  BY <1>1, Numbers
<1>2. NextId \notin Issued
  BY <1>1, Numbers
<1>3. session \in [Issued -> SessionRow]
  BY <1>1 DEF SessionsOK
<1>4. Issue(row) \in [Issued \cup {NextId} -> SessionRow]
  BY <1>3 DEF Issue
<1>5. Issue(row)[NextId] = row /\ \A i \in Issued : Issue(row)[i] = session[i]
  BY <1>2 DEF Issue
<1>6. Issued \cup {NextId} = 1..(n + 1)
  BY SessionsAssumption DEF Ids
<1> QED
  BY <1>4, <1>5, <1>6

LEMMA RowTyped ==
  ASSUME NEW login \in Ids, NEW parent \in 0..MaxSessions
  PROVE  /\ Row(login, parent) \in SessionRow
         /\ Row(login, parent).parent = parent /\ ~Row(login, parent).revoked
BY DEF Row, SessionRow

-----------------------------------------------------------------------------
(* What a step has to keep.                                                 *)

(* Sessions do not disappear, are not un-revoked, and keep their parents. *)
LEMMA RotationKept ==
  ASSUME IInv, Issued \subseteq Issued', overlapped \subseteq overlapped',
         \A j \in Issued : Succeeds(j, session'[j].parent) /\ (session[j].revoked => session'[j].revoked),
         \A j \in Issued' \ Issued : session'[j].parent = 0,
         \A c \in Calls, i \in Ids : Loaded(c, i)' => Loaded(c, i)
  PROVE  RotationOK'
<1>1. \A j \in Issued', i \in Ids : Succeeds(j, i)' => j \in Issued /\ Succeeds(j, i)
  BY SessionsAssumption DEF Succeeds, Ids
<1>2. \A j \in Issued', i \in Ids : Succeeds(j, i)' => i \in Issued' /\ session'[i].revoked
  BY <1>1 DEF IInv, RotationOK
<1>3. ASSUME NEW i \in Ids \ overlapped' PROVE Alone(i)'
  <2>1. Alone(i)
    BY DEF IInv, RotationOK
  <2> QED
    BY <1>1, <2>1 DEF Alone
<1> QED
  BY <1>2, <1>3 DEF RotationOK

(* What does not change stays right as the tokens grow. *)
LEMMA Grown ==
  ASSUME IInv, Issued \subseteq Issued'
  PROVE  /\ UNCHANGED <<cookie, access, page, form>> => BrowserOK'
         /\ UNCHANGED <<call, promise>> /\ Refreshing \subseteq Refreshing' => WaitsOK'
         /\ UNCHANGED refresh => RefreshOK'
<1>1. Token \subseteq Token'
  BY DEF Token
<1>2. /\ CallState(Token) \subseteq CallState(Token') /\ RefreshState(Token) \subseteq RefreshState(Token')
      /\ FormState(Token) \subseteq FormState(Token')
  BY <1>1, TokensGrow
<1>3. UNCHANGED <<cookie, access, page, form>> => BrowserOK'
  BY <1>1, <1>2 DEF IInv, BrowserOK
<1>4. UNCHANGED <<call, promise>> /\ Refreshing \subseteq Refreshing' => WaitsOK'
  BY <1>2 DEF IInv, WaitsOK
<1>5. UNCHANGED refresh => RefreshOK'
  BY <1>2 DEF IInv, RefreshOK
<1> QED
  BY <1>3, <1>4, <1>5

LEMMA SessionsKept ==
  ASSUME IInv, UNCHANGED session
  PROVE  /\ Issued' = Issued /\ Token' = Token
         /\ expired' \subseteq Issued => SessionsOK'
         /\ (\A c \in Calls, i \in Ids : Loaded(c, i)' => Loaded(c, i)) /\ overlapped \subseteq overlapped'
              => RotationOK'
<1>1. Issued' = Issued /\ Token' = Token
  BY DEF Issued, Token
<1>2. expired' \subseteq Issued => SessionsOK'
  BY <1>1 DEF IInv, SessionsOK
<1>3. (\A c \in Calls, i \in Ids : Loaded(c, i)' => Loaded(c, i)) /\ overlapped \subseteq overlapped'
        => RotationOK'
  BY <1>1, RotationKept DEF Succeeds
<1> QED
  BY <1>1, <1>2, <1>3

(* A rotation under way that goes on, or one that begins. *)
LEMMA RefreshGoesOn ==
  ASSUME IInv, NEW c \in Calls, Issued \subseteq Issued', NEW x \in RefreshState(Token'),
         refresh' = [refresh EXCEPT ![c] = x], x.pc # "idle", x.pc = "loaded" => x.token \in Issued'
  PROVE  /\ RefreshOK' /\ Refreshing' = Refreshing \cup {c}
         /\ x.pc # "loaded" => \A d \in Calls, i \in Ids : Loaded(d, i)' => Loaded(d, i) /\ d # c
<1>1. RefreshState(Token) \subseteq RefreshState(Token')
  BY TokensGrow DEF Token
<1>2. refresh \in [Calls -> RefreshState(Token)] /\ \A d \in Calls : refresh[d].pc = "loaded" => refresh[d].token \in Issued
  BY DEF IInv, RefreshOK
<1>3. /\ refresh' \in [Calls -> RefreshState(Token')] /\ refresh'[c] = x
      /\ \A d \in Calls \ {c} : refresh'[d] = refresh[d]
  BY <1>1, <1>2
<1>4. RefreshOK'
  BY <1>2, <1>3 DEF RefreshOK
<1>5. Refreshing' = Refreshing \cup {c}
  BY <1>3 DEF Refreshing
<1>6. x.pc # "loaded" => \A d \in Calls, i \in Ids : Loaded(d, i)' => Loaded(d, i) /\ d # c
  BY <1>3 DEF Loaded
<1> QED
  BY <1>4, <1>5, <1>6

-----------------------------------------------------------------------------
(* The browser's calls.                                                     *)

LEMMA FetchSteps ==
  ASSUME IInv, NEW c \in Calls, Fetch(c) \/ Answered(c)
  PROVE  IInv'
<1> PICK x : x = IF Fetch(c) THEN [IdleCall EXCEPT !.pc = "sent", !.token = access] ELSE IdleCall
  OBVIOUS
<1>1. UNCHANGED <<session, expired, cookie, access, page, promise, refresh, form, history>>
      /\ call' = [call EXCEPT ![c] = x]
  BY DEF Fetch, Answered
<1>2. x \in CallState(Token) /\ x.pc # "waiting"
  BY DEF IdleCall, CallState, IInv, BrowserOK, Token
<1>3. Issued' = Issued /\ Token' = Token /\ Refreshing' = Refreshing
  BY <1>1 DEF Issued, Token, Refreshing
<1>4. WaitsOK'
  BY <1>1, <1>2, <1>3 DEF IInv, WaitsOK
<1>5. SessionsOK' /\ RotationOK'
  BY <1>1, <1>3, SessionsKept DEF history, Loaded, IInv, SessionsOK
<1>6. BrowserOK' /\ RefreshOK'
  BY <1>1, <1>3, Grown
<1> QED
  BY <1>4, <1>5, <1>6 DEF IInv

LEMMA ProfileStep ==
  ASSUME IInv, NEW c \in Calls, ProfileFails(c)
  PROVE  IInv'
<1>1. /\ UNCHANGED <<session, expired, cookie, promise, refresh, form, overlapped>>
      /\ access' = 0 /\ call' = [call EXCEPT ![c] = IdleCall]
      /\ page' = [page EXCEPT ![TabOf[c]] = "login"]
  BY DEF ProfileFails
<1>2. Issued' = Issued /\ Token' = Token /\ Refreshing' = Refreshing /\ 0 \in Token
  BY <1>1 DEF Issued, Token, Refreshing
<1>3. IdleCall \in CallState(Token) /\ IdleCall.pc = "idle"
  BY <1>2, NothingUnderWay
<1>4. WaitsOK'
  BY <1>1, <1>2, <1>3 DEF IInv, WaitsOK
<1>5. SessionsOK' /\ RotationOK'
  BY <1>1, <1>2, SessionsKept DEF Loaded, IInv, SessionsOK
<1>6. BrowserOK'
  BY <1>1, <1>2 DEF IInv, BrowserOK
<1>7. RefreshOK'
  BY <1>1, <1>2 DEF IInv, RefreshOK
<1> QED
  BY <1>4, <1>5, <1>6, <1>7 DEF IInv

LEMMA UnauthorizedStep ==
  ASSUME IInv, NEW c \in Calls, Unauthorized(c)
  PROVE  IInv'
<1> PICK t \in Tabs : t = TabOf[c]
  BY SessionsAssumption
<1> PICK on : on = IF Starts(c) THEN c ELSE promise[t]
  OBVIOUS
<1> PICK x : x = [IdleCall EXCEPT !.pc = "waiting", !.on = on]
  OBVIOUS
<1>1. /\ UNCHANGED <<session, expired, cookie, access, page, form, loggedOut, overlapped, submits, losses, expiries>>
      /\ call' = [call EXCEPT ![c] = x]
  BY DEF Unauthorized
<1>2. Issued' = Issued /\ Token' = Token
  BY <1>1 DEF Issued, Token
<1>3. on \in Calls
  BY DEF Starts, IInv, WaitsOK
<1>4. x \in CallState(Token) /\ x.on = on
  BY <1>3 DEF IdleCall, CallState, Token
<1>5. BrowserOK'
  BY <1>1, <1>2, Grown
<1>6. CASE Starts(c)
  <2> PICK y : y = [pc |-> "sent", token |-> cookie, new |-> 0]
    OBVIOUS
  <2>1. refresh' = [refresh EXCEPT ![c] = y] /\ promise' = [promise EXCEPT ![t] = c] /\ on = c
    BY <1>6 DEF Unauthorized
  <2>2. y \in RefreshState(Token') /\ y.pc = "sent"
    BY <1>2 DEF RefreshState, IInv, BrowserOK, Token
  <2>3. /\ RefreshOK' /\ Refreshing' = Refreshing \cup {c}
        /\ \A d \in Calls, i \in Ids : Loaded(d, i)' => Loaded(d, i)
    BY <1>2, <2>1, <2>2, RefreshGoesOn
  <2>4. WaitsOK'
    BY <1>1, <1>2, <1>4, <2>1, <2>3 DEF IInv, WaitsOK
  <2>5. SessionsOK' /\ RotationOK'
    BY <1>1, <1>2, <2>3, SessionsKept DEF IInv, SessionsOK
  <2> QED
    BY <1>5, <2>3, <2>4, <2>5 DEF IInv
<1>7. CASE ~Starts(c)
  <2>1. UNCHANGED <<promise, refresh>> /\ on = promise[t] /\ on \in Refreshing
    BY <1>3, <1>7 DEF Unauthorized, Starts, IInv, WaitsOK
  <2>2. RefreshOK' /\ Refreshing' = Refreshing
    BY <1>2, <2>1, Grown DEF Refreshing
  <2>3. WaitsOK'
    BY <1>1, <1>2, <1>4, <2>1, <2>2 DEF IInv, WaitsOK
  <2>4. SessionsOK' /\ RotationOK'
    BY <1>1, <1>2, <2>1, SessionsKept DEF Loaded, IInv, SessionsOK
  <2> QED
    BY <1>5, <2>2, <2>3, <2>4 DEF IInv
<1> QED
  BY <1>6, <1>7

(* The promise is settled: those who waited for it do not wait any more. *)
LEMMA SettledWaits ==
  ASSUME IInv, NEW c \in Calls, c \in Refreshing, Settled(c), UNCHANGED session,
         call' \in [Calls -> CallState(Token)],
         \A d \in Calls : call'[d].pc = "waiting" => call'[d] = call[d] /\ d \notin Awaiting(c)
  PROVE  /\ WaitsOK' /\ RefreshOK'
         /\ \A d \in Calls, i \in Ids : Loaded(d, i)' => Loaded(d, i)
<1>1. Issued' = Issued /\ Token' = Token
  BY DEF Issued, Token
<1>2. IdleRefresh \in RefreshState(Token) /\ IdleRefresh.pc = "idle"
  BY NothingUnderWay DEF Token
<1>3. refresh \in [Calls -> RefreshState(Token)]
  BY DEF IInv, RefreshOK
<1>4. /\ refresh' \in [Calls -> RefreshState(Token)] /\ refresh'[c] = IdleRefresh
      /\ \A d \in Calls \ {c} : refresh'[d] = refresh[d]
  BY <1>2, <1>3 DEF Settled
<1>5. RefreshOK'
  BY <1>1, <1>2, <1>4 DEF RefreshOK, IInv
<1>6. Refreshing \ {c} \subseteq Refreshing'
  BY <1>4 DEF Refreshing
<1>7. /\ promise' \in [Tabs -> Calls \cup {None}]
      /\ \A t \in Tabs : promise'[t] # None => promise'[t] = promise[t] /\ promise[t] # c
  BY DEF Settled, IInv, WaitsOK
<1>8. \A d \in Calls : call'[d].pc = "waiting" => call'[d].on \in Refreshing \ {c}
  BY DEF Awaiting, IInv, WaitsOK
<1>9. WaitsOK'
  BY <1>1, <1>6, <1>7, <1>8 DEF IInv, WaitsOK
<1>10. \A d \in Calls, i \in Ids : Loaded(d, i)' => Loaded(d, i)
  BY <1>2, <1>4 DEF Loaded
<1> QED
  BY <1>5, <1>9, <1>10

LEMMA SettleSteps ==
  ASSUME IInv, NEW c \in Calls, Refreshed(c) \/ NotRefreshed(c)
  PROVE  IInv'
<1>1. /\ Settled(c) /\ c \in Refreshing
      /\ UNCHANGED <<session, expired, loggedOut, overlapped, raced, submits, expiries>>
  BY DEF Refreshed, NotRefreshed, history, Refreshing
<1>2. Issued' = Issued /\ Token' = Token /\ 0 \in Token
  BY <1>1 DEF Issued, Token
<1>3. call \in [Calls -> CallState(Token)] /\ IdleCall \in CallState(Token) /\ IdleCall.pc = "idle"
  BY <1>2, NothingUnderWay DEF IInv, WaitsOK
<1>4. /\ call' \in [Calls -> CallState(Token)]
      /\ \A d \in Calls : call'[d].pc = "waiting" => call'[d] = call[d] /\ d \notin Awaiting(c)
  <2>1. CASE Refreshed(c)
    <3> PICK x : x = [pc |-> "sent", token |-> 0, retried |-> TRUE, on |-> None]
      OBVIOUS
    <3>1. x \in CallState(Token) /\ x.pc = "sent"
      BY <1>2 DEF CallState
    <3>2. call' = [d \in Calls |-> IF d \in Awaiting(c) THEN x ELSE call[d]]
      BY <2>1 DEF Refreshed
    <3> QED
      BY <1>3, <3>1, <3>2
  <2>2. CASE NotRefreshed(c)
    <3>1. PICK D \in SUBSET Calls : call' = [d \in Calls |-> IF d \in Awaiting(c) \/ d \in D THEN IdleCall ELSE call[d]]
      <4>1. call' = [d \in Calls |-> IF d \in Awaiting(c) \/ (page[TabOf[c]] = "app" /\ TabOf[d] = TabOf[c])
                                      THEN IdleCall ELSE call[d]]
        BY <2>2 DEF NotRefreshed
      <4>2. {d \in Calls : page[TabOf[c]] = "app" /\ TabOf[d] = TabOf[c]} \in SUBSET Calls
        OBVIOUS
      <4> QED
        BY <4>1, <4>2
    <3> QED
      BY <1>3, <3>1
  <2> QED
    BY <2>1, <2>2
<1>5. WaitsOK' /\ RefreshOK' /\ \A d \in Calls, i \in Ids : Loaded(d, i)' => Loaded(d, i)
  BY <1>1, <1>4, SettledWaits
<1>6. BrowserOK'
  <2>1. CASE Refreshed(c)
    <3>1. refresh[c].new \in Token
      BY DEF IInv, RefreshOK, RefreshState
    <3> QED
      BY <1>2, <2>1, <3>1 DEF Refreshed, IInv, BrowserOK
  <2>2. CASE NotRefreshed(c)
    <3>1. IdleForm \in FormState(Token)
      BY <1>2, NothingUnderWay
    <3>2. form' \in [Tabs -> FormState(Token)]
      BY <2>2, <3>1 DEF NotRefreshed, IInv, BrowserOK
    <3>3. /\ page' \in [Tabs -> {"app", "login"}] /\ access' \in Token /\ cookie' \in Token
      BY <1>2, <2>2 DEF NotRefreshed, IInv, BrowserOK
    <3> QED
      BY <1>2, <3>2, <3>3 DEF BrowserOK
  <2> QED
    BY <2>1, <2>2
<1>7. SessionsOK' /\ RotationOK'
  BY <1>1, <1>5, SessionsKept DEF IInv, SessionsOK
<1> QED
  BY <1>5, <1>6, <1>7 DEF IInv

-----------------------------------------------------------------------------
(* The rotation of a token.                                                 *)

LEMMA LoadStep ==
  ASSUME IInv, NEW c \in Calls, LoadSession(c)
  PROVE  IInv'
<1> PICK i : i = refresh[c].token
  OBVIOUS
<1> PICK q \in RefreshState(Token) : q = refresh[c]
  BY DEF IInv, RefreshOK
<1> PICK x : x = IF Exchangeable(i) THEN [q EXCEPT !.pc = "loaded"] ELSE Refused
  OBVIOUS
<1>1. /\ UNCHANGED <<session, expired, cookie, access, page, promise, call, form, loggedOut, raced, submits, losses, expiries>>
      /\ refresh' = [refresh EXCEPT ![c] = x] /\ q.pc = "sent"
      /\ overlapped' = IF \E d \in Calls : Loaded(d, i) THEN overlapped \cup {i} ELSE overlapped
  BY DEF LoadSession, Loaded
<1>2. Issued' = Issued /\ Token' = Token /\ 0 \in Token
  BY <1>1 DEF Issued, Token
<1>3. i \in Token /\ (Exchangeable(i) => i \in Issued /\ ~session[i].revoked)
  BY DEF RefreshState, Exchangeable, Token
<1>4. /\ x \in RefreshState(Token) /\ x.pc # "idle"
      /\ x.pc = "loaded" => Exchangeable(i) /\ x.token = i
  <2>1. Refused \in RefreshState(Token) /\ Refused.pc = "refused"
    BY <1>2, NothingUnderWay
  <2> QED
    BY <2>1 DEF RefreshState
<1>5. RefreshOK' /\ Refreshing' = Refreshing \cup {c}
  <2>1. x \in RefreshState(Token') /\ (x.pc = "loaded" => x.token \in Issued') /\ Issued \subseteq Issued'
    BY <1>2, <1>3, <1>4
  <2> QED
    BY <1>1, <1>4, <2>1, RefreshGoesOn
<1>6. BrowserOK' /\ WaitsOK'
  BY <1>1, <1>2, <1>5, Grown
<1>7. SessionsOK'
  BY <1>1, SessionsKept DEF IInv, SessionsOK
<1>8. RotationOK'
  <2>1. CASE x.pc # "loaded"
    <3>1. \A d \in Calls, j \in Ids : Loaded(d, j)' => Loaded(d, j)
      BY <1>1, <1>2, <1>4, <2>1, RefreshGoesOn
    <3> QED
      BY <1>1, <3>1, SessionsKept
  <2>2. CASE x.pc = "loaded"
    <3>1. /\ refresh'[c] = x /\ \A d \in Calls \ {c} : refresh'[d] = refresh[d]
      BY <1>1 DEF IInv, RefreshOK
    <3>2. /\ \A d \in Calls, j \in Ids : Loaded(d, j)' => Loaded(d, j) \/ (d = c /\ j = i)
          /\ \A d \in Calls \ {c}, j \in Ids : Loaded(d, j)' => Loaded(d, j)
      BY <1>4, <2>2, <3>1 DEF Loaded
    <3>3. \A j, k : Succeeds(j, k)' <=> Succeeds(j, k)
      BY <1>1 DEF Succeeds
    <3>4. i \in Ids /\ \A j \in Issued : ~Succeeds(j, i)
      BY <1>3, <1>4, <2>2, Numbers DEF IInv, RotationOK
    <3>5. ASSUME NEW k \in Ids \ overlapped' PROVE Alone(k)'
      <4>1. Alone(k)
        BY <1>1 DEF IInv, RotationOK
      <4>2. k = i => \A d \in Calls : ~Loaded(d, k)
        BY <1>1
      <4> QED
        BY <1>2, <3>2, <3>3, <3>4, <4>1, <4>2 DEF Alone
    <3>6. \A j \in Issued', k \in Ids : Succeeds(j, k)' => k \in Issued' /\ session'[k].revoked
      BY <1>1, <1>2, <3>3 DEF IInv, RotationOK
    <3> QED
      BY <3>5, <3>6 DEF RotationOK
  <2> QED
    BY <2>1, <2>2
<1> QED
  BY <1>5, <1>6, <1>7, <1>8 DEF IInv

LEMMA TurnAwayStep ==
  ASSUME IInv, NEW c \in Calls, TurnedAway(c)
  PROVE  IInv'
<1>1. /\ UNCHANGED <<session, expired, cookie, access, page, promise, call, form, overlapped>>
      /\ refresh' = [refresh EXCEPT ![c] = Refused]
  BY DEF TurnedAway
<1>2. Issued' = Issued /\ Token' = Token /\ 0 \in Token
  BY <1>1 DEF Issued, Token
<1>3. Refused \in RefreshState(Token) /\ Refused.pc = "refused"
  BY <1>2, NothingUnderWay
<1>4. /\ RefreshOK' /\ Refreshing' = Refreshing \cup {c}
      /\ \A d \in Calls, i \in Ids : Loaded(d, i)' => Loaded(d, i)
  BY <1>1, <1>2, <1>3, RefreshGoesOn
<1>5. BrowserOK' /\ WaitsOK'
  BY <1>1, <1>2, <1>4, Grown
<1>6. SessionsOK' /\ RotationOK'
  BY <1>1, <1>4, SessionsKept DEF IInv, SessionsOK
<1> QED
  BY <1>4, <1>5, <1>6 DEF IInv

(* A token that is no longer valid is revoked without a successor. *)
LEMMA OldRotationStep ==
  ASSUME IInv, NEW c \in Calls, CommitRotation(c), session[refresh[c].token].age # 0
  PROVE  IInv'
<1> PICK i \in Issued : i = refresh[c].token
  BY DEF CommitRotation, IInv, RefreshOK
<1>1. /\ UNCHANGED <<expired, cookie, access, page, promise, call, form, history>>
      /\ session' = [session EXCEPT ![i].revoked = TRUE]
      /\ refresh' = [refresh EXCEPT ![c] = Refused]
  BY DEF CommitRotation
<1>2. session \in [Issued -> SessionRow]
  BY DEF IInv, SessionsOK
<1>3. /\ session' \in [Issued -> SessionRow] /\ Issued' = Issued
      /\ \A j \in Issued : session'[j].parent = session[j].parent /\ (session[j].revoked => session'[j].revoked)
  BY <1>1, <1>2 DEF SessionRow, Issued
<1>4. SessionsOK'
  BY <1>1, <1>3 DEF SessionsOK, IInv
<1>5. Token' = Token /\ 0 \in Token
  BY <1>3 DEF Token
<1>6. Refused \in RefreshState(Token) /\ Refused.pc = "refused"
  BY <1>5, NothingUnderWay
<1>7. /\ RefreshOK' /\ Refreshing' = Refreshing \cup {c}
      /\ \A d \in Calls, k \in Ids : Loaded(d, k)' => Loaded(d, k)
  BY <1>1, <1>3, <1>5, <1>6, RefreshGoesOn
<1>8. BrowserOK' /\ WaitsOK'
  BY <1>1, <1>3, <1>7, Grown
<1>9. RotationOK'
  BY <1>1, <1>3, <1>7, RotationKept DEF history, Succeeds
<1> QED
  BY <1>4, <1>7, <1>8, <1>9 DEF IInv

LEMMA RotationStep ==
  ASSUME IInv, NEW c \in Calls, CommitRotation(c), session[refresh[c].token].age = 0
  PROVE  IInv'
<1> PICK i \in Issued : i = refresh[c].token
  BY DEF CommitRotation, IInv, RefreshOK
<1>0. SessionsOK /\ session \in [Issued -> SessionRow] /\ i \in Ids /\ i \in 0..MaxSessions
  BY Numbers, SessionsAssumption DEF IInv, SessionsOK, Ids
<1>1. /\ UNCHANGED <<expired, cookie, access, page, promise, call, form, history>>
      /\ NextId \in Ids /\ Loaded(c, i)
      /\ session' = [Issue(Row(session[i].login, i)) EXCEPT ![i].revoked = TRUE]
      /\ refresh' = [refresh EXCEPT ![c] = Rotated(NextId)]
  BY DEF CommitRotation, Loaded
<1> PICK n \in Ids : n = NextId /\ n \notin Issued
  BY <1>0, <1>1, Numbers
<1>2. session[i].login \in Ids
  BY <1>0 DEF SessionRow
<1> PICK row \in SessionRow : row = Row(session[i].login, i) /\ row.parent = i
  <2>1. Row(session[i].login, i) \in SessionRow /\ Row(session[i].login, i).parent = i
    BY <1>0, <1>2, RowTyped
  <2> QED
    BY <2>1
<1> PICK new \in [Issued \cup {n} -> SessionRow] :
      new = Issue(row) /\ new[n] = row /\ \A j \in Issued : new[j] = session[j]
  BY Issuing
<1>3. /\ session' \in [Issued \cup {n} -> SessionRow] /\ Issued' = Issued \cup {n}
      /\ \A j \in Issued : session'[j].parent = session[j].parent /\ (session[j].revoked => session'[j].revoked)
      /\ session'[n].parent = i /\ session'[i].revoked
  <2>1. session' = [new EXCEPT ![i].revoked = TRUE]
    BY <1>1
  <2>2. [new[i] EXCEPT !.revoked = TRUE] \in SessionRow
    <3>1. new[i] \in SessionRow
      OBVIOUS
    <3> QED
      BY <3>1 DEF SessionRow
  <2>3. session' \in [Issued \cup {n} -> SessionRow]
    BY <2>1, <2>2
  <2>4. /\ session'[i] = [new[i] EXCEPT !.revoked = TRUE]
        /\ \A j \in (Issued \cup {n}) \ {i} : session'[j] = new[j]
    BY <2>1
  <2>5. new[i] \in SessionRow /\ n # i
    OBVIOUS
  <2>6. session'[i].parent = session[i].parent /\ session'[i].revoked
    BY <2>4, <2>5, ZenonT(60) DEF SessionRow
  <2>7. Issued' = Issued \cup {n}
    BY <2>3 DEF Issued
  <2>8. session'[n].parent = i
    <3>1. session'[n] = new[n]
      BY <2>4, <2>5
    <3>2. new[n] = row /\ row.parent = i
      OBVIOUS
    <3> QED
      BY <3>1, <3>2
  <2>9. \A j \in Issued \ {i} : session'[j] = session[j]
    BY <2>4
  <2>10. \A j \in Issued : session'[j].parent = session[j].parent /\ (session[j].revoked => session'[j].revoked)
    BY <2>6, <2>9
  <2> QED
    BY <2>3, <2>6, <2>7, <2>8, <2>10
<1>4. SessionsOK'
  <2>1. \E m \in Ids : Issued' = 1..m
    BY <1>3, Issuing
  <2> QED
    BY <1>1, <1>3, <2>1 DEF SessionsOK, IInv
<1>5. n \in Token' /\ 0 \in Token'
  BY <1>3 DEF Token
<1>6. Rotated(n) \in RefreshState(Token') /\ Rotated(n).pc = "rotated"
  BY <1>5, NothingUnderWay
<1>7. /\ RefreshOK' /\ Refreshing' = Refreshing \cup {c}
      /\ \A d \in Calls, k \in Ids : Loaded(d, k)' => Loaded(d, k) /\ d # c
  BY <1>1, <1>3, <1>6, RefreshGoesOn
<1>8. BrowserOK' /\ WaitsOK'
  BY <1>1, <1>3, <1>7, Grown
<1>9. \A j \in Issued', k \in Ids : Succeeds(j, k)' => (j \in Issued /\ Succeeds(j, k)) \/ (j = n /\ k = i)
  BY <1>3 DEF Succeeds
<1>10. ASSUME NEW k \in Ids \ overlapped' PROVE Alone(k)'
  <2>1. Alone(k)
    BY <1>1 DEF IInv, RotationOK, history
  <2>2. \A d \in Calls : ~(Loaded(d, i)' /\ k = i)
    BY <1>0, <1>1, <1>7, <2>1 DEF Alone
  <2>3. k = i => \A j \in Issued : ~Succeeds(j, i)
    BY <1>1, <2>1 DEF Alone
  <2> QED
    BY <1>7, <1>9, <2>1, <2>2, <2>3 DEF Alone
<1>11. \A j \in Issued', k \in Ids : Succeeds(j, k)' => k \in Issued' /\ session'[k].revoked
  BY <1>3, <1>9 DEF IInv, RotationOK
<1>12. RotationOK'
  BY <1>10, <1>11 DEF RotationOK
<1> QED
  BY <1>4, <1>7, <1>8, <1>12 DEF IInv

-----------------------------------------------------------------------------
(* Login and logout.                                                        *)

LEMMA FormSteps ==
  ASSUME IInv, NEW t \in Tabs, Login(t) \/ Logout(t) \/ LoggedIn(t) \/ LoggedOut(t) \/ SubmitFails(t)
  PROVE  IInv'
<1>1. UNCHANGED <<session, expired, promise, call, refresh, overlapped>>
  BY DEF Login, Logout, Submit, LoggedIn, LoggedOut, SubmitFails, history
<1>2. Issued' = Issued /\ Token' = Token /\ 0 \in Token /\ Refreshing' = Refreshing
  BY <1>1 DEF Issued, Token, Refreshing
<1>3. /\ cookie \in Token /\ access \in Token /\ page \in [Tabs -> {"app", "login"}]
      /\ form \in [Tabs -> FormState(Token)] /\ form[t].id \in Token
  BY DEF IInv, BrowserOK, FormState
<1>4. /\ [pc |-> "login", id |-> 0, token |-> 0] \in FormState(Token)
      /\ [pc |-> "logout", id |-> cookie, token |-> access] \in FormState(Token)
      /\ IdleForm \in FormState(Token)
  BY <1>2, <1>3, NothingUnderWay DEF FormState
<1>5. form' \in [Tabs -> FormState(Token)]
  BY <1>3, <1>4 DEF Login, Logout, Submit, LoggedIn, LoggedOut, SubmitFails
<1>6. cookie' \in Token /\ access' \in Token /\ page' \in [Tabs -> {"app", "login"}]
  BY <1>2, <1>3 DEF Login, Logout, Submit, LoggedIn, LoggedOut, SubmitFails
<1>7. BrowserOK'
  BY <1>2, <1>5, <1>6 DEF BrowserOK
<1>8. SessionsOK' /\ RotationOK'
  BY <1>1, SessionsKept DEF Loaded, IInv, SessionsOK
<1>9. WaitsOK' /\ RefreshOK'
  BY <1>1, <1>2, Grown
<1> QED
  BY <1>7, <1>8, <1>9 DEF IInv

LEMMA LoginStep ==
  ASSUME IInv, NEW t \in Tabs, CommitLogin(t)
  PROVE  IInv'
<1>1. /\ UNCHANGED <<expired, cookie, access, page, promise, call, refresh, history>>
      /\ NextId \in Ids /\ session' = Issue(Row(NextId, 0))
      /\ form' = [form EXCEPT ![t].pc = "loggedin", ![t].id = NextId]
  BY DEF CommitLogin
<1> PICK n \in Ids : n = NextId /\ n \notin Issued
  BY <1>1, Numbers DEF IInv
<1> PICK row \in SessionRow : row = Row(n, 0) /\ row.parent = 0
  BY RowTyped, SessionsAssumption
<1>2. /\ session' \in [Issued \cup {n} -> SessionRow] /\ Issued' = Issued \cup {n}
      /\ \A j \in Issued : session'[j] = session[j]
      /\ session'[n].parent = 0 /\ \E m \in Ids : Issued' = 1..m
  <2>1. /\ session' \in [Issued \cup {n} -> SessionRow] /\ session'[n] = row
        /\ \A j \in Issued : session'[j] = session[j] /\ \E m \in Ids : Issued \cup {n} = 1..m
    BY <1>1, Issuing
  <2>2. Issued' = Issued \cup {n}
    BY <2>1 DEF Issued
  <2> QED
    BY <2>1, <2>2, Issuing, <1>1
<1>3. SessionsOK'
  BY <1>1, <1>2 DEF SessionsOK, IInv
<1>4. RotationOK'
  BY <1>1, <1>2, RotationKept DEF history, Succeeds, Loaded
<1>5. WaitsOK' /\ RefreshOK'
  BY <1>1, <1>2, Grown DEF Refreshing
<1>6. BrowserOK'
  <2>1. Token \subseteq Token' /\ n \in Token'
    BY <1>2 DEF Token
  <2>2. form \in [Tabs -> FormState(Token')]
    BY <2>1, TokensGrow DEF IInv, BrowserOK
  <2>3. form' \in [Tabs -> FormState(Token')]
    BY <1>1, <2>1, <2>2 DEF FormState
  <2> QED
    BY <1>1, <2>1, <2>3 DEF IInv, BrowserOK
<1> QED
  BY <1>3, <1>4, <1>5, <1>6 DEF IInv

LEMMA LogoutStep ==
  ASSUME IInv, NEW t \in Tabs, CommitLogout(t)
  PROVE  IInv'
<1> PICK i \in Token : i = form[t].id
  BY DEF IInv, BrowserOK, FormState
<1>1. /\ UNCHANGED <<expired, cookie, access, page, promise, call, refresh, history>>
      /\ session' = session \/ (i # 0 /\ session' = [session EXCEPT ![i].revoked = TRUE])
      /\ \E pc \in {"loggedout", "refused"} : form' = [form EXCEPT ![t].pc = pc]
  BY DEF CommitLogout
<1>2. session \in [Issued -> SessionRow] /\ form \in [Tabs -> FormState(Token)]
  BY DEF IInv, SessionsOK, BrowserOK
<1>3. /\ session' \in [Issued -> SessionRow] /\ Issued' = Issued
      /\ \A j \in Issued : session'[j].parent = session[j].parent /\ (session[j].revoked => session'[j].revoked)
  <2>1. CASE session' = session
    BY <1>2, <2>1 DEF Issued
  <2>2. CASE i \in Issued /\ session' = [session EXCEPT ![i].revoked = TRUE]
    BY <1>2, <2>2 DEF SessionRow, Issued
  <2> QED
    BY <1>1, <2>1, <2>2 DEF Token
<1>4. SessionsOK'
  BY <1>1, <1>3 DEF SessionsOK, IInv
<1>5. RotationOK'
  BY <1>1, <1>3, RotationKept DEF history, Succeeds, Loaded
<1>6. WaitsOK' /\ RefreshOK'
  BY <1>1, <1>3, Grown DEF Refreshing
<1>7. Token' = Token /\ form' \in [Tabs -> FormState(Token)]
  BY <1>1, <1>2, <1>3 DEF FormState, Token
<1>8. BrowserOK'
  BY <1>1, <1>7 DEF BrowserOK, IInv
<1> QED
  BY <1>4, <1>5, <1>6, <1>8 DEF IInv

LEMMA AgeSteps ==
  ASSUME IInv, NEW i \in Issued, AccessExpires(i) \/ SessionAges(i)
  PROVE  IInv'
<1>1. /\ UNCHANGED <<cookie, access, page, promise, call, refresh, form, overlapped>>
      /\ session' = session \/ (session[i].age < 2 /\ session' = [session EXCEPT ![i].age = @ + 1])
      /\ expired' \subseteq expired \cup {i}
  BY DEF AccessExpires, SessionAges
<1>2. session \in [Issued -> SessionRow]
  BY DEF IInv, SessionsOK
<1>3. /\ session' \in [Issued -> SessionRow] /\ Issued' = Issued
      /\ \A j \in Issued : session'[j].parent = session[j].parent /\ (session[j].revoked => session'[j].revoked)
  BY <1>1, <1>2 DEF SessionRow, Issued
<1>4. SessionsOK'
  BY <1>1, <1>3 DEF SessionsOK, IInv
<1>5. RotationOK'
  BY <1>1, <1>3, RotationKept DEF Succeeds, Loaded
<1>6. WaitsOK' /\ RefreshOK' /\ BrowserOK'
  BY <1>1, <1>3, Grown DEF Refreshing
<1> QED
  BY <1>4, <1>5, <1>6 DEF IInv

-----------------------------------------------------------------------------
(* The theorems.                                                            *)

LEMMA InitInv == ASSUME Init PROVE IInv
<1>1. 1 \in Ids /\ 0 \in 0..MaxSessions
  BY SessionsAssumption DEF Ids
<1> PICK row \in SessionRow : row = Row(1, 0) /\ row.parent = 0
  BY <1>1, RowTyped
<1>2. session = <<row>> /\ Issued = 1..1 /\ session[1] = row /\ session \in [Issued -> SessionRow]
  BY DEF Init, Issued
<1>3. 0 \in Token /\ 1 \in Token
  BY <1>2 DEF Token
<1>4. /\ IdleCall \in CallState(Token) /\ IdleRefresh \in RefreshState(Token) /\ IdleForm \in FormState(Token)
      /\ IdleCall.pc = "idle" /\ IdleRefresh.pc = "idle"
  BY <1>3, NothingUnderWay
<1>5. SessionsOK /\ RefreshOK /\ BrowserOK /\ WaitsOK
  BY <1>1, <1>2, <1>3, <1>4 DEF Init, SessionsOK, RefreshOK, BrowserOK, WaitsOK
<1>6. RotationOK
  BY <1>2, <1>4, SessionsAssumption DEF Init, RotationOK, Alone, Loaded, Succeeds, Ids
<1> QED
  BY <1>5, <1>6 DEF IInv

LEMMA StepInv == ASSUME IInv, [Next]_vars PROVE IInv'
<1>1. ASSUME NEW c \in Calls, CommitRotation(c) PROVE IInv'
  BY <1>1, RotationStep, OldRotationStep
<1>2. ASSUME NEW c \in Calls, \/ Fetch(c) \/ Answered(c) \/ ProfileFails(c) \/ Unauthorized(c)
                              \/ LoadSession(c) \/ TurnedAway(c) \/ Refreshed(c) \/ NotRefreshed(c)
      PROVE  IInv'
  BY <1>2, FetchSteps, ProfileStep, UnauthorizedStep, LoadStep, TurnAwayStep, SettleSteps
<1>3. ASSUME NEW t \in Tabs, \/ Login(t) \/ CommitLogin(t) \/ LoggedIn(t)
                             \/ Logout(t) \/ CommitLogout(t) \/ LoggedOut(t) \/ SubmitFails(t)
      PROVE  IInv'
  BY <1>3, FormSteps, LoginStep, LogoutStep
<1>4. CASE UNCHANGED vars
  <2>1. Issued' = Issued /\ Refreshing' = Refreshing
    BY <1>4 DEF vars, Issued, Refreshing
  <2> QED
    BY <1>4, <2>1, Grown, SessionsKept DEF vars, Loaded, IInv, SessionsOK
<1> QED
  BY <1>1, <1>2, <1>3, <1>4, AgeSteps DEF Next

LEMMA Invariant == Spec => []IInv
BY InitInv, StepInv, PTL DEF Spec

(* Every variable has its type, and nobody waits for ever: who awaits a refresh
   awaits one that is under way (lib/api.ts:279-303). *)
THEOREM TypeCorrect == Spec => []TypeOK
<1>1. ASSUME IInv PROVE TypeOK
  BY <1>1, Numbers DEF IInv, SessionsOK, RefreshOK, BrowserOK, WaitsOK, TypeOK, Token,
    SessionRow, CallState, RefreshState, FormState
<1> QED
  BY <1>1, Invariant, PTL

(* A refresh token has one successor at most, unless two rotations of it have
   met: its row is revoked before another can read it (auth_service.py:151-185). *)
THEOREM RotatesOnce == Spec => []RotatedOnce
<1>1. ASSUME IInv PROVE RotatedOnce
  <2> SUFFICES ASSUME NEW i \in Issued \ overlapped
               PROVE  Cardinality({j \in Issued : session[j].parent = i}) <= 1
    BY DEF RotatedOnce
  <2>1. i \in Ids
    BY <1>1, Numbers DEF IInv
  <2>2. \A j, k \in Issued : session[j].parent = i /\ session[k].parent = i => j = k
    BY <1>1, <2>1 DEF IInv, RotationOK, Alone, Succeeds
  <2>3. CASE {j \in Issued : session[j].parent = i} = {}
    BY <2>3, FS_EmptySet
  <2>4. CASE \E k \in Issued : session[k].parent = i
    <3> PICK k \in Issued : session[k].parent = i
      BY <2>4
    <3>1. {j \in Issued : session[j].parent = i} = {k}
      BY <2>2
    <3>2. Cardinality({k}) = 1
      BY FS_Singleton
    <3> QED
      BY <3>1, <3>2
  <2> QED
    BY <2>3, <2>4
<1> QED
  BY <1>1, Invariant, PTL

-----------------------------------------------------------------------------
(* Logging out, and staying logged in.  Both properties speak of a browser
   that does one thing at a time and loses no answer.  The invariant says what
   that buys: a login has one row at most that is not revoked, and the browser
   holds its token, unless the answer that carries it is on its way. *)

Calm == ~raced /\ losses = 0

(* A refresh under way is the one its tab has promised. *)
Promised == \A c \in Refreshing : promise[TabOf[c]] = c
Rooted == loggedOut \subseteq Issued /\ \A i \in Issued : session[i].login \in Issued

OneAtATime ==
  /\ \A c, d \in Refreshing : c = d
  /\ \A s, t \in Submitting : s = t
  /\ Refreshing = {} \/ Submitting = {}

(* No row of x's login but its own is still good. *)
Last(x) == \A i \in Issued : session[i].login = session[x].login => session[i].revoked \/ i = x

RefreshFits(x) ==
  /\ x.pc \in {"sent", "loaded"} => x.token = cookie
  /\ x.pc = "loaded" => ~session[cookie].revoked
  /\ x.pc = "rotated" => x.new # 0 /\ ~session[x.new].revoked /\ Last(x.new)
  /\ x.pc = "refused" => access = 0 \/ cookie = 0 \/ session[cookie].age > 0

FormFits(x) ==
  /\ x.pc = "loggedin" => x.id # 0 /\ ~session[x.id].revoked /\ Last(x.id)
  /\ x.pc = "logout" => x.id = cookie
  /\ (x.pc = "loggedout" /\ x.id # 0) => session[x.id].revoked /\ Last(x.id)

CookieFits ==
  (cookie # 0 /\ \A c \in Calls : refresh[c].pc # "rotated") =>
    /\ Last(cookie)
    /\ \/ access = 0 \/ session[cookie].age > 0 \/ ~session[cookie].revoked
       \/ \E t \in Tabs : form[t].pc = "loggedout"

Ended == \A i \in Issued : session[i].login \in loggedOut => session[i].revoked

Fits ==
  /\ OneAtATime
  /\ \A c \in Calls : RefreshFits(refresh[c])
  /\ \A t \in Tabs : FormFits(form[t])
  /\ CookieFits
  /\ Ended

CalmInv == losses \in Nat /\ Promised /\ Rooted /\ (Calm => Fits)

(* What is under way keeps everything else idle. *)
LEMMA NothingElse ==
  ASSUME OneAtATime
  PROVE  /\ \A c \in Refreshing : /\ \A d \in Calls : d # c => refresh[d].pc = "idle"
                                  /\ \A t \in Tabs : form[t].pc = "idle"
         /\ \A t \in Submitting : /\ \A s \in Tabs : s # t => form[s].pc = "idle"
                                  /\ \A c \in Calls : refresh[c].pc = "idle"
BY DEF OneAtATime, Refreshing, Submitting

LEMMA OnlyRefresh ==
  ASSUME NEW c \in Calls, \A d \in Calls : d # c => refresh'[d].pc = "idle",
         \A t \in Tabs : form'[t].pc = "idle",
         RefreshFits(refresh[c])', CookieFits', Ended'
  PROVE  Fits'
<1>1. OneAtATime'
  BY DEF OneAtATime, Refreshing, Submitting
<1>2. \A d \in Calls : RefreshFits(refresh[d])'
  <2>1. ASSUME NEW d \in Calls, d # c PROVE RefreshFits(refresh[d])'
    BY <2>1 DEF RefreshFits
  <2> QED
    BY <2>1
<1>3. \A t \in Tabs : FormFits(form[t])'
  BY DEF FormFits
<1> QED
  BY <1>1, <1>2, <1>3 DEF Fits

LEMMA OnlyForm ==
  ASSUME NEW t \in Tabs, \A s \in Tabs : s # t => form'[s].pc = "idle",
         \A c \in Calls : refresh'[c].pc = "idle",
         FormFits(form[t])', CookieFits', Ended'
  PROVE  Fits'
<1>1. OneAtATime'
  BY DEF OneAtATime, Refreshing, Submitting
<1>2. \A s \in Tabs : FormFits(form[s])'
  <2>1. ASSUME NEW s \in Tabs, s # t PROVE FormFits(form[s])'
    BY <2>1 DEF FormFits
  <2> QED
    BY <2>1
<1>3. \A c \in Calls : RefreshFits(refresh[c])'
  BY DEF RefreshFits
<1> QED
  BY <1>1, <1>2, <1>3 DEF Fits

(* A step that moves nothing but calls, pages and clocks. *)
LEMMA ClockSteps ==
  ASSUME IInv, CalmInv, Issued' = Issued,
         \A i \in Issued : /\ session'[i].login = session[i].login
                           /\ session'[i].revoked = session[i].revoked
                           /\ session[i].age > 0 => session'[i].age > 0,
         UNCHANGED <<cookie, access, promise, refresh, form, loggedOut, raced, losses>>
  PROVE  CalmInv'
<1>1. Promised' /\ Rooted'
  BY DEF CalmInv, Promised, Rooted, Refreshing
<1>2. ASSUME Calm' PROVE Fits'
  <2>1. Fits
    BY <1>2 DEF Calm, CalmInv
  <2>2. /\ cookie \in {0} \cup Issued
        /\ \A c \in Calls : refresh[c].token \in {0} \cup Issued /\ refresh[c].new \in {0} \cup Issued
        /\ \A t \in Tabs : form[t].id \in {0} \cup Issued
    BY DEF IInv, BrowserOK, RefreshOK, RefreshState, FormState, Token
  <2>3. \A i \in Issued : Last(i)' <=> Last(i)
    BY DEF Last
  <2>4. OneAtATime'
    BY <2>1 DEF Fits, OneAtATime, Refreshing, Submitting
  <2>5. ASSUME NEW c \in Calls PROVE RefreshFits(refresh[c])'
    <3>1. RefreshFits(refresh[c]) /\ (refresh[c].pc = "loaded" => refresh[c].token \in Issued)
      BY <2>1 DEF Fits, IInv, RefreshOK
    <3> QED
      BY <2>2, <2>3, <3>1 DEF RefreshFits
  <2>6. \A t \in Tabs : FormFits(form[t])'
    BY <2>1, <2>2, <2>3 DEF Fits, FormFits
  <2>7. CookieFits'
    BY <2>1, <2>2, <2>3 DEF Fits, CookieFits
  <2>8. Ended'
    BY <2>1 DEF Fits, Ended
  <2> QED
    BY <2>4, <2>5, <2>6, <2>7, <2>8 DEF Fits
<1> QED
  BY <1>1, <1>2 DEF CalmInv

(* A refresh that begins finds no other: not in its tab, which promises none,
   nor elsewhere, or it would have raced. *)
LEMMA UnauthorizedCalm ==
  ASSUME IInv, CalmInv, NEW c \in Calls, Unauthorized(c)
  PROVE  CalmInv'
<1> PICK t \in Tabs : t = TabOf[c]
  BY SessionsAssumption
<1>1. CASE ~Starts(c)
  <2>1. UNCHANGED <<session, cookie, access, promise, refresh, form, loggedOut, raced, losses>>
    BY <1>1 DEF Unauthorized
  <2> QED
    BY <2>1, ClockSteps DEF Issued
<1>2. CASE Starts(c)
  <2> PICK y : y = [pc |-> "sent", token |-> cookie, new |-> 0]
    OBVIOUS
  <2>1. /\ UNCHANGED <<session, cookie, access, form, loggedOut, losses>>
        /\ refresh' = [refresh EXCEPT ![c] = y] /\ promise' = [promise EXCEPT ![t] = c]
        /\ raced' = (raced \/ Submitting # {} \/ \E d \in Refreshing : TabOf[d] # t)
        /\ promise[t] = None
    BY <1>2 DEF Unauthorized, Starts
  <2>2. y.pc = "sent" /\ y.token = cookie
    OBVIOUS
  <2>3. refresh'[c] = y /\ \A d \in Calls : d # c => refresh'[d] = refresh[d]
    BY <2>1 DEF IInv, RefreshOK
  <2>4. promise'[t] = c /\ \A s \in Tabs : s # t => promise'[s] = promise[s]
    BY <2>1 DEF IInv, WaitsOK
  <2>5. \A d \in Refreshing : TabOf[d] \in Tabs /\ TabOf[d] # t
    BY <2>1, SessionsAssumption DEF CalmInv, Promised, Refreshing
  <2>6. Promised'
    BY <2>2, <2>3, <2>4, <2>5 DEF CalmInv, Promised, Refreshing
  <2>7. Rooted'
    BY <2>1 DEF CalmInv, Rooted, Issued
  <2>8. ASSUME Calm' PROVE Fits'
    <3>1. Fits /\ Submitting = {} /\ Refreshing = {}
      <4>1. Calm /\ Submitting = {} /\ \A d \in Refreshing : TabOf[d] = t
        BY <2>1, <2>8 DEF Calm
      <4> QED
        BY <2>5, <4>1 DEF CalmInv
    <3>2. /\ \A d \in Calls : d # c => refresh'[d].pc = "idle"
          /\ \A s \in Tabs : form'[s].pc = "idle"
          /\ \A d \in Calls : refresh[d].pc = "idle"
      BY <2>1, <2>3, <3>1 DEF Refreshing, Submitting
    <3>3. RefreshFits(refresh[c])'
      BY <2>1, <2>2, <2>3 DEF RefreshFits
    <3>4. CookieFits'
      BY <2>1, <3>1, <3>2 DEF Fits, CookieFits, Last, Issued
    <3>5. Ended'
      BY <2>1, <3>1 DEF Fits, Ended, Issued
    <3> QED
      BY <3>2, <3>3, <3>4, <3>5, OnlyRefresh
  <2> QED
    BY <2>1, <2>6, <2>7, <2>8 DEF CalmInv
<1> QED
  BY <1>1, <1>2

(* A step that takes a refresh further keeps the promise. *)
LEMMA StillPromised ==
  ASSUME IInv, CalmInv, NEW c \in Refreshing, NEW x, refresh' = [refresh EXCEPT ![c] = x],
         UNCHANGED promise
  PROVE  Promised'
<1>1. \A d \in Calls : d # c => refresh'[d] = refresh[d]
  BY DEF IInv, RefreshOK
<1>2. Refreshing' \subseteq Refreshing
  BY <1>1 DEF Refreshing
<1> QED
  BY <1>2 DEF CalmInv, Promised

LEMMA LoadCalm ==
  ASSUME IInv, CalmInv, NEW c \in Calls, LoadSession(c)
  PROVE  CalmInv'
<1> PICK i : i = refresh[c].token
  OBVIOUS
<1> PICK q \in RefreshState(Token) : q = refresh[c]
  BY DEF IInv, RefreshOK
<1> PICK x : x = IF Exchangeable(i) THEN [q EXCEPT !.pc = "loaded"] ELSE Refused
  OBVIOUS
<1>1. /\ UNCHANGED <<session, cookie, access, promise, form, loggedOut, raced, losses>>
      /\ refresh' = [refresh EXCEPT ![c] = x] /\ q.pc = "sent" /\ c \in Refreshing
  BY DEF LoadSession, Refreshing
<1>2. Promised' /\ Rooted'
  BY <1>1, StillPromised DEF CalmInv, Rooted, Issued
<1>3. refresh'[c] = x /\ \A d \in Calls : d # c => refresh'[d] = refresh[d]
  BY <1>1 DEF IInv, RefreshOK
<1>4. ASSUME Calm' PROVE Fits'
  <2>1. Fits
    BY <1>1, <1>4 DEF Calm, CalmInv
  <2>2. /\ \A d \in Calls : d # c => refresh[d].pc = "idle"
        /\ \A t \in Tabs : form[t].pc = "idle"
    BY <1>1, <2>1, NothingElse DEF Fits
  <2>3. RefreshFits(q) /\ i = cookie
    BY <1>1, <2>1 DEF Fits, RefreshFits
  <2>4. CookieFits /\ \A d \in Calls : refresh[d].pc # "rotated"
    BY <1>1, <2>1, <2>2 DEF Fits
  <2>5. RefreshFits(refresh[c])'
    <3>1. CASE Exchangeable(i)
      <4>1. x.pc = "loaded" /\ x.token = i
        BY <3>1 DEF RefreshState
      <4> QED
        BY <1>1, <1>3, <2>3, <3>1, <4>1 DEF RefreshFits, Exchangeable
    <3>2. CASE ~Exchangeable(i)
      <4>1. x.pc = "refused"
        BY <3>2 DEF Refused, IdleRefresh
      <4>2. access = 0 \/ cookie = 0 \/ session[cookie].age > 0
        <5> SUFFICES ASSUME cookie # 0 PROVE access = 0 \/ session[cookie].age > 0
          OBVIOUS
        <5>1. cookie \in Issued /\ session[cookie].age \in 0..2
          BY DEF IInv, BrowserOK, SessionsOK, SessionRow, Token
        <5>2. session[cookie].revoked \/ session[cookie].age > 0
          BY <2>3, <3>2, <5>1 DEF Exchangeable
        <5> QED
          BY <2>2, <2>4, <5>2 DEF CookieFits
      <4> QED
        BY <1>1, <1>3, <4>1, <4>2 DEF RefreshFits
    <3> QED
      BY <3>1, <3>2
  <2>6. CookieFits'
    BY <1>1, <2>4 DEF CookieFits, Last, Issued
  <2>7. Ended'
    BY <1>1, <2>1 DEF Fits, Ended, Issued
  <2>8. /\ \A d \in Calls : d # c => refresh'[d].pc = "idle"
        /\ \A t \in Tabs : form'[t].pc = "idle"
    BY <1>1, <1>3, <2>2
  <2> QED
    BY <2>5, <2>6, <2>7, <2>8, OnlyRefresh
<1> QED
  BY <1>1, <1>2, <1>4 DEF CalmInv

(* The successor is the one row of its login that is good. *)
LEMMA RotationCalm ==
  ASSUME IInv, CalmInv, NEW c \in Calls, CommitRotation(c), session[refresh[c].token].age = 0
  PROVE  CalmInv'
<1> PICK i \in Issued : i = refresh[c].token
  BY DEF CommitRotation, IInv, RefreshOK
<1>0. SessionsOK /\ session \in [Issued -> SessionRow] /\ i \in 0..MaxSessions
  BY Numbers, SessionsAssumption DEF IInv, SessionsOK, Ids
<1>1. /\ UNCHANGED <<cookie, access, promise, form, loggedOut, raced, losses>>
      /\ NextId \in Ids /\ refresh[c].pc = "loaded" /\ c \in Refreshing
      /\ session' = [Issue(Row(session[i].login, i)) EXCEPT ![i].revoked = TRUE]
      /\ refresh' = [refresh EXCEPT ![c] = Rotated(NextId)]
  BY DEF CommitRotation, Refreshing, history
<1> PICK n \in Ids : n = NextId /\ n \notin Issued /\ n # 0
  BY <1>0, <1>1, Numbers
<1> PICK login \in Ids : login = session[i].login
  BY <1>0 DEF SessionRow
<1> PICK row \in SessionRow : row = Row(login, i) /\ ~row.revoked /\ row.login = login
  <2>1. Row(login, i).login = login
    BY DEF Row
  <2> QED
    BY <1>0, <2>1, RowTyped
<1> PICK new \in [Issued \cup {n} -> SessionRow] :
      new = Issue(row) /\ new[n] = row /\ \A j \in Issued : new[j] = session[j]
  BY Issuing
<1>2. /\ Issued' = Issued \cup {n} /\ session'[n] = row
      /\ \A j \in Issued : j # i => session'[j] = session[j]
      /\ session'[i].revoked /\ session'[i].login = login
  <2>1. session' = [new EXCEPT ![i].revoked = TRUE]
    BY <1>1
  <2>2. /\ Issued' = Issued \cup {n}
        /\ session'[i] = [new[i] EXCEPT !.revoked = TRUE]
        /\ \A j \in (Issued \cup {n}) \ {i} : session'[j] = new[j]
    BY <2>1 DEF Issued
  <2>3. new[i] \in SessionRow /\ n # i
    OBVIOUS
  <2>4. session'[i].login = session[i].login /\ session'[i].revoked
    <3>1. PICK x \in SessionRow : x = new[i]
      BY <2>3, Zenon
    <3>2. [x EXCEPT !.revoked = TRUE].login = x.login /\ [x EXCEPT !.revoked = TRUE].revoked
      BY <3>1 DEF SessionRow
    <3>3. session'[i] = [x EXCEPT !.revoked = TRUE] /\ x = session[i]
      BY <2>2, <3>1, Zenon
    <3> QED
      BY <3>2, <3>3, Zenon
  <2>5. session'[n] = row
    <3>1. session'[n] = new[n]
      BY <2>2, <2>3
    <3> QED
      BY <3>1
  <2> QED
    BY <2>2, <2>4, <2>5
<1>3. refresh'[c] = Rotated(n) /\ \A d \in Calls : d # c => refresh'[d] = refresh[d]
  BY <1>1 DEF IInv, RefreshOK
<1>4. Promised'
  BY <1>1, StillPromised
<1>5. Rooted'
  <2>1. login \in Issued /\ loggedOut' \subseteq Issued
    BY <1>1 DEF CalmInv, Rooted
  <2>2. ASSUME NEW j \in Issued' PROVE session'[j].login \in Issued
    <3>0. j \in Issued \cup {n}
      BY <1>2, Zenon
    <3>1. CASE j = i
      <4>1. session'[i].login = login
        BY <1>2, Zenon
      <4> QED
        BY <2>1, <3>1, <4>1, Zenon
    <3>2. CASE j = n
      <4>1. session'[n].login = login
        BY <1>2, Zenon
      <4> QED
        BY <2>1, <3>2, <4>1, Zenon
    <3>3. CASE j \in Issued /\ j # i
      <4>1. session'[j] = session[j]
        BY <1>2, <3>3, Zenon
      <4>2. session[j].login \in Issued
        BY <3>3, Zenon DEF CalmInv, Rooted
      <4> QED
        BY <4>1, <4>2, Zenon
    <3> QED
      BY <3>0, <3>1, <3>2, <3>3, Zenon
  <2> QED
    BY <1>2, <2>1, <2>2 DEF Rooted
<1>6. ASSUME Calm' PROVE Fits'
  <2>1. Fits
    BY <1>1, <1>6 DEF Calm, CalmInv
  <2>2. /\ \A d \in Calls : d # c => refresh'[d].pc = "idle"
        /\ \A d \in Calls : refresh[d].pc # "rotated"
        /\ \A t \in Tabs : form'[t].pc = "idle"
    BY <1>1, <1>3, <2>1, NothingElse DEF Fits
  <2>3. i = cookie /\ ~session[i].revoked
    BY <1>1, <2>1 DEF Fits, RefreshFits
  <2>4. Last(i) /\ i # 0
    <3>1. 0 \notin Issued
      BY <1>0, Numbers
    <3> QED
      BY <2>1, <2>2, <2>3, <3>1 DEF Fits, CookieFits
  <2>5. Rotated(n).pc = "rotated" /\ Rotated(n).new = n
    BY DEF Rotated, IdleRefresh
  <2>6. Last(n)'
    <3>1. SUFFICES ASSUME NEW j \in Issued', session'[j].login = session'[n].login, j # n
                   PROVE  session'[j].revoked
      BY DEF Last
    <3>2. CASE j = i
      BY <1>2, <3>2, Zenon
    <3>3. CASE j # i
      <4>1. j \in Issued /\ session'[j] = session[j]
        BY <1>2, <3>1, <3>3
      <4>2. session[j].login = session[i].login
        BY <1>2, <3>1, <4>1, Zenon
      <4> QED
        BY <2>4, <3>3, <4>1, <4>2, Zenon DEF Last
    <3> QED
      BY <3>2, <3>3
  <2>7. RefreshFits(refresh[c])'
    BY <1>2, <1>3, <2>5, <2>6 DEF RefreshFits
  <2>8. CookieFits'
    BY <1>3, <2>5 DEF CookieFits
  <2>9. Ended'
    BY <1>1, <1>2, <2>1, <2>3 DEF Fits, Ended
  <2> QED
    BY <2>2, <2>7, <2>8, <2>9, OnlyRefresh
<1> QED
  BY <1>1, <1>4, <1>5, <1>6 DEF CalmInv

LEMMA OldRotationCalm ==
  ASSUME IInv, CalmInv, NEW c \in Calls, CommitRotation(c), session[refresh[c].token].age # 0
  PROVE  CalmInv'
<1> PICK i \in Issued : i = refresh[c].token
  BY DEF CommitRotation, IInv, RefreshOK
<1>1. /\ UNCHANGED <<cookie, access, promise, form, loggedOut, raced, losses>>
      /\ refresh[c].pc = "loaded" /\ c \in Refreshing
      /\ session' = [session EXCEPT ![i].revoked = TRUE]
      /\ refresh' = [refresh EXCEPT ![c] = Refused]
  BY DEF CommitRotation, Refreshing, history
<1>2. /\ Issued' = Issued
      /\ \A j \in Issued : /\ session'[j].login = session[j].login /\ session'[j].age = session[j].age
                           /\ session[j].revoked => session'[j].revoked
  BY <1>1 DEF IInv, SessionsOK, SessionRow, Issued
<1>3. refresh'[c] = Refused /\ \A d \in Calls : d # c => refresh'[d] = refresh[d]
  BY <1>1 DEF IInv, RefreshOK
<1>4. Promised'
  BY <1>1, StillPromised
<1>5. Rooted'
  BY <1>1, <1>2 DEF CalmInv, Rooted
<1>6. ASSUME Calm' PROVE Fits'
  <2>1. Fits
    BY <1>1, <1>6 DEF Calm, CalmInv
  <2>2. /\ \A d \in Calls : d # c => refresh'[d].pc = "idle"
        /\ \A d \in Calls : refresh[d].pc # "rotated"
        /\ \A t \in Tabs : form'[t].pc = "idle"
    BY <1>1, <1>3, <2>1, NothingElse DEF Fits
  <2>3. i = cookie
    BY <1>1, <2>1 DEF Fits, RefreshFits
  <2>4. session'[cookie].age > 0
    <3>1. session[i] \in SessionRow
      BY DEF IInv, SessionsOK
    <3>2. session[i].age \in 0..2 /\ session[i].age # 0
      BY <3>1 DEF SessionRow
    <3> QED
      BY <1>2, <2>3, <3>2
  <2>5. Refused.pc = "refused"
    BY DEF Refused, IdleRefresh
  <2>6. RefreshFits(refresh[c])'
    BY <1>1, <1>3, <2>4, <2>5 DEF RefreshFits
  <2>7. CookieFits'
    <3>1. cookie # 0 => Last(cookie)
      BY <2>1, <2>2 DEF Fits, CookieFits
    <3>2. cookie # 0 => Last(cookie)'
      BY <1>1, <1>2, <2>3, <3>1 DEF Last
    <3> QED
      BY <1>1, <2>4, <3>2 DEF CookieFits
  <2>8. Ended'
    BY <1>1, <1>2, <2>1 DEF Fits, Ended
  <2> QED
    BY <2>2, <2>6, <2>7, <2>8, OnlyRefresh
<1> QED
  BY <1>1, <1>4, <1>5, <1>6 DEF CalmInv

(* Whatever is lost, the browser is not calm any more. *)
LEMMA LossSteps ==
  ASSUME IInv, CalmInv, losses' = losses + 1, UNCHANGED <<session, loggedOut>>, Promised'
  PROVE  CalmInv'
<1>1. losses' \in Nat /\ losses' # 0
  BY DEF CalmInv
<1>2. Rooted'
  BY DEF CalmInv, Rooted, Issued
<1> QED
  BY <1>1, <1>2 DEF CalmInv, Calm

LEMMA TurnAwayCalm ==
  ASSUME IInv, CalmInv, NEW c \in Calls, TurnedAway(c)
  PROVE  CalmInv'
<1>1. /\ c \in Refreshing /\ refresh' = [refresh EXCEPT ![c] = Refused]
      /\ losses' = losses + 1 /\ UNCHANGED <<session, loggedOut, promise>>
  BY DEF TurnedAway, Refreshing
<1> QED
  BY <1>1, StillPromised, LossSteps

LEMMA ProfileCalm ==
  ASSUME IInv, CalmInv, NEW c \in Calls, ProfileFails(c)
  PROVE  CalmInv'
<1>1. losses' = losses + 1 /\ UNCHANGED <<session, loggedOut, promise, refresh>>
  BY DEF ProfileFails
<1>2. Promised'
  BY <1>1 DEF CalmInv, Promised, Refreshing
<1> QED
  BY <1>1, <1>2, LossSteps

(* Settling a refresh puts away its promise and no other. *)
LEMMA SettledCalm ==
  ASSUME IInv, CalmInv, NEW c \in Calls, c \in Refreshing, Settled(c)
  PROVE  /\ Promised'
         /\ refresh'[c].pc = "idle" /\ \A d \in Calls : d # c => refresh'[d] = refresh[d]
<1>1. IdleRefresh.pc = "idle"
  BY DEF IdleRefresh
<1>2. refresh'[c].pc = "idle" /\ \A d \in Calls : d # c => refresh'[d] = refresh[d]
  BY <1>1 DEF Settled, IInv, RefreshOK
<1>3. \A d \in Refreshing : d # c => TabOf[d] # TabOf[c]
  BY DEF CalmInv, Promised
<1>4. \A t \in Tabs : t # TabOf[c] => promise'[t] = promise[t]
  BY DEF Settled, IInv, WaitsOK
<1>5. Promised'
  BY <1>2, <1>3, <1>4, SessionsAssumption DEF CalmInv, Promised, Refreshing
<1> QED
  BY <1>2, <1>5

LEMMA SettleCalm ==
  ASSUME IInv, CalmInv, NEW c \in Calls, Refreshed(c) \/ NotRefreshed(c)
  PROVE  CalmInv'
<1>1. c \in Refreshing /\ Settled(c) /\ UNCHANGED <<session, loggedOut, raced>>
  BY DEF Refreshed, NotRefreshed, Refreshing, history
<1>2. /\ Promised' /\ refresh'[c].pc = "idle"
      /\ \A d \in Calls : d # c => refresh'[d] = refresh[d]
  BY <1>1, SettledCalm
<1>3. Rooted'
  BY <1>1 DEF CalmInv, Rooted, Issued
<1>4. CASE UNCHANGED losses
  <2>1. ASSUME Calm' PROVE Fits'
    <3>1. Fits
      BY <1>1, <1>4, <2>1 DEF Calm, CalmInv
    <3>2. /\ \A d \in Calls : d # c => refresh[d].pc = "idle"
          /\ \A t \in Tabs : form[t].pc = "idle"
      BY <1>1, <3>1, NothingElse DEF Fits
    <3>3. RefreshFits(refresh[c])'
      BY <1>2 DEF RefreshFits
    <3>4. Ended'
      BY <1>1, <3>1 DEF Fits, Ended, Issued
    <3>5. \A t \in Tabs : form'[t].pc = "idle"
      <4>1. IdleForm.pc = "idle"
        BY DEF IdleForm
      <4>2. form' = form \/ form' = [form EXCEPT ![TabOf[c]] = IdleForm]
        BY DEF Refreshed, NotRefreshed
      <4> QED
        BY <3>2, <4>1, <4>2 DEF IInv, BrowserOK
    <3>6. CookieFits'
      <4>1. CASE Refreshed(c)
        <5>1. /\ refresh[c].pc = "rotated" /\ cookie' = refresh[c].new /\ UNCHANGED session
          BY <4>1 DEF Refreshed
        <5>2. Last(refresh[c].new) /\ ~session[refresh[c].new].revoked
          BY <3>1, <5>1 DEF Fits, RefreshFits
        <5> QED
          BY <5>1, <5>2 DEF CookieFits, Last, Issued
      <4>2. CASE NotRefreshed(c)
        <5>1. refresh[c].pc = "refused" /\ access' = 0 /\ UNCHANGED <<session, cookie>>
          BY <1>4, <4>2 DEF NotRefreshed, CalmInv
        <5>2. cookie # 0 => Last(cookie)
          BY <3>1, <3>2, <5>1 DEF Fits, CookieFits
        <5> QED
          BY <5>1, <5>2 DEF CookieFits, Last, Issued
      <4> QED
        BY <4>1, <4>2
    <3> QED
      BY <1>2, <3>2, <3>3, <3>4, <3>5, <3>6, OnlyRefresh
  <2> QED
    BY <1>2, <1>3, <1>4, <2>1 DEF CalmInv
<1>5. CASE losses' = losses + 1
  BY <1>1, <1>2, <1>5, LossSteps
<1> QED
  BY <1>4, <1>5 DEF Refreshed, NotRefreshed, history

LEMMA SubmitCalm ==
  ASSUME IInv, CalmInv, NEW t \in Tabs, Login(t) \/ Logout(t) \/ SubmitFails(t)
  PROVE  CalmInv'
<1>1. CASE SubmitFails(t)
  <2>1. losses' = losses + 1 /\ UNCHANGED <<session, loggedOut, promise, refresh>>
    BY <1>1 DEF SubmitFails
  <2>2. Promised'
    BY <2>1 DEF CalmInv, Promised, Refreshing
  <2> QED
    BY <2>1, <2>2, LossSteps
<1>2. CASE Login(t) \/ Logout(t)
  <2>1. PICK x : /\ Submit(t, x) /\ x.pc \in {"login", "logout"}
                 /\ x.pc = "logout" => x.id = cookie
    BY <1>2 DEF Login, Logout
  <2>2. /\ UNCHANGED <<session, cookie, access, promise, refresh, loggedOut, losses>>
        /\ form' = [form EXCEPT ![t] = x]
        /\ raced' = (raced \/ Refreshing # {} \/ Submitting # {})
    BY <2>1 DEF Submit
  <2>3. form'[t] = x /\ \A s \in Tabs : s # t => form'[s] = form[s]
    BY <2>2 DEF IInv, BrowserOK
  <2>4. Promised' /\ Rooted'
    BY <2>2 DEF CalmInv, Promised, Rooted, Refreshing, Issued
  <2>5. ASSUME Calm' PROVE Fits'
    <3>1. Fits /\ Refreshing = {} /\ Submitting = {}
      BY <2>2, <2>5 DEF Calm, CalmInv
    <3>2. /\ \A s \in Tabs : form[s].pc = "idle"
          /\ \A c \in Calls : refresh[c].pc = "idle"
      BY <3>1 DEF Submitting, Refreshing
    <3>3. FormFits(form[t])'
      BY <2>1, <2>2, <2>3 DEF FormFits
    <3>4. CookieFits'
      BY <2>2, <3>1, <3>2 DEF Fits, CookieFits, Last, Issued
    <3>5. Ended'
      BY <2>2, <3>1 DEF Fits, Ended, Issued
    <3> QED
      BY <2>2, <2>3, <3>2, <3>3, <3>4, <3>5, OnlyForm
  <2> QED
    BY <2>2, <2>4, <2>5 DEF CalmInv
<1> QED
  BY <1>1, <1>2

(* The row of a login is the only one of its number. *)
LEMMA LoginCalm ==
  ASSUME IInv, CalmInv, NEW t \in Tabs, CommitLogin(t)
  PROVE  CalmInv'
<1>1. /\ UNCHANGED <<cookie, access, promise, refresh, loggedOut, raced, losses>>
      /\ NextId \in Ids /\ session' = Issue(Row(NextId, 0)) /\ t \in Submitting
      /\ form[t].pc = "login"
      /\ form' = [form EXCEPT ![t].pc = "loggedin", ![t].id = NextId]
  BY DEF CommitLogin, Submitting, history
<1> PICK n \in Ids : n = NextId /\ n \notin Issued /\ n # 0
  BY <1>1, Numbers DEF IInv
<1> PICK row \in SessionRow : row = Row(n, 0) /\ ~row.revoked /\ row.login = n
  <2>1. Row(n, 0).login = n
    BY DEF Row
  <2> QED
    BY <2>1, RowTyped, SessionsAssumption
<1>2. /\ Issued' = Issued \cup {n} /\ session'[n] = row
      /\ \A j \in Issued : session'[j] = session[j]
  <2>1. /\ session' \in [Issued \cup {n} -> SessionRow] /\ session'[n] = row
        /\ \A j \in Issued : session'[j] = session[j]
    BY <1>1, Issuing
  <2> QED
    BY <2>1 DEF Issued
<1>3. /\ form'[t].pc = "loggedin" /\ form'[t].id = n
      /\ \A s \in Tabs : s # t => form'[s] = form[s]
  BY <1>1 DEF IInv, BrowserOK, FormState
<1>4. Promised' /\ Rooted'
  BY <1>1, <1>2 DEF CalmInv, Promised, Rooted, Refreshing
<1>5. ASSUME Calm' PROVE Fits'
  <2>1. Fits
    BY <1>1, <1>5 DEF Calm, CalmInv
  <2>2. /\ \A s \in Tabs : s # t => form[s].pc = "idle"
        /\ \A c \in Calls : refresh[c].pc = "idle"
    BY <1>1, <2>1, NothingElse DEF Fits
  <2>3. \A j \in Issued : session[j].login # n
    BY DEF CalmInv, Rooted
  <2>4. FormFits(form[t])'
    BY <1>2, <1>3, <2>3 DEF FormFits, Last
  <2>5. CookieFits'
    <3>1. cookie # 0 => cookie \in Issued
      BY DEF IInv, BrowserOK, Token
    <3>2. cookie # 0 => Last(cookie)'
      BY <1>1, <1>2, <2>1, <2>2, <2>3, <3>1 DEF Fits, CookieFits, Last
    <3>3. \A s \in Tabs : form[s].pc # "loggedout"
      BY <1>1, <2>2
    <3> QED
      BY <1>1, <1>2, <2>1, <2>2, <3>1, <3>2, <3>3 DEF Fits, CookieFits
  <2>6. Ended'
    <3>1. n \notin loggedOut
      BY DEF CalmInv, Rooted
    <3> QED
      BY <1>1, <1>2, <2>1, <3>1 DEF Fits, Ended
  <2> QED
    <3>1. \A s \in Tabs : s # t => form'[s].pc = "idle"
      BY <1>1, <1>3, <2>2
    <3>2. \A c \in Calls : refresh'[c].pc = "idle"
      BY <1>1, <2>2
    <3> QED
      BY <2>4, <2>5, <2>6, <3>1, <3>2, OnlyForm, Zenon
<1> QED
  BY <1>1, <1>4, <1>5 DEF CalmInv

(* The token a logout presents is the last of its login, so revoking it ends
   the login. *)
LEMMA LogoutCalm ==
  ASSUME IInv, CalmInv, NEW t \in Tabs, CommitLogout(t)
  PROVE  CalmInv'
<1> PICK i \in Token : i = form[t].id
  BY DEF IInv, BrowserOK, FormState
<1>1. /\ UNCHANGED <<cookie, access, promise, refresh, loggedOut, raced, losses>>
      /\ form[t].pc = "logout" /\ t \in Submitting
      /\ \/ /\ session' = IF i = 0 THEN session ELSE [session EXCEPT ![i].revoked = TRUE]
            /\ form' = [form EXCEPT ![t].pc = "loggedout"]
         \/ session' = session /\ form' = [form EXCEPT ![t].pc = "refused"]
  BY DEF CommitLogout, Submitting, history
<1>2. /\ Issued' = Issued
      /\ \A j \in Issued : /\ session'[j].login = session[j].login /\ session'[j].age = session[j].age
                           /\ session[j].revoked => session'[j].revoked
  <2>1. CASE session' = session
    BY <2>1 DEF Issued
  <2>2. CASE session' = [session EXCEPT ![i].revoked = TRUE]
    BY <2>2 DEF IInv, SessionsOK, SessionRow, Issued
  <2> QED
    BY <1>1, <2>1, <2>2
<1>3. /\ form'[t].id = i /\ form'[t].pc \in {"loggedout", "refused"}
      /\ \A s \in Tabs : s # t => form'[s] = form[s]
  BY <1>1 DEF IInv, BrowserOK, FormState
<1>4. /\ form'[t].pc = "loggedout" /\ i # 0 => session'[i].revoked
      /\ form'[t].pc = "refused" => session' = session
  <2>1. CASE form' = [form EXCEPT ![t].pc = "refused"]
    <3>1. form'[t].pc = "refused"
      BY <2>1 DEF IInv, BrowserOK, FormState
    <3>2. form' # [form EXCEPT ![t].pc = "loggedout"]
      BY <3>1 DEF IInv, BrowserOK, FormState
    <3> QED
      BY <1>1, <3>1, <3>2
  <2>2. CASE form' = [form EXCEPT ![t].pc = "loggedout"]
    <3>1. form'[t].pc = "loggedout"
      BY <2>2 DEF IInv, BrowserOK, FormState
    <3>2. form' # [form EXCEPT ![t].pc = "refused"]
      BY <3>1 DEF IInv, BrowserOK, FormState
    <3>3. i # 0 => session' = [session EXCEPT ![i].revoked = TRUE]
      BY <1>1, <3>2
    <3>4. i # 0 => session'[i].revoked
      <4> SUFFICES ASSUME i # 0 PROVE session'[i].revoked
        OBVIOUS
      <4>1. i \in Issued /\ session[i] \in SessionRow
        BY DEF Token, IInv, SessionsOK
      <4>2. session'[i] = [session[i] EXCEPT !.revoked = TRUE]
        BY <3>3, <4>1 DEF IInv, SessionsOK
      <4> QED
        BY <4>1, <4>2, ZenonT(60) DEF SessionRow
    <3> QED
      BY <3>1, <3>4
  <2> QED
    BY <1>1, <2>1, <2>2
<1>5. Promised' /\ Rooted'
  BY <1>1, <1>2 DEF CalmInv, Promised, Rooted, Refreshing
<1>6. ASSUME Calm' PROVE Fits'
  <2>1. Fits
    BY <1>1, <1>6 DEF Calm, CalmInv
  <2>2. /\ \A s \in Tabs : s # t => form[s].pc = "idle"
        /\ \A c \in Calls : refresh[c].pc = "idle"
    BY <1>1, <2>1, NothingElse DEF Fits
  <2>3. i = cookie /\ \A s \in Tabs : form[s].pc # "loggedout"
    BY <1>1, <2>1, <2>2 DEF Fits, FormFits
  <2>4. cookie # 0 => cookie \in Issued /\ Last(cookie)
    BY <2>1, <2>2 DEF Fits, CookieFits, IInv, BrowserOK, Token
  <2>5. cookie # 0 => Last(cookie)'
    BY <1>1, <1>2, <2>4 DEF Last
  <2>6. FormFits(form[t])'
    BY <1>1, <1>3, <1>4, <2>3, <2>5 DEF FormFits, Last
  <2>7. CookieFits'
    <3>1. CASE form'[t].pc = "loggedout"
      BY <1>1, <2>5, <3>1 DEF CookieFits
    <3>2. CASE form'[t].pc = "refused"
      BY <1>1, <1>4, <2>1, <2>2, <2>3, <2>5, <3>2 DEF Fits, CookieFits
    <3> QED
      BY <1>3, <3>1, <3>2
  <2>8. Ended'
    BY <1>1, <1>2, <2>1 DEF Fits, Ended
  <2> QED
    BY <1>1, <1>3, <2>2, <2>6, <2>7, <2>8, OnlyForm
<1> QED
  BY <1>1, <1>5, <1>6 DEF CalmInv

LEMMA AnsweredCalm ==
  ASSUME IInv, CalmInv, NEW t \in Tabs, LoggedIn(t) \/ LoggedOut(t)
  PROVE  CalmInv'
<1> PICK i \in Token : i = form[t].id
  BY DEF IInv, BrowserOK, FormState
<1>1. /\ UNCHANGED <<session, promise, refresh, raced, losses>> /\ Issued' = Issued
      /\ form' = [form EXCEPT ![t] = IdleForm] /\ t \in Submitting
  BY DEF LoggedIn, LoggedOut, Submitting, Issued, history
<1>2. \A s \in Tabs : form'[s].pc = IF s = t THEN "idle" ELSE form[s].pc
  <2>1. IdleForm.pc = "idle"
    BY DEF IdleForm
  <2> QED
    BY <1>1, <2>1 DEF IInv, BrowserOK
<1>3. Promised'
  BY <1>1 DEF CalmInv, Promised, Refreshing
<1>4. Rooted' /\ loggedOut' \subseteq loggedOut \cup {session[j].login : j \in Issued}
  BY <1>1 DEF CalmInv, Rooted, LoggedIn, LoggedOut, history, Token
<1>5. ASSUME Calm' PROVE Fits'
  <2>1. Fits
    BY <1>1, <1>5 DEF Calm, CalmInv
  <2>2. /\ \A s \in Tabs : s # t => form[s].pc = "idle"
        /\ \A c \in Calls : refresh[c].pc = "idle"
    BY <1>1, <2>1, NothingElse DEF Fits
  <2>3. FormFits(form[t])'
    BY <1>2 DEF FormFits
  <2>4. CookieFits' /\ Ended'
    <3>1. CASE LoggedIn(t)
      <4>1. form[t].pc = "loggedin" /\ cookie' = i /\ UNCHANGED <<session, loggedOut>>
        BY <3>1 DEF LoggedIn, history
      <4>2. Last(i) /\ ~session[i].revoked
        BY <2>1, <4>1 DEF Fits, FormFits
      <4> QED
        BY <2>1, <4>1, <4>2 DEF Fits, CookieFits, Ended, Last, Issued
    <3>2. CASE LoggedOut(t) /\ form[t].pc = "loggedout"
      <4>1. /\ cookie' = 0 /\ UNCHANGED session
            /\ loggedOut' = IF i # 0 THEN loggedOut \cup {session[i].login} ELSE loggedOut
        BY <3>2 DEF LoggedOut
      <4>2. i # 0 => session[i].revoked /\ Last(i)
        BY <2>1, <3>2 DEF Fits, FormFits
      <4>3. Ended'
        BY <2>1, <4>1, <4>2 DEF Fits, Ended, Last, Issued
      <4> QED
        BY <4>1, <4>3 DEF CookieFits
    <3>3. CASE LoggedOut(t) /\ form[t].pc = "refused"
      <4>1. access' = 0 /\ UNCHANGED <<session, loggedOut, cookie, refresh>>
        BY <3>3 DEF LoggedOut
      <4>2. cookie # 0 => Last(cookie)
        BY <2>1, <2>2 DEF Fits, CookieFits
      <4> QED
        BY <2>1, <4>1, <4>2 DEF Fits, CookieFits, Ended, Last, Issued
    <3> QED
      BY <3>1, <3>2, <3>3 DEF LoggedOut
  <2> QED
    BY <1>1, <1>2, <2>2, <2>3, <2>4, OnlyForm
<1> QED
  BY <1>1, <1>3, <1>4, <1>5 DEF CalmInv

LEMMA CalmInit == ASSUME Init PROVE CalmInv
<1>1. /\ Issued = {1} /\ session[1] = Row(1, 0) /\ IdleRefresh.pc = "idle" /\ IdleForm.pc = "idle"
      /\ Row(1, 0).login = 1 /\ ~Row(1, 0).revoked
  BY DEF Init, Issued, Row, IdleRefresh, IdleForm
<1>2. Promised /\ Rooted
  BY <1>1 DEF Init, Promised, Rooted, Refreshing
<1>3. OneAtATime
  BY <1>1 DEF Init, OneAtATime, Refreshing, Submitting
<1>4. (\A c \in Calls : RefreshFits(refresh[c])) /\ \A t \in Tabs : FormFits(form[t])
  BY <1>1 DEF Init, RefreshFits, FormFits
<1>5. CookieFits /\ Ended
  BY <1>1 DEF Init, CookieFits, Ended, Last
<1> QED
  BY <1>2, <1>3, <1>4, <1>5 DEF Init, CalmInv, Fits

LEMMA CalmStep == ASSUME IInv, CalmInv, [Next]_vars PROVE CalmInv'
<1>1. ASSUME NEW c \in Calls, CommitRotation(c) PROVE CalmInv'
  BY <1>1, RotationCalm, OldRotationCalm
<1>2. ASSUME NEW c \in Calls, Fetch(c) \/ Answered(c) PROVE CalmInv'
  <2>1. UNCHANGED <<session, cookie, access, promise, refresh, form, loggedOut, raced, losses>>
    BY <1>2 DEF Fetch, Answered, history
  <2> QED
    BY <2>1, ClockSteps DEF Issued
<1>3. ASSUME NEW i \in Issued, AccessExpires(i) \/ SessionAges(i) PROVE CalmInv'
  <2>1. /\ UNCHANGED <<cookie, access, promise, refresh, form, loggedOut, raced, losses>>
        /\ session' = session \/ session' = [session EXCEPT ![i].age = @ + 1]
    BY <1>3 DEF AccessExpires, SessionAges
  <2>2. CASE session' = session
    BY <2>1, <2>2, ClockSteps DEF Issued
  <2>3. CASE session' = [session EXCEPT ![i].age = @ + 1]
    <3>1. /\ Issued' = Issued
          /\ \A j \in Issued : /\ session'[j].login = session[j].login
                               /\ session'[j].revoked = session[j].revoked
                               /\ session[j].age > 0 => session'[j].age > 0
      BY <2>3 DEF IInv, SessionsOK, SessionRow, Issued
    <3> QED
      BY <2>1, <3>1, ClockSteps
  <2> QED
    BY <2>1, <2>2, <2>3
<1>4. CASE UNCHANGED vars
  BY <1>4, ClockSteps DEF vars, Issued
<1>5. ASSUME NEW c \in Calls, \/ ProfileFails(c) \/ Unauthorized(c) \/ LoadSession(c)
                              \/ TurnedAway(c) \/ Refreshed(c) \/ NotRefreshed(c)
      PROVE  CalmInv'
  BY <1>5, ProfileCalm, UnauthorizedCalm, LoadCalm, TurnAwayCalm, SettleCalm
<1>6. ASSUME NEW t \in Tabs, \/ Login(t) \/ CommitLogin(t) \/ LoggedIn(t)
                             \/ Logout(t) \/ CommitLogout(t) \/ LoggedOut(t) \/ SubmitFails(t)
      PROVE  CalmInv'
  BY <1>6, SubmitCalm, LoginCalm, LogoutCalm, AnsweredCalm
<1> QED
  BY <1>1, <1>2, <1>3, <1>4, <1>5, <1>6 DEF Next

LEMMA CalmInvariant == Spec => []CalmInv
BY CalmInit, CalmStep, InitInv, StepInv, PTL DEF Spec

(* A logout ends its login: once it is answered, every row that descends from
   the login is revoked, though it presents only the latest token
   (routes/auth.py:140-142). *)
THEOREM LogoutEndsTheLogin == Spec => []LogoutEnds
<1>1. CalmInv => LogoutEnds
  BY DEF CalmInv, Calm, Fits, Ended, LogoutEnds, Live
<1> QED
  BY <1>1, CalmInvariant, PTL

(* Calls that are answered 401 share one refresh, so none of them finds the
   cookie exchanged or revoked meanwhile: a tab drops its access token only
   when there is no cookie or its session has run out (lib/api.ts:277). *)
THEOREM StaysSignedIn == Spec => KeptSignedIn
<1>1. ASSUME IInv, CalmInv, [Next]_vars, access # 0, access' = 0, form' = form, ~raced, losses' = 0
      PROVE  cookie = 0 \/ session[cookie].age > 0
  <2>1. \E c \in Calls : refresh[c].pc = "refused" /\ UNCHANGED losses
    <3>1. ASSUME NEW c \in Calls, NotRefreshed(c)
          PROVE  refresh[c].pc = "refused" /\ UNCHANGED losses
      <4>1. losses + 1 # 0
        BY <1>1 DEF CalmInv
      <4>2. (refresh[c].pc = "refused" /\ UNCHANGED losses) \/ losses' = losses + 1
        BY <3>1 DEF NotRefreshed
      <4> QED
        BY <1>1, <4>1, <4>2
    <3>2. ASSUME NEW c \in Calls PROVE ~Refreshed(c)
      <4> SUFFICES ASSUME Refreshed(c) PROVE FALSE
        OBVIOUS
      <4>1. Calm /\ refresh[c].pc = "rotated" /\ refresh[c].new = 0
        BY <1>1 DEF Refreshed, history, Calm
      <4> QED
        BY <1>1, <4>1 DEF CalmInv, Fits, RefreshFits
    <3>3. ASSUME NEW t \in Tabs PROVE ~(LoggedIn(t) \/ LoggedOut(t) \/ SubmitFails(t))
      <4>1. IdleForm.pc = "idle"
        BY DEF IdleForm
      <4> QED
        BY <1>1, <4>1 DEF LoggedIn, LoggedOut, SubmitFails, IInv, BrowserOK
    <3>4. access' # access
      BY <1>1
    <3>5. ASSUME NEW c \in Calls PROVE ~ProfileFails(c)
      BY <1>1 DEF ProfileFails, CalmInv
    <3>6. ASSUME NEW c \in Calls, NotRefreshed(c) PROVE \E d \in Calls : refresh[d].pc = "refused" /\ UNCHANGED losses
      BY <3>1, <3>6
    <3>7. ASSUME NEW c \in Calls
          PROVE  ~(Fetch(c) \/ Answered(c) \/ Unauthorized(c) \/ LoadSession(c) \/ CommitRotation(c) \/ TurnedAway(c))
      BY <3>4 DEF Fetch, Answered, Unauthorized, LoadSession, CommitRotation, TurnedAway
    <3>8. ASSUME NEW t \in Tabs PROVE ~(Login(t) \/ CommitLogin(t) \/ Logout(t) \/ CommitLogout(t))
      BY <3>4 DEF Login, Logout, Submit, CommitLogin, CommitLogout
    <3>9. ASSUME NEW i \in Issued PROVE ~(AccessExpires(i) \/ SessionAges(i))
      BY <3>4 DEF AccessExpires, SessionAges
    <3>10. ~UNCHANGED vars
      BY <3>4 DEF vars
    <3> QED
      BY <1>1, <3>2, <3>3, <3>5, <3>6, <3>7, <3>8, <3>9, <3>10 DEF Next
  <2>2. PICK c \in Calls : refresh[c].pc = "refused" /\ UNCHANGED losses
    BY <2>1
  <2>3. Fits
    BY <1>1, <2>2 DEF CalmInv, Calm
  <2> QED
    BY <1>1, <2>2, <2>3 DEF Fits, RefreshFits
<1>2. IInv /\ CalmInv /\ [Next]_vars =>
        [access # 0 /\ access' = 0 /\ form' = form /\ ~raced /\ losses' = 0
           => cookie = 0 \/ session[cookie].age > 0]_vars
  BY <1>1
<1> QED
  BY <1>2, Invariant, CalmInvariant, PTL DEF Spec, KeptSignedIn
-----------------------------------------------------------------------------
(* RateLimiter. *)

All == UNION {admitted[p][s] : p \in Procs, s \in Scopes}

(* A check in Redis takes MaxDelay at most, and checks that do not overlap are
   one. *)
Timely == \A p \in Procs : Busy(p) => check[p].now <= clock /\ clock <= check[p].now + MaxDelay
OneCheck == ~concurrent => \A p, q \in Procs : Busy(p) /\ Busy(q) => p = q
Backends == backend = "memory" => \A p \in Procs : check[p].pc \in {"idle", "prune"}

(* Attempts are numbered. *)
Numbered ==
  /\ IsFiniteSet(All)
  /\ \A a \in All : a.id \in 1..Cardinality(All) /\ a.time <= clock
  /\ \A a, b \in All : a.id = b.id => a = b

(* What holds on both backends. *)
Base == LimiterTypeOK /\ Timely /\ OneCheck /\ Backends /\ Numbered

(* Memory: of the attempts since u, those that are still within the window are
   in the bucket, and not among its first k if the k-th is older. *)
Since(p, s, u) == {a \in admitted[p][s] : a.time >= u}
InBucket ==
  \A p \in Procs, s \in Scopes, u \in Nat :
    u + Window >= clock =>
      \A k \in 0..Len(bucket[p][s]) :
        (k = 0 \/ bucket[p][s][k] < u) => Cardinality(Since(p, s, u)) <= Len(bucket[p][s]) - k

(* Memory: what has become of the bucket since a client was refused. *)
Then(r) == r.at + r.seconds * Second
StillFull(r, b) == Len(b) = Limit[r.scope] /\ b[1] + Window >= r.at /\ b[1] + Window < Then(r)
Moved(r, b) == clock > r.at /\ (Len(b) < Limit[r.scope] \/ b[Len(b)] > r.at)
RefusedInMemory == \A r \in refused : StillFull(r, bucket[r.proc][r.scope]) \/ Moved(r, bucket[r.proc][r.scope])

MemoryInv == backend = "memory" => InBucket /\ RefusedInMemory

(* Redis: who counts before who adds. *)
Adding(s) == {p \in Procs : check[p].pc = "add" /\ check[p].scope = s}
SetBounded ==
  \A s \in Scopes :
    /\ IsFiniteSet(zset[s])
    /\ Cardinality(zset[s]) + Cardinality(Adding(s)) <= Limit[s] + Cardinality(Procs) - 1
    /\ ~concurrent => Cardinality(zset[s]) + Cardinality(Adding(s)) <= Limit[s]

(* Redis: an attempt that still counts has its entry. *)
Entered ==
  ~lost => \A p \in Procs, s \in Scopes : \A a \in admitted[p][s] :
    a.time + Window > clock => a \in zset[s]

Expiring(s) == \E p \in Procs : check[p].pc = "expire" /\ check[p].scope = s
Kept ==
  ~lost => \A s \in Scopes : Expiring(s) \/ \A e \in zset[s] : e.time + Window + Second <= expiry[s]

Past == \A s \in Scopes : \A e \in zset[s] : e.time <= clock
RedisInv == SetBounded /\ Past /\ Entered /\ Kept

(* Redis, one check at a time: what counted when the check under way began has
   its entry still. *)
Began ==
  ~concurrent /\ ~lost => \A p, q \in Procs, s \in Scopes : Busy(p) =>
    \A a \in admitted[q][s] :
      /\ a.time <= check[p].now
      /\ a.time + Window > check[p].now => a \in zset[s]
Fresh ==
  \A p \in Procs : check[p].pc \in {"count", "full", "add"} =>
     \A e \in zset[check[p].scope] : e.time + Window > check[p].now
StuckFull ==
  \A p \in Procs : check[p].pc = "full" => Cardinality(zset[check[p].scope]) >= Limit[check[p].scope]

(* The entries that still count when the client of refusal r may return. *)
Remaining(r, z) == {a \in z : a.time <= r.at /\ a.time + Window > Then(r)}
Stuck(r, z) ==
  /\ Cardinality(z) >= Limit[r.scope]
  /\ \A e \in z : e.time + Window > r.at
  /\ \E e \in z : e.time + Window <= Then(r)
Left(r, z) ==
  /\ clock > r.at
  /\ Cardinality(Remaining(r, z)) < Limit[r.scope]
  /\ \A p \in Procs : check[p].pc \in {"prune", "count", "full", "add"} /\ check[p].scope = r.scope => check[p].now > r.at
RefusedByRedis ==
  \A r \in refused :
    /\ \A p \in Procs : Busy(p) => check[p].now >= r.at
    /\ Stuck(r, zset[r.scope]) \/ Left(r, zset[r.scope])
RefusalInv == ~concurrent /\ ~lost => Fresh /\ StuckFull /\ RefusedByRedis

-----------------------------------------------------------------------------
(* What the operators of the limiter return. *)

(* The loop that prunes a bucket ends. *)
LEMMA LoopEnds ==
  ASSUME NEW times \in Seq(Nat), NEW now \in Nat
  PROVE  \E n \in 0..Len(times) : Stops(times, now, n)
<1> DEFINE L == Len(times)
           Stop(n) == n < L => times[n + 1] + Window >= now
           T == {U \in FiniteSubsetsOf(1..L) : \E n \in 0..L : U = 1..n /\ Stop(n)}
<1>1. L \in Nat /\ IsFiniteSet(1..L) /\ Window \in Nat
  BY FS_Interval, LimiterAssumption
<1>2. FiniteSubsetsOf(1..L) = SUBSET (1..L)
  BY <1>1, FS_FiniteSubsetsOfFinite, Zenon
<1>3. 1..L \in T
  BY <1>1, <1>2
<1>4. \E U \in T : \A V \in T : <<V, U>> \notin StrictSubsetOrdering(1..L)
  <2> HIDE DEF T
  <2>1. T # {} /\ T \subseteq FiniteSubsetsOf(1..L)
    BY <1>3 DEF T
  <2> QED
    BY <2>1, WFMin, FS_StrictSubsetOrderingWellFounded, Zenon
<1>5. PICK n \in 0..L : 1..n \in T /\ Stop(n) /\ \A V \in T : <<V, 1..n>> \notin StrictSubsetOrdering(1..L)
  BY <1>4, Zenon
<1>6. ASSUME NEW i \in 1..n, ~(times[i] + Window < now) PROVE FALSE
  <2>1. i - 1 \in 0..L /\ Stop(i - 1) /\ 1..(i - 1) \subseteq 1..L
    <3>1. i \in 1..L /\ times[i] \in Nat /\ (i - 1) + 1 = i /\ i - 1 < L
      BY <1>6, <1>5, <1>1
    <3>2. times[i] + Window >= now
      BY <1>6, <1>1, <3>1
    <3>3. Stop(i - 1)
      BY <3>1, <3>2
    <3> QED
      BY <1>1, <1>5, <3>1, <3>3
  <2>2. 1..(i - 1) \in T
    BY <2>1, <1>2
  <2>3. 1..(i - 1) \subseteq 1..n /\ 1..(i - 1) # 1..n /\ 1..n \in SUBSET (1..L) /\ 1..(i - 1) \in SUBSET (1..L)
    <3>1. i \in 1..n /\ i \notin 1..(i - 1)
      BY <1>5, <1>1
    <3> QED
      BY <1>5, <1>1, <3>1
  <2>4. <<1..(i - 1), 1..n>> \in StrictSubsetOrdering(1..L)
    BY <2>3 DEF StrictSubsetOrdering
  <2> QED
    BY <2>2, <2>4, <1>5
<1> QED
  BY <1>5, <1>6 DEF Stops

(* What is left of a bucket is its end. *)
LEMMA PrunedEnd ==
  ASSUME NEW S \in SUBSET Nat, NEW times \in Seq(S), NEW now \in Nat
  PROVE  \E n \in 0..Len(times) :
           /\ Stops(times, now, n)
           /\ Pruned(times, now) \in Seq(S)
           /\ Len(Pruned(times, now)) = Len(times) - n
           /\ \A k \in 1..(Len(times) - n) : Pruned(times, now)[k] = times[n + k]
<1>1. times \in Seq(Nat)
  <2>1. Len(times) \in Nat /\ times \in [1..Len(times) -> S]
    OBVIOUS
  <2>2. times \in [1..Len(times) -> Nat]
    BY <2>1
  <2> QED
    BY <2>1, <2>2
<1>2. PICK n \in 0..Len(times) : n = CHOOSE m \in 0..Len(times) : Stops(times, now, m)
  BY <1>1, LoopEnds
<1>3. n \in 0..Len(times) /\ Stops(times, now, n) /\ Pruned(times, now) = SubSeq(times, n + 1, Len(times))
  BY <1>1, <1>2, LoopEnds DEF Pruned
<1>4. /\ SubSeq(times, n + 1, Len(times)) \in Seq(S)
      /\ Len(SubSeq(times, n + 1, Len(times))) = Len(times) - n
      /\ \A k \in 1..(Len(times) - n) : SubSeq(times, n + 1, Len(times))[k] = times[n + k]
  <2>1. Len(times) \in Nat /\ n + 1 \in Int /\ \A i \in (n + 1)..Len(times) : times[i] \in S
    BY <1>3, ElementOfSeq
  <2>2. /\ SubSeq(times, n + 1, Len(times)) \in Seq(S)
        /\ Len(SubSeq(times, n + 1, Len(times))) = IF n + 1 <= Len(times) THEN Len(times) - (n + 1) + 1 ELSE 0
        /\ \A k \in 1..(Len(times) - (n + 1) + 1) : SubSeq(times, n + 1, Len(times))[k] = times[n + 1 + k - 1]
    BY <2>1, SubSeqProperties
  <2>3. ASSUME NEW k \in 1..(Len(times) - n)
        PROVE  SubSeq(times, n + 1, Len(times))[k] = times[n + k]
    <3>1. k \in 1..(Len(times) - (n + 1) + 1) /\ n + 1 + k - 1 = n + k
      BY <1>3, <2>1
    <3> QED
      BY <2>2, <3>1
  <2> QED
    BY <1>3, <2>1, <2>2, <2>3
<1> QED
  BY <1>3, <1>4

(* Retry-After lasts until the oldest entry has left the window. *)
LEMMA WaitsLongEnough ==
  ASSUME NEW now \in Nat, NEW oldest \in Nat
  PROVE  /\ RetryAfter(now, oldest) \in Nat \ {0}
         /\ oldest + Window < now + RetryAfter(now, oldest) * Second
<1>1. ASSUME NEW x \in Nat PROVE x \div Second \in Nat /\ (x \div Second + 1) * Second > x
  BY LimiterAssumption
<1>2. CASE now - oldest > Window
  BY <1>2, LimiterAssumption DEF RetryAfter
<1>3. CASE ~(now - oldest > Window)
  <2>1. PICK x \in Nat : x = Window - (now - oldest)
    BY <1>3, LimiterAssumption
  <2>2. RetryAfter(now, oldest) = x \div Second + 1
    BY <1>3, <2>1 DEF RetryAfter
  <2>3. PICK y \in Nat : y = (x \div Second + 1) * Second
    BY <1>1, LimiterAssumption
  <2>4. y > x
    BY <1>1, <2>3
  <2> QED
    <3>1. RetryAfter(now, oldest) \in Nat \ {0} /\ y = RetryAfter(now, oldest) * Second
      BY <1>1, <2>2, <2>3
    <3> QED
      BY <2>1, <2>4, <3>1, LimiterAssumption
<1> QED
  BY <1>2, <1>3

CheckType(T) == [pc : {"idle", "prune", "count", "full", "add", "expire"},
                 kind : {"plain", "login"}, scope : Scopes, now : T]

LEMMA Recording ==
  ASSUME Base, NEW p \in Procs, NEW time \in 0..clock, Record(p, time), clock' = clock
  PROVE  /\ NewId \in Nat /\ admitted' \in [Procs -> [Scopes -> SUBSET Attempt]]
         /\ Numbered'
         /\ \A b \in All : b.id # NewId
<1>1. PICK s \in Scopes : s = check[p].scope
  BY DEF Base, LimiterTypeOK
<1>2. Cardinality(All) \in Nat /\ NewId = Cardinality(All) + 1 /\ clock \in Nat
  BY FS_CardinalityType DEF Base, Numbered, All, NewId, LimiterTypeOK
<1>3. PICK a \in Attempt : a = [time |-> time, id |-> NewId]
  <2>1. [time |-> time, id |-> NewId] \in Attempt
    BY <1>2 DEF Attempt
  <2> QED
    BY <2>1, Zenon
<1>4. admitted' = [admitted EXCEPT ![p][s] = @ \cup {a}]
  BY <1>1, <1>3 DEF Record
<1>5. /\ admitted' \in [Procs -> [Scopes -> SUBSET Attempt]]
      /\ \A q \in Procs, r \in Scopes :
           admitted'[q][r] = IF q = p /\ r = s THEN admitted[p][s] \cup {a} ELSE admitted[q][r]
  BY <1>4 DEF Base, LimiterTypeOK
<1>6. All' = All \cup {a}
  <2>1. \A b : (b \in All) <=> \E q \in Procs, r \in Scopes : b \in admitted[q][r]
    BY DEF All
  <2>2. \A b : (b \in All') <=> \E q \in Procs, r \in Scopes : b \in admitted'[q][r]
    BY DEF All
  <2>3. \A b \in All' : b \in All \cup {a}
    BY <1>5, <2>1, <2>2
  <2>4. \A b \in All \cup {a} : b \in All'
    BY <1>5, <2>1, <2>2
  <2> QED
    BY <2>3, <2>4
<1>7. \A b \in All : b.id \in 1..Cardinality(All) /\ b.time <= clock
  BY DEF Base, Numbered
<1>8. a \notin All /\ \A b \in All : b.id # a.id
  BY <1>2, <1>3, <1>7
<1>9. IsFiniteSet(All') /\ Cardinality(All') = Cardinality(All) + 1
  BY <1>6, <1>8, FS_AddElement DEF Base, Numbered
<1>10. \A b \in All' : b.id \in 1..Cardinality(All') /\ b.time <= clock'
  BY <1>2, <1>3, <1>6, <1>7, <1>9
<1>11. \A b, c \in All' : b.id = c.id => b = c
  BY <1>6, <1>8 DEF Base, Numbered
<1> QED
  BY <1>2, <1>3, <1>5, <1>8, <1>9, <1>10, <1>11 DEF Numbered

LEMMA SameNumbers ==
  ASSUME Numbered, admitted' = admitted, clock' \in Nat, clock \in Nat, clock <= clock',
         admitted \in [Procs -> [Scopes -> SUBSET Attempt]]
  PROVE  Numbered'
<1>1. All' = All
  BY DEF All
<1>2. \A a \in All : a.time \in Nat
  BY DEF All, Attempt
<1> QED
  BY <1>1, <1>2 DEF Numbered

(* How a check moves on: it ends, goes to its next command, or the request
   goes on to its next limit. *)
LEMMA Moves ==
  ASSUME Base, NEW p \in Procs, Busy(p), clock' = clock, concurrent' = concurrent, backend' = backend,
         NEW d \in CheckType(0..clock), check' = [check EXCEPT ![p] = d],
         d.pc # "idle" => d.now \in {check[p].now, clock},
         backend = "memory" => d.pc \in {"idle", "prune"}
  PROVE  check' \in [Procs -> CheckType(0..clock')] /\ Timely' /\ OneCheck' /\ Backends'
<1>1. check \in [Procs -> CheckType(0..clock)] /\ clock \in Nat /\ MaxDelay \in Nat
  BY LimiterAssumption DEF Base, LimiterTypeOK, CheckType
<1>2. check' \in [Procs -> CheckType(0..clock')]
      /\ \A q \in Procs : check'[q] = IF q = p THEN d ELSE check[q]
  BY <1>1
<1>3. Timely'
  BY <1>1, <1>2 DEF Base, Timely, Busy, CheckType
<1>4. OneCheck'
  BY <1>2 DEF Base, OneCheck, Busy
<1>5. Backends'
  BY <1>2 DEF Base, Backends
<1> QED
  BY <1>2, <1>3, <1>4, <1>5

LEMMA Passing ==
  ASSUME Base, NEW p \in Procs, Passed(p)
  PROVE  \E d \in CheckType(0..clock) :
           /\ check' = [check EXCEPT ![p] = d]
           /\ d.pc = "idle" \/ (d.pc = "prune" /\ d.scope = "login" /\ d.now = clock)
<1>1. check \in [Procs -> CheckType(0..clock)] /\ clock \in Nat
  BY DEF Base, LimiterTypeOK, CheckType
<1>2. PICK c \in CheckType(0..clock) : c = check[p]
  BY <1>1
<1>3. CASE c.kind = "login" /\ c.scope = "general"
  <2>1. PICK d \in CheckType(0..clock) : d = [c EXCEPT !.pc = "prune", !.scope = "login", !.now = clock]
    <3>1. clock \in 0..clock /\ "login" \in Scopes
      BY <1>1 DEF Scopes
    <3>2. [c EXCEPT !.pc = "prune", !.scope = "login", !.now = clock] \in CheckType(0..clock)
      BY <1>2, <3>1 DEF CheckType
    <3> QED
      BY <3>2, Zenon
  <2>2. check' = [check EXCEPT ![p] = d]
    BY <1>1, <1>2, <1>3, <2>1 DEF Passed
  <2>3. d.pc = "prune" /\ d.scope = "login" /\ d.now = clock
    BY <2>1 DEF CheckType
  <2> QED
    BY <2>2, <2>3
<1>4. CASE ~(c.kind = "login" /\ c.scope = "general")
  <2>1. Idle \in CheckType(0..clock) /\ Idle.pc = "idle"
    BY <1>1 DEF CheckType, Idle, Scopes
  <2>2. check' = [check EXCEPT ![p] = Idle]
    BY <1>1, <1>2, <1>4 DEF Passed
  <2> QED
    BY <2>1, <2>2
<1> QED
  BY <1>3, <1>4

-----------------------------------------------------------------------------
(* The base invariant. *)

LEMMA BaseInit == ASSUME LimiterInit PROVE Base
<1>1. /\ clock = 0 /\ bucket = [p \in Procs |-> [s \in Scopes |-> << >>]]
      /\ check = [p \in Procs |-> Idle] /\ admitted = [p \in Procs |-> [s \in Scopes |-> {}]]
  BY DEF LimiterInit
<1>2. bucket \in [Procs -> [Scopes -> Seq(0..clock)]] /\ \A p \in Procs, s \in Scopes : Len(bucket[p][s]) <= Limit[s]
  <2>1. << >> \in Seq(0..clock) /\ Len(<< >>) = 0
    OBVIOUS
  <2>2. \A p \in Procs, s \in Scopes : bucket[p][s] = << >> /\ Limit[s] \in Nat
    BY <1>1, LimiterAssumption
  <2> QED
    BY <1>1, <2>1, <2>2
<1>3. check \in [Procs -> CheckType(0..clock)] /\ \A p \in Procs : check[p].pc = "idle"
  <2>1. Idle \in CheckType(0..clock) /\ Idle.pc = "idle"
    BY <1>1 DEF Idle, CheckType, Scopes
  <2> QED
    BY <1>1, <2>1
<1>4. LimiterTypeOK
  <2>1. concurrent \in BOOLEAN /\ lost \in BOOLEAN
    BY DEF LimiterInit
  <2>2. /\ clock \in 0..MaxTime /\ zset \in [Scopes -> SUBSET Attempt] /\ expiry \in [Scopes -> Nat]
        /\ admitted \in [Procs -> [Scopes -> SUBSET Attempt]] /\ requests \in Nat /\ faults \in Nat
    BY LimiterAssumption DEF LimiterInit
  <2>3. backend \in {"memory", "redis"} /\ refused = {}
    BY DEF LimiterInit
  <2> QED
    BY <1>2, <1>3, <2>1, <2>2, <2>3, Zenon DEF LimiterTypeOK, CheckType
<1>5. All = {}
  BY <1>1 DEF All
<1>6. Numbered
  BY <1>5, FS_EmptySet DEF Numbered
<1> QED
  BY <1>3, <1>4, <1>6 DEF Base, Timely, OneCheck, Backends, Busy

LEMMA ArriveBase ==
  ASSUME Base, NEW p \in Procs, NEW kind \in {"plain", "login"}, Arrive(p, kind)
  PROVE  Base'
<1>1. /\ clock \in Nat /\ check \in [Procs -> CheckType(0..clock)] /\ MaxDelay \in Nat /\ ~Busy(p)
      /\ UNCHANGED <<backend, clock, bucket, zset, expiry, admitted, refused, lost, faults>>
      /\ requests' = requests + 1
      /\ concurrent' = (concurrent \/ \E q \in Procs : Busy(q))
  BY LimiterAssumption DEF Base, LimiterTypeOK, CheckType, Arrive
<1>2. PICK d \in CheckType(0..clock) : /\ check' = [check EXCEPT ![p] = d]
                                       /\ d.pc = "prune" /\ d.now = clock
  <2>1. [pc |-> "prune", kind |-> kind, scope |-> "general", now |-> clock] \in CheckType(0..clock)
    <3>1. clock \in 0..clock /\ "general" \in Scopes
      BY <1>1 DEF Scopes
    <3> QED
      BY <3>1 DEF CheckType
  <2> QED
    BY <2>1 DEF Arrive
<1>3. check' \in [Procs -> CheckType(0..clock)] /\ \A q \in Procs : check'[q] = IF q = p THEN d ELSE check[q]
  BY <1>1, <1>2
<1>4. LimiterTypeOK'
  <2>1. concurrent' \in BOOLEAN
    BY <1>1, Zenon
  <2>2. requests' \in Nat
    BY <1>1 DEF Base, LimiterTypeOK
  <2> QED
    BY <1>1, <1>3, <2>1, <2>2, Zenon DEF Base, LimiterTypeOK, CheckType
<1>5. Timely'
  BY <1>1, <1>2, <1>3 DEF Base, Timely, Busy
<1>6. OneCheck'
  BY <1>1, <1>3 DEF Base, OneCheck, Busy
<1>7. Backends'
  BY <1>1, <1>2, <1>3 DEF Base, Backends
<1>8. Numbered'
  BY <1>1, SameNumbers DEF Base, LimiterTypeOK
<1> QED
  BY <1>4, <1>5, <1>6, <1>7, <1>8 DEF Base

(* What CheckMemory makes of a bucket. *)
LEMMA MemoryKeeps ==
  ASSUME Base, NEW p \in Procs, CheckMemory(p)
  PROVE  \E s \in Scopes, n \in Nat, kept \in Seq(0..clock) :
           /\ s = check[p].scope /\ kept = Pruned(bucket[p][s], clock)
           /\ n \in 0..Len(bucket[p][s]) /\ Stops(bucket[p][s], clock, n)
           /\ Len(kept) = Len(bucket[p][s]) - n
           /\ \A k \in 1..Len(kept) : kept[k] = bucket[p][s][n + k]
<1>1. clock \in Nat /\ bucket \in [Procs -> [Scopes -> Seq(0..clock)]] /\ check[p].scope \in Scopes
  BY DEF Base, LimiterTypeOK
<1>2. PICK s \in Scopes, b \in Seq(0..clock) : s = check[p].scope /\ b = bucket[p][s]
  BY <1>1
<1>3. 0..clock \in SUBSET Nat /\ Len(b) \in Nat
  BY <1>1
<1>4. PICK n \in 0..Len(b) : 
           /\ Stops(b, clock, n)
           /\ Pruned(b, clock) \in Seq(0..clock)
           /\ Len(Pruned(b, clock)) = Len(b) - n
           /\ \A k \in 1..(Len(b) - n) : Pruned(b, clock)[k] = b[n + k]
  BY <1>1, <1>3, PrunedEnd
<1>5. PICK kept \in Seq(0..clock) : kept = Pruned(b, clock)
  BY <1>4, Zenon
<1>6. /\ s = check[p].scope /\ kept = Pruned(bucket[p][s], clock)
      /\ n \in 0..Len(bucket[p][s]) /\ Stops(bucket[p][s], clock, n)
      /\ Len(kept) = Len(bucket[p][s]) - n
      /\ \A k \in 1..Len(kept) : kept[k] = bucket[p][s][n + k]
  BY <1>2, <1>4, <1>5
<1>7. n \in Nat
  BY <1>3, <1>4
<1> QED
  BY <1>6, <1>7, Zenon

LEMMA MemoryRefuses ==
  ASSUME Base, NEW p \in Procs, CheckMemory(p), NEW s \in Scopes, s = check[p].scope,
         NEW kept, kept = Pruned(bucket[p][s], clock), Len(kept) >= Limit[s]
  PROVE  /\ bucket' = [bucket EXCEPT ![p][s] = kept] /\ admitted' = admitted
         /\ refused' = {[proc |-> p, scope |-> s, at |-> clock, seconds |-> RetryAfter(clock, kept[1])]}
         /\ check' = [check EXCEPT ![p] = Idle]
BY Zenon DEF CheckMemory

LEMMA MemoryAdmits ==
  ASSUME Base, NEW p \in Procs, CheckMemory(p), NEW s \in Scopes, s = check[p].scope,
         NEW kept, kept = Pruned(bucket[p][s], clock), ~(Len(kept) >= Limit[s])
  PROVE  bucket' = [bucket EXCEPT ![p][s] = Append(kept, clock)] /\ Record(p, clock) /\ Passed(p) /\ refused' = refused
BY Zenon DEF CheckMemory

LEMMA MemoryBase ==
  ASSUME Base, NEW p \in Procs, CheckMemory(p)
  PROVE  Base'
<1>1. /\ clock \in Nat /\ check \in [Procs -> CheckType(0..clock)]
      /\ Limit \in [Scopes -> Nat \ {0}] /\ bucket \in [Procs -> [Scopes -> Seq(0..clock)]]
      /\ backend = "memory" /\ check[p].pc = "prune"
      /\ UNCHANGED <<backend, clock, zset, expiry, concurrent, lost, requests, faults>>
  BY LimiterAssumption DEF Base, LimiterTypeOK, CheckType, CheckMemory
<1>2. PICK s \in Scopes, n \in Nat, kept \in Seq(0..clock) :
           /\ s = check[p].scope /\ kept = Pruned(bucket[p][s], clock)
           /\ n \in 0..Len(bucket[p][s]) /\ Stops(bucket[p][s], clock, n)
           /\ Len(kept) = Len(bucket[p][s]) - n
  BY MemoryKeeps
<1>3. PICK b \in Seq(0..clock) : /\ bucket' = [bucket EXCEPT ![p][s] = b]
                                 /\ Len(b) <= Limit[s]
  <2>1. Len(bucket[p][s]) <= Limit[s] /\ Len(bucket[p][s]) \in Nat /\ Limit[s] \in Nat
    BY <1>1 DEF Base, LimiterTypeOK
  <2>2. CASE Len(kept) >= Limit[s]
    <3>1. bucket' = [bucket EXCEPT ![p][s] = kept]
      BY <1>2, <2>2, MemoryRefuses, Zenon
    <3>2. Len(kept) = Len(bucket[p][s]) - n
      BY <1>2, Zenon
    <3>3. Len(kept) <= Limit[s]
      BY <2>1, <3>2
    <3> QED
      BY <3>1, <3>3, Zenon
  <2>3. CASE ~(Len(kept) >= Limit[s])
    <3>1. bucket' = [bucket EXCEPT ![p][s] = Append(kept, clock)]
      BY <1>2, <2>3, MemoryAdmits
    <3>2. Append(kept, clock) \in Seq(0..clock) /\ Len(Append(kept, clock)) = Len(kept) + 1
      BY <1>1
    <3>3. Len(kept) \in Nat
      BY <1>2, <2>1
    <3>4. Len(Append(kept, clock)) <= Limit[s]
      BY <2>1, <2>3, <3>2, <3>3
    <3> QED
      BY <3>1, <3>2, <3>4, Zenon
  <2> QED
    BY <2>2, <2>3
<1>4. /\ bucket' \in [Procs -> [Scopes -> Seq(0..clock)]]
      /\ \A q \in Procs, r \in Scopes : Len(bucket'[q][r]) <= Limit[r]
  BY <1>1, <1>3 DEF Base, LimiterTypeOK
<1>5. /\ refused' \subseteq [proc : Procs, scope : Scopes, at : 0..clock, seconds : Nat \ {0}]
      /\ admitted' \in [Procs -> [Scopes -> SUBSET Attempt]] /\ Numbered'
      /\ \E d \in CheckType(0..clock) : /\ check' = [check EXCEPT ![p] = d]
                                        /\ d.pc = "idle" \/ (d.pc = "prune" /\ d.now = clock)
  <2>1. CASE Len(kept) >= Limit[s]
    <3>1. /\ admitted' = admitted /\ check' = [check EXCEPT ![p] = Idle]
          /\ refused' = {[proc |-> p, scope |-> s, at |-> clock, seconds |-> RetryAfter(clock, kept[1])]}
      BY <1>2, <2>1, MemoryRefuses
    <3>2. Idle \in CheckType(0..clock) /\ Idle.pc = "idle"
      BY <1>1 DEF Idle, CheckType, Scopes
    <3>3. PICK o \in 0..clock : o = kept[1]
      <4>1. kept[1] \in 0..clock
        <5>1. PICK L \in Nat : L = Len(kept)
          BY <1>2
        <5>2. PICK l \in Nat \ {0} : l = Limit[s]
          BY <1>1
        <5>3. 1 \in 1..L
          <6>1. L >= l
            BY <2>1, <5>1, <5>2, Zenon
          <6> QED
            BY <6>1
        <5>4. 1 \in 1..Len(kept)
          BY <5>1, <5>3, Zenon
        <5> QED
          BY <5>4, ElementOfSeq, Zenon
      <4> QED
        BY <4>1, Zenon
    <3>4. RetryAfter(clock, kept[1]) \in Nat \ {0}
      <4>1. o \in Nat /\ o <= clock
        BY <1>1, <3>3
      <4>2. RetryAfter(clock, o) \in Nat \ {0}
        BY <1>1, <4>1, WaitsLongEnough
      <4> QED
        BY <3>3, <4>2, Zenon
    <3>5. Numbered'
      BY <1>1, <3>1, SameNumbers DEF Base, LimiterTypeOK
    <3>6. [proc |-> p, scope |-> s, at |-> clock, seconds |-> RetryAfter(clock, kept[1])]
             \in [proc : Procs, scope : Scopes, at : 0..clock, seconds : Nat \ {0}]
      BY <1>1, <3>4
    <3> QED
      BY <3>1, <3>2, <3>5, <3>6 DEF Base, LimiterTypeOK
  <2>2. CASE ~(Len(kept) >= Limit[s])
    <3>1. Record(p, clock) /\ Passed(p) /\ refused' = refused
      BY <1>2, <2>2, MemoryAdmits
    <3>2. clock \in 0..clock
      BY <1>1
    <3> QED
      BY <1>1, <3>1, <3>2, Recording, Passing DEF Base, LimiterTypeOK
  <2> QED
    BY <2>1, <2>2
<1>6. check' \in [Procs -> CheckType(0..clock')] /\ Timely' /\ OneCheck' /\ Backends'
  BY <1>1, <1>5, Moves DEF Busy
<1> QED
  <2>1. LimiterTypeOK'
    BY <1>1, <1>4, <1>5, <1>6 DEF Base, LimiterTypeOK, CheckType
  <2> QED
    BY <1>5, <1>6, <2>1 DEF Base

(* The commands of a check in Redis. *)
LEMMA CommandBase ==
  ASSUME Base, NEW p \in Procs, Busy(p), NEW d \in CheckType(0..clock), check' = [check EXCEPT ![p] = d],
         d.pc = "idle" \/ d.now \in {check[p].now, clock},
         backend = "redis" \/ d.pc = "idle",
         zset' \in [Scopes -> SUBSET Attempt], expiry' \in [Scopes -> Nat], faults' \in Nat,
         lost' \in BOOLEAN,
         refused' \subseteq [proc : Procs, scope : Scopes, at : 0..clock, seconds : Nat \ {0}],
         UNCHANGED <<backend, clock, bucket, concurrent, requests>>,
         admitted' = admitted \/ \E time \in 0..clock : Record(p, time)
  PROVE  Base'
<1>1. admitted' \in [Procs -> [Scopes -> SUBSET Attempt]] /\ Numbered'
  <2>1. CASE admitted' = admitted
    <3>1. clock \in Nat /\ clock' = clock /\ admitted \in [Procs -> [Scopes -> SUBSET Attempt]]
      BY DEF Base, LimiterTypeOK
    <3>2. Numbered'
      BY <2>1, <3>1, SameNumbers DEF Base
    <3> QED
      BY <2>1, <3>1, <3>2
  <2>2. CASE \E time \in 0..clock : Record(p, time)
    BY <2>2, Recording
  <2> QED
    BY <2>1, <2>2
<1>2. check' \in [Procs -> CheckType(0..clock')] /\ Timely' /\ OneCheck' /\ Backends'
  BY Moves
<1>3. LimiterTypeOK'
  BY <1>1, <1>2, Zenon DEF Base, LimiterTypeOK, CheckType
<1> QED
  BY <1>1, <1>2, <1>3 DEF Base

LEMMA Frame ==
  ASSUME Base
  PROVE  /\ clock \in Nat /\ check \in [Procs -> CheckType(0..clock)]
         /\ zset \in [Scopes -> SUBSET Attempt] /\ expiry \in [Scopes -> Nat]
         /\ bucket \in [Procs -> [Scopes -> Seq(0..clock)]]
         /\ admitted \in [Procs -> [Scopes -> SUBSET Attempt]] /\ faults \in Nat
         /\ Limit \in [Scopes -> Nat \ {0}] /\ Window \in Nat \ {0} /\ Second \in Nat \ {0}
         /\ MaxDelay \in Nat /\ MaxDelay < Window
         /\ \A p \in Procs : check[p].pc # "idle" <=> Busy(p)
         /\ \A p \in Procs : check[p].now \in Nat /\ check[p].now <= clock /\ check[p].scope \in Scopes
BY LimiterAssumption DEF Base, LimiterTypeOK, CheckType, Busy

(* A check that moves to its next command. *)
LEMMA NextCommand ==
  ASSUME Base, NEW p \in Procs, NEW x \in {"count", "full", "add", "expire"}, check' = [check EXCEPT ![p].pc = x]
  PROVE  \E d \in CheckType(0..clock) :
           /\ check' = [check EXCEPT ![p] = d]
           /\ d.pc = x /\ d.now = check[p].now /\ d.scope = check[p].scope
<1>1. check \in [Procs -> CheckType(0..clock)]
  BY Frame
<1>2. PICK c \in CheckType(0..clock) : c = check[p]
  BY <1>1
<1>3. PICK d \in CheckType(0..clock) : d = [c EXCEPT !.pc = x]
  <2>1. [c EXCEPT !.pc = x] \in CheckType(0..clock)
    BY <1>2 DEF CheckType
  <2> QED
    BY <2>1, Zenon
<1>4. d.pc = x /\ d.now = c.now /\ d.scope = c.scope
  BY <1>3 DEF CheckType
<1>5. check' = [check EXCEPT ![p] = d]
  BY <1>1, <1>2, <1>3
<1> QED
  BY <1>2, <1>4, <1>5

LEMMA PruneMoves ==
  ASSUME Base, NEW p \in Procs, Prune(p)
  PROVE  \E d \in CheckType(0..clock), s \in Scopes :
           /\ check' = [check EXCEPT ![p] = d]
           /\ s = check[p].scope /\ d.pc = "count" /\ d.now = check[p].now /\ d.scope = s
           /\ zset' = [zset EXCEPT ![s] = {a \in @ : a.time + Window > d.now}]
           /\ expiry' \in [Scopes -> Nat]
           /\ \A t \in Scopes : expiry'[t] = expiry[t] \/ zset'[t] = {}
<1>1. check' = [check EXCEPT ![p].pc = "count"]
  BY DEF Prune
<1>2. PICK d \in CheckType(0..clock) :
           /\ check' = [check EXCEPT ![p] = d]
           /\ d.pc = "count" /\ d.now = check[p].now /\ d.scope = check[p].scope
  BY <1>1, NextCommand
<1>3. check[p].scope \in Scopes
  BY Frame
<1>4. PICK kept : kept = {a \in zset[check[p].scope] : a.time + Window > check[p].now}
  OBVIOUS
<1>5. /\ zset' = [zset EXCEPT ![check[p].scope] = kept]
      /\ expiry' = [expiry EXCEPT ![check[p].scope] = IF kept = {} THEN 0 ELSE @]
  BY <1>4 DEF Prune
<1>6. /\ expiry' \in [Scopes -> Nat]
      /\ \A t \in Scopes : expiry'[t] = expiry[t] \/ zset'[t] = {}
  BY <1>3, <1>5, Frame
<1>7. zset' = [zset EXCEPT ![check[p].scope] = {a \in @ : a.time + Window > check[p].now}]
  BY <1>3, <1>4, <1>5
<1> QED
  BY <1>2, <1>3, <1>6, <1>7

LEMMA CountMoves ==
  ASSUME Base, NEW p \in Procs, Count(p)
  PROVE  \E d \in CheckType(0..clock), s \in Scopes :
           /\ check' = [check EXCEPT ![p] = d]
           /\ s = check[p].scope /\ d.now = check[p].now /\ d.scope = s
           /\ IF Cardinality(zset[s]) >= Limit[s] THEN d.pc = "full" ELSE d.pc = "add"
<1>1. PICK x \in {"count", "full", "add", "expire"} : x = IF Full(p) THEN "full" ELSE "add"
  OBVIOUS
<1>2. check' = [check EXCEPT ![p].pc = x]
  BY <1>1 DEF Count
<1>3. PICK d \in CheckType(0..clock) :
           /\ check' = [check EXCEPT ![p] = d]
           /\ d.pc = x /\ d.now = check[p].now /\ d.scope = check[p].scope
  BY <1>2, NextCommand
<1>4. PICK s \in Scopes : s = check[p].scope
  BY Frame
<1>5. IF Cardinality(zset[s]) >= Limit[s] THEN x = "full" ELSE x = "add"
  BY <1>1, <1>4 DEF Full
<1> QED
  BY <1>3, <1>4, <1>5

LEMMA OldestMoves ==
  ASSUME Base, NEW p \in Procs, Oldest(p)
  PROVE  \E d \in CheckType(0..clock), s \in Scopes, o \in Nat :
           /\ check' = [check EXCEPT ![p] = d] /\ d.pc = "idle"
           /\ s = check[p].scope
           /\ refused' = {[proc |-> p, scope |-> s, at |-> check[p].now, seconds |-> RetryAfter(check[p].now, o)]}
           /\ (zset[s] = {} /\ o = check[p].now) \/ \E a \in zset[s] : a.time = o
<1>1. Idle \in CheckType(0..clock) /\ Idle.pc = "idle"
  BY Frame DEF Idle, CheckType, Scopes
<1>2. PICK s \in Scopes : s = check[p].scope
  BY Frame
<1>3. check[p].now \in Nat /\ \A a \in zset[s] : a.time \in Nat
  BY <1>2, Frame DEF Attempt
<1>4. PICK o \in Nat : Refuse(p, o) /\ ((zset[s] = {} /\ o = check[p].now) \/ \E a \in zset[s] : a.time = o)
  BY <1>2, <1>3 DEF Oldest
<1>5. /\ refused' = {[proc |-> p, scope |-> s, at |-> check[p].now, seconds |-> RetryAfter(check[p].now, o)]}
      /\ check' = [check EXCEPT ![p] = Idle]
  BY <1>2, <1>4 DEF Refuse
<1> QED
  BY <1>1, <1>2, <1>4, <1>5

LEMMA AddMoves ==
  ASSUME Base, NEW p \in Procs, Add(p)
  PROVE  \E d \in CheckType(0..clock), s \in Scopes, e \in Attempt :
           /\ check' = [check EXCEPT ![p] = d]
           /\ s = check[p].scope /\ d.pc = "expire" /\ d.now = check[p].now /\ d.scope = s
           /\ e = [time |-> check[p].now, id |-> NewId]
           /\ zset' = [zset EXCEPT ![s] = @ \cup {e}]
           /\ Record(p, check[p].now)
<1>1. check' = [check EXCEPT ![p].pc = "expire"] /\ Record(p, check[p].now) /\ clock' = clock
      /\ zset' = [zset EXCEPT ![check[p].scope] = @ \cup {[time |-> check[p].now, id |-> NewId]}]
  BY DEF Add
<1>2. PICK d \in CheckType(0..clock) :
           /\ check' = [check EXCEPT ![p] = d]
           /\ d.pc = "expire" /\ d.now = check[p].now /\ d.scope = check[p].scope
  BY <1>1, NextCommand
<1>3. PICK s \in Scopes : s = check[p].scope
  BY Frame
<1>4. NewId \in Nat
  <2>1. check[p].now \in 0..clock
    BY Frame
  <2> QED
    BY <1>1, <2>1, Recording
<1>5. PICK e \in Attempt : e = [time |-> check[p].now, id |-> NewId]
  <2>1. [time |-> check[p].now, id |-> NewId] \in Attempt
    BY <1>4, Frame DEF Attempt
  <2> QED
    BY <2>1, Zenon
<1> QED
  BY <1>1, <1>2, <1>3, <1>5

LEMMA RedisBase ==
  ASSUME Base, NEW p \in Procs,
         Prune(p) \/ Count(p) \/ Oldest(p) \/ Add(p) \/ Expire(p) \/ RedisFails(p)
  PROVE  Base'
<1>1. CASE Prune(p)
  <2>1. PICK d \in CheckType(0..clock), s \in Scopes :
           /\ check' = [check EXCEPT ![p] = d]
           /\ d.now = check[p].now
           /\ zset' = [zset EXCEPT ![s] = {a \in @ : a.time + Window > d.now}]
           /\ expiry' \in [Scopes -> Nat]
    BY <1>1, PruneMoves
  <2>2. zset' \in [Scopes -> SUBSET Attempt]
    BY <2>1, Frame
  <2>3. /\ Busy(p) /\ backend = "redis"
        /\ UNCHANGED <<backend, clock, bucket, admitted, refused, concurrent, lost, requests, faults>>
    BY <1>1 DEF Prune, Busy
  <2> QED
    BY <2>1, <2>2, <2>3, CommandBase DEF Base, LimiterTypeOK
<1>2. CASE Count(p)
  <2>1. PICK d \in CheckType(0..clock) : check' = [check EXCEPT ![p] = d] /\ d.now = check[p].now
    BY <1>2, CountMoves
  <2>2. /\ Busy(p) /\ backend = "redis"
        /\ UNCHANGED <<backend, clock, bucket, zset, expiry, admitted, refused, concurrent, lost, requests, faults>>
    BY <1>2 DEF Count, Busy, Base, Backends, LimiterTypeOK
  <2> QED
    BY <2>1, <2>2, CommandBase DEF Base, LimiterTypeOK
<1>3. CASE Oldest(p)
  <2>1. PICK d \in CheckType(0..clock), s \in Scopes, o \in Nat :
           /\ check' = [check EXCEPT ![p] = d] /\ d.pc = "idle"
           /\ refused' = {[proc |-> p, scope |-> s, at |-> check[p].now, seconds |-> RetryAfter(check[p].now, o)]}
    BY <1>3, OldestMoves
  <2>2. check[p].now \in 0..clock /\ RetryAfter(check[p].now, o) \in Nat \ {0}
    <3>1. check[p].now \in Nat /\ check[p].now \in 0..clock
      BY Frame
    <3>2. \A t \in Nat : RetryAfter(t, o) \in Nat \ {0}
      BY WaitsLongEnough
    <3> QED
      BY <3>1, <3>2
  <2>3. refused' \subseteq [proc : Procs, scope : Scopes, at : 0..clock, seconds : Nat \ {0}]
    BY <2>1, <2>2
  <2>4. /\ Busy(p)
        /\ UNCHANGED <<backend, clock, bucket, zset, expiry, admitted, concurrent, lost, requests, faults>>
    BY <1>3 DEF Oldest, Busy
  <2> QED
    BY <2>1, <2>3, <2>4, CommandBase DEF Base, LimiterTypeOK
<1>4. CASE Add(p)
  <2>1. PICK d \in CheckType(0..clock), s \in Scopes, e \in Attempt :
           /\ check' = [check EXCEPT ![p] = d]
           /\ d.now = check[p].now
           /\ zset' = [zset EXCEPT ![s] = @ \cup {e}]
           /\ Record(p, check[p].now)
    BY <1>4, AddMoves
  <2>4. check[p].now \in 0..clock
    BY Frame
  <2>2. zset' \in [Scopes -> SUBSET Attempt]
    BY <2>1, Frame
  <2>3. /\ Busy(p) /\ backend = "redis"
        /\ UNCHANGED <<backend, clock, bucket, expiry, refused, concurrent, lost, requests, faults>>
    BY <1>4 DEF Add, Busy, Base, Backends, LimiterTypeOK
  <2> QED
    BY <2>1, <2>2, <2>3, <2>4, CommandBase DEF Base, LimiterTypeOK
<1>5. CASE Expire(p)
  <2>1. PICK d \in CheckType(0..clock) :
           /\ check' = [check EXCEPT ![p] = d]
           /\ d.pc = "idle" \/ d.now = clock
    BY <1>5, Passing DEF Expire
  <2>2. /\ Busy(p) /\ backend = "redis" /\ check[p].scope \in Scopes
        /\ expiry' = [expiry EXCEPT ![check[p].scope] = IF zset[check[p].scope] = {} THEN 0 ELSE clock + Window + Second]
        /\ UNCHANGED <<backend, clock, bucket, zset, admitted, refused, concurrent, lost, requests, faults>>
    BY <1>5 DEF Expire, Busy, Base, Backends, LimiterTypeOK
  <2>3. expiry' \in [Scopes -> Nat]
    BY <2>2, Frame
  <2> QED
    BY <2>1, <2>2, <2>3, CommandBase DEF Base, LimiterTypeOK
<1>6. CASE RedisFails(p)
  <2>1. Idle \in CheckType(0..clock) /\ Idle.pc = "idle"
    BY Frame DEF Idle, CheckType, Scopes
  <2>2. /\ Busy(p) /\ check' = [check EXCEPT ![p] = Idle] /\ faults' \in Nat /\ lost' = TRUE
        /\ UNCHANGED <<backend, clock, bucket, zset, expiry, admitted, refused, concurrent, requests>>
    BY <1>6, Frame DEF RedisFails
  <2> QED
    BY <2>1, <2>2, CommandBase DEF Base, LimiterTypeOK
<1> QED
  BY <1>1, <1>2, <1>3, <1>4, <1>5, <1>6

LEMMA TickBase == ASSUME Base, Tick PROVE Base'
<1>1. /\ clock' = clock + 1 /\ clock' \in 0..MaxTime
      /\ zset' = [s \in Scopes |-> IF expiry[s] = clock + 1 THEN {} ELSE zset[s]]
      /\ expiry' = [s \in Scopes |-> IF expiry[s] = clock + 1 THEN 0 ELSE expiry[s]]
      /\ \A p \in Procs : Busy(p) => clock - check[p].now < MaxDelay
      /\ UNCHANGED <<backend, bucket, check, admitted, refused, concurrent, requests, faults>>
  BY LimiterAssumption DEF Tick, Base, LimiterTypeOK
<1>2. zset' \in [Scopes -> SUBSET Attempt] /\ expiry' \in [Scopes -> Nat]
  BY <1>1, Frame
<1>3. check' \in [Procs -> CheckType(0..clock')]
  <2>1. 0..clock \subseteq 0..clock'
    BY <1>1, Frame
  <2>2. CheckType(0..clock) \subseteq CheckType(0..clock')
    BY <2>1 DEF CheckType
  <2> QED
    BY <1>1, <2>2, Frame
<1>4. bucket' \in [Procs -> [Scopes -> Seq(0..clock')]]
  <2>1. 0..clock \subseteq 0..clock'
    BY <1>1, Frame
  <2>2. \A b \in Seq(0..clock) : b \in Seq(0..clock')
    BY <2>1, SeqMonotonic
  <2>3. [Scopes -> Seq(0..clock)] \subseteq [Scopes -> Seq(0..clock')]
    BY <2>2
  <2> QED
    BY <1>1, <2>3, Frame
<1>5. refused' \subseteq [proc : Procs, scope : Scopes, at : 0..clock', seconds : Nat \ {0}]
  BY <1>1, Frame DEF Base, LimiterTypeOK
<1>6. lost' \in BOOLEAN
  BY Zenon DEF Tick
<1>7. Timely'
  BY <1>1, Frame DEF Base, Timely, Busy
<1>8. Numbered'
  BY <1>1, Frame, SameNumbers DEF Base
<1>9. OneCheck' /\ Backends'
  BY <1>1 DEF Base, OneCheck, Backends, Busy
<1>10. LimiterTypeOK'
  BY <1>1, <1>2, <1>3, <1>4, <1>5, <1>6, Zenon DEF Base, LimiterTypeOK, CheckType
<1> QED
  BY <1>7, <1>8, <1>9, <1>10 DEF Base

LEMMA BaseStep == ASSUME Base, [LimiterNext]_limiterVars PROVE Base'
<1>1. CASE UNCHANGED limiterVars
  <2>1. UNCHANGED <<backend, clock, bucket, zset, expiry, check, admitted, refused, concurrent, lost, requests, faults>>
    BY <1>1 DEF limiterVars
  <2>2. LimiterTypeOK'
    BY <2>1, Zenon DEF Base, LimiterTypeOK
  <2>3. Numbered'
    BY <2>1, Frame, SameNumbers DEF Base
  <2> QED
    BY <2>1, <2>2, <2>3 DEF Base, Timely, OneCheck, Backends, Busy
<1>2. ASSUME NEW p \in Procs, NEW kind \in {"plain", "login"}, Arrive(p, kind) PROVE Base'
  BY <1>2, ArriveBase
<1>3. ASSUME NEW p \in Procs,
             CheckMemory(p) \/ Prune(p) \/ Count(p) \/ Oldest(p) \/ Add(p) \/ Expire(p) \/ RedisFails(p)
      PROVE  Base'
  BY <1>3, MemoryBase, RedisBase
<1>4. CASE Tick
  BY <1>4, TickBase
<1> QED
  BY <1>1, <1>2, <1>3, <1>4 DEF LimiterNext

LEMMA BaseInvariant == LimiterSpec => []Base
BY BaseInit, BaseStep, PTL DEF LimiterSpec

-----------------------------------------------------------------------------
(* The memory backend. *)

LEMMA Facts ==
  ASSUME Base
  PROVE  /\ clock \in Nat /\ Window \in Nat
         /\ \A r \in refused : r.proc \in Procs /\ r.scope \in Scopes /\ r.at \in Nat /\ r.at <= clock
         /\ \A p \in Procs, s \in Scopes :
              /\ bucket[p][s] \in Seq(0..clock) /\ Len(bucket[p][s]) \in Nat
              /\ Limit[s] \in Nat \ {0} /\ Len(bucket[p][s]) <= Limit[s]
              /\ \A a \in admitted[p][s] : a \in All /\ a.time \in Nat /\ a.time <= clock
<1>1. clock \in Nat /\ Window \in Nat /\ refused \subseteq [proc : Procs, scope : Scopes, at : 0..clock, seconds : Nat \ {0}]
  BY LimiterAssumption DEF Base, LimiterTypeOK
<1>2. \A r \in refused : r.proc \in Procs /\ r.scope \in Scopes /\ r.at \in 0..clock
  BY <1>1
<1>3. \A r \in refused : r.at \in Nat /\ r.at <= clock
  BY <1>1, <1>2
<1>4. \A p \in Procs, s \in Scopes : \A a \in admitted[p][s] : a \in All /\ a \in Attempt
  BY DEF Base, LimiterTypeOK, All
<1>5. \A a \in All : a.time <= clock
  BY DEF Base, Numbered
<1>6. \A a \in Attempt : a.time \in Nat
  BY DEF Attempt
<1>7. \A p \in Procs, s \in Scopes : bucket[p][s] \in Seq(0..clock) /\ Limit[s] \in Nat \ {0} /\ Len(bucket[p][s]) <= Limit[s]
  BY LimiterAssumption DEF Base, LimiterTypeOK
<1>8. \A b \in Seq(0..clock) : Len(b) \in Nat
  OBVIOUS
<1> QED
  BY <1>1, <1>2, <1>3, <1>4, <1>5, <1>6, <1>7, <1>8

LEMMA SinceFinite ==
  ASSUME Base, NEW p \in Procs, NEW s \in Scopes, NEW u
  PROVE  IsFiniteSet(Since(p, s, u)) /\ Cardinality(Since(p, s, u)) \in Nat
<1>1. Since(p, s, u) \in SUBSET All
  BY DEF Since, All
<1> QED
  BY <1>1, FS_Subset, FS_CardinalityType DEF Base, Numbered

(* The backend is chosen when the process starts. *)
LEMMA BackendStays ==
  ASSUME [LimiterNext]_limiterVars
  PROVE  backend' = backend
<1>1. CASE UNCHANGED limiterVars
  BY <1>1 DEF limiterVars
<1>2. CASE Tick
  BY <1>2 DEF Tick
<1>3. ASSUME NEW p \in Procs, NEW kind \in {"plain", "login"}, Arrive(p, kind) PROVE backend' = backend
  BY <1>3 DEF Arrive
<1>4. ASSUME NEW p \in Procs, CheckMemory(p) PROVE backend' = backend
  BY <1>4 DEF CheckMemory
<1>5. ASSUME NEW p \in Procs, Prune(p) \/ Count(p) \/ Oldest(p) PROVE backend' = backend
  BY <1>5 DEF Prune, Count, Oldest
<1>6. ASSUME NEW p \in Procs, Add(p) \/ Expire(p) \/ RedisFails(p) PROVE backend' = backend
  BY <1>6 DEF Add, Expire, RedisFails
<1> QED
  BY <1>1, <1>2, <1>3, <1>4, <1>5, <1>6 DEF LimiterNext

(* What a new attempt changes. *)
Enters(p, s, a) ==
  \A q \in Procs, r \in Scopes :
    admitted'[q][r] = IF q = p /\ r = s THEN admitted[p][s] \cup {a} ELSE admitted[q][r]

LEMMA Recorded ==
  ASSUME Base, NEW p \in Procs, NEW time \in 0..clock, Record(p, time)
  PROVE  \E s \in Scopes, a \in Attempt :
           s = check[p].scope /\ a.time = time /\ a = [time |-> time, id |-> NewId] /\ Enters(p, s, a)
<1>1. PICK s \in Scopes : s = check[p].scope
  BY Frame
<1>2. NewId \in Nat /\ clock \in Nat
  <2>1. Cardinality(All) \in Nat
    BY FS_CardinalityType DEF Base, Numbered
  <2>2. NewId = Cardinality(All) + 1
    BY DEF NewId, All
  <2> QED
    BY <2>1, <2>2, Frame
<1>3. PICK a \in Attempt : a = [time |-> time, id |-> NewId]
  <2>1. [time |-> time, id |-> NewId] \in Attempt
    BY <1>2 DEF Attempt
  <2> QED
    BY <2>1, Zenon
<1>4. admitted' = [admitted EXCEPT ![p][s] = @ \cup {a}]
  BY <1>1, <1>3 DEF Record
<1>5. \A q \in Procs, r \in Scopes :
           admitted'[q][r] = IF q = p /\ r = s THEN admitted[p][s] \cup {a} ELSE admitted[q][r]
  BY <1>4, Frame
<1>6. a.time = time
  BY <1>3
<1>7. Enters(p, s, a)
  BY <1>5 DEF Enters
<1> QED
  BY <1>1, <1>3, <1>6, <1>7, Zenon

(* kept is what remains of the bucket b without its first n entries. *)
EndOf(kept, b, n) ==
  /\ n \in 0..Len(b) /\ Stops(b, clock, n)
  /\ Len(kept) = Len(b) - n
  /\ \A k \in 1..Len(kept) : kept[k] = b[n + k]

(* A bucket that lost its oldest entries still holds all that count. *)
LEMMA KeptCounts ==
  ASSUME Base, InBucket, NEW p \in Procs, NEW s \in Scopes, NEW n, NEW kept, EndOf(kept, bucket[p][s], n),
         NEW u \in Nat, u + Window >= clock, NEW k \in 0..Len(kept), k = 0 \/ kept[k] < u
  PROVE  Cardinality(Since(p, s, u)) <= Len(kept) - k
<1>1. PICK b \in Seq(0..clock) : b = bucket[p][s]
  BY Facts
<1>2. PICK L \in Nat : L = Len(b)
  OBVIOUS
<1>3. n \in 0..L /\ Len(kept) = L - n /\ clock \in Nat /\ Window \in Nat
  BY <1>1, <1>2, Facts DEF EndOf
<1>4. k \in Nat /\ n + k \in 0..L
  BY <1>3
<1>5. n + k = 0 \/ b[n + k] < u
  <2>1. CASE k # 0
    <3>1. k \in 1..Len(kept) /\ kept[k] < u
      BY <1>3, <1>4, <2>1
    <3> QED
      BY <1>1, <3>1 DEF EndOf
  <2>2. CASE k = 0 /\ n # 0
    <3>1. n \in 1..n /\ n \in 1..L /\ n + k = n
      BY <1>3, <2>2
    <3>2. b[n] \in 0..clock
      BY <1>2, <3>1, ElementOfSeq
    <3>3. b[n] + Window < clock
      BY <1>1, <3>1 DEF EndOf, Stops
    <3>4. b[n] < u
      BY <1>3, <3>2, <3>3
    <3> QED
      BY <3>1, <3>4
  <2>3. CASE k = 0 /\ n = 0
    BY <2>3
  <2> QED
    BY <2>1, <2>2, <2>3
<1>6. Cardinality(Since(p, s, u)) <= L - (n + k)
  BY <1>1, <1>2, <1>4, <1>5 DEF InBucket
<1>7. PICK c \in Nat : c = Cardinality(Since(p, s, u))
  BY SinceFinite
<1> QED
  BY <1>3, <1>4, <1>6, <1>7

LEMMA MemorySame ==
  ASSUME Base, InBucket, RefusedInMemory, UNCHANGED <<bucket, admitted, refused>>,
         clock' \in Nat, clock <= clock'
  PROVE  InBucket' /\ RefusedInMemory'
<1>1. InBucket'
  <2>1. SUFFICES ASSUME NEW p \in Procs, NEW s \in Scopes, NEW u \in Nat, u + Window >= clock',
                        NEW k \in 0..Len(bucket[p][s]), k = 0 \/ bucket[p][s][k] < u
                 PROVE  Cardinality(Since(p, s, u)) <= Len(bucket[p][s]) - k
    BY DEF InBucket, Since
  <2>2. u + Window >= clock
    BY <2>1, Frame
  <2> QED
    BY <2>1, <2>2 DEF InBucket
<1>2. ASSUME NEW r \in refused PROVE (StillFull(r, bucket[r.proc][r.scope]) \/ Moved(r, bucket[r.proc][r.scope]))'
  <2>1. r.at \in Nat /\ clock \in Nat
    BY Facts
  <2>2. StillFull(r, bucket[r.proc][r.scope]) \/ Moved(r, bucket[r.proc][r.scope])
    BY DEF RefusedInMemory
  <2> QED
    BY <2>1, <2>2 DEF StillFull, Moved, Then
<1> QED
  BY <1>1, <1>2 DEF RefusedInMemory

LEMMA RefuseKeeps ==
  ASSUME Base, InBucket, RefusedInMemory, NEW p \in Procs, CheckMemory(p),
         NEW s \in Scopes, s = check[p].scope, NEW n, NEW kept \in Seq(0..clock),
         kept = Pruned(bucket[p][s], clock), EndOf(kept, bucket[p][s], n),
         Len(kept) >= Limit[s]
  PROVE  InBucket' /\ RefusedInMemory'
<1>1. /\ bucket' = [bucket EXCEPT ![p][s] = kept] /\ admitted' = admitted /\ clock' = clock
      /\ refused' = {[proc |-> p, scope |-> s, at |-> clock, seconds |-> RetryAfter(clock, kept[1])]}
  BY MemoryRefuses DEF CheckMemory
<1>2. \A q \in Procs, r \in Scopes : bucket'[q][r] = IF q = p /\ r = s THEN kept ELSE bucket[q][r]
  BY <1>1, Frame
<1>3. InBucket'
  <2>1. SUFFICES ASSUME NEW q \in Procs, NEW r \in Scopes, NEW u \in Nat, u + Window >= clock,
                        NEW b, b = bucket'[q][r], NEW k \in 0..Len(b), k = 0 \/ b[k] < u
                 PROVE  Cardinality(Since(q, r, u)) <= Len(b) - k
    BY <1>1 DEF InBucket, Since
  <2>2. CASE q = p /\ r = s
    <3>1. b = kept
      BY <1>2, <2>1, <2>2
    <3>2. Cardinality(Since(p, s, u)) <= Len(kept) - k
      BY <2>1, <3>1, KeptCounts
    <3> QED
      BY <2>2, <3>1, <3>2
  <2>3. CASE ~(q = p /\ r = s)
    <3>1. b = bucket[q][r]
      BY <1>2, <2>1, <2>3
    <3> QED
      BY <2>1, <3>1 DEF InBucket
  <2> QED
    BY <2>2, <2>3
<1>4. PICK m \in Nat, L \in Nat \ {0} : m = Len(bucket[p][s]) /\ L = Limit[s] /\ m <= L
  BY Facts
<1>5. /\ n \in 0..m /\ Len(kept) = m - n /\ Len(kept) >= L
      /\ clock \in Nat /\ Window \in Nat
  BY <1>4, Facts DEF EndOf
<1>6. Len(kept) = L /\ 1 \in 1..Len(kept) /\ n < m
  <2>1. PICK h \in Nat : h = Len(kept)
    OBVIOUS
  <2>2. h = m - n /\ h >= L /\ m <= L /\ n \in 0..m
    BY <1>4, <1>5, <2>1
  <2>3. h = L /\ 1 \in 1..h /\ n < m
    BY <2>2
  <2> QED
    BY <2>1, <2>3
<1>7. PICK o \in 0..clock : o = kept[1]
  <2>1. kept[1] \in 0..clock
    BY <1>6, ElementOfSeq
  <2> QED
    BY <2>1, Zenon
<1>8. o + Window >= clock
  <2>1. kept[1] = bucket[p][s][n + 1]
    BY <1>6 DEF EndOf
  <2>2. bucket[p][s][n + 1] + Window >= clock
    BY <1>4, <1>6 DEF EndOf, Stops
  <2> QED
    BY <1>7, <2>1, <2>2
<1>9. o + Window < clock + RetryAfter(clock, o) * Second
  <2>1. o \in Nat
    BY <1>5, <1>7
  <2> QED
    BY <1>5, <2>1, WaitsLongEnough
<1>10. ASSUME NEW r \in refused' PROVE StillFull(r, bucket[r.proc][r.scope])'
  <2>1. r.proc = p /\ r.scope = s /\ r.at = clock /\ r.seconds = RetryAfter(clock, o)
    BY <1>1, <1>7, <1>10
  <2>2. bucket'[r.proc][r.scope] = kept
    BY <1>2, <2>1
  <2>3. Then(r) = clock + RetryAfter(clock, o) * Second
    BY <2>1 DEF Then
  <2> QED
    BY <1>4, <1>6, <1>7, <1>8, <1>9, <2>1, <2>2, <2>3 DEF StillFull, Then
<1>11. RefusedInMemory'
  BY <1>10 DEF RefusedInMemory
<1> QED
  BY <1>3, <1>11

(* The positions of a bucket before and after an attempt is appended. *)
LEMMA Positions ==
  ASSUME NEW h \in Nat, NEW k \in 0..(h + 1)
  PROVE  /\ k <= h => k \in 0..h
         /\ ~(k <= h) => k = h + 1
         /\ k # 0 /\ k <= h => k \in 1..h
         /\ h + 1 # 0
OBVIOUS

LEMMA AdmitKeeps ==
  ASSUME Base, InBucket, RefusedInMemory, NEW p \in Procs, CheckMemory(p),
         NEW s \in Scopes, s = check[p].scope, NEW n, NEW kept \in Seq(0..clock),
         kept = Pruned(bucket[p][s], clock), EndOf(kept, bucket[p][s], n),
         ~(Len(kept) >= Limit[s])
  PROVE  InBucket' /\ RefusedInMemory'
<1>1. /\ bucket' = [bucket EXCEPT ![p][s] = Append(kept, clock)] /\ clock' = clock
      /\ Record(p, clock) /\ refused' = refused
  BY MemoryAdmits DEF CheckMemory
<1>2. /\ clock \in Nat /\ Window \in Nat /\ Limit[s] \in Nat
  BY Facts
<1>3. PICK h \in Nat : h = Len(kept)
  OBVIOUS
<1>4. PICK b \in Seq(0..clock) :
        /\ b = Append(kept, clock) /\ Len(b) = h + 1
        /\ \A k \in 1..h : b[k] = kept[k]
        /\ b[h + 1] = clock
  <2>1. clock \in 0..clock
    BY <1>2
  <2>2. Append(kept, clock) \in Seq(0..clock)
    BY <2>1
  <2>3. Len(Append(kept, clock)) = h + 1
    BY <1>3
  <2>4. \A k \in 1..h : Append(kept, clock)[k] = kept[k]
    BY <1>3
  <2>5. Append(kept, clock)[h + 1] = clock
    BY <1>3
  <2> QED
    BY <2>2, <2>3, <2>4, <2>5, Zenon
<1>5. \A q \in Procs, r \in Scopes : bucket'[q][r] = IF q = p /\ r = s THEN b ELSE bucket[q][r]
  BY <1>1, <1>4, Frame
<1>6. PICK a \in Attempt :
        /\ a.time = clock
        /\ \A q \in Procs, r \in Scopes :
             admitted'[q][r] = IF q = p /\ r = s THEN admitted[p][s] \cup {a} ELSE admitted[q][r]
  <2>0. clock \in 0..clock
    BY <1>2
  <2>1. PICK t \in Scopes, a \in Attempt :
           t = check[p].scope /\ a.time = clock /\ a = [time |-> clock, id |-> NewId] /\ Enters(p, t, a)
    BY <1>1, <2>0, Recorded, Zenon
  <2>2. Enters(p, s, a)
    BY <2>1, Zenon
  <2> QED
    BY <2>1, <2>2, Zenon DEF Enters
<1>7. InBucket'
  <2>1. SUFFICES ASSUME NEW q \in Procs, NEW r \in Scopes, NEW u \in Nat, u + Window >= clock,
                        NEW c, c = bucket'[q][r], NEW k \in 0..Len(c), k = 0 \/ c[k] < u
                 PROVE  Cardinality(Since(q, r, u)') <= Len(c) - k
    BY <1>1 DEF InBucket
  <2>2. CASE ~(q = p /\ r = s)
    <3>1. Since(q, r, u)' = Since(q, r, u)
      BY <1>6, <2>2 DEF Since
    <3>2. c = bucket[q][r]
      BY <1>5, <2>1, <2>2
    <3> QED
      BY <2>1, <3>1, <3>2 DEF InBucket
  <2>3. CASE q = p /\ r = s /\ k <= h
    <3>0. c = b
      BY <1>5, <2>1, <2>3
    <3>1. c = b /\ Len(c) = h + 1 /\ k \in 0..h /\ (k # 0 => k \in 1..h)
      <4>1. Len(c) = h + 1
        BY <1>4, <3>0, Zenon
      <4>2. k \in 0..(h + 1)
        BY <2>1, <4>1, Zenon
      <4> QED
        BY <2>3, <3>0, <4>1, <4>2, Positions, Zenon
    <3>2. k = 0 \/ kept[k] < u
      <4>1. k # 0 => kept[k] = c[k]
        BY <1>4, <3>0, <3>1, Zenon
      <4> QED
        BY <2>1, <4>1, Zenon
    <3>3. Cardinality(Since(p, s, u)) <= h - k
      BY <1>3, <2>1, <3>1, <3>2, KeptCounts
    <3>4. Since(q, r, u)' \in SUBSET (Since(p, s, u) \cup {a})
      BY <1>6, <2>3 DEF Since
    <3>5. PICK x \in Nat : IsFiniteSet(Since(p, s, u)) /\ x = Cardinality(Since(p, s, u))
      BY SinceFinite
    <3>6. PICK y \in Nat : /\ IsFiniteSet(Since(p, s, u) \cup {a})
                           /\ y = Cardinality(Since(p, s, u) \cup {a})
      BY <3>5, FS_AddElement, FS_CardinalityType, Zenon
    <3>7. y <= x + 1
      BY <3>5, <3>6, FS_AddElement
    <3>8. PICK z \in Nat : z = Cardinality(Since(q, r, u)')
      BY <3>4, <3>6, FS_Subset, FS_CardinalityType, Zenon
    <3>9. z <= y
      BY <3>4, <3>6, <3>8, FS_Subset
    <3> QED
      BY <3>1, <3>3, <3>5, <3>7, <3>8, <3>9
  <2>4. CASE q = p /\ r = s /\ ~(k <= h)
    <3>0. c = b
      BY <1>5, <2>1, <2>4
    <3>1. c = b /\ Len(c) = h + 1 /\ k = h + 1 /\ k # 0
      <4>1. Len(c) = h + 1
        BY <1>4, <3>0, Zenon
      <4>2. k \in 0..(h + 1)
        BY <2>1, <4>1, Zenon
      <4> QED
        BY <2>4, <3>0, <4>1, <4>2, Positions, Zenon
    <3>2. clock < u
      <4>1. c[k] = clock
        BY <1>4, <3>0, <3>1, Zenon
      <4> QED
        BY <2>1, <3>1, <4>1, Zenon
    <3>3. \A x \in admitted[p][s] : x.time <= clock /\ x.time \in Nat
      BY Facts
    <3>4. \A x \in admitted[p][s] \cup {a} : ~(x.time >= u)
      BY <1>2, <1>6, <3>2, <3>3
    <3>5. Since(q, r, u)' = {}
      BY <1>6, <2>4, <3>4 DEF Since
    <3>6. Cardinality({}) = 0
      BY FS_EmptySet
    <3> QED
      BY <3>1, <3>5, <3>6
  <2> QED
    BY <2>2, <2>3, <2>4
<1>8. ASSUME NEW r \in refused
      PROVE (StillFull(r, bucket[r.proc][r.scope]) \/ Moved(r, bucket[r.proc][r.scope]))'
  <2>1. r.proc \in Procs /\ r.scope \in Scopes /\ r.at \in Nat /\ r.at <= clock
    BY Facts
  <2>2. StillFull(r, bucket[r.proc][r.scope]) \/ Moved(r, bucket[r.proc][r.scope])
    BY DEF RefusedInMemory
  <2>3. CASE ~(r.proc = p /\ r.scope = s)
    <3>1. bucket'[r.proc][r.scope] = bucket[r.proc][r.scope]
      BY <1>5, <2>1, <2>3
    <3> QED
      BY <1>1, <2>2, <3>1 DEF StillFull, Moved, Then
  <2>4. CASE r.proc = p /\ r.scope = s
    <3>1. clock > r.at
      <4>1. SUFFICES ASSUME StillFull(r, bucket[p][s]), ~(clock > r.at) PROVE FALSE
        BY <2>2, <2>4 DEF Moved
      <4>2. PICK d \in Seq(0..clock), m \in Nat : d = bucket[p][s] /\ m = Len(d)
        BY Facts
      <4>3. m = Limit[s] /\ d[1] + Window >= clock
        BY <1>2, <2>1, <2>4, <4>1, <4>2 DEF StillFull
      <4>4. n \in 0..m /\ h = m - n
        BY <1>3, <4>2 DEF EndOf
      <4>5. 1 \in 1..n /\ 1 \in 1..m
        BY <1>2, <1>3, <4>3, <4>4
      <4>6. d[1] + Window < clock
        BY <4>2, <4>5 DEF EndOf, Stops
      <4>7. d[1] \in 0..clock
        BY <4>2, <4>5, ElementOfSeq
      <4> QED
        BY <1>2, <4>3, <4>6, <4>7
    <3>2. bucket'[r.proc][r.scope] = b
      BY <1>5, <2>4
    <3> QED
      BY <1>1, <1>4, <3>1, <3>2 DEF Moved
  <2> QED
    BY <2>3, <2>4
<1>9. RefusedInMemory'
  BY <1>1, <1>8 DEF RefusedInMemory
<1> QED
  BY <1>7, <1>9

LEMMA MemoryInit == ASSUME LimiterInit PROVE MemoryInv
<1>1. refused = {} /\ \A p \in Procs, s \in Scopes : admitted[p][s] = {} /\ bucket[p][s] = << >>
  BY DEF LimiterInit
<1>2. \A p \in Procs, s \in Scopes, u \in Nat : Cardinality(Since(p, s, u)) = 0
  <2>1. \A p \in Procs, s \in Scopes, u \in Nat : Since(p, s, u) = {}
    BY <1>1 DEF Since
  <2>2. Cardinality({}) = 0
    BY FS_EmptySet
  <2> QED
    BY <2>1, <2>2
<1> QED
  BY <1>1, <1>2 DEF MemoryInv, InBucket, RefusedInMemory

LEMMA MemoryStep == ASSUME Base, MemoryInv, [LimiterNext]_limiterVars PROVE MemoryInv'
<1>0. backend' = backend
  BY Zenon DEF LimiterNext, limiterVars, Arrive, CheckMemory, Prune, Count, Oldest, Add, Expire, RedisFails, Tick
<1>1. SUFFICES ASSUME backend = "memory" PROVE InBucket' /\ RefusedInMemory'
  BY <1>0 DEF MemoryInv
<1>2. clock \in Nat /\ InBucket /\ RefusedInMemory /\ \A p \in Procs : check[p].pc \in {"idle", "prune"}
  BY <1>1, Frame DEF MemoryInv, Base, Backends
<1>3. CASE UNCHANGED limiterVars
  BY <1>2, <1>3, MemorySame DEF limiterVars
<1>4. ASSUME NEW p \in Procs, NEW kind \in {"plain", "login"}, Arrive(p, kind) PROVE InBucket' /\ RefusedInMemory'
  <2>1. UNCHANGED <<bucket, admitted, refused, clock>>
    BY <1>4 DEF Arrive
  <2> QED
    BY <1>2, <2>1, MemorySame
<1>5. ASSUME NEW p \in Procs, CheckMemory(p) PROVE InBucket' /\ RefusedInMemory'
  <2>1. PICK s \in Scopes, n \in Nat, kept \in Seq(0..clock) :
           /\ s = check[p].scope /\ kept = Pruned(bucket[p][s], clock)
           /\ n \in 0..Len(bucket[p][s]) /\ Stops(bucket[p][s], clock, n)
           /\ Len(kept) = Len(bucket[p][s]) - n
           /\ \A k \in 1..Len(kept) : kept[k] = bucket[p][s][n + k]
    BY <1>5, MemoryKeeps
  <2>2. EndOf(kept, bucket[p][s], n)
    BY <2>1 DEF EndOf
  <2>3. CASE Len(kept) >= Limit[s]
    BY <1>2, <1>5, <2>1, <2>2, <2>3, RefuseKeeps
  <2>4. CASE ~(Len(kept) >= Limit[s])
    BY <1>2, <1>5, <2>1, <2>2, <2>4, AdmitKeeps
  <2> QED
    BY <2>3, <2>4
<1>6. ASSUME NEW p \in Procs, Prune(p) \/ Count(p) \/ Oldest(p) \/ Add(p) \/ Expire(p) \/ RedisFails(p) PROVE FALSE
  BY <1>1, <1>2, <1>6 DEF Prune, Count, Oldest, Add, Expire, RedisFails
<1>7. CASE Tick
  <2>1. UNCHANGED <<bucket, admitted, refused>> /\ clock' = clock + 1
    BY <1>7 DEF Tick
  <2> QED
    BY <1>2, <2>1, MemorySame
<1> QED
  BY <1>3, <1>4, <1>5, <1>6, <1>7 DEF LimiterNext

-----------------------------------------------------------------------------
(* The Redis backend: what is in the set. *)

LEMMA AddingFinite ==
  ASSUME Base, NEW s \in Scopes
  PROVE  /\ IsFiniteSet(Adding(s)) /\ Cardinality(Adding(s)) \in Nat
         /\ Cardinality(Procs) \in Nat /\ Cardinality(Adding(s)) <= Cardinality(Procs)
<1>1. Adding(s) \in SUBSET Procs /\ IsFiniteSet(Procs)
  BY LimiterAssumption DEF Adding
<1> QED
  BY <1>1, FS_Subset, FS_CardinalityType

(* Neither entries nor announced ones are added. *)
LEMMA BoundedKept ==
  ASSUME Base, SetBounded, NEW s \in Scopes, zset'[s] \subseteq zset[s], Adding(s)' \subseteq Adding(s),
         concurrent => concurrent'
  PROVE  /\ IsFiniteSet(zset'[s])
         /\ Cardinality(zset'[s]) + Cardinality(Adding(s)') <= Limit[s] + Cardinality(Procs) - 1
         /\ ~concurrent' => Cardinality(zset'[s]) + Cardinality(Adding(s)') <= Limit[s]
<1>1. IsFiniteSet(zset[s])
  BY DEF SetBounded
<1>2. PICK z \in Nat : z = Cardinality(zset[s])
  BY <1>1, FS_CardinalityType, Zenon
<1>3. PICK y \in Nat : y = Cardinality(zset'[s]) /\ y <= z /\ IsFiniteSet(zset'[s])
  <2>1. zset'[s] \in SUBSET zset[s]
    OBVIOUS
  <2>2. IsFiniteSet(zset'[s]) /\ Cardinality(zset'[s]) <= z
    BY <1>1, <1>2, <2>1, FS_Subset
  <2> QED
    BY <2>2, FS_CardinalityType
<1>4. PICK x \in Nat, n \in Nat : x = Cardinality(Adding(s)) /\ n = Cardinality(Procs) /\ IsFiniteSet(Adding(s))
  BY AddingFinite
<1>5. PICK w \in Nat : w = Cardinality(Adding(s)') /\ w <= x
  <2>1. Adding(s)' \in SUBSET Adding(s)
    OBVIOUS
  <2>2. IsFiniteSet(Adding(s)') /\ Cardinality(Adding(s)') <= x
    BY <1>4, <2>1, FS_Subset
  <2> QED
    BY <2>2, FS_CardinalityType
<1>6. z + x <= Limit[s] + n - 1 /\ (~concurrent => z + x <= Limit[s])
  BY <1>2, <1>4 DEF SetBounded
<1>7. Limit[s] \in Nat
  BY Frame
<1> QED
  BY <1>3, <1>4, <1>5, <1>6, <1>7

(* Steps that leave the attempts and the entries alone. *)
LEMMA RedisSame ==
  ASSUME Base, RedisInv, UNCHANGED <<clock, zset, expiry, admitted>>, lost => lost', concurrent => concurrent',
         \A s \in Scopes : Adding(s)' \subseteq Adding(s),
         ~lost' => \A s \in Scopes : Expiring(s) => Expiring(s)'
  PROVE  RedisInv'
<1>1. SetBounded'
  BY BoundedKept DEF SetBounded, RedisInv
<1>2. Past'
  BY DEF Past, RedisInv
<1>3. Entered'
  BY DEF Entered, RedisInv
<1>4. Kept'
  BY DEF Kept, RedisInv
<1> QED
  BY <1>1, <1>2, <1>3, <1>4 DEF RedisInv

LEMMA PruneRedis ==
  ASSUME Base, RedisInv, NEW p \in Procs, Prune(p)
  PROVE  RedisInv'
<1>1. PICK d \in CheckType(0..clock), s \in Scopes :
           /\ check' = [check EXCEPT ![p] = d]
           /\ s = check[p].scope /\ d.pc = "count" /\ d.now = check[p].now /\ d.scope = s
           /\ zset' = [zset EXCEPT ![s] = {a \in @ : a.time + Window > d.now}]
           /\ \A t \in Scopes : expiry'[t] = expiry[t] \/ zset'[t] = {}
  BY PruneMoves
<1>2. check[p].pc = "prune" /\ UNCHANGED <<clock, admitted, lost, concurrent>>
  BY DEF Prune
<1>3. \A t \in Scopes : zset'[t] = IF t = s THEN {a \in zset[s] : a.time + Window > d.now} ELSE zset[t]
  BY <1>1, Frame
<1>4. \A t \in Scopes : zset'[t] \subseteq zset[t] /\ Adding(t)' \subseteq Adding(t) /\ (Expiring(t) => Expiring(t)')
  <2>1. \A q \in Procs : check'[q] = IF q = p THEN d ELSE check[q]
    BY <1>1, Frame
  <2>2. ASSUME NEW t \in Scopes PROVE zset'[t] \subseteq zset[t]
    BY <1>3
  <2>3. ASSUME NEW t \in Scopes PROVE Adding(t)' \subseteq Adding(t)
    BY <1>1, <2>1 DEF Adding
  <2>4. ASSUME NEW t \in Scopes, Expiring(t) PROVE Expiring(t)'
    BY <1>2, <2>1, <2>4 DEF Expiring
  <2> QED
    BY <2>2, <2>3, <2>4
<1>5. SetBounded'
  BY <1>2, <1>4, BoundedKept DEF SetBounded, RedisInv
<1>6. Past'
  BY <1>2, <1>4 DEF Past, RedisInv
<1>7. Kept'
  BY <1>1, <1>2, <1>4 DEF Kept, RedisInv
<1>8. Entered'
  <2>1. SUFFICES ASSUME ~lost, NEW q \in Procs, NEW t \in Scopes, NEW a \in admitted[q][t], a.time + Window > clock
                 PROVE  a \in zset'[t]
    BY <1>2 DEF Entered
  <2>2. a \in zset[t]
    BY <2>1 DEF Entered, RedisInv
  <2>3. a.time \in Nat /\ d.now \in Nat /\ d.now <= clock /\ clock \in Nat /\ Window \in Nat
    BY <1>1, Frame, Facts
  <2>4. a.time + Window > d.now
    BY <2>1, <2>3
  <2> QED
    BY <1>3, <2>2, <2>4
<1> QED
  BY <1>5, <1>6, <1>7, <1>8 DEF RedisInv

LEMMA CountRedis ==
  ASSUME Base, Base', RedisInv, NEW p \in Procs, Count(p)
  PROVE  RedisInv'
<1>1. PICK d \in CheckType(0..clock), s \in Scopes :
           /\ check' = [check EXCEPT ![p] = d]
           /\ s = check[p].scope /\ d.scope = s
           /\ IF Cardinality(zset[s]) >= Limit[s] THEN d.pc = "full" ELSE d.pc = "add"
  BY CountMoves
<1>2. check[p].pc = "count" /\ UNCHANGED <<clock, zset, expiry, admitted, lost, concurrent>>
  BY DEF Count
<1>0. \A q \in Procs : check'[q] = IF q = p THEN d ELSE check[q]
  BY <1>1, Frame
<1>3. \A t \in Scopes : Expiring(t) => Expiring(t)'
  BY <1>2, <1>0 DEF Expiring
<1>4. CASE d.pc = "full"
  <2>1. \A t \in Scopes : Adding(t)' \subseteq Adding(t)
    BY <1>0, <1>4 DEF Adding
  <2> QED
    BY <1>2, <1>3, <2>1, RedisSame
<1>5. CASE d.pc = "add"
  <2>1. ~(Cardinality(zset[s]) >= Limit[s]) /\ \A t \in Scopes : t # s => Adding(t)' \subseteq Adding(t)
    BY <1>0, <1>1, <1>5 DEF Adding
  <2>2. PICK z \in Nat, l \in Nat : z = Cardinality(zset[s]) /\ l = Limit[s] /\ z < l /\ IsFiniteSet(zset[s])
    <3>1. IsFiniteSet(zset[s]) /\ Cardinality(zset[s]) \in Nat
      BY FS_CardinalityType DEF SetBounded, RedisInv
    <3> QED
      BY <2>1, <3>1, Frame
  <2>3. PICK x \in Nat, n \in Nat : x = Cardinality(Adding(s)') /\ n = Cardinality(Procs) /\ x <= n
    <3>1. Adding(s)' \in SUBSET Procs /\ IsFiniteSet(Procs)
      BY LimiterAssumption DEF Adding
    <3> QED
      BY <3>1, FS_Subset, FS_CardinalityType
  <2>4. ~concurrent' => x <= 1
    <3>1. SUFFICES ASSUME ~concurrent' PROVE x <= 1
      OBVIOUS
    <3>2. \A q \in Procs : check'[q] = IF q = p THEN d ELSE check[q]
      BY <1>1, Frame
    <3>3. \A q, r \in Procs : check'[q].pc = "add" /\ check'[r].pc = "add" => q = r
      BY <3>1 DEF Base, OneCheck, Busy
    <3>4. Adding(s)' \in SUBSET {p}
      BY <1>1, <1>5, <3>2, <3>3 DEF Adding
    <3>5. IsFiniteSet({p}) /\ Cardinality({p}) = 1
      BY FS_Singleton
    <3> QED
      BY <2>3, <3>4, <3>5, FS_Subset
  <2>5. SetBounded'
    <3>1. SUFFICES ASSUME NEW t \in Scopes
                   PROVE  /\ IsFiniteSet(zset'[t])
                          /\ Cardinality(zset'[t]) + Cardinality(Adding(t)') <= Limit[t] + Cardinality(Procs) - 1
                          /\ ~concurrent' => Cardinality(zset'[t]) + Cardinality(Adding(t)') <= Limit[t]
      BY DEF SetBounded
    <3>2. CASE t = s
      BY <1>2, <2>2, <2>3, <2>4, <3>2
    <3>3. CASE t # s
      BY <1>2, <2>1, <3>3, BoundedKept DEF RedisInv
    <3> QED
      BY <3>2, <3>3
  <2>6. Past'
    BY <1>2 DEF Past, RedisInv
  <2>7. Entered'
    BY <1>2 DEF Entered, RedisInv
  <2>8. Kept'
    BY <1>2, <1>3 DEF Kept, RedisInv
  <2> QED
    BY <2>5, <2>6, <2>7, <2>8 DEF RedisInv
<1> QED
  BY <1>1, <1>4, <1>5

(* A new attempt is recorded with its entry. *)
LEMMA AddRecords ==
  ASSUME Base, NEW p \in Procs, NEW s \in Scopes, NEW e \in Attempt, s = check[p].scope,
         e = [time |-> check[p].now, id |-> NewId], Record(p, check[p].now)
  PROVE  Enters(p, s, e)
<1>1. check[p].now \in 0..clock
  BY Frame
<1>2. PICK t \in Scopes, a \in Attempt :
           t = check[p].scope /\ a.time = check[p].now /\ a = [time |-> check[p].now, id |-> NewId] /\ Enters(p, t, a)
  BY <1>1, Recorded, Zenon
<1>3. t = s /\ a = e
  BY <1>2, Zenon
<1> QED
  BY <1>2, <1>3, Zenon

LEMMA AddRedis ==
  ASSUME Base, RedisInv, NEW p \in Procs, Add(p)
  PROVE  RedisInv'
<1>1. PICK d \in CheckType(0..clock), s \in Scopes, e \in Attempt :
           /\ check' = [check EXCEPT ![p] = d]
           /\ s = check[p].scope /\ d.pc = "expire" /\ d.now = check[p].now /\ d.scope = s
           /\ e = [time |-> check[p].now, id |-> NewId]
           /\ zset' = [zset EXCEPT ![s] = @ \cup {e}]
           /\ Record(p, check[p].now)
  BY AddMoves
<1>2. check[p].pc = "add" /\ UNCHANGED <<clock, expiry, lost, concurrent>>
  BY DEF Add
<1>3. /\ \A t \in Scopes : zset'[t] = IF t = s THEN zset[s] \cup {e} ELSE zset[t]
      /\ \A q \in Procs : check'[q] = IF q = p THEN d ELSE check[q]
  BY <1>1, Frame
<1>4. e.time = check[p].now /\ e.id = NewId /\ e.time <= clock
  BY <1>1, Frame
<1>5. SetBounded'
  <2>1. SUFFICES ASSUME NEW t \in Scopes
                 PROVE  /\ IsFiniteSet(zset'[t])
                        /\ Cardinality(zset'[t]) + Cardinality(Adding(t)') <= Limit[t] + Cardinality(Procs) - 1
                        /\ ~concurrent' => Cardinality(zset'[t]) + Cardinality(Adding(t)') <= Limit[t]
    BY DEF SetBounded
  <2>2. CASE t = s
    <3>1. PICK z \in Nat, x \in Nat, n \in Nat, l \in Nat :
             /\ z = Cardinality(zset[s]) /\ x = Cardinality(Adding(s)) /\ n = Cardinality(Procs) /\ l = Limit[s]
             /\ IsFiniteSet(zset[s]) /\ IsFiniteSet(Adding(s))
      <4>1. IsFiniteSet(zset[s]) /\ Cardinality(zset[s]) \in Nat
        BY FS_CardinalityType DEF SetBounded, RedisInv
      <4> QED
        BY <4>1, AddingFinite, Frame
    <3>2. z + x <= l + n - 1 /\ (~concurrent => z + x <= l)
      BY <3>1 DEF SetBounded, RedisInv
    <3>3. Adding(s)' = Adding(s) \ {p} /\ p \in Adding(s)
      BY <1>1, <1>2, <1>3 DEF Adding
    <3>4. Cardinality(Adding(s)') = x - 1
      <4>1. Cardinality(Adding(s) \ {p}) = IF p \in Adding(s) THEN Cardinality(Adding(s)) - 1 ELSE Cardinality(Adding(s))
        BY <3>1, FS_RemoveElement, Zenon
      <4> QED
        BY <3>1, <3>3, <4>1
    <3>5. PICK y \in Nat : y = Cardinality(zset'[s]) /\ y <= z + 1 /\ IsFiniteSet(zset'[s])
      <4>1. zset'[s] = zset[s] \cup {e}
        BY <1>3
      <4>2. /\ IsFiniteSet(zset[s] \cup {e})
            /\ Cardinality(zset[s] \cup {e}) = IF e \in zset[s] THEN Cardinality(zset[s]) ELSE Cardinality(zset[s]) + 1
        BY <3>1, FS_AddElement
      <4> QED
        BY <3>1, <4>1, <4>2
    <3>6. y + (x - 1) <= l + n - 1 /\ (~concurrent => y + (x - 1) <= l)
      BY <3>2, <3>5
    <3> QED
      BY <1>2, <2>2, <3>1, <3>4, <3>5, <3>6, Zenon
  <2>3. CASE t # s
    <3>1. zset'[t] \subseteq zset[t] /\ Adding(t)' \subseteq Adding(t)
      BY <1>1, <1>3, <2>3 DEF Adding
    <3> QED
      BY <1>2, <3>1, BoundedKept DEF RedisInv
  <2> QED
    BY <2>2, <2>3
<1>6. Past'
  BY <1>2, <1>3, <1>4 DEF Past, RedisInv
<1>7. Entered'
  <2>1. Enters(p, s, e)
    BY <1>1, AddRecords, Zenon
  <2> QED
    BY <1>2, <1>3, <2>1 DEF Entered, RedisInv, Enters
<1>8. Kept'
  <2>1. Expiring(s)'
    BY <1>1, <1>3 DEF Expiring
  <2>2. ASSUME NEW t \in Scopes, t # s, Expiring(t) PROVE Expiring(t)'
    BY <1>2, <1>3, <2>2 DEF Expiring
  <2> QED
    BY <1>2, <1>3, <2>1, <2>2 DEF Kept, RedisInv
<1> QED
  BY <1>5, <1>6, <1>7, <1>8 DEF RedisInv

LEMMA ExpireRedis ==
  ASSUME Base, RedisInv, NEW p \in Procs, Expire(p)
  PROVE  RedisInv'
<1>1. PICK d \in CheckType(0..clock) : check' = [check EXCEPT ![p] = d] /\ d.pc \in {"idle", "prune"}
  BY Passing DEF Expire
<1>2. PICK s \in Scopes : s = check[p].scope
  BY Frame
<1>3. /\ check[p].pc = "expire" /\ UNCHANGED <<clock, zset, admitted, lost, concurrent>>
      /\ expiry' = [expiry EXCEPT ![s] = IF zset[s] = {} THEN 0 ELSE clock + Window + Second]
  BY <1>2 DEF Expire
<1>4. /\ \A t \in Scopes : zset[t] # {} => expiry'[t] = IF t = s THEN clock + Window + Second ELSE expiry[t]
      /\ \A q \in Procs : check'[q] = IF q = p THEN d ELSE check[q]
  BY <1>1, <1>3, Frame
<1>5. SetBounded'
  <2>1. ASSUME NEW t \in Scopes PROVE Adding(t)' \subseteq Adding(t)
    BY <1>1, <1>4 DEF Adding
  <2> QED
    BY <1>3, <2>1, BoundedKept DEF SetBounded, RedisInv
<1>6. Past'
  BY <1>3 DEF Past, RedisInv
<1>7. Entered'
  BY <1>3 DEF Entered, RedisInv
<1>8. Kept'
  <2>1. SUFFICES ASSUME ~lost, NEW t \in Scopes, ~Expiring(t)'
                 PROVE  \A e \in zset[t] : e.time + Window + Second <= expiry'[t]
    BY <1>3 DEF Kept
  <2>2. CASE t = s
    <3>1. ASSUME NEW e \in zset[t] PROVE e.time + Window + Second <= expiry'[t]
      <4>1. e.time \in Nat /\ e.time <= clock /\ clock \in Nat /\ Window \in Nat /\ Second \in Nat
        <5>1. e \in Attempt
          BY Frame
        <5> QED
          BY <5>1, Frame DEF Past, RedisInv, Attempt
      <4> QED
        BY <1>4, <2>2, <4>1
    <3> QED
      BY <3>1
  <2>3. CASE t # s
    <3>1. Expiring(t) => Expiring(t)'
      BY <1>2, <1>4, <2>3 DEF Expiring
    <3> QED
      BY <1>4, <2>1, <2>3, <3>1 DEF Kept, RedisInv
  <2> QED
    BY <2>2, <2>3
<1> QED
  BY <1>5, <1>6, <1>7, <1>8 DEF RedisInv

LEMMA EndRedis ==
  ASSUME Base, RedisInv, NEW p \in Procs, Oldest(p) \/ RedisFails(p) \/ \E kind \in {"plain", "login"} : Arrive(p, kind)
  PROVE  RedisInv'
<1>1. UNCHANGED <<clock, zset, expiry, admitted>> /\ (lost => lost') /\ (concurrent => concurrent')
  <2>1. CASE Oldest(p)
    BY <2>1 DEF Oldest
  <2>2. CASE RedisFails(p)
    BY <2>2 DEF RedisFails
  <2>3. CASE \E kind \in {"plain", "login"} : Arrive(p, kind)
    <3>1. UNCHANGED <<clock, zset, expiry, admitted, lost>> /\ concurrent' = (concurrent \/ \E q \in Procs : Busy(q))
      BY <2>3 DEF Arrive
    <3>2. concurrent => concurrent'
      BY <3>1, Zenon
    <3> QED
      BY <3>1, <3>2
  <2> QED
    BY <2>1, <2>2, <2>3
<1>2. CASE RedisFails(p)
  <2>1. lost' /\ check' = [check EXCEPT ![p] = Idle] /\ Idle.pc = "idle"
    BY <1>2 DEF RedisFails, Idle
  <2>2. \A s \in Scopes : Adding(s)' \subseteq Adding(s)
    BY <2>1, Frame DEF Adding
  <2> QED
    BY <1>1, <2>1, <2>2, RedisSame
<1>3. CASE ~RedisFails(p)
  <2>1. \E d : check' = [check EXCEPT ![p] = d] /\ d.pc \in {"idle", "prune"} /\ check[p].pc # "expire"
    <3>1. CASE Oldest(p)
      <4>1. PICK d \in CheckType(0..clock) : check' = [check EXCEPT ![p] = d] /\ d.pc = "idle"
        BY <3>1, OldestMoves
      <4>2. check[p].pc = "full"
        BY <3>1 DEF Oldest
      <4> QED
        BY <4>1, <4>2
    <3>2. CASE \E kind \in {"plain", "login"} : Arrive(p, kind)
      BY <3>2 DEF Arrive, Busy
    <3> QED
      BY <1>3, <3>1, <3>2
  <2>2. PICK d : check' = [check EXCEPT ![p] = d] /\ d.pc \in {"idle", "prune"} /\ check[p].pc # "expire"
    BY <2>1
  <2>3. \A q \in Procs : check'[q] = IF q = p THEN d ELSE check[q]
    BY <2>2, Frame
  <2>4. ASSUME NEW s \in Scopes PROVE Adding(s)' \subseteq Adding(s) /\ (Expiring(s) => Expiring(s)')
    BY <2>2, <2>3 DEF Adding, Expiring
  <2> QED
    BY <1>1, <2>4, RedisSame
<1> QED
  BY <1>2, <1>3

LEMMA TickRedis == ASSUME Base, RedisInv, Tick PROVE RedisInv'
<1>1. /\ clock' = clock + 1
      /\ UNCHANGED <<check, admitted, concurrent>>
      /\ ~lost' => ~lost /\ \A p \in Procs : check[p].pc = "expire" => expiry[check[p].scope] # clock + 1
  BY DEF Tick
<1>2. \A s \in Scopes : zset'[s] = IF expiry[s] = clock + 1 THEN {} ELSE zset[s]
  BY DEF Tick
<1>3. \A s \in Scopes : expiry'[s] = IF expiry[s] = clock + 1 THEN 0 ELSE expiry[s]
  BY DEF Tick
<1>4. \A s \in Scopes : zset'[s] \subseteq zset[s]
  BY <1>2
<1>5. \A s \in Scopes : Adding(s)' = Adding(s)
  BY <1>1 DEF Adding
<1>6. \A s \in Scopes : Expiring(s)' <=> Expiring(s)
  BY <1>1 DEF Expiring
<1>7. ASSUME ~lost', NEW s \in Scopes, expiry[s] = clock + 1
      PROVE  \A e \in zset[s] : e.time + Window + Second <= clock + 1
  <2>1. ~Expiring(s)
    BY <1>1, <1>7 DEF Expiring
  <2> QED
    BY <1>1, <1>7, <2>1 DEF Kept, RedisInv
<1>8. SetBounded'
  BY <1>1, <1>4, <1>5, BoundedKept DEF SetBounded, RedisInv
<1>9. Past'
  <2>1. ASSUME NEW s \in Scopes, NEW e \in zset'[s] PROVE e.time <= clock + 1
    <3>1. e \in zset[s] /\ e \in Attempt
      BY <1>4, Frame
    <3> QED
      BY <3>1, Frame DEF Past, RedisInv, Attempt
  <2> QED
    BY <1>1, <2>1 DEF Past
<1>10. Entered'
  <2>1. SUFFICES ASSUME ~lost', NEW q \in Procs, NEW t \in Scopes, NEW a \in admitted[q][t], a.time + Window > clock + 1
                 PROVE  a \in zset'[t]
    BY <1>1 DEF Entered
  <2>2. a.time \in Nat /\ clock \in Nat /\ Window \in Nat /\ Second \in Nat \ {0}
    BY Frame, Facts
  <2>3. a.time + Window > clock
    BY <2>1, <2>2
  <2>4. a \in zset[t]
    BY <1>1, <2>1, <2>3 DEF Entered, RedisInv
  <2>5. expiry[t] # clock + 1
    BY <1>7, <2>1, <2>2, <2>4
  <2> QED
    BY <1>2, <2>4, <2>5
<1>11. Kept'
  BY <1>1, <1>2, <1>3, <1>6 DEF Kept, RedisInv
<1> QED
  BY <1>8, <1>9, <1>10, <1>11 DEF RedisInv

LEMMA RedisInit == ASSUME LimiterInit PROVE RedisInv
<1>1. /\ \A s \in Scopes : zset[s] = {} /\ Adding(s) = {}
      /\ \A p \in Procs, s \in Scopes : admitted[p][s] = {}
  BY DEF LimiterInit, Adding, Idle
<1>2. Cardinality({}) = 0 /\ IsFiniteSet({}) /\ Cardinality(Procs) \in Nat
  BY FS_EmptySet, FS_CardinalityType, LimiterAssumption
<1>3. \A s \in Scopes : Limit[s] \in Nat \ {0}
  BY LimiterAssumption
<1>4. SetBounded
  <2>1. \A s \in Scopes : 0 + 0 <= Limit[s] + Cardinality(Procs) - 1 /\ 0 + 0 <= Limit[s]
    BY <1>2, <1>3
  <2>2. \A s \in Scopes : Cardinality(zset[s]) = 0 /\ Cardinality(Adding(s)) = 0 /\ IsFiniteSet(zset[s])
    BY <1>1, <1>2
  <2> QED
    BY <2>1, <2>2 DEF SetBounded
<1> QED
  BY <1>1, <1>4 DEF RedisInv, Past, Entered, Kept

LEMMA RedisStep ==
  ASSUME Base, Base', backend = "redis" => RedisInv, [LimiterNext]_limiterVars
  PROVE  (backend = "redis" => RedisInv)'
<1>1. backend' = backend
  BY BackendStays
<1>2. SUFFICES ASSUME backend = "redis" PROVE RedisInv'
  BY <1>1
<1>3. CASE UNCHANGED limiterVars
  <2>1. UNCHANGED <<clock, zset, expiry, admitted, lost, concurrent, check>>
    BY <1>3 DEF limiterVars
  <2>2. \A s \in Scopes : Adding(s)' = Adding(s) /\ (Expiring(s)' <=> Expiring(s))
    BY <2>1 DEF Adding, Expiring
  <2> QED
    BY <1>2, <2>1, <2>2, RedisSame
<1>4. CASE Tick
  BY <1>2, <1>4, TickRedis
<1>5. ASSUME NEW p \in Procs, NEW kind \in {"plain", "login"}, Arrive(p, kind) PROVE RedisInv'
  BY <1>2, <1>5, EndRedis
<1>6. ASSUME NEW p \in Procs, CheckMemory(p) PROVE FALSE
  BY <1>2, <1>6 DEF CheckMemory
<1>7. ASSUME NEW p \in Procs, Prune(p) \/ Count(p) \/ Oldest(p) \/ Add(p) \/ Expire(p) \/ RedisFails(p) PROVE RedisInv'
  BY <1>2, <1>7, PruneRedis, CountRedis, EndRedis, AddRedis, ExpireRedis
<1> QED
  BY <1>3, <1>4, <1>5, <1>6, <1>7 DEF LimiterNext

-----------------------------------------------------------------------------
(* The Redis backend: what has become of a refusal. *)

(* The facts about a refusal. *)
LEMMA Refusal ==
  ASSUME Base, NEW r \in refused
  PROVE  /\ r.proc \in Procs /\ r.scope \in Scopes /\ r.at \in Nat /\ r.at <= clock
         /\ r.seconds \in Nat \ {0} /\ Then(r) \in Nat /\ r.at < Then(r)
<1>1. r.proc \in Procs /\ r.scope \in Scopes /\ r.at \in Nat /\ r.at <= clock /\ r.seconds \in Nat \ {0}
  <2>1. r \in [proc : Procs, scope : Scopes, at : 0..clock, seconds : Nat \ {0}]
    BY DEF Base, LimiterTypeOK
  <2> QED
    BY <2>1, Facts
<1>2. \A x \in Nat \ {0} : x * Second \in Nat /\ x * Second > 0
  BY LimiterAssumption
<1> QED
  BY <1>1, <1>2 DEF Then

(* A refused client that waits finds room: the oldest entry is gone. *)
LEMMA StuckLeaves ==
  ASSUME Base, SetBounded, ~concurrent, NEW r \in refused, Stuck(r, zset[r.scope])
  PROVE  Cardinality(Remaining(r, zset[r.scope])) < Limit[r.scope]
<1>1. PICK s \in Scopes : s = r.scope
  BY Refusal
<1>2. PICK z \in SUBSET Attempt, l \in Nat : z = zset[s] /\ l = Limit[s] /\ IsFiniteSet(z)
  <2>1. Limit[s] \in Nat /\ IsFiniteSet(zset[s]) /\ zset[s] \subseteq Attempt
    BY Frame DEF SetBounded
  <2> QED
    BY <2>1
<1>3. Cardinality(z) \in Nat /\ Cardinality(z) <= l
  <2>1. Cardinality(z) \in Nat /\ Cardinality(Adding(s)) \in Nat
    BY <1>2, AddingFinite, FS_CardinalityType
  <2>2. Cardinality(z) + Cardinality(Adding(s)) <= l
    BY <1>2 DEF SetBounded
  <2> QED
    BY <2>1, <2>2
<1>4. PICK e \in z : e.time + Window <= Then(r)
  BY <1>1, <1>2 DEF Stuck
<1>5. Remaining(r, z) \in SUBSET (z \ {e})
  <2>1. e.time \in Nat /\ Window \in Nat /\ Then(r) \in Nat
    BY <1>2, <1>4, Frame, Refusal DEF Attempt
  <2>2. e \notin Remaining(r, z)
    BY <1>4, <2>1 DEF Remaining
  <2> QED
    BY <2>2 DEF Remaining
<1>6. IsFiniteSet(z \ {e}) /\ Cardinality(z \ {e}) = Cardinality(z) - 1
  BY <1>2, <1>4, FS_RemoveElement
<1>7. Cardinality(Remaining(r, z)) \in Nat /\ Cardinality(Remaining(r, z)) <= Cardinality(z) - 1
  BY <1>5, <1>6, FS_Subset, FS_CardinalityType
<1> QED
  BY <1>1, <1>2, <1>3, <1>7

(* With one check at a time, nobody else is under way. *)
LEMMA OneUnderWay ==
  ASSUME Base, ~concurrent, NEW p \in Procs, Busy(p), NEW d \in CheckType(0..clock), check' = [check EXCEPT ![p] = d]
  PROVE  /\ check'[p] = d
         /\ \A q \in Procs : q = p \/ (check[q].pc = "idle" /\ check'[q].pc = "idle")
<1>1. \A q \in Procs : check'[q] = IF q = p THEN d ELSE check[q]
  BY Frame
<1>2. \A q \in Procs : Busy(q) => q = p
  BY DEF Base, OneCheck
<1> QED
  BY <1>1, <1>2 DEF Busy

(* What remains only shrinks with the entries. *)
LEMMA RemainingShrinks ==
  ASSUME NEW r, NEW z, NEW y, IsFiniteSet(z), Remaining(r, y) \subseteq Remaining(r, z), NEW l \in Nat,
         Cardinality(Remaining(r, z)) < l
  PROVE  Cardinality(Remaining(r, y)) < l
<1>1. Remaining(r, z) \in SUBSET z /\ Remaining(r, y) \in SUBSET Remaining(r, z)
  BY DEF Remaining
<1>2. IsFiniteSet(Remaining(r, z)) /\ Cardinality(Remaining(r, z)) \in Nat
  BY <1>1, FS_Subset, FS_CardinalityType
<1>3. IsFiniteSet(Remaining(r, y)) /\ Cardinality(Remaining(r, y)) <= Cardinality(Remaining(r, z))
  BY <1>1, <1>2, FS_Subset
<1>4. Cardinality(Remaining(r, y)) \in Nat
  BY <1>3, FS_CardinalityType
<1> QED
  BY <1>2, <1>3, <1>4

LEMMA ArriveRefusals ==
  ASSUME Base, RefusalInv, NEW p \in Procs, NEW kind \in {"plain", "login"}, Arrive(p, kind)
  PROVE  RefusalInv'
<1>1. SUFFICES ASSUME ~concurrent', ~lost' PROVE Fresh' /\ StuckFull' /\ RefusedByRedis'
  BY DEF RefusalInv
<1>2. /\ UNCHANGED <<clock, zset, refused, lost>>
      /\ check' = [check EXCEPT ![p] = [pc |-> "prune", kind |-> kind, scope |-> "general", now |-> clock]]
      /\ concurrent' = (concurrent \/ \E q \in Procs : Busy(q))
  BY DEF Arrive
<1>3. ~concurrent /\ \A q \in Procs : ~Busy(q)
  BY <1>1, <1>2, Zenon
<1>4. PICK d : d = [pc |-> "prune", kind |-> kind, scope |-> "general", now |-> clock]
  BY Zenon
<1>5. /\ d.pc = "prune" /\ d.now = clock
      /\ \A q \in Procs : (q = p /\ check'[q] = d) \/ check'[q].pc = "idle"
  BY <1>2, <1>3, <1>4, Frame DEF Busy
<1>6. Fresh' /\ StuckFull'
  BY <1>5 DEF Fresh, StuckFull
<1>7. RefusedByRedis
  BY <1>1, <1>2, <1>3 DEF RefusalInv
<1>8. ASSUME NEW r \in refused
      PROVE  (\A q \in Procs : Busy(q) => check[q].now >= r.at)' /\ (Stuck(r, zset[r.scope]) \/ Left(r, zset[r.scope]))'
  <2>1. r.at \in Nat /\ r.at <= clock /\ clock \in Nat
    BY Refusal, Frame
  <2>2. (\A q \in Procs : Busy(q) => check[q].now >= r.at)'
    BY <1>5, <2>1 DEF Busy
  <2>3. CASE Stuck(r, zset[r.scope])
    BY <1>2, <2>2, <2>3 DEF Stuck
  <2>4. CASE Left(r, zset[r.scope])
    <3>1. clock > r.at /\ Cardinality(Remaining(r, zset[r.scope])) < Limit[r.scope]
      BY <2>4 DEF Left
    <3>2. Remaining(r, zset[r.scope])' = Remaining(r, zset[r.scope])
      BY <1>2 DEF Remaining, Then
    <3>3. Left(r, zset[r.scope])'
      BY <1>2, <1>5, <3>1, <3>2 DEF Left
    <3> QED
      BY <2>2, <3>3
  <2> QED
    BY <1>7, <2>3, <2>4 DEF RefusedByRedis
<1> QED
  BY <1>2, <1>6, <1>8 DEF RefusedByRedis

LEMMA PruneRefusals ==
  ASSUME Base, RedisInv, RefusalInv, NEW p \in Procs, Prune(p)
  PROVE  RefusalInv'
<1>1. SUFFICES ASSUME ~concurrent, ~lost PROVE Fresh' /\ StuckFull' /\ RefusedByRedis'
  BY DEF RefusalInv, Prune
<1>2. PICK d \in CheckType(0..clock), s \in Scopes :
           /\ check' = [check EXCEPT ![p] = d]
           /\ s = check[p].scope /\ d.pc = "count" /\ d.now = check[p].now /\ d.scope = s
           /\ zset' = [zset EXCEPT ![s] = {a \in @ : a.time + Window > d.now}]
  BY PruneMoves
<1>3. check[p].pc = "prune" /\ UNCHANGED <<clock, refused>> /\ Busy(p)
  BY DEF Prune, Busy
<1>4. check'[p] = d /\ \A q \in Procs : q = p \/ (check[q].pc = "idle" /\ check'[q].pc = "idle")
  BY <1>1, <1>2, <1>3, OneUnderWay
<1>5. \A t \in Scopes : zset'[t] = IF t = s THEN {a \in zset[s] : a.time + Window > d.now} ELSE zset[t]
  BY <1>2, Frame
<1>6. Fresh' /\ StuckFull'
  <2>1. \A e \in zset'[s] : e.time + Window > d.now
    BY <1>5
  <2>2. \A q \in Procs : check'[q].pc \in {"count", "full", "add"} => check'[q] = d
    BY <1>4
  <2>3. \A q \in Procs : check'[q].pc # "full"
    BY <1>2, <1>4
  <2> QED
    BY <1>2, <2>1, <2>2, <2>3 DEF Fresh, StuckFull
<1>7. ASSUME NEW r \in refused
      PROVE  (\A q \in Procs : Busy(q) => check[q].now >= r.at)' /\ (Stuck(r, zset[r.scope]) \/ Left(r, zset[r.scope]))'
  <2>1. /\ \A q \in Procs : Busy(q) => check[q].now >= r.at
        /\ Stuck(r, zset[r.scope]) \/ Left(r, zset[r.scope])
    BY <1>1 DEF RefusalInv, RefusedByRedis
  <2>2. (\A q \in Procs : Busy(q) => check[q].now >= r.at)'
    BY <1>2, <1>3, <1>4, <2>1 DEF Busy
  <2>3. /\ r.scope \in Scopes /\ r.at \in Nat /\ clock \in Nat /\ d.now \in Nat /\ d.now <= clock /\ d.now >= r.at
        /\ Limit[r.scope] \in Nat /\ IsFiniteSet(zset[r.scope])
    BY <1>2, <1>3, <2>1, Refusal, Frame DEF RedisInv, SetBounded
  <2>4. Remaining(r, zset'[r.scope]) \subseteq Remaining(r, zset[r.scope])
    BY <1>5, <2>3 DEF Remaining
  <2>5. Cardinality(Remaining(r, zset[r.scope])) < Limit[r.scope]
    BY <1>1, <2>1, StuckLeaves DEF Left, RedisInv
  <2>6. Cardinality(Remaining(r, zset'[r.scope])) < Limit[r.scope]
    BY <2>3, <2>4, <2>5, RemainingShrinks
  <2>7. Remaining(r, zset[r.scope])' = Remaining(r, zset'[r.scope])
    BY DEF Remaining, Then
  <2>8. CASE s # r.scope /\ Stuck(r, zset[r.scope])
    BY <1>5, <2>2, <2>3, <2>8 DEF Stuck, Then
  <2>9. CASE s # r.scope /\ Left(r, zset[r.scope])
    <3>1. Left(r, zset[r.scope])'
      BY <1>2, <1>3, <1>4, <2>6, <2>7, <2>9 DEF Left
    <3> QED
      BY <2>2, <3>1
  <2>10. CASE s = r.scope /\ d.now > r.at
    <3>1. Left(r, zset[r.scope])'
      BY <1>2, <1>3, <1>4, <2>3, <2>6, <2>7, <2>10 DEF Left
    <3> QED
      BY <2>2, <3>1
  <2>11. CASE s = r.scope /\ d.now = r.at
    <3>1. Stuck(r, zset[r.scope])
      <4>1. ~(check[p].now > r.at)
        BY <1>2, <2>3, <2>11
      <4>2. ~Left(r, zset[r.scope])
        BY <1>2, <1>3, <2>11, <4>1 DEF Left
      <4> QED
        BY <2>1, <4>2
    <3>2. zset'[r.scope] = zset[r.scope]
      BY <1>5, <2>11, <3>1 DEF Stuck
    <3> QED
      BY <2>2, <3>1, <3>2 DEF Stuck, Then
  <2> QED
    BY <2>1, <2>3, <2>8, <2>9, <2>10, <2>11
<1> QED
  BY <1>3, <1>6, <1>7 DEF RefusedByRedis

LEMMA CountRefusals ==
  ASSUME Base, RedisInv, RefusalInv, NEW p \in Procs, Count(p)
  PROVE  RefusalInv'
<1>1. SUFFICES ASSUME ~concurrent, ~lost PROVE Fresh' /\ StuckFull' /\ RefusedByRedis'
  BY DEF RefusalInv, Count
<1>2. PICK d \in CheckType(0..clock), s \in Scopes :
           /\ check' = [check EXCEPT ![p] = d]
           /\ s = check[p].scope /\ d.now = check[p].now /\ d.scope = s
           /\ IF Cardinality(zset[s]) >= Limit[s] THEN d.pc = "full" ELSE d.pc = "add"
  BY CountMoves
<1>3. check[p].pc = "count" /\ UNCHANGED <<clock, refused, zset>> /\ Busy(p)
  BY DEF Count, Busy
<1>4. check'[p] = d /\ \A q \in Procs : q = p \/ (check[q].pc = "idle" /\ check'[q].pc = "idle")
  BY <1>1, <1>2, <1>3, OneUnderWay
<1>5. \A e \in zset[s] : e.time + Window > d.now
  BY <1>1, <1>2, <1>3 DEF RefusalInv, Fresh
<1>6. Fresh'
  BY <1>2, <1>3, <1>4, <1>5 DEF Fresh
<1>7. StuckFull'
  BY <1>2, <1>3, <1>4 DEF StuckFull
<1>8. ASSUME NEW r \in refused
      PROVE  (\A q \in Procs : Busy(q) => check[q].now >= r.at)' /\ (Stuck(r, zset[r.scope]) \/ Left(r, zset[r.scope]))'
  <2>1. /\ \A q \in Procs : Busy(q) => check[q].now >= r.at
        /\ Stuck(r, zset[r.scope]) \/ Left(r, zset[r.scope])
    BY <1>1 DEF RefusalInv, RefusedByRedis
  <2>2. (\A q \in Procs : Busy(q) => check[q].now >= r.at)'
    BY <1>2, <1>3, <1>4, <2>1 DEF Busy
  <2>3. CASE Stuck(r, zset[r.scope])
    BY <1>3, <2>2, <2>3 DEF Stuck, Then
  <2>4. CASE Left(r, zset[r.scope])
    <3>1. Remaining(r, zset[r.scope])' = Remaining(r, zset[r.scope])
      BY <1>3 DEF Remaining, Then
    <3>2. Left(r, zset[r.scope])'
      BY <1>2, <1>3, <1>4, <2>4, <3>1 DEF Left
    <3> QED
      BY <2>2, <3>2
  <2> QED
    BY <2>1, <2>3, <2>4
<1> QED
  BY <1>3, <1>6, <1>7, <1>8 DEF RefusedByRedis

LEMMA OldestRefusals ==
  ASSUME Base, RefusalInv, NEW p \in Procs, Oldest(p)
  PROVE  RefusalInv'
<1>1. SUFFICES ASSUME ~concurrent, ~lost PROVE Fresh' /\ StuckFull' /\ RefusedByRedis'
  BY DEF RefusalInv, Oldest
<1>2. PICK d \in CheckType(0..clock), s \in Scopes, o \in Nat :
           /\ check' = [check EXCEPT ![p] = d] /\ d.pc = "idle"
           /\ s = check[p].scope
           /\ refused' = {[proc |-> p, scope |-> s, at |-> check[p].now, seconds |-> RetryAfter(check[p].now, o)]}
           /\ (zset[s] = {} /\ o = check[p].now) \/ \E a \in zset[s] : a.time = o
  BY OldestMoves
<1>3. check[p].pc = "full" /\ UNCHANGED <<clock, zset>> /\ Busy(p)
  BY DEF Oldest, Busy
<1>4. \A q \in Procs : check'[q].pc = "idle"
  <2>1. check'[p] = d /\ \A q \in Procs : q = p \/ (check[q].pc = "idle" /\ check'[q].pc = "idle")
    BY <1>1, <1>2, <1>3, OneUnderWay
  <2> QED
    BY <1>2, <2>1
<1>5. Fresh' /\ StuckFull'
  BY <1>4 DEF Fresh, StuckFull
<1>6. Cardinality(zset[s]) >= Limit[s] /\ \A e \in zset[s] : e.time + Window > check[p].now
  BY <1>1, <1>2, <1>3 DEF RefusalInv, Fresh, StuckFull
<1>7. PICK a \in zset[s] : a.time = o
  <2>1. Limit[s] \in Nat \ {0} /\ Cardinality({}) = 0
    BY FS_EmptySet, Frame
  <2>2. zset[s] # {}
    <3>1. SUFFICES ASSUME zset[s] = {} PROVE FALSE
      OBVIOUS
    <3>2. Cardinality(zset[s]) = 0
      BY <2>1, <3>1
    <3> QED
      BY <1>6, <2>1, <3>2
  <2> QED
    BY <1>2, <2>2
<1>8. o + Window < check[p].now + RetryAfter(check[p].now, o) * Second
  BY WaitsLongEnough, Frame
<1>9. ASSUME NEW r, r \in refused'
      PROVE  (\A q \in Procs : Busy(q) => check[q].now >= r.at)' /\ Stuck(r, zset[r.scope])'
  <2>1. r.scope = s /\ r.at = check[p].now /\ r.seconds = RetryAfter(check[p].now, o)
    BY <1>2, <1>9
  <2>2. (\A q \in Procs : Busy(q) => check[q].now >= r.at)'
    BY <1>4 DEF Busy
  <2>3. o + Window < Then(r) /\ Then(r) \in Nat /\ Window \in Nat
    <3>1. RetryAfter(check[p].now, o) * Second \in Nat
      <4>1. \A x, y \in Nat : x * y \in Nat
        OBVIOUS
      <4>2. RetryAfter(check[p].now, o) \in Nat /\ Second \in Nat
        BY WaitsLongEnough, Frame
      <4> QED
        BY <4>1, <4>2, Zenon
    <3> QED
      BY <1>8, <2>1, <3>1, Frame DEF Then
  <2>4. a.time + Window <= Then(r)
    BY <1>7, <2>3
  <2> QED
    BY <1>3, <1>6, <2>1, <2>2, <2>4 DEF Stuck, Then
<1> QED
  BY <1>5, <1>9 DEF RefusedByRedis

LEMMA AddRefusals ==
  ASSUME Base, RedisInv, RefusalInv, NEW p \in Procs, Add(p)
  PROVE  RefusalInv'
<1>1. SUFFICES ASSUME ~concurrent, ~lost PROVE Fresh' /\ StuckFull' /\ RefusedByRedis'
  BY DEF RefusalInv, Add
<1>2. PICK d \in CheckType(0..clock), s \in Scopes, e \in Attempt :
           /\ check' = [check EXCEPT ![p] = d]
           /\ s = check[p].scope /\ d.pc = "expire" /\ d.now = check[p].now /\ d.scope = s
           /\ e = [time |-> check[p].now, id |-> NewId]
           /\ zset' = [zset EXCEPT ![s] = @ \cup {e}]
           /\ Record(p, check[p].now)
  BY AddMoves
<1>3. check[p].pc = "add" /\ UNCHANGED <<clock, refused>> /\ Busy(p)
  BY DEF Add, Busy
<1>4. check'[p] = d /\ \A q \in Procs : q = p \/ (check[q].pc = "idle" /\ check'[q].pc = "idle")
  BY <1>1, <1>2, <1>3, OneUnderWay
<1>5. \A t \in Scopes : zset'[t] = IF t = s THEN zset[s] \cup {e} ELSE zset[t]
  BY <1>2, Frame
<1>6. Fresh' /\ StuckFull'
  BY <1>2, <1>4 DEF Fresh, StuckFull
<1>7. ~(Cardinality(zset[s]) >= Limit[s])
  <2>1. p \in Adding(s) /\ IsFiniteSet(Adding(s))
    BY <1>2, <1>3, AddingFinite DEF Adding
  <2>2. PICK x \in Nat : x = Cardinality(Adding(s)) /\ x # 0
    BY <2>1, FS_EmptySet, FS_CardinalityType
  <2>3. Cardinality(zset[s]) \in Nat /\ Limit[s] \in Nat /\ Cardinality(zset[s]) + x <= Limit[s]
    BY <1>1, <2>2, FS_CardinalityType, Frame DEF SetBounded, RedisInv
  <2> QED
    BY <2>2, <2>3
<1>8. ASSUME NEW r \in refused
      PROVE  (\A q \in Procs : Busy(q) => check[q].now >= r.at)' /\ (Stuck(r, zset[r.scope]) \/ Left(r, zset[r.scope]))'
  <2>1. /\ \A q \in Procs : Busy(q) => check[q].now >= r.at
        /\ Stuck(r, zset[r.scope]) \/ Left(r, zset[r.scope])
    BY <1>1 DEF RefusalInv, RefusedByRedis
  <2>2. (\A q \in Procs : Busy(q) => check[q].now >= r.at)'
    BY <1>2, <1>3, <1>4, <2>1 DEF Busy
  <2>3. r.scope \in Scopes
    BY Refusal
  <2>4. CASE Stuck(r, zset[r.scope])
    <3>1. r.scope # s
      BY <1>7, <2>4 DEF Stuck
    <3>2. zset'[r.scope] = zset[r.scope]
      BY <1>5, <2>3, <3>1
    <3> QED
      BY <2>2, <2>4, <3>2 DEF Stuck, Then
  <2>5. CASE Left(r, zset[r.scope])
    <3>1. Remaining(r, zset'[r.scope]) = Remaining(r, zset[r.scope])
      <4>1. CASE r.scope = s
        <5>1. check[p].now > r.at
          BY <1>2, <1>3, <2>5, <4>1 DEF Left
        <5>2. ~(e.time <= r.at)
          <6>1. e.time = check[p].now
            BY <1>2
          <6> QED
            BY <5>1, <6>1, Refusal, Frame
        <5>3. zset'[r.scope] = zset[r.scope] \cup {e}
          BY <1>5, <2>3, <4>1
        <5> QED
          BY <5>2, <5>3 DEF Remaining
      <4>2. CASE r.scope # s
        BY <1>5, <2>3, <4>2
      <4> QED
        BY <4>1, <4>2
    <3>2. Remaining(r, zset[r.scope])' = Remaining(r, zset[r.scope])
      BY <3>1 DEF Remaining, Then
    <3>3. Left(r, zset[r.scope])'
      BY <1>2, <1>3, <1>4, <2>5, <3>2 DEF Left
    <3> QED
      BY <2>2, <3>3
  <2> QED
    BY <2>1, <2>4, <2>5
<1> QED
  BY <1>3, <1>6, <1>8 DEF RefusedByRedis

LEMMA ExpireRefusals ==
  ASSUME Base, RefusalInv, NEW p \in Procs, Expire(p)
  PROVE  RefusalInv'
<1>1. SUFFICES ASSUME ~concurrent, ~lost PROVE Fresh' /\ StuckFull' /\ RefusedByRedis'
  BY DEF RefusalInv, Expire
<1>2. PICK d \in CheckType(0..clock) : check' = [check EXCEPT ![p] = d] /\ (d.pc = "idle" \/ (d.pc = "prune" /\ d.now = clock))
  BY Passing DEF Expire
<1>3. check[p].pc = "expire" /\ UNCHANGED <<clock, refused, zset>> /\ Busy(p)
  BY DEF Expire, Busy
<1>4. check'[p] = d /\ \A q \in Procs : q = p \/ (check[q].pc = "idle" /\ check'[q].pc = "idle")
  BY <1>1, <1>2, <1>3, OneUnderWay
<1>5. Fresh' /\ StuckFull'
  BY <1>2, <1>4 DEF Fresh, StuckFull
<1>6. ASSUME NEW r \in refused
      PROVE  (\A q \in Procs : Busy(q) => check[q].now >= r.at)' /\ (Stuck(r, zset[r.scope]) \/ Left(r, zset[r.scope]))'
  <2>1. Stuck(r, zset[r.scope]) \/ Left(r, zset[r.scope])
    BY <1>1 DEF RefusalInv, RefusedByRedis
  <2>2. r.at \in Nat /\ r.at <= clock /\ clock \in Nat
    BY Refusal, Frame
  <2>3. (\A q \in Procs : Busy(q) => check[q].now >= r.at)'
    BY <1>2, <1>4, <2>2 DEF Busy
  <2>4. CASE Stuck(r, zset[r.scope])
    BY <1>3, <2>3, <2>4 DEF Stuck, Then
  <2>5. CASE Left(r, zset[r.scope])
    <3>1. Remaining(r, zset[r.scope])' = Remaining(r, zset[r.scope])
      BY <1>3 DEF Remaining, Then
    <3>2. Left(r, zset[r.scope])'
      BY <1>2, <1>3, <1>4, <2>5, <3>1 DEF Left
    <3> QED
      BY <2>3, <3>2
  <2> QED
    BY <2>1, <2>4, <2>5
<1> QED
  BY <1>3, <1>5, <1>6 DEF RefusedByRedis

(* The key of a scope does not vanish while the only check under way still
   counts what was read at its start: EXPIRE allows a second more. *)
LEMMA KeyOutlasts ==
  ASSUME Base, RedisInv, ~lost, Tick, MaxDelay <= Second, NEW p \in Procs, Busy(p),
         NEW s \in Scopes, ~Expiring(s), NEW e \in zset[s], e.time + Window > check[p].now
  PROVE  expiry[s] # clock + 1
<1>1. e.time + Window + Second <= expiry[s]
  BY DEF Kept, RedisInv
<1>2. clock - check[p].now < MaxDelay
  BY DEF Tick
<1>3. /\ e.time \in Nat /\ clock \in Nat /\ check[p].now \in Nat /\ MaxDelay \in Nat /\ Second \in Nat /\ Window \in Nat
      /\ expiry[s] \in Nat
  <2>1. e \in Attempt
    BY Frame
  <2> QED
    BY <2>1, Frame DEF Attempt
<1> QED
  BY <1>1, <1>2, <1>3

LEMMA KeyStays ==
  ASSUME Base, RedisInv, ~concurrent, ~lost, Tick, MaxDelay <= Second,
         NEW p \in Procs, Busy(p), check[p].pc # "expire",
         NEW e \in zset[check[p].scope], e.time + Window > check[p].now
  PROVE  expiry[check[p].scope] # clock + 1
<1>1. PICK s \in Scopes : s = check[p].scope
  BY Frame
<1>2. ~Expiring(s)
  BY DEF Expiring, Base, OneCheck, Busy
<1> QED
  BY <1>1, <1>2, KeyOutlasts

LEMMA TickRefusals ==
  ASSUME Base, RedisInv, RefusalInv, Tick, MaxDelay <= Second
  PROVE  RefusalInv'
<1>1. SUFFICES ASSUME ~concurrent, ~lost' PROVE Fresh' /\ StuckFull' /\ RefusedByRedis'
  BY DEF RefusalInv, Tick
<1>2. clock' = clock + 1 /\ UNCHANGED <<check, refused>> /\ ~lost
  BY <1>1 DEF Tick
<1>3. \A s \in Scopes : zset'[s] = IF expiry[s] = clock + 1 THEN {} ELSE zset[s]
  BY DEF Tick
<1>4. Fresh /\ StuckFull /\ RefusedByRedis
  BY <1>1, <1>2 DEF RefusalInv
<1>5. Fresh'
  BY <1>2, <1>3, <1>4, Frame DEF Fresh
<1>6. ASSUME NEW z \in SUBSET Attempt, NEW s \in Scopes, Cardinality(z) >= Limit[s] PROVE z # {}
  <2>1. SUFFICES ASSUME z = {} PROVE FALSE
    OBVIOUS
  <2>2. Cardinality(z) = 0 /\ Limit[s] \in Nat \ {0}
    BY <2>1, FS_EmptySet, Frame
  <2> QED
    BY <1>6, <2>2
<1>7. StuckFull'
  <2>1. SUFFICES ASSUME NEW p \in Procs, check[p].pc = "full"
                 PROVE  zset'[check[p].scope] = zset[check[p].scope]
    BY <1>2, <1>4 DEF StuckFull
  <2>2. PICK e \in zset[check[p].scope] : e.time + Window > check[p].now
    <3>1. zset[check[p].scope] # {}
      BY <1>4, <1>6, <2>1, Frame DEF StuckFull
    <3> QED
      BY <1>4, <2>1, <3>1 DEF Fresh
  <2>3. expiry[check[p].scope] # clock + 1
    BY <1>1, <1>2, <2>1, <2>2, KeyStays DEF Busy
  <2> QED
    BY <1>3, <2>3, Frame
<1>8. ASSUME NEW r \in refused
      PROVE  (\A q \in Procs : Busy(q) => check[q].now >= r.at)' /\ (Stuck(r, zset[r.scope]) \/ Left(r, zset[r.scope]))'
  <2>1. /\ \A q \in Procs : Busy(q) => check[q].now >= r.at
        /\ Stuck(r, zset[r.scope]) \/ Left(r, zset[r.scope])
    BY <1>4 DEF RefusedByRedis
  <2>2. (\A q \in Procs : Busy(q) => check[q].now >= r.at)'
    BY <1>2, <2>1 DEF Busy
  <2>3. /\ r.scope \in Scopes /\ r.at \in Nat /\ r.at <= clock /\ clock \in Nat /\ clock + 1 > r.at
        /\ Limit[r.scope] \in Nat \ {0} /\ IsFiniteSet(zset[r.scope])
    BY Refusal, Frame DEF RedisInv, SetBounded
  <2>4. Remaining(r, zset[r.scope])' = Remaining(r, zset'[r.scope])
    BY <1>2 DEF Remaining, Then
  <2>5. CASE expiry[r.scope] # clock + 1 /\ Stuck(r, zset[r.scope])
    BY <1>2, <1>3, <2>2, <2>3, <2>5 DEF Stuck, Then
  <2>6. CASE expiry[r.scope] # clock + 1 /\ Left(r, zset[r.scope])
    <3>1. zset'[r.scope] = zset[r.scope]
      BY <1>3, <2>3, <2>6
    <3>2. Left(r, zset[r.scope])'
      BY <1>2, <2>3, <2>4, <2>6, <3>1 DEF Left
    <3> QED
      BY <2>2, <3>2
  <2>7. CASE expiry[r.scope] = clock + 1
    <3>1. Cardinality(Remaining(r, zset'[r.scope])) < Limit[r.scope]
      <4>1. Remaining(r, zset'[r.scope]) = {} /\ Cardinality({}) = 0
        BY <1>3, <2>3, <2>7, FS_EmptySet DEF Remaining
      <4> QED
        BY <2>3, <4>1
    <3>2. ASSUME NEW p \in Procs, check[p].pc \in {"prune", "count", "full", "add"}, check[p].scope = r.scope
          PROVE  check[p].now > r.at
      <4>1. CASE Left(r, zset[r.scope])
        BY <3>2, <4>1 DEF Left
      <4>2. CASE Stuck(r, zset[r.scope])
        <5>1. SUFFICES ASSUME ~(check[p].now > r.at) PROVE FALSE
          OBVIOUS
        <5>2. check[p].now = r.at
          <6>1. check[p].now >= r.at
            BY <2>1, <3>2 DEF Busy
          <6>2. check[p].now \in Nat
            BY Frame
          <6> QED
            BY <2>3, <5>1, <6>1, <6>2
        <5>3. PICK e \in zset[r.scope] : e.time + Window > r.at
          BY <4>2 DEF Stuck
        <5> QED
          BY <1>1, <1>2, <2>7, <3>2, <5>2, <5>3, KeyStays DEF Busy
      <4> QED
        BY <2>1, <4>1, <4>2
    <3>3. Left(r, zset[r.scope])'
      BY <1>2, <2>3, <2>4, <3>1, <3>2 DEF Left
    <3> QED
      BY <2>2, <3>3
  <2> QED
    BY <2>1, <2>5, <2>6, <2>7
<1> QED
  BY <1>2, <1>5, <1>7, <1>8 DEF RefusedByRedis

LEMMA RefusalStep ==
  ASSUME Base, backend = "redis" => RedisInv /\ RefusalInv, [LimiterNext]_limiterVars, MaxDelay <= Second
  PROVE  (backend = "redis" => RefusalInv)'
<1>1. backend' = backend
  BY BackendStays
<1>2. SUFFICES ASSUME backend = "redis" PROVE RefusalInv'
  BY <1>1
<1>3. CASE UNCHANGED limiterVars
  <2>1. UNCHANGED <<clock, zset, check, refused, concurrent, lost>>
    BY <1>3 DEF limiterVars
  <2> QED
    BY <1>2, <2>1 DEF RefusalInv, Fresh, StuckFull, RefusedByRedis, Stuck, Left, Remaining, Then, Busy
<1>4. CASE Tick
  BY <1>2, <1>4, TickRefusals
<1>5. ASSUME NEW p \in Procs, NEW kind \in {"plain", "login"}, Arrive(p, kind) PROVE RefusalInv'
  BY <1>2, <1>5, ArriveRefusals
<1>6. ASSUME NEW p \in Procs, CheckMemory(p) PROVE FALSE
  BY <1>2, <1>6 DEF CheckMemory
<1>7. ASSUME NEW p \in Procs, RedisFails(p) PROVE RefusalInv'
  BY <1>7 DEF RedisFails, RefusalInv
<1>8. ASSUME NEW p \in Procs, Prune(p) \/ Count(p) \/ Oldest(p) \/ Add(p) \/ Expire(p) PROVE RefusalInv'
  BY <1>2, <1>8, PruneRefusals, CountRefusals, OldestRefusals, AddRefusals, ExpireRefusals
<1> QED
  BY <1>3, <1>4, <1>5, <1>6, <1>7, <1>8 DEF LimiterNext

-----------------------------------------------------------------------------
(* The Redis backend, one check at a time: what counted when the check began. *)

(* Steps after which the checks under way are those before, and the entries too. *)
LEMMA BeganKept ==
  ASSUME Began, concurrent => concurrent', lost => lost', UNCHANGED <<zset, admitted>>,
         \A p \in Procs : Busy(p)' => Busy(p) /\ check'[p].now = check[p].now
  PROVE  Began'
BY DEF Began

(* A check that begins: what counts now has its entry. *)
LEMMA Begins ==
  ASSUME Base, RedisInv, ~concurrent', ~lost, UNCHANGED <<zset, admitted>>,
         \A p \in Procs : Busy(p)' => check'[p].now = clock
  PROVE  Began'
<1>1. ASSUME NEW p \in Procs, Busy(p)', NEW q \in Procs, NEW s \in Scopes, NEW a \in admitted[q][s]
      PROVE  a.time <= check'[p].now /\ (a.time + Window > check'[p].now => a \in zset[s])
  BY <1>1, Facts DEF Entered, RedisInv
<1> QED
  BY <1>1 DEF Began

LEMMA ArriveBegan ==
  ASSUME Base, RedisInv, Began, NEW p \in Procs, NEW kind \in {"plain", "login"}, Arrive(p, kind)
  PROVE  Began'
<1>1. SUFFICES ASSUME ~concurrent', ~lost' PROVE Began'
  BY DEF Began
<1>2. /\ UNCHANGED <<clock, zset, admitted, lost>>
      /\ check' = [check EXCEPT ![p] = [pc |-> "prune", kind |-> kind, scope |-> "general", now |-> clock]]
      /\ concurrent' = (concurrent \/ \E q \in Procs : Busy(q))
  BY DEF Arrive
<1>3. \A q \in Procs : ~Busy(q)
  BY <1>1, <1>2, Zenon
<1>4. \A q \in Procs : Busy(q)' => check'[q].now = clock
  BY <1>2, <1>3, Frame DEF Busy
<1> QED
  BY <1>1, <1>2, <1>4, Begins

LEMMA CommandBegan ==
  ASSUME Base, RedisInv, Began, NEW p \in Procs, Prune(p) \/ Count(p) \/ Oldest(p) \/ RedisFails(p)
  PROVE  Began'
<1>1. CASE RedisFails(p)
  BY <1>1 DEF RedisFails, Began
<1>2. CASE Count(p)
  <2>1. PICK d \in CheckType(0..clock) : check' = [check EXCEPT ![p] = d] /\ d.now = check[p].now
    BY <1>2, CountMoves
  <2>2. UNCHANGED <<zset, admitted, concurrent, lost>> /\ Busy(p)
    BY <1>2 DEF Count, Busy
  <2>3. \A q \in Procs : Busy(q)' => Busy(q) /\ check'[q].now = check[q].now
    BY <2>1, <2>2, Frame DEF Busy
  <2> QED
    BY <2>2, <2>3, BeganKept
<1>3. CASE Oldest(p)
  <2>1. PICK d \in CheckType(0..clock) : check' = [check EXCEPT ![p] = d] /\ d.pc = "idle"
    BY <1>3, OldestMoves
  <2>2. UNCHANGED <<zset, admitted, concurrent, lost>>
    BY <1>3 DEF Oldest
  <2>3. \A q \in Procs : Busy(q)' => Busy(q) /\ check'[q].now = check[q].now
    BY <2>1, <2>2, Frame DEF Busy
  <2> QED
    BY <2>2, <2>3, BeganKept
<1>4. CASE Prune(p)
  <2>1. PICK d \in CheckType(0..clock), s \in Scopes :
           /\ check' = [check EXCEPT ![p] = d]
           /\ s = check[p].scope /\ d.pc = "count" /\ d.now = check[p].now /\ d.scope = s
           /\ zset' = [zset EXCEPT ![s] = {a \in @ : a.time + Window > d.now}]
    BY <1>4, PruneMoves
  <2>2. UNCHANGED <<admitted, concurrent, lost>> /\ Busy(p)
    BY <1>4 DEF Prune, Busy
  <2>3. SUFFICES ASSUME ~concurrent, ~lost, NEW q \in Procs, Busy(q)', NEW t \in Procs, NEW u \in Scopes, NEW a \in admitted[t][u]
                 PROVE  a.time <= check'[q].now /\ (a.time + Window > check'[q].now => a \in zset'[u])
    BY <2>2 DEF Began
  <2>4. q = p
    <3>1. check'[p] = d /\ \A v \in Procs : v = p \/ (check[v].pc = "idle" /\ check'[v].pc = "idle")
      BY <2>1, <2>2, <2>3, OneUnderWay
    <3> QED
      BY <2>3, <3>1 DEF Busy
  <2>5. check'[p].now = check[p].now /\ d.now = check[p].now
    BY <2>1, Frame
  <2>6. a.time <= check[p].now /\ (a.time + Window > check[p].now => a \in zset[u])
    BY <2>2, <2>3 DEF Began
  <2>7. zset'[u] = IF u = s THEN {b \in zset[s] : b.time + Window > d.now} ELSE zset[u]
    BY <2>1, Frame
  <2> QED
    BY <2>4, <2>5, <2>6, <2>7
<1> QED
  BY <1>1, <1>2, <1>3, <1>4

LEMMA AddBegan ==
  ASSUME Base, RedisInv, Began, NEW p \in Procs, Add(p)
  PROVE  Began'
<1>1. PICK d \in CheckType(0..clock), s \in Scopes, e \in Attempt :
           /\ check' = [check EXCEPT ![p] = d]
           /\ s = check[p].scope /\ d.pc = "expire" /\ d.now = check[p].now /\ d.scope = s
           /\ e = [time |-> check[p].now, id |-> NewId]
           /\ zset' = [zset EXCEPT ![s] = @ \cup {e}]
           /\ Record(p, check[p].now)
  BY AddMoves
<1>2. UNCHANGED <<concurrent, lost>> /\ Busy(p)
  BY DEF Add, Busy
<1>3. \A q \in Procs, r \in Scopes :
        admitted'[q][r] = IF q = p /\ r = s THEN admitted[p][s] \cup {e} ELSE admitted[q][r]
  <2>1. Enters(p, s, e)
    BY <1>1, AddRecords, Zenon
  <2> QED
    BY <2>1 DEF Enters
<1>4. SUFFICES ASSUME ~concurrent, ~lost, NEW q \in Procs, Busy(q)', NEW t \in Procs, NEW u \in Scopes, NEW a \in admitted'[t][u]
               PROVE  a.time <= check'[q].now /\ (a.time + Window > check'[q].now => a \in zset'[u])
  BY <1>2 DEF Began
<1>5. q = p
  <2>1. check'[p] = d /\ \A v \in Procs : v = p \/ (check[v].pc = "idle" /\ check'[v].pc = "idle")
    BY <1>1, <1>2, <1>4, OneUnderWay
  <2> QED
    BY <1>4, <2>1 DEF Busy
<1>6. check'[p].now = check[p].now /\ check[p].now \in Nat
  BY <1>1, Frame
<1>7. zset'[u] = IF u = s THEN zset[s] \cup {e} ELSE zset[u]
  BY <1>1, Frame
<1>8. CASE a \in admitted[t][u]
  BY <1>2, <1>4, <1>5, <1>6, <1>7, <1>8 DEF Began
<1>9. CASE a = e /\ u = s
  <2>1. a.time = check[p].now
    BY <1>1, <1>9
  <2> QED
    BY <1>5, <1>6, <1>7, <1>9, <2>1
<1> QED
  BY <1>3, <1>8, <1>9

LEMMA ExpireBegan ==
  ASSUME Base, RedisInv, Began, NEW p \in Procs, Expire(p)
  PROVE  Began'
<1>1. SUFFICES ASSUME ~concurrent, ~lost PROVE Began'
  BY DEF Began, Expire
<1>2. PICK d \in CheckType(0..clock) : check' = [check EXCEPT ![p] = d] /\ (d.pc = "idle" \/ (d.pc = "prune" /\ d.now = clock))
  BY Passing DEF Expire
<1>3. UNCHANGED <<zset, admitted, concurrent, lost>> /\ Busy(p)
  BY DEF Expire, Busy
<1>4. check'[p] = d /\ \A q \in Procs : q = p \/ (check[q].pc = "idle" /\ check'[q].pc = "idle")
  BY <1>1, <1>2, <1>3, OneUnderWay
<1>5. \A q \in Procs : Busy(q)' => check'[q].now = clock
  BY <1>2, <1>4 DEF Busy
<1> QED
  BY <1>1, <1>3, <1>5, Begins

LEMMA TickBegan ==
  ASSUME Base, RedisInv, Began, Tick, MaxDelay <= Second
  PROVE  Began'
<1>1. UNCHANGED <<check, admitted, concurrent>>
  BY DEF Tick
<1>2. \A s \in Scopes : zset'[s] = IF expiry[s] = clock + 1 THEN {} ELSE zset[s]
  BY DEF Tick
<1>3. SUFFICES ASSUME ~concurrent, ~lost', NEW p \in Procs, Busy(p), NEW q \in Procs, NEW s \in Scopes, NEW a \in admitted[q][s]
               PROVE  a.time <= check[p].now /\ (a.time + Window > check[p].now => a \in zset'[s])
  BY <1>1 DEF Began, Busy
<1>4. ~lost /\ (Expiring(s) => expiry[s] # clock + 1)
  BY <1>3 DEF Tick, Expiring
<1>5. a.time <= check[p].now /\ (a.time + Window > check[p].now => a \in zset[s])
  BY <1>3, <1>4 DEF Began
<1>6. ASSUME a.time + Window > check[p].now PROVE expiry[s] # clock + 1
  <2>1. CASE Expiring(s)
    BY <1>4, <2>1
  <2>2. CASE ~Expiring(s)
    BY <1>3, <1>4, <1>5, <1>6, <2>2, KeyOutlasts
  <2> QED
    BY <2>1, <2>2
<1> QED
  BY <1>2, <1>5, <1>6

LEMMA BeganStep ==
  ASSUME Base, backend = "redis" => RedisInv /\ Began, [LimiterNext]_limiterVars, MaxDelay <= Second
  PROVE  (backend = "redis" => Began)'
<1>1. backend' = backend
  BY BackendStays
<1>2. SUFFICES ASSUME backend = "redis" PROVE Began'
  BY <1>1
<1>3. CASE UNCHANGED limiterVars
  <2>1. UNCHANGED <<zset, admitted, check, concurrent, lost>>
    BY <1>3 DEF limiterVars
  <2> QED
    BY <1>2, <2>1, BeganKept DEF Busy
<1>4. CASE Tick
  BY <1>2, <1>4, TickBegan
<1>5. ASSUME NEW p \in Procs, NEW kind \in {"plain", "login"}, Arrive(p, kind) PROVE Began'
  BY <1>2, <1>5, ArriveBegan
<1>6. ASSUME NEW p \in Procs, CheckMemory(p) PROVE FALSE
  BY <1>2, <1>6 DEF CheckMemory
<1>7. ASSUME NEW p \in Procs, Prune(p) \/ Count(p) \/ Oldest(p) \/ Add(p) \/ Expire(p) \/ RedisFails(p) PROVE Began'
  BY <1>2, <1>7, CommandBegan, AddBegan, ExpireBegan
<1> QED
  BY <1>3, <1>4, <1>5, <1>6, <1>7 DEF LimiterNext

-----------------------------------------------------------------------------
(* The windows. *)

(* Memory: what is admitted in the window that ends now. *)
NowBounded ==
  backend = "memory" => \A p \in Procs, s \in Scopes : Cardinality(Counted({p}, s, clock, Window + 1)) <= Limit[s]

LEMMA MemoryCounts ==
  ASSUME Base, InBucket, NEW p \in Procs, NEW s \in Scopes
  PROVE  Cardinality(Counted({p}, s, clock, Window + 1)) <= Limit[s]
<1>1. clock \in Nat /\ Window \in Nat /\ Limit[s] \in Nat /\ Len(bucket[p][s]) \in Nat /\ Len(bucket[p][s]) <= Limit[s]
  BY Facts
<1>2. PICK u \in Nat : u + Window >= clock /\ \A t \in Nat : t + (Window + 1) > clock => t >= u
  <2>1. CASE clock >= Window
    <3>1. PICK u \in Nat : u = clock - Window
      BY <1>1, <2>1
    <3>2. u + Window >= clock
      BY <1>1, <3>1
    <3>3. \A t \in Nat : t + (Window + 1) > clock => t >= u
      BY <1>1, <3>1
    <3> QED
      BY <3>2, <3>3
  <2>2. CASE ~(clock >= Window)
    BY <1>1, <2>2
  <2> QED
    BY <2>1, <2>2
<1>3. Counted({p}, s, clock, Window + 1) \in SUBSET Since(p, s, u)
  <2>1. ASSUME NEW a \in Counted({p}, s, clock, Window + 1) PROVE a \in Since(p, s, u)
    <3>1. a \in admitted[p][s] /\ a.time + (Window + 1) > clock
      BY DEF Counted
    <3>2. a.time \in Nat
      BY <3>1, Facts
    <3> QED
      BY <1>2, <3>1, <3>2 DEF Since
  <2> QED
    BY <2>1
<1>4. IsFiniteSet(Since(p, s, u)) /\ Cardinality(Since(p, s, u)) \in Nat
  BY SinceFinite
<1>5. Cardinality(Since(p, s, u)) <= Len(bucket[p][s]) - 0
  <2>1. 0 \in 0..Len(bucket[p][s])
    BY <1>1
  <2> QED
    BY <1>2, <2>1 DEF InBucket
<1>6. /\ Cardinality(Counted({p}, s, clock, Window + 1)) \in Nat
      /\ Cardinality(Counted({p}, s, clock, Window + 1)) <= Cardinality(Since(p, s, u))
  BY <1>3, <1>4, FS_Subset, FS_CardinalityType
<1> QED
  BY <1>1, <1>4, <1>5, <1>6

(* Memory: a step admits nothing in the past. *)
LEMMA PastStays ==
  ASSUME Base, backend = "memory", [LimiterNext]_limiterVars,
         NEW P \in SUBSET Procs, NEW s \in Scopes, NEW t \in 0..clock', t # clock', NEW span
  PROVE  t \in 0..clock /\ Counted(P, s, t, span)' = Counted(P, s, t, span)
<1>1. clock \in Nat
  BY Frame
<1>2. CASE admitted' = admitted /\ clock' \in {clock, clock + 1}
  BY <1>1, <1>2 DEF Counted
<1>3. ASSUME NEW p \in Procs, Record(p, clock), clock' = clock
      PROVE  t \in 0..clock /\ Counted(P, s, t, span)' = Counted(P, s, t, span)
  <2>0. clock \in 0..clock
    BY <1>1
  <2>1. PICK r0 \in Scopes, b \in Attempt :
           r0 = check[p].scope /\ b.time = clock /\ b = [time |-> clock, id |-> NewId] /\ Enters(p, r0, b)
    BY <1>3, <2>0, Recorded, Zenon
  <2>2. t < clock
    BY <1>1, <1>3
  <2>3. ~(b.time <= t)
    BY <1>1, <2>1, <2>2
  <2>4. \A q \in P : {a \in admitted'[q][s] : a.time <= t /\ a.time + span > t}
                       = {a \in admitted[q][s] : a.time <= t /\ a.time + span > t}
    BY <2>1, <2>3 DEF Enters
  <2> QED
    BY <1>1, <1>3, <2>4 DEF Counted
<1>4. CASE UNCHANGED limiterVars
  BY <1>2, <1>4 DEF limiterVars
<1>5. CASE Tick
  BY <1>2, <1>5 DEF Tick
<1>6. ASSUME NEW p \in Procs, NEW kind \in {"plain", "login"}, Arrive(p, kind) PROVE admitted' = admitted /\ clock' = clock
  BY <1>6 DEF Arrive
<1>7. ASSUME NEW p \in Procs, CheckMemory(p) PROVE clock' = clock /\ (admitted' = admitted \/ Record(p, clock))
  BY <1>7 DEF CheckMemory
<1>8. ASSUME NEW p \in Procs, Prune(p) \/ Count(p) \/ Oldest(p) \/ Add(p) \/ Expire(p) \/ RedisFails(p)
      PROVE  FALSE
  BY <1>8 DEF Prune, Count, Oldest, Add, Expire, RedisFails, Base, Backends
<1> QED
  BY <1>2, <1>3, <1>4, <1>5, <1>6, <1>7, <1>8 DEF LimiterNext

LEMMA CountedFinite ==
  ASSUME Base, NEW P \in SUBSET Procs, NEW s \in Scopes, NEW t, NEW span
  PROVE  /\ Counted(P, s, t, span) \in SUBSET All
         /\ IsFiniteSet(Counted(P, s, t, span)) /\ Cardinality(Counted(P, s, t, span)) \in Nat
<1>1. Counted(P, s, t, span) \in SUBSET All
  BY DEF Counted, All
<1> QED
  BY <1>1, FS_Subset, FS_CardinalityType DEF Base, Numbered

(* Redis: a new attempt in a span whose attempts all have their entries. *)
LEMMA AddCounts ==
  ASSUME Base, RedisInv, NEW p \in Procs, Add(p), NEW s \in Scopes, s = check[p].scope, NEW t, NEW span,
         Counted(Procs, s, t, span) \subseteq zset[s]
  PROVE  /\ Cardinality(Counted(Procs, s, t, span)') <= Limit[s] + Cardinality(Procs) - 1
         /\ ~concurrent => Cardinality(Counted(Procs, s, t, span)') <= Limit[s]
<1>1. PICK e \in Attempt : \A q \in Procs, r \in Scopes :
           admitted'[q][r] = IF q = p /\ r = s THEN admitted[p][s] \cup {e} ELSE admitted[q][r]
  <2>1. PICK d \in CheckType(0..clock), r \in Scopes, e \in Attempt :
           /\ r = check[p].scope
           /\ e = [time |-> check[p].now, id |-> NewId] /\ Record(p, check[p].now)
    BY AddMoves
  <2>2. Enters(p, r, e) /\ r = s
    BY <2>1, AddRecords, Zenon
  <2>3. Enters(p, s, e)
    BY <2>2, Zenon
  <2> QED
    BY <2>3 DEF Enters
<1>2. Counted(Procs, s, t, span)' \in SUBSET (zset[s] \cup {e})
  <2>1. ASSUME NEW a \in Counted(Procs, s, t, span)', a # e PROVE a \in Counted(Procs, s, t, span)
    BY <1>1, <2>1 DEF Counted
  <2> QED
    BY <2>1
<1>3. IsFiniteSet(zset[s])
  BY DEF RedisInv, SetBounded
<1>4. PICK z \in Nat : z = Cardinality(zset[s])
  BY <1>3, FS_CardinalityType
<1>5. IsFiniteSet(zset[s] \cup {e}) /\ Cardinality(zset[s] \cup {e}) \in Nat /\ Cardinality(zset[s] \cup {e}) <= z + 1
  <2>1. /\ IsFiniteSet(zset[s] \cup {e})
        /\ Cardinality(zset[s] \cup {e}) = IF e \in zset[s] THEN Cardinality(zset[s]) ELSE Cardinality(zset[s]) + 1
    BY <1>3, FS_AddElement
  <2>2. Cardinality(zset[s] \cup {e}) \in {z, z + 1}
    BY <1>4, <2>1
  <2> QED
    BY <2>1, <2>2
<1>6. PICK c \in Nat : c = Cardinality(Counted(Procs, s, t, span)') /\ c <= z + 1
  BY <1>2, <1>5, FS_Subset, FS_CardinalityType
<1>7. PICK x \in Nat : x = Cardinality(Adding(s)) /\ x # 0
  <2>1. p \in Adding(s) /\ IsFiniteSet(Adding(s)) /\ Cardinality(Adding(s)) \in Nat
    BY AddingFinite DEF Adding, Add
  <2> QED
    BY <2>1, FS_EmptySet
<1>8. z + x <= Limit[s] + Cardinality(Procs) - 1 /\ (~concurrent => z + x <= Limit[s])
  BY <1>4, <1>7 DEF RedisInv, SetBounded
<1>9. Limit[s] \in Nat /\ Cardinality(Procs) \in Nat
  BY AddingFinite, Frame
<1> QED
  BY <1>6, <1>7, <1>8, <1>9

(* ... and in one that it is not in. *)
LEMMA AddElsewhere ==
  ASSUME Base, NEW p \in Procs, Add(p), NEW s \in Scopes, NEW t \in Nat, NEW span,
         s # check[p].scope \/ t < check[p].now
  PROVE  Counted(Procs, s, t, span)' = Counted(Procs, s, t, span)
<1>1. PICK r0 \in Scopes, e \in Attempt :
           /\ r0 = check[p].scope /\ e.time = check[p].now
           /\ \A q \in Procs, r \in Scopes :
                admitted'[q][r] = IF q = p /\ r = r0 THEN admitted[p][r0] \cup {e} ELSE admitted[q][r]
  <2>1. PICK d \in CheckType(0..clock), r \in Scopes, e \in Attempt :
           /\ r = check[p].scope
           /\ e = [time |-> check[p].now, id |-> NewId] /\ Record(p, check[p].now)
    BY AddMoves
  <2>2. e.time = check[p].now
    BY <2>1
  <2>3. Enters(p, r, e)
    BY <2>1, AddRecords, Zenon
  <2> QED
    BY <2>1, <2>2, <2>3 DEF Enters
<1>2. s # r0 \/ ~(e.time <= t)
  BY <1>1, Frame
<1>3. \A q \in Procs : {a \in admitted'[q][s] : a.time <= t /\ a.time + span > t}
                        = {a \in admitted[q][s] : a.time <= t /\ a.time + span > t}
  BY <1>1, <1>2
<1> QED
  BY <1>3 DEF Counted

LEMMA AddAdmits ==
  ASSUME Base, RedisInv, Began, AdmittedBounded, backend = "redis", NEW p \in Procs, Add(p)
  PROVE  AdmittedBounded'
<1>0. UNCHANGED <<backend, clock, concurrent, lost>>
  BY DEF Add
<1>1. ASSUME ~lost, NEW s \in Scopes, NEW t \in 0..clock
      PROVE  /\ Cardinality(Counted(Procs, s, t, Sure)') <= Limit[s] + Cardinality(Procs) - 1
             /\ ~concurrent => Cardinality(Counted(Procs, s, t, Window)') <= Limit[s]
  <2>0. t \in Nat /\ clock \in Nat /\ Window \in Nat /\ MaxDelay \in Nat /\ check[p].now \in Nat
        /\ clock <= check[p].now + MaxDelay /\ Busy(p)
    BY Frame DEF Base, Timely, Add, Busy
  <2>1. CASE s # check[p].scope \/ t < check[p].now
    <3>1. /\ Counted(Procs, s, t, Sure)' = Counted(Procs, s, t, Sure)
          /\ Counted(Procs, s, t, Window)' = Counted(Procs, s, t, Window)
      BY <2>0, <2>1, AddElsewhere
    <3>2. /\ Cardinality(Counted(Procs, s, t, Sure)) <= Limit[s] + Cardinality(Procs) - 1
          /\ ~concurrent => Cardinality(Counted(Procs, s, t, Window)) <= Limit[s]
      BY <1>1 DEF AdmittedBounded, AtMostLimit, OvershootBounded
    <3> QED
      BY <3>1, <3>2
  <2>2. CASE s = check[p].scope /\ t >= check[p].now
    <3>1. Counted(Procs, s, t, Sure) \subseteq zset[s]
      <4>1. SUFFICES ASSUME NEW a \in Counted(Procs, s, t, Sure) PROVE a \in zset[s]
        OBVIOUS
      <4>2. PICK q \in Procs : a \in admitted[q][s] /\ a.time + Sure > t
        BY <4>1 DEF Counted
      <4>3. a.time \in Nat
        BY <4>2, Facts
      <4>4. a.time + Window > clock
        BY <2>0, <2>2, <4>2, <4>3 DEF Sure
      <4> QED
        BY <1>1, <4>2, <4>4 DEF Entered, RedisInv
    <3>2. ~concurrent => Counted(Procs, s, t, Window) \subseteq zset[s]
      <4>1. SUFFICES ASSUME ~concurrent, NEW a \in Counted(Procs, s, t, Window) PROVE a \in zset[s]
        OBVIOUS
      <4>2. PICK q \in Procs : a \in admitted[q][s] /\ a.time + Window > t
        BY <4>1 DEF Counted
      <4>3. a.time \in Nat
        BY <4>2, Facts
      <4>4. a.time + Window > check[p].now
        BY <2>0, <2>2, <4>2, <4>3
      <4> QED
        BY <1>1, <2>0, <4>1, <4>2, <4>4 DEF Began
    <3> QED
      BY <2>2, <3>1, <3>2, AddCounts
  <2>3. t < check[p].now \/ t >= check[p].now
    BY <2>0
  <2> QED
    BY <2>1, <2>2, <2>3
<1>2. AtMostLimit'
  BY <1>0, <1>1 DEF AtMostLimit
<1>3. OvershootBounded'
  BY <1>0, <1>1 DEF OvershootBounded, Sure
<1> QED
  BY <1>2, <1>3 DEF AdmittedBounded

(* Redis: time passes, or nothing is admitted. *)
LEMMA RedisAdmitted ==
  ASSUME Base, AdmittedBounded, backend = "redis", backend' = backend, admitted' = admitted,
         clock' \in {clock, clock + 1}, ~lost' => ~lost, ~concurrent' => ~concurrent
  PROVE  AdmittedBounded'
<1>1. clock \in Nat /\ \A s \in Scopes : Limit[s] \in Nat
  BY Frame
<1>2. Cardinality(Procs) \in Nat /\ Sure \in Nat /\ Window \in Nat
  BY LimiterAssumption, FS_CardinalityType DEF Sure
<1>3. \A P, s, t, span : Counted(P, s, t, span)' = Counted(P, s, t, span)
  BY DEF Counted
<1>4. ASSUME NEW s \in Scopes, NEW span \in Nat
      PROVE  Cardinality(Counted(Procs, s, clock + 1, span)) <= Cardinality(Counted(Procs, s, clock, span))
             /\ Cardinality(Counted(Procs, s, clock + 1, span)) \in Nat
             /\ Cardinality(Counted(Procs, s, clock, span)) \in Nat
  <2>1. Counted(Procs, s, clock + 1, span) \in SUBSET Counted(Procs, s, clock, span)
    <3>1. SUFFICES ASSUME NEW a \in Counted(Procs, s, clock + 1, span) PROVE a \in Counted(Procs, s, clock, span)
      OBVIOUS
    <3>2. PICK q \in Procs : a \in admitted[q][s] /\ a.time + span > clock + 1
      BY <3>1 DEF Counted
    <3>3. a.time \in Nat /\ a.time <= clock
      BY <3>2, Facts
    <3>4. a.time + span > clock
      BY <1>1, <1>4, <3>2, <3>3
    <3> QED
      BY <3>2, <3>3, <3>4 DEF Counted
  <2>2. IsFiniteSet(Counted(Procs, s, clock, span)) /\ Cardinality(Counted(Procs, s, clock, span)) \in Nat
        /\ Cardinality(Counted(Procs, s, clock + 1, span)) \in Nat
    BY CountedFinite
  <2> QED
    BY <2>1, <2>2, FS_Subset
<1>5. ASSUME ~lost, NEW s \in Scopes, NEW t \in 0..(clock + 1)
      PROVE  /\ Cardinality(Counted(Procs, s, t, Sure)) <= Limit[s] + Cardinality(Procs) - 1
             /\ ~concurrent => Cardinality(Counted(Procs, s, t, Window)) <= Limit[s]
  <2>1. ASSUME NEW u \in 0..clock
        PROVE  /\ Cardinality(Counted(Procs, s, u, Sure)) <= Limit[s] + Cardinality(Procs) - 1
               /\ ~concurrent => Cardinality(Counted(Procs, s, u, Window)) <= Limit[s]
    BY <1>5, <2>1 DEF AdmittedBounded, AtMostLimit, OvershootBounded
  <2>2. CASE t \in 0..clock
    BY <2>1, <2>2
  <2>3. CASE t = clock + 1
    <3>1. clock \in 0..clock
      BY <1>1
    <3> QED
      BY <1>1, <1>2, <1>4, <2>1, <2>3, <3>1
  <2> QED
    BY <1>1, <2>2, <2>3
<1>6. 0..clock' \subseteq 0..(clock + 1)
  BY <1>1
<1>7. AtMostLimit'
  BY <1>3, <1>5, <1>6 DEF AtMostLimit
<1>8. OvershootBounded'
  BY <1>3, <1>5, <1>6 DEF OvershootBounded, Sure
<1> QED
  BY <1>7, <1>8 DEF AdmittedBounded

LEMMA AdmittedStep ==
  ASSUME Base, backend = "redis" => RedisInv /\ Began, AdmittedBounded, NowBounded', [LimiterNext]_limiterVars
  PROVE  AdmittedBounded'
<1>1. backend' = backend
  BY BackendStays
<1>2. CASE backend = "memory"
  <2>1. ASSUME NEW s \in Scopes, NEW t \in 0..clock', NEW p \in Procs
        PROVE  Cardinality(Counted({p}, s, t, Window + 1)') <= Limit[s]
    <3>1. CASE t = clock'
      BY <1>1, <1>2, <3>1 DEF NowBounded, Counted
    <3>2. CASE t # clock'
      <4>1. t \in 0..clock /\ Counted({p}, s, t, Window + 1)' = Counted({p}, s, t, Window + 1)
        BY <1>2, <3>2, PastStays
      <4> QED
        BY <1>2, <4>1 DEF AdmittedBounded, AtMostLimit
    <3> QED
      BY <3>1, <3>2
  <2> QED
    BY <1>1, <1>2, <2>1 DEF AdmittedBounded, AtMostLimit, OvershootBounded
<1>3. CASE backend = "redis"
  <2>1. CASE UNCHANGED limiterVars
    BY <1>3, <2>1, RedisAdmitted DEF limiterVars
  <2>2. CASE Tick
    BY <1>3, <2>2, RedisAdmitted DEF Tick
  <2>3. ASSUME NEW p \in Procs, NEW kind \in {"plain", "login"}, Arrive(p, kind) PROVE AdmittedBounded'
    <3>1. /\ backend' = backend /\ admitted' = admitted /\ clock' = clock /\ lost' = lost
          /\ concurrent' = (concurrent \/ \E q \in Procs : Busy(q))
      BY <2>3 DEF Arrive
    <3>2. ~concurrent' => ~concurrent
      BY <3>1, Zenon
    <3> QED
      BY <1>3, <3>1, <3>2, RedisAdmitted
  <2>4. ASSUME NEW p \in Procs, CheckMemory(p) PROVE FALSE
    BY <1>3, <2>4 DEF CheckMemory
  <2>5. ASSUME NEW p \in Procs, Prune(p) \/ Count(p) \/ Oldest(p) \/ Expire(p) PROVE AdmittedBounded'
    <3>1. UNCHANGED <<backend, clock, admitted, concurrent, lost>>
      BY <2>5 DEF Prune, Count, Oldest, Expire
    <3> QED
      BY <1>3, <3>1, RedisAdmitted
  <2>6. ASSUME NEW p \in Procs, RedisFails(p) PROVE AdmittedBounded'
    <3>1. UNCHANGED <<backend, clock, admitted, concurrent>> /\ lost'
      BY <2>6 DEF RedisFails
    <3> QED
      BY <1>3, <3>1, RedisAdmitted
  <2>7. ASSUME NEW p \in Procs, Add(p) PROVE AdmittedBounded'
    BY <1>3, <2>7, AddAdmits
  <2> QED
    BY <2>1, <2>2, <2>3, <2>4, <2>5, <2>6, <2>7 DEF LimiterNext
<1> QED
  BY <1>2, <1>3 DEF Base, LimiterTypeOK

LEMMA AdmittedInit == ASSUME LimiterInit PROVE AdmittedBounded
<1>1. \A t, span : \A P \in SUBSET Procs, s \in Scopes : Counted(P, s, t, span) = {}
  BY DEF LimiterInit, Counted
<1>2. Cardinality({}) = 0 /\ Cardinality(Procs) \in Nat
  BY FS_EmptySet, FS_CardinalityType, LimiterAssumption
<1>3. \A s \in Scopes : Limit[s] \in Nat \ {0}
  BY LimiterAssumption
<1>4. \A s \in Scopes : 0 <= Limit[s] /\ 0 <= Limit[s] + Cardinality(Procs) - 1
  BY <1>2, <1>3
<1>5. AtMostLimit
  BY <1>1, <1>2, <1>4 DEF AtMostLimit
<1>6. OvershootBounded
  BY <1>1, <1>2, <1>4 DEF OvershootBounded
<1> QED
  BY <1>5, <1>6 DEF AdmittedBounded

-----------------------------------------------------------------------------
(* The theorems. *)

LEMMA MemorySuffices ==
  ASSUME Base, NEW r \in refused, NEW b \in Seq(0..clock), Len(b) <= Limit[r.scope],
         StillFull(r, b) \/ Moved(r, b)
  PROVE  Cardinality({i \in DOMAIN b : b[i] <= r.at /\ Then(r) - b[i] <= Window}) < Limit[r.scope]
<1> DEFINE left == {i \in DOMAIN b : b[i] <= r.at /\ Then(r) - b[i] <= Window}
<1>1. PICK m \in Nat, l \in Nat \ {0} : m = Len(b) /\ l = Limit[r.scope] /\ m <= l /\ DOMAIN b = 1..m
  BY Refusal, Frame
<1>2. clock \in Nat /\ Window \in Nat /\ Then(r) \in Nat /\ r.at \in Nat /\ \A i \in 1..m : b[i] \in 0..clock
  BY <1>1, Refusal, Frame
<1>3. IsFiniteSet(1..m) /\ Cardinality(1..m) = m
  <2>1. 1 \in Int /\ m \in Int /\ (1 > m => m = 0) /\ m - 1 + 1 = m
    BY <1>1
  <2>2. IsFiniteSet(1..m) /\ Cardinality(1..m) = IF 1 > m THEN 0 ELSE m - 1 + 1
    BY <2>1, FS_Interval, Zenon
  <2> QED
    BY <2>1, <2>2
<1>4. left \in SUBSET (1..m)
  BY <1>1
<1>5. CASE m < l
  <2>1. Cardinality(left) \in Nat /\ Cardinality(left) <= m
    BY <1>3, <1>4, FS_Subset, FS_CardinalityType
  <2> QED
    BY <1>1, <1>5, <2>1
<1>6. CASE ~(m < l)
  <2>1. m = l /\ 1 \in 1..m /\ m \in 1..m
    BY <1>1, <1>6
  <2>2. PICK i \in 1..m : i \notin left
    <3>1. CASE StillFull(r, b)
      <4>1. b[1] + Window < Then(r)
        BY <3>1 DEF StillFull
      <4>2. 1 \notin left
        BY <1>2, <2>1, <4>1
      <4> QED
        BY <2>1, <4>2
    <3>2. CASE Moved(r, b)
      <4>1. b[m] > r.at
        BY <1>1, <2>1, <3>2 DEF Moved
      <4>2. m \notin left
        BY <1>2, <2>1, <4>1
      <4> QED
        BY <2>1, <4>2
    <3> QED
      BY <3>1, <3>2
  <2>3. left \in SUBSET ((1..m) \ {i})
    BY <1>4, <2>2
  <2>4. IsFiniteSet((1..m) \ {i}) /\ Cardinality((1..m) \ {i}) = m - 1
    <3>1. IsFiniteSet(1..m) /\ i \in 1..m
      BY <1>3, <2>2
    <3>2. IsFiniteSet((1..m) \ {i}) /\ Cardinality((1..m) \ {i}) = IF i \in 1..m THEN Cardinality(1..m) - 1 ELSE Cardinality(1..m)
      BY <3>1, FS_RemoveElement, Zenon
    <3> QED
      BY <1>3, <3>1, <3>2
  <2>5. Cardinality(left) \in Nat /\ Cardinality(left) <= m - 1
    BY <2>3, <2>4, FS_Subset, FS_CardinalityType
  <2> QED
    BY <1>1, <2>1, <2>5
<1> QED
  BY <1>5, <1>6

LEMMA Suffices ==
  ASSUME Base, MemoryInv, backend = "redis" => RedisInv /\ RefusalInv
  PROVE  RetryAfterSuffices
<1>1. ASSUME NEW r \in refused, backend = "memory"
      PROVE  Cardinality({i \in DOMAIN bucket[r.proc][r.scope] :
                             /\ bucket[r.proc][r.scope][i] <= r.at
                             /\ Then(r) - bucket[r.proc][r.scope][i] <= Window}) < Limit[r.scope]
  <2>1. bucket[r.proc][r.scope] \in Seq(0..clock) /\ Len(bucket[r.proc][r.scope]) <= Limit[r.scope]
    BY Refusal, Facts
  <2>2. StillFull(r, bucket[r.proc][r.scope]) \/ Moved(r, bucket[r.proc][r.scope])
    BY <1>1 DEF MemoryInv, RefusedInMemory
  <2> QED
    BY <2>1, <2>2, MemorySuffices
<1>2. ASSUME NEW r \in refused, backend # "memory", ~concurrent, ~lost
      PROVE  Cardinality({a \in zset[r.scope] : a.time <= r.at /\ a.time + Window > Then(r)}) < Limit[r.scope]
  <2>1. backend = "redis"
    BY <1>2 DEF Base, LimiterTypeOK
  <2>2. Stuck(r, zset[r.scope]) \/ Left(r, zset[r.scope])
    BY <1>2, <2>1 DEF RefusalInv, RefusedByRedis
  <2>3. Cardinality(Remaining(r, zset[r.scope])) < Limit[r.scope]
    BY <1>2, <2>1, <2>2, StuckLeaves DEF Left, RedisInv
  <2> QED
    BY <2>3 DEF Remaining
<1> QED
  BY <1>1, <1>2 DEF RetryAfterSuffices, Then

(* Every variable of the limiter keeps its type for any number of processes and
   any limits: a bucket never holds more than its limit, and Retry-After is a
   second at least (rate_limit.py:63-68, 113). *)
THEOREM LimiterTypes == LimiterSpec => []LimiterTypeOK
<1>1. Base => LimiterTypeOK
  BY DEF Base
<1> QED
  BY <1>1, BaseInvariant, PTL

LEMMA Backing ==
  LimiterSpec => [](Base /\ MemoryInv /\ (backend = "redis" => RedisInv))
<1> DEFINE I == MemoryInv /\ (backend = "redis" => RedisInv)
<1>1. LimiterInit => I
  BY MemoryInit, RedisInit
<1>2. Base /\ Base' /\ I /\ [LimiterNext]_limiterVars => I'
  BY MemoryStep, RedisStep
<1> QED
  BY <1>1, <1>2, BaseInvariant, PTL DEF LimiterSpec

(* No window of a scope admits more than its limit: a process in memory never,
   and all processes on Redis as long as no two checks have overlapped and no
   command has failed, an attempt having the time that its check read first.
   When checks do overlap, no span that is shorter than the window by the time a
   check may take exceeds the limit by as many as there are processes
   (rate_limit.py:61, 104-116).  A check of Redis is assumed to take a second at
   most, which is what the EXPIRE allows beyond the window. *)
THEOREM WindowsAreBounded ==
  ASSUME MaxDelay <= Second
  PROVE  LimiterSpec => []AdmittedBounded
<1> DEFINE I == Base /\ MemoryInv /\ (backend = "redis" => RedisInv)
           R == backend = "redis" => Began
<1>1. I => NowBounded
  BY MemoryCounts DEF MemoryInv, NowBounded
<1>2. LimiterInit => AdmittedBounded /\ R
  BY AdmittedInit DEF LimiterInit, Idle, Began, Busy
<1>3. I /\ R /\ [LimiterNext]_limiterVars => R'
  BY BeganStep
<1>4. I /\ R /\ AdmittedBounded /\ NowBounded' /\ [LimiterNext]_limiterVars => AdmittedBounded'
  BY AdmittedStep
<1>5. LimiterSpec => []I
  BY Backing
<1> QED
  <2> HIDE DEF I, R
  <2> QED
    BY <1>1, <1>2, <1>3, <1>4, <1>5, PTL DEF LimiterSpec

(* A client that waits as long as Retry-After says finds room if nothing else of
   his was admitted meanwhile: in memory always, on Redis as long as no two checks
   have overlapped and no command has failed, since a window that exceeds its
   limit stays full when its oldest entry leaves (rate_limit.py:63-68, 109-115).
   A check of Redis is assumed to take a second at most, which is what the EXPIRE allows beyond
   the window: a longer one may find that the key it has pruned is gone, and
   record an attempt of the time at which it began. *)
THEOREM RetryAfterIsEnough ==
  ASSUME MaxDelay <= Second
  PROVE  LimiterSpec => []RetryAfterSuffices
<1> DEFINE I == Base /\ MemoryInv /\ (backend = "redis" => RedisInv)
           R == backend = "redis" => RefusalInv
<1>1. LimiterInit => R
  BY DEF LimiterInit, Idle, RefusalInv, Fresh, StuckFull, RefusedByRedis
<1>2. I /\ R /\ [LimiterNext]_limiterVars => R'
  BY RefusalStep
<1>3. I /\ R => RetryAfterSuffices
  BY Suffices
<1>4. LimiterSpec => []I
  BY Backing
<1> QED
  <2> HIDE DEF I, R
  <2> QED
    BY <1>1, <1>2, <1>3, <1>4, PTL DEF LimiterSpec
=============================================================================
