------------------------- MODULE Membership_proofs -------------------------
(***************************************************************************)
(* The organization keeps exactly one owner, and every member was invited, *)
(* for any number of users, invites and interleaved requests.              *)
(***************************************************************************)
EXTENDS Membership, FiniteSetTheorems, TLAPS

-----------------------------------------------------------------------------
(* A request that will change or remove a member does not hold the founder. *)
Spares == \A q \in Requests :
    (request[q].pc = "loaded" /\ request[q].op \in {"update_member_role", "remove_member"})
        => request[q].user # Founder

(* A request that holds an invite holds one that exists.  A request that    *)
(* accepts one acts for its address, and what it saw of the user's          *)
(* membership is backed by a row the user has had.                          *)
HoldsInvite(x) == x.pc \in {"mailing", "pending", "ready"}
                    \/ (x.pc = "loaded" /\ x.op = "revoke_invite")
Backed(x) ==
    /\ HoldsInvite(x) => invite[x.invite].status # "absent"
    /\ x.pc \in {"pending", "ready"} => invite[x.invite].email = x.user
    /\ (x.pc = "ready" /\ x.seen # "none") => joined[x.user] > 0

(* Whoever has a role has had a row.                                        *)
RowsCounted == \A u \in Users : role[u] # "none" => joined[u] > 0

(* The inductive invariant.                                                 *)
IInv ==
    /\ TypeOK
    /\ OneOwner
    /\ MembersWereInvited
    /\ Spares
    /\ \A q \in Requests : Backed(request[q])
    /\ RowsCounted

LEMMA InitInv == Init => IInv
<1> SUFFICES ASSUME Init PROVE IInv
  OBVIOUS
<1>1. Idle \in Request
  BY FounderIsUser DEF Idle, Request, Roles
<1>2. TypeOK
  <2>1. [status |-> "absent", email |-> Founder, role |-> "member",
         expired |-> FALSE, mailed |-> FALSE, refused |-> FALSE] \in Invite
    BY FounderIsUser DEF Invite, GrantedRoles
  <2>2. role \in [Users -> Roles] /\ joined \in [Users -> Nat]
    BY DEF Init, Roles
  <2> QED
    BY <1>1, <2>1, <2>2 DEF Init, TypeOK, Idle
<1>3. OneOwner /\ MembersWereInvited
  BY DEF Init, OneOwner, MembersWereInvited
<1>4. Spares /\ (\A q \in Requests : Backed(request[q])) /\ RowsCounted
  BY DEF Init, Spares, Backed, HoldsInvite, RowsCounted, Idle
<1> QED
  BY <1>2, <1>3, <1>4 DEF IInv

(* With one owner, the guard of both member handlers refuses the founder.   *)
LEMMA FounderStays ==
    ASSUME OneOwner, NEW u \in Users, Movable(u)
    PROVE  u # Founder
<1>1. Owners = {Founder}
  BY FounderIsUser DEF OneOwner, Owners
<1>2. Cardinality(Owners) = 1
  BY <1>1, FS_Singleton
<1> QED
  BY <1>2 DEF OneOwner, Movable

-----------------------------------------------------------------------------
(* Types, handler by handler.                                               *)

LEMMA GotoType ==
    ASSUME TypeOK, NEW q \in Requests, NEW next \in Request, Goto(q, next),
           next.pc \in {"mailing", "pending", "ready"} => next.invite \in Invites,
           (next.pc = "loaded" /\ next.op = "revoke_invite") => next.invite \in Invites,
           deleted' \in BOOLEAN, role' \in [Users -> Roles], joined' \in [Users -> Nat],
           invite' \in [Invites -> Invite]
    PROVE  TypeOK'
<1>1. request' \in [Requests -> Request]
  BY DEF Goto, TypeOK
<1>2. \A p \in Requests : request'[p] = IF p = q THEN next ELSE request[p]
  BY DEF Goto, TypeOK
<1> QED
  BY <1>1, <1>2 DEF TypeOK

LEMMA IdleType ==
    /\ Idle \in Request /\ Idle.pc = "idle"
    /\ \A op \in Operations : [Idle EXCEPT !.pc = "authorized", !.op = op] \in Request
BY FounderIsUser DEF Idle, Request, Roles, Operations

LEMMA InviteTypes ==
    ASSUME NEW row \in Invite
    PROVE  /\ \A u \in Users, r \in GrantedRoles :
                 [row EXCEPT !.status = "pending", !.email = u, !.role = r] \in Invite
           /\ \A s \in {"accepted", "revoked"} : [row EXCEPT !.status = s] \in Invite
           /\ [row EXCEPT !.mailed = TRUE] \in Invite
           /\ [row EXCEPT !.expired = TRUE] \in Invite
           /\ \A sent \in BOOLEAN : [row EXCEPT !.mailed = sent, !.refused = TRUE] \in Invite
           /\ row.role \in Roles /\ row.role # "none" /\ row.role # "owner"
           /\ row.status # "absent" => row.status \in Roles \cup {"pending", "accepted", "revoked"}
BY DEF Invite, GrantedRoles, Roles

(* Filling in the fields of a request.                                      *)
LEMMA FieldTypes ==
    ASSUME NEW x \in Request, NEW u \in Users, NEW i \in Invites, NEW n \in Nat,
           NEW old \in Roles, NEW s \in {"pending", "accepted", "revoked"}
    PROVE  /\ [x EXCEPT !.pc = "mailing", !.invite = i] \in Request
           /\ [x EXCEPT !.pc = "pending", !.op = "accept_invite", !.user = u, !.invite = i]
                \in Request
           /\ [x EXCEPT !.pc = "loaded", !.invite = i, !.seen = s] \in Request
           /\ [x EXCEPT !.pc = "ready", !.seen = old] \in Request
           /\ [x EXCEPT !.pc = "loaded", !.user = u, !.seen = old, !.row = n] \in Request
<1>1. i \in Invites \cup {NoInvite}
  OBVIOUS
<1>2. old \in Roles \cup {"pending", "accepted", "revoked"}
      /\ s \in Roles \cup {"pending", "accepted", "revoked"}
  OBVIOUS
<1> QED
  BY <1>1, <1>2 DEF Request

(* What each step of a request leaves in its record.                        *)
LEMMA RequestTypes ==
    ASSUME TypeOK, NEW q \in Requests
    PROVE  /\ request[q] \in Request
           /\ \A i \in Invites :
                /\ [request[q] EXCEPT !.pc = "mailing", !.invite = i] \in Request
                /\ [Idle EXCEPT !.pc = "pending", !.op = "accept_invite",
                                !.user = invite[i].email, !.invite = i] \in Request
                /\ invite[i].status # "absent" =>
                     [request[q] EXCEPT !.pc = "loaded", !.invite = i,
                                        !.seen = invite[i].status] \in Request
           /\ \A u \in Users :
                /\ [request[q] EXCEPT !.pc = "ready", !.seen = role[u]] \in Request
                /\ [request[q] EXCEPT !.pc = "loaded", !.user = u, !.seen = role[u],
                                      !.row = joined[u]] \in Request
<1>1. request[q] \in Request /\ Idle \in Request
  BY IdleType DEF TypeOK
<1>3. \A u \in Users : role[u] \in Roles /\ joined[u] \in Nat
  BY DEF TypeOK
<1>4. ASSUME NEW i \in Invites, NEW u \in Users, NEW s \in {"pending", "accepted", "revoked"}
      PROVE  /\ [request[q] EXCEPT !.pc = "mailing", !.invite = i] \in Request
             /\ [Idle EXCEPT !.pc = "pending", !.op = "accept_invite",
                             !.user = u, !.invite = i] \in Request
             /\ [request[q] EXCEPT !.pc = "loaded", !.invite = i, !.seen = s] \in Request
  <2>1. 0 \in Nat /\ "none" \in Roles
    BY DEF Roles
  <2> QED
    BY <1>1, <2>1, FieldTypes
<1>5. ASSUME NEW u \in Users
      PROVE  /\ [request[q] EXCEPT !.pc = "ready", !.seen = role[u]] \in Request
             /\ [request[q] EXCEPT !.pc = "loaded", !.user = u, !.seen = role[u],
                                   !.row = joined[u]] \in Request
  BY <1>1, <1>3 DEF Request
<1>6. ASSUME NEW i \in Invites
      PROVE  /\ [request[q] EXCEPT !.pc = "mailing", !.invite = i] \in Request
             /\ [Idle EXCEPT !.pc = "pending", !.op = "accept_invite",
                             !.user = invite[i].email, !.invite = i] \in Request
             /\ invite[i].status # "absent" =>
                  [request[q] EXCEPT !.pc = "loaded", !.invite = i,
                                     !.seen = invite[i].status] \in Request
  <2> DEFINE u == invite[i].email
             s == invite[i].status
  <2>1. u \in Users /\ (s # "absent" => s \in {"pending", "accepted", "revoked"})
    BY DEF TypeOK, Invite
  <2> HIDE DEF u, s
  <2>2. /\ [request[q] EXCEPT !.pc = "mailing", !.invite = i] \in Request
        /\ [Idle EXCEPT !.pc = "pending", !.op = "accept_invite",
                        !.user = u, !.invite = i] \in Request
        /\ s # "absent" =>
             [request[q] EXCEPT !.pc = "loaded", !.invite = i, !.seen = s] \in Request
    <3>1. "pending" \in {"pending", "accepted", "revoked"}
      OBVIOUS
    <3>2. /\ [request[q] EXCEPT !.pc = "mailing", !.invite = i] \in Request
          /\ [Idle EXCEPT !.pc = "pending", !.op = "accept_invite",
                          !.user = u, !.invite = i] \in Request
      BY <1>4, <2>1, <3>1
    <3>3. ASSUME s # "absent"
          PROVE  [request[q] EXCEPT !.pc = "loaded", !.invite = i, !.seen = s] \in Request
      BY <1>4, <2>1, <3>3
    <3> QED
      BY <3>2, <3>3
  <2> QED
    BY <2>2 DEF u, s
<1> QED
  BY <1>1, <1>5, <1>6

LEMMA AdminType ==
    ASSUME TypeOK, NEW q \in Requests,
           \/ \E caller \in Users, op \in Operations : Authorize(q, caller, op)
           \/ Abandon(q) \/ CommitDelete(q)
    PROVE  TypeOK'
<1>1. CASE Abandon(q) \/ CommitDelete(q)
  <2>1. Goto(q, Idle) /\ UNCHANGED <<role, joined, invite>> /\ deleted' \in BOOLEAN
    BY <1>1 DEF Abandon, CommitDelete, Answer, TypeOK
  <2> QED
    BY <2>1, GotoType, IdleType DEF TypeOK
<1>2. ASSUME NEW caller \in Users, NEW op \in Operations, Authorize(q, caller, op)
      PROVE  TypeOK'
  <2> DEFINE next == [Idle EXCEPT !.pc = "authorized", !.op = op]
  <2>1. Goto(q, next) /\ UNCHANGED <<deleted, role, joined, invite>>
    BY <1>2 DEF Authorize
  <2>2. next \in Request /\ next.pc = "authorized"
    BY IdleType DEF Idle
  <2> HIDE DEF next
  <2> QED
    BY <2>1, <2>2, GotoType DEF TypeOK
<1> QED
  BY <1>1, <1>2

LEMMA InviteType ==
    ASSUME TypeOK, NEW q \in Requests, InviteStep(q)
    PROVE  TypeOK'
<1>1. ASSUME NEW i \in Invites, NEW u \in Users, NEW r \in GrantedRoles,
             CommitInvite(q, i, u, r)
      PROVE  TypeOK'
  <2> DEFINE next == [request[q] EXCEPT !.pc = "mailing", !.invite = i]
             row == [invite[i] EXCEPT !.status = "pending", !.email = u, !.role = r]
  <2>1. /\ Goto(q, next) /\ UNCHANGED <<deleted, role, joined>>
        /\ invite' = [invite EXCEPT ![i] = row]
    BY <1>1 DEF CommitInvite, TypeOK
  <2>2. next \in Request /\ next.pc = "mailing" /\ next.invite = i
    <3>1. request[q] \in Request
      BY DEF TypeOK
    <3>2. next \in Request
      BY RequestTypes
    <3> QED
      BY <3>1, <3>2 DEF Request
  <2>3. row \in Invite
    BY InviteTypes DEF TypeOK
  <2> HIDE DEF next, row
  <2> QED
    BY <2>1, <2>2, <2>3, GotoType DEF TypeOK
<1>2. ASSUME NEW row \in Invite, request[q].invite \in Invites, Answer(q),
             invite' = [invite EXCEPT ![request[q].invite] = row],
             UNCHANGED <<deleted, role, joined>>
      PROVE  TypeOK'
  BY <1>2, GotoType, IdleType DEF Answer, TypeOK
<1>3. CASE SendInvite(q)
  <2>1. request[q].invite \in Invites /\ invite[request[q].invite] \in Invite
    BY <1>3 DEF SendInvite, TypeOK
  <2>2. [invite[request[q].invite] EXCEPT !.mailed = TRUE] \in Invite
    BY <2>1, InviteTypes
  <2> QED
    BY <1>2, <1>3, <2>1, <2>2 DEF SendInvite
<1>4. CASE SendFails(q)
  <2>1. request[q].invite \in Invites /\ invite[request[q].invite] \in Invite
    BY <1>4 DEF SendFails, TypeOK
  <2>2. PICK sent \in BOOLEAN :
          invite' = [invite EXCEPT ![request[q].invite] =
                        [@ EXCEPT !.mailed = sent, !.refused = TRUE]]
    BY <1>4 DEF SendFails
  <2>3. [invite[request[q].invite] EXCEPT !.mailed = sent, !.refused = TRUE] \in Invite
    BY <2>1, InviteTypes
  <2> QED
    BY <1>2, <1>4, <2>1, <2>2, <2>3 DEF SendFails
<1>5. ASSUME NEW i \in Invites, LoadInvite(q, i)
      PROVE  TypeOK'
  <2> DEFINE next == [request[q] EXCEPT !.pc = "loaded", !.invite = i,
                                        !.seen = invite[i].status]
  <2>1. Goto(q, next) /\ UNCHANGED <<deleted, role, joined, invite>>
    BY <1>5 DEF LoadInvite
  <2>2. next \in Request /\ next.invite = i
    <3>1. request[q] \in Request
      BY DEF TypeOK
    <3>2. next \in Request
      BY <1>5, RequestTypes DEF LoadInvite
    <3> QED
      BY <3>1, <3>2 DEF Request
  <2> HIDE DEF next
  <2> QED
    BY <2>1, <2>2, GotoType DEF TypeOK
<1>6. CASE CommitRevoke(q)
  <2>1. request[q].invite \in Invites /\ invite[request[q].invite] \in Invite
    BY <1>6 DEF CommitRevoke, At, TypeOK
  <2>2. [invite[request[q].invite] EXCEPT !.status = "revoked"] \in Invite
    BY <2>1, InviteTypes
  <2>3. invite' \in [Invites -> Invite]
    BY <1>6, <2>1, <2>2 DEF CommitRevoke, TypeOK
  <2> QED
    BY <1>6, <2>3, GotoType, IdleType DEF CommitRevoke, Answer, TypeOK
<1> QED
  BY <1>1, <1>3, <1>4, <1>5, <1>6 DEF InviteStep

LEMMA AcceptType ==
    ASSUME TypeOK, NEW q \in Requests, AcceptStep(q)
    PROVE  TypeOK'
<1>1. ASSUME NEW i \in Invites, LoadPending(q, i)
      PROVE  TypeOK'
  <2> DEFINE next == [Idle EXCEPT !.pc = "pending", !.op = "accept_invite",
                                  !.user = invite[i].email, !.invite = i]
  <2>1. Goto(q, next) /\ UNCHANGED <<deleted, role, joined, invite>>
    BY <1>1 DEF LoadPending
  <2>2. next \in Request /\ next.invite = i
    BY RequestTypes DEF Idle
  <2> HIDE DEF next
  <2> QED
    BY <2>1, <2>2, GotoType DEF TypeOK
<1>2. CASE LookUpMember(q)
  <2> DEFINE next == [request[q] EXCEPT !.pc = "ready", !.seen = role[request[q].user]]
  <2>1. Goto(q, next) /\ UNCHANGED <<deleted, role, joined, invite>>
    BY <1>2 DEF LookUpMember
  <2>2. request[q] \in Request /\ request[q].user \in Users /\ request[q].invite \in Invites
    BY <1>2 DEF LookUpMember, TypeOK, Request
  <2>3. next \in Request
    BY <2>2, RequestTypes
  <2>4. next.pc = "ready" /\ next.invite \in Invites
    BY <2>2 DEF Request
  <2> HIDE DEF next
  <2> QED
    BY <2>1, <2>3, <2>4, GotoType DEF TypeOK
<1>3. CASE CommitAccept(q)
  <2> DEFINE u == request[q].user
             i == request[q].invite
  <2>1. u \in Users /\ i \in Invites /\ invite[i] \in Invite
    BY <1>3 DEF CommitAccept, TypeOK, Request
  <2>2. invite[i].role \in Roles /\ [invite[i] EXCEPT !.status = "accepted"] \in Invite
    BY <2>1, InviteTypes
  <2>3. role' \in [Users -> Roles] /\ joined' \in [Users -> Nat]
    BY <1>3, <2>1, <2>2 DEF CommitAccept, TypeOK
  <2>4. invite' \in [Invites -> Invite]
    BY <1>3, <2>1, <2>2 DEF CommitAccept, TypeOK
  <2> QED
    BY <1>3, <2>3, <2>4, GotoType, IdleType DEF CommitAccept, Answer, TypeOK
<1> QED
  BY <1>1, <1>2, <1>3 DEF AcceptStep

LEMMA MemberType ==
    ASSUME TypeOK, NEW q \in Requests, MemberStep(q)
    PROVE  TypeOK'
<1>1. ASSUME NEW u \in Users, LoadMember(q, u)
      PROVE  TypeOK'
  <2> DEFINE next == [request[q] EXCEPT !.pc = "loaded", !.user = u,
                                        !.seen = role[u], !.row = joined[u]]
  <2>1. Goto(q, next) /\ UNCHANGED <<deleted, role, joined, invite>>
    BY <1>1 DEF LoadMember
  <2>2. next \in Request
    BY RequestTypes
  <2>3. next.pc = "loaded" /\ next.op # "revoke_invite"
    BY <1>1 DEF LoadMember, TypeOK, Request
  <2> HIDE DEF next
  <2> QED
    BY <2>1, <2>2, <2>3, GotoType DEF TypeOK
<1>2. CASE (\E r \in GrantedRoles : CommitRole(q, r)) \/ CommitRemoval(q)
  <2>1. role' \in [Users -> Roles]
    BY <1>2 DEF CommitRole, CommitRemoval, GrantedRoles, Roles, TypeOK
  <2> QED
    BY <1>2, <2>1, GotoType, IdleType DEF CommitRole, CommitRemoval, Answer, TypeOK
<1> QED
  BY <1>1, <1>2 DEF MemberStep

LEMMA NextType == TypeOK /\ [Next]_vars => TypeOK'
<1> SUFFICES ASSUME TypeOK, [Next]_vars PROVE TypeOK'
  OBVIOUS
<1>1. CASE UNCHANGED vars
  BY <1>1 DEF vars, TypeOK
<1>2. ASSUME NEW i \in Invites, Expire(i)
      PROVE  TypeOK'
  <2>1. [invite[i] EXCEPT !.expired = TRUE] \in Invite
    BY InviteTypes DEF TypeOK
  <2>2. invite' \in [Invites -> Invite]
    BY <1>2, <2>1 DEF Expire, TypeOK
  <2> QED
    BY <1>2, <2>2 DEF Expire, TypeOK
<1> QED
  BY <1>1, <1>2, AdminType, InviteType, AcceptType, MemberType DEF Next

(* Type correctness of the membership model, for any constants.             *)
THEOREM TypeCorrect == Spec => []TypeOK
<1>1. Init => TypeOK
  BY InitInv DEF IInv
<1> QED
  BY <1>1, NextType, PTL DEF Spec

-----------------------------------------------------------------------------
(* The rest of the invariant, handler by handler.                           *)

Rest ==
    /\ OneOwner
    /\ MembersWereInvited
    /\ Spares
    /\ \A q \in Requests : Backed(request[q])
    /\ RowsCounted

(* A step of q that leaves roles and invites alone.                         *)
LEMMA QuietStep ==
    ASSUME IInv, NEW q \in Requests, NEW next, Goto(q, next),
           UNCHANGED <<role, joined, invite>>,
           (next.pc = "loaded" /\ next.op \in {"update_member_role", "remove_member"})
               => next.user # Founder,
           Backed(next)
    PROVE  Rest'
<1>1. \A p \in Requests : request'[p] = IF p = q THEN next ELSE request[p]
  BY DEF Goto, IInv, TypeOK
<1>2. OneOwner' /\ MembersWereInvited' /\ RowsCounted'
  BY DEF IInv, OneOwner, MembersWereInvited, RowsCounted, Answered
<1>3. Spares'
  BY <1>1 DEF IInv, Spares
<1>4. \A p \in Requests : Backed(request[p])'
  BY <1>1 DEF IInv, Backed, HoldsInvite
<1> QED
  BY <1>2, <1>3, <1>4 DEF Rest

(* A step of q that ends its request and changes one invite, never back to  *)
(* pending or to another address once it was sent.                          *)
LEMMA InviteChanges ==
    ASSUME IInv, NEW q \in Requests, NEW next, Goto(q, next), NEW i \in Invites, NEW row,
           next.pc = "idle" \/ (next.pc = "mailing" /\ next.invite = i),
           UNCHANGED <<role, joined>>, invite' = [invite EXCEPT ![i] = row],
           row.status # "absent",
           invite[i].status # "absent" => row.email = invite[i].email,
           invite[i].status \in {"accepted", "revoked"} =>
               row.status \in {"accepted", "revoked"},
           row.status = "accepted" => joined[row.email] > 0
    PROVE  Rest'
<1>1. /\ \A p \in Requests : request'[p] = IF p = q THEN next ELSE request[p]
      /\ \A j \in Invites : invite'[j] = IF j = i THEN row ELSE invite[j]
  BY DEF Goto, IInv, TypeOK
<1>2. OneOwner' /\ RowsCounted'
  BY DEF IInv, OneOwner, RowsCounted
<1>3. Spares'
  BY <1>1 DEF IInv, Spares
<1>4. \A p \in Requests : Backed(request[p])'
  <2>1. CASE next.pc = "idle"
    BY <1>1, <2>1 DEF IInv, TypeOK, Backed, HoldsInvite
  <2>2. CASE next.pc = "mailing" /\ next.invite = i
    BY <1>1, <2>2 DEF IInv, TypeOK, Backed, HoldsInvite
  <2> QED
    BY <2>1, <2>2
<1>5. MembersWereInvited'
  <2>1. \A u \in Users : Answered(u) \subseteq Answered(u)'
    BY <1>1 DEF Answered
  <2>2. \A u \in Users \ {Founder} : joined'[u] > 0 => Answered(u)' # {}
    BY <2>1 DEF IInv, MembersWereInvited
  <2>3. \A j \in Invites : invite'[j].status = "accepted" => joined'[invite'[j].email] > 0
    BY <1>1 DEF IInv, MembersWereInvited
  <2> QED
    BY <2>2, <2>3 DEF MembersWereInvited
<1> QED
  BY <1>2, <1>3, <1>4, <1>5 DEF Rest

LEMMA AdminSafe ==
    ASSUME IInv, NEW q \in Requests,
           \/ \E caller \in Users, op \in Operations : Authorize(q, caller, op)
           \/ Abandon(q) \/ CommitDelete(q)
    PROVE  Rest'
<1>1. Idle.pc = "idle" /\ \A op : [Idle EXCEPT !.pc = "authorized", !.op = op].pc = "authorized"
  BY DEF Idle
<1>2. UNCHANGED <<role, joined, invite>>
  BY DEF Authorize, Abandon, CommitDelete
<1>3. Goto(q, Idle) \/ \E op \in Operations : Goto(q, [Idle EXCEPT !.pc = "authorized", !.op = op])
  BY DEF Authorize, Abandon, CommitDelete, Answer
<1>4. PICK next : Goto(q, next) /\ next.pc \in {"idle", "authorized"}
  BY <1>1, <1>3
<1>5. Backed(next)
  BY <1>4 DEF Backed, HoldsInvite
<1> QED
  BY <1>2, <1>4, <1>5, QuietStep

LEMMA InviteSafe ==
    ASSUME IInv, NEW q \in Requests, InviteStep(q)
    PROVE  Rest'
<1> DEFINE j == request[q].invite
<1>0. Idle.pc = "idle"
  BY DEF Idle
<1>1. ASSUME NEW i \in Invites, NEW u \in Users, NEW r \in GrantedRoles,
             CommitInvite(q, i, u, r)
      PROVE  Rest'
  <2> DEFINE next == [request[q] EXCEPT !.pc = "mailing", !.invite = i]
             row == [invite[i] EXCEPT !.status = "pending", !.email = u, !.role = r]
  <2>1. /\ Goto(q, next) /\ UNCHANGED <<role, joined>>
        /\ invite' = [invite EXCEPT ![i] = row] /\ invite[i].status = "absent"
    BY <1>1 DEF CommitInvite, IInv, TypeOK
  <2>2. next.pc = "mailing" /\ next.invite = i /\ row.status = "pending"
    BY DEF IInv, TypeOK, Request, Invite
  <2> HIDE DEF next, row
  <2> QED
    BY <2>1, <2>2, InviteChanges
<1>2. ASSUME NEW row, j \in Invites, Answer(q), UNCHANGED <<role, joined>>,
             invite' = [invite EXCEPT ![j] = row], invite[j].status # "absent",
             row.email = invite[j].email, row.status \in {invite[j].status, "revoked"}
      PROVE  Rest'
  <2>1. row.status # "absent" /\ (row.status = "accepted" => joined[row.email] > 0)
    BY <1>2 DEF IInv, MembersWereInvited
  <2> QED
    BY <1>0, <1>2, <2>1, InviteChanges DEF Answer
<1>3. ASSUME NEW i \in Invites, LoadInvite(q, i)
      PROVE  Rest'
  <2> DEFINE next == [request[q] EXCEPT !.pc = "loaded", !.invite = i,
                                        !.seen = invite[i].status]
  <2>1. Goto(q, next) /\ UNCHANGED <<role, joined, invite>>
    BY <1>3 DEF LoadInvite
  <2>2. next.pc = "loaded" /\ next.op = "revoke_invite"
    BY <1>3 DEF LoadInvite, At, IInv, TypeOK, Request
  <2>3. Backed(next)
    <3>1. next.invite = i /\ invite[i].status # "absent"
      BY <1>3 DEF LoadInvite, IInv, TypeOK, Request
    <3> QED
      BY <2>2, <3>1 DEF Backed
  <2> HIDE DEF next
  <2> QED
    BY <2>1, <2>2, <2>3, QuietStep
<1>4. CASE CommitRevoke(q) /\ UNCHANGED invite
  <2>1. Backed(Idle)
    BY <1>0 DEF Backed, HoldsInvite
  <2> QED
    BY <1>0, <1>4, <2>1, QuietStep DEF CommitRevoke, Answer
<1>5. request[q].pc = "mailing" \/ At(q, "loaded", "revoke_invite") =>
        j \in Invites /\ invite[j].status # "absent"
  BY DEF At, IInv, TypeOK, Backed, HoldsInvite
<1>6. invite \in [Invites -> Invite]
  BY DEF IInv, TypeOK
<1>7. CASE SendInvite(q)
  BY <1>2, <1>5, <1>6, <1>7 DEF SendInvite, Invite
<1>8. CASE SendFails(q)
  <2>1. PICK sent \in BOOLEAN :
          invite' = [invite EXCEPT ![j] = [invite[j] EXCEPT !.mailed = sent, !.refused = TRUE]]
    BY <1>5, <1>6, <1>8 DEF SendFails
  <2>2. /\ j \in Invites /\ invite[j].status # "absent" /\ invite[j] \in Invite
        /\ Answer(q) /\ UNCHANGED <<role, joined>>
    BY <1>5, <1>6, <1>8 DEF SendFails
  <2> DEFINE row == [invite[j] EXCEPT !.mailed = sent, !.refused = TRUE]
  <2>3. row.email = invite[j].email /\ row.status = invite[j].status
    BY <2>2 DEF Invite
  <2> HIDE DEF row
  <2>4. invite' = [invite EXCEPT ![j] = row]
    BY <2>1 DEF row
  <2> QED
    BY <1>2, <2>2, <2>3, <2>4
<1>9. CASE CommitRevoke(q)
  BY <1>2, <1>4, <1>5, <1>6, <1>9 DEF CommitRevoke, Invite
<1> QED
  BY <1>1, <1>3, <1>7, <1>8, <1>9 DEF InviteStep

LEMMA AcceptSafe ==
    ASSUME IInv, NEW q \in Requests, AcceptStep(q)
    PROVE  Rest'
<1> DEFINE u == request[q].user
           i == request[q].invite
<1>1. ASSUME NEW k \in Invites, LoadPending(q, k)
      PROVE  Rest'
  <2> DEFINE next == [Idle EXCEPT !.pc = "pending", !.op = "accept_invite",
                                  !.user = invite[k].email, !.invite = k]
  <2>1. Goto(q, next) /\ UNCHANGED <<role, joined, invite>> /\ invite[k].status = "pending"
    BY <1>1 DEF LoadPending, Acceptable
  <2>2. next.pc = "pending" /\ next.invite = k /\ next.user = invite[k].email
    BY DEF Idle
  <2>3. Backed(next)
    BY <2>1, <2>2 DEF Backed
  <2> HIDE DEF next
  <2> QED
    BY <2>1, <2>2, <2>3, QuietStep
<1>2. CASE LookUpMember(q)
  <2> DEFINE next == [request[q] EXCEPT !.pc = "ready", !.seen = role[u]]
  <2>1. Goto(q, next) /\ UNCHANGED <<role, joined, invite>>
    BY <1>2 DEF LookUpMember
  <2>2. /\ next.pc = "ready" /\ next.seen = role[u] /\ next.user = u /\ next.invite = i
        /\ request[q].pc = "pending" /\ u \in Users
    BY <1>2 DEF LookUpMember, IInv, TypeOK, Request
  <2> HIDE DEF next
  <2>3. invite[i].status # "absent" /\ invite[i].email = u
    BY <2>2 DEF IInv, Backed, HoldsInvite
  <2>4. Backed(next)
    BY <2>2, <2>3 DEF IInv, RowsCounted, Backed
  <2> QED
    BY <2>1, <2>2, <2>4, QuietStep
<1>3. CASE CommitAccept(q)
  <2>1. /\ u \in Users /\ i \in Invites /\ invite[i] \in Invite
        /\ invite[i].status # "absent" /\ invite[i].email = u
        /\ request[q].seen # "none" => joined[u] > 0
    BY <1>3 DEF CommitAccept, IInv, TypeOK, Request, Backed, HoldsInvite
  <2>2. \/ /\ role[u] = "none" /\ role' = [role EXCEPT ![u] = invite[i].role]
           /\ joined' = [joined EXCEPT ![u] = @ + 1]
        \/ joined[u] > 0 /\ UNCHANGED <<role, joined>>
    BY <1>3, <2>1 DEF CommitAccept
  <2>3. \A p \in Requests : request'[p] = IF p = q THEN Idle ELSE request[p]
    BY <1>3 DEF CommitAccept, Answer, Goto, IInv, TypeOK
  <2>4. \A k \in Invites : invite'[k] = IF k = i THEN [invite[i] EXCEPT !.status = "accepted"]
                                                ELSE invite[k]
    BY <1>3, <2>1 DEF CommitAccept, IInv, TypeOK
  <2>5. invite[i].role # "none" /\ invite[i].role # "owner"
    BY <2>1, InviteTypes
  <2>6. OneOwner'
    BY <2>1, <2>2, <2>5 DEF IInv, TypeOK, OneOwner
  <2>7. /\ joined'[u] > 0
        /\ \A v \in Users : joined[v] > 0 => joined'[v] > 0
        /\ \A v \in Users : v # u => joined'[v] = joined[v] /\ role'[v] = role[v]
    BY <2>1, <2>2 DEF IInv, TypeOK
  <2>8. RowsCounted'
    BY <2>7 DEF IInv, RowsCounted
  <2>9. Spares'
    BY <2>3 DEF IInv, Spares, Idle
  <2>10. /\ invite'[i].status = "accepted" /\ invite'[i].email = u
         /\ \A k \in Invites : /\ invite'[k].email = invite[k].email
                               /\ k # i => invite'[k] = invite[k]
    BY <2>1, <2>4 DEF Invite
  <2>11. \A p \in Requests : Backed(request[p])'
    <3> SUFFICES ASSUME NEW p \in Requests, p # q
                 PROVE  Backed(request[p])'
      BY <2>3 DEF Backed, HoldsInvite, Idle
    <3>1. /\ request'[p] = request[p] /\ Backed(request[p])
          /\ HoldsInvite(request[p]) => request[p].invite \in Invites
          /\ request[p].user \in Users
      BY <2>3 DEF IInv, TypeOK, HoldsInvite, Request
    <3> QED
      BY <2>7, <2>10, <3>1 DEF Backed, HoldsInvite
  <2>12. MembersWereInvited'
    <3>1. \A v \in Users \ {Founder} : joined'[v] > 0 => Answered(v)' # {}
      <4> SUFFICES ASSUME NEW v \in Users \ {Founder}, joined'[v] > 0
                   PROVE  \E k \in Invites : /\ invite'[k].email = v
                                             /\ invite'[k].status \in {"accepted", "revoked"}
        BY DEF Answered
      <4>1. CASE v = u
        BY <2>1, <2>10, <4>1
      <4>2. CASE v # u
        <5>1. PICK k \in Invites : /\ invite[k].email = v
                                   /\ invite[k].status \in {"accepted", "revoked"}
          BY <2>7, <4>2 DEF IInv, MembersWereInvited, Answered
        <5> QED
          BY <2>1, <2>10, <4>2, <5>1
      <4> QED
        BY <4>1, <4>2
    <3>2. \A k \in Invites : invite'[k].status = "accepted" => joined'[invite'[k].email] > 0
      <4> SUFFICES ASSUME NEW k \in Invites, invite'[k].status = "accepted"
                   PROVE  joined'[invite'[k].email] > 0
        OBVIOUS
      <4>1. CASE k = i
        BY <2>7, <2>10, <4>1
      <4>2. CASE k # i
        <5>1. invite[k].email \in Users /\ joined[invite[k].email] > 0
          BY <2>10, <4>2 DEF IInv, TypeOK, Invite, MembersWereInvited
        <5> QED
          BY <2>7, <2>10, <4>2, <5>1
      <4> QED
        BY <4>1, <4>2
    <3> QED
      BY <3>1, <3>2 DEF MembersWereInvited
  <2> QED
    BY <2>6, <2>8, <2>9, <2>11, <2>12 DEF Rest
<1> QED
  BY <1>1, <1>2, <1>3 DEF AcceptStep

LEMMA MemberSafe ==
    ASSUME IInv, NEW q \in Requests, MemberStep(q)
    PROVE  Rest'
<1>1. ASSUME NEW u \in Users, LoadMember(q, u)
      PROVE  Rest'
  <2> DEFINE next == [request[q] EXCEPT !.pc = "loaded", !.user = u,
                                        !.seen = role[u], !.row = joined[u]]
  <2>1. Goto(q, next) /\ UNCHANGED <<role, joined, invite>> /\ Movable(u)
    BY <1>1 DEF LoadMember
  <2>2. next.pc = "loaded" /\ next.user = u /\ next.op # "revoke_invite"
    BY <1>1 DEF LoadMember, IInv, TypeOK, Request
  <2>3. u # Founder
    BY <2>1, FounderStays DEF IInv
  <2>4. Backed(next)
    BY <2>2 DEF Backed, HoldsInvite
  <2> HIDE DEF next
  <2> QED
    BY <2>1, <2>2, <2>3, <2>4, QuietStep
<1>2. CASE (\E r \in GrantedRoles : CommitRole(q, r)) \/ CommitRemoval(q)
  <2> DEFINE u == request[q].user
  <2>1. /\ Goto(q, Idle) /\ UNCHANGED <<joined, invite>>
        /\ u \in Users /\ u # Founder
    BY <1>2 DEF CommitRole, CommitRemoval, Answer, At, IInv, TypeOK, Request, Spares
  <2>2. \/ UNCHANGED role
        \/ /\ role[u] # "none"
           /\ \E r \in {"none", "admin", "member"} : role' = [role EXCEPT ![u] = r]
    BY <1>2 DEF CommitRole, CommitRemoval, RowExists, GrantedRoles
  <2>3. OneOwner' /\ RowsCounted'
    BY <2>1, <2>2 DEF IInv, TypeOK, OneOwner, RowsCounted
  <2>4. \A p \in Requests : request'[p] = IF p = q THEN Idle ELSE request[p]
    BY <2>1 DEF Goto, IInv, TypeOK
  <2>5. Spares'
    BY <2>4 DEF IInv, Spares, Idle
  <2>6. \A p \in Requests : Backed(request[p])'
    BY <2>1, <2>4 DEF IInv, Backed, HoldsInvite, Idle
  <2>7. MembersWereInvited'
    BY <2>1 DEF IInv, MembersWereInvited, Answered
  <2> QED
    BY <2>3, <2>5, <2>6, <2>7 DEF Rest
<1> QED
  BY <1>1, <1>2 DEF MemberStep

LEMMA NextSafe == IInv /\ [Next]_vars => IInv'
<1> SUFFICES ASSUME IInv, [Next]_vars PROVE IInv'
  OBVIOUS
<1>1. TypeOK'
  BY NextType DEF IInv
<1>2. Rest'
  <2>1. CASE UNCHANGED vars
    BY <2>1 DEF vars, IInv, Rest, OneOwner, MembersWereInvited, Answered, Spares, Backed,
                HoldsInvite, RowsCounted
  <2>2. ASSUME NEW i \in Invites, Expire(i)
        PROVE  Rest'
    <3>1. /\ UNCHANGED <<role, joined, request>>
          /\ \A k \in Invites : /\ invite'[k].status = invite[k].status
                                /\ invite'[k].email = invite[k].email
      BY <2>2 DEF Expire, IInv, TypeOK, Invite
    <3>2. OneOwner' /\ Spares' /\ RowsCounted'
      BY <3>1 DEF IInv, OneOwner, Spares, RowsCounted
    <3>3. MembersWereInvited'
      BY <3>1 DEF IInv, MembersWereInvited, Answered
    <3>4. \A p \in Requests : Backed(request[p])'
      BY <3>1 DEF IInv, TypeOK, Backed, HoldsInvite
    <3> QED
      BY <3>2, <3>3, <3>4 DEF Rest
  <2> QED
    BY <2>1, <2>2, AdminSafe, InviteSafe, AcceptSafe, MemberSafe DEF Next
<1> QED
  BY <1>1, <1>2 DEF IInv, Rest

(* The inductive invariant holds in every reachable state.                  *)
THEOREM Invariance == Spec => []IInv
BY InitInv, NextSafe, PTL DEF Spec

(* However role changes, removals and invites interleave, the organization  *)
(* has exactly one owner: its founder.                                      *)
THEOREM ExactlyOneOwner == Spec => []OneOwner
<1>1. IInv => OneOwner
  BY DEF IInv
<1> QED
  BY <1>1, Invariance, PTL

(* Every member but the founder has an invite that is no longer pending,    *)
(* and every accepted invite made its address a member.                     *)
THEOREM OnlyInvitedMembers == Spec => []MembersWereInvited
<1>1. IInv => MembersWereInvited
  BY DEF IInv
<1> QED
  BY <1>1, Invariance, PTL

-----------------------------------------------------------------------------
(* How often a user joined.  InviteUsedOnce alone is not inductive: it      *)
(* holds in states where requests that loaded an invite before it was       *)
(* answered are still to commit, so those have to be counted too.           *)

Claims(u) == {q \in Requests : /\ request[q].pc \in {"pending", "ready"}
                               /\ request[q].invite \in Answered(u)}

JoinsPaid(u) ==
    joined[u] + Cardinality(Claims(u)) <= Cardinality(Answered(u)) * Cardinality(Requests)

Paid == \A u \in Users \ {Founder} : JoinsPaid(u)

LEMMA Counted ==
    ASSUME NEW u
    PROVE  /\ IsFiniteSet(Claims(u)) /\ Cardinality(Claims(u)) \in Nat
           /\ IsFiniteSet(Answered(u)) /\ Cardinality(Answered(u)) \in Nat
           /\ Cardinality(Requests) \in Nat
<1>1. Claims(u) \in SUBSET Requests /\ Answered(u) \in SUBSET Invites
  BY DEF Claims, Answered
<1> QED
  BY <1>1, FinitelyMany, FS_Subset, FS_CardinalityType

(* A step that answers no invite of u adds no claim on one; a claim may be  *)
(* spent on one more row.                                                   *)
LEMMA NoAnswer ==
    ASSUME TypeOK, TypeOK', NEW u \in Users, JoinsPaid(u), NEW q \in Requests,
           Answered(u)' = Answered(u), Claims(u)' \subseteq Claims(u),
           \/ joined'[u] = joined[u]
           \/ joined'[u] = joined[u] + 1 /\ q \in Claims(u) \ Claims(u)'
    PROVE  JoinsPaid(u)'
<1>1. /\ joined[u] \in Nat /\ joined'[u] \in Nat
      /\ Cardinality(Claims(u)) \in Nat /\ Cardinality(Claims(u)') \in Nat
      /\ Cardinality(Answered(u)) * Cardinality(Requests) \in Nat
  <2>1. Cardinality(Claims(u)') \in Nat
    BY Counted, FS_Subset, FS_CardinalityType
  <2>2. Cardinality(Answered(u)) \in Nat /\ Cardinality(Requests) \in Nat
    BY Counted
  <2>3. Cardinality(Answered(u)) * Cardinality(Requests) \in Nat
    BY <2>2
  <2> QED
    BY <2>1, <2>3, Counted DEF TypeOK
<1>2. Cardinality(Claims(u)') <= Cardinality(Claims(u))
  BY Counted, FS_Subset
<1>3. CASE joined'[u] = joined[u]
  BY <1>1, <1>2, <1>3 DEF JoinsPaid
<1>4. CASE joined'[u] = joined[u] + 1 /\ q \in Claims(u) \ Claims(u)'
  <2>1. Claims(u)' \in SUBSET (Claims(u) \ {q})
    BY <1>4
  <2>2. /\ IsFiniteSet(Claims(u) \ {q})
        /\ Cardinality(Claims(u) \ {q}) = Cardinality(Claims(u)) - 1
    BY <1>4, Counted, FS_RemoveElement
  <2>3. Cardinality(Claims(u)') <= Cardinality(Claims(u)) - 1
    BY <2>1, <2>2, FS_Subset
  <2> QED
    BY <1>1, <1>4, <2>3 DEF JoinsPaid
<1> QED
  BY <1>3, <1>4

(* A step of q that answers one more invite pays for q and for every other  *)
(* request.                                                                 *)
LEMMA OneMoreAnswer ==
    ASSUME TypeOK, TypeOK', NEW u \in Users, JoinsPaid(u), NEW q \in Requests,
           NEW i, i \notin Answered(u), Answered(u)' = Answered(u) \cup {i},
           q \notin Claims(u)', joined'[u] \in {joined[u], joined[u] + 1}
    PROVE  JoinsPaid(u)'
<1>1. Claims(u)' \in SUBSET (Requests \ {q})
  BY DEF Claims
<1>2. /\ IsFiniteSet(Requests \ {q})
      /\ Cardinality(Requests \ {q}) = Cardinality(Requests) - 1
  BY FinitelyMany, FS_RemoveElement
<1>3. Cardinality(Claims(u)') \in Nat /\ Cardinality(Claims(u)') <= Cardinality(Requests) - 1
  BY <1>1, <1>2, FS_Subset, FS_CardinalityType
<1>4. Cardinality(Answered(u)') = Cardinality(Answered(u)) + 1
  BY Counted, FS_AddElement
<1>5. \A a, n \in Nat : (a + 1) * n = a * n + n /\ a * n \in Nat
  OBVIOUS
<1>6. Cardinality(Answered(u)') * Cardinality(Requests)
        = Cardinality(Answered(u)) * Cardinality(Requests) + Cardinality(Requests)
  BY <1>4, <1>5, Counted
<1>7. Cardinality(Answered(u)) * Cardinality(Requests) \in Nat
  BY <1>5, Counted
<1>8. joined[u] \in Nat /\ joined'[u] \in Nat
  BY DEF TypeOK
<1> QED
  BY <1>3, <1>6, <1>7, <1>8, Counted DEF JoinsPaid

(* A step of q that answers no invite, joins nobody and loads no answered   *)
(* invite to accept.                                                        *)
LEMMA QuietClaims ==
    ASSUME TypeOK, TypeOK', NEW u \in Users, JoinsPaid(u), NEW q \in Requests,
           NEW next, Goto(q, next), UNCHANGED joined, Answered(u)' = Answered(u),
           next.pc \in {"pending", "ready"} =>
               \/ next.invite \notin Answered(u)
               \/ request[q].pc \in {"pending", "ready"} /\ next.invite = request[q].invite
    PROVE  JoinsPaid(u)'
<1>1. \A p \in Requests : request'[p] = IF p = q THEN next ELSE request[p]
  BY DEF Goto, TypeOK
<1>2. Claims(u)' \subseteq Claims(u)
  BY <1>1 DEF Claims
<1> QED
  BY <1>2, NoAnswer

(* The invite of q gets the status that answers it.                         *)
LEMMA Answering ==
    ASSUME TypeOK, NEW i \in Invites, NEW status \in {"accepted", "revoked"},
           invite' = [invite EXCEPT ![i].status = status], NEW u \in Users
    PROVE  Answered(u)' = IF invite[i].email = u THEN Answered(u) \cup {i} ELSE Answered(u)
<1>1. /\ \A k \in Invites : invite'[k].email = invite[k].email
      /\ \A k \in Invites : k # i => invite'[k].status = invite[k].status
      /\ invite'[i].status = status
  BY DEF TypeOK, Invite
<1> QED
  BY <1>1 DEF Answered

LEMMA AdminPays ==
    ASSUME IInv, IInv', Paid, NEW q \in Requests,
           \/ \E caller \in Users, op \in Operations : Authorize(q, caller, op)
           \/ Abandon(q) \/ CommitDelete(q) \/ MemberStep(q)
    PROVE  Paid'
<1> SUFFICES ASSUME NEW u \in Users \ {Founder} PROVE JoinsPaid(u)'
  BY DEF Paid
<1>1. UNCHANGED <<joined, invite>>
  BY DEF Authorize, Abandon, CommitDelete, MemberStep, LoadMember, CommitRole, CommitRemoval
<1>2. \E next : Goto(q, next) /\ next.pc \notin {"pending", "ready"}
  <2>1. Idle.pc = "idle" /\ \A op : [Idle EXCEPT !.pc = "authorized", !.op = op].pc = "authorized"
    BY DEF Idle
  <2>2. CASE \E caller \in Users, op \in Operations : Authorize(q, caller, op)
    BY <2>1, <2>2 DEF Authorize
  <2>3. CASE Abandon(q) \/ CommitDelete(q)
    BY <2>1, <2>3 DEF Abandon, CommitDelete, Answer
  <2>4. ASSUME NEW v \in Users, LoadMember(q, v)
        PROVE  \E next : Goto(q, next) /\ next.pc \notin {"pending", "ready"}
    <3> DEFINE next == [request[q] EXCEPT !.pc = "loaded", !.user = v,
                                          !.seen = role[v], !.row = joined[v]]
    <3>1. Goto(q, next) /\ next.pc = "loaded"
      BY <2>4 DEF LoadMember, IInv, TypeOK, Request
    <3> QED
      BY <3>1
  <2>5. CASE (\E r \in GrantedRoles : CommitRole(q, r)) \/ CommitRemoval(q)
    BY <2>1, <2>5 DEF CommitRole, CommitRemoval, Answer
  <2> QED
    BY <2>2, <2>3, <2>4, <2>5 DEF MemberStep
<1>3. Answered(u)' = Answered(u) /\ JoinsPaid(u)
  BY <1>1 DEF Answered, Paid
<1> QED
  BY <1>1, <1>2, <1>3, QuietClaims DEF IInv

LEMMA InvitePays ==
    ASSUME IInv, IInv', Paid, NEW q \in Requests, InviteStep(q)
    PROVE  Paid'
<1> SUFFICES ASSUME NEW u \in Users \ {Founder} PROVE JoinsPaid(u)'
  BY DEF Paid
<1> DEFINE j == request[q].invite
<1>0. JoinsPaid(u) /\ Idle.pc = "idle" /\ TypeOK /\ TypeOK'
  BY DEF Paid, Idle, IInv
<1>1. ASSUME NEW i \in Invites, NEW v \in Users, NEW r \in GrantedRoles, CommitInvite(q, i, v, r)
      PROVE  JoinsPaid(u)'
  <2> DEFINE next == [request[q] EXCEPT !.pc = "mailing", !.invite = i]
  <2>1. Goto(q, next) /\ UNCHANGED joined /\ next.pc = "mailing"
    BY <1>0, <1>1 DEF CommitInvite, TypeOK, Request
  <2>2. /\ \A k \in Invites : k # i => invite'[k] = invite[k]
        /\ invite[i].status = "absent" /\ invite'[i].status = "pending"
    BY <1>0, <1>1 DEF CommitInvite, TypeOK, Invite
  <2>3. Answered(u)' = Answered(u)
    BY <2>2 DEF Answered
  <2> HIDE DEF next
  <2> QED
    BY <1>0, <2>1, <2>3, QuietClaims
<1>2. CASE SendInvite(q) \/ SendFails(q)
  <2>1. Goto(q, Idle) /\ UNCHANGED joined
    BY <1>2 DEF SendInvite, SendFails, Answer
  <2>2. \A k \in Invites : invite'[k].status = invite[k].status /\ invite'[k].email = invite[k].email
    <3>1. CASE SendInvite(q)
      BY <1>0, <3>1 DEF SendInvite, TypeOK, Invite
    <3>2. CASE SendFails(q)
      <4>1. PICK sent \in BOOLEAN :
              invite' = [invite EXCEPT ![j] = [invite[j] EXCEPT !.mailed = sent, !.refused = TRUE]]
        BY <1>0, <3>2 DEF SendFails, TypeOK
      <4> QED
        BY <1>0, <4>1 DEF TypeOK, Invite
    <3> QED
      BY <1>2, <3>1, <3>2
  <2>3. Answered(u)' = Answered(u)
    BY <2>2 DEF Answered
  <2> QED
    BY <1>0, <2>1, <2>3, QuietClaims
<1>3. ASSUME NEW i \in Invites, LoadInvite(q, i)
      PROVE  JoinsPaid(u)'
  <2> DEFINE next == [request[q] EXCEPT !.pc = "loaded", !.invite = i, !.seen = invite[i].status]
  <2>1. Goto(q, next) /\ UNCHANGED <<joined, invite>> /\ next.pc = "loaded"
    BY <1>0, <1>3 DEF LoadInvite, TypeOK, Request
  <2>2. Answered(u)' = Answered(u)
    BY <2>1 DEF Answered
  <2> HIDE DEF next
  <2> QED
    BY <1>0, <2>1, <2>2, QuietClaims
<1>4. CASE CommitRevoke(q)
  <2>1. Goto(q, Idle) /\ UNCHANGED joined /\ j \in Invites
    BY <1>0, <1>4 DEF CommitRevoke, At, Answer, TypeOK
  <2>2. CASE Answered(u)' = Answered(u)
    BY <1>0, <2>1, <2>2, QuietClaims
  <2>3. CASE Answered(u)' # Answered(u)
    <3>1. invite' = [invite EXCEPT ![j].status = "revoked"]
      BY <1>4, <2>3 DEF CommitRevoke, Answered
    <3>2. Answered(u)' = Answered(u) \cup {j} /\ j \notin Answered(u)
      <4>1. Answered(u)' = IF invite[j].email = u THEN Answered(u) \cup {j} ELSE Answered(u)
        BY <1>0, <2>1, <3>1, Answering
      <4> QED
        BY <2>3, <4>1
    <3>3. q \notin Claims(u)'
      BY <1>0, <2>1 DEF Goto, TypeOK, Claims
    <3>4. joined'[u] \in {joined[u], joined[u] + 1}
      BY <2>1
    <3> HIDE DEF j
    <3> QED
      BY <1>0, <3>2, <3>3, <3>4, OneMoreAnswer
  <2> QED
    BY <2>2, <2>3
<1> QED
  BY <1>1, <1>2, <1>3, <1>4 DEF InviteStep

(* Joining either answers the invite or spends the claim on it.             *)
LEMMA AcceptPays ==
    ASSUME IInv, IInv', Paid, NEW q \in Requests, AcceptStep(q)
    PROVE  Paid'
<1> SUFFICES ASSUME NEW u \in Users \ {Founder} PROVE JoinsPaid(u)'
  BY DEF Paid
<1> DEFINE i == request[q].invite
<1>0. JoinsPaid(u) /\ Idle.pc = "idle" /\ TypeOK /\ TypeOK'
  BY DEF Paid, Idle, IInv
<1>1. ASSUME NEW k \in Invites, LoadPending(q, k)
      PROVE  JoinsPaid(u)'
  <2> DEFINE next == [Idle EXCEPT !.pc = "pending", !.op = "accept_invite",
                                  !.user = invite[k].email, !.invite = k]
  <2>1. /\ Goto(q, next) /\ UNCHANGED <<joined, invite>> /\ next.invite = k
        /\ invite[k].status = "pending"
    BY <1>1 DEF LoadPending, Acceptable, Idle
  <2>2. Answered(u)' = Answered(u) /\ k \notin Answered(u)
    BY <2>1 DEF Answered
  <2> HIDE DEF next
  <2> QED
    BY <1>0, <2>1, <2>2, QuietClaims
<1>2. CASE LookUpMember(q)
  <2> DEFINE next == [request[q] EXCEPT !.pc = "ready", !.seen = role[request[q].user]]
  <2>1. /\ Goto(q, next) /\ UNCHANGED <<joined, invite>>
        /\ next.invite = i /\ request[q].pc = "pending"
    BY <1>0, <1>2 DEF LookUpMember, TypeOK, Request
  <2>2. Answered(u)' = Answered(u)
    BY <2>1 DEF Answered
  <2> HIDE DEF next
  <2> QED
    BY <1>0, <2>1, <2>2, QuietClaims
<1>3. CASE CommitAccept(q)
  <2>1. /\ Goto(q, Idle) /\ request[q].pc = "ready" /\ i \in Invites
        /\ invite' = [invite EXCEPT ![i].status = "accepted"]
        /\ invite[i].email = request[q].user
    BY <1>0, <1>3 DEF CommitAccept, Answer, TypeOK, IInv, Backed
  <2>2. /\ joined'[u] \in {joined[u], joined[u] + 1}
        /\ u # request[q].user => joined'[u] = joined[u]
    BY <1>0, <1>3 DEF CommitAccept, TypeOK
  <2>3. /\ \A p \in Requests : request'[p] = IF p = q THEN Idle ELSE request[p]
        /\ q \notin Claims(u)'
    BY <1>0, <2>1 DEF Goto, TypeOK, Claims
  <2>4. Answered(u)' = IF invite[i].email = u THEN Answered(u) \cup {i} ELSE Answered(u)
    BY <1>0, <2>1, Answering
  <2>5. CASE Answered(u)' # Answered(u)
    BY <1>0, <2>2, <2>3, <2>4, <2>5, OneMoreAnswer
  <2>6. CASE Answered(u)' = Answered(u)
    <3>1. Claims(u)' \subseteq Claims(u)
      BY <2>3, <2>6 DEF Claims
    <3>2. u = request[q].user => q \in Claims(u)
      BY <2>1, <2>4, <2>6 DEF Claims
    <3> QED
      BY <1>0, <2>2, <2>3, <2>6, <3>1, <3>2, NoAnswer
  <2> QED
    BY <2>5, <2>6
<1> QED
  BY <1>1, <1>2, <1>3 DEF AcceptStep

LEMMA NextPays == IInv /\ IInv' /\ Paid /\ [Next]_vars => Paid'
<1> SUFFICES ASSUME IInv, IInv', Paid, [Next]_vars PROVE Paid'
  OBVIOUS
<1>1. CASE UNCHANGED <<joined, request>> /\ \A u \in Users : Answered(u)' = Answered(u)
  <2>1. \A u \in Users : Claims(u)' = Claims(u)
    BY <1>1 DEF Claims
  <2> QED
    BY <1>1, <2>1 DEF Paid, JoinsPaid
<1>2. UNCHANGED vars => UNCHANGED <<joined, request>> /\ \A u \in Users : Answered(u)' = Answered(u)
  BY DEF vars, Answered
<1>3. ASSUME NEW i \in Invites, Expire(i)
      PROVE  UNCHANGED <<joined, request>> /\ \A u \in Users : Answered(u)' = Answered(u)
  <2>1. /\ UNCHANGED <<joined, request>>
        /\ \A k \in Invites : /\ invite'[k].status = invite[k].status
                              /\ invite'[k].email = invite[k].email
    BY <1>3 DEF Expire, IInv, TypeOK, Invite
  <2> QED
    BY <2>1 DEF Answered
<1> QED
  BY <1>1, <1>2, <1>3, AdminPays, InvitePays, AcceptPays DEF Next

(* An answered invite lets nobody in any more but the requests that had     *)
(* loaded it as pending before: nobody joins more often than their answered *)
(* invites times the requests in flight (accept_invite, revoke_invite).     *)
THEOREM AnsweredInvitesAreSpent == Spec => []InviteUsedOnce
<1>1. Init => Paid
  <2> SUFFICES ASSUME Init, NEW u \in Users \ {Founder} PROVE JoinsPaid(u)
    BY DEF Paid
  <2>1. Claims(u) = {} /\ Answered(u) = {} /\ joined[u] = 0
    BY DEF Init, Claims, Answered, Idle
  <2>2. Cardinality({}) = 0 /\ Cardinality(Requests) \in Nat
    BY FS_EmptySet, Counted
  <2> QED
    BY <2>1, <2>2 DEF JoinsPaid
<1>2. IInv /\ Paid => InviteUsedOnce
  <2> SUFFICES ASSUME IInv, Paid, NEW u \in Users \ {Founder}
               PROVE  joined[u] <= Cardinality(Answered(u)) * Cardinality(Requests)
    BY DEF InviteUsedOnce
  <2>1. joined[u] + Cardinality(Claims(u)) <= Cardinality(Answered(u)) * Cardinality(Requests)
    BY DEF Paid, JoinsPaid
  <2>2. \A a, n \in Nat : a * n \in Nat
    OBVIOUS
  <2>3. Cardinality(Answered(u)) * Cardinality(Requests) \in Nat
    BY <2>2, Counted
  <2>4. joined[u] \in Nat /\ Cardinality(Claims(u)) \in Nat
    BY Counted DEF IInv, TypeOK
  <2> QED
    BY <2>1, <2>3, <2>4
<1> QED
  BY <1>1, <1>2, NextPays, Invariance, PTL DEF Spec
=============================================================================
