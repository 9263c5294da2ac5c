----------------------------- MODULE Membership -----------------------------
(***************************************************************************)
(* Members and invites of one organization: the handlers of                *)
(* apps/api/routes/organizations.py and routes/invites.py with             *)
(* services/invite_service.py under them.                                  *)
(*                                                                         *)
(* A request is a record that moves through its handler, one action per    *)
(* read or commit; requests interleave at every one of them.  What a       *)
(* request is about (which member, invite or role) is chosen by the first  *)
(* action that uses it.                                                    *)
(***************************************************************************)
EXTENDS Naturals, FiniteSets

CONSTANTS
    Users,      \* accounts, each with its own e-mail address
    Founder,    \* the account that created the organization
    Invites,    \* rows of org_invites that may be created
    Requests,   \* requests in flight at a time
    NoInvite,
    Faults      \* subset of {"smtp"}: send_email may raise

ASSUME FounderIsUser == Founder \in Users
ASSUME NoInviteIsFresh == NoInvite \notin Invites
ASSUME FinitelyMany == IsFiniteSet(Invites) /\ IsFiniteSet(Requests)
ASSUME FaultsKnown == Faults \subseteq {"smtp"}

VARIABLES
    deleted,   \* organizations.deleted_at is set
    role,      \* role of each user's org_members row, "none" without one
    joined,    \* org_members rows each user has had; the last is the current one
    invite,    \* the org_invites rows
    request    \* the handlers

vars == <<deleted, role, joined, invite, request>>

-----------------------------------------------------------------------------
(* ROLE_LEVELS; a user without a row is below every role.                   *)
Level == [none |-> 0, member |-> 1, admin |-> 2, owner |-> 3]
Roles == {"none", "member", "admin", "owner"}
GrantedRoles == {"admin", "member"}   \* of an invite or a role change

Operations == {"create_invite", "revoke_invite", "update_member_role",
               "remove_member", "delete_org"}

(* mailed: the address has the token.  refused: the API answered that the   *)
(* invite was not created.                                                  *)
Invite == [status : {"absent", "pending", "accepted", "revoked"},
           email : Users, role : GrantedRoles,
           expired : BOOLEAN, mailed : BOOLEAN, refused : BOOLEAN]

(* seen and row: the role or status that the request loaded, and which of   *)
(* the user's rows it belongs to.                                           *)
Request == [pc : {"idle", "authorized", "mailing", "loaded", "pending", "ready"},
            op : Operations \cup {"none", "accept_invite"},
            user : Users, invite : Invites \cup {NoInvite},
            seen : Roles \cup {"pending", "accepted", "revoked"}, row : Nat]

Idle == [pc |-> "idle", op |-> "none", user |-> Founder, invite |-> NoInvite,
         seen |-> "none", row |-> 0]

(* Every variable has its type; a role is one that models/org_member.py knows.*)
TypeOK ==
    /\ deleted \in BOOLEAN
    /\ role \in [Users -> Roles]
    /\ joined \in [Users -> Nat]
    /\ invite \in [Invites -> Invite]
    /\ request \in [Requests -> Request]
    /\ \A q \in Requests :
          request[q].pc \in {"mailing", "pending", "ready"} => request[q].invite \in Invites
    /\ \A q \in Requests :
          (request[q].pc = "loaded" /\ request[q].op = "revoke_invite") =>
              request[q].invite \in Invites

(* create_organization has committed the organization and its owner.        *)
Init ==
    /\ deleted = FALSE
    /\ role = [u \in Users |-> IF u = Founder THEN "owner" ELSE "none"]
    /\ joined = [u \in Users |-> IF u = Founder THEN 1 ELSE 0]
    /\ invite = [i \in Invites |->
                    [status |-> "absent", email |-> Founder, role |-> "member",
                     expired |-> FALSE, mailed |-> FALSE, refused |-> FALSE]]
    /\ request = [q \in Requests |-> Idle]

-----------------------------------------------------------------------------
At(q, pc, op) == request[q].pc = pc /\ request[q].op = op
Goto(q, next) == request' = [request EXCEPT ![q] = next]
Answer(q) == Goto(q, Idle)

MinRole(op) == IF op = "delete_org" THEN "owner" ELSE "admin"

(* Every handler but accept_invite: the organization is not deleted and the *)
(* caller's role is high enough.  Nothing looks at either again.            *)
Authorize(q, caller, op) ==
    /\ request[q].pc = "idle"
    /\ ~deleted
    /\ Level[role[caller]] >= Level[MinRole(op)]
    /\ Goto(q, [Idle EXCEPT !.pc = "authorized", !.op = op])
    /\ UNCHANGED <<deleted, role, joined, invite>>

(* A 4xx answer, or the death of the API process between two commits.       *)
Abandon(q) ==
    /\ request[q].pc # "idle"
    /\ Answer(q)
    /\ UNCHANGED <<deleted, role, joined, invite>>

CommitDelete(q) ==
    /\ At(q, "authorized", "delete_org")
    /\ deleted' = TRUE
    /\ Answer(q)
    /\ UNCHANGED <<role, joined, invite>>

-----------------------------------------------------------------------------
(* create_invite commits the row, then sends the e-mail.                    *)

CommitInvite(q, i, u, r) ==
    /\ At(q, "authorized", "create_invite")
    /\ invite[i].status = "absent"
    /\ invite' = [invite EXCEPT ![i] = [@ EXCEPT !.status = "pending",
                                                 !.email = u, !.role = r]]
    /\ Goto(q, [request[q] EXCEPT !.pc = "mailing", !.invite = i])
    /\ UNCHANGED <<deleted, role, joined>>

SendInvite(q) ==
    /\ request[q].pc = "mailing"
    /\ invite' = [invite EXCEPT ![request[q].invite].mailed = TRUE]
    /\ Answer(q)
    /\ UNCHANGED <<deleted, role, joined>>

(* send_email raised, before or after the server took the message; the      *)
(* route answers 502.                                                       *)
SendFails(q) ==
    /\ "smtp" \in Faults
    /\ request[q].pc = "mailing"
    /\ \E sent \in BOOLEAN :
          invite' = [invite EXCEPT ![request[q].invite] =
                        [@ EXCEPT !.mailed = sent, !.refused = TRUE]]
    /\ Answer(q)
    /\ UNCHANGED <<deleted, role, joined>>

(* revoke_invite: the row is loaded whatever its status is.                 *)
LoadInvite(q, i) ==
    /\ At(q, "authorized", "revoke_invite")
    /\ invite[i].status # "absent"
    /\ Goto(q, [request[q] EXCEPT !.pc = "loaded", !.invite = i,
                                  !.seen = invite[i].status])
    /\ UNCHANGED <<deleted, role, joined, invite>>

(* The session writes the column only if it differs from what it loaded.    *)
CommitRevoke(q) ==
    /\ At(q, "loaded", "revoke_invite")
    /\ invite' = IF request[q].seen = "revoked" THEN invite
                 ELSE [invite EXCEPT ![request[q].invite].status = "revoked"]
    /\ Answer(q)
    /\ UNCHANGED <<deleted, role, joined>>

Expire(i) ==
    /\ invite[i].status # "absent"
    /\ ~invite[i].expired
    /\ invite' = [invite EXCEPT ![i].expired = TRUE]
    /\ UNCHANGED <<deleted, role, joined, request>>

-----------------------------------------------------------------------------
(* accept_invite, by the user the token was mailed to.  It asks neither for *)
(* a role nor whether the organization still exists.  An operator with a    *)
(* suffix is a mutation: a bug the properties must catch, used by no action.*)

Acceptable_AnyStatus(i) ==
    /\ invite[i].mailed
    /\ ~invite[i].expired
Acceptable(i) ==
    /\ invite[i].mailed
    /\ invite[i].status = "pending"
    /\ ~invite[i].expired

LoadPending(q, i) ==
    /\ request[q].pc = "idle"
    /\ Acceptable(i)
    /\ Goto(q, [Idle EXCEPT !.pc = "pending", !.op = "accept_invite",
                            !.user = invite[i].email, !.invite = i])
    /\ UNCHANGED <<deleted, role, joined, invite>>

LookUpMember(q) ==
    /\ request[q].pc = "pending"
    /\ Goto(q, [request[q] EXCEPT !.pc = "ready", !.seen = role[request[q].user]])
    /\ UNCHANGED <<deleted, role, joined, invite>>

CommitAccept_KeepsStatus(q) ==
    LET u == request[q].user
        i == request[q].invite IN
    /\ request[q].pc = "ready"
    /\ request[q].seen = "none" /\ role[u] = "none"
    /\ role' = [role EXCEPT ![u] = invite[i].role]
    /\ joined' = [joined EXCEPT ![u] = @ + 1]
    /\ Answer(q)
    /\ UNCHANGED <<deleted, invite>>

(* One commit for the membership and the invite.  uq_user_organization      *)
(* makes it fail as a whole if the user became a member meanwhile.          *)
CommitAccept(q) ==
    LET u == request[q].user
        i == request[q].invite IN
    /\ request[q].pc = "ready"
    /\ \/ /\ request[q].seen = "none"
          /\ role[u] = "none"
          /\ role' = [role EXCEPT ![u] = invite[i].role]
          /\ joined' = [joined EXCEPT ![u] = @ + 1]
       \/ /\ request[q].seen # "none"
          /\ UNCHANGED <<role, joined>>
    /\ invite' = [invite EXCEPT ![i].status = "accepted"]
    /\ Answer(q)
    /\ UNCHANGED deleted

-----------------------------------------------------------------------------
(* update_member_role and remove_member.                                    *)

Owners == {u \in Users : role[u] = "owner"}

Movable_AnyOwner(u) == role[u] # "none"
Movable(u) ==
    /\ role[u] # "none"
    /\ role[u] = "owner" => Cardinality(Owners) > 1

LoadMember(q, u) ==
    /\ request[q].pc = "authorized"
    /\ request[q].op \in {"update_member_role", "remove_member"}
    /\ Movable(u)
    /\ Goto(q, [request[q] EXCEPT !.pc = "loaded", !.user = u,
                                  !.seen = role[u], !.row = joined[u]])
    /\ UNCHANGED <<deleted, role, joined, invite>>

(* The row that was loaded is still the user's row.                         *)
RowExists(q) ==
    LET u == request[q].user IN role[u] # "none" /\ joined[u] = request[q].row

(* No UPDATE is sent for a column that did not change; one that meets no    *)
(* row raises, which is Abandon.                                            *)
CommitRole(q, r) ==
    /\ At(q, "loaded", "update_member_role")
    /\ \/ request[q].seen = r /\ UNCHANGED role
       \/ /\ request[q].seen # r
          /\ RowExists(q)
          /\ role' = [role EXCEPT ![request[q].user] = r]
    /\ Answer(q)
    /\ UNCHANGED <<deleted, joined, invite>>

CommitRemoval_Marks(q) ==
    /\ At(q, "loaded", "remove_member")
    /\ role' = IF RowExists(q) THEN [role EXCEPT ![request[q].user] = "removed"] ELSE role
    /\ Answer(q)
    /\ UNCHANGED <<deleted, joined, invite>>

(* The DELETE only warns when the row is gone.                              *)
CommitRemoval(q) ==
    /\ At(q, "loaded", "remove_member")
    /\ role' = IF RowExists(q) THEN [role EXCEPT ![request[q].user] = "none"] ELSE role
    /\ Answer(q)
    /\ UNCHANGED <<deleted, joined, invite>>

-----------------------------------------------------------------------------
InviteStep(q) ==
    \/ \E i \in Invites, u \in Users, r \in GrantedRoles : CommitInvite(q, i, u, r)
    \/ SendInvite(q)
    \/ SendFails(q)
    \/ \E i \in Invites : LoadInvite(q, i)
    \/ CommitRevoke(q)

AcceptStep(q) ==
    \/ \E i \in Invites : LoadPending(q, i)
    \/ LookUpMember(q)
    \/ CommitAccept(q)

MemberStep(q) ==
    \/ \E u \in Users : LoadMember(q, u)
    \/ \E r \in GrantedRoles : CommitRole(q, r)
    \/ CommitRemoval(q)

Next ==
    \/ \E q \in Requests :
          \/ \E caller \in Users, op \in Operations : Authorize(q, caller, op)
          \/ Abandon(q) \/ CommitDelete(q)
          \/ InviteStep(q) \/ AcceptStep(q) \/ MemberStep(q)
    \/ \E i \in Invites : Expire(i)

Spec == Init /\ [][Next]_vars

-----------------------------------------------------------------------------
(* Properties that hold however requests interleave.                        *)

(* The organization has exactly one owner, its founder: no invite, role     *)
(* change or removal makes another or takes this one away (the guards of    *)
(* update_member_role and remove_member, and the roles an invite may grant).*)
OneOwner == \A u \in Users : role[u] = "owner" <=> u = Founder

(* Nobody is or was a member without an invite to their address that is no  *)
(* longer pending, and nobody's invite reads accepted who never joined      *)
(* (accept_invite commits the two together).                                *)
Answered(u) == {i \in Invites : invite[i].email = u
                                  /\ invite[i].status \in {"accepted", "revoked"}}
MembersWereInvited ==
    /\ \A u \in Users \ {Founder} : joined[u] > 0 => Answered(u) # {}
    /\ \A i \in Invites : invite[i].status = "accepted" => joined[invite[i].email] > 0

(* An invite that was answered lets nobody in any more: a user has joined at *)
(* most once for each of their answered invites and each request that may   *)
(* have loaded it as pending before (the status check of accept_invite).    *)
(* With one request at a time that is once per invite.                      *)
InviteUsedOnce ==
    \A u \in Users \ {Founder} :
        joined[u] <= Cardinality(Answered(u)) * Cardinality(Requests)
=============================================================================
