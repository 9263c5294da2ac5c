--------------------------- MODULE WorkspaceKeys ---------------------------
(***************************************************************************)
(* One workspace: its deletion, the role overrides of its users, its MCP   *)
(* API keys, and the tool calls that the MCP server answers for a key.     *)
(* The handlers of the API run read by read and commit by commit; the MCP  *)
(* server shares only the database with them.  Roles in the organization   *)
(* change at any time (module Membership).  An operator with a suffix is a *)
(* mutation.                                                               *)
(***************************************************************************)
EXTENDS Naturals, FiniteSets

CONSTANTS Users, Procs, \* users, and API requests under way
          Callers,      \* tool calls under way
          None,
          MaxKeys, MaxRequests, MaxRoleChanges, MaxFaults \* bounds

Keys == 1..MaxKeys
Roles == {"member", "admin"} \* an owner is treated as an admin here

ASSUME KeysAssumption ==
  /\ {MaxRequests, MaxRoleChanges, MaxFaults} \subseteq Nat
  /\ MaxKeys \in Nat \ {0}
  /\ None \notin Users \cup Roles

KeyOps == {"create", "revoke", "rotate"}
RoleOps == {"setRole", "clearRole"}

VARIABLES role,      \* role[u] in the organization, None if not a member
          wasMember, \* users who ever were members
          deleted,   \* the workspace is soft-deleted
          override,  \* workspace_members: role and row of a user's override
          key,       \* mcp_api_keys: key[k] for the keys issued
          request,   \* request[p]: the API handler on process p
          call,      \* call[c]: the key of the tool call under way, 0 if none
          audit,     \* audit rows of the keys' lifecycle: <<action, key>>
          contested, \* keys that two requests had in hand at once
          excused,   \* keys whose request died between its commit and its audit row
          rows, requests, changes, faults

vars == <<role, wasMember, deleted, override, key, request, call, audit,
          contested, excused, rows, requests, changes, faults>>

NoRequest == [op |-> "none", pc |-> "idle", user |-> None, key |-> 0, target |-> None,
              role |-> None, seen |-> "none", row |-> 0]
NoRow == [role |-> None, row |-> 0]

(* A key and the created key whose expires_at it has. *)
Key(parent, origin, expired) ==
  [status |-> "active", parent |-> parent, origin |-> origin, expired |-> expired,
   revoker |-> None, used |-> FALSE]

(* A workspace with one key. *)
Init ==
  /\ role \in [Users -> Roles \cup {None}] /\ \E u \in Users : role[u] = "admin"
  /\ wasMember = {u \in Users : role[u] # None}
  /\ deleted = FALSE
  /\ override = [u \in Users |-> NoRow]
  /\ key = <<Key(0, 1, FALSE)>>
  /\ request = [p \in Procs |-> NoRequest]
  /\ call = [c \in Callers |-> 0]
  /\ audit = {<<"create", 1>>}
  /\ contested = {} /\ excused = {}
  /\ rows = 0 /\ requests = 0 /\ changes = 0 /\ faults = 0
-----------------------------------------------------------------------------
Issued == DOMAIN key
NextKey == Cardinality(Issued) + 1

(* get_workspace_role: the override wins over the role in the organization. *)
Effective(u) == IF override[u].role # None THEN override[u].role ELSE role[u]

To(p, r) == request' = [request EXCEPT ![p] = r]
Goes(p, pc) == To(p, [request[p] EXCEPT !.pc = pc])
Finish(p) == To(p, NoRequest)

Kept == <<role, wasMember, call, requests, changes, faults>>
Rest == <<role, wasMember, deleted, override, key, call, audit, contested, excused, rows, requests, changes, faults>>

Arrive(p, op, u) ==
  /\ request[p] = NoRequest /\ requests < MaxRequests
  /\ requests' = requests + 1
  /\ \E k \in IF op \in {"revoke", "rotate"} THEN Issued ELSE {0},
        t \in IF op \in RoleOps THEN Users ELSE {None},
        r \in IF op = "setRole" THEN Roles ELSE {None} :
       To(p, [NoRequest EXCEPT !.op = op, !.user = u, !.key = k, !.target = t, !.role = r,
                               !.pc = IF op = "create" THEN "authorize" ELSE "load"])
  /\ UNCHANGED <<role, wasMember, deleted, override, key, call, audit, contested, excused, rows, changes, faults>>

(* The first read: the key, or the workspace. *)
Load(p) ==
  LET r == request[p]
      others == {q \in Procs \ {p} : request[q].key = r.key /\ request[q].seen # "none"}
  IN
  /\ r.pc = "load"
  /\ IF r.op \in KeyOps
       THEN /\ To(p, [r EXCEPT !.pc = "authorize", !.seen = key[r.key].status])
            /\ contested' = IF others # {} THEN contested \cup {r.key} ELSE contested
       ELSE /\ IF deleted THEN Finish(p) ELSE Goes(p, "authorize")
            /\ UNCHANGED contested
  /\ UNCHANGED <<role, wasMember, deleted, override, key, call, audit, excused, rows, requests, changes, faults>>

Allowed(r) ==
  CASE r.op \in KeyOps  -> ~deleted /\ role[r.user] = "admin"
    [] r.op \in RoleOps -> role[r.user] = "admin"
    [] r.op = "delete"  -> role[r.user] # None /\ Effective(r.user) = "admin"

(* The three or four reads of the authorization are one step here. *)
Authorize(p) ==
  LET r == request[p] IN
  /\ r.pc = "authorize"
  /\ IF ~Allowed(r) THEN Finish(p)
     ELSE Goes(p, CASE r.op = "setRole" -> "target" [] r.op = "clearRole" -> "row" [] OTHER -> "commit")
  /\ UNCHANGED Rest

CheckTarget_Skipped(p) ==
  /\ request[p].pc = "target"
  /\ Goes(p, "row")
  /\ UNCHANGED Rest

CheckTarget(p) ==
  /\ request[p].pc = "target"
  /\ IF role[request[p].target] = None THEN Finish(p) ELSE Goes(p, "row")
  /\ UNCHANGED Rest

LoadOverride(p) ==
  LET r == request[p]
      o == override[r.target] IN
  /\ r.pc = "row"
  /\ IF r.op = "clearRole" /\ o = NoRow THEN Finish(p)
     ELSE To(p, [r EXCEPT !.pc = "commit", !.seen = o.role, !.row = o.row])
  /\ UNCHANGED Rest
-----------------------------------------------------------------------------
(* mcp_keys.py *)

Issue(k) == [i \in Issued \cup {NextKey} |-> IF i = NextKey THEN k ELSE key[i]]
Revoked(keys, k, u) == [keys EXCEPT ![k].status = "revoked", ![k].revoker = u]

CommitCreate(p) ==
  LET r == request[p] IN
  /\ r.pc = "commit" /\ r.op = "create" /\ NextKey \in Keys
  /\ key' = Issue(Key(0, NextKey, FALSE))
  /\ To(p, [r EXCEPT !.pc = "audit", !.key = NextKey])
  /\ UNCHANGED <<deleted, override, audit, contested, excused, rows, Kept>>

CommitRevoke_Again(p) ==
  LET r == request[p] IN
  /\ r.pc = "commit" /\ r.op = "revoke"
  /\ key' = Revoked(key, r.key, r.user)
  /\ Goes(p, "audit")
  /\ UNCHANGED <<deleted, override, audit, contested, excused, rows, Kept>>

(* A key that was loaded revoked is returned as it is. *)
CommitRevoke(p) ==
  LET r == request[p] IN
  /\ r.pc = "commit" /\ r.op = "revoke"
  /\ IF r.seen = "revoked" THEN Finish(p) /\ UNCHANGED key
     ELSE key' = Revoked(key, r.key, r.user) /\ Goes(p, "audit")
  /\ UNCHANGED <<deleted, override, audit, contested, excused, rows, Kept>>

CommitRotate_LeavesOld(p) ==
  LET r == request[p] IN
  /\ r.pc = "commit" /\ r.op = "rotate" /\ NextKey \in Keys
  /\ key' = Issue(Key(r.key, key[r.key].origin, key[r.key].expired))
  /\ To(p, [r EXCEPT !.pc = "audit", !.key = NextKey])
  /\ UNCHANGED <<deleted, override, audit, contested, excused, rows, Kept>>

(* The successor takes over the expiry; the old key is revoked with the same
   commit, unless it was loaded revoked. *)
CommitRotate(p) ==
  LET r == request[p]
      new == Issue(Key(r.key, key[r.key].origin, key[r.key].expired)) IN
  /\ r.pc = "commit" /\ r.op = "rotate" /\ NextKey \in Keys
  /\ key' = IF r.seen = "revoked" THEN new ELSE Revoked(new, r.key, r.user)
  /\ To(p, [r EXCEPT !.pc = "audit", !.key = NextKey])
  /\ UNCHANGED <<deleted, override, audit, contested, excused, rows, Kept>>
-----------------------------------------------------------------------------
(* workspaces.py *)

CommitDelete(p) ==
  /\ request[p].pc = "commit" /\ request[p].op = "delete"
  /\ deleted' = TRUE
  /\ Goes(p, "audit")
  /\ UNCHANGED <<override, key, audit, contested, excused, rows, Kept>>

(* An insert meets the unique constraint, an update a row that is gone: both
   end in an error.  Assigning the role that was loaded updates nothing. *)
CommitSetRole(p) ==
  LET r == request[p]
      o == override[r.target] IN
  /\ r.pc = "commit" /\ r.op = "setRole"
  /\ \/ /\ r.row = 0 /\ o = NoRow
        /\ rows' = rows + 1
        /\ override' = [override EXCEPT ![r.target] = [role |-> r.role, row |-> rows + 1]]
        /\ To(p, [r EXCEPT !.pc = "audit", !.row = rows + 1])
     \/ /\ r.row # 0 /\ o.row = r.row
        /\ override' = IF r.role = r.seen THEN override ELSE [override EXCEPT ![r.target].role = r.role]
        /\ Goes(p, "audit") /\ UNCHANGED rows
     \/ /\ o.row # r.row
        /\ Finish(p) /\ UNCHANGED <<override, rows>>
  /\ UNCHANGED <<deleted, key, audit, contested, excused, Kept>>

CommitClearRole_Blanks(p) ==
  LET r == request[p] IN
  /\ r.pc = "commit" /\ r.op = "clearRole"
  /\ override' = [override EXCEPT ![r.target].role = None]
  /\ Goes(p, "audit")
  /\ UNCHANGED <<deleted, key, audit, contested, excused, rows, Kept>>

CommitClearRole(p) ==
  LET r == request[p] IN
  /\ r.pc = "commit" /\ r.op = "clearRole"
  /\ override' = IF override[r.target].row = r.row THEN [override EXCEPT ![r.target] = NoRow] ELSE override
  /\ Goes(p, "audit")
  /\ UNCHANGED <<deleted, key, audit, contested, excused, rows, Kept>>
-----------------------------------------------------------------------------
Audit_OnlyIssued(p) ==
  LET r == request[p] IN
  /\ r.pc = "audit"
  /\ audit' = IF r.op \in {"create", "rotate"} THEN audit \cup {<<r.op, r.key>>} ELSE audit
  /\ Finish(p)
  /\ UNCHANGED <<deleted, override, key, contested, excused, rows, Kept>>

(* log_action, a commit of its own.  (The audit rows of overrides and of the
   deletion are not kept here.) *)
Audit(p) ==
  LET r == request[p] IN
  /\ r.pc = "audit"
  /\ audit' = IF r.op \in KeyOps THEN audit \cup {<<r.op, r.key>>} ELSE audit
  /\ Finish(p)
  /\ UNCHANGED <<deleted, override, key, contested, excused, rows, Kept>>

(* The process dies, or the database fails, after the commit; earlier it is as
   if the request had been refused. *)
RequestDies(p) ==
  LET r == request[p] IN
  /\ r.pc = "audit" /\ faults < MaxFaults
  /\ faults' = faults + 1
  /\ excused' = IF r.op \in KeyOps THEN excused \cup {r.key} ELSE excused
  /\ Finish(p)
  /\ UNCHANGED <<role, wasMember, deleted, override, key, call, audit, contested, rows, requests, changes>>

RequestStep(p) ==
  \/ \E u \in Users, op \in KeyOps \cup RoleOps \cup {"delete"} : Arrive(p, op, u)
  \/ Load(p) \/ Authorize(p) \/ CheckTarget(p) \/ LoadOverride(p)
  \/ CommitCreate(p) \/ CommitRevoke(p) \/ CommitRotate(p)
  \/ CommitDelete(p) \/ CommitSetRole(p) \/ CommitClearRole(p)
  \/ Audit(p) \/ RequestDies(p)
-----------------------------------------------------------------------------
(* The MCP server: EkoaTokenVerifier and the tools. *)

CallKept == <<role, wasMember, deleted, override, request, audit, contested, excused, rows, requests, changes, faults>>

(* One look-up per request; neither the workspace nor the creator is looked at. *)
Verify(c, k) ==
  /\ call[c] = 0
  /\ key[k].status = "active" /\ ~key[k].expired
  /\ call' = [call EXCEPT ![c] = k]
  /\ UNCHANGED <<key, CallKept>>

RecordUsage_WholeRow(c) ==
  /\ call[c] # 0
  /\ key' = [key EXCEPT ![call[c]] = [@ EXCEPT !.used = TRUE, !.status = "active", !.revoker = None]]
  /\ call' = [call EXCEPT ![c] = 0]
  /\ UNCHANGED CallKept

(* After the reads of the tool: last_used_at and the audit row of the call, in
   one commit, before the result goes out. *)
RecordUsage(c) ==
  /\ call[c] # 0
  /\ key' = [key EXCEPT ![call[c]].used = TRUE]
  /\ call' = [call EXCEPT ![c] = 0]
  /\ UNCHANGED CallKept

(* A tool or its database fails: the client gets an error, the log nothing. *)
CallFails(c) ==
  /\ call[c] # 0
  /\ call' = [call EXCEPT ![c] = 0]
  /\ UNCHANGED <<key, CallKept>>

CallStep(c) == (\E k \in Issued : Verify(c, k)) \/ RecordUsage(c) \/ CallFails(c)
-----------------------------------------------------------------------------
(* Members join, change roles and leave; the last admin stays (Membership). *)
ChangeRole(u, to) ==
  /\ changes < MaxRoleChanges /\ to # role[u]
  /\ \E v \in Users \ {u} : role[v] = "admin"
  /\ role' = [role EXCEPT ![u] = to]
  /\ wasMember' = IF to # None THEN wasMember \cup {u} ELSE wasMember
  /\ changes' = changes + 1
  /\ UNCHANGED <<deleted, override, key, request, call, audit, contested, excused, rows, requests, faults>>

Expires(k) ==
  /\ ~key[k].expired /\ changes < MaxRoleChanges
  /\ key' = [i \in Issued |-> [key[i] EXCEPT !.expired = @ \/ key[i].origin = key[k].origin]]
  /\ changes' = changes + 1
  /\ UNCHANGED <<role, wasMember, deleted, override, request, call, audit, contested, excused, rows, requests, faults>>

Next ==
  \/ \E p \in Procs : RequestStep(p)
  \/ \E c \in Callers : CallStep(c)
  \/ \E u \in Users, to \in Roles \cup {None} : ChangeRole(u, to)
  \/ \E k \in Issued : Expires(k)

Spec == Init /\ [][Next]_vars
-----------------------------------------------------------------------------
KeyState ==
  [status : {"active", "revoked"}, parent : Nat, origin : Nat, expired : BOOLEAN,
   revoker : Users \cup {None}, used : BOOLEAN]
RequestState ==
  [op : KeyOps \cup RoleOps \cup {"none", "delete"},
   pc : {"idle", "load", "authorize", "target", "row", "commit", "audit"},
   user : Users \cup {None}, key : Nat, target : Users \cup {None}, role : Roles \cup {None},
   seen : {"none", "active", "revoked", None} \cup Roles, row : Nat]

(* Every variable has its type: a key that is replaced or revoked is still a row
   of its own (mcp_keys.py:255), and an override has a role exactly as long as it
   has a row (workspaces.py:213-227). *)
TypeOK ==
  /\ role \in [Users -> Roles \cup {None}] /\ wasMember \subseteq Users
  /\ override \in [Users -> [role : Roles \cup {None}, row : Nat]]
  /\ request \in [Procs -> RequestState]
  /\ Issued \subseteq Keys /\ contested \subseteq Issued
  /\ \A k \in Issued : /\ key[k] \in KeyState
                       /\ key[k].origin \in Issued /\ key[k].parent \in {0} \cup Issued
                       /\ (key[k].revoker # None) = (key[k].status = "revoked")
  /\ \A p \in Procs : request[p].pc = "idle" \/ request[p].key \in {0} \cup Issued
  /\ \A u \in Users : (override[u].role = None) = (override[u].row = 0)

(* "Issue a replacement, then revoke the old one" (mcp_keys.py:223): no other
   request can ever see a replacement beside a key that is still active. *)
ReplacedIsRevoked ==
  \A k \in Issued : key[k].parent # 0 => key[key[k].parent].status = "revoked"

(* A revoked key stays revoked, whatever a tool call that was verified before
   writes later, and who revoked it stays on record: only a request that had the
   key in hand beside another may overwrite the name (mcp_keys.py:177-183,
   252-255, mcp_server/tools.py:74-76). *)
RevokerKept ==
  [][\A k \in Issued \ contested : key[k].revoker # None => key'[k].revoker = key[k].revoker]_vars

(* Once their requests are over, issued and revoked keys have audit rows that
   say so (docs/mcp-server.md:28), a key revoked by its rotation under the name
   of its successor.  The row is a second commit: a key whose request died
   between the two is excused, and stays without one. *)
Logged ==
  /\ \A k \in Issued :
       \/ k \in excused \/ \E p \in Procs : request[p].key = k
       \/ <<"create", k>> \in audit \/ <<"rotate", k>> \in audit
  /\ \A k \in Issued : key[k].status = "revoked" =>
       \/ <<"revoke", k>> \in audit
       \/ \E s \in Issued : key[s].parent = k
       \/ k \in excused \/ \E p \in Procs : request[p].key = k

(* An override names somebody who is or was a member, however late its request
   commits and whoever leaves and returns meanwhile (workspaces.py:178-183). *)
OverrideHadMember ==
  \A u \in Users : override[u] # NoRow => u \in wasMember
=============================================================================
