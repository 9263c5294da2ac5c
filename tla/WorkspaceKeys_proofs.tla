------------------------ MODULE WorkspaceKeys_proofs ------------------------
(***************************************************************************)
(* What WorkspaceKeys guarantees for every number of users, requests, tool *)
(* calls, keys, role changes and faults.                                   *)
(***************************************************************************)
EXTENDS WorkspaceKeys, FiniteSetTheorems, TLAPS

-----------------------------------------------------------------------------
(* The inductive invariant.                                                 *)

OnKey == {"revoke", "rotate"}

(* A request that has loaded the key it will revoke or rotate. *)
InHand(x) == x.op \in OnKey /\ x.seen # "none"
Deciding(x) == x.op \in OnKey /\ x.pc \in {"authorize", "commit"}

(* What a request holds is right for where it is.  The status it has loaded may
   be stale: the key may be revoked since, but then another request had the key
   in hand as well. *)
RequestOK(x) ==
  /\ x \in RequestState
  /\ x.pc # "idle" => x.user \in Users /\ x.key \in {0} \cup Issued
  /\ x.op \in OnKey => x.key \in Issued
  /\ x.pc = "load" /\ x.op \in KeyOps => x.op \in OnKey /\ x.seen = "none"
  /\ Deciding(x) => /\ x.seen \in {"active", "revoked"}
                    /\ x.seen = "revoked" => key[x.key].status = "revoked"
                    /\ x.seen = "active" /\ key[x.key].status = "revoked" => x.key \in contested
  /\ x.pc = "audit" /\ x.op \in KeyOps => x.key \in Issued
  /\ x.pc \in {"target", "row"} => x.op \in RoleOps
  /\ x.op \in RoleOps => x.target \in Users
  /\ x.op = "setRole" => x.role \in Roles /\ (x.pc \in {"row", "commit"} => x.target \in wasMember)

(* The keys are numbered in the order of their rows. *)
KeyOK(k) ==
  /\ key[k] \in KeyState
  /\ key[k].origin \in Issued /\ key[k].parent \in {0} \cup Issued
  /\ (key[k].revoker # None) <=> (key[k].status = "revoked")
Numbered == \E n \in Keys : Issued = 1..n
KeysOK ==
  /\ Numbered /\ key \in [Issued -> KeyState] /\ contested \subseteq Issued
  /\ \A k \in Issued : KeyOK(k)

RequestsOK == request \in [Procs -> RequestState] /\ \A p \in Procs : RequestOK(request[p])

(* Two requests with one key in hand have met. *)
Met == \A p, q \in Procs :
  p # q /\ InHand(request[p]) /\ InHand(request[q]) /\ request[p].key = request[q].key
    => request[p].key \in contested

(* A change without its audit row has its request between the two commits. *)
Auditing(op, k) == \E p \in Procs : request[p].pc = "audit" /\ request[p].op = op /\ request[p].key = k
IssueLogged(k) ==
  \/ k \in excused \/ <<"create", k>> \in audit \/ <<"rotate", k>> \in audit
  \/ Auditing("create", k) \/ Auditing("rotate", k)
RevocationLogged(k) ==
  \/ k \in excused \/ <<"revoke", k>> \in audit \/ Auditing("revoke", k)
  \/ \E s \in Issued : key[s].parent = k
AllLogged == \A k \in Issued :
  IssueLogged(k) /\ (key[k].status = "revoked" => RevocationLogged(k))

MembersOK ==
  /\ role \in [Users -> Roles \cup {None}] /\ wasMember \subseteq Users
  /\ \A u \in Users : role[u] # None => u \in wasMember
OverrideOK(u) ==
  /\ override[u] \in [role : Roles \cup {None}, row : Nat]
  /\ (override[u].role = None) <=> (override[u].row = 0)
  /\ override[u] # NoRow => u \in wasMember
OverridesOK ==
  /\ rows \in Nat /\ override \in [Users -> [role : Roles \cup {None}, row : Nat]]
  /\ \A u \in Users : OverrideOK(u)

IInv == KeysOK /\ RequestsOK /\ Met /\ AllLogged /\ MembersOK /\ OverridesOK /\ ReplacedIsRevoked

-----------------------------------------------------------------------------
(* The keys.                                                                *)

LEMMA NextIsFree ==
  ASSUME Numbered
  PROVE  /\ NextKey \in Nat \ {0} /\ NextKey \notin Issued
         /\ NextKey \in Keys => Issued \cup {NextKey} = 1..NextKey
<1>1. PICK n \in Keys : Issued = 1..n
  BY DEF Numbered
<1>2. n \in Nat /\ n >= 1
  BY KeysAssumption DEF Keys
<1>3. Cardinality(1..n) = n
  BY <1>2, FS_Interval
<1>4. NextKey = n + 1
  BY <1>1, <1>3 DEF NextKey
<1> QED
  BY <1>1, <1>2, <1>4

(* What stays true of a key whatever happens to it. *)
KeysKept ==
  /\ Issued \subseteq Issued'
  /\ \A k \in Issued : /\ key'[k].parent = key[k].parent
                       /\ key[k].status = "revoked" => key'[k].status = "revoked"

LEMMA KeyTyped ==
  ASSUME NEW parent \in Nat, NEW origin \in Nat, NEW expired \in BOOLEAN,
         NEW x, x = Key(parent, origin, expired)
  PROVE  x \in KeyState /\ x.status = "active" /\ x.revoker = None /\ x.parent = parent
         /\ x.origin = origin
BY DEF Key, KeyState

LEMMA RevokedTyped ==
  ASSUME NEW keys, NEW S, keys \in [S -> KeyState], NEW k \in S, NEW u \in Users
  PROVE  /\ Revoked(keys, k, u) \in [S -> KeyState]
         /\ Revoked(keys, k, u)[k].status = "revoked" /\ Revoked(keys, k, u)[k].revoker = u
         /\ Revoked(keys, k, u)[k].parent = keys[k].parent
         /\ Revoked(keys, k, u)[k].origin = keys[k].origin
         /\ \A i \in S \ {k} : Revoked(keys, k, u)[i] = keys[i]
<1> DEFINE x == [keys[k] EXCEPT !.status = "revoked", !.revoker = u]
<1>1. x \in KeyState /\ x.status = "revoked" /\ x.revoker = u /\ x.parent = keys[k].parent
      /\ x.origin = keys[k].origin
  BY DEF KeyState
<1>2. Revoked(keys, k, u) = [keys EXCEPT ![k] = x]
  BY DEF Revoked, KeyState
<1> HIDE DEF x
<1> QED
  BY <1>1, <1>2

LEMMA Issuing ==
  ASSUME KeysOK, NextKey \in Keys, NEW x \in KeyState
  PROVE  /\ Issue(x) \in [1..NextKey -> KeyState] /\ Issue(x)[NextKey] = x
         /\ \A i \in Issued : Issue(x)[i] = key[i]
         /\ 1..NextKey = Issued \cup {NextKey} /\ NextKey \notin Issued
<1>1. Issued \cup {NextKey} = 1..NextKey /\ NextKey \notin Issued
  BY NextIsFree DEF KeysOK
<1>2. \A i \in Issued : key[i] \in KeyState
  BY DEF KeysOK, KeyOK
<1> QED
  BY <1>1, <1>2 DEF Issue

-----------------------------------------------------------------------------
(* What every kind of step has to keep.                                     *)

(* A request that did nothing keeps what it knows. *)
LEMMA OthersOK ==
  ASSUME NEW x, RequestOK(x), KeysKept, contested \subseteq contested', wasMember \subseteq wasMember',
         Deciding(x) /\ x.seen = "active" /\ key'[x.key].status = "revoked" =>
           key[x.key].status = "revoked" \/ x.key \in contested'
  PROVE  RequestOK(x)'
<1>1. x.op \in OnKey => x.key \in Issued /\ x.key \in Issued'
  BY DEF RequestOK, KeysKept
<1>2. Deciding(x) => x.op \in OnKey
  BY DEF Deciding
<1>3. Deciding(x)' = Deciding(x)
  BY DEF Deciding
<1>4. Deciding(x) => /\ x.seen \in {"active", "revoked"}
                     /\ x.seen = "revoked" => key'[x.key].status = "revoked"
                     /\ x.seen = "active" /\ key'[x.key].status = "revoked" => x.key \in contested'
  BY <1>1, <1>2 DEF RequestOK, KeysKept
<1>5. x \in RequestState /\ (x.pc # "idle" => x.user \in Users /\ x.key \in {0} \cup Issued')
  BY DEF RequestOK, KeysKept
<1>6. /\ x.pc = "load" /\ x.op \in KeyOps => x.op \in OnKey /\ x.seen = "none"
      /\ x.pc = "audit" /\ x.op \in KeyOps => x.key \in Issued'
      /\ x.pc \in {"target", "row"} => x.op \in RoleOps
      /\ x.op \in RoleOps => x.target \in Users
  BY DEF RequestOK, KeysKept
<1>7. x.op = "setRole" => x.role \in Roles /\ (x.pc \in {"row", "commit"} => x.target \in wasMember')
  BY DEF RequestOK
<1> QED
  BY <1>1, <1>3, <1>4, <1>5, <1>6, <1>7 DEF RequestOK

LEMMA RequestMoved ==
  ASSUME RequestsOK, NEW p \in Procs, NEW s, request' = [request EXCEPT ![p] = s], RequestOK(s)',
         KeysKept, contested \subseteq contested', wasMember \subseteq wasMember',
         \A q \in Procs \ {p} :
           Deciding(request[q]) /\ request[q].seen = "active" /\ key'[request[q].key].status = "revoked" =>
             key[request[q].key].status = "revoked" \/ request[q].key \in contested'
  PROVE  RequestsOK' /\ request'[p] = s /\ \A q \in Procs \ {p} : request'[q] = request[q]
<1>1. s \in RequestState
  BY DEF RequestOK
<1>2. /\ request' \in [Procs -> RequestState] /\ request'[p] = s
      /\ \A q \in Procs \ {p} : request'[q] = request[q]
  BY <1>1 DEF RequestsOK
<1>3. ASSUME NEW q \in Procs \ {p} PROVE RequestOK(request[q])'
  <2> PICK x : x = request[q]
    OBVIOUS
  <2>1. RequestOK(x)
    BY DEF RequestsOK
  <2>2. RequestOK(x)'
    BY <2>1, OthersOK
  <2>3. request'[q] = x
    BY <1>2
  <2> QED
    BY <2>2, <2>3 DEF RequestOK, Deciding
<1>4. RequestOK(request[p])'
  BY <1>2 DEF RequestOK, Deciding
<1> QED
  BY <1>2, <1>3, <1>4 DEF RequestsOK

(* The keys as they were, and a request that is not at its audit row. *)
LEMMA QuietStep ==
  ASSUME IInv, NEW p \in Procs, NEW s, request' = [request EXCEPT ![p] = s], RequestOK(s)',
         key' = key, audit' = audit, excused' = excused, contested \subseteq contested',
         contested' \subseteq Issued, wasMember' = wasMember, role' = role, request[p].pc # "audit",
         \A q \in Procs \ {p} : InHand(request[q]) /\ InHand(s) /\ request[q].key = s.key
                                 => s.key \in contested',
         OverridesOK'
  PROVE  IInv'
<1>1. KeysKept /\ KeysOK' /\ ReplacedIsRevoked'
  BY DEF IInv, KeysOK, KeyOK, Numbered, KeysKept, ReplacedIsRevoked, Issued
<1>2. RequestsOK' /\ request'[p] = s /\ \A q \in Procs \ {p} : request'[q] = request[q]
  BY <1>1, RequestMoved DEF IInv
<1>3. Met'
  BY <1>2 DEF IInv, Met, InHand
<1>4. AllLogged'
  <2>1. \A op, k : Auditing(op, k) => Auditing(op, k)'
    BY <1>2 DEF Auditing
  <2> QED
    BY <2>1 DEF IInv, AllLogged, IssueLogged, RevocationLogged, Issued
<1>5. MembersOK'
  BY DEF IInv, MembersOK
<1> QED
  BY <1>1, <1>2, <1>3, <1>4, <1>5 DEF IInv

-----------------------------------------------------------------------------
(* The records of a request.                                                *)

Pcs == {"idle", "load", "authorize", "target", "row", "commit", "audit"}

LEMMA NoRequestTyped ==
  /\ NoRequest \in RequestState /\ NoRequest.op = "none" /\ NoRequest.pc = "idle"
  /\ NoRequest.key = 0 /\ NoRequest.seen = "none" /\ NoRequest.row = 0
  /\ NoRequest.user = None /\ NoRequest.target = None /\ NoRequest.role = None
BY DEF NoRequest, RequestState, KeyOps, RoleOps, Roles

LEMMA NoRequestOK == RequestOK(NoRequest)' /\ ~InHand(NoRequest)
BY NoRequestTyped DEF RequestOK, InHand, Deciding, OnKey, KeyOps, RoleOps

LEMMA Advanced ==
  ASSUME NEW x \in RequestState, NEW pc \in Pcs, NEW s, s = [x EXCEPT !.pc = pc]
  PROVE  /\ s \in RequestState /\ s.pc = pc /\ s.op = x.op /\ s.user = x.user /\ s.key = x.key
         /\ s.target = x.target /\ s.role = x.role /\ s.seen = x.seen /\ s.row = x.row
BY DEF RequestState, Pcs

(* A request ends or moves on with what it holds, and only overrides change. *)
LEMMA QuietEnd ==
  ASSUME IInv, NEW p \in Procs, request' = [request EXCEPT ![p] = NoRequest],
         key' = key, audit' = audit, excused' = excused, contested' = contested,
         wasMember' = wasMember, role' = role, request[p].pc # "audit", OverridesOK'
  PROVE  IInv'
<1>1. contested' \subseteq Issued
  BY DEF IInv, KeysOK
<1> QED
  BY <1>1, NoRequestOK, QuietStep

LEMMA QuietMove ==
  ASSUME IInv, NEW p \in Procs, NEW x, x = request[p], NEW s,
         request' = [request EXCEPT ![p] = s], RequestOK(s)',
         s.op = x.op, s.seen = x.seen \/ s.op \notin OnKey, s.key = x.key,
         key' = key, audit' = audit, excused' = excused, contested' = contested,
         wasMember' = wasMember, role' = role, x.pc # "audit", OverridesOK'
  PROVE  IInv'
<1>1. contested' \subseteq Issued
  BY DEF IInv, KeysOK
<1>2. \A q \in Procs \ {p} : InHand(request[q]) /\ InHand(s) /\ request[q].key = s.key
                              => s.key \in contested'
  BY DEF IInv, Met, InHand
<1> QED
  BY <1>1, <1>2, QuietStep

LEMMA SameOverrides ==
  ASSUME IInv, override' = override, rows' = rows, wasMember' = wasMember
  PROVE  OverridesOK'
BY DEF IInv, OverridesOK, OverrideOK

-----------------------------------------------------------------------------
(* The reads of the handlers.                                               *)

LEMMA ReadSteps ==
  ASSUME IInv, NEW p \in Procs,
         \/ \E u \in Users, op \in KeyOps \cup RoleOps \cup {"delete"} : Arrive(p, op, u)
         \/ Load(p) \/ Authorize(p) \/ CheckTarget(p) \/ LoadOverride(p)
  PROVE  IInv'
<1> PICK r : r = request[p]
  OBVIOUS
<1>0. RequestOK(r) /\ r \in RequestState /\ r.pc \in Pcs
  BY DEF IInv, RequestsOK, RequestOK, RequestState, Pcs
<1>1. ASSUME NEW u \in Users, NEW op \in KeyOps \cup RoleOps \cup {"delete"}, Arrive(p, op, u)
      PROVE  IInv'
  <2>1. PICK k \in IF op \in OnKey THEN Issued ELSE {0},
             t \in IF op \in RoleOps THEN Users ELSE {None},
             l \in IF op = "setRole" THEN Roles ELSE {None} :
          request' = [request EXCEPT ![p] =
            [NoRequest EXCEPT !.op = op, !.user = u, !.key = k, !.target = t, !.role = l,
                              !.pc = IF op = "create" THEN "authorize" ELSE "load"]]
    BY <1>1 DEF Arrive, To, OnKey
  <2> DEFINE s == [NoRequest EXCEPT !.op = op, !.user = u, !.key = k, !.target = t, !.role = l,
                                    !.pc = IF op = "create" THEN "authorize" ELSE "load"]
  <2>2. request' = [request EXCEPT ![p] = s]
    BY <2>1
  <2>3. k \in Nat /\ k \in {0} \cup Issued
    BY KeysAssumption DEF IInv, KeysOK, Numbered, Keys
  <2>4. /\ s \in RequestState /\ s.op = op /\ s.user = u /\ s.key = k /\ s.target = t
        /\ s.role = l /\ s.seen = "none" /\ s.pc = IF op = "create" THEN "authorize" ELSE "load"
    BY <2>3, NoRequestTyped, ZenonT(60) DEF RequestState, KeyOps, RoleOps
  <2> HIDE DEF s
  <2>5. /\ r = NoRequest /\ key' = key /\ audit' = audit /\ excused' = excused
        /\ contested' = contested /\ wasMember' = wasMember /\ role' = role
        /\ override' = override /\ rows' = rows
    BY <1>1 DEF Arrive
  <2>6. RequestOK(s)'
    BY <2>3, <2>4, <2>5 DEF RequestOK, Deciding, OnKey, KeyOps, RoleOps, Issued
  <2>7. ~InHand(s)
    BY <2>4 DEF InHand
  <2>8. contested' \subseteq Issued /\ r.pc # "audit"
    BY <2>5, NoRequestTyped DEF IInv, KeysOK
  <2> QED
    BY <2>2, <2>5, <2>6, <2>7, <2>8, SameOverrides, QuietStep
<1>2. CASE Load(p)
  <2>0. /\ r.pc = "load" /\ key' = key /\ audit' = audit /\ excused' = excused
        /\ wasMember' = wasMember /\ role' = role /\ override' = override /\ rows' = rows
    BY <1>2 DEF Load
  <2>1. CASE r.op \in KeyOps
    <3> PICK st : st = key[r.key].status
      OBVIOUS
    <3> DEFINE s == [r EXCEPT !.pc = "authorize", !.seen = st]
               others == {q \in Procs \ {p} : request[q].key = r.key /\ request[q].seen # "none"}
    <3>1. r.op \in OnKey /\ r.key \in Issued /\ r.user \in Users
      BY <1>0, <2>0, <2>1 DEF RequestOK
    <3>2. key[r.key].status \in {"active", "revoked"}
      BY <3>1 DEF IInv, KeysOK, KeyState
    <3>3. request' = [request EXCEPT ![p] = s]
      BY <1>2, <2>1 DEF Load, To
    <3>4. contested' = IF others # {} THEN contested \cup {r.key} ELSE contested
      BY <1>2, <2>1 DEF Load
    <3>5. /\ s \in RequestState /\ s.op = r.op /\ s.user = r.user /\ s.key = r.key
          /\ s.target = r.target /\ s.role = r.role /\ s.seen = st
          /\ s.pc = "authorize"
      BY <1>0, <3>2 DEF RequestState
    <3> HIDE DEF s
    <3>6. contested' \subseteq Issued /\ contested \subseteq contested'
      BY <3>1, <3>4 DEF IInv, KeysOK
    <3>7. RequestOK(s)'
      <4>1. Issued' = Issued /\ s.op \in OnKey /\ s.key \in Issued /\ s.user \in Users
        BY <2>0, <3>1, <3>5 DEF Issued
      <4>2. s.seen \in {"active", "revoked"} /\ s.seen = key'[s.key].status
        BY <2>0, <3>2, <3>5
      <4> QED
        BY <4>1, <4>2, <3>5 DEF RequestOK, Deciding, OnKey, KeyOps, RoleOps
    <3>8. \A q \in Procs \ {p} : InHand(request[q]) /\ InHand(s) /\ request[q].key = s.key
                                  => s.key \in contested'
      BY <3>4, <3>5 DEF InHand
    <3>9. OverridesOK'
      BY <2>0, SameOverrides
    <3> HIDE DEF others
    <3> QED
      BY <2>0, <3>3, <3>6, <3>7, <3>8, <3>9, QuietStep
  <2>2. CASE r.op \notin KeyOps
    <3>0. contested' = contested
      BY <1>2, <2>2 DEF Load
    <3>1. CASE deleted
      BY <1>2, <2>0, <2>2, <3>0, <3>1, SameOverrides, QuietEnd DEF Load, Finish, To
    <3>2. CASE ~deleted
      <4> DEFINE s == [r EXCEPT !.pc = "authorize"]
      <4>1. request' = [request EXCEPT ![p] = s]
        BY <1>2, <2>2, <3>2 DEF Load, Goes, To
      <4>2. /\ s \in RequestState /\ s.pc = "authorize" /\ s.op = r.op /\ s.user = r.user
            /\ s.key = r.key /\ s.target = r.target /\ s.role = r.role /\ s.seen = r.seen
        BY <1>0, Advanced DEF Pcs
      <4> HIDE DEF s
      <4>3. RequestOK(s)'
        BY <1>0, <2>0, <2>2, <3>0, <4>2 DEF RequestOK, Deciding, OnKey, KeyOps, RoleOps, Issued
      <4> QED
        BY <2>0, <3>0, <4>1, <4>2, <4>3, SameOverrides, QuietMove
    <3> QED
      BY <3>1, <3>2
  <2> QED
    BY <2>1, <2>2
<1>3. ASSUME UNCHANGED Rest, r.pc # "audit", request' = [request EXCEPT ![p] = NoRequest]
      PROVE  IInv'
  BY <1>3, SameOverrides, QuietEnd DEF Rest
<1>4. ASSUME NEW pc \in {"target", "row", "commit"}, UNCHANGED Rest,
             request' = [request EXCEPT ![p] = [r EXCEPT !.pc = pc]],
             r.pc \notin {"idle", "load", "audit"}, pc # "commit" => r.op \in RoleOps,
             r.op = "setRole" => pc = "target" \/ r.target \in wasMember,
             r.op \in OnKey => r.pc = "authorize"
      PROVE  IInv'
  <2> DEFINE s == [r EXCEPT !.pc = pc]
  <2>1. request' = [request EXCEPT ![p] = s]
    BY <1>4
  <2>2. /\ s \in RequestState /\ s.pc = pc /\ s.op = r.op /\ s.user = r.user
        /\ s.key = r.key /\ s.target = r.target /\ s.role = r.role /\ s.seen = r.seen
    BY <1>0, Advanced DEF Pcs
  <2> HIDE DEF s
  <2>3. /\ key' = key /\ contested' = contested /\ wasMember' = wasMember /\ audit' = audit
        /\ excused' = excused /\ role' = role /\ override' = override /\ rows' = rows
    BY <1>4 DEF Rest
  <2>5. RequestOK(s)'
    BY <1>0, <1>4, <2>2, <2>3 DEF RequestOK, Deciding, OnKey, KeyOps, RoleOps, Issued
  <2> QED
    BY <1>4, <2>1, <2>2, <2>3, <2>5, SameOverrides, QuietMove
<1>5. CASE Authorize(p)
  <2>1. /\ r.pc = "authorize" /\ UNCHANGED Rest
    BY <1>5 DEF Authorize
  <2>2. CASE request' = [request EXCEPT ![p] = NoRequest]
    BY <1>3, <2>1, <2>2
  <2>3. CASE \E pc \in {"target", "row", "commit"} :
               /\ request' = [request EXCEPT ![p] = [r EXCEPT !.pc = pc]]
               /\ pc # "commit" => r.op \in RoleOps
               /\ r.op = "setRole" => pc = "target"
    BY <1>4, <2>1, <2>3
  <2> QED
    BY <1>5, <2>2, <2>3 DEF Authorize, Goes, Finish, To, RoleOps
<1>6. CASE CheckTarget(p)
  <2>1. /\ r.pc = "target" /\ UNCHANGED Rest /\ r.op \in RoleOps /\ r.target \in Users
    BY <1>0, <1>6 DEF CheckTarget, RequestOK
  <2>2. CASE role[r.target] = None
    BY <1>3, <1>6, <2>1, <2>2 DEF CheckTarget, Finish, To
  <2>3. CASE role[r.target] # None
    <3>1. r.target \in wasMember
      BY <2>1, <2>3 DEF IInv, MembersOK
    <3>2. request' = [request EXCEPT ![p] = [r EXCEPT !.pc = "row"]] /\ r.op \notin OnKey
      BY <1>6, <2>1, <2>3 DEF CheckTarget, Goes, To, OnKey, RoleOps
    <3> QED
      BY <1>4, <2>1, <3>1, <3>2
  <2> QED
    BY <2>2, <2>3
<1>7. CASE LoadOverride(p)
  <2>0. /\ r.pc = "row" /\ UNCHANGED Rest /\ r.op \in RoleOps /\ r.target \in Users
    BY <1>0, <1>7 DEF LoadOverride, RequestOK
  <2> PICK o : o = override[r.target]
    OBVIOUS
  <2>1. o.role \in Roles \cup {None} /\ o.row \in Nat
    BY <2>0 DEF IInv, OverridesOK
  <2>2. CASE request' = [request EXCEPT ![p] = NoRequest]
    BY <1>3, <2>0, <2>2
  <2>3. CASE request' = [request EXCEPT ![p] = [r EXCEPT !.pc = "commit", !.seen = o.role, !.row = o.row]]
    <3> DEFINE s == [r EXCEPT !.pc = "commit", !.seen = o.role, !.row = o.row]
    <3>1. request' = [request EXCEPT ![p] = s]
      BY <2>3
    <3>2. /\ s \in RequestState /\ s.pc = "commit" /\ s.op = r.op /\ s.user = r.user
          /\ s.key = r.key /\ s.target = r.target /\ s.role = r.role
      BY <1>0, <2>1, ZenonT(60) DEF RequestState
    <3> HIDE DEF s
    <3>3. /\ key' = key /\ contested' = contested /\ wasMember' = wasMember /\ audit' = audit
          /\ excused' = excused /\ role' = role /\ override' = override /\ rows' = rows
      BY <2>0 DEF Rest
    <3>4. RequestOK(s)' /\ s.op \notin OnKey
      BY <1>0, <2>0, <3>2, <3>3 DEF RequestOK, Deciding, OnKey, KeyOps, RoleOps, Issued
    <3> QED
      BY <2>0, <3>1, <3>2, <3>3, <3>4, SameOverrides, QuietMove
  <2> QED
    BY <1>7, <2>2, <2>3 DEF LoadOverride, Finish, To
<1> QED
  BY <1>1, <1>2, <1>5, <1>6, <1>7

-----------------------------------------------------------------------------
(* The commits that touch no key.                                           *)

LEMMA OverrideChanged ==
  ASSUME IInv, NEW t \in Users, NEW o \in [role : Roles \cup {None}, row : Nat],
         (o.role = None) <=> (o.row = 0), o # NoRow => t \in wasMember,
         override' = [override EXCEPT ![t] = o], wasMember' = wasMember, rows' \in Nat
  PROVE  OverridesOK'
<1>1. \A u \in Users : override'[u] = IF u = t THEN o ELSE override[u]
  BY DEF IInv, OverridesOK
<1>2. override' \in [Users -> [role : Roles \cup {None}, row : Nat]]
  BY DEF IInv, OverridesOK
<1>3. ASSUME NEW u \in Users PROVE OverrideOK(u)'
  BY <1>1, <1>3 DEF IInv, OverridesOK, OverrideOK
<1> QED
  BY <1>2, <1>3 DEF OverridesOK

LEMMA Committed ==
  ASSUME IInv, NEW p \in Procs, NEW r, r = request[p], r.pc = "commit",
         r.op \in RoleOps \cup {"delete"}, NEW n \in Nat,
         request' = [request EXCEPT ![p] = [r EXCEPT !.pc = "audit", !.row = n]],
         key' = key, audit' = audit, excused' = excused, contested' = contested,
         wasMember' = wasMember, role' = role, OverridesOK'
  PROVE  IInv'
<1> DEFINE s == [r EXCEPT !.pc = "audit", !.row = n]
<1>1. request' = [request EXCEPT ![p] = s]
  OBVIOUS
<1>2. RequestOK(r)
  BY DEF IInv, RequestsOK
<1>3. /\ s \in RequestState /\ s.pc = "audit" /\ s.op = r.op /\ s.user = r.user
      /\ s.key = r.key /\ s.target = r.target /\ s.role = r.role /\ s.seen = r.seen
  BY <1>2 DEF RequestOK, RequestState
<1> HIDE DEF s
<1>4. RequestOK(s)'
  BY <1>2, <1>3 DEF RequestOK, Deciding, OnKey, KeyOps, RoleOps, Issued
<1> QED
  BY <1>1, <1>3, <1>4, QuietMove

LEMMA RoleSteps ==
  ASSUME IInv, NEW p \in Procs, CommitDelete(p) \/ CommitSetRole(p) \/ CommitClearRole(p)
  PROVE  IInv'
<1> PICK r : r = request[p]
  OBVIOUS
<1>0. RequestOK(r) /\ r \in RequestState
  BY DEF IInv, RequestsOK, RequestOK
<1>1. [r EXCEPT !.pc = "audit", !.row = r.row] = [r EXCEPT !.pc = "audit"] /\ r.row \in Nat
  BY <1>0 DEF RequestState
<1>2. CASE CommitDelete(p)
  <2>1. /\ r.pc = "commit" /\ r.op = "delete" /\ key' = key /\ audit' = audit
        /\ excused' = excused /\ contested' = contested /\ wasMember' = wasMember
        /\ role' = role /\ override' = override /\ rows' = rows
    BY <1>2 DEF CommitDelete, Kept
  <2>2. request' = [request EXCEPT ![p] = [r EXCEPT !.pc = "audit", !.row = r.row]]
    BY <1>1, <1>2 DEF CommitDelete, Goes, To
  <2>3. OverridesOK'
    BY <2>1, SameOverrides
  <2> QED
    BY <1>1, <2>1, <2>2, <2>3, Committed
<1>3. CASE CommitSetRole(p)
  <2> PICK o : o = override[r.target]
    OBVIOUS
  <2>1. /\ r.pc = "commit" /\ r.op = "setRole" /\ key' = key /\ audit' = audit
        /\ excused' = excused /\ contested' = contested /\ wasMember' = wasMember
        /\ role' = role
    BY <1>3 DEF CommitSetRole, Kept
  <2>2. /\ r.target \in Users /\ r.role \in Roles /\ r.target \in wasMember /\ r.op \in RoleOps
    BY <1>0, <2>1 DEF RequestOK, RoleOps
  <2>3. r.role # None /\ rows \in Nat /\ o \in [role : Roles \cup {None}, row : Nat]
    BY <2>2, KeysAssumption DEF IInv, OverridesOK
  <2>4. CASE /\ rows' = rows + 1
             /\ override' = [override EXCEPT ![r.target] = [role |-> r.role, row |-> rows + 1]]
             /\ request' = [request EXCEPT ![p] = [r EXCEPT !.pc = "audit", !.row = rows + 1]]
    <3> PICK n : n = rows + 1
      OBVIOUS
    <3>1. n \in Nat /\ n # 0
      BY <2>3
    <3>2. OverridesOK'
      <4> PICK w : w = [role |-> r.role, row |-> n]
        OBVIOUS
      <4>1. w \in [role : Roles \cup {None}, row : Nat] /\ w.role # None /\ w.row # 0
        BY <2>2, <2>3, <3>1
      <4> QED
        BY <2>1, <2>2, <2>4, <3>1, <4>1, OverrideChanged
    <3> QED
      BY <2>1, <2>2, <2>4, <3>1, <3>2, Committed
  <2>5. CASE /\ r.row # 0 /\ o.row = r.row /\ rows' = rows
             /\ override' = IF r.role = r.seen THEN override
                            ELSE [override EXCEPT ![r.target].role = r.role]
             /\ request' = [request EXCEPT ![p] = [r EXCEPT !.pc = "audit"]]
    <3>1. OverridesOK'
      <4>1. CASE r.role = r.seen
        BY <2>1, <2>5, <4>1, SameOverrides
      <4>2. CASE r.role # r.seen
        <5> PICK w : w = [o EXCEPT !.role = r.role]
          OBVIOUS
        <5>1. w \in [role : Roles \cup {None}, row : Nat] /\ w.role # None /\ w.row # 0
          BY <2>2, <2>3, <2>5
        <5>2. override' = [override EXCEPT ![r.target] = w]
          BY <2>2, <2>5, <4>2
        <5> QED
          BY <2>1, <2>2, <2>3, <2>5, <5>1, <5>2, OverrideChanged
      <4> QED
        BY <4>1, <4>2
    <3>2. request' = [request EXCEPT ![p] = [r EXCEPT !.pc = "audit", !.row = r.row]]
      BY <1>1, <2>5
    <3> QED
      BY <1>1, <2>1, <2>2, <3>1, <3>2, Committed
  <2>6. CASE /\ request' = [request EXCEPT ![p] = NoRequest]
             /\ override' = override /\ rows' = rows
    BY <2>1, <2>6, SameOverrides, QuietEnd
  <2> QED
    BY <1>3, <2>4, <2>5, <2>6 DEF CommitSetRole, Goes, Finish, To
<1>4. CASE CommitClearRole(p)
  <2>1. /\ r.pc = "commit" /\ r.op = "clearRole" /\ key' = key /\ audit' = audit
        /\ excused' = excused /\ contested' = contested /\ wasMember' = wasMember
        /\ role' = role /\ rows' = rows
        /\ override' = IF override[r.target].row = r.row
                       THEN [override EXCEPT ![r.target] = NoRow] ELSE override
    BY <1>4 DEF CommitClearRole, Kept
  <2>2. r.target \in Users /\ r.op \in RoleOps
    BY <1>0, <2>1 DEF RequestOK, RoleOps
  <2>3. NoRow \in [role : Roles \cup {None}, row : Nat] /\ NoRow.role = None /\ NoRow.row = 0
    BY DEF NoRow
  <2>4. OverridesOK'
    <3> PICK o : o = NoRow
      OBVIOUS
    <3>1. rows' \in Nat
      BY <2>1 DEF IInv, OverridesOK
    <3>2. CASE override' = [override EXCEPT ![r.target] = o]
      BY <2>1, <2>2, <2>3, <3>1, <3>2, OverrideChanged
    <3>3. CASE override' = override
      BY <2>1, <3>3, SameOverrides
    <3> QED
      BY <2>1, <3>2, <3>3
  <2>5. request' = [request EXCEPT ![p] = [r EXCEPT !.pc = "audit", !.row = r.row]]
    BY <1>1, <1>4 DEF CommitClearRole, Goes, To
  <2> QED
    BY <1>1, <2>1, <2>2, <2>4, <2>5, Committed
<1> QED
  BY <1>2, <1>3, <1>4

-----------------------------------------------------------------------------
(* The commits that issue and revoke.                                       *)

LEMMA KeyCommitted ==
  ASSUME IInv, NEW p \in Procs, NEW s, request' = [request EXCEPT ![p] = s], RequestOK(s)',
         request[p].pc = "commit", KeysKept, KeysOK', ReplacedIsRevoked', contested' = contested,
         audit' = audit, excused' = excused, wasMember' = wasMember, role' = role,
         override' = override, rows' = rows,
         \A q \in Procs \ {p} :
           Deciding(request[q]) /\ request[q].seen = "active" /\ key'[request[q].key].status = "revoked" =>
             key[request[q].key].status = "revoked" \/ request[q].key \in contested,
         \A q \in Procs \ {p} : InHand(request[q]) /\ InHand(s) /\ request[q].key = s.key
                                 => s.key \in contested,
         \A k \in Issued' \ Issued : s.pc = "audit" /\ s.op \in {"create", "rotate"} /\ s.key = k,
         \A k \in Issued' : key'[k].status = "revoked" =>
           \/ k \in Issued /\ key[k].status = "revoked"
           \/ s.pc = "audit" /\ s.op = "revoke" /\ s.key = k
           \/ \E t \in Issued' : key'[t].parent = k
  PROVE  IInv'
<1>1. RequestsOK' /\ request'[p] = s /\ \A q \in Procs \ {p} : request'[q] = request[q]
  BY RequestMoved DEF IInv
<1>2. Met'
  BY <1>1 DEF IInv, Met, InHand
<1>3. AllLogged'
  <2>1. \A op, k : Auditing(op, k) => Auditing(op, k)'
    BY <1>1 DEF Auditing
  <2>2. s.pc = "audit" => Auditing(s.op, s.key)'
    BY <1>1 DEF Auditing
  <2>3. ASSUME NEW k \in Issued' PROVE IssueLogged(k)'
    <3>1. CASE k \in Issued
      BY <2>1, <3>1 DEF IInv, AllLogged, IssueLogged
    <3>2. CASE k \notin Issued
      <4>1. Auditing(s.op, k)' /\ s.op \in {"create", "rotate"}
        BY <2>2, <2>3, <3>2
      <4>2. Auditing("create", k)' \/ Auditing("rotate", k)'
        BY <4>1
      <4> QED
        BY <4>2 DEF IssueLogged
    <3> QED
      BY <3>1, <3>2
  <2>4. ASSUME NEW k \in Issued', key'[k].status = "revoked" PROVE RevocationLogged(k)'
    <3>1. CASE k \in Issued /\ key[k].status = "revoked"
      <4>1. RevocationLogged(k)
        BY <3>1 DEF IInv, AllLogged
      <4>2. (\E t \in Issued : key[t].parent = k) => \E t \in Issued' : key'[t].parent = k
        BY DEF KeysKept
      <4> QED
        BY <2>1, <4>1, <4>2 DEF RevocationLogged
    <3>2. CASE s.pc = "audit" /\ s.op = "revoke" /\ s.key = k
      BY <2>2, <3>2 DEF RevocationLogged
    <3>3. CASE \E t \in Issued' : key'[t].parent = k
      BY <3>3 DEF RevocationLogged
    <3> QED
      BY <2>4, <3>1, <3>2, <3>3
  <2> QED
    BY <2>3, <2>4 DEF AllLogged
<1>4. OverridesOK'
  BY SameOverrides
<1>5. MembersOK'
  BY DEF IInv, MembersOK
<1> QED
  BY <1>1, <1>2, <1>3, <1>4, <1>5 DEF IInv

LEMMA CreateStep ==
  ASSUME IInv, NEW p \in Procs, CommitCreate(p)
  PROVE  IInv'
<1> PICK r : r = request[p]
  OBVIOUS
<1> PICK n : n = NextKey
  OBVIOUS
<1> DEFINE s == [r EXCEPT !.pc = "audit", !.key = n]
           x == Key(0, n, FALSE)
<1>0. KeysOK /\ RequestOK(r) /\ r \in RequestState /\ n \in Keys /\ n \in Nat
  BY KeysAssumption DEF IInv, RequestsOK, RequestOK, CommitCreate, Keys
<1>1. /\ r.pc = "commit" /\ r.op = "create" /\ key' = Issue(x) /\ audit' = audit
      /\ excused' = excused /\ contested' = contested /\ wasMember' = wasMember
      /\ role' = role /\ override' = override /\ rows' = rows
      /\ request' = [request EXCEPT ![p] = s]
  BY DEF CommitCreate, To, Kept
<1>2. /\ s \in RequestState /\ s.pc = "audit" /\ s.op = "create" /\ s.key = n /\ s.user = r.user
  BY <1>0, <1>1 DEF RequestState
<1>3. x \in KeyState /\ x.status = "active" /\ x.revoker = None /\ x.parent = 0 /\ x.origin = n
  BY <1>0 DEF Key, KeyState
<1> HIDE DEF s, x
<1>4. /\ key' \in [1..n -> KeyState] /\ key'[n] = x
      /\ \A i \in Issued : key'[i] = key[i]
      /\ 1..n = Issued \cup {n} /\ n \notin Issued
  BY <1>0, <1>1, <1>3, Issuing
<1>5. Issued' = 1..n /\ n \in Issued'
  BY <1>0, <1>4 DEF Issued
<1>6. KeysKept
  BY <1>4, <1>5 DEF KeysKept
<1>7. KeysOK'
  <2>1. \A k \in Issued' : KeyOK(k)'
    BY <1>0, <1>3, <1>4, <1>5 DEF KeysOK, KeyOK
  <2> QED
    BY <1>0, <1>1, <1>4, <1>5, <2>1 DEF KeysOK, Numbered
<1>8. ReplacedIsRevoked'
  BY <1>0, <1>3, <1>4, <1>5 DEF IInv, ReplacedIsRevoked, KeysOK, KeyOK
<1>9. RequestOK(s)'
  BY <1>0, <1>1, <1>2, <1>5 DEF RequestOK, Deciding, OnKey, KeyOps, RoleOps
<1>10. ~InHand(s)
  BY <1>2 DEF InHand, OnKey
<1>11. \A q \in Procs : Deciding(request[q]) => key'[request[q].key] = key[request[q].key]
  BY <1>4 DEF IInv, RequestsOK, RequestOK, Deciding
<1>12. \A k \in Issued' \ Issued : s.pc = "audit" /\ s.op \in {"create", "rotate"} /\ s.key = k
  BY <1>2, <1>4, <1>5
<1>13. \A k \in Issued' : key'[k].status = "revoked" => k \in Issued /\ key[k].status = "revoked"
  BY <1>3, <1>4, <1>5
<1> QED
  BY <1>1, <1>6, <1>7, <1>8, <1>9, <1>10, <1>11, <1>12, <1>13, KeyCommitted, ZenonT(60)

(* Revoking key k that r has loaded active: a request that has it loaded active
   too has met this one. *)
LEMMA RevokingMeets ==
  ASSUME IInv, NEW p \in Procs, NEW r, r = request[p], r.pc = "commit", r.op \in OnKey,
         NEW q \in Procs \ {p}, Deciding(request[q]), request[q].key = r.key
  PROVE  r.key \in contested
<1>1. RequestOK(r) /\ RequestOK(request[q])
  BY DEF IInv, RequestsOK
<1>2. InHand(r)
  BY <1>1 DEF RequestOK, InHand, Deciding
<1>3. InHand(request[q])
  BY <1>1 DEF RequestOK, InHand, Deciding
<1> QED
  BY <1>2, <1>3 DEF IInv, Met

LEMMA RevokeStep ==
  ASSUME IInv, NEW p \in Procs, CommitRevoke(p)
  PROVE  IInv'
<1> PICK r : r = request[p]
  OBVIOUS
<1>0. KeysOK /\ RequestOK(r) /\ r \in RequestState
  BY DEF IInv, RequestsOK, RequestOK
<1>1. /\ r.pc = "commit" /\ r.op = "revoke" /\ r.op \in OnKey /\ audit' = audit
      /\ excused' = excused /\ contested' = contested /\ wasMember' = wasMember
      /\ role' = role /\ override' = override /\ rows' = rows
  BY DEF CommitRevoke, Kept, OnKey
<1>2. CASE r.seen = "revoked"
  BY <1>1, <1>2, SameOverrides, QuietEnd DEF CommitRevoke, Finish, To
<1>3. CASE r.seen # "revoked"
  <2> DEFINE s == [r EXCEPT !.pc = "audit"]
  <2>1. request' = [request EXCEPT ![p] = s] /\ key' = Revoked(key, r.key, r.user)
    BY <1>3 DEF CommitRevoke, Goes, To
  <2>2. /\ s \in RequestState /\ s.pc = "audit" /\ s.op = "revoke" /\ s.key = r.key
        /\ s.user = r.user /\ s.seen = r.seen
    BY <1>0, <1>1 DEF RequestState
  <2>3. r.key \in Issued /\ r.user \in Users /\ r.user # None
    BY <1>0, <1>1, KeysAssumption DEF RequestOK
  <2> HIDE DEF s
  <2>4. /\ key' \in [Issued -> KeyState] /\ key'[r.key].status = "revoked"
        /\ key'[r.key].revoker = r.user /\ key'[r.key].parent = key[r.key].parent
        /\ key'[r.key].origin = key[r.key].origin
        /\ \A i \in Issued \ {r.key} : key'[i] = key[i]
    BY <1>0, <2>1, <2>3, RevokedTyped DEF KeysOK
  <2>5. Issued' = Issued
    BY <2>4 DEF Issued
  <2>6. KeysKept
    BY <2>4, <2>5 DEF KeysKept
  <2>7. KeysOK'
    <3>1. \A k \in Issued' : KeyOK(k)'
      BY <1>0, <2>3, <2>4, <2>5 DEF KeysOK, KeyOK
    <3> QED
      BY <1>0, <1>1, <2>4, <2>5, <3>1 DEF KeysOK, Numbered
  <2>8. ReplacedIsRevoked'
    BY <1>0, <2>4, <2>5 DEF IInv, ReplacedIsRevoked, KeysOK, KeyOK
  <2>9. RequestOK(s)'
    BY <1>0, <1>1, <2>2, <2>3, <2>5 DEF RequestOK, Deciding, OnKey, KeyOps, RoleOps
  <2>10. \A q \in Procs \ {p} : InHand(request[q]) /\ InHand(s) /\ request[q].key = s.key
                                 => s.key \in contested
    BY <1>1, <2>2 DEF IInv, Met, InHand
  <2>11. ASSUME NEW q \in Procs \ {p}, Deciding(request[q]), request[q].key # r.key
         PROVE  key'[request[q].key] = key[request[q].key]
    BY <2>4, <2>11 DEF IInv, RequestsOK, RequestOK, Deciding
  <2>12. \A q \in Procs \ {p} :
           Deciding(request[q]) /\ request[q].seen = "active" /\ key'[request[q].key].status = "revoked" =>
             key[request[q].key].status = "revoked" \/ request[q].key \in contested
    BY <1>1, <2>11, RevokingMeets
  <2>13. \A k \in Issued' : key'[k].status = "revoked" =>
           \/ k \in Issued /\ key[k].status = "revoked"
           \/ s.pc = "audit" /\ s.op = "revoke" /\ s.key = k
    BY <2>2, <2>4, <2>5
  <2> QED
    BY <1>1, <2>1, <2>5, <2>6, <2>7, <2>8, <2>9, <2>10, <2>12, <2>13, KeyCommitted
<1> QED
  BY <1>2, <1>3

(* A replacement of key k, which is revoked with it or was before. *)
LEMMA Rotating ==
  ASSUME KeysOK, ReplacedIsRevoked, NEW k \in Issued, NEW u \in Users, NextKey \in Keys,
         NEW n, n = NextKey, NEW x, x = Key(k, key[k].origin, key[k].expired),
         \/ key' = Revoked(Issue(x), k, u)
         \/ key' = Issue(x) /\ key[k].status = "revoked",
         contested' = contested
  PROVE  /\ KeysKept /\ KeysOK' /\ ReplacedIsRevoked'
         /\ Issued' = Issued \cup {n} /\ n \notin Issued /\ n \in Nat
         /\ key'[n].status = "active" /\ key'[n].parent = k
         /\ \A i \in Issued \ {k} : key'[i] = key[i]
<1> DEFINE keys == Issue(x)
<1>0. key[k] \in KeyState /\ k \in Nat /\ n \in Nat /\ u # None
  BY KeysAssumption DEF KeysOK, Numbered, Keys
<1>1. /\ x \in KeyState /\ x.status = "active" /\ x.revoker = None /\ x.parent = k
      /\ x.origin = key[k].origin
  BY <1>0, KeyTyped DEF KeyState
<1>2. /\ keys \in [1..n -> KeyState] /\ keys[n] = x
      /\ \A i \in Issued : keys[i] = key[i]
      /\ 1..n = Issued \cup {n} /\ n \notin Issued
  BY <1>1, Issuing
<1>3. key' = Revoked(keys, k, u) \/ (key' = keys /\ key[k].status = "revoked")
  OBVIOUS
<1> HIDE DEF keys
<1>4. /\ key' \in [1..n -> KeyState]
      /\ key'[k].status = "revoked" /\ (key'[k].revoker # None) /\ key'[k].parent = key[k].parent
      /\ key'[k].origin = key[k].origin
      /\ \A i \in (1..n) \ {k} : key'[i] = keys[i]
  <2>1. CASE key' = Revoked(keys, k, u)
    BY <1>0, <1>2, <2>1, RevokedTyped
  <2>2. CASE key' = keys /\ key[k].status = "revoked"
    BY <1>2, <2>2 DEF KeysOK, KeyOK
  <2> QED
    BY <1>3, <2>1, <2>2
<1>5. Issued' = 1..n /\ n \in Issued' /\ k \in Issued' /\ n # k
  BY <1>0, <1>2, <1>4 DEF Issued
<1>6. key'[n] = x /\ \A i \in Issued \ {k} : key'[i] = key[i]
  BY <1>2, <1>4, <1>5
<1>7. KeysKept
  BY <1>2, <1>4, <1>5, <1>6 DEF KeysKept
<1>8. KeysOK'
  <2>1. KeyOK(k)'
    BY <1>2, <1>4, <1>5 DEF KeysOK, KeyOK
  <2>2. KeyOK(n)'
    BY <1>1, <1>2, <1>5, <1>6 DEF KeysOK, KeyOK
  <2>3. \A i \in Issued \ {k} : KeyOK(i)'
    BY <1>2, <1>5, <1>6 DEF KeysOK, KeyOK
  <2>4. \A i \in Issued' : KeyOK(i)'
    BY <1>2, <1>5, <2>1, <2>2, <2>3
  <2> QED
    BY <1>2, <1>4, <1>5, <2>4 DEF KeysOK, Numbered
<1>9. ReplacedIsRevoked'
  <2>1. key'[n].parent = k /\ key'[k].status = "revoked"
    BY <1>1, <1>4, <1>6
  <2>2. ASSUME NEW i \in Issued, key'[i].parent # 0
        PROVE  key'[key'[i].parent].status = "revoked"
    <3>1. key'[i].parent = key[i].parent /\ key[i].parent \in Issued
      BY <1>7, <2>2 DEF KeysKept, KeysOK, KeyOK
    <3>2. key[key[i].parent].status = "revoked"
      BY <2>2, <3>1 DEF ReplacedIsRevoked
    <3> QED
      BY <1>7, <3>1, <3>2 DEF KeysKept
  <2> QED
    BY <1>2, <1>5, <2>1, <2>2 DEF ReplacedIsRevoked
<1> QED
  BY <1>0, <1>1, <1>2, <1>5, <1>6, <1>7, <1>8, <1>9

LEMMA RotateStep ==
  ASSUME IInv, NEW p \in Procs, CommitRotate(p)
  PROVE  IInv'
<1> PICK r : r = request[p]
  OBVIOUS
<1> PICK n : n = NextKey
  OBVIOUS
<1> PICK x : x = Key(r.key, key[r.key].origin, key[r.key].expired)
  OBVIOUS
<1> DEFINE s == [r EXCEPT !.pc = "audit", !.key = n]
<1>0. KeysOK /\ RequestOK(r) /\ r \in RequestState
  BY DEF IInv, RequestsOK, RequestOK
<1>1. /\ r.pc = "commit" /\ r.op = "rotate" /\ r.op \in OnKey /\ audit' = audit
      /\ excused' = excused /\ contested' = contested /\ wasMember' = wasMember
      /\ role' = role /\ override' = override /\ rows' = rows /\ NextKey \in Keys
  BY DEF CommitRotate, Kept, OnKey
<1>2. /\ request' = [request EXCEPT ![p] = s]
      /\ key' = IF r.seen = "revoked" THEN Issue(x) ELSE Revoked(Issue(x), r.key, r.user)
  BY DEF CommitRotate, To
<1>3. r.key \in Issued /\ r.user \in Users /\ (r.seen = "revoked" => key[r.key].status = "revoked")
  BY <1>0, <1>1 DEF RequestOK, Deciding
<1>4. /\ KeysKept /\ KeysOK' /\ ReplacedIsRevoked'
      /\ Issued' = Issued \cup {n} /\ n \notin Issued /\ n \in Nat
      /\ key'[n].status = "active" /\ key'[n].parent = r.key
      /\ \A i \in Issued \ {r.key} : key'[i] = key[i]
  <2> PICK k : k = r.key
    OBVIOUS
  <2> PICK u : u = r.user
    OBVIOUS
  <2>1. /\ key' = Revoked(Issue(x), k, u) \/ (key' = Issue(x) /\ key[k].status = "revoked")
        /\ k \in Issued /\ u \in Users /\ x = Key(k, key[k].origin, key[k].expired)
    BY <1>2, <1>3
  <2>2. ReplacedIsRevoked
    BY DEF IInv
  <2> QED
    BY <1>0, <1>1, <2>1, <2>2, Rotating
<1>5. /\ s \in RequestState /\ s.pc = "audit" /\ s.op = "rotate" /\ s.key = n /\ s.user = r.user
  BY <1>0, <1>1, <1>4 DEF RequestState
<1> HIDE DEF s
<1>6. RequestOK(s)'
  BY <1>1, <1>3, <1>4, <1>5 DEF RequestOK, Deciding, OnKey, KeyOps, RoleOps
<1>7. \A q \in Procs : InHand(request[q]) => request[q].key \in Issued
  BY DEF IInv, RequestsOK, RequestOK, InHand
<1>8. \A q \in Procs \ {p} : InHand(request[q]) /\ InHand(s) /\ request[q].key = s.key
                              => s.key \in contested
  BY <1>4, <1>5, <1>7
<1>9. ASSUME NEW q \in Procs \ {p}, Deciding(request[q]), request[q].key # r.key
      PROVE  key'[request[q].key] = key[request[q].key]
  BY <1>4, <1>9 DEF IInv, RequestsOK, RequestOK, Deciding
<1>10. \A q \in Procs \ {p} :
         Deciding(request[q]) /\ request[q].seen = "active" /\ key'[request[q].key].status = "revoked" =>
           key[request[q].key].status = "revoked" \/ request[q].key \in contested
  BY <1>1, <1>9, RevokingMeets
<1>11. \A k \in Issued' \ Issued : s.pc = "audit" /\ s.op \in {"create", "rotate"} /\ s.key = k
  BY <1>4, <1>5
<1>12. \A k \in Issued' : key'[k].status = "revoked" =>
         \/ k \in Issued /\ key[k].status = "revoked"
         \/ \E t \in Issued' : key'[t].parent = k
  BY <1>4
<1>13. /\ request' = [request EXCEPT ![p] = s] /\ request[p].pc = "commit"
       /\ KeysKept /\ KeysOK' /\ ReplacedIsRevoked'
  BY <1>1, <1>2, <1>4
<1> QED
  BY <1>1, <1>6, <1>8, <1>10, <1>11, <1>12, <1>13, KeyCommitted

-----------------------------------------------------------------------------
(* The audit rows.                                                          *)

LEMMA AuditSteps ==
  ASSUME IInv, NEW p \in Procs, Audit(p) \/ RequestDies(p)
  PROVE  IInv'
<1> PICK r : r = request[p]
  OBVIOUS
<1>1. /\ key' = key /\ contested' = contested /\ wasMember' = wasMember /\ role' = role
      /\ override' = override /\ rows' = rows /\ audit \subseteq audit' /\ excused \subseteq excused'
      /\ request' = [request EXCEPT ![p] = NoRequest]
      /\ r.op \in KeyOps => <<r.op, r.key>> \in audit' \/ r.key \in excused'
  BY DEF Audit, RequestDies, Finish, To, Kept
<1>2. Issued' = Issued /\ KeysKept /\ KeysOK' /\ ReplacedIsRevoked'
  BY <1>1 DEF IInv, KeysOK, KeyOK, Numbered, KeysKept, ReplacedIsRevoked, Issued
<1>3. RequestsOK' /\ request'[p] = NoRequest /\ \A q \in Procs \ {p} : request'[q] = request[q]
  BY <1>1, <1>2, NoRequestOK, RequestMoved DEF IInv
<1>4. Met'
  BY <1>1, <1>3, NoRequestOK DEF IInv, Met, InHand
<1>5. \A op \in KeyOps, k \in Issued :
        Auditing(op, k) => Auditing(op, k)' \/ <<op, k>> \in audit' \/ k \in excused'
  BY <1>1, <1>3 DEF Auditing
<1>6. AllLogged'
  <2>1. ASSUME NEW k \in Issued, IssueLogged(k) PROVE IssueLogged(k)'
    BY <1>1, <1>5, <2>1 DEF IssueLogged, KeyOps
  <2>2. ASSUME NEW k \in Issued, RevocationLogged(k) PROVE RevocationLogged(k)'
    BY <1>1, <1>2, <1>5, <2>2 DEF RevocationLogged, KeyOps
  <2> QED
    BY <1>1, <1>2, <2>1, <2>2 DEF IInv, AllLogged
<1>7. OverridesOK'
  BY <1>1, SameOverrides
<1>8. MembersOK'
  BY <1>1 DEF IInv, MembersOK
<1> QED
  BY <1>2, <1>3, <1>4, <1>6, <1>7, <1>8 DEF IInv

-----------------------------------------------------------------------------
(* What happens beside the requests.                                        *)

LEMMA Beside ==
  ASSUME IInv, request' = request, audit' = audit, excused' = excused, contested' = contested,
         wasMember \subseteq wasMember', MembersOK', OverridesOK',
         key' \in [Issued -> KeyState],
         \A k \in Issued : /\ key'[k].status = key[k].status /\ key'[k].parent = key[k].parent
                           /\ key'[k].origin = key[k].origin /\ key'[k].revoker = key[k].revoker
  PROVE  IInv'
<1>1. Issued' = Issued
  BY DEF Issued
<1>2. KeysOK' /\ ReplacedIsRevoked' /\ KeysKept
  BY <1>1 DEF IInv, KeysOK, KeyOK, Numbered, KeysKept, ReplacedIsRevoked
<1>3. ASSUME NEW q \in Procs PROVE RequestOK(request[q])'
  <2> PICK x : x = request[q]
    OBVIOUS
  <2>1. RequestOK(x)
    BY DEF IInv, RequestsOK
  <2>2. Deciding(x) => key'[x.key].status = key[x.key].status
    BY <2>1 DEF RequestOK, Deciding
  <2>3. RequestOK(x)'
    BY <1>2, <2>1, <2>2, OthersOK
  <2>4. request'[q] = x
    OBVIOUS
  <2> QED
    BY <2>3, <2>4 DEF RequestOK, Deciding
<1>4. RequestsOK'
  BY <1>3 DEF IInv, RequestsOK
<1>5. Met'
  BY DEF IInv, Met, InHand
<1>6. \A op, k : Auditing(op, k)' = Auditing(op, k)
  BY DEF Auditing
<1>7. AllLogged'
  BY <1>1, <1>6, ZenonT(60) DEF IInv, AllLogged, IssueLogged, RevocationLogged
<1> QED
  BY <1>2, <1>4, <1>5, <1>7 DEF IInv

(* The tool calls, the clock and the members write none of what the requests
   rely on. *)
LEMMA KeyWritten ==
  ASSUME IInv, (\E c \in Callers : CallStep(c)) \/ (\E k \in Issued : Expires(k))
  PROVE  /\ key' \in [Issued -> KeyState]
         /\ \A k \in Issued : /\ key'[k].status = key[k].status /\ key'[k].parent = key[k].parent
                              /\ key'[k].origin = key[k].origin /\ key'[k].revoker = key[k].revoker
<1>0. key \in [Issued -> KeyState]
  BY DEF IInv, KeysOK
<1>1. CASE key' = key
  BY <1>0, <1>1
<1>2. ASSUME NEW c \in Callers, RecordUsage(c)
      PROVE  /\ key' \in [Issued -> KeyState]
             /\ \A k \in Issued : /\ key'[k].status = key[k].status /\ key'[k].parent = key[k].parent
                                  /\ key'[k].origin = key[k].origin /\ key'[k].revoker = key[k].revoker
  <2> PICK j : j = call[c]
    OBVIOUS
  <2> DEFINE x == [key[j] EXCEPT !.used = TRUE]
  <2>1. key' = [key EXCEPT ![j] = x]
    BY <1>2 DEF RecordUsage
  <2>2. j \in Issued => /\ x \in KeyState /\ x.status = key[j].status /\ x.parent = key[j].parent
                        /\ x.origin = key[j].origin /\ x.revoker = key[j].revoker
    <3>1. j \in Issued => key[j] \in KeyState
      BY <1>0, Zenon
    <3> QED
      BY <3>1 DEF KeyState
  <2> HIDE DEF x
  <2> QED
    BY <1>0, <2>1, <2>2
<1>3. ASSUME NEW k \in Issued, Expires(k)
      PROVE  /\ key' \in [Issued -> KeyState]
             /\ \A i \in Issued : /\ key'[i].status = key[i].status /\ key'[i].parent = key[i].parent
                                  /\ key'[i].origin = key[i].origin /\ key'[i].revoker = key[i].revoker
  <2> DEFINE x(i) == [key[i] EXCEPT !.expired = @ \/ key[i].origin = key[k].origin]
  <2>1. key' = [i \in Issued |-> x(i)]
    BY <1>3 DEF Expires
  <2>2. ASSUME NEW i \in Issued
        PROVE  /\ x(i) \in KeyState /\ x(i).status = key[i].status /\ x(i).parent = key[i].parent
               /\ x(i).origin = key[i].origin /\ x(i).revoker = key[i].revoker
    <3> PICK b \in BOOLEAN : b = (key[i].expired \/ key[i].origin = key[k].origin)
      OBVIOUS
    <3> PICK y \in KeyState : y = key[i]
      BY <1>0
    <3>1. x(i) = [y EXCEPT !.expired = b]
      OBVIOUS
    <3> HIDE DEF x
    <3> QED
      BY <3>1 DEF KeyState
  <2> HIDE DEF x
  <2> QED
    BY <2>1, <2>2
<1> QED
  BY <1>1, <1>2, <1>3 DEF CallStep, Verify, CallFails

LEMMA OtherSteps ==
  ASSUME IInv,
         \/ \E c \in Callers : CallStep(c)
         \/ \E u \in Users, to \in Roles \cup {None} : ChangeRole(u, to)
         \/ \E k \in Issued : Expires(k)
  PROVE  IInv'
<1>1. CASE (\E c \in Callers : CallStep(c)) \/ (\E k \in Issued : Expires(k))
  <2>1. /\ request' = request /\ audit' = audit /\ excused' = excused /\ contested' = contested
        /\ wasMember' = wasMember /\ role' = role /\ override' = override /\ rows' = rows
    BY <1>1 DEF CallStep, Verify, RecordUsage, CallFails, CallKept, Expires
  <2>2. OverridesOK'
    BY <2>1, SameOverrides
  <2>3. MembersOK'
    BY <2>1 DEF IInv, MembersOK
  <2> QED
    BY <1>1, <2>1, <2>2, <2>3, KeyWritten, Beside
<1>2. ASSUME NEW u \in Users, NEW to \in Roles \cup {None}, ChangeRole(u, to)
      PROVE  IInv'
  <2>1. /\ request' = request /\ audit' = audit /\ excused' = excused /\ contested' = contested
        /\ override' = override /\ rows' = rows /\ key' = key
        /\ role' = [role EXCEPT ![u] = to]
        /\ wasMember' = IF to # None THEN wasMember \cup {u} ELSE wasMember
    BY <1>2 DEF ChangeRole
  <2>2. wasMember \subseteq wasMember'
    BY <2>1
  <2>3. MembersOK'
    BY <2>1 DEF IInv, MembersOK
  <2>4. OverridesOK'
    BY <2>1, <2>2 DEF IInv, OverridesOK, OverrideOK
  <2>5. key' \in [Issued -> KeyState]
    BY <2>1 DEF IInv, KeysOK
  <2> QED
    BY <2>1, <2>2, <2>3, <2>4, <2>5, Beside
<1> QED
  BY <1>1, <1>2

-----------------------------------------------------------------------------
(* The theorems.                                                            *)

LEMMA InitInv == ASSUME Init PROVE IInv
<1> PICK x : x = Key(0, 1, FALSE)
  OBVIOUS
<1>1. x \in KeyState /\ x.status = "active" /\ x.revoker = None /\ x.parent = 0 /\ x.origin = 1
  BY DEF Key, KeyState
<1>2. key = <<x>>
  BY DEF Init
<1>3. /\ Issued = 1..1 /\ key[1] = x /\ 1 \in Keys
      /\ key \in [Issued -> KeyState] /\ \A k \in Issued : k = 1 /\ key[k] = x
  <2>1. DOMAIN key = 1..1 /\ key[1] = x
    BY <1>2
  <2>2. key = [i \in 1..1 |-> key[i]] /\ \A i \in 1..1 : i = 1
    BY <1>2
  <2>3. 1 \in Keys
    BY KeysAssumption DEF Keys
  <2> QED
    BY <1>1, <2>1, <2>2, <2>3 DEF Issued
<1>4. KeysOK
  BY <1>1, <1>3 DEF Init, KeysOK, KeyOK, Numbered
<1>5. RequestsOK
  <2>1. RequestOK(NoRequest)
    BY NoRequestTyped DEF RequestOK, Deciding, OnKey, KeyOps, RoleOps
  <2> QED
    BY <2>1, NoRequestTyped DEF Init, RequestsOK
<1>6. Met
  BY NoRequestOK DEF Init, Met
<1>7. AllLogged
  BY <1>1, <1>3 DEF Init, AllLogged, IssueLogged
<1>8. MembersOK
  BY DEF Init, MembersOK
<1>9. OverridesOK
  BY DEF Init, OverridesOK, OverrideOK, NoRow
<1>10. ReplacedIsRevoked
  BY <1>1, <1>3 DEF ReplacedIsRevoked
<1> QED
  BY <1>4, <1>5, <1>6, <1>7, <1>8, <1>9, <1>10 DEF IInv

LEMMA StepInv == ASSUME IInv, [Next]_vars PROVE IInv'
<1>1. ASSUME NEW p \in Procs, RequestStep(p) PROVE IInv'
  BY <1>1, ReadSteps, CreateStep, RevokeStep, RotateStep, RoleSteps, AuditSteps DEF RequestStep
<1>2. CASE UNCHANGED vars
  <2>1. /\ request' = request /\ audit' = audit /\ excused' = excused /\ contested' = contested
        /\ wasMember' = wasMember /\ role' = role /\ override' = override /\ rows' = rows
        /\ key' = key
    BY <1>2 DEF vars
  <2>2. OverridesOK'
    BY <2>1, SameOverrides
  <2>3. MembersOK' /\ key' \in [Issued -> KeyState]
    BY <2>1 DEF IInv, MembersOK, KeysOK
  <2> QED
    BY <2>1, <2>2, <2>3, Beside
<1> QED
  BY <1>1, <1>2, OtherSteps DEF Next

LEMMA Invariant == Spec => []IInv
BY InitInv, StepInv, PTL DEF Spec

(* Every variable has its type, the keys and overrides of WorkspaceKeys are well
   formed, and a key has a revoker exactly when it is revoked (mcp_keys.py:177-183,
   252-255, workspaces.py:213-227). *)
THEOREM TypeCorrect == Spec => []TypeOK
<1>1. ASSUME IInv PROVE TypeOK
  <2>1. Issued \subseteq Keys
    BY <1>1, KeysAssumption DEF IInv, KeysOK, Numbered, Keys
  <2>2. \A k \in Issued : /\ key[k] \in KeyState
                          /\ key[k].origin \in Issued /\ key[k].parent \in {0} \cup Issued
                          /\ (key[k].revoker # None) = (key[k].status = "revoked")
    BY <1>1 DEF IInv, KeysOK, KeyOK
  <2>3. \A p \in Procs : request[p].pc = "idle" \/ request[p].key \in {0} \cup Issued
    BY <1>1 DEF IInv, RequestsOK, RequestOK
  <2>4. \A u \in Users : (override[u].role = None) = (override[u].row = 0)
    BY <1>1 DEF IInv, OverridesOK, OverrideOK
  <2> QED
    BY <1>1, <2>1, <2>2, <2>3, <2>4 DEF TypeOK, IInv, KeysOK, RequestsOK, MembersOK, OverridesOK
<1> QED
  BY <1>1, Invariant, PTL

(* A key that was replaced is revoked, however the requests that rotate and
   revoke it interleave (mcp_keys.py:223-261). *)
THEOREM ReplacedKeysAreRevoked == Spec => []ReplacedIsRevoked
<1>1. IInv => ReplacedIsRevoked
  BY DEF IInv
<1> QED
  BY <1>1, Invariant, PTL

(* Every issue and every revocation is on record, or its request is between its
   two commits or died there (mcp_keys.py:115-127, 184-196, 263-276). *)
THEOREM LifecycleIsLogged == Spec => []Logged
<1>1. ASSUME IInv PROVE Logged
  <2>1. ASSUME NEW k \in Issued, IssueLogged(k)
        PROVE  \/ k \in excused \/ \E p \in Procs : request[p].key = k
               \/ <<"create", k>> \in audit \/ <<"rotate", k>> \in audit
    BY <2>1 DEF IssueLogged, Auditing
  <2>2. ASSUME NEW k \in Issued, RevocationLogged(k)
        PROVE  \/ <<"revoke", k>> \in audit
               \/ \E s \in Issued : key[s].parent = k
               \/ k \in excused \/ \E p \in Procs : request[p].key = k
    BY <2>2 DEF RevocationLogged, Auditing
  <2> QED
    BY <1>1, <2>1, <2>2 DEF IInv, AllLogged, Logged
<1> QED
  BY <1>1, Invariant, PTL

(* Nobody gets an override who was not a member when it was decided
   (workspaces.py:178-183). *)
THEOREM OverridesNameMembers == Spec => []OverrideHadMember
<1>1. IInv => OverrideHadMember
  BY DEF IInv, OverridesOK, OverrideOK, OverrideHadMember
<1> QED
  BY <1>1, Invariant, PTL

(* Who revoked a key stays on record unless two requests had it in hand at once
   (mcp_keys.py:177-183, 252-255). *)
THEOREM RevokersStay == Spec => RevokerKept
<1> DEFINE Same(k) == key[k].revoker # None => key'[k].revoker = key[k].revoker
           Stays == \A k \in Issued \ contested : Same(k)
<1>1. ASSUME IInv, NEW p \in Procs, CommitRevoke(p) \/ CommitRotate(p)
      PROVE  Stays
  <2> PICK r : r = request[p]
    OBVIOUS
  <2>1. KeysOK /\ RequestOK(r) /\ r.op \in OnKey /\ r.pc = "commit"
    BY <1>1 DEF IInv, RequestsOK, CommitRevoke, CommitRotate, OnKey
  <2>2. r.key \in Issued /\ r.user \in Users /\ r.seen \in {"active", "revoked"}
        /\ (r.seen = "active" /\ key[r.key].status = "revoked" => r.key \in contested)
    BY <2>1 DEF RequestOK, Deciding
  <2>3. key[r.key].revoker # None => key[r.key].status = "revoked"
    BY <2>1, <2>2 DEF KeysOK, KeyOK
  <2>4. CASE CommitRevoke(p)
    <3>1. key' = key \/ (r.seen # "revoked" /\ key' = Revoked(key, r.key, r.user))
      BY <2>4 DEF CommitRevoke
    <3>2. CASE r.seen # "revoked" /\ key' = Revoked(key, r.key, r.user)
      BY <2>1, <2>2, <2>3, <3>2, RevokedTyped DEF KeysOK
    <3> QED
      BY <3>1, <3>2
  <2>5. CASE CommitRotate(p)
    <3> PICK x : x = Key(r.key, key[r.key].origin, key[r.key].expired)
      OBVIOUS
    <3> PICK new : new = Issue(x)
      OBVIOUS
    <3>1. key' = (IF r.seen = "revoked" THEN new ELSE Revoked(new, r.key, r.user)) /\ NextKey \in Keys
      BY <2>5 DEF CommitRotate
    <3>2. x \in KeyState
      <4>1. key[r.key] \in KeyState /\ r.key \in Nat
        BY <2>1, <2>2 DEF KeysOK, Numbered, Keys
      <4> QED
        BY <4>1, KeyTyped DEF KeyState
    <3>3. /\ new \in [1..NextKey -> KeyState] /\ 1..NextKey = Issued \cup {NextKey}
          /\ \A i \in Issued : new[i] = key[i]
      BY <2>1, <3>1, <3>2, Issuing
    <3>4. CASE r.seen = "revoked"
      BY <3>1, <3>3, <3>4
    <3>5. CASE r.seen # "revoked"
      <4>1. r.key \in 1..NextKey /\ key' = Revoked(new, r.key, r.user)
        BY <2>2, <3>1, <3>3, <3>5
      <4>2. \A i \in (1..NextKey) \ {r.key} : key'[i] = new[i]
        <5> PICK k : k = r.key
          OBVIOUS
        <5> PICK u \in Users : u = r.user
          BY <2>2
        <5> PICK S : S = 1..NextKey
          OBVIOUS
        <5>1. new \in [S -> KeyState] /\ k \in S /\ key' = Revoked(new, k, u)
          BY <3>3, <4>1
        <5>2. \A i \in S \ {k} : Revoked(new, k, u)[i] = new[i]
          BY <5>1 DEF Revoked
        <5> QED
          BY <5>1, <5>2
      <4>3. key[r.key].revoker # None => r.key \in contested
        BY <2>2, <2>3, <3>5
      <4> QED
        BY <3>3, <4>2, <4>3
    <3> QED
      BY <3>4, <3>5
  <2> QED
    BY <1>1, <2>4, <2>5
<1>2. ASSUME IInv, NEW p \in Procs, CommitCreate(p)
      PROVE  Stays
  <2>1. KeysOK /\ Key(0, NextKey, FALSE) \in KeyState /\ NextKey \in Keys
    BY <1>2, KeysAssumption DEF IInv, CommitCreate, Keys, Key, KeyState
  <2> QED
    BY <1>2, <2>1, Issuing DEF CommitCreate
<1>3. ASSUME IInv, (\E c \in Callers : CallStep(c)) \/ (\E k \in Issued : Expires(k))
      PROVE  Stays
  BY <1>3, KeyWritten
<1>4. ASSUME key' = key
      PROVE  Stays
  BY <1>4
<1>5. ASSUME IInv, [Next]_vars
      PROVE  [Stays]_vars
  <2>1. ASSUME NEW p \in Procs, RequestStep(p) PROVE Stays
    BY <1>1, <1>2, <1>4, <1>5, <2>1
       DEF RequestStep, Arrive, Load, Authorize, CheckTarget, LoadOverride, CommitDelete,
           CommitSetRole, CommitClearRole, Audit, RequestDies, Rest
  <2>2. ASSUME NEW u \in Users, NEW to \in Roles \cup {None}, ChangeRole(u, to) PROVE Stays
    BY <1>4, <2>2 DEF ChangeRole
  <2>3. Next => Stays
    BY <1>3, <1>5, <2>1, <2>2 DEF Next
  <2> HIDE DEF Stays
  <2> QED
    BY <1>5, <2>3
<1> QED
  BY <1>5, Invariant, PTL DEF Spec, RevokerKept
=============================================================================
