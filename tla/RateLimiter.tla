---------------------------- MODULE RateLimiter ----------------------------
(***************************************************************************)
(* The sliding-window rate limiter, for the requests of one client.  Every *)
(* request passes the general limit of the middleware, and a login then    *)
(* the tighter limit of its route.  The memory backend decides at once,    *)
(* per process; the Redis backend, shared by all processes, is a sequence  *)
(* of commands between which other requests run and time passes.  Time is  *)
(* counted in ticks, Second of them to the second.  An operator with a     *)
(* suffix is a mutation.                                                   *)
(***************************************************************************)
EXTENDS Naturals, Sequences, FiniteSets

CONSTANTS Procs,     \* concurrent requests, each of a process of its own
          Limit,     \* Limit[s]: requests of scope s per window
          Window,    \* length of the window, in ticks
          Second,    \* ticks in a second
          MaxDelay,  \* bound: ticks that a check of Redis may take
          MaxTime, MaxRequests, MaxFaults \* bounds

Scopes == {"general", "login"}

ASSUME LimiterAssumption ==
  /\ IsFiniteSet(Procs)
  /\ Limit \in [Scopes -> Nat \ {0}]
  /\ {Window, Second} \subseteq Nat \ {0} /\ Window % Second = 0
  /\ {MaxTime, MaxRequests, MaxFaults} \subseteq Nat
  /\ MaxDelay \in 0..(Window - 1)

VARIABLES backend,    \* RATE_LIMIT_BACKEND
          clock,
          bucket,     \* memory: bucket[p][s], the times process p admitted, oldest first
          zset,       \* Redis: zset[s], the recorded attempts
          expiry,     \* Redis: expiry[s], when the key of scope s vanishes; 0 if never
          check,      \* check[p]: what the request on process p is doing
          admitted,   \* admitted[p][s]: every attempt admitted, at the time its check read
          refused,    \* the last refusals, with what they answered
          concurrent, \* two checks have been under way at once
          lost,       \* a command failed, or a key vanished before its EXPIRE
          requests, faults

limiterVars == <<backend, clock, bucket, zset, expiry, check, admitted, refused, concurrent, lost, requests, faults>>

(* A recorded attempt; the member's number tells attempts of one time apart. *)
Attempt == [time: Nat, id: Nat]
Idle == [pc |-> "idle", kind |-> "plain", scope |-> "general", now |-> 0]

LimiterInit ==
  /\ backend \in {"memory", "redis"}
  /\ clock = 0
  /\ bucket = [p \in Procs |-> [s \in Scopes |-> << >>]]
  /\ zset = [s \in Scopes |-> {}]
  /\ expiry = [s \in Scopes |-> 0]
  /\ check = [p \in Procs |-> Idle]
  /\ admitted = [p \in Procs |-> [s \in Scopes |-> {}]]
  /\ refused = {}
  /\ concurrent = FALSE /\ lost = FALSE
  /\ requests = 0 /\ faults = 0
-----------------------------------------------------------------------------
Busy(p) == check[p].pc # "idle"

(* The first check of a request is the middleware's; /health and OPTIONS make
   none.  Redis: the time is read before the first command is sent. *)
Arrive(p, kind) ==
  /\ ~Busy(p) /\ requests < MaxRequests
  /\ requests' = requests + 1
  /\ check' = [check EXCEPT ![p] = [pc |-> "prune", kind |-> kind, scope |-> "general", now |-> clock]]
  /\ concurrent' = (concurrent \/ \E q \in Procs : Busy(q))
  /\ UNCHANGED <<backend, clock, bucket, zset, expiry, admitted, refused, lost, faults>>

(* An admitted request goes on to the limit of its route, or to its handler. *)
Passed(p) ==
  check' = [check EXCEPT ![p] =
    IF @.kind = "login" /\ @.scope = "general" THEN [@ EXCEPT !.pc = "prune", !.scope = "login", !.now = clock]
    ELSE Idle]

NewId == Cardinality(UNION {admitted[q][r] : q \in Procs, r \in Scopes}) + 1
Record(p, time) ==
  admitted' = [admitted EXCEPT ![p][check[p].scope] = @ \cup {[time |-> time, id |-> NewId]}]

RetryAfter_Rounded(now, oldest) ==
  (Window - (now - oldest) + Second - 1) \div Second

(* retry_after, in seconds: max(int(window - age of the oldest) + 1, 1). *)
RetryAfter(now, oldest) ==
  IF now - oldest > Window THEN 1 ELSE (Window - (now - oldest)) \div Second + 1

Refuse(p, oldest) ==
  LET c == check[p] IN
  /\ refused' = {[proc |-> p, scope |-> c.scope, at |-> c.now, seconds |-> RetryAfter(c.now, oldest)]}
  /\ check' = [check EXCEPT ![p] = Idle]
-----------------------------------------------------------------------------
(* RateLimiter.check, under its lock. *)

(* The loop takes n entries from the left of the deque: it stops at the first
   that is not older than the window; one exactly as old as the window stays. *)
Stops(times, now, n) ==
  /\ \A i \in 1..n : times[i] + Window < now
  /\ n < Len(times) => times[n + 1] + Window >= now

Pruned(times, now) ==
  LET n == CHOOSE m \in 0..Len(times) : Stops(times, now, m) IN SubSeq(times, n + 1, Len(times))

CheckMemory(p) ==
  LET c == check[p]
      kept == Pruned(bucket[p][c.scope], clock)
  IN
  /\ backend = "memory" /\ c.pc = "prune"
  /\ IF Len(kept) >= Limit[c.scope]
       THEN /\ bucket' = [bucket EXCEPT ![p][c.scope] = kept]
            /\ refused' = {[proc |-> p, scope |-> c.scope, at |-> clock, seconds |-> RetryAfter(clock, kept[1])]}
            /\ check' = [check EXCEPT ![p] = Idle]
            /\ UNCHANGED admitted
       ELSE /\ bucket' = [bucket EXCEPT ![p][c.scope] = Append(kept, clock)]
            /\ Record(p, clock)
            /\ Passed(p)
            /\ UNCHANGED refused
  /\ UNCHANGED <<backend, clock, zset, expiry, concurrent, lost, requests, faults>>
-----------------------------------------------------------------------------
(* RedisRateLimiter.acheck, command by command. *)

(* ZREMRANGEBYSCORE 0 (now - window): an entry exactly that old goes too, and an
   emptied key with its TTL. *)
Prune(p) ==
  LET c == check[p]
      kept == {a \in zset[c.scope] : a.time + Window > c.now}
  IN
  /\ backend = "redis" /\ c.pc = "prune"
  /\ zset' = [zset EXCEPT ![c.scope] = kept]
  /\ expiry' = [expiry EXCEPT ![c.scope] = IF kept = {} THEN 0 ELSE @]
  /\ check' = [check EXCEPT ![p].pc = "count"]
  /\ UNCHANGED <<backend, clock, bucket, admitted, refused, concurrent, lost, requests, faults>>

Full_OffByOne(p) == Cardinality(zset[check[p].scope]) > Limit[check[p].scope]

Full(p) == Cardinality(zset[check[p].scope]) >= Limit[check[p].scope]

(* ZCARD *)
Count(p) ==
  /\ check[p].pc = "count"
  /\ check' = [check EXCEPT ![p].pc = IF Full(p) THEN "full" ELSE "add"]
  /\ UNCHANGED <<backend, clock, bucket, zset, expiry, admitted, refused, concurrent, lost, requests, faults>>

(* ZRANGE 0 0, which may find nothing any more. *)
Oldest(p) ==
  LET c == check[p] IN
  /\ c.pc = "full"
  /\ IF zset[c.scope] = {} THEN Refuse(p, c.now)
     ELSE \E a \in zset[c.scope] : (\A b \in zset[c.scope] : a.time <= b.time) /\ Refuse(p, a.time)
  /\ UNCHANGED <<backend, clock, bucket, zset, expiry, admitted, concurrent, lost, requests, faults>>

(* ZADD, with the time at which the check began. *)
Add(p) ==
  LET c == check[p] IN
  /\ c.pc = "add"
  /\ Record(p, c.now)
  /\ zset' = [zset EXCEPT ![c.scope] = @ \cup {[time |-> c.now, id |-> NewId]}]
  /\ check' = [check EXCEPT ![p].pc = "expire"]
  /\ UNCHANGED <<backend, clock, bucket, expiry, refused, concurrent, lost, requests, faults>>

(* EXPIRE int(window) + 1, which does nothing to a key that is gone. *)
Expire(p) ==
  LET c == check[p] IN
  /\ c.pc = "expire"
  /\ expiry' = [expiry EXCEPT ![c.scope] = IF zset[c.scope] = {} THEN 0 ELSE clock + Window + Second]
  /\ Passed(p)
  /\ UNCHANGED <<backend, clock, bucket, zset, admitted, refused, concurrent, lost, requests, faults>>

(* A Redis error is not caught: the request fails where it is. *)
RedisFails(p) ==
  /\ backend = "redis" /\ Busy(p) /\ faults < MaxFaults
  /\ faults' = faults + 1 /\ lost' = TRUE
  /\ check' = [check EXCEPT ![p] = Idle]
  /\ UNCHANGED <<backend, clock, bucket, zset, expiry, admitted, refused, concurrent, requests>>

(* Time passes, and keys vanish when theirs is up. *)
Tick ==
  /\ clock < MaxTime
  /\ \A p \in Procs : Busy(p) => clock - check[p].now < MaxDelay
  /\ clock' = clock + 1
  /\ zset' = [s \in Scopes |-> IF expiry[s] = clock + 1 THEN {} ELSE zset[s]]
  /\ expiry' = [s \in Scopes |-> IF expiry[s] = clock + 1 THEN 0 ELSE expiry[s]]
  /\ lost' = (lost \/ \E p \in Procs : check[p].pc = "expire" /\ expiry[check[p].scope] = clock + 1)
  /\ UNCHANGED <<backend, bucket, check, admitted, refused, concurrent, requests, faults>>

LimiterNext ==
  \/ \E p \in Procs :
       \/ \E kind \in {"plain", "login"} : Arrive(p, kind)
       \/ CheckMemory(p)
       \/ Prune(p) \/ Count(p) \/ Oldest(p) \/ Add(p) \/ Expire(p) \/ RedisFails(p)
  \/ Tick

LimiterSpec == LimiterInit /\ [][LimiterNext]_limiterVars
-----------------------------------------------------------------------------
(* What the processes P were admitted for in the span of time that ends at t. *)
Counted(P, s, t, span) == UNION {{a \in admitted[p][s] : a.time <= t /\ a.time + span > t} : p \in P}

(* Every variable has its type, a bucket never exceeds its limit, and no client
   is told to wait for less than a second (rate_limit.py:63-68, 113). *)
LimiterTypeOK ==
  /\ backend \in {"memory", "redis"} /\ clock \in 0..MaxTime
  /\ bucket \in [Procs -> [Scopes -> Seq(0..clock)]]
  /\ \A p \in Procs, s \in Scopes : Len(bucket[p][s]) <= Limit[s]
  /\ zset \in [Scopes -> SUBSET Attempt] /\ expiry \in [Scopes -> Nat]
  /\ check \in [Procs -> [pc : {"idle", "prune", "count", "full", "add", "expire"},
                          kind : {"plain", "login"}, scope : Scopes, now : 0..clock]]
  /\ admitted \in [Procs -> [Scopes -> SUBSET Attempt]]
  /\ refused \subseteq [proc : Procs, scope : Scopes, at : 0..clock, seconds : Nat \ {0}]
  /\ concurrent \in BOOLEAN /\ lost \in BOOLEAN /\ requests \in Nat /\ faults \in Nat

(* No window admits more than the limit of its scope.  In memory that holds of
   every process, and of both ends of the window.  On Redis it holds of all
   processes together, as long as no two checks have overlapped and no command
   has failed; an attempt has there the time that its check read before it sent
   its first command, as its score does, and not the later one at which it was
   let through (rate_limit.py:61, 104-116). *)
AtMostLimit ==
  \A s \in Scopes, t \in 0..clock :
    IF backend = "memory" THEN \A p \in Procs : Cardinality(Counted({p}, s, t, Window + 1)) <= Limit[s]
    ELSE ~concurrent /\ ~lost => Cardinality(Counted(Procs, s, t, Window)) <= Limit[s]

(* ... and when checks do overlap, since each counts before it adds, the limit is
   exceeded by no more than the checks that can be under way besides one.  This
   is no claim about a whole window: a check that began later may have pruned
   what still counts for one that began earlier, so the span is shorter than the
   window by the time that a check may take (rate_limit.py:107, 108, 116). *)
Sure == Window - MaxDelay
OvershootBounded ==
  backend = "redis" /\ ~lost => \A s \in Scopes, t \in 0..clock :
    Cardinality(Counted(Procs, s, t, Sure)) <= Limit[s] + Cardinality(Procs) - 1

(* What is admitted while checks do not overlap, and what while they do. *)
AdmittedBounded == AtMostLimit /\ OvershootBounded

(* A client that waits as long as Retry-After says finds room, if no other
   request of his was admitted meanwhile: enough entries are out of the window
   by then.  On Redis this is claimed only as long as no two checks have
   overlapped and no command has failed: once a window has exceeded its limit,
   the oldest entry leaving it makes no room (rate_limit.py:64, 113). *)
RetryAfterSuffices ==
  backend = "memory" \/ (~concurrent /\ ~lost) => \A r \in refused :
    LET then == r.at + r.seconds * Second
        left == IF backend = "memory"
                  THEN {i \in DOMAIN bucket[r.proc][r.scope] : /\ bucket[r.proc][r.scope][i] <= r.at
                                                               /\ then - bucket[r.proc][r.scope][i] <= Window}
                  ELSE {a \in zset[r.scope] : a.time <= r.at /\ a.time + Window > then}
    IN Cardinality(left) < Limit[r.scope]
=============================================================================
