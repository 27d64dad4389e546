------------------------------- MODULE Sessions -------------------------------
(***************************************************************************)
(* The sessions service (sessions/sessions/sessions.go) over its Redis     *)
(* models (sessions/model, pkg/redis/model.go): a key per session, a key   *)
(* per user that points to the user's session, and a SETNX lock per user.  *)
(*                                                                         *)
(* A request is a goroutine of any replica of the service. Every Redis     *)
(* call is one step, and may fail; a request may die between two of them.  *)
(* Requests refused before they lock (bad address, expired, not found)     *)
(* change nothing and have no action, except the "not found" of Revoke,    *)
(* which Logout takes for an answer.                                       *)
(***************************************************************************)
EXTENDS Integers

CONSTANTS Users, Ids, Requests,
          None,
          MaxTime, MaxRenewTime, ExpirationTime,  \* cfg.Sessions, in ticks
          Lapses,     \* may a lock's TTL run out while its holder is alive?
          Span,       \* bound: the ticks a request may take
          Horizon     \* bound: the last clock value

ASSUME SessionsAssumption ==
  /\ None \notin Users \union Ids
  /\ MaxTime \in Nat /\ MaxRenewTime \in Nat /\ ExpirationTime \in Nat
  /\ ExpirationTime <= MaxTime
  /\ Lapses \in BOOLEAN
  /\ Span \in Nat /\ Horizon \in Nat

VARIABLES
  clock,
  \* Redis
  live,         \* session ids whose key exists
  sess,         \* what the key of a session holds, or last held
  pointer,      \* user key: the user's session id
  lock,         \* lock:user key: a bare flag, nobody's name in it
  \* the requests
  pc,           \* the next Redis call of a request
  op, who, sid, \* what it does, for which user and session
  at,           \* its reading of the clock (now)
  copy,         \* the session it is about to write back
  \* history
  used,         \* ids ever generated
  issued,       \* ids returned by New
  closed,       \* ids that Revoke reported as deleted or not found
  lapsed,       \* users whose lock ran out under a live holder
  misdirected   \* users whose pointer was deleted for another session's sake

redisVars == <<live, sess, pointer, lock>>
reqVars   == <<pc, op, who, sid, at, copy>>
histVars  == <<used, issued, closed, lapsed, misdirected>>
vars      == <<clock, redisVars, reqVars, histVars>>

Session == [user : Users \union {None}, max : Nat, renew : Nat, exp : Nat]
NoSession == [user |-> None, max |-> 0, renew |-> 0, exp |-> 0]

\* The Redis calls a request makes while it believes it holds the lock.
Critical == {"load", "rload", "rdel", "uload", "udel", "drop", "create",
             "point", "reload", "update", "release"}
Places == Critical \union {"idle", "lock"}

TypeOK ==
  /\ clock \in 0..Horizon
  /\ live \subseteq used /\ used \subseteq Ids
  /\ sess \in [Ids -> Session]
  /\ pointer \in [Users -> Ids \union {None}]
  /\ lock \in [Users -> BOOLEAN]
  /\ pc \in [Requests -> Places]
  /\ op \in [Requests -> {"new", "renew", "revoke", "none"}]
  /\ who \in [Requests -> Users \union {None}]
  /\ sid \in [Requests -> Ids \union {None}]
  /\ at \in [Requests -> Nat]
  /\ copy \in [Requests -> Session]
  /\ issued \subseteq used /\ closed \subseteq Ids
  /\ lapsed \subseteq Users /\ misdirected \subseteq Users

Init ==
  /\ clock = 0
  /\ live = {} /\ sess = [i \in Ids |-> NoSession]
  /\ pointer = [u \in Users |-> None] /\ lock = [u \in Users |-> FALSE]
  /\ pc = [p \in Requests |-> "idle"] /\ op = [p \in Requests |-> "none"]
  /\ who = [p \in Requests |-> None] /\ sid = [p \in Requests |-> None]
  /\ at = [p \in Requests |-> 0] /\ copy = [p \in Requests |-> NoSession]
  /\ used = {} /\ issued = {} /\ closed = {} /\ lapsed = {} /\ misdirected = {}

-----------------------------------------------------------------------------
(* Time: the clock, the keys' TTL (until MaxTime), the lock's TTL.           *)

\* Calls time out in seconds, MaxTime is hours: a request outlives few ticks.
Tick ==
  /\ clock < Horizon
  /\ \A p \in Requests : pc[p] # "idle" => clock < at[p] + Span
  /\ clock' = clock + 1
  /\ UNCHANGED <<redisVars, reqVars, histVars>>

\* A key written before its session's MaxTime may go once that has passed. One
\* written later has no TTL at all: it may stay for ever.
ExpireSession(i) ==
  /\ i \in live /\ sess[i].max < clock
  /\ live' = live \ {i}
  /\ UNCHANGED <<clock, sess, pointer, lock, reqVars, histVars>>

ExpireUser(u) ==
  /\ pointer[u] # None /\ sess[pointer[u]].max < clock
  /\ pointer' = [pointer EXCEPT ![u] = None]
  /\ UNCHANGED <<clock, live, sess, lock, reqVars, histVars>>

Holds(p, u) == pc[p] \in Critical /\ who[p] = u

\* The lock's TTL: the recovery from a dead holder, but it runs for a live one
\* too.
LockExpires(u) ==
  /\ lock[u]
  /\ lock' = [lock EXCEPT ![u] = FALSE]
  /\ IF \E p \in Requests : Holds(p, u)
     THEN Lapses /\ lapsed' = lapsed \union {u}
     ELSE lapsed' = lapsed
  /\ UNCHANGED <<clock, live, sess, pointer, reqVars, used, issued, closed,
                 misdirected>>

-----------------------------------------------------------------------------
(* The requests up to the lock.                                              *)

\* A caller knows the ids New returned and GetUserSession answers.
Known == issued \union {pointer[u] : u \in {v \in Users : pointer[v] # None}}

Goto(p, place) == pc' = [pc EXCEPT ![p] = place]

Begin(p, o, u, i) ==
  /\ pc[p] = "idle"
  /\ Goto(p, "lock")
  /\ op' = [op EXCEPT ![p] = o]
  /\ who' = [who EXCEPT ![p] = u]
  /\ sid' = [sid EXCEPT ![p] = i]
  /\ at' = [at EXCEPT ![p] = clock]
  /\ UNCHANGED <<clock, redisVars, copy, histVars>>

New(p, u) == Begin(p, "new", u, None)

\* Renew loads the session and refuses one past its limits.
Renew(p, i) ==
  /\ i \in Known \intersect live
  /\ sess[i].renew >= clock /\ sess[i].max >= clock
  /\ Begin(p, "renew", sess[i].user, i)

Revoke(p, i) ==
  /\ i \in Known \intersect live
  /\ Begin(p, "revoke", sess[i].user, i)

RevokeNotFound(i) ==
  /\ i \in Known \ live
  /\ closed' = closed \union {i}
  /\ UNCHANGED <<clock, redisVars, reqVars, used, issued, lapsed, misdirected>>

End(p) ==
  /\ Goto(p, "idle")
  /\ op' = [op EXCEPT ![p] = "none"]
  /\ who' = [who EXCEPT ![p] = None]
  /\ sid' = [sid EXCEPT ![p] = None]
  /\ at' = [at EXCEPT ![p] = 0]
  /\ copy' = [copy EXCEPT ![p] = NoSession]

\* SETNX succeeded.
Acquire(p) ==
  /\ pc[p] = "lock" /\ ~ lock[who[p]]
  /\ lock' = [lock EXCEPT ![who[p]] = TRUE]
  /\ \/ op[p] = "new" /\ Goto(p, "load")
     \/ op[p] = "renew" /\ Goto(p, "reload")
     \/ op[p] = "revoke" /\ Goto(p, "rload")
  /\ UNCHANGED <<clock, live, sess, pointer, op, who, sid, at, copy, histVars>>

\* SETNX took effect and its answer was lost: an error, and nobody's lock.
AcquireLost(p) ==
  /\ pc[p] = "lock" /\ ~ lock[who[p]]
  /\ lock' = [lock EXCEPT ![who[p]] = TRUE]
  /\ End(p)
  /\ UNCHANGED <<clock, live, sess, pointer, histVars>>

\* ErrLockBusy after MaxWait, a cancelled context, a failed SETNX.
GiveUp(p) ==
  /\ pc[p] = "lock"
  /\ End(p)
  /\ UNCHANGED <<clock, redisVars, histVars>>

\* The deferred DEL, whoever holds the lock by now.
Release(p) ==
  /\ pc[p] = "release"
  /\ lock' = [lock EXCEPT ![who[p]] = FALSE]
  /\ End(p)
  /\ UNCHANGED <<clock, live, sess, pointer, histVars>>

\* The request dies, or its DEL fails: the lock is left to its TTL.
Abandon(p) ==
  /\ pc[p] \in Critical
  /\ End(p)
  /\ UNCHANGED <<clock, redisVars, histVars>>

\* Mutant: New goes on after a failed revoke.
FailIgnored(p) ==
  /\ pc[p] \in Critical \ {"release"}
  /\ Goto(p, IF op[p] = "new" THEN "create" ELSE "release")
  /\ UNCHANGED <<clock, redisVars, op, who, sid, at, copy, histVars>>

\* A Redis call fails without effect: the request returns the error.
Fail(p) ==
  /\ pc[p] \in Critical \ {"release"}
  /\ Goto(p, "release")
  /\ UNCHANGED <<clock, redisVars, op, who, sid, at, copy, histVars>>

-----------------------------------------------------------------------------
(* New, after the lock.                                                      *)

\* usr.Load: a user with a session has it revoked first.
LoadUser(p) ==
  /\ pc[p] = "load"
  /\ IF pointer[who[p]] = None
     THEN Goto(p, "create") /\ sid' = sid
     ELSE Goto(p, "rload") /\ sid' = [sid EXCEPT ![p] = pointer[who[p]]]
  /\ UNCHANGED <<clock, redisVars, op, who, at, copy, histVars>>

\* usr.Delete, when revoke found something missing.
DropUser(p) ==
  /\ pc[p] = "drop"
  /\ IF pointer[who[p]] = None
     THEN Goto(p, "release") /\ pointer' = pointer
     ELSE Goto(p, "create") /\ pointer' = [pointer EXCEPT ![who[p]] = None]
  /\ UNCHANGED <<clock, live, sess, lock, op, who, sid, at, copy, histVars>>

\* Mutant: the id is not unique.
NewSessionReused(p) ==
  /\ pc[p] = "create"
  /\ \E i \in Ids :
       /\ live' = live \union {i}
       /\ sess' = [sess EXCEPT ![i] =
                     [user |-> who[p], max |-> at[p] + MaxTime,
                      renew |-> at[p] + MaxRenewTime,
                      exp |-> at[p] + ExpirationTime]]
       /\ sid' = [sid EXCEPT ![p] = i]
  /\ Goto(p, "point")
  /\ UNCHANGED <<clock, pointer, lock, op, who, at, copy, histVars>>

\* model.NewSession under a fresh uuid, with the times computed at the start.
NewSession(p) ==
  /\ pc[p] = "create"
  /\ \E i \in Ids \ used :
       /\ used' = used \union {i}
       /\ live' = live \union {i}
       /\ sess' = [sess EXCEPT ![i] =
                     [user |-> who[p], max |-> at[p] + MaxTime,
                      renew |-> at[p] + MaxRenewTime,
                      exp |-> at[p] + ExpirationTime]]
       /\ sid' = [sid EXCEPT ![p] = i]
  /\ Goto(p, "point")
  /\ UNCHANGED <<clock, pointer, lock, op, who, at, copy, issued, closed, lapsed,
                 misdirected>>

\* model.NewUser, and the answer to the caller.
NewUser(p) ==
  /\ pc[p] = "point"
  /\ pointer' = [pointer EXCEPT ![who[p]] = sid[p]]
  /\ issued' = issued \union {sid[p]}
  /\ Goto(p, "release")
  /\ UNCHANGED <<clock, live, sess, lock, op, who, sid, at, copy, used, closed,
                 lapsed, misdirected>>

\* The SET took effect and its answer was lost: New returns an error.
NewUserLost(p) ==
  /\ pc[p] = "point"
  /\ pointer' = [pointer EXCEPT ![who[p]] = sid[p]]
  /\ Goto(p, "release")
  /\ UNCHANGED <<clock, live, sess, lock, op, who, sid, at, copy, histVars>>

-----------------------------------------------------------------------------
(* Renew, after the lock.                                                    *)

\* The times Renew computes from the reloaded session s and its own now.
Renewed(s, now) ==
  [s EXCEPT !.exp = IF now + ExpirationTime > s.max THEN s.max
                    ELSE now + ExpirationTime,
            !.renew = IF s.renew + MaxRenewTime > s.max THEN s.max
                      ELSE now + MaxRenewTime]

\* Mutant: the session loaded before the lock is renewed.
ReloadSkipped(p) ==
  /\ pc[p] = "reload"
  /\ copy' = [copy EXCEPT ![p] = Renewed(sess[sid[p]], at[p])]
  /\ Goto(p, "update")
  /\ UNCHANGED <<clock, redisVars, op, who, sid, at, histVars>>

\* sess.Load again, under the lock.
Reload(p) ==
  /\ pc[p] = "reload"
  /\ IF sid[p] \in live
     THEN /\ copy' = [copy EXCEPT ![p] = Renewed(sess[sid[p]], at[p])]
          /\ Goto(p, "update")
     ELSE Goto(p, "release") /\ copy' = copy
  /\ UNCHANGED <<clock, redisVars, op, who, sid, at, histVars>>

\* sess.Update: a SET, which recreates a key that has gone meanwhile.
Update(p) ==
  /\ pc[p] = "update"
  /\ live' = live \union {sid[p]}
  /\ sess' = [sess EXCEPT ![sid[p]] = copy[p]]
  /\ Goto(p, "release")
  /\ UNCHANGED <<clock, pointer, lock, op, who, sid, at, copy, histVars>>

-----------------------------------------------------------------------------
(* revoke, called by New and by Revoke under the lock.                       *)

\* ErrNotFound: New goes on by deleting the user, Revoke returns it.
NotFound(p) ==
  \/ op[p] = "new" /\ Goto(p, "drop") /\ closed' = closed
  \/ op[p] = "revoke" /\ Goto(p, "release") /\ closed' = closed \union {sid[p]}

RevokeLoad(p) ==
  /\ pc[p] = "rload"
  /\ IF sid[p] \in live THEN Goto(p, "rdel") /\ closed' = closed ELSE NotFound(p)
  /\ UNCHANGED <<clock, redisVars, op, who, sid, at, copy, used, issued, lapsed,
                 misdirected>>

RevokeDelete(p) ==
  /\ pc[p] = "rdel"
  /\ live' = live \ {sid[p]}
  /\ IF sid[p] \in live THEN Goto(p, "uload") /\ closed' = closed ELSE NotFound(p)
  /\ UNCHANGED <<clock, sess, pointer, lock, op, who, sid, at, copy, used, issued,
                 lapsed, misdirected>>

RevokeLoadUser(p) ==
  /\ pc[p] = "uload"
  /\ IF pointer[who[p]] # None THEN Goto(p, "udel") /\ closed' = closed
     ELSE NotFound(p)
  /\ UNCHANGED <<clock, redisVars, op, who, sid, at, copy, used, issued, lapsed,
                 misdirected>>

\* The user key is deleted whatever session it points to.
RevokeDeleteUser(p) ==
  LET u == who[p] IN
  /\ pc[p] = "udel"
  /\ pointer' = [pointer EXCEPT ![u] = None]
  /\ misdirected' = IF pointer[u] \in {None, sid[p]} THEN misdirected
                    ELSE misdirected \union {u}
  /\ \/ pointer[u] = None /\ NotFound(p)
     \/ /\ pointer[u] # None
        /\ \/ op[p] = "new" /\ Goto(p, "create") /\ closed' = closed
           \/ /\ op[p] = "revoke" /\ Goto(p, "release")
              /\ closed' = closed \union {sid[p]}
  /\ UNCHANGED <<clock, live, sess, lock, op, who, sid, at, copy, used, issued,
                 lapsed>>

-----------------------------------------------------------------------------
Step(p) ==
  \/ Acquire(p) \/ GiveUp(p) \/ Release(p)
  \/ LoadUser(p) \/ DropUser(p) \/ NewSession(p) \/ NewUser(p)
  \/ Reload(p) \/ Update(p)
  \/ RevokeLoad(p) \/ RevokeDelete(p) \/ RevokeLoadUser(p) \/ RevokeDeleteUser(p)

Fault(p) == Fail(p) \/ Abandon(p) \/ AcquireLost(p) \/ NewUserLost(p)

Arrive(p) ==
  \/ \E u \in Users : New(p, u)
  \/ \E i \in Ids : Renew(p, i) \/ Revoke(p, i)

Next ==
  \/ Tick
  \/ \E i \in Ids : ExpireSession(i) \/ RevokeNotFound(i)
  \/ \E u \in Users : ExpireUser(u) \/ LockExpires(u)
  \/ \E p \in Requests : Arrive(p) \/ Step(p) \/ Fault(p)

Spec == Init /\ [][Next]_vars

-----------------------------------------------------------------------------
(* Properties.                                                               *)

\* What Get answers with: the key exists and its expiration has not passed.
Active(i) == i \in live /\ sess[i].exp >= clock

\* New: "revoke the existing session to ensure there's only one active session
\* per user". At no time do two sessions that New returned for one user both
\* pass Get, if the user's lock never ran out under a live holder and the user
\* key was never deleted on behalf of another session: failed calls, dead
\* requests, expiring keys and dangling user keys do no harm.
OneSessionWhileLocked ==
  \A i, j \in issued :
    /\ Active(i) /\ Active(j) /\ sess[i].user = sess[j].user
    /\ sess[i].user \notin lapsed \union misdirected
    => i = j

\* Logout ignores "not found", "to ensure the user that the session is 100%
\* closed": once Revoke has answered, the session never passes Get again, a
\* renewal that was under way included.
ClosedStaysClosed ==
  \A i \in closed : sess[i].user \notin lapsed => ~ Active(i)
=============================================================================
