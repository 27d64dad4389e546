--------------------------- MODULE SessionsProofs ---------------------------
(***************************************************************************)
(* One active session per user as long as the user's lock keeps excluding, *)
(* and no return of a closed session: what the lock protects (Guarded),    *)
(* and the steps of the environment and of New, Renew and Revoke, which    *)
(* keep it.                                                                *)
(***************************************************************************)
EXTENDS SessionsTypeProofs


-----------------------------------------------------------------------------
(* What the lock protects, user by user.                                     *)

\* The session could still be renewed into activity.
InForce(i) == i \in live /\ sess[i].max >= clock

Excl(u) ==
  /\ \A p \in Requests : Holds(p, u) => lock[u]
  /\ \A p, q \in Requests : Holds(p, u) /\ Holds(q, u) => p = q

\* The user key is the handle by which New finds what to revoke.
Owned(u) == \A i \in issued : sess[i].user = u /\ InForce(i) => pointer[u] = i

Shut(u) == \A i \in closed : sess[i].user = u => ~ InForce(i)

\* What a holder has seen stays true under the lock.
LocalOK(p) ==
  /\ pc[p] \in {"create", "point"} => pointer[who[p]] = None
  /\ pc[p] \in {"uload", "udel", "drop"} => sid[p] \notin live
  /\ op[p] = "new" /\ pc[p] \in {"rload", "rdel", "uload", "udel", "drop"} =>
       pointer[who[p]] \in {None, sid[p]}
  /\ pc[p] = "update" => (sess[sid[p]].max >= clock => sid[p] \in live)

GuardedAt(u) ==
  /\ Excl(u) /\ Shut(u)
  /\ \A p \in Requests : Holds(p, u) => LocalOK(p)
  /\ u \notin misdirected => Owned(u)

Guarded == \A u \in Users \ lapsed : GuardedAt(u)

\* Nothing of u's changes, except that time passes and keys past their MaxTime
\* go.
LEMMA Elsewhere ==
  ASSUME Shape, Shape', SameSessions, NEW u \in Users, GuardedAt(u),
         clock <= clock',
         pointer'[u] = pointer[u] \/
           (pointer'[u] = None /\ sess[pointer[u]].max < clock),
         \A i \in used : sess[i].user = u =>
           (i \in live' <=> i \in live) \/ (i \notin live' /\ sess[i].max < clock),
         \A i \in issued' : sess'[i].user = u => i \in issued,
         \A i \in closed' : sess'[i].user = u => i \in closed \/ i \notin live',
         u \in misdirected => u \in misdirected',
         lock'[u] = lock[u] \/ \A p \in Requests : ~ Holds(p, u)',
         \A p \in Requests : Holds(p, u)' =>
           Holds(p, u) /\ pc'[p] = pc[p] /\ op'[p] = op[p] /\ sid'[p] = sid[p]
  PROVE  GuardedAt(u)'
<1>1. /\ clock \in Int /\ clock' \in Int
      /\ \A i \in used : sess[i].max \in Int /\ sess'[i].max = sess[i].max
                        /\ sess'[i].user = sess[i].user
      /\ issued \subseteq used /\ closed \subseteq used /\ live \subseteq used
      /\ live' \subseteq used' /\ issued' \subseteq used'
  BY SessionsAssumption DEF Shape, TypeOK, SameSessions, Session
<1>2. ASSUME NEW i \in used, sess[i].user = u, InForce(i)' PROVE InForce(i)
  <2>1. i \in live' /\ sess'[i].max >= clock'
    BY <1>2, Zenon DEF InForce
  <2>2. i \in live
    BY <1>2, <2>1, Zenon
  <2>3. /\ sess[i].max \in Int /\ clock \in Int /\ clock' \in Int
        /\ sess[i].max >= clock'
    BY <1>1, <2>1, Zenon
  <2>4. sess[i].max >= clock
    BY <2>3
  <2> QED
    BY <2>2, <2>4, Zenon DEF InForce
<1>3. Excl(u)'
  BY Zenon DEF GuardedAt, Excl
<1>4. Shut(u)'
  <2> SUFFICES ASSUME NEW i \in closed', sess'[i].user = u, InForce(i)'
               PROVE  FALSE
    BY Zenon DEF Shut
  <2>1. i \in closed
    BY Zenon DEF InForce
  <2> QED
    BY <1>1, <1>2, <2>1, Zenon DEF GuardedAt, Shut
<1>5. u \notin misdirected' => Owned(u)'
  <2> SUFFICES ASSUME u \notin misdirected', NEW i \in issued',
                      sess'[i].user = u, InForce(i)'
               PROVE  pointer'[u] = i
    BY Zenon DEF Owned
  <2>1. i \in issued /\ i \in used /\ sess[i].user = u /\ InForce(i)
    BY <1>1, <1>2, Zenon
  <2>2. pointer[u] = i /\ ~ (sess[i].max < clock)
    BY <1>1, <2>1 DEF GuardedAt, Owned, InForce
  <2> QED
    BY <2>2, Zenon
<1>6. ASSUME NEW p \in Requests, Holds(p, u)' PROVE LocalOK(p)'
  <2>1. /\ Holds(p, u) /\ pc'[p] = pc[p] /\ op'[p] = op[p] /\ sid'[p] = sid[p]
        /\ who[p] = u /\ who'[p] = u /\ LocalOK(p) /\ ReqOK(p)
    BY <1>6, Zenon DEF Holds, GuardedAt, Shape
  <2>2. pointer'[u] = pointer[u] \/ pointer'[u] = None
    BY Zenon
  <2>3. pc[p] \in {"uload", "udel", "drop"} => sid'[p] \notin live'
    BY <2>1, Zenon DEF LocalOK, ReqOK, Targets
  <2>4. pc[p] = "update" => (sess'[sid[p]].max >= clock' => sid'[p] \in live')
    <3> SUFFICES ASSUME pc[p] = "update", sess'[sid[p]].max >= clock'
                 PROVE  sid[p] \in live'
      BY <2>1, Zenon
    <3>1. sid[p] \in used /\ sess[sid[p]].user = u
      BY <2>1, Zenon DEF ReqOK, Targets
    <3>2. /\ sess[sid[p]].max \in Int /\ clock \in Int /\ clock' \in Int
          /\ sess[sid[p]].max >= clock'
      BY <1>1, <3>1, Zenon
    <3>3. sess[sid[p]].max >= clock /\ ~ (sess[sid[p]].max < clock)
      BY <3>2
    <3>4. sid[p] \in live
      BY <2>1, <3>3, Zenon DEF LocalOK
    <3> QED
      BY <3>1, <3>3, <3>4, Zenon
  <2> QED
    BY <2>1, <2>2, <2>3, <2>4, Zenon DEF LocalOK
<1> QED
  BY <1>3, <1>4, <1>5, <1>6, Zenon DEF GuardedAt

LEMMA GuardedEnvironment ==
  ASSUME Shape, Shape', Guarded,
         \/ Tick
         \/ \E i \in Ids : ExpireSession(i) \/ RevokeNotFound(i)
         \/ \E v \in Users : ExpireUser(v) \/ LockExpires(v)
  PROVE  Guarded'
<1> SUFFICES ASSUME NEW u \in Users, u \notin lapsed' PROVE GuardedAt(u)'
  BY Zenon DEF Guarded
<1>1. /\ UNCHANGED <<sess, used, issued, reqVars, misdirected>>
      /\ lapsed \subseteq lapsed'
  BY Zenon DEF Tick, ExpireSession, RevokeNotFound, ExpireUser, LockExpires,
     redisVars, histVars
<1>2. u \notin lapsed /\ GuardedAt(u) /\ SameSessions
  BY <1>1, Zenon DEF Guarded, SameSessions
<1>3. clock \in Int /\ clock <= clock'
  BY SessionsAssumption DEF Shape, TypeOK, Tick, ExpireSession, RevokeNotFound,
     ExpireUser, LockExpires
<1>4. \A p \in Requests : /\ Holds(p, u)' = Holds(p, u) /\ pc'[p] = pc[p]
                          /\ op'[p] = op[p] /\ sid'[p] = sid[p]
  BY <1>1, Zenon DEF reqVars, Holds
<1>5. CASE Tick
  BY <1>1, <1>2, <1>3, <1>4, <1>5, Elsewhere, Zenon DEF Tick, redisVars,
     histVars
<1>6. ASSUME NEW i \in Ids, ExpireSession(i) PROVE GuardedAt(u)'
  <2>1. /\ live' = live \ {i} /\ sess[i].max < clock
        /\ UNCHANGED <<clock, pointer, lock, closed>>
    BY <1>6, Zenon DEF ExpireSession, histVars
  <2> QED
    BY <1>1, <1>2, <1>3, <1>4, <2>1, Elsewhere, Zenon
<1>7. ASSUME NEW i \in Ids, RevokeNotFound(i) PROVE GuardedAt(u)'
  <2>1. /\ closed' = closed \union {i} /\ i \notin live
        /\ UNCHANGED <<clock, pointer, lock, live>>
    BY <1>7, Zenon DEF RevokeNotFound, redisVars
  <2> QED
    BY <1>1, <1>2, <1>3, <1>4, <2>1, Elsewhere, Zenon
<1>8. ASSUME NEW v \in Users, ExpireUser(v) PROVE GuardedAt(u)'
  <2>1. /\ sess[pointer[v]].max < clock /\ pointer' = [pointer EXCEPT ![v] = None]
        /\ UNCHANGED <<clock, live, lock, closed>>
    BY <1>8, Zenon DEF ExpireUser, histVars
  <2>2. \/ pointer'[u] = pointer[u]
        \/ pointer'[u] = None /\ sess[pointer[u]].max < clock
    BY <2>1, Zenon DEF Shape, TypeOK
  <2> QED
    BY <1>1, <1>2, <1>3, <1>4, <2>1, <2>2, Elsewhere, Zenon
<1>9. ASSUME NEW v \in Users, LockExpires(v) PROVE GuardedAt(u)'
  <2>1. /\ UNCHANGED <<clock, live, pointer, closed>>
        /\ lock' = [lock EXCEPT ![v] = FALSE]
        /\ (\E p \in Requests : Holds(p, v)) => v \in lapsed'
    BY <1>9, Zenon DEF LockExpires
  <2>2. lock'[u] = lock[u] \/ \A p \in Requests : ~ Holds(p, u)'
    <3>1. lock \in [Users -> BOOLEAN]
      BY Zenon DEF Shape, TypeOK
    <3> QED
      BY <1>4, <2>1, <3>1, Zenon
  <2> QED
    BY <1>1, <1>2, <1>3, <1>4, <2>1, <2>2, Elsewhere, Zenon
<1> QED
  BY <1>5, <1>6, <1>7, <1>8, <1>9, Zenon

\* A request that does not come to hold the lock, or stops holding it.
LEMMA GuardedIdle ==
  ASSUME Shape, Shape', Guarded, NEW p \in Requests, OthersStill(p),
         UNCHANGED <<clock, live, sess, pointer, histVars>>,
         pc'[p] \notin Critical,
         \A u \in Users \ lapsed :
           lock'[u] = lock[u] \/ \A q \in Requests \ {p} : ~ Holds(q, u)
  PROVE  Guarded'
<1> SUFFICES ASSUME NEW u \in Users, u \notin lapsed PROVE GuardedAt(u)'
  BY Zenon DEF Guarded, histVars
<1>1. GuardedAt(u) /\ SameSessions /\ clock \in Int
  BY SessionsAssumption DEF Guarded, SameSessions, histVars, Shape, TypeOK
<1>2. \A q \in Requests : Holds(q, u)' =>
        /\ q # p /\ Holds(q, u) /\ pc'[q] = pc[q] /\ op'[q] = op[q]
        /\ sid'[q] = sid[q]
  BY Zenon DEF Holds, OthersStill
<1>3. lock'[u] = lock[u] \/ \A q \in Requests : ~ Holds(q, u)'
  BY <1>2, Zenon
<1> QED
  BY <1>1, <1>2, <1>3, Elsewhere DEF histVars

LEMMA GuardedLock ==
  ASSUME Shape, Shape', Guarded, NEW p \in Requests,
         \/ Arrive(p) \/ AcquireLost(p) \/ GiveUp(p) \/ Release(p) \/ Abandon(p)
  PROVE  Guarded'
<1>1. /\ pc \in [Requests -> Places] /\ op \in [Requests -> {"new", "renew", "revoke", "none"}]
      /\ who \in [Requests -> Users \union {None}]
      /\ sid \in [Requests -> Ids \union {None}] /\ copy \in [Requests -> Session]
      /\ lock \in [Users -> BOOLEAN] /\ ReqOK(p)
  BY Zenon DEF Shape, TypeOK
<1>2. ASSUME NEW o, NEW u, NEW i, Begin(p, o, u, i) PROVE Guarded'
  <2>1. OthersStill(p) /\ pc'[p] = "lock"
    BY <1>1, <1>2, Zenon DEF Begin, Goto, OthersStill
  <2>2. UNCHANGED <<clock, live, sess, pointer, histVars, lock>>
    BY <1>2, Zenon DEF Begin, redisVars
  <2> QED
    BY <2>1, <2>2, GuardedIdle, Zenon DEF Critical
<1>3. CASE Arrive(p)
  BY <1>2, <1>3, Zenon DEF Arrive, New, Renew, Revoke
<1>4. ASSUME End(p) PROVE OthersStill(p) /\ pc'[p] \notin Critical
  BY <1>1, <1>4, Zenon DEF End, Goto, OthersStill, Critical
<1>5. CASE GiveUp(p) \/ Abandon(p)
  BY <1>4, <1>5, GuardedIdle, Zenon DEF GiveUp, Abandon, redisVars
<1>6. CASE AcquireLost(p)
  <2>1. /\ lock' = [lock EXCEPT ![who[p]] = TRUE] /\ ~ lock[who[p]] /\ End(p)
        /\ UNCHANGED <<clock, live, sess, pointer, histVars>>
    BY <1>6, Zenon DEF AcquireLost
  <2>2. ASSUME NEW u \in Users \ lapsed
        PROVE  lock'[u] = lock[u] \/ \A q \in Requests \ {p} : ~ Holds(q, u)
    BY <1>1, <2>1, Zenon DEF Guarded, GuardedAt, Excl
  <2> QED
    BY <1>4, <2>1, <2>2, GuardedIdle, Zenon
<1>7. CASE Release(p)
  <2>1. /\ lock' = [lock EXCEPT ![who[p]] = FALSE] /\ End(p) /\ pc[p] = "release"
        /\ UNCHANGED <<clock, live, sess, pointer, histVars>>
    BY <1>7, Zenon DEF Release
  <2>2. ASSUME NEW u \in Users \ lapsed
        PROVE  lock'[u] = lock[u] \/ \A q \in Requests \ {p} : ~ Holds(q, u)
    <3>1. CASE u = who[p]
      <4>1. Holds(p, u)
        BY <2>1, <3>1, Zenon DEF Holds, Critical
      <4> QED
        BY <4>1, Zenon DEF Guarded, GuardedAt, Excl
    <3>2. CASE u # who[p]
      BY <1>1, <2>1, <3>2, Zenon
    <3> QED
      BY <3>1, <3>2, Zenon
  <2> QED
    BY <1>4, <2>1, <2>2, GuardedIdle, Zenon
<1> QED
  BY <1>3, <1>5, <1>6, <1>7, Zenon

\* SETNX: there was no other holder.
LEMMA GuardedAcquire ==
  ASSUME Shape, Shape', Guarded, NEW p \in Requests, Acquire(p)
  PROVE  Guarded'
<1>1. /\ pc \in [Requests -> Places] /\ lock \in [Users -> BOOLEAN] /\ ReqOK(p)
      /\ clock \in Int
  BY SessionsAssumption DEF Shape, TypeOK
<1>2. /\ UNCHANGED <<clock, live, sess, pointer, op, who, sid, copy, histVars>>
      /\ lock' = [lock EXCEPT ![who[p]] = TRUE] /\ ~ lock[who[p]] /\ pc[p] = "lock"
  BY Zenon DEF Acquire
<1>3. PICK place \in {"load", "reload", "rload"} :
        pc' = [pc EXCEPT ![p] = place] /\ (place = "rload" => op[p] = "revoke")
  BY Zenon DEF Acquire, Goto
<1>4. pc'[p] = place /\ \A q \in Requests \ {p} : pc'[q] = pc[q]
  BY <1>1, <1>3, Zenon
<1> SUFFICES ASSUME NEW u \in Users, u \notin lapsed PROVE GuardedAt(u)'
  BY <1>2, Zenon DEF Guarded, histVars
<1>5. GuardedAt(u) /\ SameSessions
  BY <1>2, Zenon DEF Guarded, SameSessions, histVars
<1>6. CASE u # who[p]
  <2>1. \A q \in Requests : Holds(q, u)' =>
          Holds(q, u) /\ pc'[q] = pc[q] /\ op'[q] = op[q] /\ sid'[q] = sid[q]
    BY <1>2, <1>4, <1>6, Zenon DEF Holds
  <2>2. lock'[u] = lock[u]
    BY <1>1, <1>2, <1>6, Zenon
  <2>3. /\ UNCHANGED <<live, pointer, issued, closed, misdirected>>
        /\ clock <= clock'
    BY <1>1, <1>2 DEF histVars
  <2> QED
    BY <1>5, <2>1, <2>2, <2>3, Elsewhere, Zenon
<1>7. CASE u = who[p]
  <2>1. \A q \in Requests : Holds(q, u)' => q = p
    BY <1>2, <1>4, <1>5, <1>7, Zenon DEF Holds, GuardedAt, Excl
  <2>2. Excl(u)'
    BY <1>1, <1>2, <1>7, <2>1, Zenon DEF Excl
  <2>3. LocalOK(p)'
    BY <1>2, <1>3, <1>4, Zenon DEF LocalOK
  <2>4. Shut(u)' /\ (u \notin misdirected' => Owned(u)')
    BY <1>2, <1>5, Zenon DEF GuardedAt, Shut, Owned, InForce, histVars
  <2> QED
    BY <2>1, <2>2, <2>3, <2>4, Zenon DEF GuardedAt
<1> QED
  BY <1>6, <1>7, Zenon

\* A step of a holder: it touches nothing of the other users, and its own user
\* has no other holder.
LEMMA GuardedStep ==
  ASSUME Shape, Shape', SameSessions, Guarded, NEW p \in Requests,
         pc[p] \in Critical, OthersStill(p),
         UNCHANGED <<clock, lock, lapsed, who, op>>,
         \A u \in Users \ {who[p]} : pointer'[u] = pointer[u],
         \A i \in used : sess[i].user # who[p] => (i \in live' <=> i \in live),
         \A i \in issued' : sess'[i].user # who[p] => i \in issued,
         \A i \in closed' : sess'[i].user # who[p] => i \in closed,
         \A u \in Users \ {who[p]} : u \in misdirected => u \in misdirected',
         GuardedAt(who[p]) =>
           /\ LocalOK(p)' /\ Shut(who[p])'
           /\ who[p] \notin misdirected' => Owned(who[p])'
  PROVE  Guarded'
<1> SUFFICES ASSUME NEW u \in Users, u \notin lapsed PROVE GuardedAt(u)'
  BY Zenon DEF Guarded
<1>1. GuardedAt(u) /\ clock <= clock'
  <2>1. GuardedAt(u)
    BY Zenon DEF Guarded
  <2>2. clock \in 0..Horizon
    BY Zenon DEF Shape, TypeOK
  <2>3. clock' = clock
    BY Zenon
  <2> QED
    BY <2>1, <2>2, <2>3, SessionsAssumption
<1>2. CASE u # who[p]
  <2>1. \A q \in Requests : Holds(q, u)' =>
          Holds(q, u) /\ pc'[q] = pc[q] /\ op'[q] = op[q] /\ sid'[q] = sid[q]
    BY <1>2, Zenon DEF Holds, OthersStill
  <2>2. /\ pointer'[u] = pointer[u]
        /\ \A i \in used : sess[i].user = u => (i \in live' <=> i \in live)
        /\ \A i \in issued' : sess'[i].user = u => i \in issued
        /\ \A i \in closed' : sess'[i].user = u => i \in closed
        /\ u \in misdirected => u \in misdirected'
    BY <1>2, Zenon
  <2> QED
    BY <1>1, <2>1, <2>2, Elsewhere, Zenon
<1>3. CASE u = who[p]
  <2>1. Holds(p, u)
    BY <1>3, Zenon DEF Holds
  <2>2. \A q \in Requests : Holds(q, u)' => q = p
    BY <1>1, <2>1, Zenon DEF Holds, OthersStill, GuardedAt, Excl
  <2>3. Excl(u)'
    BY <1>1, <2>1, <2>2, Zenon DEF GuardedAt, Excl
  <2>4. LocalOK(p)' /\ Shut(u)' /\ (u \notin misdirected' => Owned(u)')
    BY <1>1, <1>3, Zenon
  <2> QED
    BY <2>2, <2>3, <2>4, Zenon DEF GuardedAt
<1> QED
  BY <1>2, <1>3, Zenon

\* What a holder knows of its user before the step.
LEMMA HolderKnows ==
  ASSUME Shape, NEW p \in Requests, pc[p] \in Critical, GuardedAt(who[p])
  PROVE  /\ LocalOK(p) /\ Shut(who[p])
         /\ who[p] \notin misdirected => Owned(who[p])
BY Zenon DEF GuardedAt, Holds


-----------------------------------------------------------------------------
(* The steps of New, Renew and Revoke under the lock.                        *)

\* New up to its answer, but for the creation of the session.
LEMMA GuardedNew ==
  ASSUME Shape, Shape', Guarded, NEW p \in Requests,
         \/ LoadUser(p) \/ DropUser(p) \/ NewUser(p) \/ NewUserLost(p) \/ Fail(p)
  PROVE  Guarded'
<1>1. /\ pc \in [Requests -> Places] /\ sid \in [Requests -> Ids \union {None}]
      /\ pointer \in [Users -> Ids \union {None}] /\ ReqOK(p)
  BY Zenon DEF Shape, TypeOK
<1>2. /\ UNCHANGED <<clock, live, sess, lock, op, who, copy, used, closed, lapsed,
                     misdirected>>
      /\ pc[p] \in Critical
  BY Zenon DEF LoadUser, DropUser, NewUser, NewUserLost, Fail, redisVars,
     histVars, Critical
<1>3. SameSessions /\ who[p] \in Users
  BY <1>1, <1>2, Zenon DEF SameSessions, ReqOK, Critical
<1>4. OthersStill(p)
  BY <1>1, <1>2, Zenon DEF LoadUser, DropUser, NewUser, NewUserLost, Fail,
     Goto, OthersStill
<1>5. /\ \A u \in Users \ {who[p]} : pointer'[u] = pointer[u]
      /\ \A i \in issued' : sess'[i].user # who[p] => i \in issued
  <2>1. CASE LoadUser(p) \/ DropUser(p) \/ Fail(p)
    BY <1>1, <2>1, Zenon DEF LoadUser, DropUser, Fail, redisVars, histVars
  <2>2. CASE NewUser(p) \/ NewUserLost(p)
    <3>1. /\ issued' \subseteq issued \union {sid[p]} /\ sess[sid[p]].user = who[p]
          /\ pointer' = [pointer EXCEPT ![who[p]] = sid[p]]
      BY <1>1, <2>2, Zenon DEF NewUser, NewUserLost, histVars, ReqOK, Targets
    <3> QED
      BY <1>1, <1>2, <3>1, Zenon
  <2> QED
    BY <2>1, <2>2, Zenon
<1>6. ASSUME GuardedAt(who[p])
      PROVE  /\ LocalOK(p)' /\ Shut(who[p])'
             /\ who[p] \notin misdirected' => Owned(who[p])'
  <2>1. /\ LocalOK(p) /\ Shut(who[p])
        /\ who[p] \notin misdirected => Owned(who[p])
    BY <1>2, <1>6, HolderKnows, Zenon
  <2>2. Shut(who[p])'
    BY <1>2, <2>1, Zenon DEF Shut, InForce
  <2>3. CASE LoadUser(p)
    <3>1. /\ UNCHANGED <<pointer, issued>> /\ pc[p] = "load"
          /\ \/ pointer[who[p]] = None /\ pc' = [pc EXCEPT ![p] = "create"]
             \/ /\ sid' = [sid EXCEPT ![p] = pointer[who[p]]]
                /\ pc' = [pc EXCEPT ![p] = "rload"]
      BY <2>3, Zenon DEF LoadUser, Goto, redisVars, histVars
    <3>2. LocalOK(p)'
      BY <1>1, <1>2, <3>1, Zenon DEF LocalOK
    <3> QED
      BY <1>2, <2>1, <2>2, <3>1, <3>2, Zenon DEF Owned, InForce
  <2>4. CASE DropUser(p)
    <3>1. /\ UNCHANGED <<sid, issued>> /\ pc[p] = "drop" /\ op[p] = "new"
          /\ pointer'[who[p]] = None
          /\ pc' = [pc EXCEPT ![p] = "release"] \/ pc' = [pc EXCEPT ![p] = "create"]
      BY <1>1, <1>3, <2>4, Zenon DEF DropUser, Goto, histVars, ReqOK
    <3>2. LocalOK(p)'
      BY <1>1, <1>2, <3>1, Zenon DEF LocalOK
    <3>3. pointer[who[p]] \in {None, sid[p]} /\ sid[p] \notin live
      BY <2>1, <3>1, Zenon DEF LocalOK
    <3>4. Owned(who[p]) => Owned(who[p])'
      <4> SUFFICES ASSUME Owned(who[p]), NEW i \in issued, sess[i].user = who[p],
                          InForce(i)
                   PROVE  FALSE
        BY <1>2, <3>1, Zenon DEF Owned, InForce
      <4>1. pointer[who[p]] = i /\ i \in live /\ i # None
        BY SessionsAssumption, Zenon DEF Owned, InForce, Shape, TypeOK
      <4> QED
        BY <3>3, <4>1, Zenon
    <3> QED
      BY <1>2, <2>1, <2>2, <3>2, <3>4, Zenon
  <2>5. CASE NewUser(p) \/ NewUserLost(p)
    <3>1. /\ issued' \subseteq issued \union {sid[p]} /\ pc[p] = "point"
          /\ pointer' = [pointer EXCEPT ![who[p]] = sid[p]]
          /\ pc' = [pc EXCEPT ![p] = "release"]
      BY <2>5, Zenon DEF NewUser, NewUserLost, Goto, histVars
    <3>2. LocalOK(p)'
      BY <1>1, <1>2, <3>1, Zenon DEF LocalOK
    <3>3. pointer[who[p]] = None /\ pointer'[who[p]] = sid[p]
      BY <1>1, <1>3, <2>1, <3>1, Zenon DEF LocalOK
    <3>4. Owned(who[p]) => Owned(who[p])'
      <4> SUFFICES ASSUME Owned(who[p]), NEW i \in issued, sess[i].user = who[p],
                          InForce(i)
                   PROVE  FALSE
        BY <1>2, <3>1, <3>3, Zenon DEF Owned, InForce
      <4>1. pointer[who[p]] = i /\ i # None
        BY SessionsAssumption, Zenon DEF Owned, InForce, Shape, TypeOK
      <4> QED
        BY <3>3, <4>1, Zenon
    <3> QED
      BY <1>2, <2>1, <2>2, <3>2, <3>4, Zenon
  <2>6. CASE Fail(p)
    <3>1. UNCHANGED <<pointer, issued, sid>> /\ pc' = [pc EXCEPT ![p] = "release"]
      BY <2>6, Zenon DEF Fail, Goto, redisVars, histVars
    <3> QED
      BY <1>1, <1>2, <2>1, <2>2, <3>1, Zenon DEF LocalOK, Owned, InForce
  <2> QED
    BY <2>3, <2>4, <2>5, <2>6, Zenon
<1> QED
  BY <1>2, <1>3, <1>4, <1>5, <1>6, GuardedStep, Zenon

LEMMA GuardedCreate ==
  ASSUME Shape, Shape', Guarded, NEW p \in Requests, NewSession(p)
  PROVE  Guarded'
<1>1. /\ pc \in [Requests -> Places] /\ sid \in [Requests -> Ids \union {None}]
      /\ sess \in [Ids -> Session] /\ ReqOK(p)
      /\ used \subseteq Ids /\ issued \subseteq used /\ closed \subseteq used
  BY Zenon DEF Shape, TypeOK
<1>2. /\ UNCHANGED <<clock, pointer, lock, op, who, copy, issued, closed, lapsed,
                     misdirected>>
      /\ pc' = [pc EXCEPT ![p] = "point"] /\ pc[p] = "create"
  BY Zenon DEF NewSession, Goto
<1>3. PICK i \in Ids \ used : /\ live' = live \union {i} /\ used' = used \union {i}
                              /\ sid' = [sid EXCEPT ![p] = i]
                              /\ \A j \in used : sess'[j] = sess[j]
  BY <1>1, Zenon DEF NewSession
<1>4. SameSessions /\ OthersStill(p)
  BY <1>1, <1>2, <1>3, ShapeCreate, Zenon DEF OthersStill
<1>5. ASSUME GuardedAt(who[p])
      PROVE  /\ LocalOK(p)' /\ Shut(who[p])'
             /\ who[p] \notin misdirected' => Owned(who[p])'
  <2>1. /\ LocalOK(p) /\ Shut(who[p])
        /\ who[p] \notin misdirected => Owned(who[p])
    BY <1>2, <1>5, HolderKnows, Zenon DEF Critical
  <2>2. LocalOK(p)'
    BY <1>1, <1>2, <2>1, Zenon DEF LocalOK
  <2>3. \A j \in used : InForce(j)' = InForce(j) /\ sess'[j].user = sess[j].user
    BY <1>2, <1>3, Zenon DEF InForce
  <2> QED
    BY <1>1, <1>2, <2>1, <2>2, <2>3, Zenon DEF Shut, Owned
<1>6. /\ \A j \in used : sess[j].user # who[p] => (j \in live' <=> j \in live)
      /\ \A j \in issued' : sess'[j].user # who[p] => j \in issued
      /\ \A j \in closed' : sess'[j].user # who[p] => j \in closed
  BY <1>2, <1>3, Zenon
<1> QED
  BY <1>2, <1>4, <1>5, <1>6, GuardedStep, Zenon DEF Critical

\* Renew under the lock recreates no session that was in force.
LEMMA GuardedRenew ==
  ASSUME Shape, Shape', Guarded, NEW p \in Requests, Reload(p) \/ Update(p)
  PROVE  Guarded'
<1>1. /\ pc \in [Requests -> Places] /\ copy \in [Requests -> Session] /\ ReqOK(p)
      /\ issued \subseteq used /\ closed \subseteq used
      /\ sess \in [Ids -> Session] /\ used \subseteq Ids
  BY Zenon DEF Shape, TypeOK
<1>2. /\ UNCHANGED <<clock, pointer, lock, op, who, sid, histVars>>
      /\ pc[p] \in {"reload", "update"}
  BY Zenon DEF Reload, Update, redisVars
<1>3. SameSessions
  BY ShapeRenew, Zenon
<1>4. /\ OthersStill(p) /\ sid[p] \in used /\ sess[sid[p]].user = who[p]
      /\ live' = live \/ live' = live \union {sid[p]}
  BY <1>1, <1>2, Zenon DEF Reload, Update, Goto, OthersStill, ReqOK, Targets,
     redisVars
<1>5. ASSUME GuardedAt(who[p])
      PROVE  /\ LocalOK(p)' /\ Shut(who[p])'
             /\ who[p] \notin misdirected' => Owned(who[p])'
  <2>1. /\ LocalOK(p) /\ Shut(who[p])
        /\ who[p] \notin misdirected => Owned(who[p])
    BY <1>2, <1>5, HolderKnows, Zenon DEF Critical
  <2>2. LocalOK(p)'
    <3>1. CASE Reload(p)
      <4>1. \/ pc' = [pc EXCEPT ![p] = "update"] /\ sid[p] \in live
            \/ pc' = [pc EXCEPT ![p] = "release"]
        BY <3>1, Zenon DEF Reload, Goto
      <4>2. live' = live
        BY <3>1, Zenon DEF Reload, redisVars
      <4> QED
        BY <1>1, <1>2, <4>1, <4>2, Zenon DEF LocalOK
    <3>2. CASE Update(p)
      <4>1. pc' = [pc EXCEPT ![p] = "release"]
        BY <3>2, Zenon DEF Update, Goto
      <4> QED
        BY <1>1, <4>1, Zenon DEF LocalOK
    <3> QED
      BY <3>1, <3>2, Zenon
  <2>3. ASSUME NEW i \in used, InForce(i)' PROVE InForce(i)
    <3>1. sess'[i].max = sess[i].max
      BY <1>3, Zenon DEF SameSessions
    <3>2. CASE i \in live
      BY <1>2, <2>3, <3>1, <3>2, Zenon DEF InForce
    <3>3. CASE i \notin live
      <4>1. i = sid[p] /\ Update(p)
        BY <1>4, <2>3, <3>3, Zenon DEF InForce, Reload, redisVars
      <4>2. pc[p] = "update"
        BY <4>1, Zenon DEF Update
      <4>3. sess[i].max >= clock => i \in live
        BY <2>1, <4>1, <4>2, Zenon DEF LocalOK
      <4> QED
        BY <1>2, <2>3, <3>1, <3>3, <4>3, Zenon DEF InForce
    <3> QED
      BY <3>2, <3>3, Zenon
  <2>4. \A i \in used : sess'[i].user = sess[i].user
    BY <1>3, Zenon DEF SameSessions
  <2> QED
    BY <1>1, <1>2, <2>1, <2>2, <2>3, <2>4, Zenon DEF Shut, Owned, histVars
<1>6. /\ \A i \in used : sess[i].user # who[p] => (i \in live' <=> i \in live)
      /\ UNCHANGED <<issued, closed, misdirected, lapsed>>
  BY <1>2, <1>4, Zenon DEF histVars
<1> QED
  BY <1>2, <1>3, <1>4, <1>5, <1>6, GuardedStep, Zenon DEF Critical

\* revoke: the session goes first, the user key after it.
LEMMA GuardedRevoke ==
  ASSUME Shape, Shape', Guarded, NEW p \in Requests,
         \/ RevokeLoad(p) \/ RevokeDelete(p) \/ RevokeLoadUser(p)
         \/ RevokeDeleteUser(p)
  PROVE  Guarded'
<1>1. /\ pc \in [Requests -> Places] /\ ReqOK(p)
      /\ pointer \in [Users -> Ids \union {None}]
      /\ pc[p] \in {"rload", "rdel", "uload", "udel"} /\ closed \subseteq used
  BY Zenon DEF Shape, TypeOK, RevokeLoad, RevokeDelete, RevokeLoadUser,
     RevokeDeleteUser
<1>2. /\ sid[p] \in used /\ sess[sid[p]].user = who[p] /\ who[p] \in Users
      /\ op[p] \in {"new", "revoke"}
  BY <1>1, Zenon DEF ReqOK, Targets
<1>3. /\ UNCHANGED <<clock, sess, lock, op, who, sid, copy, used, issued, lapsed>>
      /\ live' = live \/ live' = live \ {sid[p]}
  BY Zenon DEF RevokeLoad, RevokeDelete, RevokeLoadUser, RevokeDeleteUser,
     redisVars
<1>4. SameSessions
  BY <1>3, Zenon DEF SameSessions
<1>5. \/ UNCHANGED <<pointer, misdirected>>
      \/ /\ RevokeDeleteUser(p)
         /\ pointer' = [pointer EXCEPT ![who[p]] = None]
         /\ misdirected \subseteq misdirected'
  BY Zenon DEF RevokeLoad, RevokeDelete, RevokeLoadUser, RevokeDeleteUser,
     redisVars
\* where the step goes, and what is reported closed
<1> DEFINE place == pc'[p]
<1>6. ASSUME NEW x, Goto(p, x)
      PROVE  place = x /\ pc' = [pc EXCEPT ![p] = place]
  BY <1>1, <1>6, Zenon DEF Goto
<1>7. pc'[p] = place
  BY Zenon
<1> HIDE DEF place
<1>6a. ASSUME NotFound(p)
       PROVE  /\ pc' = [pc EXCEPT ![p] = place]
              /\ \/ place = "drop" /\ op[p] = "new" /\ closed' = closed
                 \/ place = "release" /\ closed' = closed \union {sid[p]}
  <2>1. CASE op[p] = "new" /\ Goto(p, "drop") /\ closed' = closed
    BY <1>6, <2>1, Zenon
  <2>2. CASE Goto(p, "release") /\ closed' = closed \union {sid[p]}
    BY <1>6, <2>2, Zenon
  <2> QED
    BY <1>6a, <2>1, <2>2, Zenon DEF NotFound
<1>8. /\ pc' = [pc EXCEPT ![p] = place]
      /\ place \in {"rdel", "uload", "udel", "drop", "create", "release"}
      /\ closed' = closed \/ (closed' = closed \union {sid[p]} /\ place = "release")
      /\ place = "uload" => sid[p] \notin live'
      /\ place = "udel" => pc[p] = "uload" /\ live' = live
      /\ place \in {"drop", "release"} => \/ pc[p] \in {"uload", "udel"}
                                         \/ sid[p] \notin live
      /\ place = "create" => pointer' = [pointer EXCEPT ![who[p]] = None]
      /\ place \in {"drop", "create"} => op[p] = "new"
  <2>1. CASE RevokeLoad(p)
    <3>1. CASE sid[p] \in live
      <4>1. Goto(p, "rdel") /\ closed' = closed
        BY <2>1, <3>1, Zenon DEF RevokeLoad
      <4> QED
        BY <1>6, <4>1
    <3>2. CASE sid[p] \notin live
      <4>1. NotFound(p)
        BY <2>1, <3>2, Zenon DEF RevokeLoad
      <4> QED
        BY <1>6a, <3>2, <4>1, Zenon
    <3> QED
      BY <3>1, <3>2, Zenon
  <2>2. CASE RevokeDelete(p)
    <3>0. live' = live \ {sid[p]}
      BY <2>2, Zenon DEF RevokeDelete
    <3>1. CASE sid[p] \in live
      <4>1. Goto(p, "uload") /\ closed' = closed
        BY <2>2, <3>1, Zenon DEF RevokeDelete
      <4> QED
        BY <1>6, <3>0, <4>1
    <3>2. CASE sid[p] \notin live
      <4>1. NotFound(p)
        BY <2>2, <3>2, Zenon DEF RevokeDelete
      <4> QED
        BY <1>6a, <3>2, <4>1, Zenon
    <3> QED
      BY <3>1, <3>2, Zenon
  <2>3. CASE RevokeLoadUser(p)
    <3>0. pc[p] = "uload" /\ live' = live
      BY <2>3, Zenon DEF RevokeLoadUser, redisVars
    <3>1. CASE pointer[who[p]] # None
      <4>1. Goto(p, "udel") /\ closed' = closed
        BY <2>3, <3>1, Zenon DEF RevokeLoadUser
      <4> QED
        BY <1>6, <3>0, <4>1
    <3>2. CASE pointer[who[p]] = None
      <4>1. NotFound(p)
        BY <2>3, <3>2, Zenon DEF RevokeLoadUser
      <4> QED
        BY <1>6a, <3>0, <4>1, Zenon
    <3> QED
      BY <3>1, <3>2, Zenon
  <2>4. CASE RevokeDeleteUser(p)
    <3>0. pc[p] = "udel" /\ pointer' = [pointer EXCEPT ![who[p]] = None]
      BY <2>4, Zenon DEF RevokeDeleteUser
    <3>1. \/ NotFound(p)
          \/ op[p] = "new" /\ Goto(p, "create") /\ closed' = closed
          \/ Goto(p, "release") /\ closed' = closed \union {sid[p]}
      BY <2>4, Zenon DEF RevokeDeleteUser
    <3>2. CASE NotFound(p)
      BY <1>6a, <3>0, <3>2, Zenon
    <3>3. CASE op[p] = "new" /\ Goto(p, "create") /\ closed' = closed
      BY <1>6, <3>0, <3>3
    <3>4. CASE Goto(p, "release") /\ closed' = closed \union {sid[p]}
      BY <1>6, <3>0, <3>4
    <3> QED
      BY <3>1, <3>2, <3>3, <3>4, Zenon
  <2> QED
    BY <2>1, <2>2, <2>3, <2>4, Zenon
<1>9. pc'[p] = place /\ OthersStill(p)
  BY <1>1, <1>3, <1>8, <1>7, Zenon DEF OthersStill
<1>10. ASSUME GuardedAt(who[p])
       PROVE  /\ LocalOK(p)' /\ Shut(who[p])'
              /\ who[p] \notin misdirected' => Owned(who[p])'
  <2>1. /\ LocalOK(p) /\ Shut(who[p])
        /\ who[p] \notin misdirected => Owned(who[p])
    BY <1>1, <1>10, HolderKnows, Zenon DEF Critical
  <2>2. pc[p] \in {"uload", "udel"} => sid[p] \notin live
    BY <2>1, Zenon DEF LocalOK
  <2>3. place \in {"drop", "release"} => sid[p] \notin live
    BY <1>8, <2>2, Zenon
  <2>4. place \in {"uload", "udel"} => sid[p] \notin live'
    BY <1>8, <2>2, Zenon
  <2>5. \A i \in used : InForce(i)' => InForce(i)
    BY <1>3, Zenon DEF InForce
  <2>6. Shut(who[p])'
    BY <1>1, <1>3, <1>8, <2>1, <2>3, <2>5, Zenon DEF Shut, InForce
  <2>7. place = "create" => pointer'[who[p]] = None
    BY <1>1, <1>2, <1>8, Zenon
  <2>8. op[p] = "new" => pointer'[who[p]] \in {None, sid[p]}
    <3>1. op[p] = "new" => pointer[who[p]] \in {None, sid[p]}
      BY <1>1, <2>1, Zenon DEF LocalOK
    <3> QED
      BY <1>1, <1>2, <1>5, <3>1, Zenon
  <2>9. LocalOK(p)'
    BY <1>3, <1>8, <1>9, <2>3, <2>4, <2>7, <2>8, Zenon DEF LocalOK
  <2>10. who[p] \notin misdirected' => Owned(who[p])'
    <3>1. CASE UNCHANGED <<pointer, misdirected>>
      <4> SUFFICES ASSUME Owned(who[p]) PROVE Owned(who[p])'
        BY <2>1, <3>1, Zenon
      <4> QED
        BY <1>3, <2>5, <3>1, Zenon DEF Owned, Shape, TypeOK
    <3>2. CASE /\ RevokeDeleteUser(p) /\ misdirected \subseteq misdirected'
               /\ pointer' = [pointer EXCEPT ![who[p]] = None]
      <4> SUFFICES ASSUME who[p] \notin misdirected', Owned(who[p]),
                          NEW i \in issued, sess[i].user = who[p], InForce(i)'
                   PROVE  FALSE
        BY <1>3, <2>1, <3>2, Zenon DEF Owned
      <4>1. i \in used /\ InForce(i) /\ i # None
        BY <2>5, SessionsAssumption, Zenon DEF Shape, TypeOK
      <4>2. pointer[who[p]] = i /\ i \in live
        BY <4>1, Zenon DEF Owned, InForce
      <4>3. sid[p] \notin live
        BY <2>2, <3>2, Zenon DEF RevokeDeleteUser
      <4>4. pointer[who[p]] \in {None, sid[p]}
        BY <3>2, Zenon DEF RevokeDeleteUser
      <4> QED
        BY <4>1, <4>2, <4>3, <4>4, Zenon
    <3> QED
      BY <1>5, <3>1, <3>2, Zenon
  <2> QED
    BY <2>6, <2>9, <2>10, Zenon
<1>11. /\ \A u \in Users \ {who[p]} : pointer'[u] = pointer[u]
       /\ \A i \in used : sess[i].user # who[p] => (i \in live' <=> i \in live)
       /\ \A i \in closed' : sess'[i].user # who[p] => i \in closed
       /\ misdirected \subseteq misdirected'
  BY <1>1, <1>2, <1>3, <1>5, <1>8, Zenon
<1> QED
  BY <1>1, <1>3, <1>4, <1>9, <1>10, <1>11, GuardedStep, Zenon DEF Critical

LEMMA GuardedAlways == Spec => []Guarded
<1>1. Init => Guarded
  <2> SUFFICES ASSUME Init PROVE Guarded
    BY Zenon
  <2> QED
    BY Zenon DEF Init, Guarded, GuardedAt, Excl, Shut, Owned, Holds, Critical
<1>2. Shape /\ Shape' /\ Guarded /\ [Next]_vars => Guarded'
  <2> SUFFICES ASSUME Shape, Shape', Guarded, [Next]_vars PROVE Guarded'
    BY Zenon
  <2>1. CASE UNCHANGED vars
    <3> USE <2>1 DEF vars, redisVars, reqVars, histVars
    <3>1. \A i : InForce(i)' = InForce(i)
      BY Zenon DEF InForce
    <3>2. \A p, u : Holds(p, u)' = Holds(p, u)
      BY Zenon DEF Holds
    <3>3. \A p : LocalOK(p)' = LocalOK(p)
      BY Zenon DEF LocalOK
    <3>4. \A u : GuardedAt(u) => GuardedAt(u)'
      BY <3>1, <3>2, <3>3, Zenon DEF GuardedAt, Excl, Shut, Owned
    <3> QED
      BY <3>4, Zenon DEF Guarded
  <2> QED
    BY <2>1, GuardedEnvironment, GuardedLock, GuardedAcquire, GuardedNew,
       GuardedCreate, GuardedRenew, GuardedRevoke, Zenon DEF Next, Step, Fault
<1> QED
  BY <1>1, <1>2, ShapeAlways, PTL DEF Spec

\* Expiration is capped by MaxTime: what passes Get is in force.
LEMMA ActiveInForce ==
  ASSUME Shape, NEW i \in used, Active(i)
  PROVE  InForce(i) /\ sess[i].user \in Users
<1>1. /\ sess[i] \in Session /\ clock \in 0..Horizon
      /\ sess[i].exp <= sess[i].max /\ sess[i].user \in Users
  BY Zenon DEF Shape, TypeOK, SessOK
<1>2. clock \in Nat /\ sess[i].exp \in Nat /\ sess[i].max \in Nat
  <2>1. clock \in Nat
    BY <1>1, SessionsAssumption
  <2> QED
    BY <1>1, <2>1, Zenon DEF Session
<1> QED
  BY <1>1, <1>2 DEF Active, InForce

\* sessions.go New: "only one active session per user", for every user whose
\* lock's TTL never ran out under a live holder and whose user key was never
\* deleted for another session.
THEOREM OneSession == Spec => []OneSessionWhileLocked
<1>1. Shape /\ Guarded => OneSessionWhileLocked
  <2> SUFFICES ASSUME Shape, Guarded, NEW i \in issued, NEW j \in issued,
                      Active(i), Active(j), sess[i].user = sess[j].user,
                      sess[i].user \notin lapsed \union misdirected
               PROVE  i = j
    BY Zenon DEF OneSessionWhileLocked
  <2>1. i \in used /\ j \in used
    BY Zenon DEF Shape, TypeOK
  <2>2. InForce(i) /\ InForce(j) /\ sess[i].user \in Users
    BY <2>1, ActiveInForce, Zenon
  <2>3. Owned(sess[i].user)
    BY <2>2, Zenon DEF Guarded, GuardedAt
  <2> QED
    BY <2>2, <2>3, Zenon DEF Owned
<1> QED
  BY <1>1, ShapeAlways, GuardedAlways, PTL

\* sessions.go Revoke: a session reported closed never passes Get again, for
\* every user whose lock's TTL never ran out under a live holder.
THEOREM ClosedForGood == Spec => []ClosedStaysClosed
<1>1. Shape /\ Guarded => ClosedStaysClosed
  <2> SUFFICES ASSUME Shape, Guarded, NEW i \in closed,
                      sess[i].user \notin lapsed, Active(i)
               PROVE  FALSE
    BY Zenon DEF ClosedStaysClosed
  <2>1. i \in used
    BY Zenon DEF Shape, TypeOK, Active
  <2>2. InForce(i) /\ sess[i].user \in Users
    BY <2>1, ActiveInForce, Zenon
  <2>3. Shut(sess[i].user)
    BY <2>2, Zenon DEF Guarded, GuardedAt
  <2> QED
    BY <2>2, <2>3, Zenon DEF Shut
<1> QED
  BY <1>1, ShapeAlways, GuardedAlways, PTL
=============================================================================
