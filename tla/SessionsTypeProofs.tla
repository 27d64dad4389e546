------------------------- MODULE SessionsTypeProofs -------------------------
(***************************************************************************)
(* Type correctness of the sessions service, with the shape of the         *)
(* requests and of the stored sessions that it rests on.                   *)
(***************************************************************************)
EXTENDS Sessions, TLAPS

-----------------------------------------------------------------------------
(* Type correctness, with the shape of the requests that it rests on.        *)

PointersOK ==
  \A u \in Users : pointer[u] # None =>
    pointer[u] \in used /\ sess[pointer[u]].user = u

SessOK ==
  \A i \in used : sess[i].user \in Users /\ sess[i].exp <= sess[i].max

\* The request works on a session of its user.
Targets(p) ==
  \/ pc[p] \in {"rload", "rdel", "uload", "udel", "drop", "point"}
  \/ op[p] \in {"renew", "revoke"}

ReqOK(p) ==
  /\ pc[p] # "idle" => who[p] \in Users /\ op[p] \in {"new", "renew", "revoke"}
  /\ pc[p] = "idle" => op[p] = "none"
  /\ Targets(p) => sid[p] \in used /\ sess[sid[p]].user = who[p]
  /\ pc[p] \in {"load", "drop", "create", "point"} => op[p] = "new"
  /\ pc[p] \in {"reload", "update"} => op[p] = "renew"
  /\ pc[p] \in {"rload", "rdel", "uload", "udel"} => op[p] \in {"new", "revoke"}
  /\ pc[p] = "update" => /\ copy[p].user = who[p]
                         /\ copy[p].max = sess[sid[p]].max
                         /\ copy[p].exp <= copy[p].max

Shape ==
  /\ TypeOK /\ PointersOK /\ SessOK /\ closed \subseteq used
  /\ \A p \in Requests : ReqOK(p)

\* A session keeps its user and its MaxTime for ever.
SameSessions ==
  /\ used \subseteq used'
  /\ \A i \in used : sess'[i].user = sess[i].user /\ sess'[i].max = sess[i].max

\* The other requests stand still.
OthersStill(p) ==
  \A q \in Requests \ {p} : /\ pc'[q] = pc[q] /\ op'[q] = op[q]
                            /\ who'[q] = who[q] /\ sid'[q] = sid[q]
                            /\ copy'[q] = copy[q]

LEMMA ReqFrame ==
  ASSUME SameSessions, NEW q, ReqOK(q),
         pc'[q] = pc[q], op'[q] = op[q], who'[q] = who[q], sid'[q] = sid[q],
         copy'[q] = copy[q]
  PROVE  ReqOK(q)'
<1>1. Targets(q)' = Targets(q)
  BY Zenon DEF Targets
<1>2. pc[q] = "update" => Targets(q)
  BY Zenon DEF ReqOK, Targets
<1> QED
  BY <1>1, <1>2, Zenon DEF ReqOK, SameSessions

LEMMA ShapeOthers ==
  ASSUME Shape, SameSessions, NEW p \in Requests, OthersStill(p), ReqOK(p)'
  PROVE  \A q \in Requests : ReqOK(q)'
<1> SUFFICES ASSUME NEW q \in Requests, q # p PROVE ReqOK(q)'
  BY Zenon
<1> QED
  BY ReqFrame, Zenon DEF Shape, OthersStill

\* Steps that touch no session: the user keys and the requests remain.
LEMMA QuietSessions ==
  ASSUME Shape, UNCHANGED <<sess, used>>
  PROVE  SameSessions /\ SessOK'
BY Zenon DEF Shape, SameSessions, SessOK

-----------------------------------------------------------------------------
LEMMA ShapeInit == Init => Shape
<1> SUFFICES ASSUME Init PROVE Shape
  BY Zenon
<1>1. TypeOK
  BY SessionsAssumption DEF Init, TypeOK, Session, NoSession, Places
<1>2. \A p \in Requests : ReqOK(p)
  BY Zenon DEF Init, ReqOK, Targets
<1> QED
  BY <1>1, <1>2, Zenon DEF Shape, Init, PointersOK, SessOK

\* The environment: time, TTLs, Revoke of a missing session.
LEMMA ShapeEnvironment ==
  ASSUME Shape,
         \/ Tick
         \/ \E i \in Ids : ExpireSession(i) \/ RevokeNotFound(i)
         \/ \E u \in Users : ExpireUser(u) \/ LockExpires(u)
  PROVE  Shape'
<1>1. UNCHANGED <<sess, used, issued, reqVars, misdirected>>
  BY Zenon DEF Tick, ExpireSession, RevokeNotFound, ExpireUser, LockExpires,
     redisVars, histVars
<1>2. SameSessions /\ SessOK'
  BY <1>1, QuietSessions, Zenon
<1>3. \A p \in Requests : ReqOK(p)'
  BY <1>1, <1>2, ReqFrame, Zenon DEF Shape, reqVars
<1>4. CASE Tick
  BY <1>1, <1>2, <1>3, <1>4, SessionsAssumption
  DEF Tick, Shape, TypeOK, redisVars, histVars, reqVars, PointersOK
<1>5. ASSUME NEW i \in Ids, ExpireSession(i) PROVE Shape'
  BY <1>1, <1>2, <1>3, <1>5, Zenon
  DEF ExpireSession, Shape, TypeOK, histVars, reqVars, PointersOK
<1>6. ASSUME NEW i \in Ids, RevokeNotFound(i) PROVE Shape'
  <2>1. i \in used
    BY <1>6 DEF RevokeNotFound, Known, Shape, TypeOK, PointersOK
  <2> QED
    BY <1>1, <1>2, <1>3, <1>6, <2>1, Zenon
    DEF RevokeNotFound, Shape, TypeOK, redisVars, reqVars, PointersOK
<1>7. ASSUME NEW u \in Users, ExpireUser(u) PROVE Shape'
  BY <1>1, <1>2, <1>3, <1>7, Zenon
  DEF ExpireUser, Shape, TypeOK, histVars, reqVars, PointersOK
<1>8. ASSUME NEW u \in Users, LockExpires(u) PROVE Shape'
  <2>1. lapsed' \subseteq Users /\ lock' \in [Users -> BOOLEAN]
    BY <1>8 DEF LockExpires, Shape, TypeOK
  <2> QED
    BY <1>1, <1>2, <1>3, <1>8, <2>1, Zenon
    DEF LockExpires, Shape, TypeOK, reqVars, PointersOK
<1> QED
  BY <1>4, <1>5, <1>6, <1>7, <1>8, Zenon

\* A step of request p that changes neither sessions nor user keys.
LEMMA ShapeMoves ==
  ASSUME Shape, NEW p \in Requests, OthersStill(p), ReqOK(p)',
         UNCHANGED <<clock, sess, pointer, used, issued, lapsed>>,
         live' \subseteq live, closed' \subseteq used, misdirected' \subseteq Users,
         lock' \in [Users -> BOOLEAN],
         pc' \in [Requests -> Places],
         op' \in [Requests -> {"new", "renew", "revoke", "none"}],
         who' \in [Requests -> Users \union {None}],
         sid' \in [Requests -> Ids \union {None}],
         at' \in [Requests -> Nat], copy' \in [Requests -> Session]
  PROVE  Shape'
<1>1. SameSessions /\ SessOK'
  BY QuietSessions, Zenon
<1>2. \A q \in Requests : ReqOK(q)'
  BY <1>1, ShapeOthers, Zenon
<1>3. TypeOK' /\ PointersOK'
  BY Zenon DEF Shape, TypeOK, PointersOK
<1> QED
  BY <1>1, <1>2, <1>3, Zenon DEF Shape

LEMMA ShapeArrive ==
  ASSUME Shape, NEW p \in Requests, Arrive(p)
  PROVE  Shape'
<1>1. ASSUME NEW o \in {"new", "renew", "revoke"}, NEW u \in Users,
             NEW i \in Ids \union {None}, Begin(p, o, u, i),
             o # "new" => i \in used /\ sess[i].user = u
      PROVE  Shape'
  <2>1. /\ UNCHANGED <<clock, redisVars, copy, histVars>>
        /\ pc' = [pc EXCEPT ![p] = "lock"] /\ op' = [op EXCEPT ![p] = o]
        /\ who' = [who EXCEPT ![p] = u] /\ sid' = [sid EXCEPT ![p] = i]
        /\ at' = [at EXCEPT ![p] = clock]
    BY <1>1, Zenon DEF Begin, Goto
  <2>2. /\ pc \in [Requests -> Places] /\ who \in [Requests -> Users \union {None}]
        /\ op \in [Requests -> {"new", "renew", "revoke", "none"}]
        /\ sid \in [Requests -> Ids \union {None}] /\ at \in [Requests -> Nat]
        /\ clock \in Nat /\ copy \in [Requests -> Session]
    BY SessionsAssumption DEF Shape, TypeOK
  <2>3. OthersStill(p)
    BY <2>1, <2>2, Zenon DEF OthersStill
  <2>4. ReqOK(p)'
    BY <1>1, <2>1, <2>2, Zenon DEF ReqOK, Targets, redisVars, histVars
  <2>5. /\ pc' \in [Requests -> Places] /\ who' \in [Requests -> Users \union {None}]
        /\ op' \in [Requests -> {"new", "renew", "revoke", "none"}]
        /\ sid' \in [Requests -> Ids \union {None}] /\ at' \in [Requests -> Nat]
    BY <2>1, <2>2, Zenon DEF Places
  <2> QED
    BY <2>1, <2>2, <2>3, <2>4, <2>5, ShapeMoves, Zenon
    DEF redisVars, histVars, Shape, TypeOK
<1>2. ASSUME NEW u \in Users, New(p, u) PROVE Shape'
  BY <1>1, <1>2, Zenon DEF New
<1>3. ASSUME NEW i \in Ids, Renew(p, i) \/ Revoke(p, i) PROVE Shape'
  <2>1. i \in used /\ sess[i].user \in Users
    BY <1>3, Zenon DEF Renew, Revoke, Shape, TypeOK, SessOK
  <2> QED
    BY <1>1, <1>3, <2>1, Zenon DEF Renew, Revoke
<1> QED
  BY <1>2, <1>3, Zenon DEF Arrive

LEMMA ShapeEnd ==
  ASSUME Shape, NEW p \in Requests, End(p), lock' \in [Users -> BOOLEAN],
         UNCHANGED <<clock, live, sess, pointer, histVars>>
  PROVE  Shape'
<1>1. /\ pc' = [pc EXCEPT ![p] = "idle"] /\ op' = [op EXCEPT ![p] = "none"]
      /\ who' = [who EXCEPT ![p] = None] /\ sid' = [sid EXCEPT ![p] = None]
      /\ at' = [at EXCEPT ![p] = 0] /\ copy' = [copy EXCEPT ![p] = NoSession]
  BY Zenon DEF End, Goto
<1>2. /\ pc \in [Requests -> Places] /\ who \in [Requests -> Users \union {None}]
      /\ op \in [Requests -> {"new", "renew", "revoke", "none"}]
      /\ sid \in [Requests -> Ids \union {None}] /\ at \in [Requests -> Nat]
      /\ copy \in [Requests -> Session] /\ NoSession \in Session
  BY Zenon DEF Shape, TypeOK, NoSession, Session
<1>3. OthersStill(p)
  BY <1>1, <1>2, Zenon DEF OthersStill
<1>4. ReqOK(p)'
  BY <1>1, <1>2, Zenon DEF ReqOK, Targets
<1>5. /\ pc' \in [Requests -> Places] /\ who' \in [Requests -> Users \union {None}]
      /\ op' \in [Requests -> {"new", "renew", "revoke", "none"}]
      /\ sid' \in [Requests -> Ids \union {None}] /\ at' \in [Requests -> Nat]
      /\ copy' \in [Requests -> Session]
  BY <1>1, <1>2, Zenon DEF Places
<1> QED
  BY <1>3, <1>4, <1>5, ShapeMoves, Zenon DEF histVars, Shape, TypeOK

\* A step that only moves p on, and perhaps reports a session closed.
LEMMA ShapeGoto ==
  ASSUME Shape, NEW p \in Requests, NEW place \in Places, Goto(p, place),
         UNCHANGED <<clock, sess, pointer, used, issued, lapsed, op, who, sid, at,
                     copy>>,
         live' \subseteq live, closed' \subseteq used, misdirected' \subseteq Users,
         lock' \in [Users -> BOOLEAN], ReqOK(p)'
  PROVE  Shape'
<1>1. pc' = [pc EXCEPT ![p] = place] /\ pc \in [Requests -> Places]
  BY Zenon DEF Goto, Shape, TypeOK
<1>2. OthersStill(p) /\ pc' \in [Requests -> Places]
  BY <1>1, Zenon DEF OthersStill
<1> QED
  BY <1>2, ShapeMoves, Zenon DEF Shape, TypeOK

LEMMA ShapeLock ==
  ASSUME Shape, NEW p \in Requests,
         \/ Acquire(p) \/ AcquireLost(p) \/ GiveUp(p) \/ Release(p) \/ Abandon(p)
         \/ Fail(p)
  PROVE  Shape'
<1>1. /\ lock \in [Users -> BOOLEAN] /\ pc \in [Requests -> Places]
      /\ closed \subseteq used /\ misdirected \subseteq Users /\ ReqOK(p)
  BY Zenon DEF Shape, TypeOK
<1>2. CASE Acquire(p)
  <2>1. /\ UNCHANGED <<clock, live, sess, pointer, op, who, sid, at, copy, histVars>>
        /\ lock' = [lock EXCEPT ![who[p]] = TRUE] /\ pc[p] = "lock"
    BY <1>2, Zenon DEF Acquire
  <2>2. PICK place \in {"load", "reload", "rload"} :
          /\ pc' = [pc EXCEPT ![p] = place]
          /\ place = "load" => op[p] = "new"
          /\ place = "reload" => op[p] = "renew"
          /\ place = "rload" => op[p] = "revoke"
    BY <1>2, Zenon DEF Acquire, Goto
  <2>3. ReqOK(p)'
    BY <1>1, <2>1, <2>2, Zenon DEF ReqOK, Targets, histVars
  <2> QED
    BY <1>1, <2>1, <2>2, <2>3, ShapeGoto, Zenon DEF Goto, histVars, Places,
       Critical
<1>3. CASE AcquireLost(p) \/ GiveUp(p) \/ Release(p) \/ Abandon(p)
  <2>1. /\ UNCHANGED <<clock, live, sess, pointer, histVars>> /\ End(p)
        /\ lock' \in [Users -> BOOLEAN]
    BY <1>1, <1>3, Zenon DEF AcquireLost, GiveUp, Release, Abandon, redisVars
  <2> QED
    BY <2>1, ShapeEnd, Zenon
<1>4. CASE Fail(p)
  <2>1. /\ UNCHANGED <<clock, redisVars, op, who, sid, at, copy, histVars>>
        /\ pc' = [pc EXCEPT ![p] = "release"] /\ pc[p] \in Critical
    BY <1>4, Zenon DEF Fail, Goto
  <2>2. ReqOK(p)'
    BY <1>1, <2>1, Zenon DEF ReqOK, Targets, histVars, redisVars, Critical
  <2> QED
    BY <1>1, <2>1, <2>2, ShapeGoto, Zenon DEF Goto, histVars, redisVars,
       Places, Critical
<1> QED
  BY <1>2, <1>3, <1>4, Zenon

\* A step of p that writes the user key of its user.
LEMMA ShapePointer ==
  ASSUME Shape, NEW p \in Requests, pc[p] # "idle", NEW place \in Places,
         Goto(p, place), ReqOK(p)',
         NEW i \in Ids \union {None}, pointer' = [pointer EXCEPT ![who[p]] = i],
         i # None => i \in used /\ sess[i].user = who[p],
         UNCHANGED <<clock, live, sess, lock, used, lapsed, op, who, sid, at, copy>>,
         issued' \subseteq used, closed' \subseteq used, misdirected' \subseteq Users
  PROVE  Shape'
<1>1. /\ pc' = [pc EXCEPT ![p] = place] /\ pc \in [Requests -> Places]
      /\ pointer \in [Users -> Ids \union {None}] /\ who[p] \in Users
  BY Zenon DEF Goto, Shape, TypeOK, ReqOK
<1>2. OthersStill(p) /\ pc' \in [Requests -> Places]
  BY <1>1, Zenon DEF OthersStill
<1>3. SameSessions /\ SessOK'
  BY QuietSessions, Zenon
<1>4. \A q \in Requests : ReqOK(q)'
  BY <1>2, <1>3, ShapeOthers, Zenon
<1>5. PointersOK'
  BY <1>1, Zenon DEF Shape, PointersOK
<1>6. pointer' \in [Users -> Ids \union {None}]
  BY <1>1, Zenon
<1>7. TypeOK'
  BY <1>2, <1>6, Zenon DEF Shape, TypeOK
<1> QED
  BY <1>3, <1>4, <1>5, <1>7, Zenon DEF Shape

LEMMA ShapeNew ==
  ASSUME Shape, NEW p \in Requests,
         LoadUser(p) \/ DropUser(p) \/ NewUser(p) \/ NewUserLost(p)
  PROVE  Shape'
<1>1. /\ pc \in [Requests -> Places] /\ ReqOK(p) /\ PointersOK
      /\ pointer \in [Users -> Ids \union {None}]
      /\ sid \in [Requests -> Ids \union {None}]
      /\ lock \in [Users -> BOOLEAN] /\ used \subseteq Ids
      /\ issued \subseteq used /\ closed \subseteq used /\ misdirected \subseteq Users
  BY Zenon DEF Shape, TypeOK
<1>2. CASE LoadUser(p) /\ pointer[who[p]] = None
  <2>1. /\ UNCHANGED <<clock, redisVars, op, who, sid, at, copy, histVars>>
        /\ pc' = [pc EXCEPT ![p] = "create"] /\ pc[p] = "load"
    BY <1>2, Zenon DEF LoadUser, Goto
  <2>2. ReqOK(p)'
    BY <1>1, <2>1, Zenon DEF ReqOK, Targets, histVars, redisVars
  <2> QED
    BY <1>1, <2>1, <2>2, ShapeGoto, Zenon DEF Goto, histVars, redisVars,
       Places, Critical
<1>3. CASE LoadUser(p) /\ pointer[who[p]] # None
  <2>1. /\ UNCHANGED <<clock, redisVars, op, who, at, copy, histVars>>
        /\ pc' = [pc EXCEPT ![p] = "rload"] /\ pc[p] = "load"
        /\ sid' = [sid EXCEPT ![p] = pointer[who[p]]]
    BY <1>3, Zenon DEF LoadUser, Goto
  <2>2. who[p] \in Users /\ op[p] = "new"
    BY <1>1, <2>1, Zenon DEF ReqOK
  <2>3. pointer[who[p]] \in used /\ sess[pointer[who[p]]].user = who[p]
    BY <1>1, <1>3, <2>2, Zenon DEF PointersOK
  <2>4. ReqOK(p)'
    BY <1>1, <2>1, <2>2, <2>3, Zenon DEF ReqOK, Targets, histVars, redisVars
  <2>5. OthersStill(p) /\ pc' \in [Requests -> Places]
    BY <1>1, <2>1, Zenon DEF OthersStill, Places, Critical
  <2>6. sid' \in [Requests -> Ids \union {None}]
    BY <1>1, <2>1, <2>3, Zenon
  <2> QED
    BY <1>1, <2>1, <2>4, <2>5, <2>6, ShapeMoves, Zenon
    DEF histVars, redisVars, Shape, TypeOK
<1>4. CASE DropUser(p) /\ pointer[who[p]] = None
  <2>1. /\ UNCHANGED <<clock, live, sess, lock, pointer, op, who, sid, at, copy,
                       histVars>>
        /\ pc' = [pc EXCEPT ![p] = "release"] /\ pc[p] = "drop"
    BY <1>4, Zenon DEF DropUser, Goto
  <2>2. ReqOK(p)'
    BY <1>1, <2>1, Zenon DEF ReqOK, Targets, histVars
  <2> QED
    BY <1>1, <2>1, <2>2, ShapeGoto, Zenon DEF Goto, histVars, Places, Critical
<1>5. CASE DropUser(p) /\ pointer[who[p]] # None
  <2>1. /\ UNCHANGED <<clock, live, sess, lock, op, who, sid, at, copy, histVars>>
        /\ pc' = [pc EXCEPT ![p] = "create"] /\ pc[p] = "drop"
        /\ pointer' = [pointer EXCEPT ![who[p]] = None]
    BY <1>5, Zenon DEF DropUser, Goto
  <2>2. ReqOK(p)'
    BY <1>1, <2>1, Zenon DEF ReqOK, Targets, histVars
  <2> QED
    BY <1>1, <2>1, <2>2, ShapePointer, Zenon DEF Goto, histVars, Places,
       Critical
<1>6. CASE NewUser(p) \/ NewUserLost(p)
  <2>1. /\ UNCHANGED <<clock, live, sess, lock, op, who, sid, at, copy, used,
                       closed, lapsed, misdirected>>
        /\ pc' = [pc EXCEPT ![p] = "release"] /\ pc[p] = "point"
        /\ pointer' = [pointer EXCEPT ![who[p]] = sid[p]]
        /\ issued' \subseteq issued \union {sid[p]}
    BY <1>6, Zenon DEF NewUser, NewUserLost, Goto, histVars
  <2>2. sid[p] \in used /\ sess[sid[p]].user = who[p]
    BY <1>1, <2>1, Zenon DEF ReqOK, Targets
  <2>3. ReqOK(p)'
    BY <1>1, <2>1, Zenon DEF ReqOK, Targets
  <2> QED
    BY <1>1, <2>1, <2>2, <2>3, ShapePointer, Zenon DEF Goto, Places, Critical
<1> QED
  BY <1>2, <1>3, <1>4, <1>5, <1>6, Zenon

LEMMA ShapeCreate ==
  ASSUME Shape, NEW p \in Requests, NewSession(p)
  PROVE  Shape' /\ SameSessions
<1>1. /\ pc \in [Requests -> Places] /\ ReqOK(p) /\ PointersOK
      /\ sid \in [Requests -> Ids \union {None}] /\ at \in [Requests -> Nat]
      /\ sess \in [Ids -> Session] /\ used \subseteq Ids /\ live \subseteq used
  BY Zenon DEF Shape, TypeOK
<1> DEFINE fresh == [user |-> who[p], max |-> at[p] + MaxTime,
                     renew |-> at[p] + MaxRenewTime, exp |-> at[p] + ExpirationTime]
<1>2. PICK i \in Ids \ used :
        /\ used' = used \union {i} /\ live' = live \union {i}
        /\ sess' = [sess EXCEPT ![i] = fresh]
        /\ sid' = [sid EXCEPT ![p] = i]
  BY Zenon DEF NewSession
<1>3. /\ UNCHANGED <<clock, pointer, lock, op, who, at, copy, issued, closed,
                     lapsed, misdirected>>
      /\ pc' = [pc EXCEPT ![p] = "point"] /\ pc[p] = "create"
  BY Zenon DEF NewSession, Goto
<1>4. who[p] \in Users /\ op[p] = "new" /\ at[p] \in Nat
  BY <1>1, <1>3, Zenon DEF ReqOK
<1>5. /\ fresh \in Session /\ fresh.user = who[p] /\ fresh.exp <= fresh.max
  BY <1>4, SessionsAssumption DEF Session
<1> HIDE DEF fresh
<1>6. sess'[i] = fresh /\ \A j \in used : sess'[j] = sess[j]
  BY <1>1, <1>2, Zenon
<1>7. SameSessions
  BY <1>2, <1>6, Zenon DEF SameSessions
<1>8. SessOK'
  BY <1>2, <1>4, <1>5, <1>6, Zenon DEF Shape, SessOK
<1>9. sid'[p] = i /\ pc'[p] = "point" /\ OthersStill(p)
  BY <1>1, <1>2, <1>3, Zenon DEF OthersStill
<1>10. ReqOK(p)'
  BY <1>2, <1>3, <1>4, <1>5, <1>6, <1>9 DEF ReqOK, Targets
<1>11. \A q \in Requests : ReqOK(q)'
  BY <1>7, <1>9, <1>10, ShapeOthers, Zenon
<1>6a. PointersOK'
  BY <1>1, <1>2, <1>3, <1>6, Zenon DEF PointersOK
<1>13. /\ sess' \in [Ids -> Session] /\ sid' \in [Requests -> Ids \union {None}]
       /\ pc' \in [Requests -> Places]
  BY <1>1, <1>2, <1>3, <1>5, Zenon DEF Places, Critical
<1>14. TypeOK'
  BY <1>2, <1>3, <1>13, Zenon DEF Shape, TypeOK
<1> QED
  BY <1>2, <1>3, <1>7, <1>8, <1>11, <1>6a, <1>14, Zenon DEF Shape

\* What Renew computes keeps the user and MaxTime, and respects MaxTime.
LEMMA RenewedOK ==
  ASSUME NEW s \in Session, NEW t \in Nat
  PROVE  /\ Renewed(s, t) \in Session
         /\ Renewed(s, t).user = s.user /\ Renewed(s, t).max = s.max
         /\ Renewed(s, t).exp <= s.max
<1> DEFINE e == IF t + ExpirationTime > s.max THEN s.max ELSE t + ExpirationTime
           r == IF s.renew + MaxRenewTime > s.max THEN s.max ELSE t + MaxRenewTime
<1>1. s.max \in Nat /\ s.renew \in Nat
  BY Zenon DEF Session
<1>2. e \in Nat /\ e <= s.max /\ r \in Nat
  BY <1>1, SessionsAssumption
<1>3. Renewed(s, t) = [s EXCEPT !.exp = e, !.renew = r]
  BY Zenon DEF Renewed
<1> HIDE DEF e, r
<1>4. [s EXCEPT !.exp = e, !.renew = r] \in Session
  BY <1>2, Zenon DEF Session
<1>5. /\ [s EXCEPT !.exp = e, !.renew = r].user = s.user
      /\ [s EXCEPT !.exp = e, !.renew = r].max = s.max
      /\ [s EXCEPT !.exp = e, !.renew = r].exp = e
  BY Zenon DEF Session
<1> QED
  BY <1>2, <1>3, <1>4, <1>5, Zenon

LEMMA ShapeRenew ==
  ASSUME Shape, NEW p \in Requests, Reload(p) \/ Update(p)
  PROVE  Shape' /\ SameSessions
<1>1. /\ pc \in [Requests -> Places] /\ ReqOK(p) /\ PointersOK
      /\ at \in [Requests -> Nat] /\ copy \in [Requests -> Session]
      /\ sess \in [Ids -> Session] /\ used \subseteq Ids /\ live \subseteq used
      /\ lock \in [Users -> BOOLEAN]
      /\ closed \subseteq used /\ misdirected \subseteq Users
  BY Zenon DEF Shape, TypeOK
<1>2. CASE Reload(p) /\ sid[p] \notin live
  <2>1. /\ UNCHANGED <<clock, redisVars, op, who, sid, at, copy, histVars>>
        /\ pc' = [pc EXCEPT ![p] = "release"] /\ pc[p] = "reload"
    BY <1>2, Zenon DEF Reload, Goto
  <2>2. ReqOK(p)' /\ SameSessions
    BY <1>1, <2>1, Zenon DEF ReqOK, Targets, histVars, redisVars, SameSessions
  <2> QED
    BY <1>1, <2>1, <2>2, ShapeGoto, Zenon DEF Goto, histVars, redisVars,
       Places, Critical
<1>3. CASE Reload(p) /\ sid[p] \in live
  <2>1. /\ UNCHANGED <<clock, redisVars, op, who, sid, at, histVars>>
        /\ pc' = [pc EXCEPT ![p] = "update"] /\ pc[p] = "reload"
        /\ copy' = [copy EXCEPT ![p] = Renewed(sess[sid[p]], at[p])]
    BY <1>3, Zenon DEF Reload, Goto
  <2>2. sid[p] \in Ids /\ sess[sid[p]] \in Session /\ at[p] \in Nat
    BY <1>1, <1>3, Zenon
  <2>3. /\ op[p] = "renew" /\ who[p] \in Users /\ sid[p] \in used
        /\ sess[sid[p]].user = who[p]
    BY <1>1, <2>1, Zenon DEF ReqOK, Targets
  <2>4. /\ copy'[p] \in Session /\ copy'[p].user = who[p]
        /\ copy'[p].max = sess[sid[p]].max /\ copy'[p].exp <= copy'[p].max
    BY <1>1, <2>1, <2>2, <2>3, RenewedOK
  <2>5. pc'[p] = "update"
    BY <1>1, <2>1, Zenon
  <2>6. ReqOK(p)'
    BY <2>1, <2>3, <2>4, <2>5, Zenon DEF ReqOK, Targets, redisVars, histVars
  <2>7. OthersStill(p) /\ pc' \in [Requests -> Places]
    BY <1>1, <2>1, Zenon DEF OthersStill, Places, Critical
  <2>8. copy' \in [Requests -> Session]
    BY <1>1, <2>1, <2>4, Zenon
  <2>9. SameSessions
    BY <2>1, Zenon DEF SameSessions, redisVars, histVars
  <2> QED
    BY <1>1, <2>1, <2>6, <2>7, <2>8, <2>9, ShapeMoves, Zenon
    DEF histVars, redisVars, Shape, TypeOK
<1>4. CASE Update(p)
  <2>1. /\ UNCHANGED <<clock, pointer, lock, op, who, sid, at, copy, histVars>>
        /\ pc' = [pc EXCEPT ![p] = "release"] /\ pc[p] = "update"
        /\ live' = live \union {sid[p]}
        /\ sess' = [sess EXCEPT ![sid[p]] = copy[p]]
    BY <1>4, Zenon DEF Update, Goto
  <2>2. /\ op[p] = "renew" /\ who[p] \in Users /\ sid[p] \in used
        /\ sess[sid[p]].user = who[p] /\ copy[p].user = who[p]
        /\ copy[p].max = sess[sid[p]].max /\ copy[p].exp <= copy[p].max
    BY <1>1, <2>1, Zenon DEF ReqOK, Targets
  <2>3. /\ sess'[sid[p]] = copy[p]
        /\ \A i \in used \ {sid[p]} : sess'[i] = sess[i]
    BY <1>1, <2>1, <2>2, Zenon
  <2>4. SameSessions
    BY <2>1, <2>2, <2>3, Zenon DEF SameSessions, histVars
  <2>5. SessOK'
    BY <2>1, <2>2, <2>3, Zenon DEF SessOK, Shape, histVars
  <2>6. PointersOK'
    BY <1>1, <2>1, <2>4, Zenon DEF PointersOK, SameSessions, histVars
  <2>7. OthersStill(p) /\ pc' \in [Requests -> Places] /\ pc'[p] = "release"
    BY <1>1, <2>1, Zenon DEF OthersStill, Places, Critical
  <2>8. ReqOK(p)'
    BY <2>1, <2>2, <2>3, <2>7, Zenon DEF ReqOK, Targets, histVars
  <2>9. \A q \in Requests : ReqOK(q)'
    BY <2>4, <2>7, <2>8, ShapeOthers, Zenon
  <2>10. sess' \in [Ids -> Session]
    BY <1>1, <2>1, Zenon
  <2>11. TypeOK'
    BY <2>1, <2>2, <2>7, <2>10, Zenon DEF Shape, TypeOK, histVars
  <2> QED
    BY <2>1, <2>4, <2>5, <2>6, <2>9, <2>11, Zenon DEF Shape, histVars
<1> QED
  BY <1>2, <1>3, <1>4, Zenon

\* Where revoke goes on to, and whether it reports the session closed.
RevokeOut(p) ==
  \E place \in {"rdel", "uload", "udel", "drop", "create", "release"} :
    /\ Goto(p, place)
    /\ place \in {"drop", "create"} => op[p] = "new"
    /\ closed' = closed \/ closed' = closed \union {sid[p]}

LEMMA ShapeRevoke ==
  ASSUME Shape, NEW p \in Requests,
         \/ RevokeLoad(p) \/ RevokeDelete(p) \/ RevokeLoadUser(p)
         \/ RevokeDeleteUser(p)
  PROVE  Shape'
<1>1. /\ pc \in [Requests -> Places] /\ ReqOK(p) /\ misdirected \subseteq Users
      /\ pc[p] \in {"rload", "rdel", "uload", "udel"} /\ closed \subseteq used
      /\ lock \in [Users -> BOOLEAN] /\ issued \subseteq used
  BY Zenon DEF Shape, TypeOK, RevokeLoad, RevokeDelete, RevokeLoadUser,
     RevokeDeleteUser
<1>2. /\ sid[p] \in used /\ sess[sid[p]].user = who[p] /\ who[p] \in Users
      /\ op[p] \in {"new", "revoke"}
  BY <1>1, Zenon DEF ReqOK, Targets
<1>3. /\ UNCHANGED <<clock, sess, lock, op, who, sid, at, copy, used, issued, lapsed>>
      /\ live' \subseteq live
  BY Zenon DEF RevokeLoad, RevokeDelete, RevokeLoadUser, RevokeDeleteUser,
     redisVars
<1>4. RevokeOut(p)
  <2>1. NotFound(p) => RevokeOut(p)
    BY Zenon DEF NotFound, RevokeOut
  <2>2. CASE RevokeLoad(p)
    BY <2>1, <2>2, Zenon DEF RevokeLoad, RevokeOut
  <2>3. CASE RevokeDelete(p)
    BY <2>1, <2>3, Zenon DEF RevokeDelete, RevokeOut
  <2>4. CASE RevokeLoadUser(p)
    BY <2>1, <2>4, Zenon DEF RevokeLoadUser, RevokeOut
  <2>5. CASE RevokeDeleteUser(p)
    BY <2>1, <2>5, Zenon DEF RevokeDeleteUser, RevokeOut
  <2> QED
    BY <2>2, <2>3, <2>4, <2>5, Zenon
<1>5. PICK place \in {"rdel", "uload", "udel", "drop", "create", "release"} :
        /\ pc' = [pc EXCEPT ![p] = place]
        /\ place \in {"drop", "create"} => op[p] = "new"
        /\ closed' \subseteq used
  BY <1>1, <1>2, <1>4, Zenon DEF RevokeOut, Goto
<1>6. ReqOK(p)'
  <2>1. pc'[p] = place
    BY <1>1, <1>5, Zenon
  <2> QED
    BY <1>1, <1>2, <1>3, <1>5, <2>1, Zenon DEF ReqOK, Targets
<1>7. CASE ~ RevokeDeleteUser(p)
  <2>1. UNCHANGED <<pointer, misdirected>>
    BY <1>7, Zenon DEF RevokeLoad, RevokeDelete, RevokeLoadUser, redisVars
  <2> QED
    BY <1>1, <1>3, <1>5, <1>6, <2>1, ShapeGoto, Zenon DEF Goto, Places,
       Critical
<1>8. CASE RevokeDeleteUser(p)
  <2>1. /\ pointer' = [pointer EXCEPT ![who[p]] = None] /\ live' = live
        /\ misdirected' \subseteq misdirected \union {who[p]}
    BY <1>8, Zenon DEF RevokeDeleteUser
  <2> QED
    BY <1>1, <1>2, <1>3, <1>5, <1>6, <2>1, ShapePointer, Zenon DEF Goto,
       Places, Critical
<1> QED
  BY <1>7, <1>8, Zenon

LEMMA ShapeAlways == Spec => []Shape
<1>1. Shape /\ [Next]_vars => Shape'
  <2> SUFFICES ASSUME Shape, [Next]_vars PROVE Shape'
    BY Zenon
  <2>1. CASE UNCHANGED vars
    <3>1. SameSessions /\ SessOK'
      BY <2>1, QuietSessions, Zenon DEF vars, redisVars, histVars
    <3>2. \A q \in Requests : ReqOK(q)'
      BY <2>1, <3>1, ReqFrame, Zenon DEF vars, reqVars, Shape
    <3> QED
      BY <2>1, <3>1, <3>2, Zenon
      DEF vars, redisVars, reqVars, histVars, Shape, TypeOK, PointersOK
  <2> QED
    BY <2>1, ShapeEnvironment, ShapeArrive, ShapeLock, ShapeNew, ShapeCreate,
       ShapeRenew, ShapeRevoke, Zenon DEF Next, Step, Fault
<1> QED
  BY <1>1, ShapeInit, PTL DEF Spec

\* Every variable keeps its type: a request that writes a session always has
\* one, whatever was found missing on the way.
THEOREM TypeCorrect == Spec => []TypeOK
<1>1. Shape => TypeOK
  BY Zenon DEF Shape
<1> QED
  BY <1>1, ShapeAlways, PTL

=============================================================================
