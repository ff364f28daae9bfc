----------------------------- MODULE LoginProof -----------------------------
(* Proofs of the safety properties of Login, for every number of users,    *)
(* passwords and concurrent logins and every value of the bounds.          *)
EXTENDS Login, TLAPS

-----------------------------------------------------------------------------
(* Type correctness.                                                       *)

\* What login reads and writes always has the type its column has, and a
\* login that is not idle has a user.
LEMMA TypeInit == Init => TypeOK
BY LoginAssumption, SMT
   DEF Init, TypeOK, Row, Times, Local, History, Absent, Blank, Unseen, NoLock, Steps, Verdicts

\* NULL is a value of locked_until.
LEMMA NoLockIsTime == NoLock \in Times
BY LoginAssumption DEF NoLock, Times

\* The values the handler gives to a login's locals.
LEMMA LocalType ==
  ASSUME TypeOK, NEW l \in Logins
  PROVE  /\ Blank \in Local
         /\ \A u \in Users, p \in Passwords : [Blank EXCEPT !.user = u, !.pw = p] \in Local
         /\ [Blank EXCEPT !.user = loc[l].user] \in Local
         /\ loc[l] \in Local
         /\ [loc[l] EXCEPT !.pw = None, !.hash = None, !.locked = NoLock] \in Local
         /\ [loc[l] EXCEPT !.next = 0, !.until = NoLock] \in Local
<1> USE NoLockIsTime DEF Local
<1>1. Blank \in Local
  BY DEF Blank
<1>2. ASSUME NEW u \in Users, NEW p \in Passwords
      PROVE  [Blank EXCEPT !.user = u, !.pw = p] \in Local
  BY <1>1
<1>3. loc[l] \in Local
  BY DEF TypeOK
<1>4. [Blank EXCEPT !.user = loc[l].user] \in Local
  BY <1>1, <1>3
<1>5. [loc[l] EXCEPT !.pw = None, !.hash = None, !.locked = NoLock] \in Local
  BY <1>3
<1>6. [loc[l] EXCEPT !.next = 0, !.until = NoLock] \in Local
  BY <1>3
<1> QED
  BY <1>1, <1>2, <1>3, <1>4, <1>5, <1>6

\* The rows that the statements write.
LEMMA RowType ==
  /\ \A p \in Passwords : [Absent EXCEPT !.hash = p] \in Row
  /\ \A row \in Row : Cleared(row) \in Row
  /\ \A row \in Row, p \in Passwords : [Cleared(row) EXCEPT !.hash = p] \in Row
  /\ \A row \in Row, n \in Nat, t \in Times : Penalised(row, n, t) \in Row
BY NoLockIsTime DEF Absent, Cleared, Penalised, Row

\* The history of a login keeps its type when it is extended with any row.
LEMMA ExtendedType ==
  ASSUME NEW h \in History, NEW row \in Row, NEW pw, NEW t
  PROVE  Extended(h, row, pw, t) \in History
<1>1. Facts(row, pw, t) \in SUBSET {"match", "miss", "locked"}
  BY Zenon DEF Facts
<1>2. row.locked \in Times
  BY DEF Row
<1> QED
  BY <1>1, <1>2 DEF Extended, History

\* So it does for all logins, when an action changes the table or the clock.
LEMMA ObserveType ==
  ASSUME TypeOK, Observe, users' \in [Users -> Row]
  PROVE  seen' \in [Logins -> History]
<1>1. ASSUME NEW l \in Logins, pc[l] \in Deciding
      PROVE  users'[loc[l].user] \in Row
  BY <1>1 DEF TypeOK, Deciding
<1> QED
  BY <1>1, ExtendedType DEF Observe, TypeOK

LEMMA TypeStep == TypeOK /\ [Next]_vars => TypeOK'
<1> SUFFICES ASSUME TypeOK, [Next]_vars
             PROVE  TypeOK'
  OBVIOUS
<1> USE LoginAssumption
<1>1. CASE UNCHANGED vars
  BY <1>1 DEF TypeOK, vars
<1>2. ASSUME NEW l \in Logins, NEW u \in Users, NEW p \in Passwords, Submit(l, u, p)
      PROVE  TypeOK'
  <2>1. [facts |-> Facts(users[u], p, now), least |-> users[u].locked] \in History
    <3>1. Facts(users[u], p, now) \in SUBSET {"match", "miss", "locked"}
      BY Zenon DEF Facts
    <3> QED
      BY <3>1 DEF TypeOK, Row, History
  <2>2. /\ loc' \in [Logins -> Local]
        /\ loc'[l].user \in Users
        /\ \A k \in Logins \ {l} : loc'[k] = loc[k]
    BY <1>2, LocalType DEF TypeOK, Submit, Blank
  <2>3. seen' \in [Logins -> History]
    BY <1>2, <2>1 DEF TypeOK, Submit
  <2> QED
    BY <1>2, <2>2, <2>3 DEF TypeOK, Submit, Goto, Steps
<1>3. ASSUME NEW l \in Logins, FindForAuth(l)
      PROVE  TypeOK'
  <2> DEFINE row == users[loc[l].user]
  <2>1. row \in Row /\ loc[l] \in Local /\ loc[l].user \in Users
    BY <1>3 DEF TypeOK, FindForAuth
  <2>2. [loc[l] EXCEPT !.hash = row.hash, !.locked = row.locked] \in Local
    BY <2>1 DEF Row, Local
  <2>3. /\ loc' \in [Logins -> Local]
        /\ \A k \in Logins : loc'[k].user = loc[k].user
    <3>1. CASE loc' = loc
      BY <3>1 DEF TypeOK
    <3>2. CASE loc' = [loc EXCEPT ![l] = [loc[l] EXCEPT !.hash = row.hash,
                                                        !.locked = row.locked]]
      BY <2>2, <3>2 DEF TypeOK, Local
    <3> QED
      BY <1>3, <3>1, <3>2 DEF FindForAuth
  <2>4. seen' \in [Logins -> History]
    BY <1>3, NoLockIsTime DEF TypeOK, FindForAuth, StopWatching, Unseen, History
  <2> QED
    BY <1>3, <2>1, <2>3, <2>4 DEF TypeOK, FindForAuth, Goto, Decide, Steps, Verdicts
<1>4. ASSUME NEW l \in Logins, CheckLock(l)
      PROVE  TypeOK'
  <2>1. /\ loc' \in [Logins -> Local]
        /\ \A k \in Logins : loc'[k].user = loc[k].user
    BY <1>4, LocalType DEF TypeOK, CheckLock, Local
  <2>2. seen' \in [Logins -> History]
    BY <1>4, NoLockIsTime DEF TypeOK, CheckLock, StopWatching, Unseen, History
  <2> QED
    BY <1>4, <2>1, <2>2 DEF TypeOK, CheckLock, Goto, Decide, Steps, Verdicts
<1>5. ASSUME NEW l \in Logins, ReadCount(l)
      PROVE  TypeOK'
  <2>1. loc[l] \in Local /\ users[loc[l].user].failed + 1 \in Nat
    BY <1>5 DEF TypeOK, ReadCount, Row
  <2>2. [loc[l] EXCEPT !.next = users[loc[l].user].failed + 1] \in Local
    BY <2>1 DEF Local
  <2>3. /\ loc' \in [Logins -> Local]
        /\ \A k \in Logins : loc'[k].user = loc[k].user
    BY <1>5, <2>2 DEF TypeOK, ReadCount, Local
  <2> QED
    BY <1>5, <2>3 DEF TypeOK, ReadCount, Goto, Steps
<1>6. ASSUME NEW l \in Logins, DecideLock(l)
      PROVE  TypeOK'
  <2>1. loc[l] \in Local /\ LockFor(loc[l].next, now) \in Times
    BY <1>6 DEF TypeOK, DecideLock, LockFor, Times, NoLock
  <2>2. [loc[l] EXCEPT !.until = LockFor(loc[l].next, now)] \in Local
    BY <2>1 DEF Local
  <2>3. /\ loc' \in [Logins -> Local]
        /\ \A k \in Logins : loc'[k].user = loc[k].user
    BY <1>6, <2>2 DEF TypeOK, DecideLock, Local
  <2> QED
    BY <1>6, <2>3 DEF TypeOK, DecideLock, Goto, Steps
<1>7. ASSUME NEW l \in Logins, RecordFailed(l)
      PROVE  TypeOK'
  <2>1. loc[l] \in Local /\ loc[l].user \in Users
    BY <1>7 DEF TypeOK, RecordFailed
  <2>2. users' \in [Users -> Row]
    <3>1. Penalised(users[loc[l].user], loc[l].next, loc[l].until) \in Row
      BY <2>1, RowType DEF TypeOK, Local
    <3> QED
      BY <1>7, <3>1 DEF TypeOK, RecordFailed
  <2>3. seen' \in [Logins -> History]
    BY <1>7, <2>2, ObserveType DEF RecordFailed
  <2>4. /\ loc' \in [Logins -> Local]
        /\ \A k \in Logins : loc'[k].user = loc[k].user
    BY <1>7, LocalType DEF TypeOK, RecordFailed, Local
  <2>5. misses' \in [Users -> Nat]
    BY <1>7 DEF TypeOK, RecordFailed
  <2> QED
    BY <1>7, <2>1, <2>2, <2>3, <2>4, <2>5
       DEF TypeOK, RecordFailed, Goto, Decide, Steps, Verdicts
<1>8. ASSUME NEW l \in Logins, ResetFailed(l)
      PROVE  TypeOK'
  <2>1. users' \in [Users -> Row]
    BY <1>8, RowType DEF TypeOK, ResetFailed
  <2>2. seen' \in [Logins -> History]
    BY <1>8, <2>1, ObserveType DEF ResetFailed
  <2> QED
    BY <1>8, <2>1, <2>2 DEF TypeOK, ResetFailed, Goto, Steps
<1>9. ASSUME NEW l \in Logins, CreateSession(l)
      PROVE  TypeOK'
  BY <1>9 DEF TypeOK, CreateSession, Goto, Decide, Steps, Verdicts
<1>10. ASSUME NEW l \in Logins, WriteAudit(l)
       PROVE  TypeOK'
  BY <1>10 DEF TypeOK, WriteAudit, Goto, Steps
<1>11. ASSUME NEW l \in Logins, StatementFails(l)
       PROVE  TypeOK'
  <2>1. /\ loc' \in [Logins -> Local]
        /\ \A k \in Logins : loc'[k].user = loc[k].user
    BY <1>11, LocalType DEF TypeOK, StatementFails, Local, Blank
  <2>2. seen' \in [Logins -> History]
    BY <1>11, NoLockIsTime DEF TypeOK, StatementFails, StopWatching, Unseen, History
  <2> QED
    BY <1>11, <2>1, <2>2 DEF TypeOK, StatementFails, Goto, Decide, Steps, Verdicts
<1>12. ASSUME NEW l \in Logins, Reply(l)
       PROVE  TypeOK'
  <2>1. /\ loc' \in [Logins -> Local]
        /\ \A k \in Logins \ {l} : loc'[k] = loc[k]
    BY <1>12, LocalType DEF TypeOK, Reply
  <2> QED
    BY <1>12, <2>1 DEF TypeOK, Reply, Goto, Decide, Steps, Verdicts
<1>13. ASSUME NEW u \in Users, NEW p \in Passwords, UserAdd(u, p)
       PROVE  TypeOK'
  <2>1. users' \in [Users -> Row]
    BY <1>13, RowType DEF TypeOK, UserAdd
  <2>2. seen' \in [Logins -> History]
    BY <1>13, <2>1, ObserveType DEF UserAdd
  <2> QED
    BY <1>13, <2>1, <2>2 DEF TypeOK, UserAdd
<1>14. ASSUME NEW u \in Users, NEW p \in Passwords, SetPassword(u, p)
       PROVE  TypeOK'
  <2>1. users' \in [Users -> Row]
    BY <1>14, RowType DEF TypeOK, SetPassword
  <2>2. seen' \in [Logins -> History]
    BY <1>14, <2>1, ObserveType DEF SetPassword
  <2> QED
    BY <1>14, <2>1, <2>2 DEF TypeOK, SetPassword
<1>15. CASE Crash
  <2>1. /\ loc' \in [Logins -> Local]
        /\ seen' \in [Logins -> History]
    BY <1>15, NoLockIsTime DEF Crash, Blank, Local, Unseen, History
  <2> QED
    BY <1>15, <2>1 DEF TypeOK, Crash, Steps, Verdicts
<1>16. CASE Tick
  <2>1. seen' \in [Logins -> History]
    BY <1>16, ObserveType DEF Tick, TypeOK
  <2> QED
    BY <1>16, <2>1 DEF TypeOK, Tick
<1> QED
  BY <1>1, <1>2, <1>3, <1>4, <1>5, <1>6, <1>7, <1>8, <1>9, <1>10, <1>11, <1>12, <1>13,
     <1>14, <1>15, <1>16 DEF Next, Step

\* Type correctness of the login handler and of the users table.
THEOREM LoginTypeCorrect == Spec => []TypeOK
BY TypeInit, TypeStep, PTL DEF Spec

-----------------------------------------------------------------------------
(* The lock and the count.                                                 *)

\* LockMatchesCount with what a record_failed is about to write.
LockInv ==
  /\ LockMatchesCount
  /\ \A l \in Logins :
       /\ pc[l] \in {"decide", "record"} => loc[l].next > 0
       /\ pc[l] = "record" => (loc[l].until # NoLock <=> loc[l].next >= MaxFailed)

\* Rows whose lock and count agree.
Consistent(row) == row.locked # NoLock <=> row.failed > 0 /\ row.failed >= MaxFailed

LEMMA LockInit == Init => LockInv
BY DEF Init, LockInv, LockMatchesCount, Absent

LEMMA LockStep == TypeOK /\ LockInv /\ [Next]_vars => LockInv'
<1> SUFFICES ASSUME TypeOK, LockInv, [Next]_vars
             PROVE  LockInv'
  OBVIOUS
<1> USE LoginAssumption
<1>1. CASE UNCHANGED vars
  BY <1>1 DEF LockInv, LockMatchesCount, vars
<1>2. ASSUME NEW l \in Logins, NEW u \in Users, NEW p \in Passwords, Submit(l, u, p)
      PROVE  LockInv'
  BY <1>2 DEF TypeOK, LockInv, LockMatchesCount, Submit, Goto
<1>3. ASSUME NEW l \in Logins, FindForAuth(l)
      PROVE  LockInv'
  BY <1>3 DEF TypeOK, LockInv, LockMatchesCount, FindForAuth, Goto
<1>4. ASSUME NEW l \in Logins, CheckLock(l)
      PROVE  LockInv'
  BY <1>4 DEF TypeOK, LockInv, LockMatchesCount, CheckLock, Goto
<1>5. ASSUME NEW l \in Logins, ReadCount(l)
      PROVE  LockInv'
  <2>1. /\ users[loc[l].user].failed + 1 > 0
        /\ loc'[l].next = users[loc[l].user].failed + 1
        /\ \A k \in Logins \ {l} : loc'[k] = loc[k] /\ pc'[k] = pc[k]
        /\ pc'[l] = "decide"
    BY <1>5 DEF TypeOK, ReadCount, Goto, Row, Local
  <2> QED
    BY <1>5, <2>1 DEF LockInv, LockMatchesCount, ReadCount
<1>6. ASSUME NEW l \in Logins, DecideLock(l)
      PROVE  LockInv'
  <2>1. /\ loc'[l].next = loc[l].next
        /\ loc'[l].until = LockFor(loc[l].next, now)
        /\ \A k \in Logins \ {l} : loc'[k] = loc[k] /\ pc'[k] = pc[k]
        /\ pc'[l] = "record"
    BY <1>6 DEF TypeOK, DecideLock, Goto, Local
  <2>2. loc'[l].until # NoLock <=> loc[l].next >= MaxFailed
    BY <2>1 DEF LockFor, NoLock, TypeOK
  <2> QED
    BY <1>6, <2>1, <2>2 DEF LockInv, LockMatchesCount, DecideLock
<1>7. ASSUME NEW l \in Logins, RecordFailed(l)
      PROVE  LockInv'
  <2>1. /\ \A k \in Logins \ {l} : loc'[k] = loc[k] /\ pc'[k] = pc[k]
        /\ pc'[l] = "audit"
    BY <1>7 DEF TypeOK, RecordFailed, Goto
  <2>2. ASSUME NEW u \in Users
        PROVE  Consistent(users'[u])
    BY <1>7 DEF TypeOK, Row, LockInv, LockMatchesCount, RecordFailed, Penalised, Consistent
  <2> QED
    BY <2>1, <2>2 DEF LockInv, LockMatchesCount, Consistent
<1>8. ASSUME NEW l \in Logins, ResetFailed(l)
      PROVE  LockInv'
  <2>1. ASSUME NEW u \in Users
        PROVE  Consistent(users'[u])
    BY <1>8 DEF TypeOK, Row, LockInv, LockMatchesCount, ResetFailed, Cleared, Consistent
  <2> QED
    BY <1>8, <2>1 DEF TypeOK, LockInv, LockMatchesCount, ResetFailed, Consistent, Goto
<1>9. ASSUME NEW l \in Logins, CreateSession(l) \/ WriteAudit(l)
      PROVE  LockInv'
  BY <1>9 DEF TypeOK, LockInv, LockMatchesCount, CreateSession, WriteAudit, Goto
<1>10. ASSUME NEW l \in Logins, StatementFails(l) \/ Reply(l)
       PROVE  LockInv'
  <2>1. /\ \A k \in Logins \ {l} : loc'[k] = loc[k] /\ pc'[k] = pc[k]
        /\ pc'[l] \in {"reply", "idle"}
        /\ users' = users
    BY <1>10 DEF TypeOK, StatementFails, Reply, Goto
  <2> QED
    BY <2>1 DEF LockInv, LockMatchesCount
<1>11. ASSUME NEW u \in Users, NEW p \in Passwords, UserAdd(u, p) \/ SetPassword(u, p)
       PROVE  LockInv'
  <2>1. ASSUME NEW v \in Users
        PROVE  Consistent(users'[v])
    <3>1. Consistent(users[v])
      BY DEF LockInv, LockMatchesCount, Consistent
    <3>2. users'[v] = users[v] \/ (users'[v].failed = 0 /\ users'[v].locked = NoLock)
      <4>1. CASE UserAdd(u, p)
        BY <4>1 DEF TypeOK, UserAdd, Absent
      <4>2. CASE SetPassword(u, p)
        BY <4>2 DEF TypeOK, Row, SetPassword, Cleared
      <4> QED
        BY <1>11, <4>1, <4>2
    <3> QED
      BY <3>1, <3>2 DEF Consistent
  <2>2. pc' = pc /\ loc' = loc
    BY <1>11 DEF UserAdd, SetPassword
  <2> QED
    BY <2>1, <2>2 DEF LockInv, LockMatchesCount, Consistent
<1>12. CASE Crash
  BY <1>12 DEF LockInv, LockMatchesCount, Crash
<1>13. CASE Tick
  BY <1>13 DEF LockInv, LockMatchesCount, Tick
<1> QED
  BY <1>1, <1>2, <1>3, <1>4, <1>5, <1>6, <1>7, <1>8, <1>9, <1>10, <1>11, <1>12, <1>13
     DEF Next, Step

\* In every reachable state each account has a lock exactly when its count has
\* reached max_failed_logins.
THEOREM LockAlwaysMatchesCount == Spec => []LockMatchesCount
<1>1. LockInv => LockMatchesCount
  BY DEF LockInv
<1> QED
  BY <1>1, TypeInit, TypeStep, LockInit, LockStep, PTL DEF Spec

-----------------------------------------------------------------------------
(* The length of a freeze.                                                 *)

\* FreezeBounded with the lock a record_failed is about to write.
FreezeInv ==
  /\ FreezeBounded
  /\ \A l \in Logins : loc[l].until <= now + Lockout

LEMMA FreezeInit == Init => FreezeInv
BY LoginAssumption DEF Init, FreezeInv, FreezeBounded, Absent, Blank, NoLock

LEMMA FreezeStep == TypeOK /\ FreezeInv /\ [Next]_vars => FreezeInv'
<1> SUFFICES ASSUME TypeOK, FreezeInv, [Next]_vars
             PROVE  FreezeInv'
  OBVIOUS
<1> USE LoginAssumption
<1>1. now \in Nat /\ NoLock <= now + Lockout
  BY DEF TypeOK, NoLock
<1>2. \A u \in Users : Cleared(users[u]).locked = NoLock
  BY DEF Cleared, TypeOK, Row
<1>3. \A l \in Logins : loc[l] \in Local
  BY DEF TypeOK
<1>4. CASE UNCHANGED vars
  BY <1>4 DEF FreezeInv, FreezeBounded, vars
<1>5. ASSUME NEW l \in Logins, NEW u \in Users, NEW p \in Passwords, Submit(l, u, p)
      PROVE  FreezeInv'
  BY <1>1, <1>5 DEF TypeOK, FreezeInv, FreezeBounded, Submit, Blank
<1>6. ASSUME NEW l \in Logins, FindForAuth(l) \/ CheckLock(l) \/ ReadCount(l)
      PROVE  FreezeInv'
  <2>1. \A k \in Logins : loc'[k].until = loc[k].until
    <3>1. CASE FindForAuth(l)
      <4>1. loc' = loc \/ loc' = [loc EXCEPT ![l] = [loc[l] EXCEPT
                 !.hash = users[loc[l].user].hash, !.locked = users[loc[l].user].locked]]
        BY <3>1 DEF FindForAuth
      <4>2. [loc[l] EXCEPT !.hash = users[loc[l].user].hash,
                           !.locked = users[loc[l].user].locked].until = loc[l].until
        BY <1>3 DEF Local
      <4> QED
        BY <4>1, <4>2 DEF TypeOK
    <3>2. CASE CheckLock(l)
      BY <1>3, <3>2 DEF TypeOK, CheckLock, Local
    <3>3. CASE ReadCount(l)
      BY <1>3, <3>3 DEF TypeOK, ReadCount, Local
    <3> QED
      BY <1>6, <3>1, <3>2, <3>3
  <2> QED
    BY <1>6, <2>1 DEF FreezeInv, FreezeBounded, FindForAuth, CheckLock, ReadCount
<1>7. ASSUME NEW l \in Logins, DecideLock(l)
      PROVE  FreezeInv'
  <2>1. LockFor(loc[l].next, now) <= now + Lockout
    BY <1>1 DEF LockFor, NoLock
  <2>2. /\ loc'[l].until = LockFor(loc[l].next, now)
        /\ \A k \in Logins \ {l} : loc'[k] = loc[k]
    BY <1>3, <1>7 DEF TypeOK, DecideLock, Local
  <2> QED
    BY <1>7, <2>1, <2>2 DEF FreezeInv, FreezeBounded, DecideLock
<1>8. ASSUME NEW l \in Logins, RecordFailed(l)
      PROVE  FreezeInv'
  <2>1. /\ loc'[l].until = NoLock
        /\ \A k \in Logins \ {l} : loc'[k] = loc[k]
    BY <1>3, <1>8 DEF TypeOK, RecordFailed, Local
  <2>2. ASSUME NEW u \in Users
        PROVE  users'[u].locked <= now + Lockout
    BY <1>8 DEF TypeOK, Row, FreezeInv, FreezeBounded, RecordFailed, Penalised
  <2> QED
    BY <1>1, <1>8, <2>1, <2>2 DEF FreezeInv, FreezeBounded, RecordFailed
<1>9. ASSUME NEW l \in Logins, ResetFailed(l)
      PROVE  FreezeInv'
  BY <1>1, <1>2, <1>9 DEF TypeOK, FreezeInv, FreezeBounded, ResetFailed
<1>10. ASSUME NEW l \in Logins, CreateSession(l) \/ WriteAudit(l)
       PROVE  FreezeInv'
  BY <1>10 DEF FreezeInv, FreezeBounded, CreateSession, WriteAudit
<1>11. ASSUME NEW l \in Logins, StatementFails(l) \/ Reply(l)
       PROVE  FreezeInv'
  <2>1. /\ \A k \in Logins \ {l} : loc'[k] = loc[k]
        /\ loc'[l].until = NoLock
    BY <1>11 DEF TypeOK, StatementFails, Reply, Blank
  <2> QED
    BY <1>1, <1>11, <2>1 DEF FreezeInv, FreezeBounded, StatementFails, Reply
<1>12. ASSUME NEW u \in Users, NEW p \in Passwords, UserAdd(u, p) \/ SetPassword(u, p)
       PROVE  FreezeInv'
  <2>1. ASSUME NEW v \in Users
        PROVE  users'[v].locked <= now + Lockout
    <3>1. CASE UserAdd(u, p)
      BY <1>1, <3>1 DEF TypeOK, FreezeInv, FreezeBounded, UserAdd, Absent
    <3>2. CASE SetPassword(u, p)
      BY <1>1, <1>2, <3>2
         DEF TypeOK, Row, FreezeInv, FreezeBounded, SetPassword, Cleared
    <3> QED
      BY <1>12, <3>1, <3>2
  <2> QED
    BY <1>12, <2>1 DEF FreezeInv, FreezeBounded, UserAdd, SetPassword
<1>13. CASE Crash
  BY <1>1, <1>13 DEF FreezeInv, FreezeBounded, Crash, Blank
<1>14. CASE Tick
  BY <1>1, <1>3, <1>14 DEF TypeOK, Row, Local, Times, FreezeInv, FreezeBounded, Tick
<1> QED
  BY <1>4, <1>5, <1>6, <1>7, <1>8, <1>9, <1>10, <1>11, <1>12, <1>13, <1>14 DEF Next, Step

\* No account is ever locked for longer than lockout_minutes from now on.
THEOREM FreezeAlwaysBounded == Spec => []FreezeBounded
<1>1. FreezeInv => FreezeBounded
  BY DEF FreezeInv
<1> QED
  BY <1>1, TypeInit, TypeStep, FreezeInit, FreezeStep, PTL DEF Spec

-----------------------------------------------------------------------------
(* Sessions of logins that fail.                                           *)

\* SessionOnlyIfOk, and the steps at which there is an outcome.
SessionInv ==
  \A l \in Logins :
    /\ session[l] <=> verdict[l] = "ok"
    /\ verdict[l] # "none" => pc[l] \in {"audit", "reply"}

LEMMA SessionInit == Init => SessionInv
BY DEF Init, SessionInv

LEMMA SessionStep == TypeOK /\ SessionInv /\ [Next]_vars => SessionInv'
<1> SUFFICES ASSUME TypeOK, SessionInv, [Next]_vars
             PROVE  SessionInv'
  OBVIOUS
<1>1. CASE UNCHANGED vars
  BY <1>1 DEF SessionInv, vars
<1>2. ASSUME NEW l \in Logins, NEW u \in Users, NEW p \in Passwords, Submit(l, u, p)
      PROVE  SessionInv'
  BY <1>2 DEF TypeOK, SessionInv, Submit, Goto
<1>3. ASSUME NEW l \in Logins, FindForAuth(l) \/ CheckLock(l)
      PROVE  SessionInv'
  BY <1>3 DEF TypeOK, SessionInv, FindForAuth, CheckLock, Goto, Decide
<1>4. ASSUME NEW l \in Logins,
             ReadCount(l) \/ DecideLock(l) \/ RecordFailed(l) \/ ResetFailed(l)
      PROVE  SessionInv'
  BY <1>4 DEF TypeOK, SessionInv, ReadCount, DecideLock, RecordFailed, ResetFailed,
              Goto, Decide
<1>5. ASSUME NEW l \in Logins, CreateSession(l) \/ WriteAudit(l)
      PROVE  SessionInv'
  BY <1>5 DEF TypeOK, SessionInv, CreateSession, WriteAudit, Goto, Decide
<1>6. ASSUME NEW l \in Logins, StatementFails(l) \/ Reply(l)
      PROVE  SessionInv'
  BY <1>6 DEF TypeOK, SessionInv, StatementFails, Reply, Goto, Decide
<1>7. ASSUME NEW u \in Users, NEW p \in Passwords, UserAdd(u, p) \/ SetPassword(u, p)
      PROVE  SessionInv'
  BY <1>7 DEF SessionInv, UserAdd, SetPassword
<1>8. CASE Crash
  BY <1>8 DEF SessionInv, Crash
<1>9. CASE Tick
  BY <1>9 DEF SessionInv, Tick
<1> QED
  BY <1>1, <1>2, <1>3, <1>4, <1>5, <1>6, <1>7, <1>8, <1>9 DEF Next, Step

\* A login has inserted a session exactly when it is answered with a cookie.
THEOREM SessionAlwaysOnlyIfOk == Spec => []SessionOnlyIfOk
<1>1. SessionInv => SessionOnlyIfOk
  BY DEF SessionInv, SessionOnlyIfOk
<1> QED
  BY <1>1, TypeInit, TypeStep, SessionInit, SessionStep, PTL DEF Spec

-----------------------------------------------------------------------------
(* Outcomes decided on a stale copy.                                       *)

\* The history of a login covers the account as it is.
Current(l) ==
  LET row == users[loc[l].user] IN
  /\ loc[l].pw \in Passwords
  /\ row.hash = loc[l].pw => "match" \in seen[l].facts
  /\ row.hash # loc[l].pw => "miss" \in seen[l].facts
  /\ Frozen(row, now) => "locked" \in seen[l].facts
  /\ seen[l].least <= row.locked

\* ... and the copy of it that the login will decide on.
Copied(l) ==
  /\ loc[l].hash = loc[l].pw => "match" \in seen[l].facts
  /\ loc[l].hash # loc[l].pw => "miss" \in seen[l].facts
  /\ Frozen(loc[l], now) => "locked" \in seen[l].facts
  /\ seen[l].least <= loc[l].locked

SeenInv ==
  \A l \in Logins :
    /\ pc[l] \in Deciding => Current(l)
    /\ pc[l] = "check" => Copied(l)

LEMMA SeenInit == Init => SeenInv
BY DEF Init, SeenInv, Deciding

\* A step that changes the table or the clock, but no login that is deciding,
\* keeps SeenInv.
LEMMA ObserveKeepsSeen ==
  ASSUME TypeOK, TypeOK', SeenInv, Observe, now <= now',
         NEW l \in Logins, pc[l] \in Deciding, pc'[l] = pc[l], loc'[l] = loc[l]
  PROVE  /\ Current(l)'
         /\ pc'[l] = "check" => Copied(l)'
<1> DEFINE row == users'[loc[l].user]
<1>1. seen'[l] = Extended(seen[l], row, loc[l].pw, now')
  BY DEF Observe
<1>2. /\ seen'[l].facts = seen[l].facts \cup Facts(row, loc[l].pw, now')
      /\ seen'[l].least = IF row.locked < seen[l].least THEN row.locked ELSE seen[l].least
  BY <1>1 DEF Extended
<1>3. /\ row.hash = loc[l].pw => "match" \in Facts(row, loc[l].pw, now')
      /\ row.hash # loc[l].pw => "miss" \in Facts(row, loc[l].pw, now')
      /\ Frozen(row, now') => "locked" \in Facts(row, loc[l].pw, now')
  BY DEF Facts
<1>4. row.locked \in Int /\ seen[l].least \in Int
  BY LoginAssumption DEF TypeOK, Deciding, Row, History, Times
<1>5. seen'[l].least <= row.locked /\ seen'[l].least <= seen[l].least
  BY <1>2, <1>4
<1>6. Current(l)'
  BY <1>2, <1>3, <1>5 DEF SeenInv, Current
<1>7. ASSUME pc[l] = "check"
      PROVE  Copied(l)'
  <2>1. loc[l].locked \in Int /\ now \in Int /\ now' \in Int /\ seen'[l].least \in Int
    BY <1>2, <1>4, LoginAssumption DEF TypeOK, Local, Times
  <2>2. Frozen(loc[l], now') => Frozen(loc[l], now)
    BY <2>1 DEF Frozen
  <2>3. seen'[l].least <= loc[l].locked
    BY <1>4, <1>5, <1>7, <2>1 DEF SeenInv, Copied
  <2> QED
    BY <1>2, <1>7, <2>2, <2>3 DEF SeenInv, Copied
<1> QED
  BY <1>6, <1>7

LEMMA SeenStep == TypeOK /\ TypeOK' /\ SeenInv /\ [Next]_vars => SeenInv'
<1> SUFFICES ASSUME TypeOK, TypeOK', SeenInv, [Next]_vars
             PROVE  SeenInv'
  OBVIOUS
<1>1. now \in Int
  BY DEF TypeOK
<1>2. CASE UNCHANGED vars
  BY <1>2 DEF SeenInv, Current, Copied, vars
<1>3. ASSUME NEW l \in Logins, NEW u \in Users, NEW p \in Passwords, Submit(l, u, p)
      PROVE  SeenInv'
  <2>1. \A k \in Logins \ {l} :
          pc'[k] = pc[k] /\ loc'[k] = loc[k] /\ seen'[k] = seen[k]
    BY <1>3 DEF TypeOK, Submit, Goto
  <2>2. pc'[l] = "find" /\ now' = now /\ users' = users
    BY <1>3 DEF TypeOK, Submit, Goto
  <2>3. Current(l)'
    <3>1. loc'[l].user = u /\ loc'[l].pw = p
      BY <1>3 DEF TypeOK, Submit, Blank
    <3>2. /\ seen'[l].facts = Facts(users[u], p, now)
          /\ seen'[l].least = users[u].locked
      BY <1>3 DEF TypeOK, Submit
    <3>3. /\ users[u].hash = p => "match" \in Facts(users[u], p, now)
          /\ users[u].hash # p => "miss" \in Facts(users[u], p, now)
          /\ Frozen(users[u], now) => "locked" \in Facts(users[u], p, now)
      BY DEF Facts
    <3>4. users[u].locked <= users[u].locked
      BY LoginAssumption DEF TypeOK, Row, Times
    <3> QED
      BY <2>2, <3>1, <3>2, <3>3, <3>4 DEF Current
  <2> QED
    BY <2>1, <2>2, <2>3 DEF SeenInv, Current, Copied
<1>4. ASSUME NEW l \in Logins, FindForAuth(l)
      PROVE  SeenInv'
  <2> DEFINE row == users[loc[l].user]
  <2>1. \A k \in Logins \ {l} :
          pc'[k] = pc[k] /\ loc'[k] = loc[k] /\ seen'[k] = seen[k]
    BY <1>4 DEF TypeOK, FindForAuth, Goto, StopWatching
  <2>2. now' = now /\ users' = users
    BY <1>4 DEF FindForAuth
  <2>3. ASSUME NEW k \in Logins \ {l}
        PROVE  /\ pc'[k] \in Deciding => Current(k)'
               /\ pc'[k] = "check" => Copied(k)'
    BY <2>1, <2>2 DEF SeenInv, Current, Copied
  <2>4. CASE pc'[l] = "audit"
    BY <2>3, <2>4 DEF SeenInv, Deciding
  <2>5. CASE pc'[l] = "check"
    <3>1. /\ loc' = [loc EXCEPT ![l] = [loc[l] EXCEPT !.hash = row.hash, !.locked = row.locked]]
          /\ seen' = seen
      BY <1>4, <2>5 DEF TypeOK, FindForAuth, Goto
    <3>2. loc[l] \in Local
      BY DEF TypeOK
    <3>3. /\ loc'[l].user = loc[l].user
          /\ loc'[l].pw = loc[l].pw
          /\ loc'[l].hash = row.hash
          /\ loc'[l].locked = row.locked
      BY <3>1, <3>2 DEF TypeOK, Local
    <3>4. Current(l)
      BY <1>4 DEF SeenInv, FindForAuth, Deciding
    <3>5. Current(l)'
      BY <2>2, <3>1, <3>3, <3>4 DEF Current
    <3>6. Copied(l)'
      BY <2>2, <3>1, <3>3, <3>4 DEF Current, Copied, Frozen
    <3> QED
      BY <2>3, <3>5, <3>6 DEF SeenInv
  <2> QED
    BY <1>4, <2>4, <2>5 DEF TypeOK, FindForAuth, Goto
<1>5. ASSUME NEW l \in Logins,
             CheckLock(l) \/ ReadCount(l) \/ DecideLock(l) \/ StatementFails(l)
      PROVE  SeenInv'
  <2>1. \A k \in Logins \ {l} :
          pc'[k] = pc[k] /\ loc'[k] = loc[k] /\ seen'[k] = seen[k]
    BY <1>5 DEF TypeOK, CheckLock, ReadCount, DecideLock, StatementFails, Goto, StopWatching
  <2>2. now' = now /\ users' = users
    BY <1>5 DEF CheckLock, ReadCount, DecideLock, StatementFails
  <2>3. pc'[l] \notin Deciding
    BY <1>5 DEF TypeOK, CheckLock, ReadCount, DecideLock, StatementFails, Goto, Deciding
  <2> QED
    BY <2>1, <2>2, <2>3 DEF SeenInv, Current, Copied, Deciding
<1>6. ASSUME NEW l \in Logins, CreateSession(l) \/ WriteAudit(l) \/ Reply(l)
      PROVE  SeenInv'
  <2>1. \A k \in Logins \ {l} :
          pc'[k] = pc[k] /\ loc'[k] = loc[k] /\ seen'[k] = seen[k]
    BY <1>6 DEF TypeOK, CreateSession, WriteAudit, Reply, Goto
  <2>2. now' = now /\ users' = users
    BY <1>6 DEF CreateSession, WriteAudit, Reply
  <2>3. pc'[l] \notin Deciding
    BY <1>6 DEF TypeOK, CreateSession, WriteAudit, Reply, Goto, Deciding
  <2> QED
    BY <2>1, <2>2, <2>3 DEF SeenInv, Current, Copied, Deciding
<1>7. ASSUME NEW l \in Logins, RecordFailed(l) \/ ResetFailed(l)
      PROVE  SeenInv'
  <2>1. \A k \in Logins \ {l} : pc'[k] = pc[k] /\ loc'[k] = loc[k]
    BY <1>7 DEF TypeOK, RecordFailed, ResetFailed, Goto
  <2>2. Observe /\ now' = now
    BY <1>7 DEF RecordFailed, ResetFailed
  <2>3. pc'[l] \notin Deciding
    BY <1>7 DEF TypeOK, RecordFailed, ResetFailed, Goto, Deciding
  <2> QED
    BY <1>1, <2>1, <2>2, <2>3, ObserveKeepsSeen DEF SeenInv, Deciding
<1>8. ASSUME NEW u \in Users, NEW p \in Passwords, UserAdd(u, p) \/ SetPassword(u, p)
      PROVE  SeenInv'
  <2>1. Observe /\ now' = now /\ pc' = pc /\ loc' = loc
    BY <1>8 DEF UserAdd, SetPassword
  <2> QED
    BY <1>1, <2>1, ObserveKeepsSeen DEF SeenInv, Deciding
<1>9. CASE Crash
  BY <1>9 DEF SeenInv, Crash, Deciding
<1>10. CASE Tick
  <2>1. Observe /\ now <= now' /\ pc' = pc /\ loc' = loc
    BY <1>1, <1>10 DEF Tick
  <2> QED
    BY <2>1, ObserveKeepsSeen DEF SeenInv, Deciding
<1> QED
  BY <1>2, <1>3, <1>4, <1>5, <1>6, <1>7, <1>8, <1>9, <1>10 DEF Next, Step

\* A step of another login, or of none, decides nothing for l.
LEMMA OthersDecideNothing ==
  ASSUME TypeOK, SessionInv, NEW l \in Logins, pc[l] \in Deciding,
         pc'[l] = pc[l], verdict'[l] = verdict[l]
  PROVE  OutcomeJustified(l)
BY DEF SessionInv, OutcomeJustified, Deciding

\* Whatever a login decides is justified by the history of the account.
LEMMA SeenJustifies ==
  TypeOK /\ SessionInv /\ SeenInv /\ [Next]_vars
    => [\A l \in Logins : pc[l] \in Deciding => OutcomeJustified(l)]_vars
<1> SUFFICES ASSUME TypeOK, SessionInv, SeenInv, Next,
                    NEW l \in Logins, pc[l] \in Deciding
             PROVE  OutcomeJustified(l)
  BY DEF vars
<1>1. CASE FindForAuth(l)
  <2>1. Current(l)
    BY DEF SeenInv
  <2>2. users[loc[l].user].hash = None => "miss" \in seen[l].facts
    BY <2>1, LoginAssumption DEF Current
  <2>3. verdict[l] = "none"
    BY DEF SessionInv, Deciding
  <2> QED
    BY <1>1, <2>2, <2>3 DEF TypeOK, FindForAuth, OutcomeJustified, Goto, Decide
<1>2. CASE CheckLock(l)
  <2>1. Copied(l)
    BY <1>2 DEF SeenInv, CheckLock
  <2>2. ~Frozen(loc[l], now) => seen[l].least <= now
    <3>1. seen[l].least \in Int /\ loc[l].locked \in Int /\ now \in Int
      BY LoginAssumption DEF TypeOK, History, Local, Times
    <3> QED
      BY <2>1, <3>1 DEF Copied, Frozen
  <2>3. verdict[l] = "none"
    BY DEF SessionInv, Deciding
  <2> QED
    BY <1>2, <2>1, <2>2, <2>3
       DEF TypeOK, CheckLock, OutcomeJustified, Copied, Goto, Decide
<1>3. CASE StatementFails(l)
  BY <1>3 DEF TypeOK, StatementFails, OutcomeJustified, Goto, Decide
<1>4. ASSUME NEW k \in Logins \ {l}, NEW u \in Users, NEW p \in Passwords, Submit(k, u, p)
      PROVE  OutcomeJustified(l)
  BY <1>4, OthersDecideNothing DEF TypeOK, Submit, Goto
<1>5. ASSUME NEW k \in Logins \ {l}, Step(k)
      PROVE  OutcomeJustified(l)
  <2>1. pc'[l] = pc[l] /\ verdict'[l] = verdict[l]
    BY <1>5 DEF TypeOK, Step, FindForAuth, CheckLock, ReadCount, DecideLock, RecordFailed,
                ResetFailed, CreateSession, WriteAudit, StatementFails, Reply, Goto, Decide
  <2> QED
    BY <2>1, OthersDecideNothing
<1>6. ASSUME NEW u \in Users, NEW p \in Passwords, UserAdd(u, p) \/ SetPassword(u, p)
      PROVE  OutcomeJustified(l)
  BY <1>6, OthersDecideNothing DEF UserAdd, SetPassword
<1>7. CASE Crash
  BY <1>7 DEF Crash, OutcomeJustified
<1>8. CASE Tick
  BY <1>8, OthersDecideNothing DEF Tick
<1>9. Step(l) => FindForAuth(l) \/ CheckLock(l) \/ StatementFails(l)
  BY DEF Step, Deciding, ReadCount, DecideLock, RecordFailed, ResetFailed, CreateSession,
         WriteAudit, Reply
<1>10. \A u \in Users, p \in Passwords : ~Submit(l, u, p)
  BY DEF Submit, Deciding
<1> QED
  BY <1>1, <1>2, <1>3, <1>4, <1>5, <1>6, <1>7, <1>8, <1>9, <1>10 DEF Next

\* Every outcome is one that was right at some moment of the attempt, although
\* login decides on a copy of the row that others overtake.
THEOREM OutcomesAlwaysJustified == Spec => OutcomesJustified
<1>1. TypeOK /\ [Next]_vars => TypeOK'
  BY TypeStep
<1>2. TypeOK /\ TypeOK' /\ SessionInv /\ SeenInv /\ [Next]_vars
        => SessionInv' /\ SeenInv'
  BY SessionStep, SeenStep
<1> QED
  BY <1>1, <1>2, TypeInit, SessionInit, SeenInit, SeenJustifies, PTL
     DEF Spec, OutcomesJustified
-----------------------------------------------------------------------------
(* Failures of one account that are recorded one at a time.                *)

\* No two logins are between the two statements of record_failed for the same
\* account.
RecordsAlone ==
  \A l, k \in Logins :
    /\ {pc[l], pc[k]} \subseteq {"decide", "record"}
    /\ loc[l].user = loc[k].user
    => l = k

\* What is then about to be written is not behind the row: the count is at
\* least that of the failures since the last reset, and neither the count nor
\* the lock goes back.
RecordInv ==
  /\ \A u \in Users : misses[u] <= users[u].failed
  /\ \A l \in Logins :
       /\ pc[l] \in {"decide", "record"} => users[loc[l].user].failed < loc[l].next
       /\ pc[l] = "record" => users[loc[l].user].locked <= loc[l].until

\* No account has failures to begin with.
LEMMA RecordInit == Init => RecordInv
BY DEF Init, RecordInv, Absent

\* A statement leaves the lockout columns of an account alone or resets them.
Reset(u) == users'[u].failed = 0 /\ users'[u].locked = NoLock /\ misses'[u] <= 0

Untouched(u) ==
  /\ users'[u].failed = users[u].failed
  /\ users'[u].locked = users[u].locked
  /\ misses'[u] = misses[u]

\* A login does not come nearer to recording a failure.
Remains(l) ==
  pc'[l] \in {"decide", "record"} => pc[l] = pc'[l] /\ loc'[l] = loc[l]

\* Such a statement keeps what is about to be written ahead of the row.
LEMMA RecordKept ==
  ASSUME TypeOK, LockInv, RecordInv,
         \A u \in Users : Reset(u) \/ Untouched(u),
         \A l \in Logins : Remains(l)
  PROVE  RecordInv'
<1>1. ASSUME NEW u \in Users  PROVE misses'[u] <= users'[u].failed
  BY DEF RecordInv, Reset, Untouched
<1>2. ASSUME NEW l \in Logins, pc'[l] \in {"decide", "record"}
      PROVE  /\ users'[loc'[l].user].failed < loc'[l].next
             /\ pc'[l] = "record" => users'[loc'[l].user].locked <= loc'[l].until
  <2>1. pc[l] = pc'[l] /\ loc'[l] = loc[l]
    BY <1>2 DEF Remains
  <2>2. loc[l].user \in Users /\ loc[l].next > 0 /\ NoLock <= loc[l].until
    BY <1>2, <2>1, LoginAssumption DEF TypeOK, Local, Times, NoLock, LockInv
  <2> QED
    BY <1>2, <2>1, <2>2 DEF RecordInv, Reset, Untouched
<1> QED
  BY <1>1, <1>2 DEF RecordInv

\* Every statement but those of record_failed resets the lockout columns of an
\* account or leaves them as they are.
LEMMA OtherStatements ==
  ASSUME TypeOK, RecordInv, [Next]_vars,
         \A l \in Logins : ~(ReadCount(l) \/ DecideLock(l) \/ RecordFailed(l))
  PROVE  /\ \A u \in Users : Reset(u) \/ Untouched(u)
         /\ \A l \in Logins : Remains(l)
<1> DEFINE Rows == \A u \in Users : Reset(u) \/ Untouched(u)
           Places == \A l \in Logins : Remains(l)
<1>1. ASSUME UNCHANGED vars  PROVE Rows /\ Places
  BY <1>1 DEF vars, Untouched, Remains
<1>2. ASSUME NEW l \in Logins, NEW u \in Users, NEW p \in Passwords, Submit(l, u, p)
      PROVE  Rows /\ Places
  BY <1>2 DEF TypeOK, Submit, Goto, Untouched, Remains
<1>3. ASSUME NEW l \in Logins, FindForAuth(l) \/ CheckLock(l)
      PROVE  Rows /\ Places
  BY <1>3 DEF TypeOK, FindForAuth, CheckLock, Goto, Untouched, Remains
<1>4. ASSUME NEW l \in Logins, ResetFailed(l)  PROVE Rows /\ Places
  <2>1. Places
    BY <1>4 DEF TypeOK, ResetFailed, Goto, Remains
  <2>2. ASSUME NEW u \in Users, u # loc[l].user
        PROVE  Untouched(u)
    BY <1>4, <2>2 DEF TypeOK, ResetFailed, Untouched
  <2>3. loc[l].user \in Users
    BY <1>4 DEF TypeOK, ResetFailed
  <2>4. Reset(loc[l].user)
    BY <1>4, <2>3 DEF TypeOK, Row, ResetFailed, Reset, Cleared
  <2>5. Rows
    BY <2>2, <2>4
  <2> QED
    BY <2>1, <2>5
<1>5. ASSUME NEW l \in Logins,
             CreateSession(l) \/ WriteAudit(l) \/ StatementFails(l) \/ Reply(l)
      PROVE  Rows /\ Places
  BY <1>5 DEF TypeOK, CreateSession, WriteAudit, StatementFails, Reply, Goto, Untouched, Remains
<1>6. ASSUME NEW v \in Users, NEW p \in Passwords, UserAdd(v, p)
      PROVE  Rows /\ Places
  <2>1. Places
    BY <1>6 DEF UserAdd, Remains
  <2>2. ASSUME NEW u \in Users, u # v  PROVE Untouched(u)
    BY <1>6, <2>2 DEF TypeOK, UserAdd, Untouched
  <2>3. Reset(v)
    BY <1>6 DEF TypeOK, RecordInv, UserAdd, Absent, Reset
  <2>4. Rows
    BY <2>2, <2>3
  <2> QED
    BY <2>1, <2>4
<1>7. ASSUME NEW v \in Users, NEW p \in Passwords, SetPassword(v, p)
      PROVE  Rows /\ Places
  <2>1. Places
    BY <1>7 DEF SetPassword, Remains
  <2>2. ASSUME NEW u \in Users, u # v  PROVE Untouched(u)
    BY <1>7, <2>2 DEF TypeOK, SetPassword, Untouched
  <2>3. Reset(v)
    BY <1>7 DEF TypeOK, Row, SetPassword, Cleared, Reset
  <2>4. Rows
    BY <2>2, <2>3
  <2> QED
    BY <2>1, <2>4
<1>8. ASSUME Crash \/ Tick  PROVE Rows /\ Places
  BY <1>8 DEF Crash, Tick, Untouched, Remains
<1> QED
  BY <1>1, <1>2, <1>3, <1>4, <1>5, <1>6, <1>7, <1>8 DEF Next, Step

\* What RecordFailed writes, to its account and no other.
LEMMA RecordWrites ==
  ASSUME TypeOK, NEW l \in Logins, RecordFailed(l)
  PROVE  /\ loc[l].user \in Users
         /\ users'[loc[l].user].failed = loc[l].next
         /\ users'[loc[l].user].locked = loc[l].until
         /\ misses'[loc[l].user] <= misses[loc[l].user] + 1
         /\ \A u \in Users \ {loc[l].user} : users'[u] = users[u] /\ misses'[u] = misses[u]
         /\ pc'[l] = "audit"
         /\ \A k \in Logins \ {l} : loc'[k] = loc[k] /\ pc'[k] = pc[k]
         /\ now' = now
<1>1. loc[l].user \in Users
  BY DEF TypeOK, RecordFailed
<1>2. users[loc[l].user] \in Row /\ misses[loc[l].user] \in Nat
  BY <1>1 DEF TypeOK
<1>3. /\ users'[loc[l].user] = Penalised(users[loc[l].user], loc[l].next, loc[l].until)
      /\ \A u \in Users \ {loc[l].user} : users'[u] = users[u]
  BY <1>1 DEF TypeOK, RecordFailed
<1>4. /\ users'[loc[l].user].failed = loc[l].next
      /\ users'[loc[l].user].locked = loc[l].until
  BY <1>2, <1>3 DEF Penalised, Row
<1>5. /\ misses'[loc[l].user] <= misses[loc[l].user] + 1
      /\ \A u \in Users \ {loc[l].user} : misses'[u] = misses[u]
  BY <1>1, <1>2, LoginAssumption DEF TypeOK, RecordFailed
<1>6. /\ pc'[l] = "audit"
      /\ \A k \in Logins \ {l} : loc'[k] = loc[k] /\ pc'[k] = pc[k]
      /\ now' = now
  BY DEF TypeOK, RecordFailed, Goto
<1> QED
  BY <1>1, <1>3, <1>4, <1>5, <1>6

\* A failure that is recorded alone carries the count and the lock on.
LEMMA RecordStep ==
  TypeOK /\ LockInv /\ FreezeInv /\ RecordInv /\ RecordsAlone /\ [Next]_vars => RecordInv'
<1> SUFFICES ASSUME TypeOK, LockInv, FreezeInv, RecordInv, RecordsAlone, [Next]_vars
             PROVE  RecordInv'
  OBVIOUS
<1>1. ASSUME NEW l \in Logins, ReadCount(l)  PROVE RecordInv'
  <2>1. /\ users' = users /\ misses' = misses
        /\ pc'[l] = "decide" /\ loc'[l].user = loc[l].user
        /\ loc'[l].next = users[loc[l].user].failed + 1
        /\ \A k \in Logins \ {l} : loc'[k] = loc[k] /\ pc'[k] = pc[k]
    BY <1>1 DEF TypeOK, ReadCount, Goto, Local
  <2>2. loc[l].user \in Users /\ users[loc[l].user].failed \in Nat
    BY <1>1 DEF TypeOK, ReadCount, Row
  <2> QED
    BY <2>1, <2>2 DEF RecordInv
<1>2. ASSUME NEW l \in Logins, DecideLock(l)  PROVE RecordInv'
  <2>1. /\ users' = users /\ misses' = misses
        /\ pc[l] = "decide" /\ pc'[l] = "record"
        /\ loc'[l].user = loc[l].user /\ loc'[l].next = loc[l].next
        /\ loc'[l].until = LockFor(loc[l].next, now)
        /\ \A k \in Logins \ {l} : loc'[k] = loc[k] /\ pc'[k] = pc[k]
    BY <1>2 DEF TypeOK, DecideLock, Goto, Local
  <2> DEFINE row == users[loc[l].user]
  <2>2. /\ loc[l].user \in Users /\ row.failed \in Nat /\ loc[l].next \in Nat
    BY <2>1 DEF TypeOK, Row, Local
  <2>3. row.failed < loc[l].next
    BY <2>1 DEF RecordInv
  <2>4. row.locked <= LockFor(loc[l].next, now)
    <3>1. CASE loc[l].next >= MaxFailed
      <4>1. row.locked <= now + Lockout
        BY <2>2 DEF FreezeInv, FreezeBounded
      <4> QED
        BY <3>1, <4>1 DEF LockFor
    <3>2. CASE ~(loc[l].next >= MaxFailed)
      <4>1. ~(row.failed >= MaxFailed)
        BY <2>2, <2>3, <3>2, LoginAssumption
      <4>2. row.locked = NoLock
        BY <2>2, <4>1 DEF LockInv, LockMatchesCount
      <4> QED
        BY <3>2, <4>2 DEF LockFor, NoLock
    <3> QED
      BY <3>1, <3>2
  <2> QED
    BY <2>1, <2>3, <2>4 DEF RecordInv
<1>3. ASSUME NEW l \in Logins, RecordFailed(l)  PROVE RecordInv'
  <2>1. /\ loc[l].user \in Users
        /\ users'[loc[l].user].failed = loc[l].next
        /\ misses'[loc[l].user] <= misses[loc[l].user] + 1
        /\ \A u \in Users \ {loc[l].user} : users'[u] = users[u] /\ misses'[u] = misses[u]
        /\ pc'[l] = "audit"
        /\ \A k \in Logins \ {l} : loc'[k] = loc[k] /\ pc'[k] = pc[k]
    BY <1>3, RecordWrites
  <2>2. pc[l] = "record"
    BY <1>3 DEF RecordFailed
  <2>3. ASSUME NEW u \in Users  PROVE misses'[u] <= users'[u].failed
    <3>1. CASE u = loc[l].user
      <4>1. /\ misses[u] <= users[u].failed
            /\ users[u].failed < loc[l].next
        BY <2>2, <3>1 DEF RecordInv
      <4>2. /\ misses[u] \in Nat /\ misses'[u] \in Int
            /\ users[u].failed \in Nat /\ loc[l].next \in Nat
        BY <1>3, <3>1, LoginAssumption DEF TypeOK, Row, Local, RecordFailed
      <4> QED
        BY <2>1, <3>1, <4>1, <4>2
    <3>2. CASE u # loc[l].user
      BY <2>1, <3>2 DEF RecordInv
    <3> QED
      BY <3>1, <3>2
  <2>4. ASSUME NEW k \in Logins, pc'[k] \in {"decide", "record"}
        PROVE  /\ users'[loc'[k].user] = users[loc[k].user]
               /\ pc'[k] = pc[k] /\ loc'[k] = loc[k]
    <3>1. k # l /\ pc'[k] = pc[k] /\ loc'[k] = loc[k]
      BY <2>1, <2>4
    <3>2. loc[k].user # loc[l].user
      BY <2>2, <2>4, <3>1 DEF RecordsAlone
    <3>3. loc[k].user \in Users
      BY <2>4, <3>1 DEF TypeOK
    <3> QED
      BY <2>1, <3>1, <3>2, <3>3
  <2> QED
    BY <2>3, <2>4 DEF RecordInv
<1>4. ASSUME \A l \in Logins : ~(ReadCount(l) \/ DecideLock(l) \/ RecordFailed(l))
      PROVE  RecordInv'
  BY <1>4, OtherStatements, RecordKept
<1> QED
  BY <1>1, <1>2, <1>3, <1>4

\* It holds in every behaviour in which failures are recorded alone.
LEMMA RecordInvariant == Spec /\ []RecordsAlone => [](TypeOK /\ LockInv /\ RecordInv)
BY TypeInit, TypeStep, LockInit, LockStep, FreezeInit, FreezeStep, RecordInit, RecordStep,
   PTL DEF Spec

\* As long as no two failures of one account are recorded at the same time,
\* max_failed_logins failures freeze it: this, and nothing else about
\* concurrent logins, is what the freeze needs.
THEOREM FreezesUnlessOverlapping == Spec /\ []RecordsAlone => []MaxFailuresFreeze
<1>1. TypeOK /\ LockInv /\ RecordInv => MaxFailuresFreeze
  <2> SUFFICES ASSUME TypeOK, LockInv, RecordInv, NEW u \in Users,
                      MaxFailed > 0, misses[u] >= MaxFailed
               PROVE  users[u].locked # NoLock
    BY DEF MaxFailuresFreeze
  <2>1. misses[u] <= users[u].failed /\ misses[u] \in Nat /\ users[u].failed \in Nat
    BY DEF RecordInv, TypeOK, Row
  <2>2. users[u].failed > 0 /\ users[u].failed >= MaxFailed
    BY <2>1, LoginAssumption
  <2> QED
    BY <2>2 DEF LockInv, LockMatchesCount
<1> QED
  BY <1>1, RecordInvariant, PTL

\* ... and a freeze then ends by time or by a reset, never by a late failure
\* that writes back an older count or an earlier lock.
THEOREM FreezeHoldsUnlessOverlapping ==
  Spec /\ []RecordsAlone => FreezeEndsByTimeOrReset
<1>1. TypeOK /\ LockInv /\ RecordInv /\ [Next]_vars =>
        [\A u \in Users :
           Frozen(users[u], now) /\ ~Frozen(users'[u], now')
             => now' > now \/ users'[u].failed = 0]_vars
  <2> SUFFICES ASSUME TypeOK, LockInv, RecordInv, [Next]_vars, NEW u \in Users,
                      Frozen(users[u], now), ~Frozen(users'[u], now')
               PROVE  now' > now \/ users'[u].failed = 0
    OBVIOUS
  <2>1. now' = now \/ now' > now
    <3>1. now \in Int
      BY DEF TypeOK
    <3>2. now' = now \/ now' = now + 1
      BY DEF Next, vars, Submit, Step, FindForAuth, CheckLock, ReadCount, DecideLock,
             RecordFailed, ResetFailed, CreateSession, WriteAudit, StatementFails, Reply,
             UserAdd, SetPassword, Crash, Tick
    <3> QED
      BY <3>1, <3>2
  <2>2. ASSUME NEW l \in Logins, RecordFailed(l)  PROVE FALSE
    <3>1. CASE u = loc[l].user
      <4>1. users'[u].locked = loc[l].until /\ now' = now
        BY <2>2, <3>1, RecordWrites
      <4>2. users[u].locked <= loc[l].until
        BY <2>2, <3>1 DEF RecordInv, RecordFailed
      <4>3. users[u].locked \in Int /\ loc[l].until \in Int /\ now \in Int
        BY LoginAssumption DEF TypeOK, Row, Local, Times
      <4> QED
        BY <4>1, <4>2, <4>3 DEF Frozen
    <3>2. CASE u # loc[l].user
      BY <2>2, <3>2, RecordWrites DEF Frozen
    <3> QED
      BY <3>1, <3>2
  <2>3. ASSUME NEW l \in Logins, ReadCount(l) \/ DecideLock(l)  PROVE FALSE
    BY <2>3 DEF ReadCount, DecideLock, Frozen
  <2>4. CASE \A l \in Logins : ~(ReadCount(l) \/ DecideLock(l) \/ RecordFailed(l))
    <3>1. Reset(u) \/ Untouched(u)
      BY <2>4, OtherStatements
    <3>2. CASE Untouched(u)
      BY <2>1, <3>2 DEF Untouched, Frozen
    <3> QED
      BY <3>1, <3>2 DEF Reset
  <2> QED
    BY <2>2, <2>3, <2>4
<1> QED
  BY <1>1, RecordInvariant, PTL DEF Spec, FreezeEndsByTimeOrReset

\* In particular both hold of logins that come one by one.
COROLLARY SerialLoginsFreeze ==
  ASSUME \A l, k \in Logins : l = k
  PROVE  Spec => []MaxFailuresFreeze /\ FreezeEndsByTimeOrReset
<1>1. RecordsAlone
  BY DEF RecordsAlone
<1> QED
  BY <1>1, FreezesUnlessOverlapping, FreezeHoldsUnlessOverlapping, PTL

=============================================================================
