------------------------------- MODULE Login -------------------------------
(***************************************************************************)
(* The login handler and the failed-login lockout.                         *)
(*                                                                         *)
(* POST /api/auth/login runs its database work in one closure on a         *)
(* blocking thread.  The closure opens no transaction: each SQL statement  *)
(* commits on its own, so the statements of concurrent logins, and those   *)
(* of the `user-add` and `user-passwd` commands of other processes,        *)
(* interleave.  One action is one statement, or the local code between     *)
(* two of them where it reads the clock.                                   *)
(***************************************************************************)
EXTENDS Integers

CONSTANTS
  Users,      \* user names that may have a row in the users table
  Passwords,  \* passwords; the hash of a password stands for it
  None,       \* the hash of a name without a row, and an unset local
  Logins,     \* login requests that may be in progress together
  MaxFailed,  \* max_failed_logins
  Lockout,    \* lockout_minutes * 60
  MaxNow,     \* bound of the clock
  MaxCount,   \* bound of failed_count, which no statement of the code bounds
  Faulty      \* whether a statement may fail (busy timeout, pool timeout, full disk)

ASSUME LoginAssumption ==
  /\ None \notin Users \cup Passwords
  /\ MaxFailed \in Nat
  /\ Lockout \in Nat
  /\ MaxNow \in Nat
  /\ MaxCount \in Nat
  /\ Faulty \in BOOLEAN

VARIABLES
  now,      \* db::now_unix(), the clock every process of the host reads
  users,    \* the users table
  pc,       \* what a login does next
  loc,      \* the local variables of its closure
  verdict,  \* the outcome it has decided on
  session,  \* whether it has inserted a session row
  logged,   \* the audit entry it has written
  seen,     \* history: what has held of the account since the login arrived
  misses    \* history: failures recorded since the last reset, up to MaxFailed

vars == <<now, users, pc, loc, verdict, session, logged, seen, misses>>

\* locked_until IS NULL
NoLock == -1

\* What a name without a row looks like.
Absent == [hash |-> None, failed |-> 0, locked |-> NoLock]

\* The locals of a login that is not running.
Blank == [user |-> None, pw |-> None, hash |-> None, locked |-> NoLock,
          next |-> 0, until |-> NoLock]

\* The history of a login that has nothing left to decide.
Unseen == [facts |-> {}, least |-> NoLock]

-----------------------------------------------------------------------------
(* What can be said of an account at time t.                               *)

Frozen(row, t) == row.locked > t

Facts(row, pw, t) ==
  {IF row.hash = pw THEN "match" ELSE "miss"}
    \cup {f \in {"locked"} : Frozen(row, t)}

\* The steps at which the outcome is still open.
Deciding == {"find", "check"}

\* The history h of a login once its account is `row` at time t: the facts
\* that have held, and the earliest locked_until the row has had.
Extended(h, row, pw, t) ==
  [facts |-> h.facts \cup Facts(row, pw, t),
   least |-> IF row.locked < h.least THEN row.locked ELSE h.least]

\* Records what holds after this step for each login that is deciding.
Observe ==
  seen' = [l \in Logins |->
             IF pc[l] \in Deciding
             THEN Extended(seen[l], users'[loc[l].user], loc[l].pw, now')
             ELSE seen[l]]

-----------------------------------------------------------------------------
Init ==
  /\ now = 0
  /\ users = [u \in Users |-> Absent]
  /\ pc = [l \in Logins |-> "idle"]
  /\ loc = [l \in Logins |-> Blank]
  /\ verdict = [l \in Logins |-> "none"]
  /\ session = [l \in Logins |-> FALSE]
  /\ logged = [l \in Logins |-> "none"]
  /\ seen = [l \in Logins |-> Unseen]
  /\ misses = [u \in Users |-> 0]

Goto(l, step) == pc' = [pc EXCEPT ![l] = step]

\* The outcome of l is v.
Decide(l, v) == verdict' = [verdict EXCEPT ![l] = v]

\* The outcome no longer depends on what the account will look like.
StopWatching(l) == seen' = [seen EXCEPT ![l] = Unseen]

\* A request reaches the closure: it has the XHR header and both fields are
\* filled in.  Other requests are answered 403 or 400 before any database work.
Submit(l, u, p) ==
  /\ pc[l] = "idle"
  /\ Goto(l, "find")
  /\ loc' = [loc EXCEPT ![l] = [Blank EXCEPT !.user = u, !.pw = p]]
  /\ seen' = [seen EXCEPT ![l] = [facts |-> Facts(users[u], p, now),
                                  least |-> users[u].locked]]
  /\ UNCHANGED <<now, users, verdict, session, logged, misses>>

\* Mutant of FindForAuth: the query does not select locked_until.
FindForAuthLockNotRead(l) ==
  LET row == users[loc[l].user] IN
  /\ pc[l] = "find"
  /\ \/ /\ row.hash = None
        /\ Goto(l, "audit")
        /\ Decide(l, "bad")
        /\ StopWatching(l)
        /\ UNCHANGED loc
     \/ /\ row.hash # None
        /\ Goto(l, "check")
        /\ loc' = [loc EXCEPT ![l] = [@ EXCEPT !.hash = row.hash]]
        /\ UNCHANGED <<verdict, seen>>
  /\ UNCHANGED <<now, users, session, logged, misses>>

\* users::find_for_auth copies the row; with no row the outcome is decided,
\* after a verification against DUMMY_HASH whose result is dropped.
FindForAuth(l) ==
  LET row == users[loc[l].user] IN
  /\ pc[l] = "find"
  /\ \/ /\ row.hash = None
        /\ Goto(l, "audit")
        /\ Decide(l, "bad")
        /\ StopWatching(l)
        /\ UNCHANGED loc
     \/ /\ row.hash # None
        /\ Goto(l, "check")
        /\ loc' = [loc EXCEPT ![l] = [@ EXCEPT !.hash = row.hash, !.locked = row.locked]]
        /\ UNCHANGED <<verdict, seen>>
  /\ UNCHANGED <<now, users, session, logged, misses>>

\* The lock of the copy against the clock, then the password against the hash
\* of the copy, which is not used again.
CheckLock(l) ==
  /\ pc[l] = "check"
  /\ \/ /\ Frozen(loc[l], now)
        /\ Goto(l, "audit")
        /\ Decide(l, "locked")
     \/ /\ ~Frozen(loc[l], now)
        /\ Goto(l, IF loc[l].pw = loc[l].hash THEN "reset" ELSE "count")
        /\ UNCHANGED verdict
  /\ loc' = [loc EXCEPT ![l] = [@ EXCEPT !.pw = None, !.hash = None, !.locked = NoLock]]
  /\ StopWatching(l)
  /\ UNCHANGED <<now, users, session, logged, misses>>

\* users::record_failed, first statement: SELECT failed_count + 1.
ReadCount(l) ==
  /\ pc[l] = "count"
  /\ users[loc[l].user].failed < MaxCount
  /\ Goto(l, "decide")
  /\ loc' = [loc EXCEPT ![l] = [@ EXCEPT !.next = users[loc[l].user].failed + 1]]
  /\ UNCHANGED <<now, users, verdict, session, logged, seen, misses>>

\* Mutants of LockFor: the lock comes one failure late; it grows with the count.
LockForLate(next, t) == IF next > MaxFailed THEN t + Lockout ELSE NoLock
LockForGrowing(next, t) == IF next >= MaxFailed THEN t + next * Lockout ELSE NoLock

\* users::record_failed: the value locked_until will get.
LockFor(next, t) == IF next >= MaxFailed THEN t + Lockout ELSE NoLock

DecideLock(l) ==
  /\ pc[l] = "decide"
  /\ Goto(l, "record")
  /\ loc' = [loc EXCEPT ![l] = [@ EXCEPT !.until = LockFor(loc[l].next, now)]]
  /\ UNCHANGED <<now, users, verdict, session, logged, seen, misses>>

\* Mutant of Penalised: COALESCE(?2, locked_until) keeps a lock that is there.
PenalisedKeepingLock(row, next, until) ==
  [row EXCEPT !.failed = next, !.locked = IF until = NoLock THEN @ ELSE until]

\* users::record_failed, second statement: both columns are written.
Penalised(row, next, until) == [row EXCEPT !.failed = next, !.locked = until]

RecordFailed(l) ==
  LET u == loc[l].user IN
  /\ pc[l] = "record"
  /\ Goto(l, "audit")
  /\ users' = [users EXCEPT ![u] = Penalised(@, loc[l].next, loc[l].until)]
  /\ loc' = [loc EXCEPT ![l] = [@ EXCEPT !.next = 0, !.until = NoLock]]
  /\ Decide(l, "bad")
  /\ misses' = [misses EXCEPT ![u] = IF @ < MaxFailed THEN @ + 1 ELSE @]
  /\ UNCHANGED <<now, session, logged>>
  /\ Observe

\* Mutant of Cleared: the lock is lifted and the count stays.
ClearedLockOnly(row) == [row EXCEPT !.locked = NoLock]

\* users::reset_failed.
Cleared(row) == [row EXCEPT !.failed = 0, !.locked = NoLock]

ResetFailed(l) ==
  LET u == loc[l].user IN
  /\ pc[l] = "reset"
  /\ Goto(l, "create")
  /\ users' = [users EXCEPT ![u] = Cleared(@)]
  /\ misses' = [misses EXCEPT ![u] = 0]
  /\ UNCHANGED <<now, loc, verdict, session, logged>>
  /\ Observe

\* sessions::create, with a fresh token.
CreateSession(l) ==
  /\ pc[l] = "create"
  /\ Goto(l, "audit")
  /\ session' = [session EXCEPT ![l] = TRUE]
  /\ Decide(l, "ok")
  /\ UNCHANGED <<now, users, loc, logged, seen, misses>>

\* Mutant of WriteAudit: `?` where the code has `let _ =`.
WriteAuditPropagated(l) ==
  /\ pc[l] = "audit"
  /\ Goto(l, "reply")
  /\ \/ /\ logged' = [logged EXCEPT ![l] = verdict[l]]
        /\ UNCHANGED verdict
     \/ /\ Faulty
        /\ Decide(l, "error")
        /\ UNCHANGED logged
  /\ UNCHANGED <<now, users, loc, session, seen, misses>>

\* audit::write: its error is dropped, so the outcome stands either way.
WriteAudit(l) ==
  /\ pc[l] = "audit"
  /\ Goto(l, "reply")
  /\ \/ logged' = [logged EXCEPT ![l] = verdict[l]]
     \/ Faulty /\ UNCHANGED logged
  /\ UNCHANGED <<now, users, loc, verdict, session, seen, misses>>

\* A `?`: no connection from the pool, or the statement fails.  The closure
\* returns with what the statements before it have committed.
StatementFails(l) ==
  /\ Faulty
  /\ pc[l] \in {"find", "count", "record", "reset", "create"}
  /\ Goto(l, "reply")
  /\ Decide(l, "error")
  /\ StopWatching(l)
  /\ loc' = [loc EXCEPT ![l] = [Blank EXCEPT !.user = loc[l].user]]
  /\ UNCHANGED <<now, users, session, logged, misses>>

\* The answer leaves; only that of an "ok" carries the session's cookie.
Reply(l) ==
  /\ pc[l] = "reply"
  /\ Goto(l, "idle")
  /\ loc' = [loc EXCEPT ![l] = Blank]
  /\ Decide(l, "none")
  /\ session' = [session EXCEPT ![l] = FALSE]
  /\ logged' = [logged EXCEPT ![l] = "none"]
  /\ UNCHANGED <<now, users, seen, misses>>

\* `vps-monitor user-add`: the row's columns start at their defaults.
UserAdd(u, p) ==
  /\ users[u] = Absent
  /\ users' = [users EXCEPT ![u] = [Absent EXCEPT !.hash = p]]
  /\ UNCHANGED <<now, pc, loc, verdict, session, logged, misses>>
  /\ Observe

\* `vps-monitor user-passwd`: one UPDATE of three columns.
SetPassword(u, p) ==
  /\ users[u].hash # None
  /\ users' = [users EXCEPT ![u] = [Cleared(@) EXCEPT !.hash = p]]
  /\ misses' = [misses EXCEPT ![u] = 0]
  /\ UNCHANGED <<now, pc, loc, verdict, session, logged>>
  /\ Observe

\* SIGTERM has no handler: the server dies between any two statements and
\* systemd starts it again on the same database.
Crash ==
  /\ \E l \in Logins : pc[l] # "idle"
  /\ pc' = [l \in Logins |-> "idle"]
  /\ loc' = [l \in Logins |-> Blank]
  /\ verdict' = [l \in Logins |-> "none"]
  /\ session' = [l \in Logins |-> FALSE]
  /\ logged' = [l \in Logins |-> "none"]
  /\ seen' = [l \in Logins |-> Unseen]
  /\ UNCHANGED <<now, users, misses>>

Tick ==
  /\ now < MaxNow
  /\ now' = now + 1
  /\ UNCHANGED <<users, pc, loc, verdict, session, logged, misses>>
  /\ Observe

Step(l) ==
  \/ FindForAuth(l)
  \/ CheckLock(l)
  \/ ReadCount(l)
  \/ DecideLock(l)
  \/ RecordFailed(l)
  \/ ResetFailed(l)
  \/ CreateSession(l)
  \/ WriteAudit(l)
  \/ StatementFails(l)
  \/ Reply(l)

Next ==
  \/ \E l \in Logins, u \in Users, p \in Passwords : Submit(l, u, p)
  \/ \E l \in Logins : Step(l)
  \/ \E u \in Users, p \in Passwords : UserAdd(u, p) \/ SetPassword(u, p)
  \/ Crash
  \/ Tick

Spec == Init /\ [][Next]_vars

-----------------------------------------------------------------------------
(* Properties.                                                             *)

Steps == {"idle", "find", "check", "count", "decide", "record", "reset",
          "create", "audit", "reply"}
Verdicts == {"none", "ok", "bad", "locked", "error"}

Times == -1 .. MaxNow + Lockout

Row == [hash : Passwords \cup {None}, failed : Nat, locked : Times]

\* The locals of a login, and its history.
Local == [user : Users \cup {None}, pw : Passwords \cup {None},
          hash : Passwords \cup {None}, locked : Times, next : Nat, until : Times]

History == [facts : SUBSET {"match", "miss", "locked"}, least : Times]

\* The type invariant; a login has a user from its first step to its reply.
TypeOK ==
  /\ now \in 0 .. MaxNow
  /\ users \in [Users -> Row]
  /\ pc \in [Logins -> Steps]
  /\ loc \in [Logins -> Local]
  /\ \A l \in Logins : pc[l] # "idle" => loc[l].user \in Users
  /\ verdict \in [Logins -> Verdicts]
  /\ session \in [Logins -> BOOLEAN]
  /\ logged \in [Logins -> Verdicts]
  /\ seen \in [Logins -> History]
  /\ misses \in [Users -> Nat]

\* failed_count and locked_until of a row agree in every state of the database,
\* whatever stale values concurrent record_failed calls write, whichever
\* statement fails, and wherever a crash falls: a lock is there, run out or
\* not, exactly when the count has reached max_failed_logins.
LockMatchesCount ==
  \A u \in Users :
    users[u].locked # NoLock <=>
      users[u].failed > 0 /\ users[u].failed >= MaxFailed

\* No account is ever locked for longer than lockout_minutes from now on,
\* however many failures are recorded together or on top of each other.
FreezeBounded == \A u \in Users : users[u].locked <= now + Lockout

\* login decides on a copy of the row that other statements and the clock
\* overtake.  Whatever it decides was right at some moment of the attempt:
\* the password did match, or did not, or the account was frozen; and a
\* password is only taken as a guess if the clock has reached a locked_until
\* that the account had during the attempt.
OutcomeJustified(l) ==
  LET facts == seen[l].facts IN
  /\ pc'[l] \in {"reset", "count"} => seen[l].least <= now
  /\ pc'[l] = "reset" => "match" \in facts
  /\ pc'[l] = "count" => "miss" \in facts
  /\ verdict'[l] = "locked" => "locked" \in facts
  /\ verdict'[l] = "bad" => "miss" \in facts

OutcomesJustified ==
  [][\A l \in Logins : pc[l] \in Deciding => OutcomeJustified(l)]_vars

\* A login that is answered with an error or a refusal has left no session
\* behind, whichever of its statements failed, and one that is answered with
\* a cookie has its session.
SessionOnlyIfOk ==
  \A l \in Logins : pc[l] = "reply" => (session[l] <=> verdict[l] = "ok")

\* "5 failures -> ... freeze": an account with max_failed_logins failures
\* since its last reset has a lock.  It holds of logins that come one by one.
MaxFailuresFreeze ==
  \A u \in Users : MaxFailed > 0 /\ misses[u] >= MaxFailed => users[u].locked # NoLock

\* "... 15 min freeze": a frozen account opens because its time has come or
\* because the count is reset.  It holds of logins that come one by one.
FreezeEndsByTimeOrReset ==
  [][\A u \in Users :
       Frozen(users[u], now) /\ ~Frozen(users'[u], now')
         => now' > now \/ users'[u].failed = 0]_vars

=============================================================================
