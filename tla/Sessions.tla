------------------------------ MODULE Sessions ------------------------------
(***************************************************************************)
(* The life of a session: the row a login inserts, the sliding expiry that *)
(* every authenticated request applies to it, logout, the hourly purge,    *)
(* and the cookie the browser keeps.                                       *)
(*                                                                         *)
(* The AuthUser extractor reads a row, decides on a new expiry and writes  *)
(* it back in separate statements, so it races logouts, purges, the clock  *)
(* and other requests with the same token.  One action is one statement or *)
(* one reading of the clock.  sessions.last_seen is left out: no code      *)
(* reads it.                                                               *)
(***************************************************************************)
EXTENDS Integers

CONSTANTS
  Tokens,    \* session tokens; new_token() never draws one twice
  Requests,  \* requests that may be in progress together
  None,      \* the token of a request that is not in progress
  TTL,       \* session_ttl_secs
  MaxDelay,  \* the longest a request spends between two of its steps
  MaxNow     \* bound of the clock

\* busy_timeout (5 s) and the pool's connection timeout (30 s) bound the wait
\* of a statement; TTL is seven days.
ASSUME SessionsAssumption ==
  /\ None \notin Tokens
  /\ TTL \in Nat
  /\ MaxDelay \in Nat
  /\ MaxNow \in Nat

VARIABLES
  now,     \* db::now_unix()
  row,     \* sessions.expires_at of each token, NoRow if it has no row
  pc,      \* what a request does next
  loc,     \* its local variables
  cookie,  \* when the browser drops the cookie of a token
  gone,    \* history: tokens whose row has been deleted
  used     \* history: the clock reading of the latest completed use of a token

vars == <<now, row, pc, loc, cookie, gone, used>>

NoRow == -1

\* The locals of a request: its token, what it is for, when it took its last
\* step, the expiry it has read and the one it will write.
Blank == [tok |-> None, kind |-> "none", at |-> 0, exp |-> NoRow, new |-> NoRow]

Init ==
  /\ now = 0
  /\ row = [t \in Tokens |-> NoRow]
  /\ pc = [r \in Requests |-> "idle"]
  /\ loc = [r \in Requests |-> Blank]
  /\ cookie = [t \in Tokens |-> NoRow]
  /\ gone = {}
  /\ used = [t \in Tokens |-> 0]

Goto(r, step) == pc' = [pc EXCEPT ![r] = step]

\* The request is over.
Finish(r) ==
  /\ Goto(r, "idle")
  /\ loc' = [loc EXCEPT ![r] = Blank]

\* The tokens new_token() can still return.
Fresh ==
  {t \in Tokens : /\ row[t] = NoRow
                  /\ t \notin gone
                  /\ \A r \in Requests : loc[r].tok # t}

-----------------------------------------------------------------------------
(* Login, from sessions::create on.                                        *)

\* new_token(), and the clock reading of sessions::create.
LoginBegin(r, t) ==
  /\ pc[r] = "idle"
  /\ t \in Fresh
  /\ Goto(r, "insert")
  /\ loc' = [loc EXCEPT ![r] = [Blank EXCEPT !.tok = t, !.kind = "login",
                                             !.at = now, !.new = now + TTL]]
  /\ UNCHANGED <<now, row, cookie, gone, used>>

LoginInsert(r) ==
  LET t == loc[r].tok IN
  /\ pc[r] = "insert"
  /\ Goto(r, "reply")
  /\ row' = [row EXCEPT ![t] = loc[r].new]
  /\ used' = [used EXCEPT ![t] = loc[r].at]
  /\ loc' = [loc EXCEPT ![r] = [@ EXCEPT !.at = now, !.new = NoRow]]
  /\ UNCHANGED <<now, cookie, gone>>

-----------------------------------------------------------------------------
(* The AuthUser extractor, which runs before every other handler.          *)

\* A request arrives with a cookie.  "logout" deletes the session; every
\* other handler, and a logout without the XHR header, is an "api" request.
Begin(r, t, kind) ==
  /\ pc[r] = "idle"
  /\ Goto(r, "find")
  /\ loc' = [loc EXCEPT ![r] = [Blank EXCEPT !.tok = t, !.kind = kind, !.at = now]]
  /\ UNCHANGED <<now, row, cookie, gone, used>>

\* Mutant of FindActive: the query does not compare expires_at.
FindActiveAny(r) ==
  LET t == loc[r].tok IN
  /\ pc[r] = "find"
  /\ \/ /\ row[t] = NoRow
        /\ Finish(r)
     \/ /\ row[t] # NoRow
        /\ Goto(r, "slide")
        /\ loc' = [loc EXCEPT ![r] = [@ EXCEPT !.at = now, !.exp = row[t]]]
  /\ UNCHANGED <<now, row, cookie, gone, used>>

\* sessions::find_active: a row that has not expired, or the answer is 401.
FindActive(r) ==
  LET t == loc[r].tok IN
  /\ pc[r] = "find"
  /\ \/ /\ row[t] <= now
        /\ Finish(r)
     \/ /\ row[t] > now
        /\ Goto(r, "slide")
        /\ loc' = [loc EXCEPT ![r] = [@ EXCEPT !.at = now, !.exp = row[t]]]
  /\ UNCHANGED <<now, row, cookie, gone, used>>

\* Mutants of NewExpiry: the lifetime is added to the old expiry; the session
\* is extended only in the last quarter of its life.
NewExpiryFromOld(exp, t) == IF exp - t < TTL \div 2 THEN exp + TTL ELSE NoRow
NewExpiryLate(exp, t) == IF exp - t < TTL \div 4 THEN t + TTL ELSE NoRow

\* The expiry that touch will write at time t, NoRow for none.
NewExpiry(exp, t) == IF exp - t < TTL \div 2 THEN t + TTL ELSE NoRow

Slide(r) ==
  /\ pc[r] = "slide"
  /\ Goto(r, "touch")
  /\ loc' = [loc EXCEPT ![r] = [@ EXCEPT !.at = now, !.exp = NoRow,
                                            !.new = NewExpiry(loc[r].exp, now)]]
  /\ UNCHANGED <<now, row, cookie, gone, used>>

\* Mutant of Updated: INSERT OR REPLACE where the code has UPDATE.
UpdatedOrInserted(old, new) == IF new = NoRow THEN old ELSE new

\* What UPDATE sessions SET expires_at makes of a row: nothing if it is gone.
Updated(old, new) == IF old = NoRow \/ new = NoRow THEN old ELSE new

\* sessions::touch; the request is authenticated.
Touch(r) ==
  LET t == loc[r].tok IN
  /\ pc[r] = "touch"
  /\ row' = [row EXCEPT ![t] = Updated(@, loc[r].new)]
  /\ used' = [used EXCEPT ![t] = IF loc[r].at > @ THEN loc[r].at ELSE @]
  /\ \/ /\ loc[r].kind = "api"
        /\ Finish(r)
     \/ /\ loc[r].kind = "logout"
        /\ Goto(r, "delete")
        /\ loc' = [loc EXCEPT ![r] = [@ EXCEPT !.at = now, !.new = NoRow]]
  /\ UNCHANGED <<now, cookie, gone>>

-----------------------------------------------------------------------------
\* sessions::delete, in the logout handler.
Delete(r) ==
  LET t == loc[r].tok IN
  /\ pc[r] = "delete"
  /\ Goto(r, "reply")
  /\ row' = [row EXCEPT ![t] = NoRow]
  /\ gone' = gone \cup {t}
  /\ loc' = [loc EXCEPT ![r] = [@ EXCEPT !.at = now]]
  /\ UNCHANGED <<now, cookie, used>>

\* The browser takes Set-Cookie: Max-Age=TTL from a login, and the removal
\* from a logout.  No other answer sets a cookie.
Reply(r) ==
  LET t == loc[r].tok IN
  /\ pc[r] = "reply"
  /\ cookie' = [cookie EXCEPT ![t] = IF loc[r].kind = "login" THEN now + TTL ELSE NoRow]
  /\ Finish(r)
  /\ UNCHANGED <<now, row, gone, used>>

\* A `?`: no connection, or the statement fails; the answer is 500.
Fail(r) ==
  /\ pc[r] \in {"insert", "find", "touch", "delete"}
  /\ Finish(r)
  /\ UNCHANGED <<now, row, cookie, gone, used>>

\* Mutant of Expired: the comparison of the purge is the wrong way round.
ExpiredSwapped(exp, t) == exp > t

\* The rows that the purge deletes at time t.
Expired(exp, t) == exp < t

\* One run of the hourly task that AppState::spawn_session_purge starts.
Purge ==
  LET dead == {t \in Tokens : row[t] # NoRow /\ Expired(row[t], now)} IN
  /\ row' = [t \in Tokens |-> IF t \in dead THEN NoRow ELSE row[t]]
  /\ gone' = gone \cup dead
  /\ UNCHANGED <<now, pc, loc, cookie, used>>

\* The server dies; what its statements have committed stays.
Crash ==
  /\ pc' = [r \in Requests |-> "idle"]
  /\ loc' = [r \in Requests |-> Blank]
  /\ UNCHANGED <<now, row, cookie, gone, used>>

Tick ==
  /\ now < MaxNow
  /\ \A r \in Requests : pc[r] # "idle" => now < loc[r].at + MaxDelay
  /\ now' = now + 1
  /\ UNCHANGED <<row, pc, loc, cookie, gone, used>>

Step(r) ==
  \/ LoginInsert(r)
  \/ FindActive(r)
  \/ Slide(r)
  \/ Touch(r)
  \/ Delete(r)
  \/ Reply(r)
  \/ Fail(r)

Next ==
  \/ \E r \in Requests, t \in Tokens :
       \/ LoginBegin(r, t)
       \/ \E kind \in {"api", "logout"} : Begin(r, t, kind)
  \/ \E r \in Requests : Step(r)
  \/ Purge
  \/ Crash
  \/ Tick

Spec == Init /\ [][Next]_vars

\* The purge task loops for ever and goes on after an error.
FairSpec == Spec /\ WF_vars(Purge)

-----------------------------------------------------------------------------
(* Properties.                                                             *)

Steps == {"idle", "insert", "find", "slide", "touch", "delete", "reply"}
Kinds == {"none", "login", "api", "logout"}
Times == -1 .. MaxNow + TTL

\* The locals of a request.
Local == [tok : Tokens \cup {None}, kind : Kinds, at : 0 .. MaxNow, exp : Times, new : Times]

\* The type invariant; a request has a token until it is over.
TypeOK ==
  /\ now \in 0 .. MaxNow
  /\ row \in [Tokens -> Times]
  /\ pc \in [Requests -> Steps]
  /\ loc \in [Requests -> Local]
  /\ \A r \in Requests : pc[r] # "idle" => loc[r].tok \in Tokens
  /\ cookie \in [Tokens -> Times]
  /\ gone \in SUBSET Tokens
  /\ used \in [Tokens -> 0 .. MaxNow]

\* A session that a logout or the purge has deleted never exists again: no
\* request that authenticated before the deletion and touches after it, no
\* retry and no restart brings its row back.
NeverResurrected == \A t \in gone : row[t] = NoRow

\* "dies after 7 days inactive": no session outlives its latest use by more
\* than TTL, whichever of several racing touches is the last to write.
DiesWhenIdle == \A t \in Tokens : row[t] <= used[t] + TTL

\* The other half: a session that has been used lives for at least half of TTL
\* after that, even if the expiry written last is that of an older request.
\* So one request every TTL/2 keeps a session for ever.
LivesWhileUsed ==
  2 * MaxDelay <= TTL - TTL \div 2 =>
    \A t \in Tokens : row[t] # NoRow => row[t] >= used[t] + TTL \div 2

\* A request that found its session in time may extend it after it has run
\* out, but only by the delay between its steps: a session that has been
\* expired for longer stays so until it is purged.
ExpiredStaysDead ==
  [][\A t \in Tokens :
       /\ 2 * MaxDelay < TTL
       /\ row[t] # NoRow
       /\ row[t] + 2 * MaxDelay <= now
       => row'[t] <= row[t]]_vars

\* "Cookie extends on use, dies after 7 days inactive": the browser still
\* has the cookie of a live session that it has used within TTL.
CookieExtendsOnUse ==
  \A t \in Tokens :
    row[t] > now /\ cookie[t] # NoRow /\ now < used[t] + TTL => cookie[t] > now

\* What the code does with its races is what sessions promise: every statement
\* that changes the table grants, renews or ends leases as SessionLease allows.
\* Rows are leases, and the clock is the same.
Lease == INSTANCE SessionLease WITH expires <- row, ended <- gone

\* Sessions implements SessionLease, its fairness included: whatever race, crash
\* or failing statement there is, no lease is granted twice, extended when it
\* should be over or ended early by the purge, and a row whose time has passed
\* does not stay in the table.
ImplementsLease == Lease!Spec

=============================================================================
