--------------------------- MODULE SessionsProof ---------------------------
(* Proofs of the safety properties of Sessions, for every number of tokens *)
(* and concurrent requests, every TTL and every delay between steps.       *)
EXTENDS Sessions, TLAPS

-----------------------------------------------------------------------------
(* Type correctness.                                                       *)

\* The absence of a row is a value of the expiry, and so is a new expiry.
LEMMA TimesType ==
  ASSUME TypeOK
  PROVE  NoRow \in Times /\ now + TTL \in Times /\ now \in Times
BY SessionsAssumption DEF TypeOK, NoRow, Times

\* Blank locals are locals.
LEMMA BlankType == Blank \in Local
<1>1. NoRow \in Times /\ 0 \in 0 .. MaxNow
  BY SessionsAssumption DEF NoRow, Times
<1> QED
  BY <1>1 DEF Blank, Local, Kinds

LEMMA TypeInit == Init => TypeOK
<1>1. NoRow \in Times /\ 0 \in 0 .. MaxNow
  BY SessionsAssumption DEF NoRow, Times
<1> QED
  BY <1>1, BlankType DEF Init, TypeOK, Steps

\* What a step of a request keeps when it gives the request new locals.
LEMMA LocType ==
  ASSUME TypeOK, NEW r \in Requests, NEW b \in Local,
         loc' = [loc EXCEPT ![r] = b],
         NEW s \in Steps, Goto(r, s), s # "idle" => b.tok \in Tokens
  PROVE  /\ loc' \in [Requests -> Local]
         /\ pc' \in [Requests -> Steps]
         /\ \A q \in Requests : pc'[q] # "idle" => loc'[q].tok \in Tokens
BY DEF TypeOK, Goto

LEMMA FinishType ==
  ASSUME TypeOK, NEW r \in Requests, Finish(r)
  PROVE  /\ loc' \in [Requests -> Local]
         /\ pc' \in [Requests -> Steps]
         /\ \A q \in Requests : pc'[q] # "idle" => loc'[q].tok \in Tokens
BY BlankType DEF TypeOK, Finish, Goto, Steps

LEMMA TypeStep == TypeOK /\ [Next]_vars => TypeOK'
<1> SUFFICES ASSUME TypeOK, [Next]_vars
             PROVE  TypeOK'
  OBVIOUS
<1> DEFINE LocOK == /\ loc' \in [Requests -> Local]
                    /\ pc' \in [Requests -> Steps]
                    /\ \A q \in Requests : pc'[q] # "idle" => loc'[q].tok \in Tokens
<1>0. NoRow \in Times /\ now + TTL \in Times /\ now \in 0 .. MaxNow
  BY TimesType DEF TypeOK
<1>1. CASE UNCHANGED vars
  BY <1>1 DEF TypeOK, vars
<1>2. ASSUME NEW r \in Requests, NEW t \in Tokens, LoginBegin(r, t)
      PROVE  TypeOK'
  <2>1. [Blank EXCEPT !.tok = t, !.kind = "login", !.at = now, !.new = now + TTL] \in Local
    BY <1>0, BlankType DEF Local, Kinds
  <2>2. [Blank EXCEPT !.tok = t, !.kind = "login", !.at = now, !.new = now + TTL].tok = t
    BY DEF Blank
  <2>3. LocOK
    BY <1>2, <2>1, <2>2, LocType DEF LoginBegin, Steps
  <2> QED
    BY <1>2, <2>3 DEF TypeOK, LoginBegin
<1>3. ASSUME NEW r \in Requests, LoginInsert(r)
      PROVE  TypeOK'
  <2>1. loc[r] \in Local /\ loc[r].tok \in Tokens
    BY <1>3 DEF TypeOK, LoginInsert
  <2>2. [loc[r] EXCEPT !.at = now, !.new = NoRow] \in Local
    BY <1>0, <2>1 DEF Local
  <2>3. [loc[r] EXCEPT !.at = now, !.new = NoRow].tok = loc[r].tok
    BY <2>1 DEF Local
  <2>4. LocOK
    BY <1>3, <2>1, <2>2, <2>3, LocType DEF LoginInsert, Steps
  <2>5. loc[r].new \in Times /\ loc[r].at \in 0 .. MaxNow
    BY <2>1 DEF Local
  <2> QED
    BY <1>3, <2>4, <2>5 DEF TypeOK, LoginInsert
<1>4. ASSUME NEW r \in Requests, NEW t \in Tokens, NEW kind \in {"api", "logout"},
             Begin(r, t, kind)
      PROVE  TypeOK'
  <2>1. [Blank EXCEPT !.tok = t, !.kind = kind, !.at = now] \in Local
    BY <1>0, BlankType DEF Local, Kinds
  <2>2. [Blank EXCEPT !.tok = t, !.kind = kind, !.at = now].tok = t
    BY DEF Blank
  <2>3. LocOK
    BY <1>4, <2>1, <2>2, LocType DEF Begin, Steps
  <2> QED
    BY <1>4, <2>3 DEF TypeOK, Begin
<1>5. ASSUME NEW r \in Requests, FindActive(r)
      PROVE  TypeOK'
  <2>1. loc[r] \in Local /\ loc[r].tok \in Tokens /\ row[loc[r].tok] \in Times
    BY <1>5 DEF TypeOK, FindActive
  <2>2. [loc[r] EXCEPT !.at = now, !.exp = row[loc[r].tok]] \in Local
    BY <1>0, <2>1 DEF Local
  <2>3. [loc[r] EXCEPT !.at = now, !.exp = row[loc[r].tok]].tok = loc[r].tok
    BY <2>1 DEF Local
  <2>4. LocOK
    BY <1>5, <2>1, <2>2, <2>3, LocType, FinishType DEF FindActive, Steps
  <2> QED
    BY <1>5, <2>4 DEF TypeOK, FindActive
<1>6. ASSUME NEW r \in Requests, Slide(r)
      PROVE  TypeOK'
  <2>1. loc[r] \in Local /\ loc[r].tok \in Tokens
    BY <1>6 DEF TypeOK, Slide
  <2>2. NewExpiry(loc[r].exp, now) \in Times
    BY <1>0 DEF NewExpiry
  <2> DEFINE b == [loc[r] EXCEPT !.at = now, !.exp = NoRow,
                                 !.new = NewExpiry(loc[r].exp, now)]
  <2>3. b \in Local
    BY <1>0, <2>1, <2>2 DEF Local
  <2>4. b.tok = loc[r].tok
    BY <2>1 DEF Local
  <2>5. LocOK
    BY <1>6, <2>1, <2>3, <2>4, LocType DEF Slide, Steps
  <2> QED
    BY <1>6, <2>5 DEF TypeOK, Slide
<1>7. ASSUME NEW r \in Requests, Touch(r)
      PROVE  TypeOK'
  <2>1. loc[r] \in Local /\ loc[r].tok \in Tokens
    BY <1>7 DEF TypeOK, Touch
  <2>2. [loc[r] EXCEPT !.at = now, !.new = NoRow] \in Local
    BY <1>0, <2>1 DEF Local
  <2>3. [loc[r] EXCEPT !.at = now, !.new = NoRow].tok = loc[r].tok
    BY <2>1 DEF Local
  <2>4. LocOK
    BY <1>7, <2>1, <2>2, <2>3, LocType, FinishType DEF Touch, Steps
  <2>5. loc[r].new \in Times /\ loc[r].at \in 0 .. MaxNow
    BY <2>1 DEF Local
  <2>6. row' \in [Tokens -> Times]
    BY <1>7, <2>1, <2>5 DEF TypeOK, Touch, Updated
  <2>7. used' \in [Tokens -> 0 .. MaxNow]
    BY <1>7, <2>1, <2>5 DEF TypeOK, Touch
  <2> QED
    BY <1>7, <2>4, <2>6, <2>7 DEF TypeOK, Touch
<1>8. ASSUME NEW r \in Requests, Delete(r)
      PROVE  TypeOK'
  <2>1. loc[r] \in Local /\ loc[r].tok \in Tokens
    BY <1>8 DEF TypeOK, Delete
  <2>2. [loc[r] EXCEPT !.at = now] \in Local
    BY <1>0, <2>1 DEF Local
  <2>3. [loc[r] EXCEPT !.at = now].tok = loc[r].tok
    BY <2>1 DEF Local
  <2>4. LocOK
    BY <1>8, <2>1, <2>2, <2>3, LocType DEF Delete, Steps
  <2> QED
    BY <1>0, <1>8, <2>1, <2>4 DEF TypeOK, Delete
<1>9. ASSUME NEW r \in Requests, Reply(r)
      PROVE  TypeOK'
  <2>1. LocOK
    BY <1>9, FinishType DEF Reply
  <2> QED
    BY <1>0, <1>9, <2>1 DEF TypeOK, Reply
<1>10. ASSUME NEW r \in Requests, Fail(r)
       PROVE  TypeOK'
  <2>1. LocOK
    BY <1>10, FinishType DEF Fail
  <2> QED
    BY <1>10, <2>1 DEF TypeOK, Fail
<1>11. CASE Purge
  BY <1>0, <1>11 DEF TypeOK, Purge
<1>12. CASE Crash
  BY <1>12, BlankType DEF TypeOK, Crash, Steps
<1>13. CASE Tick
  BY <1>13, SessionsAssumption DEF TypeOK, Tick
<1> QED
  BY <1>1, <1>2, <1>3, <1>4, <1>5, <1>6, <1>7, <1>8, <1>9, <1>10, <1>11, <1>12, <1>13
     DEF Next, Step

\* Type correctness of the session table, the requests and the cookies.
THEOREM SessionsTypeCorrect == Spec => []TypeOK
BY TypeInit, TypeStep, PTL DEF Spec

-----------------------------------------------------------------------------
(* Deleted sessions.                                                       *)

\* The token of a login that is about to insert its row is that of nobody
\* else, but for requests that have guessed it and will not find the row.
Exclusive ==
  \A r \in Requests : pc[r] = "insert" =>
    /\ row[loc[r].tok] = NoRow
    /\ loc[r].tok \notin gone
    /\ \A q \in Requests \ {r} :
         loc[q].tok = loc[r].tok => pc[q] \in {"idle", "find"}

GoneInv == NeverResurrected /\ Exclusive

LEMMA GoneInit == Init => GoneInv
BY DEF Init, GoneInv, NeverResurrected, Exclusive

\* The steps that neither write a row nor change a token keep GoneInv.
LEMMA GoneKept ==
  ASSUME TypeOK, GoneInv, NEW r \in Requests,
         row' = row, gone' = gone,
         \A q \in Requests \ {r} : pc'[q] = pc[q] /\ loc'[q] = loc[q],
         pc'[r] # "insert",
         \/ pc'[r] \in {"idle", "find"}
         \/ loc'[r].tok = loc[r].tok /\ pc[r] \notin {"idle", "find"}
  PROVE  GoneInv'
BY DEF GoneInv, NeverResurrected, Exclusive

\* A step that writes no row but that of its own token, which no login is
\* about to insert, keeps Exclusive.
LEMMA ExclusiveKept ==
  ASSUME TypeOK, GoneInv, NEW r \in Requests,
         \A t \in Tokens \ {loc[r].tok} : row'[t] = row[t] /\ (t \in gone' => t \in gone),
         \A q \in Requests \ {r} : pc'[q] = pc[q] /\ loc'[q] = loc[q],
         pc'[r] # "insert",
         pc[r] \notin {"idle", "find"},
         pc'[r] = "idle" \/ loc'[r].tok = loc[r].tok
  PROVE  Exclusive'
<1> SUFFICES ASSUME NEW q \in Requests, pc'[q] = "insert"
             PROVE  /\ row'[loc'[q].tok] = NoRow
                    /\ loc'[q].tok \notin gone'
                    /\ \A k \in Requests \ {q} :
                         loc'[k].tok = loc'[q].tok => pc'[k] \in {"idle", "find"}
  BY DEF Exclusive
<1>1. q # r /\ pc[q] = "insert" /\ loc'[q] = loc[q] /\ loc[q].tok \in Tokens
  BY DEF TypeOK
<1>2. loc[r].tok # loc[q].tok
  BY <1>1 DEF GoneInv, Exclusive
<1>3. row'[loc[q].tok] = row[loc[q].tok] /\ loc[q].tok \notin gone'
  BY <1>1, <1>2 DEF GoneInv, Exclusive
<1>4. ASSUME NEW k \in Requests \ {q}, loc'[k].tok = loc[q].tok
      PROVE  pc'[k] \in {"idle", "find"}
  BY <1>1, <1>2, <1>4 DEF GoneInv, Exclusive
<1> QED
  BY <1>1, <1>3, <1>4 DEF GoneInv, Exclusive

LEMMA GoneStep == TypeOK /\ GoneInv /\ [Next]_vars => GoneInv'
<1> SUFFICES ASSUME TypeOK, GoneInv, [Next]_vars
             PROVE  GoneInv'
  OBVIOUS
<1>1. CASE UNCHANGED vars
  BY <1>1 DEF GoneInv, NeverResurrected, Exclusive, vars
<1>2. ASSUME NEW r \in Requests, NEW t \in Tokens, LoginBegin(r, t)
      PROVE  GoneInv'
  <2>1. /\ pc'[r] = "insert"
        /\ loc'[r].tok = t
        /\ \A q \in Requests \ {r} : pc'[q] = pc[q] /\ loc'[q] = loc[q]
        /\ row' = row /\ gone' = gone
    BY <1>2 DEF TypeOK, LoginBegin, Goto, Blank
  <2>2. /\ row[t] = NoRow
        /\ t \notin gone
        /\ \A q \in Requests : loc[q].tok # t
    BY <1>2 DEF LoginBegin, Fresh
  <2> QED
    BY <2>1, <2>2 DEF GoneInv, NeverResurrected, Exclusive
<1>3. ASSUME NEW r \in Requests, LoginInsert(r)
      PROVE  GoneInv'
  <2>1. /\ \A t \in Tokens \ {loc[r].tok} : row'[t] = row[t]
        /\ \A q \in Requests \ {r} : pc'[q] = pc[q] /\ loc'[q] = loc[q]
        /\ pc'[r] = "reply" /\ pc[r] = "insert" /\ gone' = gone
    BY <1>3 DEF TypeOK, LoginInsert, Goto
  <2>2. loc'[r].tok = loc[r].tok
    <3>1. loc[r] \in Local
      BY DEF TypeOK
    <3> QED
      BY <1>3, <3>1 DEF TypeOK, LoginInsert, Local
  <2>3. NeverResurrected'
    BY <2>1 DEF TypeOK, GoneInv, NeverResurrected, Exclusive
  <2> QED
    BY <2>1, <2>2, <2>3, ExclusiveKept DEF GoneInv
<1>4. ASSUME NEW r \in Requests, NEW t \in Tokens, NEW kind \in {"api", "logout"},
             Begin(r, t, kind)
      PROVE  GoneInv'
  BY <1>4, GoneKept DEF TypeOK, Begin, Goto
<1>5. ASSUME NEW r \in Requests, FindActive(r)
      PROVE  GoneInv'
  <2>1. CASE pc'[r] = "idle"
    BY <1>5, <2>1, GoneKept DEF TypeOK, FindActive, Finish, Goto
  <2>2. CASE pc'[r] # "idle"
    <3>1. /\ pc'[r] = "slide"
          /\ row[loc[r].tok] > now
          /\ loc' = [loc EXCEPT ![r] = [loc[r] EXCEPT !.at = now, !.exp = row[loc[r].tok]]]
          /\ \A q \in Requests \ {r} : pc'[q] = pc[q] /\ loc'[q] = loc[q]
          /\ row' = row /\ gone' = gone
      BY <1>5, <2>2 DEF TypeOK, FindActive, Finish, Goto
    <3>2. loc'[r].tok = loc[r].tok
      <4>1. loc[r] \in Local
        BY DEF TypeOK
      <4> QED
        BY <3>1, <4>1 DEF TypeOK, Local
    <3>3. row[loc[r].tok] # NoRow
      BY <3>1 DEF TypeOK, NoRow
    <3> QED
      BY <3>1, <3>2, <3>3 DEF GoneInv, NeverResurrected, Exclusive
  <2> QED
    BY <2>1, <2>2
<1>6. ASSUME NEW r \in Requests, Slide(r)
      PROVE  GoneInv'
  <2>1. loc'[r].tok = loc[r].tok
    <3>1. loc[r] \in Local
      BY DEF TypeOK
    <3> QED
      BY <1>6, <3>1 DEF TypeOK, Slide, Local
  <2> QED
    BY <1>6, <2>1, GoneKept DEF TypeOK, Slide, Goto
<1>7. ASSUME NEW r \in Requests, Touch(r)
      PROVE  GoneInv'
  <2>1. /\ \A t \in Tokens \ {loc[r].tok} : row'[t] = row[t]
        /\ \A t \in Tokens : row[t] = NoRow => row'[t] = NoRow
        /\ gone' = gone
    BY <1>7 DEF TypeOK, Touch, Updated
  <2>2. /\ \A q \in Requests \ {r} : pc'[q] = pc[q] /\ loc'[q] = loc[q]
        /\ pc'[r] \in {"idle", "delete"} /\ pc[r] = "touch"
    BY <1>7 DEF TypeOK, Touch, Finish, Goto
  <2>3. pc'[r] = "idle" \/ loc'[r].tok = loc[r].tok
    <3>1. loc[r] \in Local
      BY DEF TypeOK
    <3>2. [loc[r] EXCEPT !.at = now, !.new = NoRow].tok = loc[r].tok
      BY <3>1 DEF Local
    <3> QED
      BY <1>7, <3>2 DEF TypeOK, Touch, Finish, Goto
  <2>4. NeverResurrected'
    BY <2>1 DEF TypeOK, GoneInv, NeverResurrected
  <2> QED
    BY <2>1, <2>2, <2>3, <2>4, ExclusiveKept DEF GoneInv
<1>8. ASSUME NEW r \in Requests, Delete(r)
      PROVE  GoneInv'
  <2>1. /\ \A t \in Tokens \ {loc[r].tok} : row'[t] = row[t]
        /\ gone' = gone \cup {loc[r].tok}
        /\ \A q \in Requests \ {r} : pc'[q] = pc[q] /\ loc'[q] = loc[q]
        /\ pc'[r] = "reply" /\ pc[r] = "delete"
    BY <1>8 DEF TypeOK, Delete, Goto
  <2>2. loc'[r].tok = loc[r].tok
    <3>1. loc[r] \in Local
      BY DEF TypeOK
    <3> QED
      BY <1>8, <3>1 DEF TypeOK, Delete, Local
  <2>3. NeverResurrected'
    BY <1>8, <2>1 DEF TypeOK, GoneInv, NeverResurrected, Delete
  <2> QED
    BY <2>1, <2>2, <2>3, ExclusiveKept DEF GoneInv
<1>9. ASSUME NEW r \in Requests, Reply(r) \/ Fail(r)
      PROVE  GoneInv'
  BY <1>9, GoneKept DEF TypeOK, Reply, Fail, Finish, Goto
<1>10. CASE Purge
  BY <1>10 DEF TypeOK, GoneInv, NeverResurrected, Exclusive, Purge
<1>11. CASE Crash
  BY <1>11 DEF GoneInv, NeverResurrected, Exclusive, Crash
<1>12. CASE Tick
  BY <1>12 DEF GoneInv, NeverResurrected, Exclusive, Tick
<1> QED
  BY <1>1, <1>2, <1>3, <1>4, <1>5, <1>6, <1>7, <1>8, <1>9, <1>10, <1>11, <1>12
     DEF Next, Step

\* No session comes back after a logout or the purge has deleted it.
THEOREM SessionsNeverResurrected == Spec => []NeverResurrected
<1>1. GoneInv => NeverResurrected
  BY DEF GoneInv
<1> QED
  BY <1>1, TypeInit, TypeStep, GoneInit, GoneStep, PTL DEF Spec

-----------------------------------------------------------------------------
(* Expiry and use.                                                         *)

\* What the delay between steps bounds: the clock readings of a request, the
\* expiry it is about to write, and how far the row of its token can have
\* moved since it was read.
Timely(r) ==
  /\ pc[r] # "idle" => loc[r].at <= now /\ now <= loc[r].at + MaxDelay
  /\ pc[r] = "insert" => loc[r].new = loc[r].at + TTL
  /\ pc[r] = "slide" => loc[r].exp > loc[r].at
  /\ pc[r] = "touch" => loc[r].new \in {NoRow, loc[r].at + TTL}

SlideFloor(r) ==
  LET x == row[loc[r].tok] IN
  x = NoRow \/ x >= loc[r].exp \/ x >= loc[r].at + TTL - MaxDelay

TouchFloor(r) ==
  LET x == row[loc[r].tok] IN
  \/ x = NoRow
  \/ x >= loc[r].at + TTL - 2 * MaxDelay
  \/ x > loc[r].at - MaxDelay /\ (loc[r].new = NoRow => x >= loc[r].at + TTL \div 2)

DelayInv ==
  /\ \A t \in Tokens : used[t] <= now
  /\ \A r \in Requests :
       /\ Timely(r)
       /\ pc[r] = "slide" => SlideFloor(r)
       /\ pc[r] = "touch" => TouchFloor(r)

\* What a step can make of a row: leave it, delete it, or write an expiry that
\* was computed at most MaxDelay ago.
Rewritten(t) ==
  row'[t] = row[t] \/ row'[t] = NoRow \/ row'[t] >= now + TTL - MaxDelay

LEMMA StepRewrites ==
  ASSUME TypeOK, DelayInv, Next
  PROVE  \A t \in Tokens : Rewritten(t)
<1> SUFFICES ASSUME NEW t \in Tokens
             PROVE  Rewritten(t)
  OBVIOUS
<1> USE SessionsAssumption
<1>1. ASSUME NEW r \in Requests, LoginInsert(r)
      PROVE  Rewritten(t)
  <2>1. /\ loc[r].new = loc[r].at + TTL
        /\ now <= loc[r].at + MaxDelay
        /\ loc[r].at \in Int /\ now \in Int
    BY <1>1 DEF DelayInv, Timely, LoginInsert, TypeOK, Local
  <2>2. row'[t] = row[t] \/ row'[t] = loc[r].new
    BY <1>1 DEF TypeOK, LoginInsert
  <2> QED
    BY <2>1, <2>2 DEF Rewritten
<1>2. ASSUME NEW r \in Requests, Touch(r)
      PROVE  Rewritten(t)
  <2>1. /\ loc[r].new \in {NoRow, loc[r].at + TTL}
        /\ now <= loc[r].at + MaxDelay
        /\ loc[r].at \in Int /\ now \in Int
    BY <1>2 DEF DelayInv, Timely, Touch, TypeOK, Local
  <2>2. row'[t] = row[t] \/ (loc[r].new # NoRow /\ row'[t] = loc[r].new)
    BY <1>2 DEF TypeOK, Touch, Updated
  <2> QED
    BY <2>1, <2>2 DEF Rewritten
<1>3. ASSUME NEW r \in Requests,
             FindActive(r) \/ Slide(r) \/ Delete(r) \/ Reply(r) \/ Fail(r)
      PROVE  Rewritten(t)
  BY <1>3 DEF TypeOK, Rewritten, FindActive, Slide, Delete, Reply, Fail
<1>4. ASSUME NEW r \in Requests, NEW u \in Tokens,
             LoginBegin(r, u) \/ \E kind \in {"api", "logout"} : Begin(r, u, kind)
      PROVE  Rewritten(t)
  BY <1>4 DEF Rewritten, LoginBegin, Begin
<1>5. CASE Purge
  BY <1>5 DEF Rewritten, Purge
<1>6. CASE Crash \/ Tick
  BY <1>6 DEF Rewritten, Crash, Tick
<1> QED
  BY <1>1, <1>2, <1>3, <1>4, <1>5, <1>6 DEF Next, Step

\* A request whose step it is not, and which the clock does not leave behind,
\* stays timely, and the row of its token stays above its floor.
LEMMA FloorsKept ==
  ASSUME TypeOK, TypeOK', DelayInv, NEW r \in Requests,
         pc'[r] = pc[r], loc'[r] = loc[r],
         pc[r] # "idle" => Rewritten(loc[r].tok),
         now' = now \/ (now' = now + 1 /\ (pc[r] # "idle" => now < loc[r].at + MaxDelay))
  PROVE  /\ Timely(r)'
         /\ pc'[r] = "slide" => SlideFloor(r)'
         /\ pc'[r] = "touch" => TouchFloor(r)'
<1> USE SessionsAssumption
<1>1. now \in Int /\ loc[r].at \in Int /\ loc[r].exp \in Int
  BY DEF TypeOK, Local, Times
<1>2. Timely(r)'
  BY <1>1 DEF DelayInv, Timely
<1>3. ASSUME pc[r] \in {"slide", "touch"}
      PROVE  /\ row[loc[r].tok] \in Int /\ row'[loc[r].tok] \in Int
             /\ loc[r].at <= now
             /\ Rewritten(loc[r].tok)
  BY <1>3 DEF TypeOK, Times, DelayInv, Timely
<1>4. ASSUME pc[r] = "slide"
      PROVE  SlideFloor(r)'
  <2>1. SlideFloor(r)
    BY <1>4 DEF DelayInv
  <2> QED
    BY <1>1, <1>3, <1>4, <2>1 DEF SlideFloor, Rewritten
<1>5. ASSUME pc[r] = "touch"
      PROVE  TouchFloor(r)'
  <2>1. TouchFloor(r)
    BY <1>5 DEF DelayInv
  <2> QED
    BY <1>1, <1>3, <1>5, <2>1 DEF TouchFloor, Rewritten
<1> QED
  BY <1>2, <1>4, <1>5

LEMMA DelayInit == Init => DelayInv
BY SessionsAssumption DEF Init, DelayInv, Timely

\* A step of r that sets it right and leaves the other requests alone keeps
\* DelayInv.
LEMMA DelayKept ==
  ASSUME TypeOK, TypeOK', DelayInv, Next, NEW r \in Requests,
         now' = now,
         \A t \in Tokens : used'[t] <= now,
         \A q \in Requests \ {r} : pc'[q] = pc[q] /\ loc'[q] = loc[q],
         Timely(r)',
         pc'[r] = "slide" => SlideFloor(r)',
         pc'[r] = "touch" => TouchFloor(r)'
  PROVE  DelayInv'
<1>1. ASSUME NEW q \in Requests \ {r}
      PROVE  /\ Timely(q)'
             /\ pc'[q] = "slide" => SlideFloor(q)'
             /\ pc'[q] = "touch" => TouchFloor(q)'
  <2>1. pc[q] # "idle" => Rewritten(loc[q].tok)
    BY StepRewrites DEF TypeOK
  <2> QED
    BY <2>1, FloorsKept
<1> QED
  BY <1>1 DEF DelayInv

LEMMA DelayStep == TypeOK /\ TypeOK' /\ DelayInv /\ [Next]_vars => DelayInv'
<1> SUFFICES ASSUME TypeOK, TypeOK', DelayInv, [Next]_vars
             PROVE  DelayInv'
  OBVIOUS
<1> USE SessionsAssumption
<1>0. now \in Int /\ \A r \in Requests : loc[r] \in Local
  BY DEF TypeOK
<1>1. CASE UNCHANGED vars
  BY <1>1 DEF DelayInv, Timely, SlideFloor, TouchFloor, vars
<1>2. ASSUME NEW r \in Requests, NEW t \in Tokens, LoginBegin(r, t)
      PROVE  DelayInv'
  <2>1. pc'[r] = "insert" /\ loc'[r].at = now /\ loc'[r].new = now + TTL
    BY <1>2 DEF TypeOK, LoginBegin, Goto, Blank
  <2>2. Timely(r)'
    BY <1>0, <1>2, <2>1 DEF Timely, LoginBegin
  <2>3. Next
    BY <1>2 DEF Next
  <2> QED
    BY <1>2, <2>1, <2>2, <2>3, DelayKept DEF TypeOK, DelayInv, LoginBegin, Goto
<1>3. ASSUME NEW r \in Requests, LoginInsert(r)
      PROVE  DelayInv'
  <2>1. pc'[r] = "reply" /\ loc'[r].at = now
    BY <1>0, <1>3 DEF TypeOK, LoginInsert, Goto, Local
  <2>2. Timely(r)'
    BY <1>0, <1>3, <2>1 DEF Timely, LoginInsert
  <2>3. Next
    BY <1>3 DEF Next, Step
  <2>4. \A t \in Tokens : used'[t] <= now
    BY <1>3 DEF TypeOK, DelayInv, Timely, LoginInsert
  <2> QED
    BY <1>3, <2>1, <2>2, <2>3, <2>4, DelayKept DEF TypeOK, LoginInsert, Goto
<1>4. ASSUME NEW r \in Requests, NEW t \in Tokens, NEW kind \in {"api", "logout"},
             Begin(r, t, kind)
      PROVE  DelayInv'
  <2>1. pc'[r] = "find" /\ loc'[r].at = now
    BY <1>4 DEF TypeOK, Begin, Goto, Blank
  <2>2. Timely(r)'
    BY <1>0, <1>4, <2>1 DEF Timely, Begin
  <2>3. Next
    BY <1>4 DEF Next
  <2> QED
    BY <1>4, <2>1, <2>2, <2>3, DelayKept DEF TypeOK, DelayInv, Begin, Goto
<1>5. ASSUME NEW r \in Requests, FindActive(r)
      PROVE  DelayInv'
  <2>1. Next
    BY <1>5 DEF Next, Step
  <2>2. CASE Finish(r)
    <3>1. Timely(r)'
      BY <1>5, <2>2 DEF TypeOK, Timely, Finish, Goto
    <3> QED
      BY <1>5, <2>1, <2>2, <3>1, DelayKept DEF TypeOK, DelayInv, FindActive, Finish, Goto
  <2>3. CASE ~Finish(r)
    <3>1. /\ row[loc[r].tok] > now
          /\ Goto(r, "slide")
          /\ loc' = [loc EXCEPT ![r] = [loc[r] EXCEPT !.at = now, !.exp = row[loc[r].tok]]]
          /\ now' = now /\ row' = row /\ used' = used
      BY <1>5, <2>3 DEF FindActive
    <3>2. /\ pc'[r] = "slide"
          /\ loc'[r].tok = loc[r].tok
          /\ loc'[r].at = now
          /\ loc'[r].exp = row[loc[r].tok]
      BY <1>0, <3>1 DEF TypeOK, Goto, Local
    <3>3. Timely(r)'
      BY <1>0, <3>1, <3>2 DEF Timely
    <3>4. SlideFloor(r)'
      BY <1>0, <1>5, <3>1, <3>2 DEF SlideFloor, FindActive, TypeOK, Times
    <3> QED
      BY <2>1, <3>1, <3>2, <3>3, <3>4, DelayKept DEF TypeOK, DelayInv, Goto
  <2> QED
    BY <2>2, <2>3
<1>6. ASSUME NEW r \in Requests, Slide(r)
      PROVE  DelayInv'
  <2>1. Next
    BY <1>6 DEF Next, Step
  <2>2. /\ pc'[r] = "touch"
        /\ loc'[r].tok = loc[r].tok
        /\ loc'[r].at = now
        /\ loc'[r].new = NewExpiry(loc[r].exp, now)
    BY <1>0, <1>6 DEF TypeOK, Slide, Goto, Local
  <2>3. now' = now /\ row' = row /\ used' = used
    BY <1>6 DEF Slide
  <2>4. Timely(r)'
    BY <1>0, <2>2, <2>3 DEF Timely, NewExpiry
  <2>5. /\ row[loc[r].tok] \in Int /\ loc[r].at \in Int /\ loc[r].exp \in Int
        /\ now <= loc[r].at + MaxDelay
        /\ loc[r].exp > loc[r].at
        /\ SlideFloor(r)
    BY <1>6 DEF TypeOK, Slide, Local, Times, DelayInv, Timely
  <2>6. now + TTL # NoRow
    BY DEF TypeOK, NoRow
  <2>7. loc'[r].new = NoRow => loc[r].exp >= now + TTL \div 2
    BY <1>0, <2>2, <2>5, <2>6 DEF NewExpiry
  <2>8. TouchFloor(r)'
    BY <1>0, <2>2, <2>3, <2>5, <2>7 DEF TouchFloor, SlideFloor
  <2> QED
    BY <1>6, <2>1, <2>2, <2>3, <2>4, <2>8, DelayKept DEF TypeOK, DelayInv, Slide, Goto
<1>7. ASSUME NEW r \in Requests, Touch(r)
      PROVE  DelayInv'
  <2>1. Next
    BY <1>7 DEF Next, Step
  <2>2. [loc[r] EXCEPT !.at = now, !.new = NoRow].at = now
    BY <1>0 DEF Local
  <2>3. pc'[r] = "idle" \/ (pc'[r] = "delete" /\ loc'[r].at = now)
    BY <1>7, <2>2 DEF TypeOK, Touch, Finish, Goto
  <2>4. Timely(r)'
    BY <1>0, <1>7, <2>3 DEF Timely, Touch
  <2>5. \A t \in Tokens : used'[t] <= now
    BY <1>7 DEF TypeOK, DelayInv, Timely, Touch
  <2> QED
    BY <1>7, <2>1, <2>3, <2>4, <2>5, DelayKept DEF TypeOK, Touch, Finish, Goto
<1>8. ASSUME NEW r \in Requests, Delete(r)
      PROVE  DelayInv'
  <2>1. Next
    BY <1>8 DEF Next, Step
  <2>2. pc'[r] = "reply" /\ loc'[r].at = now
    BY <1>0, <1>8 DEF TypeOK, Delete, Goto, Local
  <2>3. Timely(r)'
    BY <1>0, <1>8, <2>2 DEF Timely, Delete
  <2> QED
    BY <1>8, <2>1, <2>2, <2>3, DelayKept DEF TypeOK, DelayInv, Delete, Goto
<1>9. ASSUME NEW r \in Requests, Reply(r) \/ Fail(r)
      PROVE  DelayInv'
  <2>1. Next
    BY <1>9 DEF Next, Step
  <2>2. Finish(r) /\ now' = now /\ used' = used
    BY <1>9 DEF Reply, Fail
  <2>3. pc'[r] = "idle"
    BY <2>2 DEF TypeOK, Finish, Goto
  <2>4. Timely(r)'
    BY <2>3 DEF Timely
  <2> QED
    BY <2>1, <2>2, <2>3, <2>4, DelayKept DEF TypeOK, DelayInv, Finish, Goto
<1>10. CASE Purge \/ Tick
  <2>1. Next
    BY <1>10 DEF Next
  <2>2. pc' = pc /\ loc' = loc /\ used' = used
    BY <1>10 DEF Purge, Tick
  <2>3. ASSUME NEW r \in Requests
        PROVE  /\ Timely(r)'
               /\ pc'[r] = "slide" => SlideFloor(r)'
               /\ pc'[r] = "touch" => TouchFloor(r)'
    <3>1. now' = now \/ (now' = now + 1 /\ (pc[r] # "idle" => now < loc[r].at + MaxDelay))
      BY <1>10 DEF Purge, Tick
    <3>2. pc[r] # "idle" => Rewritten(loc[r].tok)
      BY <2>1, StepRewrites DEF TypeOK
    <3> QED
      BY <2>2, <3>1, <3>2, FloorsKept
  <2>4. \A t \in Tokens : used'[t] <= now'
    BY <1>0, <1>10, <2>2 DEF DelayInv, Purge, Tick, TypeOK
  <2> QED
    BY <2>3, <2>4 DEF DelayInv
<1>11. CASE Crash
  BY <1>11 DEF DelayInv, Timely, Crash
<1> QED
  BY <1>1, <1>2, <1>3, <1>4, <1>5, <1>6, <1>7, <1>8, <1>9, <1>10, <1>11 DEF Next, Step

\* What a step can make of a row and of the latest use of its token: a row
\* that is written by an insertion or a touch is TTL after a clock reading that
\* is a use of the token.
LEMMA RowAndUse ==
  ASSUME TypeOK, DelayInv, Next, NEW t \in Tokens
  PROVE  \/ row'[t] = NoRow /\ used'[t] = used[t]
         \/ row'[t] = row[t] /\ used'[t] = used[t]
         \/ \E r \in Requests :
              /\ loc[r].tok = t /\ pc[r] = "insert"
              /\ row'[t] = loc[r].at + TTL /\ used'[t] = loc[r].at
         \/ \E r \in Requests :
              /\ loc[r].tok = t /\ pc[r] = "touch"
              /\ row'[t] = Updated(row[t], loc[r].new)
              /\ used'[t] = IF loc[r].at > used[t] THEN loc[r].at ELSE used[t]
<1>1. ASSUME NEW r \in Requests, LoginInsert(r)
      PROVE  \/ row'[t] = row[t] /\ used'[t] = used[t]
             \/ /\ loc[r].tok = t /\ pc[r] = "insert"
                /\ row'[t] = loc[r].at + TTL /\ used'[t] = loc[r].at
  BY <1>1 DEF TypeOK, DelayInv, Timely, LoginInsert
<1>2. ASSUME NEW r \in Requests, Touch(r)
      PROVE  \/ row'[t] = row[t] /\ used'[t] = used[t]
             \/ /\ loc[r].tok = t /\ pc[r] = "touch"
                /\ row'[t] = Updated(row[t], loc[r].new)
                /\ used'[t] = IF loc[r].at > used[t] THEN loc[r].at ELSE used[t]
  BY <1>2 DEF TypeOK, Touch
<1>3. ASSUME NEW r \in Requests,
             FindActive(r) \/ Slide(r) \/ Delete(r) \/ Reply(r) \/ Fail(r)
      PROVE  row'[t] \in {row[t], NoRow} /\ used'[t] = used[t]
  BY <1>3 DEF TypeOK, FindActive, Slide, Delete, Reply, Fail
<1>4. ASSUME NEW r \in Requests, NEW u \in Tokens,
             LoginBegin(r, u) \/ \E kind \in {"api", "logout"} : Begin(r, u, kind)
      PROVE  row'[t] = row[t] /\ used'[t] = used[t]
  BY <1>4 DEF LoginBegin, Begin
<1>5. CASE Purge \/ Crash \/ Tick
  BY <1>5 DEF Purge, Crash, Tick
<1> QED
  BY <1>1, <1>2, <1>3, <1>4, <1>5 DEF Next, Step

LEMMA UseInit == Init => DiesWhenIdle /\ LivesWhileUsed
BY SessionsAssumption DEF Init, DiesWhenIdle, LivesWhileUsed, NoRow

LEMMA DiesStep == TypeOK /\ DelayInv /\ DiesWhenIdle /\ [Next]_vars => DiesWhenIdle'
<1> SUFFICES ASSUME TypeOK, DelayInv, DiesWhenIdle, Next, NEW t \in Tokens
             PROVE  row'[t] <= used'[t] + TTL
  BY DEF DiesWhenIdle, vars
<1> USE SessionsAssumption
<1>0. used[t] \in Nat /\ row[t] \in Int /\ row[t] <= used[t] + TTL
  BY DEF TypeOK, Times, DiesWhenIdle
<1>1. CASE row'[t] = NoRow /\ used'[t] = used[t]
  BY <1>0, <1>1 DEF NoRow
<1>2. CASE row'[t] = row[t] /\ used'[t] = used[t]
  BY <1>0, <1>2
<1>3. ASSUME NEW r \in Requests, row'[t] = loc[r].at + TTL, used'[t] = loc[r].at
      PROVE  row'[t] <= used'[t] + TTL
  BY <1>3 DEF TypeOK, Local
<1>4. ASSUME NEW r \in Requests, pc[r] = "touch",
             row'[t] = Updated(row[t], loc[r].new),
             used'[t] = IF loc[r].at > used[t] THEN loc[r].at ELSE used[t]
      PROVE  row'[t] <= used'[t] + TTL
  <2>1. loc[r].at \in Int /\ loc[r].new \in {NoRow, loc[r].at + TTL}
    BY <1>4 DEF TypeOK, Local, DelayInv, Timely
  <2>2. used[t] <= used'[t] /\ loc[r].at <= used'[t] /\ used'[t] \in Int
    BY <1>0, <1>4, <2>1
  <2> QED
    BY <1>0, <1>4, <2>1, <2>2 DEF Updated
<1> QED
  BY <1>1, <1>2, <1>3, <1>4, RowAndUse

LEMMA LivesStep == TypeOK /\ DelayInv /\ LivesWhileUsed /\ [Next]_vars => LivesWhileUsed'
<1> SUFFICES ASSUME TypeOK, DelayInv, LivesWhileUsed, Next, NEW t \in Tokens,
                    2 * MaxDelay <= TTL - TTL \div 2, row'[t] # NoRow
             PROVE  row'[t] >= used'[t] + TTL \div 2
  BY DEF LivesWhileUsed, vars
<1> USE SessionsAssumption
<1>0. /\ used[t] \in Nat /\ row[t] \in Int /\ used[t] <= now /\ now \in Nat
      /\ row[t] # NoRow => row[t] >= used[t] + TTL \div 2
  BY DEF TypeOK, Times, DelayInv, LivesWhileUsed
<1>1. CASE row'[t] = row[t] /\ used'[t] = used[t]
  BY <1>0, <1>1
<1>2. ASSUME NEW r \in Requests, row'[t] = loc[r].at + TTL, used'[t] = loc[r].at
      PROVE  row'[t] >= used'[t] + TTL \div 2
  BY <1>2 DEF TypeOK, Local
<1>3. ASSUME NEW r \in Requests, loc[r].tok = t, pc[r] = "touch",
             row'[t] = Updated(row[t], loc[r].new),
             used'[t] = IF loc[r].at > used[t] THEN loc[r].at ELSE used[t]
      PROVE  row'[t] >= used'[t] + TTL \div 2
  <2>1. /\ loc[r].at \in Int /\ loc[r].new \in {NoRow, loc[r].at + TTL}
        /\ loc[r].at <= now /\ now <= loc[r].at + MaxDelay
        /\ TouchFloor(r)
    BY <1>3 DEF TypeOK, Local, DelayInv, Timely
  <2>2. row[t] # NoRow
    BY <1>3 DEF Updated
  <2>3. CASE loc[r].new = NoRow
    <3>1. row'[t] = row[t]
      BY <1>3, <2>3 DEF Updated
    <3>2. row[t] >= loc[r].at + TTL \div 2
      BY <1>0, <1>3, <2>1, <2>2, <2>3 DEF TouchFloor
    <3> QED
      BY <1>0, <1>3, <2>1, <2>2, <3>1, <3>2
  <2>4. CASE loc[r].new # NoRow
    <3>1. row'[t] = loc[r].at + TTL
      BY <1>3, <2>1, <2>2, <2>4 DEF Updated
    <3>2. used'[t] <= now /\ used'[t] \in Int
      BY <1>0, <1>3, <2>1
    <3>3. loc[r].at + TTL >= now + TTL - MaxDelay
      BY <1>0, <2>1
    <3> QED
      BY <1>0, <2>1, <3>1, <3>2, <3>3
  <2> QED
    BY <2>3, <2>4
<1> QED
  BY <1>1, <1>2, <1>3, RowAndUse

\* A session dies TTL after its latest use at the latest, whichever of several
\* racing touches writes last.
THEOREM SessionsDieWhenIdle == Spec => []DiesWhenIdle
<1>1. TypeOK /\ [Next]_vars => TypeOK'
  BY TypeStep
<1> QED
  BY <1>1, TypeInit, DelayInit, DelayStep, UseInit, DiesStep, PTL DEF Spec

\* A session that is used is kept for at least TTL/2 from then on, if requests
\* do not dawdle for a quarter of TTL between two of their steps.
THEOREM SessionsLiveWhileUsed == Spec => []LivesWhileUsed
<1>1. TypeOK /\ [Next]_vars => TypeOK'
  BY TypeStep
<1> QED
  BY <1>1, TypeInit, DelayInit, DelayStep, UseInit, LivesStep, PTL DEF Spec

\* A request that finds its session in time can extend it after it has run out
\* by no more than the delay of its two steps.
LEMMA DeadStep ==
  TypeOK /\ GoneInv /\ DelayInv /\ [Next]_vars
    => [\A t \in Tokens :
          /\ 2 * MaxDelay < TTL
          /\ row[t] # NoRow
          /\ row[t] + 2 * MaxDelay <= now
          => row'[t] <= row[t]]_vars
<1> SUFFICES ASSUME TypeOK, GoneInv, DelayInv, Next, NEW t \in Tokens,
                    2 * MaxDelay < TTL, row[t] # NoRow, row[t] + 2 * MaxDelay <= now
             PROVE  row'[t] <= row[t]
  BY DEF vars
<1> USE SessionsAssumption
<1>0. row[t] \in Int /\ row[t] >= NoRow /\ now \in Nat
  BY DEF TypeOK, Times, NoRow
<1>1. CASE row'[t] = NoRow \/ row'[t] = row[t]
  BY <1>0, <1>1 DEF NoRow
<1>2. ASSUME NEW r \in Requests, loc[r].tok = t, pc[r] = "insert"
      PROVE  FALSE
  BY <1>2 DEF GoneInv, Exclusive
<1>3. ASSUME NEW r \in Requests, loc[r].tok = t, pc[r] = "touch"
      PROVE  FALSE
  <2>1. /\ loc[r].at \in Int /\ now <= loc[r].at + MaxDelay
        /\ TouchFloor(r)
    BY <1>3 DEF TypeOK, Local, DelayInv, Timely
  <2>2. row[t] >= loc[r].at + TTL - 2 * MaxDelay \/ row[t] > loc[r].at - MaxDelay
    BY <1>3, <2>1 DEF TouchFloor
  <2> QED
    BY <1>0, <2>1, <2>2
<1> QED
  BY <1>1, <1>2, <1>3, RowAndUse

\* A session that has been expired for longer than that is never extended.
THEOREM ExpiredSessionsStayDead == Spec => ExpiredStaysDead
<1>1. TypeOK /\ [Next]_vars => TypeOK'
  BY TypeStep
<1> QED
  BY <1>1, TypeInit, GoneInit, GoneStep, DelayInit, DelayStep, DeadStep, PTL
     DEF Spec, ExpiredStaysDead

-----------------------------------------------------------------------------
(* The refinement of SessionLease.                                         *)

\* The token of a request that has found its row still has it, or has been
\* deleted since: a logout that deletes no row ends nothing.
Found ==
  \A r \in Requests : pc[r] \in {"slide", "touch", "delete"} =>
    row[loc[r].tok] # NoRow \/ loc[r].tok \in gone

LEMMA FoundInit == Init => Found
BY DEF Init, Found

\* A step after which every row that is lost is in gone keeps Found for the
\* requests that keep their token.
LEMMA FoundKept ==
  ASSUME TypeOK, Found,
         \A t \in Tokens : row[t] # NoRow => row'[t] # NoRow \/ t \in gone',
         gone \subseteq gone',
         NEW q \in Requests,
         pc'[q] \in {"slide", "touch", "delete"} =>
           loc'[q].tok = loc[q].tok /\ pc[q] \in {"slide", "touch", "delete"},
         pc'[q] \in {"slide", "touch", "delete"}
  PROVE  row'[loc'[q].tok] # NoRow \/ loc'[q].tok \in gone'
BY DEF TypeOK, Found

LEMMA FoundStep == TypeOK /\ DelayInv /\ Found /\ [Next]_vars => Found'
<1> SUFFICES ASSUME TypeOK, DelayInv, Found, [Next]_vars
             PROVE  Found'
  OBVIOUS
<1> USE SessionsAssumption
<1>0. now \in Nat /\ \A r \in Requests : loc[r] \in Local
  BY DEF TypeOK
<1>1. CASE UNCHANGED vars
  BY <1>1 DEF Found, vars
<1>2. ASSUME NEW r \in Requests, NEW t \in Tokens,
             LoginBegin(r, t) \/ \E kind \in {"api", "logout"} : Begin(r, t, kind)
      PROVE  Found'
  <2>1. /\ pc'[r] \in {"insert", "find"} /\ row' = row /\ gone' = gone
        /\ \A q \in Requests \ {r} : pc'[q] = pc[q] /\ loc'[q] = loc[q]
    BY <1>2 DEF TypeOK, LoginBegin, Begin, Goto
  <2> QED
    BY <2>1 DEF Found
<1>3. ASSUME NEW r \in Requests, LoginInsert(r)
      PROVE  Found'
  <2>1. /\ pc'[r] = "reply" /\ gone' = gone
        /\ \A q \in Requests \ {r} : pc'[q] = pc[q] /\ loc'[q] = loc[q]
    BY <1>3 DEF TypeOK, LoginInsert, Goto
  <2>2. loc[r].tok \in Tokens /\ loc[r].new = loc[r].at + TTL /\ loc[r].at \in Nat
    BY <1>0, <1>3 DEF TypeOK, LoginInsert, DelayInv, Timely, Local
  <2>3. \A t \in Tokens : row[t] # NoRow => row'[t] # NoRow
    BY <1>3, <2>2 DEF TypeOK, LoginInsert, NoRow
  <2> QED
    BY <2>1, <2>3 DEF Found, TypeOK
<1>4. ASSUME NEW r \in Requests, FindActive(r) \/ Slide(r)
      PROVE  Found'
  <2>1. /\ row' = row /\ gone' = gone
        /\ \A q \in Requests \ {r} : pc'[q] = pc[q] /\ loc'[q] = loc[q]
    BY <1>4 DEF TypeOK, FindActive, Slide, Finish, Goto
  <2>2. pc'[r] = "idle" \/ loc'[r].tok = loc[r].tok
    <3>1. /\ [loc[r] EXCEPT !.at = now, !.exp = row[loc[r].tok]].tok = loc[r].tok
          /\ [loc[r] EXCEPT !.at = now, !.exp = NoRow,
                            !.new = NewExpiry(loc[r].exp, now)].tok = loc[r].tok
      BY <1>0 DEF Local
    <3> QED
      BY <1>4, <3>1 DEF TypeOK, FindActive, Slide, Finish, Goto
  <2>3. pc[r] = "slide" \/ pc'[r] = "idle" \/ row[loc[r].tok] # NoRow
    BY <1>0, <1>4 DEF TypeOK, FindActive, Slide, Finish, Goto, NoRow
  <2> QED
    BY <2>1, <2>2, <2>3 DEF Found
<1>5. ASSUME NEW r \in Requests, Touch(r)
      PROVE  Found'
  <2>1. /\ \A t \in Tokens : row[t] # NoRow => row'[t] # NoRow
        /\ gone' = gone
    BY <1>5 DEF TypeOK, Touch, Updated
  <2>2. /\ \A q \in Requests \ {r} : pc'[q] = pc[q] /\ loc'[q] = loc[q]
        /\ pc'[r] \in {"idle", "delete"} /\ pc[r] = "touch"
    BY <1>5 DEF TypeOK, Touch, Finish, Goto
  <2>3. pc'[r] = "idle" \/ loc'[r].tok = loc[r].tok
    <3>1. [loc[r] EXCEPT !.at = now, !.new = NoRow].tok = loc[r].tok
      BY <1>0 DEF Local
    <3> QED
      BY <1>5, <3>1 DEF TypeOK, Touch, Finish, Goto
  <2> QED
    BY <2>1, <2>2, <2>3, FoundKept DEF Found
<1>6. ASSUME NEW r \in Requests, Delete(r)
      PROVE  Found'
  <2>1. /\ \A q \in Requests \ {r} : pc'[q] = pc[q] /\ loc'[q] = loc[q]
        /\ pc'[r] = "reply"
        /\ gone' = gone \cup {loc[r].tok}
        /\ \A t \in Tokens \ {loc[r].tok} : row'[t] = row[t]
    BY <1>6 DEF TypeOK, Delete, Goto
  <2> QED
    BY <2>1, FoundKept DEF Found
<1>7. ASSUME NEW r \in Requests, Reply(r) \/ Fail(r)
      PROVE  Found'
  <2>1. /\ \A q \in Requests \ {r} : pc'[q] = pc[q] /\ loc'[q] = loc[q]
        /\ pc'[r] = "idle" /\ row' = row /\ gone' = gone
    BY <1>7 DEF TypeOK, Reply, Fail, Finish, Goto
  <2> QED
    BY <2>1 DEF Found
<1>8. CASE Purge
  BY <1>8, FoundKept DEF Found, Purge
<1>9. CASE Crash
  BY <1>9 DEF Found, Crash
<1>10. CASE Tick
  BY <1>10 DEF Found, Tick
<1> QED
  BY <1>1, <1>2, <1>3, <1>4, <1>5, <1>6, <1>7, <1>8, <1>9, <1>10 DEF Next, Step

\* The initial table holds no lease.
LEMMA LeaseInit == Init => Lease!Init
BY DEF Init, Lease!Init, NoRow, Lease!NoLease

\* A login grants a lease.
LEMMA InsertGrants ==
  ASSUME TypeOK, GoneInv, DelayInv, NEW r \in Requests, LoginInsert(r)
  PROVE  Lease!Grant(loc[r].tok)
<1> USE SessionsAssumption
<1>1. row[loc[r].tok] = NoRow /\ loc[r].tok \notin gone
  BY DEF GoneInv, Exclusive, LoginInsert
<1>2. loc[r].new \in Lease!Terms
  <2>1. /\ now \in Int /\ loc[r].at \in Int /\ loc[r].new = loc[r].at + TTL
        /\ loc[r].at <= now /\ now <= loc[r].at + MaxDelay
    BY DEF TypeOK, Local, DelayInv, Timely, LoginInsert
  <2> QED
    BY <2>1 DEF Lease!Terms
<1> QED
  BY <1>1, <1>2 DEF Lease!Grant, Lease!NoLease, NoRow, LoginInsert

\* A touch renews a lease that still runs, or that ran out while the request
\* was between its statements; or it changes nothing.
LEMMA TouchRenews ==
  ASSUME TypeOK, DelayInv, NEW r \in Requests, Touch(r)
  PROVE  Lease!Renew(loc[r].tok) \/ UNCHANGED Lease!vars
<1> USE SessionsAssumption
<1>1. CASE row[loc[r].tok] = NoRow \/ loc[r].new = NoRow
  BY <1>1 DEF Touch, Updated, TypeOK, Lease!vars
<1>2. CASE row[loc[r].tok] # NoRow /\ loc[r].new # NoRow
  <2>1. /\ now \in Int /\ loc[r].at \in Int /\ row[loc[r].tok] \in Int
        /\ loc[r].new = loc[r].at + TTL
        /\ loc[r].at <= now /\ now <= loc[r].at + MaxDelay
        /\ TouchFloor(r)
    BY <1>2 DEF TypeOK, Local, Times, DelayInv, Timely, Touch
  <2>2. loc[r].new \in Lease!Terms
    BY <2>1 DEF Lease!Terms
  <2>3. 2 * MaxDelay < TTL => now < row[loc[r].tok] + 2 * MaxDelay
    <3>1. \/ row[loc[r].tok] >= loc[r].at + TTL - 2 * MaxDelay
          \/ row[loc[r].tok] > loc[r].at - MaxDelay
      BY <1>2, <2>1 DEF TouchFloor
    <3> QED
      BY <2>1, <3>1
  <2> QED
    BY <1>2, <2>2, <2>3 DEF Touch, Updated, Lease!Renew, Lease!NoLease, NoRow
<1> QED
  BY <1>1, <1>2

\* A logout ends the lease it has found, if nobody else has.
LEMMA DeleteEnds ==
  ASSUME TypeOK, GoneInv, Found, NEW r \in Requests, Delete(r)
  PROVE  Lease!End(loc[r].tok) \/ UNCHANGED Lease!vars
<1>1. CASE row[loc[r].tok] = NoRow
  <2>1. loc[r].tok \in gone
    BY <1>1 DEF Found, Delete
  <2> QED
    BY <1>1, <2>1 DEF Delete, TypeOK, Lease!vars
<1>2. CASE row[loc[r].tok] # NoRow
  BY <1>2 DEF Delete, TypeOK, Lease!End, Lease!Ended, Lease!NoLease, NoRow
<1> QED
  BY <1>1, <1>2

\* The purge ends the leases that have run out, all of them and no other.
LEMMA PurgeEnds ==
  ASSUME TypeOK, Purge
  PROVE  Lease!EndRunOut \/ UNCHANGED Lease!vars
<1> DEFINE dead == {t \in Tokens : row[t] # NoRow /\ Expired(row[t], now)}
<1>1. dead = Lease!RunOut
  BY DEF Expired, Lease!RunOut, Lease!NoLease, NoRow
<1>2. /\ row' = [t \in Tokens |-> IF t \in dead THEN NoRow ELSE row[t]]
      /\ gone' = gone \cup dead /\ now' = now
  BY DEF Purge
<1>3. CASE dead = {}
  BY <1>2, <1>3 DEF TypeOK, Lease!vars
<1>4. CASE dead # {}
  BY <1>1, <1>2, <1>4 DEF Lease!EndRunOut, Lease!Ended, Lease!NoLease, NoRow
<1> QED
  BY <1>3, <1>4

LEMMA LeaseStep ==
  TypeOK /\ GoneInv /\ DelayInv /\ Found /\ [Next]_vars => [Lease!Next]_(Lease!vars)
<1> SUFFICES ASSUME TypeOK, GoneInv, DelayInv, Found, [Next]_vars
             PROVE  Lease!Next \/ UNCHANGED Lease!vars
  OBVIOUS
<1>1. CASE UNCHANGED vars
  BY <1>1 DEF vars, Lease!vars
<1>2. ASSUME NEW r \in Requests, LoginInsert(r)
      PROVE  Lease!Next
  BY <1>2, InsertGrants DEF Lease!Next, TypeOK, LoginInsert
<1>3. ASSUME NEW r \in Requests, Touch(r)
      PROVE  Lease!Next \/ UNCHANGED Lease!vars
  BY <1>3, TouchRenews DEF Lease!Next, TypeOK, Touch
<1>4. ASSUME NEW r \in Requests, Delete(r)
      PROVE  Lease!Next \/ UNCHANGED Lease!vars
  BY <1>4, DeleteEnds DEF Lease!Next, TypeOK, Delete
<1>5. CASE Purge
  BY <1>5, PurgeEnds DEF Lease!Next
<1>6. CASE Tick
  BY <1>6 DEF Tick, Lease!Next, Lease!Tick
<1>7. ASSUME NEW r \in Requests,
             \/ \E t \in Tokens :
                  LoginBegin(r, t) \/ \E kind \in {"api", "logout"} : Begin(r, t, kind)
             \/ FindActive(r) \/ Slide(r) \/ Reply(r) \/ Fail(r)
      PROVE  UNCHANGED Lease!vars
  BY <1>7 DEF LoginBegin, Begin, FindActive, Slide, Reply, Fail, Lease!vars
<1>8. CASE Crash
  BY <1>8 DEF Crash, Lease!vars
<1> QED
  BY <1>1, <1>2, <1>3, <1>4, <1>5, <1>6, <1>7, <1>8 DEF Next, Step

\* The statements of the code, however they race, change the session table as
\* SessionLease allows and in no other way: the safety half of ImplementsLease.
THEOREM SessionsImplementLease == Spec => Lease!Init /\ [][Lease!Next]_(Lease!vars)
<1>1. TypeOK /\ [Next]_vars => TypeOK'
  BY TypeStep
<1> QED
  BY <1>1, TypeInit, GoneInit, GoneStep, DelayInit, DelayStep, FoundInit, FoundStep,
     LeaseInit, LeaseStep, PTL DEF Spec
=============================================================================
