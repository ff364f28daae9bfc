--------------------------- MODULE DashboardProof ---------------------------
(***************************************************************************)
(* Proofs about the page: the log viewer and the table of services, for    *)
(* any number of sockets, messages and loads.                              *)
(***************************************************************************)
EXTENDS Dashboard, SequenceTheorems, TLAPS

Sock == [log : Logs, state : States, inbox : {0, 1}]
Live == {"connecting", "open"}

\* The inductive invariant of the log viewer.  The output is that of the title
\* because only the socket of the title is live; the page being "app" or
\* "login" does not matter.
ViewInv ==
  /\ page \in {"app", "login"}
  /\ paused \in BOOLEAN
  /\ socks \in Seq(Sock)
  /\ cur \in 0 .. Len(socks)
  /\ title \in Logs \cup {NoLog}
  /\ title = IF cur = 0 THEN NoLog ELSE socks[cur].log
  /\ out \subseteq ((DOMAIN socks) \X {"line", "notice"})
  /\ OutputOfTitle
  /\ OneStream

\* While no load has overlapped another or failed, there is one at most, and it
\* asks for the filter that is chosen.
TableInv ==
  /\ filter \in Filters
  /\ loads \in Seq(Filters)
  /\ table \in Filters \cup {NoRows}
  /\ settled \in BOOLEAN
  /\ page = "app" /\ settled =>
       /\ Len(loads) <= 1
       /\ Len(loads) = 0 => table \in {filter, NoRows}
       /\ Len(loads) = 1 => loads[1] = filter

-----------------------------------------------------------------------------
(* The sockets.                                                            *)

\* The places of the sockets.
LEMMA SockPlaces ==
  ASSUME socks \in Seq(Sock)
  PROVE  Len(socks) \in Nat /\ DOMAIN socks = 1 .. Len(socks)
         /\ \A i \in DOMAIN socks : socks[i] \in Sock
<1>1. Len(socks) \in Nat /\ DOMAIN socks = 1 .. Len(socks)
  BY LenProperties
<1>2. \A i \in 1 .. Len(socks) : socks[i] \in Sock
  BY ElementOfSeq
<1> QED  BY <1>1, <1>2

\* A handler changes one socket and keeps the others.
LEMMA Replaced ==
  ASSUME socks \in Seq(Sock), NEW i \in DOMAIN socks, NEW e \in Sock
  PROVE  LET s == [socks EXCEPT ![i] = e] IN
         /\ s \in Seq(Sock)
         /\ Len(s) = Len(socks) /\ DOMAIN s = DOMAIN socks
         /\ s[i] = e
         /\ \A j \in DOMAIN socks \ {i} : s[j] = socks[j]
<1> DEFINE s == [socks EXCEPT ![i] = e]
<1>1. Len(socks) \in Nat /\ DOMAIN socks = 1 .. Len(socks)
  BY SockPlaces
<1>2. i \in 1 .. Len(socks)
  BY <1>1
<1>3. s \in Seq(Sock) /\ Len(s) = Len(socks)
  BY <1>2, ExceptSeq
<1>4. DOMAIN s = DOMAIN socks /\ s[i] = e /\ \A j \in DOMAIN socks \ {i} : s[j] = socks[j]
  OBVIOUS
<1> QED  BY <1>3, <1>4

\* logSocket.close() leaves no socket live, and each with its log.
LEMMA ClosedSocks ==
  ASSUME ViewInv
  PROVE  /\ Closed \in Seq(Sock)
         /\ Len(Closed) = Len(socks) /\ DOMAIN Closed = DOMAIN socks
         /\ \A i \in DOMAIN socks : Closed[i].state \notin Live
<1> USE DEF ViewInv
<1>1. /\ Len(socks) \in Nat /\ DOMAIN socks = 1 .. Len(socks)
      /\ \A i \in DOMAIN socks : socks[i] \in Sock
  BY SockPlaces
<1>2. CASE cur # 0 /\ socks[cur].state # "closed"
  <2> DEFINE e == [socks[cur] EXCEPT !.state = "closing"]
  <2>1. cur \in DOMAIN socks
    BY <1>1, <1>2
  <2>2. socks[cur] \in Sock
    BY <1>1, <2>1
  <2>3. e \in Sock /\ e.state = "closing"
    BY <2>2 DEF Sock, States
  <2>4. Closed = [socks EXCEPT ![cur] = e]
    BY <1>2 DEF Closed
  <2> HIDE DEF e
  <2>5. /\ Closed \in Seq(Sock)
        /\ Len(Closed) = Len(socks) /\ DOMAIN Closed = DOMAIN socks
        /\ Closed[cur] = e
        /\ \A j \in DOMAIN socks \ {cur} : Closed[j] = socks[j]
    BY <2>1, <2>3, <2>4, Replaced
  <2> QED  BY <2>3, <2>5 DEF OneStream, Live
<1>3. CASE cur = 0 \/ socks[cur].state = "closed"
  <2>1. Closed = socks
    BY <1>3 DEF Closed
  <2> QED  BY <1>1, <1>3, <2>1 DEF OneStream, Live
<1> QED  BY <1>2, <1>3

-----------------------------------------------------------------------------
(* The steps of the viewer.                                                *)

\* A log that is opened has an output of its own and the only live socket.
LEMMA OpenLogsKeeps ==
  ASSUME ViewInv, NEW l \in Logs, OpenLogs(l)
  PROVE  ViewInv'
<1> DEFINE e == [log |-> l, state |-> "connecting", inbox |-> 0]
           n == Len(socks) + 1
<1>1. Len(socks) \in Nat /\ DOMAIN socks = 1 .. Len(socks)
  BY SockPlaces DEF ViewInv
<1>2. e \in Sock /\ e.log = l
  BY DEF Sock, States
<1>3. /\ Closed \in Seq(Sock)
      /\ Len(Closed) = Len(socks) /\ DOMAIN Closed = DOMAIN socks
      /\ \A i \in DOMAIN socks : Closed[i].state \notin Live
  BY ClosedSocks
<1>4. socks' = Append(Closed, e) /\ cur' = Len(socks')
  BY DEF OpenLogs
<1> HIDE DEF e
<1>5. /\ socks' \in Seq(Sock)
      /\ Len(socks') = n
      /\ \A i \in 1 .. Len(socks) : socks'[i] = Closed[i]
      /\ socks'[n] = e
  BY <1>2, <1>3, <1>4, AppendProperties
<1>6. DOMAIN socks' = 1 .. Len(socks')
  BY <1>5, LenProperties
<1>7. cur' = n /\ cur' # 0 /\ cur' \in 0 .. Len(socks')
  BY <1>1, <1>4, <1>5
<1>8. OneStream'
  <2> SUFFICES ASSUME NEW i \in DOMAIN socks', i # n
               PROVE  socks'[i].state \notin Live
    BY <1>7 DEF OneStream, Live
  <2>1. i \in 1 .. Len(socks)
    BY <1>1, <1>5, <1>6
  <2> QED  BY <1>1, <1>3, <1>5, <2>1
<1>9. /\ title' = l /\ paused' = FALSE /\ out' = {} /\ page' = page
  BY DEF OpenLogs
<1>10. title' = IF cur' = 0 THEN NoLog ELSE socks'[cur'].log
  BY <1>2, <1>5, <1>7, <1>9
<1> QED  BY <1>5, <1>7, <1>8, <1>9, <1>10 DEF ViewInv, OutputOfTitle

\* A viewer that is closed has no title and no live socket.
LEMMA CloseLogsKeeps ==
  ASSUME ViewInv, CloseLogs
  PROVE  ViewInv'
<1>1. /\ Closed \in Seq(Sock)
      /\ Len(Closed) = Len(socks) /\ DOMAIN Closed = DOMAIN socks
      /\ \A i \in DOMAIN socks : Closed[i].state \notin Live
  BY ClosedSocks
<1>2. socks' = Closed /\ cur' = 0 /\ title' = NoLog /\ UNCHANGED <<page, paused, out>>
  BY DEF CloseLogs
<1>3. Len(socks') \in Nat
  BY <1>1, <1>2, LenProperties
<1> QED  BY <1>1, <1>2, <1>3 DEF ViewInv, OutputOfTitle, OneStream, Live

\* An event of a socket that adds a line only if the socket is live keeps the
\* output that of the title.
LEMMA EventKeeps ==
  ASSUME ViewInv, NEW i \in DOMAIN socks, NEW e \in Sock,
         socks' = [socks EXCEPT ![i] = e],
         e.log = socks[i].log, e.state \in Live => socks[i].state \in Live,
         out' \subseteq out \cup {<<i, "line">>, <<i, "notice">>},
         <<i, "line">> \in out' \ out => socks[i].state \in Live,
         UNCHANGED <<page, title, paused, cur>>
  PROVE  ViewInv'
<1>1. /\ socks' \in Seq(Sock)
      /\ Len(socks') = Len(socks) /\ DOMAIN socks' = DOMAIN socks
      /\ socks'[i] = e
      /\ \A j \in DOMAIN socks \ {i} : socks'[j] = socks[j]
  BY Replaced DEF ViewInv
<1>2. Len(socks) \in Nat /\ DOMAIN socks = 1 .. Len(socks)
  BY SockPlaces DEF ViewInv
<1>3. \A j \in DOMAIN socks :
        socks'[j].log = socks[j].log /\ (socks'[j].state \in Live => socks[j].state \in Live)
  BY <1>1
<1>4. title' = IF cur' = 0 THEN NoLog ELSE socks'[cur'].log
  BY <1>2, <1>3 DEF ViewInv
<1>5. OneStream'
  BY <1>1, <1>3 DEF ViewInv, OneStream, Live
<1>6. OutputOfTitle'
  <2> SUFFICES ASSUME cur # 0, NEW x \in out', x[2] = "line"
               PROVE  x[1] = cur
    BY DEF OutputOfTitle
  <2>1. CASE x \in out
    BY <2>1 DEF ViewInv, OutputOfTitle
  <2>2. CASE x = <<i, "line">> /\ x \notin out
    BY <2>2 DEF ViewInv, OneStream, Live
  <2> QED  BY <2>1, <2>2
<1>7. out' \subseteq ((DOMAIN socks') \X {"line", "notice"})
  BY <1>1 DEF ViewInv
<1> QED  BY <1>1, <1>4, <1>5, <1>6, <1>7 DEF ViewInv

\* What the events of a socket do to it.
LEMMA EventsKeep ==
  ASSUME ViewInv, NEW i \in DOMAIN socks,
         Message(i) \/ Close(i) \/ Connect(i) \/ Receive(i)
  PROVE  ViewInv'
<1>1. socks[i] \in Sock
  BY SockPlaces DEF ViewInv
<1>2. CASE Message(i)
  <2> DEFINE e == [socks[i] EXCEPT !.inbox = @ - 1]
  <2>1. e \in Sock /\ e.log = socks[i].log /\ e.state = socks[i].state
    BY <1>1, <1>2 DEF Sock, Message
  <2>2. socks' = [socks EXCEPT ![i] = e]
    BY <1>2 DEF Message
  <2> HIDE DEF e
  <2> QED  BY <1>2, <2>1, <2>2, EventKeeps DEF Message, Live
<1>3. CASE Close(i)
  <2> DEFINE e == [socks[i] EXCEPT !.state = "closed", !.inbox = 0]
  <2>1. e \in Sock /\ e.log = socks[i].log /\ e.state = "closed"
    BY <1>1 DEF Sock, States
  <2>2. socks' = [socks EXCEPT ![i] = e]
    BY <1>3 DEF Close
  <2> HIDE DEF e
  <2> QED  BY <1>3, <2>1, <2>2, EventKeeps DEF Close, Live
<1>4. CASE Connect(i)
  <2> DEFINE e == [socks[i] EXCEPT !.state = "open"]
  <2>1. e \in Sock /\ e.log = socks[i].log
    BY <1>1 DEF Sock, States
  <2>2. socks' = [socks EXCEPT ![i] = e]
    BY <1>4 DEF Connect
  <2> HIDE DEF e
  <2> QED  BY <1>4, <2>1, <2>2, EventKeeps DEF Connect, Live
<1>5. CASE Receive(i)
  <2> DEFINE e == [socks[i] EXCEPT !.inbox = 1]
  <2>1. e \in Sock /\ e.log = socks[i].log /\ e.state = socks[i].state
    BY <1>1 DEF Sock
  <2>2. socks' = [socks EXCEPT ![i] = e]
    BY <1>5 DEF Receive
  <2> HIDE DEF e
  <2> QED  BY <1>5, <2>1, <2>2, EventKeeps DEF Receive
<1> QED  BY <1>2, <1>3, <1>4, <1>5

\* The browser closes every socket of a page that is left.
LEMMA LeavingKeeps ==
  ASSUME ViewInv, GoToLogin
  PROVE  ViewInv'
<1>1. /\ Len(socks) \in Nat /\ DOMAIN socks = 1 .. Len(socks)
      /\ \A i \in DOMAIN socks : socks[i] \in Sock
  BY SockPlaces DEF ViewInv
<1>2. socks' = [i \in 1 .. Len(socks) |-> [socks[i] EXCEPT !.state = "closed", !.inbox = 0]]
  BY <1>1 DEF GoToLogin
<1>3. \A i \in 1 .. Len(socks) :
        /\ [socks[i] EXCEPT !.state = "closed", !.inbox = 0] \in Sock
        /\ [socks[i] EXCEPT !.state = "closed", !.inbox = 0].state = "closed"
  BY <1>1 DEF Sock, States
<1>4. /\ socks' \in [1 .. Len(socks) -> Sock]
      /\ \A i \in 1 .. Len(socks) : socks'[i].state = "closed"
  BY <1>2, <1>3
<1>5. socks' \in Seq(Sock) /\ DOMAIN socks' = 1 .. Len(socks)
  BY <1>1, <1>4
<1>6. Len(socks') \in Nat
  BY <1>5, LenProperties
<1>7. page' = "login" /\ cur' = 0 /\ title' = NoLog /\ UNCHANGED <<paused, out>>
  BY DEF GoToLogin
<1> QED  BY <1>1, <1>4, <1>5, <1>6, <1>7 DEF ViewInv, OutputOfTitle, OneStream

\* Every step of the page preserves the invariant of the viewer.
LEMMA ViewStep ==
  ASSUME ViewInv, [Next]_vars
  PROVE  ViewInv'
<1>1. ASSUME Pause \/ Clear  PROVE ViewInv'
  BY <1>1 DEF Pause, Clear, ViewInv, OutputOfTitle, OneStream
<1>2. ASSUME UNCHANGED <<page, viewerVars>>  PROVE ViewInv'
  BY <1>2 DEF viewerVars, ViewInv, OutputOfTitle, OneStream
<1>3. ASSUME \/ \E f \in Filters : Change(f)
             \/ Refresh
             \/ \E k \in DOMAIN loads : Answer(k) \/ Fail(k)
             \/ UNCHANGED vars
      PROVE  UNCHANGED <<page, viewerVars>>
  BY <1>3 DEF Change, Refresh, Load, Answer, Fail, vars
<1> QED  BY <1>1, <1>2, <1>3, OpenLogsKeeps, CloseLogsKeeps, EventsKeep, LeavingKeeps DEF Next

-----------------------------------------------------------------------------
(* The loads.                                                              *)

\* An answer or a failure takes its load out of those in flight.
LEMMA WithoutLoads ==
  ASSUME loads \in Seq(Filters), NEW k \in DOMAIN loads
  PROVE  Without(k) \in Seq(Filters) /\ Len(Without(k)) = Len(loads) - 1
<1> DEFINE a == SubSeq(loads, 1, k - 1)
           b == SubSeq(loads, k + 1, Len(loads))
<1>1. Len(loads) \in Nat /\ k \in 1 .. Len(loads)
  BY LenProperties
<1>2. \A i \in 1 .. Len(loads) : loads[i] \in Filters
  BY ElementOfSeq
<1>3. a \in Seq(Filters) /\ Len(a) = k - 1
  <2>1. \A i \in 1 .. k - 1 : loads[i] \in Filters
    BY <1>1, <1>2
  <2>2. a \in Seq(Filters) /\ Len(a) = IF 1 <= k - 1 THEN k - 1 - 1 + 1 ELSE 0
    BY <1>1, <2>1, SubSeqProperties
  <2> HIDE DEF a
  <2> QED  BY <1>1, <2>2
<1>4. b \in Seq(Filters) /\ Len(b) = Len(loads) - k
  <2>1. \A i \in k + 1 .. Len(loads) : loads[i] \in Filters
    BY <1>1, <1>2
  <2>2. b \in Seq(Filters)
        /\ Len(b) = IF k + 1 <= Len(loads) THEN Len(loads) - (k + 1) + 1 ELSE 0
    BY <1>1, <2>1, SubSeqProperties
  <2> HIDE DEF b
  <2> QED  BY <1>1, <2>2
<1> HIDE DEF a, b
<1>5. a \o b \in Seq(Filters) /\ Len(a \o b) = Len(a) + Len(b)
  BY <1>3, <1>4, ConcatProperties
<1>6. Without(k) = a \o b
  BY DEF Without, a, b
<1> QED  BY <1>1, <1>3, <1>4, <1>5, <1>6

\* A load that is sent when none is in flight is the only one, and is for the
\* filter that is chosen with it.
LEMMA LoadKeeps ==
  ASSUME TableInv, NEW f \in Filters, Load(f), filter' = f
  PROVE  TableInv'
<1>1. Len(loads) \in Nat /\ (loads = <<>> => Len(loads) = 0)
  BY LenProperties, EmptySeq DEF TableInv
<1>2. /\ loads' \in Seq(Filters)
      /\ Len(loads') = Len(loads) + 1
      /\ loads'[Len(loads) + 1] = f
  BY AppendProperties DEF TableInv, Load
<1>3. settled' \in BOOLEAN /\ (settled' => Len(loads) = 0) /\ UNCHANGED <<page, table>>
  BY <1>1 DEF Load
<1> QED  BY <1>1, <1>2, <1>3 DEF TableInv

\* The only load brings the rows of the filter that is chosen.
LEMMA AnswerKeeps ==
  ASSUME TableInv, NEW k \in DOMAIN loads, Answer(k)
  PROVE  TableInv'
<1>1. Len(loads) \in Nat /\ k \in 1 .. Len(loads)
  BY LenProperties DEF TableInv
<1>2. loads[k] \in Filters
  BY <1>1, ElementOfSeq DEF TableInv
<1>3. loads' \in Seq(Filters) /\ Len(loads') = Len(loads) - 1
  BY WithoutLoads DEF TableInv, Answer
<1>4. table' = loads[k] /\ UNCHANGED <<page, filter, settled>>
  BY DEF Answer
<1>5. page = "app" /\ settled => Len(loads') = 0 /\ table' = filter
  <2> SUFFICES ASSUME page = "app", settled
               PROVE  Len(loads') = 0 /\ table' = filter
    OBVIOUS
  <2>1. Len(loads) = 1 /\ k = 1
    BY <1>1 DEF TableInv
  <2> QED  BY <1>3, <1>4, <2>1 DEF TableInv
<1> QED  BY <1>2, <1>3, <1>4, <1>5 DEF TableInv

\* After a load that fails the table may be out of date.
LEMMA FailKeeps ==
  ASSUME TableInv, NEW k \in DOMAIN loads, Fail(k)
  PROVE  TableInv'
BY WithoutLoads DEF TableInv, Fail

\* Every step of the page preserves the invariant of the table.
LEMMA TableStep ==
  ASSUME TableInv, [Next]_vars
  PROVE  TableInv'
<1>1. ASSUME UNCHANGED <<page, tableVars>>  PROVE TableInv'
  BY <1>1 DEF tableVars, TableInv
<1>2. ASSUME \/ \E l \in Logs : OpenLogs(l)
             \/ CloseLogs \/ Pause \/ Clear
             \/ \E i \in DOMAIN socks : Message(i) \/ Close(i) \/ Connect(i) \/ Receive(i)
             \/ UNCHANGED vars
      PROVE  UNCHANGED <<page, tableVars>>
  BY <1>2 DEF OpenLogs, CloseLogs, Pause, Clear, Message, Close, Connect, Receive, vars
<1>3. ASSUME GoToLogin  PROVE TableInv'
  <2>1. loads' \in Seq(Filters)
    BY <1>3, EmptySeq DEF GoToLogin
  <2> QED  BY <1>3, <2>1 DEF GoToLogin, TableInv
<1>4. ASSUME NEW f \in Filters, Change(f)  PROVE TableInv'
  BY <1>4, LoadKeeps DEF Change
<1>5. ASSUME Refresh  PROVE TableInv'
  BY <1>5, LoadKeeps DEF Refresh, TableInv
<1> QED  BY <1>1, <1>2, <1>3, <1>4, <1>5, AnswerKeeps, FailKeeps DEF Next

-----------------------------------------------------------------------------
(* The theorems.                                                           *)

\* The page begins with no viewer, no socket and no load.
LEMMA PageStart == Init => ViewInv /\ TableInv
<1> SUFFICES ASSUME Init  PROVE ViewInv /\ TableInv
  OBVIOUS
<1>1. <<>> \in Seq(Sock) /\ <<>> \in Seq(Filters) /\ Len(<<>>) = 0
  BY EmptySeq
<1>2. socks \in Seq(Sock) /\ Len(socks) = 0 /\ DOMAIN socks = {}
  BY <1>1 DEF Init
<1>3. page = "app" /\ paused = FALSE /\ cur = 0 /\ title = NoLog /\ out = {}
  BY DEF Init
<1>4. ViewInv
  <2>1. OneStream /\ OutputOfTitle
    BY <1>2, <1>3 DEF OutputOfTitle, OneStream
  <2>2. cur \in 0 .. Len(socks)
    BY <1>2, <1>3
  <2>3. title = IF cur = 0 THEN NoLog ELSE socks[cur].log
    BY <1>3
  <2> QED  BY <1>2, <1>3, <2>1, <2>2, <2>3 DEF ViewInv
<1>5. TableInv
  BY <1>1 DEF Init, TableInv
<1> QED  BY <1>4, <1>5

\* Both invariants hold in every behaviour.
LEMMA PageInvariant == Spec => [](ViewInv /\ TableInv)
<1>1. ViewInv /\ TableInv /\ [Next]_vars => (ViewInv /\ TableInv)'
  BY ViewStep, TableStep
<1> QED  BY <1>1, PageStart, PTL DEF Spec

\* The type invariant: in particular the title is that of the socket.
THEOREM PageTypeCorrect == Spec => []TypeOK
<1>1. ViewInv /\ TableInv => TypeOK
  BY DEF ViewInv, TableInv, TypeOK, Sock
<1> QED  BY <1>1, PageInvariant, PTL

\* No line of a log that was open before comes under the title of another.
THEOREM PageOutputOfTitle == Spec => []OutputOfTitle
<1>1. ViewInv => OutputOfTitle
  BY DEF ViewInv
<1> QED  BY <1>1, PageInvariant, PTL

\* The page keeps no stream that it does not show.
THEOREM PageKeepsOneStream == Spec => []OneStream
<1>1. ViewInv => OneStream
  BY DEF ViewInv
<1> QED  BY <1>1, PageInvariant, PTL

\* When the answers are in, the rows are those of the filter that is chosen,
\* unless two loads overlapped or one failed.
THEOREM PageTableMatches == Spec => []TableMatchesFilter
<1>1. TableInv => TableMatchesFilter
  <2>1. Len(<<>>) = 0
    BY EmptySeq
  <2> QED  BY <2>1 DEF TableInv, TableMatchesFilter
<1> QED  BY <1>1, PageInvariant, PTL

=============================================================================
