----------------------------- MODULE Dashboard -----------------------------
(***************************************************************************)
(* The page: the log viewer, whose sockets deliver messages and close      *)
(* events when they please, and the table of services, whose loads may     *)
(* overtake each other.  The browser runs one handler at a time; the rest  *)
(* of the world goes on between two of them.                               *)
(***************************************************************************)
EXTENDS Integers, Sequences

CONSTANTS
  Logs,      \* what the buttons open
  Filters,   \* the choices of #svc-filter
  NoRows,    \* the table before the first answer
  MaxOpens,  \* bound of the sockets
  MaxLoads   \* bound of the loads in flight

ASSUME DashboardAssumption ==
  /\ NoRows \notin Filters
  /\ MaxOpens \in Nat
  /\ MaxLoads \in Nat

VARIABLES
  page,      \* "app", or "login" once the page has been left
  title,     \* #modal-title, NoLog while the modal is hidden
  paused,    \* logPaused
  out,       \* what is in #log-output: socket and "line" or "notice"
  cur,       \* logSocket, as its place in socks, 0 for null
  socks,     \* every WebSocket of the page: its log, its readyState, and how
             \* many messages wait for delivery
  filter,    \* the value of #svc-filter
  loads,     \* the filters of the loads in flight
  table,     \* the filter whose rows are in the table
  settled    \* history: no two loads overlapped and none failed since the
             \* table was last in order

viewerVars == <<title, paused, out, cur, socks>>
tableVars == <<filter, loads, table, settled>>
vars == <<page, viewerVars, tableVars>>

NoLog == "none"
States == {"connecting", "open", "closing", "closed"}

Init ==
  /\ page = "app"
  /\ title = NoLog
  /\ paused = FALSE
  /\ out = {}
  /\ cur = 0
  /\ socks = <<>>
  /\ filter \in Filters
  /\ loads = <<>>
  /\ table = NoRows
  /\ settled = TRUE

-----------------------------------------------------------------------------
(* The log viewer.                                                         *)

\* Mutant of Closed: the handle is dropped, the socket is not closed.
ClosedHandleOnly == socks

\* logSocket.close(): the socket delivers no message any more, and reports
\* that it has closed when the other side has agreed.
Closed ==
  IF cur # 0 /\ socks[cur].state # "closed"
  THEN [socks EXCEPT ![cur].state = "closing"]
  ELSE socks

\* Mutant of OpenLogs: without the call of closeLogs.
OpenLogsOnly(l) ==
  /\ page = "app"
  /\ Len(socks) < MaxOpens
  /\ title' = l /\ paused' = FALSE /\ out' = {}
  /\ socks' = Append(socks, [log |-> l, state |-> "connecting", inbox |-> 0])
  /\ cur' = Len(socks')
  /\ UNCHANGED <<page, tableVars>>

\* openLogs, which begins with closeLogs.
OpenLogs(l) ==
  /\ page = "app"
  /\ Len(socks) < MaxOpens
  /\ title' = l
  /\ paused' = FALSE
  /\ out' = {}
  /\ socks' = Append(Closed, [log |-> l, state |-> "connecting", inbox |-> 0])
  /\ cur' = Len(socks')
  /\ UNCHANGED <<page, tableVars>>

\* Mutant of CloseLogs: the modal stays, with the title of a socket that closes.
CloseLogsVisible ==
  /\ page = "app"
  /\ socks' = Closed
  /\ cur' = 0
  /\ UNCHANGED <<page, title, paused, out, tableVars>>

\* closeLogs, by its button or Escape, also when nothing is open.
CloseLogs ==
  /\ page = "app"
  /\ socks' = Closed
  /\ cur' = 0
  /\ title' = NoLog
  /\ UNCHANGED <<page, paused, out, tableVars>>

Pause ==
  /\ page = "app"
  /\ paused' = ~paused
  /\ UNCHANGED <<page, title, out, cur, socks, tableVars>>

Clear ==
  /\ page = "app"
  /\ out' = {}
  /\ UNCHANGED <<page, title, paused, cur, socks, tableVars>>

\* The message handler; a message that comes while the viewer is paused is
\* lost.
Message(i) ==
  /\ page = "app"
  /\ socks[i].state = "open"
  /\ socks[i].inbox > 0
  /\ socks' = [socks EXCEPT ![i].inbox = @ - 1]
  /\ out' = IF paused THEN out ELSE out \cup {<<i, "line">>}
  /\ UNCHANGED <<page, title, paused, cur, tableVars>>

\* The close event, after the messages that came before it: whatever socket it
\* is of, the notice goes into the output.
Close(i) ==
  /\ page = "app"
  /\ \/ socks[i].state \in {"connecting", "closing"}
     \/ socks[i].state = "open" /\ socks[i].inbox = 0
  /\ socks' = [socks EXCEPT ![i].state = "closed", ![i].inbox = 0]
  /\ out' = out \cup {<<i, "notice">>}
  /\ UNCHANGED <<page, title, paused, cur, tableVars>>

Connect(i) ==
  /\ socks[i].state = "connecting"
  /\ socks' = [socks EXCEPT ![i].state = "open"]
  /\ UNCHANGED <<page, title, paused, out, cur, tableVars>>

\* The server sends; what reaches a socket that is closing is not delivered.
Receive(i) ==
  /\ socks[i].state = "open"
  /\ socks[i].inbox = 0
  /\ socks' = [socks EXCEPT ![i].inbox = 1]
  /\ UNCHANGED <<page, title, paused, out, cur, tableVars>>

-----------------------------------------------------------------------------
(* The table of services.                                                  *)

\* loadServices(): the request carries the filter of this moment.
Load(f) ==
  /\ page = "app"
  /\ Len(loads) < MaxLoads
  /\ loads' = Append(loads, f)
  /\ settled' = (loads = <<>>)
  /\ UNCHANGED <<page, table, viewerVars>>

\* Mutant of Change: the listener is missing.
ChangeOnly(f) ==
  /\ page = "app"
  /\ filter' = f
  /\ UNCHANGED <<page, loads, table, settled, viewerVars>>

\* The user picks another filter.
Change(f) ==
  /\ f # filter
  /\ Load(f)
  /\ filter' = f

\* The refresh button, or the tab.
Refresh == Load(filter) /\ UNCHANGED filter

Without(k) == SubSeq(loads, 1, k - 1) \o SubSeq(loads, k + 1, Len(loads))

\* An answer, of any of the loads, replaces the rows.
Answer(k) ==
  /\ page = "app"
  /\ table' = loads[k]
  /\ loads' = Without(k)
  /\ UNCHANGED <<page, filter, settled, viewerVars>>

\* api() throws; nobody catches it, and the rows stay.
Fail(k) ==
  /\ page = "app"
  /\ loads' = Without(k)
  /\ settled' = FALSE
  /\ UNCHANGED <<page, filter, table, viewerVars>>

-----------------------------------------------------------------------------
\* 401, or the logout button, whether or not the server has heard of it: the
\* page is left, and the browser closes what it has open.
GoToLogin ==
  /\ page = "app"
  /\ page' = "login"
  /\ socks' = [i \in DOMAIN socks |-> [socks[i] EXCEPT !.state = "closed", !.inbox = 0]]
  /\ cur' = 0
  /\ title' = NoLog
  /\ loads' = <<>>
  /\ UNCHANGED <<paused, out, filter, table, settled>>

Next ==
  \/ \E l \in Logs : OpenLogs(l)
  \/ CloseLogs \/ Pause \/ Clear
  \/ \E i \in DOMAIN socks : Message(i) \/ Close(i) \/ Connect(i) \/ Receive(i)
  \/ \E f \in Filters : Change(f)
  \/ Refresh
  \/ \E k \in DOMAIN loads : Answer(k) \/ Fail(k)
  \/ GoToLogin

Spec == Init /\ [][Next]_vars

-----------------------------------------------------------------------------
(* Properties.                                                             *)

\* The type invariant; the title is that of the socket.
TypeOK ==
  /\ page \in {"app", "login"}
  /\ title \in Logs \cup {NoLog}
  /\ paused \in BOOLEAN
  /\ out \subseteq ((DOMAIN socks) \X {"line", "notice"})
  /\ socks \in Seq([log : Logs, state : States, inbox : {0, 1}])
  /\ cur \in 0 .. Len(socks)
  /\ title = IF cur = 0 THEN NoLog ELSE socks[cur].log
  /\ filter \in Filters
  /\ loads \in Seq(Filters)
  /\ table \in Filters \cup {NoRows}
  /\ settled \in BOOLEAN

\* The lines under a title are those of its log: a message of a log that was
\* open before never reaches the output, however fast the viewer is closed and
\* opened and whatever is still on its way.
OutputOfTitle == cur # 0 => \A x \in out : x[2] = "line" => x[1] = cur

\* The page keeps no stream that it does not show, so the server's task, and
\* its journalctl, end with the viewer: every socket but the current one has
\* been closed.
OneStream == \A i \in DOMAIN socks : socks[i].state \in {"connecting", "open"} => i = cur

\* When all answers are in, the table shows the services of the filter that is
\* chosen, unless two loads overlapped or one failed.
TableMatchesFilter ==
  page = "app" /\ loads = <<>> /\ settled => table \in {filter, NoRows}

=============================================================================
