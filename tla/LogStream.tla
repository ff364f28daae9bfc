----------------------------- MODULE LogStream -----------------------------
(***************************************************************************)
(* stream_journal and stream_docker: the websocket tasks that pass on the  *)
(* lines of a source, journalctl's stdout or the docker daemon's stream,   *)
(* while they listen for the client to leave.                              *)
(*                                                                         *)
(* Each round of the loop is a select! between the source and the socket,  *)
(* and drops the future that loses.  A line comes out of the source in two *)
(* parts, numbered 2k-1 and 2k, so a future may be dropped with half a     *)
(* line read: the buffer belongs to the reader, not to the future.         *)
(***************************************************************************)
EXTENDS Integers, Sequences

CONSTANTS MaxLines  \* bound of the lines that the source writes

ASSUME StreamAssumption == MaxLines \in Nat

VARIABLES
  kind,     \* "journal" or "docker"
  source,   \* "open" or "ended"; what is in the pipe can be read after that
  child,    \* the process of journalctl: "none", "running", "exited" or
            \* "killed" while it has not been waited for, "reaped"
  written,  \* how many parts the source has written
  taken,    \* how many of them the task has read
  client,   \* "open", "closed" by a Close message, or "broken"
  inbox,    \* whether a message other than Close is waiting
  pc,       \* what the task does next
  buf,      \* the parts of a line that it has read and not sent
  shown,    \* the lines it has sent
  failed    \* whether a read has returned an error

vars == <<kind, source, child, written, taken, client, inbox, pc, buf, shown, failed>>

Init ==
  /\ kind \in {"journal", "docker"}
  /\ source = "open"
  /\ child = "none"
  /\ written = 0
  /\ taken = 0
  /\ client = "open"
  /\ inbox = FALSE
  /\ pc = "start"
  /\ buf = <<>>
  /\ shown = <<>>
  /\ failed = FALSE

-----------------------------------------------------------------------------
(* The task.                                                               *)

\* Mutant of Dropped: without kill_on_drop(true).
DroppedAlive == child

\* The child after its handle has been dropped, which kill_on_drop(true) kills.
Dropped == IF child = "running" THEN "killed" ELSE child

\* The way out of the loop: `break` and child.kill(), or `return`.
Leave == pc' = IF kind = "journal" THEN "kill" ELSE "done"

\* Command::spawn()? or docker.logs(), which connects only when it is polled.
Start ==
  /\ pc = "start"
  /\ \/ /\ pc' = "select"
        /\ child' = IF kind = "journal" THEN "running" ELSE "none"
     \/ /\ kind = "journal"
        /\ pc' = "done"
        /\ UNCHANGED child
  /\ UNCHANGED <<kind, source, written, taken, client, inbox, buf, shown, failed>>

EndOfLine(part) == part % 2 = 0

\* The source's future is polled and takes a part; at the end of a line it is
\* ready.
Poll ==
  /\ pc = "select"
  /\ taken < written
  /\ taken' = taken + 1
  /\ buf' = Append(buf, taken')
  /\ pc' = IF EndOfLine(taken') THEN "send" ELSE "select"
  /\ UNCHANGED <<kind, source, child, written, client, inbox, shown, failed>>

\* A read fails: next_line on bytes that are not UTF-8, or the daemon's stream.
\* `line?` returns and drops the child; stream_docker sends a notice, whose
\* own failure it ignores, and returns.
PollFails ==
  /\ pc = "select"
  /\ taken < written
  /\ failed' = TRUE
  /\ pc' = "done"
  /\ child' = Dropped
  /\ UNCHANGED <<kind, source, written, taken, client, inbox, buf, shown>>

\* The source has ended.  What is left in the buffer is a last line without
\* its end; after it there is None.
PollEnd ==
  /\ pc = "select"
  /\ source = "ended"
  /\ taken = written
  /\ IF buf = <<>> THEN Leave ELSE pc' = "send"
  /\ UNCHANGED <<kind, source, child, written, taken, client, inbox, buf, shown, failed>>

\* Mutant of Send: the buffer is not emptied.
SendKeeping ==
  /\ pc = "send"
  /\ \/ /\ pc' = "select"
        /\ shown' = Append(shown, buf)
     \/ /\ client # "open"
        /\ Leave
        /\ UNCHANGED shown
  /\ UNCHANGED <<kind, source, child, written, taken, client, inbox, buf, failed>>

\* sock.send: its error leaves the loop.  A send to a client that is gone may
\* still succeed.
Send ==
  /\ pc = "send"
  /\ buf' = <<>>
  /\ \/ /\ pc' = "select"
        /\ shown' = Append(shown, buf)
     \/ /\ client # "open"
        /\ Leave
        /\ UNCHANGED shown
  /\ UNCHANGED <<kind, source, child, written, taken, client, inbox, failed>>

\* Mutants of Hear: the source's future takes its half line with it when it is
\* dropped; any message ends the loop.
HearForgetting ==
  /\ pc = "select"
  /\ inbox
  /\ inbox' = FALSE
  /\ buf' = <<>>
  /\ UNCHANGED <<kind, source, child, written, taken, client, pc, shown, failed>>

HearAsClose ==
  /\ pc = "select"
  /\ inbox
  /\ inbox' = FALSE
  /\ Leave
  /\ UNCHANGED <<kind, source, child, written, taken, client, buf, shown, failed>>

\* sock.recv() with a message other than Close: the loop goes on.
Hear ==
  /\ pc = "select"
  /\ inbox
  /\ inbox' = FALSE
  /\ UNCHANGED <<kind, source, child, written, taken, client, pc, buf, shown, failed>>

\* sock.recv() with a Close, an error or the end of the stream.
Recv ==
  /\ pc = "select"
  /\ ~inbox
  /\ client # "open"
  /\ Leave
  /\ UNCHANGED <<kind, source, child, written, taken, client, inbox, buf, shown, failed>>

\* child.kill().await: SIGKILL, and waiting for the child.
Kill ==
  /\ pc = "kill"
  /\ pc' = "done"
  /\ child' = "reaped"
  /\ UNCHANGED <<kind, source, written, taken, client, inbox, buf, shown, failed>>

Task == Start \/ Poll \/ PollFails \/ PollEnd \/ Send \/ Hear \/ Recv \/ Kill

-----------------------------------------------------------------------------
(* The world: the source, the client, and tokio's reaper of children whose  *)
(* handles have been dropped.                                               *)

Write ==
  /\ pc # "start"
  /\ source = "open"
  /\ kind = "journal" => child = "running"
  /\ written < 2 * MaxLines
  /\ written' = written + 1
  /\ UNCHANGED <<kind, source, child, taken, client, inbox, pc, buf, shown, failed>>

\* journalctl dies, or the container stops.
SourceEnds ==
  /\ pc # "start"
  /\ source = "open"
  /\ source' = "ended"
  /\ child' = IF child = "running" THEN "exited" ELSE child
  /\ UNCHANGED <<kind, written, taken, client, inbox, pc, buf, shown, failed>>

ClientSends ==
  /\ client = "open"
  /\ inbox' = TRUE
  /\ UNCHANGED <<kind, source, child, written, taken, client, pc, buf, shown, failed>>

ClientLeaves ==
  /\ client = "open"
  /\ client' \in {"closed", "broken"}
  /\ UNCHANGED <<kind, source, child, written, taken, inbox, pc, buf, shown, failed>>

Reap ==
  /\ pc = "done"
  /\ child \in {"exited", "killed"}
  /\ child' = "reaped"
  /\ UNCHANGED <<kind, source, written, taken, client, inbox, pc, buf, shown, failed>>

World == Write \/ SourceEnds \/ ClientSends \/ ClientLeaves \/ Reap

Next == Task \/ World

Spec == Init /\ [][Next]_vars

\* The executor runs the task whenever it can go on, and select! polls its two
\* branches in random order, so one that is ready again and again is taken.
\* tokio waits for the children whose handles have been dropped.
FairSpec ==
  /\ Spec
  /\ WF_vars(Task)
  /\ SF_vars(Poll \/ PollFails \/ PollEnd)
  /\ SF_vars(Hear)
  /\ SF_vars(Recv)
  /\ WF_vars(Reap)

-----------------------------------------------------------------------------
(* Properties.                                                             *)

Parts == 1 .. 2 * MaxLines

TypeOK ==
  /\ kind \in {"journal", "docker"}
  /\ source \in {"open", "ended"}
  /\ child \in {"none", "running", "exited", "killed", "reaped"}
  /\ kind = "docker" => child = "none"
  /\ written \in 0 .. 2 * MaxLines
  /\ taken \in 0 .. written
  /\ client \in {"open", "closed", "broken"}
  /\ inbox \in BOOLEAN
  /\ pc \in {"start", "select", "send", "kill", "done"}
  /\ buf \in Seq(Parts) /\ Len(buf) <= 2
  /\ shown \in Seq(Seq(Parts))
  /\ failed \in BOOLEAN

Line(k) == <<2 * k - 1, 2 * k>>

\* Every line is shown whole, once and in order, whatever the client sends
\* while half a line has been read.  Only the last line of a source that has
\* ended may lack its end.
WholeLines ==
  \A k \in DOMAIN shown :
    \/ shown[k] = Line(k)
    \/ k = Len(shown) /\ source = "ended" /\ shown[k] = <<2 * k - 1>>

\* The stream does not stall: a line that the source has finished is shown,
\* unless the client leaves or a read fails.
LinesArrive ==
  \A k \in 1 .. MaxLines :
    (pc # "done" /\ written >= 2 * k)
      ~> (k \in DOMAIN shown \/ client # "open" \/ failed)

\* No journalctl is left behind, running or as a zombie, on any way out: the
\* client leaves, a send or a read fails, or journalctl ends by itself.
ChildReaped ==
  (client # "open" \/ failed \/ source = "ended")
    ~> (pc = "done" /\ child \in {"none", "reaped"})

=============================================================================
