------------------------------ MODULE TailFile ------------------------------
(***************************************************************************)
(* tail_file: the websocket task that follows the log file of a PM2 app    *)
(* while the app appends to it and a log rotator truncates or replaces it. *)
(*                                                                         *)
(* The bytes of the log are numbered in the order the app writes them, so  *)
(* a file holds an interval of numbers and "byte b" is told apart from     *)
(* every other byte whatever file it is in.  One action is one await of    *)
(* the task: an open, a metadata call, a read, a send or a receive.        *)
(***************************************************************************)
EXTENDS Integers, Sequences

CONSTANTS
  Initial,   \* TAIL_INITIAL_BYTES
  ChunkMax,  \* the bytes read at most per tick, 1 << 20
  MaxBytes,  \* bound of the bytes the app writes
  MaxFiles   \* bound of the files that bear the log's name one after another

ASSUME TailAssumption ==
  /\ Initial \in Nat
  /\ ChunkMax \in Nat \ {0}
  /\ MaxBytes \in Nat
  /\ MaxFiles \in Nat \ {0}

VARIABLES
  written,    \* how many bytes the app has written
  files,      \* the interval of bytes in each file, from base up to end
  cur,        \* the file that bears the log's name, or bore it last
  there,      \* whether it bears it now
  client,     \* "open", "closed" by a Close message, or "broken"
  pc,         \* what the task does next
  fd,         \* the file it has open
  len,        \* the length that metadata() has returned
  pos,        \* the offset it has read up to
  chunk,      \* the bytes it has read and not sent, from lo up to hi
  shown,      \* the bytes it has sent
  disturbed,  \* history: the log was truncated or removed since it was opened
  since,      \* history: the byte after the last one that Stat has counted
  head        \* history: how many bytes ReadTail has read

vars == <<written, files, cur, there, client, disturbed,
          pc, fd, len, pos, chunk, shown, since, head>>
\* What the task reads and never writes, and what it keeps itself.
world == <<written, files, cur, there, client, disturbed>>
task == <<pc, fd, len, pos, chunk, shown, since, head>>
marks == <<since, head>>

Files == 1 .. MaxFiles
NoBytes == [lo |-> 0, hi |-> 0]

AtMost(a, b) == IF a < b THEN a ELSE b

Size(f) == files[f].end - files[f].base

\* What a read of at most n bytes at offset o of file f returns.
Slice(f, o, n) ==
  IF o < Size(f)
  THEN [lo |-> files[f].base + o, hi |-> files[f].base + AtMost(o + n, Size(f))]
  ELSE NoBytes

Init ==
  /\ written = 0
  /\ files = [f \in Files |-> [base |-> 0, end |-> 0]]
  /\ cur = 1
  /\ there = TRUE
  /\ client = "open"
  /\ pc = "open"
  /\ fd = 1
  /\ len = 0
  /\ pos = 0
  /\ chunk = NoBytes
  /\ shown = <<>>
  /\ disturbed = FALSE
  /\ since = 0
  /\ head = 0

-----------------------------------------------------------------------------
(* The task.                                                               *)

\* `?`: an I/O error ends the task, whatever it has shown by then.
Fail ==
  /\ pc' = "failed"
  /\ UNCHANGED <<world, fd, len, pos, chunk, shown, marks>>

\* File::open(path)? fails if there is no file, or for want of a descriptor.
Open ==
  /\ pc = "open"
  /\ \/ /\ there
        /\ fd' = cur
        /\ pc' = "stat"
        /\ UNCHANGED <<world, len, pos, chunk, shown, marks>>
     \/ Fail

Stat ==
  /\ pc = "stat"
  /\ \/ /\ len' = Size(fd)
        /\ since' = files[fd].end
        /\ pc' = "read"
        /\ UNCHANGED <<world, fd, pos, chunk, shown, head>>
     \/ Fail

\* Mutant of ReadTail: pos is where the first read began, not where it ended.
ReadTailFromStart ==
  /\ pc = "read"
  /\ pos' = IF len > Initial THEN len - Initial ELSE 0
  /\ chunk' = Slice(fd, pos', MaxBytes)
  /\ head' = chunk'.hi - chunk'.lo
  /\ pc' = IF chunk' = NoBytes THEN "wait" ELSE "send"
  /\ UNCHANGED <<world, fd, len, shown, since>>

\* seek to the last Initial bytes of that length, read_to_end: up to where the
\* file ends by now.
ReadTail ==
  /\ pc = "read"
  /\ \/ /\ chunk' = LET start == IF len > Initial THEN len - Initial ELSE 0 IN
                    Slice(fd, start, MaxBytes)
        /\ pos' = len
        /\ head' = chunk'.hi - chunk'.lo
        /\ pc' = IF chunk' = NoBytes THEN "wait" ELSE "send"
        /\ UNCHANGED <<world, fd, len, shown, since>>
     \/ Fail

\* sock.send: an error ends the task.  A send to a client that is gone may
\* still succeed.
Send ==
  /\ pc = "send"
  /\ chunk' = NoBytes
  /\ \/ /\ pc' = "wait"
        /\ shown' = shown \o [i \in 1 .. chunk.hi - chunk.lo |-> chunk.lo + i - 1]
     \/ /\ client # "open"
        /\ pc' = "done"
        /\ UNCHANGED shown
  /\ UNCHANGED <<world, fd, len, pos, marks>>

\* tick.tick(), then File::open(path); without a file the loop continues.
Tick ==
  /\ pc = "wait"
  /\ there
  /\ fd' = cur
  /\ pc' = "restat"
  /\ UNCHANGED <<world, len, pos, chunk, shown, marks>>

\* Where to read on in a file of length n; a shorter file has been rotated.
Resume(n) == IF n < pos THEN 0 ELSE pos

Restat ==
  /\ pc = "restat"
  /\ \/ /\ len' = Size(fd)
        /\ pos' = Resume(len')
        /\ pc' = IF len' > pos' THEN "reread" ELSE "wait"
        /\ UNCHANGED <<world, fd, chunk, shown, marks>>
     \/ Fail

\* Mutants of Reread: pos moves to the new length although the read is capped;
\* pos moves by the size of the buffer.
RereadSkipping ==
  /\ pc = "reread"
  /\ chunk' = Slice(fd, pos, AtMost(len - pos, ChunkMax))
  /\ pos' = len
  /\ pc' = IF chunk' = NoBytes THEN "wait" ELSE "send"
  /\ UNCHANGED <<world, fd, len, shown, marks>>

RereadWholeBuffer ==
  /\ pc = "reread"
  /\ chunk' = Slice(fd, pos, AtMost(len - pos, ChunkMax))
  /\ pos' = pos + ChunkMax
  /\ pc' = IF chunk' = NoBytes THEN "wait" ELSE "send"
  /\ UNCHANGED <<world, fd, len, shown, marks>>

\* seek and read: what is between pos and the length, up to ChunkMax bytes,
\* or less if the file has been truncated since.
Reread ==
  /\ pc = "reread"
  /\ \/ /\ chunk' = Slice(fd, pos, AtMost(len - pos, ChunkMax))
        /\ pos' = pos + (chunk'.hi - chunk'.lo)
        /\ pc' = IF chunk' = NoBytes THEN "wait" ELSE "send"
        /\ UNCHANGED <<world, fd, len, shown, marks>>
     \/ Fail

\* Mutant of Recv: only Message::Close ends the loop, an error does not.
RecvCloseOnly ==
  /\ pc = "wait"
  /\ client = "closed"
  /\ pc' = "done"
  /\ UNCHANGED <<world, fd, len, pos, chunk, shown, marks>>

\* sock.recv(): a Close, an error or the end of the stream ends the loop.
Recv ==
  /\ pc = "wait"
  /\ client # "open"
  /\ pc' = "done"
  /\ UNCHANGED <<world, fd, len, pos, chunk, shown, marks>>

Task == Open \/ Stat \/ ReadTail \/ Send \/ Tick \/ Restat \/ Reread \/ Recv

-----------------------------------------------------------------------------
(* The world: the app, the log rotator and the client.                     *)

AppWrites ==
  /\ there
  /\ written < MaxBytes
  /\ written' = written + 1
  /\ files' = [files EXCEPT ![cur].end = written + 1]
  /\ UNCHANGED <<cur, there, client, disturbed, task>>

Disturb == disturbed' = (disturbed \/ pc # "open")

\* The rotator has copied the file and empties it.
Truncate ==
  /\ there
  /\ Size(cur) > 0
  /\ files' = [files EXCEPT ![cur] = [base |-> written, end |-> written]]
  /\ Disturb
  /\ UNCHANGED <<written, cur, there, client, task>>

\* The rotator renames the file, and the app opens a new one.
Remove ==
  /\ there
  /\ there' = FALSE
  /\ Disturb
  /\ UNCHANGED <<written, files, cur, client, task>>

Create ==
  /\ ~there
  /\ cur < MaxFiles
  /\ cur' = cur + 1
  /\ there' = TRUE
  /\ files' = [files EXCEPT ![cur + 1] = [base |-> written, end |-> written]]
  /\ UNCHANGED <<written, client, disturbed, task>>

ClientLeaves ==
  /\ client = "open"
  /\ client' \in {"closed", "broken"}
  /\ UNCHANGED <<written, files, cur, there, disturbed, task>>

World == AppWrites \/ Truncate \/ Remove \/ Create \/ ClientLeaves

Next == Task \/ World

Spec == Init /\ [][Next]_vars

\* The executor runs the task whenever it can go on.  In the loop select! polls
\* the two branches in random order and Tick is ready only every 500 ms, so a
\* Recv that is ready again and again is taken.
FairSpec == Spec /\ WF_vars(Task) /\ SF_vars(Recv)

-----------------------------------------------------------------------------
(* Properties.                                                             *)

Steps == {"open", "stat", "read", "send", "wait", "restat", "reread", "done", "failed"}
Bytes == 0 .. MaxBytes

TypeOK ==
  /\ written \in Bytes
  /\ files \in [Files -> [base : Bytes, end : Bytes]]
  /\ cur \in Files
  /\ there \in BOOLEAN
  /\ client \in {"open", "closed", "broken"}
  /\ pc \in Steps
  /\ fd \in Files
  /\ len \in Bytes
  /\ pos \in Bytes
  /\ chunk \in [lo : Bytes, hi : Bytes]
  /\ shown \in Seq(Bytes)
  /\ disturbed \in BOOLEAN
  /\ since \in Bytes
  /\ head \in Bytes

\* No byte is left out: as long as the log only grows, what the client is shown
\* never jumps over a byte, although a tick reads less than has been written
\* and the app goes on writing between the metadata call and the read.
NoGap ==
  ~disturbed => \A i \in 1 .. Len(shown) - 1 : shown[i + 1] <= shown[i] + 1

\* The only bytes shown again are those that the app writes between the first
\* metadata call and the first read: the read shows them and the loop, which
\* goes on from the length that call has returned, shows them once more.  What
\* the loop itself shows only goes forward, even if the log is truncated or
\* replaced under it.
RepeatsOnce ==
  \A i, j \in DOMAIN shown :
    i < j /\ shown[j] <= shown[i] => i <= head /\ head < j /\ since <= shown[j]

\* The client is never left behind: once the task follows the log, the newest
\* byte is shown unless the client leaves, the log is rotated or an I/O error
\* ends the task.
CatchesUp ==
  \A b \in Bytes :
    (pc = "wait" /\ written = b + 1 /\ Size(cur) > 0)
      ~> (\/ \E i \in DOMAIN shown : shown[i] = b
          \/ client # "open"
          \/ disturbed
          \/ pc = "failed")

\* The task does not outlive its client, however the client has left, and even
\* if the app never writes again.
StopsWithClient == (client # "open") ~> (pc \in {"done", "failed"})

=============================================================================
