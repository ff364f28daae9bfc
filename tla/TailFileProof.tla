--------------------------- MODULE TailFileProof ---------------------------
(* Proofs of the safety properties of TailFile, for every size of the      *)
(* first read and of the buffer, and however often the log is rotated.     *)
EXTENDS TailFile, SequenceTheorems, TLAPS

-----------------------------------------------------------------------------
(* Type correctness.                                                       *)

\* What the app and the rotator keep: a file holds bytes that have been
\* written, and no byte of a later file is older than one of an earlier file.
Ordered ==
  /\ \A f \in Files : files[f].base <= files[f].end /\ files[f].end <= written
  /\ \A f, g \in 1 .. cur : f < g => files[f].end <= files[g].base

\* What the task keeps: it has bytes to send exactly when it is about to send,
\* and it reads on only from before the length it has seen.
Prepared ==
  /\ fd <= cur
  /\ IF pc = "send" THEN chunk.lo < chunk.hi /\ chunk.hi <= written ELSE chunk = NoBytes
  /\ pc = "reread" => pos < len
  /\ pc \in {"open", "stat", "read"} => shown = <<>>

TypeInv == TypeOK /\ Ordered /\ Prepared

\* A file's size is a length.
LEMMA SizeType ==
  ASSUME TypeInv, NEW f \in Files
  PROVE  /\ files[f].base \in Bytes /\ files[f].end \in Bytes
         /\ Size(f) \in Bytes /\ files[f].base + Size(f) = files[f].end
BY TailAssumption DEF TypeInv, TypeOK, Ordered, Size, Bytes

\* What a read returns: nothing, or bytes of the file from the offset on, as many
\* as were asked for or as there are.
LEMMA SliceType ==
  ASSUME TypeInv, NEW f \in Files, NEW o \in Nat, NEW n \in Nat, Size(f) > 0 => n > 0
  PROVE  /\ Slice(f, o, n) \in [lo : Bytes, hi : Bytes]
         /\ Slice(f, o, n) = NoBytes <=> o >= Size(f)
         /\ Slice(f, o, n) # NoBytes =>
              /\ Slice(f, o, n).lo = files[f].base + o
              /\ Slice(f, o, n).hi = files[f].base + AtMost(o + n, Size(f))
              /\ Slice(f, o, n).lo < Slice(f, o, n).hi
              /\ Slice(f, o, n).hi <= files[f].end
<1>1. /\ files[f].base \in Bytes /\ files[f].end \in Bytes
      /\ Size(f) \in Bytes /\ files[f].base + Size(f) = files[f].end
  BY SizeType
<1>2. CASE o >= Size(f)
  BY <1>1, <1>2, TailAssumption DEF Slice, NoBytes, Bytes
<1>3. CASE o < Size(f)
  <2>1. /\ AtMost(o + n, Size(f)) \in Int
        /\ o < AtMost(o + n, Size(f)) /\ AtMost(o + n, Size(f)) <= Size(f)
    BY <1>1, <1>3 DEF AtMost, Bytes
  <2>2. Slice(f, o, n) = [lo |-> files[f].base + o,
                          hi |-> files[f].base + AtMost(o + n, Size(f))]
    BY <1>3 DEF Slice
  <2>3. Slice(f, o, n).lo = files[f].base + o
        /\ Slice(f, o, n).hi = files[f].base + AtMost(o + n, Size(f))
    BY <2>2
  <2>4. /\ files[f].base + o \in Bytes
        /\ files[f].base + AtMost(o + n, Size(f)) \in Bytes
        /\ files[f].base + o < files[f].base + AtMost(o + n, Size(f))
        /\ files[f].base + AtMost(o + n, Size(f)) <= files[f].end
    BY <1>1, <2>1, TailAssumption DEF Bytes
  <2> QED
    BY <1>1, <1>3, <2>2, <2>3, <2>4 DEF NoBytes, Bytes
<1> QED
  BY <1>1, <1>2, <1>3 DEF Bytes

\* What the client has been sent after bytes lo up to hi.
Sent(s, lo, hi) == s \o [i \in 1 .. hi - lo |-> lo + i - 1]

LEMMA SentBytes ==
  ASSUME NEW s \in Seq(Bytes), NEW lo \in Bytes, NEW hi \in Bytes, lo <= hi
  PROVE  /\ Sent(s, lo, hi) \in Seq(Bytes)
         /\ Len(Sent(s, lo, hi)) = Len(s) + (hi - lo)
         /\ \A i \in 1 .. Len(s) : Sent(s, lo, hi)[i] = s[i]
         /\ \A i \in Len(s) + 1 .. Len(s) + (hi - lo) :
              Sent(s, lo, hi)[i] = lo + (i - Len(s)) - 1
<1> DEFINE u == [i \in 1 .. hi - lo |-> lo + i - 1]
<1>1. u \in Seq(Bytes) /\ Len(u) = hi - lo
  <2>1. hi - lo \in Nat /\ \A i \in 1 .. hi - lo : lo + i - 1 \in Bytes
    BY TailAssumption DEF Bytes
  <2>2. u \in [1 .. hi - lo -> Bytes]
    BY <2>1
  <2>3. u \in Seq(Bytes)
    BY <2>1, <2>2
  <2> QED
    BY <2>1, <2>2, <2>3, LenProperties
<1> HIDE DEF u
<1> DEFINE t == Sent(s, lo, hi)
<1>2. t = s \o u
  BY DEF u, Sent
<1> HIDE DEF t
<1>3. /\ t \in Seq(Bytes) /\ Len(t) = Len(s) + Len(u)
      /\ \A i \in 1 .. Len(s) + Len(u) : t[i] = IF i <= Len(s) THEN s[i] ELSE u[i - Len(s)]
  <2>1. /\ s \o u \in Seq(Bytes) /\ Len(s \o u) = Len(s) + Len(u)
        /\ \A i \in 1 .. Len(s) + Len(u) :
             (s \o u)[i] = IF i <= Len(s) THEN s[i] ELSE u[i - Len(s)]
    BY <1>1, ConcatProperties
  <2> QED
    BY <1>2, <2>1, Zenon
<1>4. \A i \in 1 .. hi - lo : u[i] = lo + i - 1
  BY DEF u
<1>5. Len(s) \in Nat /\ hi - lo \in Int
  BY LenProperties DEF Bytes
<1> QED
  BY <1>1, <1>3, <1>4, <1>5 DEF t

LEMMA TypeInit == Init => TypeInv
<1> SUFFICES ASSUME Init
             PROVE  TypeInv
  OBVIOUS
<1>1. 0 \in Bytes /\ 1 \in Files
  BY TailAssumption DEF Bytes, Files
<1>2. TypeOK
  <2>1. NoBytes \in [lo : Bytes, hi : Bytes] /\ <<>> \in Seq(Bytes)
    BY <1>1 DEF NoBytes
  <2>2. [f \in Files |-> [base |-> 0, end |-> 0]] \in [Files -> [base : Bytes, end : Bytes]]
    BY <1>1
  <2> QED
    BY <1>1, <2>1, <2>2 DEF Init, TypeOK, Steps
<1>3. Ordered
  BY DEF Init, Ordered
<1>4. Prepared
  BY DEF Init, Prepared
<1> QED
  BY <1>2, <1>3, <1>4 DEF TypeInv

\* The steps of the task.
LEMMA TaskType == TypeInv /\ Task => TypeInv'
<1> SUFFICES ASSUME TypeInv, Task
             PROVE  TypeInv'
  OBVIOUS
<1> USE TailAssumption
<1>0. NoBytes \in [lo : Bytes, hi : Bytes]
  BY DEF NoBytes, Bytes
<1>f. CASE Fail /\ pc # "send"
  BY <1>f DEF TypeInv, TypeOK, Ordered, Prepared, Fail, world, marks, Steps
<1>1. CASE Open
  <2>1. CASE Fail
    BY <1>1, <1>f, <2>1 DEF Open
  <2>2. CASE pc' = "stat" /\ fd' = cur /\ UNCHANGED <<world, len, pos, chunk, shown, marks>>
    BY <1>1, <2>2 DEF TypeInv, TypeOK, Ordered, Prepared, Open, world, marks, Steps, Files
  <2> QED
    BY <1>1, <2>1, <2>2 DEF Open
<1>2. CASE Stat
  <2>1. Size(fd) \in Bytes /\ files[fd].end \in Bytes
    BY SizeType DEF TypeInv, TypeOK
  <2> QED
    BY <1>2, <1>f, <2>1 DEF TypeInv, TypeOK, Ordered, Prepared, Stat, world, Steps
<1>3. CASE ReadTail /\ pc' # "failed"
  <2> DEFINE start == IF len > Initial THEN len - Initial ELSE 0
  <2>1. start \in Nat /\ fd \in Files /\ MaxBytes \in Nat
    BY DEF TypeInv, TypeOK, Bytes
  <2>2. Size(fd) > 0 => MaxBytes > 0
    BY <2>1, SizeType DEF Bytes
  <2> HIDE DEF start
  <2>3. /\ chunk' = Slice(fd, start, MaxBytes) /\ pos' = len
        /\ pc' = IF chunk' = NoBytes THEN "wait" ELSE "send"
        /\ head' = chunk'.hi - chunk'.lo
        /\ UNCHANGED <<world, fd, len, shown, since>>
    BY <1>3 DEF ReadTail, Fail, start
  <2>4. /\ chunk' \in [lo : Bytes, hi : Bytes]
        /\ chunk' # NoBytes => chunk'.lo < chunk'.hi /\ chunk'.hi <= files[fd].end
    BY <2>1, <2>2, <2>3, SliceType
  <2>5. chunk' # NoBytes => chunk'.hi <= written
    BY <2>1, <2>4 DEF TypeInv, TypeOK, Ordered, Bytes
  <2>6. head' \in Bytes
    BY <2>1, <2>3, <2>4 DEF Bytes, NoBytes
  <2> QED
    BY <2>3, <2>4, <2>5, <2>6 DEF TypeInv, TypeOK, Ordered, Prepared, world, Steps
<1>4. CASE Send
  <2>1. CASE pc' = "done" /\ shown' = shown
    BY <1>0, <1>4, <2>1 DEF TypeInv, TypeOK, Ordered, Prepared, Send, world, marks, Steps
  <2>2. CASE /\ pc' = "wait"
             /\ shown' = shown \o [i \in 1 .. chunk.hi - chunk.lo |-> chunk.lo + i - 1]
    <3>1. /\ chunk.lo \in Bytes /\ chunk.hi \in Bytes /\ chunk.lo <= chunk.hi
          /\ shown \in Seq(Bytes)
      BY <1>4 DEF TypeInv, TypeOK, Prepared, Send, Bytes
    <3>2. shown' \in Seq(Bytes)
      BY <2>2, <3>1, SentBytes DEF Sent
    <3> QED
      BY <1>0, <1>4, <2>2, <3>2 DEF TypeInv, TypeOK, Ordered, Prepared, Send, world, marks, Steps
  <2> QED
    BY <1>4, <2>1, <2>2 DEF Send
<1>5. CASE Tick \/ Recv
  BY <1>5 DEF TypeInv, TypeOK, Ordered, Prepared, Tick, Recv, world, marks, Steps, Files
<1>6. CASE Restat /\ pc' # "failed"
  <2>1. Size(fd) \in Bytes
    BY SizeType DEF TypeInv, TypeOK
  <2>2. pos' \in Bytes /\ len' \in Bytes /\ (pc' = "reread" => pos' < len')
    BY <1>6, <2>1 DEF TypeInv, TypeOK, Restat, Fail, Resume, Bytes
  <2> QED
    BY <1>6, <2>2 DEF TypeInv, TypeOK, Ordered, Prepared, Restat, Fail, world, marks, Steps
<1>7. CASE Reread /\ pc' # "failed"
  <2> DEFINE n == AtMost(len - pos, ChunkMax)
  <2>1. n \in Nat /\ n > 0 /\ pos \in Nat /\ fd \in Files
    BY <1>7 DEF TypeInv, TypeOK, Prepared, Reread, Bytes, AtMost
  <2> HIDE DEF n
  <2>2. /\ chunk' = Slice(fd, pos, n) /\ pos' = pos + (chunk'.hi - chunk'.lo)
        /\ pc' = IF chunk' = NoBytes THEN "wait" ELSE "send"
        /\ UNCHANGED <<world, fd, len, shown, marks>>
    BY <1>7 DEF Reread, Fail, n
  <2>3. /\ chunk' \in [lo : Bytes, hi : Bytes]
        /\ chunk' # NoBytes =>
             /\ chunk'.lo < chunk'.hi /\ chunk'.hi <= files[fd].end
             /\ chunk'.lo = files[fd].base + pos
    BY <2>1, <2>2, SliceType
  <2>4. files[fd].base \in Bytes /\ files[fd].end \in Bytes /\ files[fd].end <= written
    BY <2>1 DEF TypeInv, TypeOK, Ordered
  <2>5. pos' \in Bytes
    <3>1. CASE chunk' = NoBytes
      BY <2>2, <3>1 DEF NoBytes, TypeInv, TypeOK, Bytes
    <3>2. CASE chunk' # NoBytes
      <4>1. pos' = chunk'.hi - files[fd].base
        BY <2>1, <2>2, <2>3, <2>4, <3>2 DEF Bytes
      <4> QED
        BY <2>1, <2>3, <2>4, <3>2, <4>1 DEF Bytes
    <3> QED
      BY <3>1, <3>2
  <2> QED
    BY <1>7, <2>2, <2>3, <2>4, <2>5 DEF TypeInv, TypeOK, Ordered, Prepared, Reread, world, marks, Steps,
      Bytes
<1>8. CASE (ReadTail \/ Restat \/ Reread) /\ pc' = "failed"
  <2>1. Fail /\ pc # "send"
    BY <1>8 DEF ReadTail, Restat, Reread
  <2> QED
    BY <1>f, <2>1
<1> QED
  BY <1>1, <1>2, <1>3, <1>4, <1>5, <1>6, <1>7, <1>8 DEF Task


\* The steps of the app, the rotator and the client.
LEMMA WorldType == TypeInv /\ World => TypeInv'
<1> SUFFICES ASSUME TypeInv, World
             PROVE  TypeInv'
  OBVIOUS
<1> USE TailAssumption
<1>0. /\ cur \in Files /\ cur \in Int /\ written \in Bytes /\ written \in Int
      /\ files \in [Files -> [base : Bytes, end : Bytes]]
      /\ files[cur] \in [base : Bytes, end : Bytes]
  BY DEF TypeInv, TypeOK, Files, Bytes
<1>1. CASE AppWrites
  <2>1. written' = written + 1 /\ written' \in Bytes /\ cur' = cur
    BY <1>0, <1>1 DEF AppWrites, Bytes
  <2>2. /\ [files[cur] EXCEPT !.end = written + 1] \in [base : Bytes, end : Bytes]
        /\ [files[cur] EXCEPT !.end = written + 1].base = files[cur].base
        /\ [files[cur] EXCEPT !.end = written + 1].end = written + 1
    BY <1>0, <2>1
  <2>3. /\ files' \in [Files -> [base : Bytes, end : Bytes]]
        /\ files'[cur].base = files[cur].base /\ files'[cur].end = written + 1
        /\ \A f \in Files \ {cur} : files'[f] = files[f]
    BY <1>0, <1>1, <2>2 DEF AppWrites
  <2>4. TypeOK'
    BY <1>1, <2>1, <2>3 DEF TypeInv, TypeOK, AppWrites, task
  <2>5. Ordered'
    <3>1. ASSUME NEW f \in Files
          PROVE  files'[f].base <= files'[f].end /\ files'[f].end <= written'
      BY <1>0, <2>1, <2>3 DEF TypeInv, Ordered, Bytes
    <3>2. ASSUME NEW f \in 1 .. cur, NEW g \in 1 .. cur, f < g
          PROVE  files'[f].end <= files'[g].base
      BY <1>0, <2>3, <3>2 DEF TypeInv, Ordered, Files
    <3> QED
      BY <2>1, <3>1, <3>2 DEF Ordered
  <2>6. Prepared'
    BY <1>0, <1>1, <2>1 DEF TypeInv, TypeOK, Prepared, AppWrites, task, Bytes
  <2> QED
    BY <2>4, <2>5, <2>6 DEF TypeInv
<1>2. CASE Truncate \/ Create
  <2>1. PICK c \in Files :
          /\ cur' = c /\ c \in {cur, cur + 1}
          /\ files' = [files EXCEPT ![c] = [base |-> written, end |-> written]]
    BY <1>0, <1>2 DEF Truncate, Create, Files
  <2>2. written' = written /\ UNCHANGED task
    BY <1>2 DEF Truncate, Create
  <2>3. /\ files' \in [Files -> [base : Bytes, end : Bytes]]
        /\ files'[c].base = written /\ files'[c].end = written
        /\ \A f \in Files \ {c} : files'[f] = files[f]
    BY <1>0, <2>1
  <2>4. TypeOK'
    BY <1>2, <2>1, <2>2, <2>3 DEF TypeInv, TypeOK, Truncate, Create, Disturb, task
  <2>5. Ordered'
    <3>1. ASSUME NEW f \in Files
          PROVE  files'[f].base <= files'[f].end /\ files'[f].end <= written'
      BY <1>0, <2>2, <2>3 DEF TypeInv, Ordered, Bytes
    <3>2. ASSUME NEW f \in 1 .. c, NEW g \in 1 .. c, f < g
          PROVE  files'[f].end <= files'[g].base
      <4>1. f # c /\ f \in Files /\ f \in 1 .. cur /\ g \in Files
        BY <1>0, <2>1, <3>2 DEF Files
      <4>2. CASE g = c
        BY <2>3, <4>1, <4>2 DEF TypeInv, Ordered
      <4>3. CASE g # c
        BY <1>0, <2>1, <2>3, <3>2, <4>1, <4>3 DEF TypeInv, Ordered
      <4> QED
        BY <4>2, <4>3
    <3> QED
      BY <2>1, <3>1, <3>2 DEF Ordered
  <2>6. Prepared'
    BY <1>0, <2>1, <2>2 DEF TypeInv, TypeOK, Prepared, task, Files
  <2> QED
    BY <2>4, <2>5, <2>6 DEF TypeInv
<1>3. CASE Remove \/ ClientLeaves
  BY <1>3 DEF TypeInv, TypeOK, Ordered, Prepared, Remove, ClientLeaves, Disturb, task
<1> QED
  BY <1>1, <1>2, <1>3 DEF World

LEMMA TypeStep == TypeInv /\ [Next]_vars => TypeInv'
<1>1. TypeInv /\ UNCHANGED vars => TypeInv'
  BY DEF TypeInv, TypeOK, Ordered, Prepared, vars
<1> QED
  BY <1>1, TaskType, WorldType DEF Next

\* Type correctness: the offsets stay within what has been written, also when
\* the file shrinks between two awaits.
THEOREM TailTypeCorrect == Spec => []TypeOK
<1>1. TypeInv => TypeOK
  BY DEF TypeInv
<1> QED
  BY <1>1, TypeInit, TypeStep, PTL DEF Spec

-----------------------------------------------------------------------------
(* Repeats and gaps.                                                       *)

\* The byte after the last one that has been sent.
After == IF shown = <<>> THEN 0 ELSE shown[Len(shown)] + 1

\* What lies ahead in the files that the task can still read begins at byte m,
\* if it goes on from offset p: its own file is as it was when the task knew it
\* up to m, or holds newer bytes only, as every later file does.
Ahead(m, p) ==
  \A f \in fd .. cur :
    \/ files[f].base >= m
    \/ f = fd /\ files[f].base + p = m /\ files[f].end >= m

\* No byte before this one is still to be sent by the loop.
From == IF Len(shown) > head THEN After ELSE since

\* The first read and the loop each go forward, and the loop starts from the
\* length that Stat has seen.
Forward ==
  /\ \A i, j \in 1 .. Len(shown) :
       i < j /\ (j <= head \/ head < i) => shown[i] < shown[j]
  /\ \A j \in 1 .. Len(shown) : head < j => since <= shown[j]

RepeatInv ==
  /\ Forward
  /\ pc = "read" => Ahead(since, len)
  /\ pc = "send" /\ Len(shown) < head =>
       shown = <<>> /\ chunk.hi - chunk.lo = head /\ Ahead(since, pos)
  /\ pc = "send" /\ Len(shown) >= head => chunk.lo >= From /\ Ahead(chunk.hi, pos)
  /\ pc \in {"wait", "restat", "reread"} => Len(shown) >= head /\ Ahead(From, pos)

LEMMA AfterType == TypeInv => After \in Int /\ Len(shown) \in Nat
<1> SUFFICES ASSUME TypeInv
             PROVE  After \in Int /\ Len(shown) \in Nat
  OBVIOUS
<1>1. shown \in Seq(Bytes) /\ Len(shown) \in Nat
  BY LenProperties DEF TypeInv, TypeOK
<1>2. CASE shown # <<>>
  <2>1. Len(shown) \in 1 .. Len(shown)
    BY <1>1, <1>2, EmptySeq
  <2>2. shown[Len(shown)] \in Bytes
    BY <1>1, <2>1, ElementOfSeq
  <2> QED
    BY <1>1, <1>2, <2>2 DEF After, Bytes
<1> QED
  BY <1>1, <1>2 DEF After

\* A send appends consecutive bytes, so it can step back, or leave a gap, only at
\* the joint.
LEMMA SendShows ==
  ASSUME TypeInv, Send, pc' = "wait"
  PROVE  /\ Len(shown') > Len(shown) /\ Len(shown') \in Nat
         /\ Len(shown') = Len(shown) + (chunk.hi - chunk.lo)
         /\ \A i \in 1 .. Len(shown) : shown'[i] = shown[i]
         /\ \A i \in Len(shown) + 1 .. Len(shown') :
              shown'[i] = chunk.lo + (i - Len(shown)) - 1
         /\ shown' # <<>> /\ After' = chunk.hi
         /\ \A i \in 1 .. Len(shown) - 1 :
              shown'[i] = shown[i] /\ shown'[i + 1] = shown[i + 1]
         /\ \A i \in Len(shown) + 1 .. Len(shown') - 1 : shown'[i + 1] = shown'[i] + 1
         /\ shown # <<>> => /\ shown'[Len(shown)] = After - 1
                            /\ shown'[Len(shown) + 1] = chunk.lo
<1>1. /\ chunk.lo \in Bytes /\ chunk.hi \in Bytes /\ chunk.lo < chunk.hi
      /\ shown \in Seq(Bytes) /\ Len(shown) \in Nat
      /\ chunk.lo \in Int /\ chunk.hi \in Int /\ chunk.lo <= chunk.hi
  BY AfterType DEF TypeInv, TypeOK, Prepared, Send, Bytes
<1>2. shown' = Sent(shown, chunk.lo, chunk.hi)
  BY DEF Send, Sent
<1>3. /\ shown' \in Seq(Bytes)
      /\ Len(shown') = Len(shown) + (chunk.hi - chunk.lo)
      /\ \A i \in 1 .. Len(shown) : shown'[i] = shown[i]
      /\ \A i \in Len(shown) + 1 .. Len(shown') :
           shown'[i] = chunk.lo + (i - Len(shown)) - 1
  BY <1>1, <1>2, SentBytes
<1>4. Len(shown') > Len(shown) /\ Len(shown') \in Nat
  BY <1>1, <1>3
<1>5. shown' # <<>>
  BY <1>1, <1>3, <1>4, EmptySeq
<1>6. After' = chunk.hi
  <2>1. shown'[Len(shown')] = chunk.hi - 1
    BY <1>1, <1>3, <1>4
  <2> QED
    BY <1>1, <1>5, <2>1 DEF After
<1>7. \A i \in 1 .. Len(shown) - 1 : shown'[i] = shown[i] /\ shown'[i + 1] = shown[i + 1]
  BY <1>1, <1>3
<1>8. ASSUME NEW i \in Len(shown) + 1 .. Len(shown') - 1
      PROVE  shown'[i + 1] = shown'[i] + 1
  <2>1. i \in Len(shown) + 1 .. Len(shown') /\ i + 1 \in Len(shown) + 1 .. Len(shown')
    BY <1>1, <1>4
  <2>2. shown'[i] = chunk.lo + (i - Len(shown)) - 1
        /\ shown'[i + 1] = chunk.lo + (i + 1 - Len(shown)) - 1
    BY <1>3, <2>1
  <2> QED
    BY <1>1, <1>4, <2>2
<1>9. ASSUME shown # <<>>
      PROVE  shown'[Len(shown)] = After - 1 /\ shown'[Len(shown) + 1] = chunk.lo
  <2>1. Len(shown) \in 1 .. Len(shown)
    BY <1>1, <1>9, EmptySeq
  <2>2. shown[Len(shown)] \in Bytes
    BY <1>1, <2>1, ElementOfSeq
  <2>3. shown'[Len(shown)] = After - 1
    BY <1>3, <1>9, <2>1, <2>2 DEF After, Bytes
  <2>4. Len(shown) + 1 \in Len(shown) + 1 .. Len(shown')
    BY <1>1, <1>4
  <2> QED
    BY <1>1, <1>3, <2>3, <2>4
<1> QED
  BY <1>3, <1>4, <1>5, <1>6, <1>7, <1>8, <1>9

LEMMA RepeatInit == Init => RepeatInv
BY DEF Init, RepeatInv, Forward

\* What is ahead stays ahead, whatever the app and the rotator do.
LEMMA AheadKept ==
  ASSUME TypeInv, World, NEW m \in Int, NEW p \in Int, Ahead(m, p)
  PROVE  Ahead(m, p)'
<1>0. /\ fd \in Int /\ cur \in Files /\ fd <= cur /\ fd \in Files
      /\ written \in Int
      /\ \A f \in Files : files[f].base \in Int /\ files[f].end \in Int
      /\ \A f \in Files : files[f].base <= files[f].end /\ files[f].end <= written
  BY DEF TypeInv, TypeOK, Ordered, Prepared, Files, Bytes
<1>1. m <= written
  <2>1. cur \in fd .. cur
    BY <1>0 DEF Files
  <2> QED
    BY <1>0, <2>1 DEF Ahead
<1>2. fd' = fd
  BY DEF World, AppWrites, Truncate, Remove, Create, ClientLeaves, task
<1>3. SUFFICES ASSUME NEW f \in fd .. cur'
               PROVE  \/ files'[f].base >= m
                      \/ f = fd /\ files'[f].base + p = m /\ files'[f].end >= m
  BY <1>2 DEF Ahead
<1>4. CASE f \in fd .. cur /\ files'[f] = files[f]
  BY <1>4 DEF Ahead
<1>5. CASE files'[f].base = written
  BY <1>1, <1>5, <1>0
<1>6. CASE AppWrites
  <2>1. CASE f # cur
    <3>1. f \in fd .. cur /\ files'[f] = files[f]
      BY <1>6, <2>1 DEF AppWrites, TypeInv, TypeOK
    <3> QED
      BY <1>4, <3>1
  <2>2. CASE f = cur
    <3>1. files[cur] \in [base : Bytes, end : Bytes]
      BY <1>0 DEF TypeInv, TypeOK
    <3>2. /\ [files[cur] EXCEPT !.end = written + 1].base = files[cur].base
          /\ [files[cur] EXCEPT !.end = written + 1].end = written + 1
      BY <3>1
    <3>3. files'[f].base = files[f].base /\ files'[f].end = written + 1
      BY <1>0, <1>6, <2>2, <3>2 DEF AppWrites, TypeInv, TypeOK
    <3>4. \/ files[f].base >= m
          \/ f = fd /\ files[f].base + p = m
      BY <1>0, <2>2 DEF Ahead, Files
    <3> QED
      BY <1>0, <1>1, <3>3, <3>4
  <2> QED
    BY <2>1, <2>2
<1>7. CASE Truncate
  BY <1>0, <1>4, <1>5, <1>7 DEF Truncate, TypeInv, TypeOK
<1>8. CASE Create
  <2>1. cur + 1 \in Files /\ cur' = cur + 1
    BY <1>0, <1>8, TailAssumption DEF Create, Files
  <2>2. CASE f = cur + 1
    BY <1>5, <1>8, <2>1, <2>2 DEF Create, TypeInv, TypeOK
  <2>3. CASE f # cur + 1
    <3>1. f \in fd .. cur
      BY <1>0, <2>1, <2>3 DEF Files
    <3>2. files'[f] = files[f]
      BY <1>0, <1>8, <2>3, <3>1 DEF Create, TypeInv, TypeOK, Files
    <3> QED
      BY <1>4, <3>1, <3>2
  <2> QED
    BY <2>2, <2>3
<1>9. CASE Remove \/ ClientLeaves
  BY <1>4, <1>9 DEF Remove, ClientLeaves
<1> QED
  BY <1>6, <1>7, <1>8, <1>9 DEF World

LEMMA RepeatWorld == TypeInv /\ RepeatInv /\ World => RepeatInv'
<1> SUFFICES ASSUME TypeInv, RepeatInv, World
             PROVE  RepeatInv'
  OBVIOUS
<1>1. UNCHANGED task
  BY DEF World, AppWrites, Truncate, Remove, Create, ClientLeaves
<1>2. /\ pc' = pc /\ chunk' = chunk /\ shown' = shown /\ pos' = pos /\ len' = len
      /\ since' = since /\ head' = head
  BY <1>1 DEF task
<1>3. Forward' = Forward /\ From' = From
  BY <1>2 DEF Forward, From, After
<1>4. /\ pos \in Int /\ len \in Int /\ since \in Int /\ chunk.hi \in Int /\ From \in Int
  BY AfterType DEF TypeInv, TypeOK, Bytes, From
<1>5. /\ Ahead(since, len) => Ahead(since, len)'
      /\ Ahead(since, pos) => Ahead(since, pos)'
      /\ Ahead(chunk.hi, pos) => Ahead(chunk.hi, pos)'
      /\ Ahead(From, pos) => Ahead(From, pos)'
  BY <1>2, <1>3, <1>4, AheadKept DEF Ahead
<1> QED
  BY <1>2, <1>3, <1>5 DEF RepeatInv

\* A read of the loop starts where the last one has ended, or later, and what it
\* returns ends where the next one will start.
LEMMA RereadAhead ==
  ASSUME TypeInv, Reread, pc' # "failed", chunk' # NoBytes
  PROVE  /\ Ahead(From, pos) => chunk'.lo >= From
         /\ Ahead(chunk.hi, pos)'
<1> DEFINE n == AtMost(len - pos, ChunkMax)
<1>0. /\ n \in Nat /\ n > 0 /\ pos \in Nat /\ pos \in Int /\ fd \in Files /\ fd \in Int
      /\ cur \in Int /\ cur \in Files /\ fd <= cur
  BY TailAssumption DEF TypeInv, TypeOK, Prepared, Reread, Bytes, AtMost, Files
<1> HIDE DEF n
<1>1. chunk' = Slice(fd, pos, n) /\ pos' = pos + (chunk'.hi - chunk'.lo)
  BY DEF Reread, Fail, n
<1>2. /\ chunk' \in [lo : Bytes, hi : Bytes]
      /\ chunk'.lo = files[fd].base + pos
      /\ chunk'.lo < chunk'.hi /\ chunk'.hi <= files[fd].end
  BY <1>0, <1>1, SliceType
<1>3. files' = files /\ cur' = cur /\ fd' = fd
  BY DEF Reread, Fail, world
<1>4. /\ \A f \in Files : files[f].base \in Int /\ files[f].end \in Int
      /\ chunk'.lo \in Int /\ chunk'.hi \in Int
  BY <1>2 DEF TypeInv, TypeOK, Bytes
<1>5. ASSUME Ahead(From, pos)
      PROVE  chunk'.lo >= From
  <2>1. fd \in fd .. cur
    BY <1>0
  <2>2. files[fd].base >= From \/ files[fd].base + pos = From
    BY <1>5, <2>1 DEF Ahead
  <2>3. From \in Int
    BY AfterType DEF TypeInv, TypeOK, Bytes, From
  <2> QED
    BY <1>0, <1>2, <1>4, <2>2, <2>3
<1>6. Ahead(chunk.hi, pos)'
  <2>1. files[fd].base + pos' = chunk'.hi
    BY <1>0, <1>1, <1>2, <1>4
  <2>2. ASSUME NEW f \in fd .. cur, f # fd
        PROVE  files[f].base >= chunk'.hi
    <3>1. fd \in 1 .. cur /\ f \in 1 .. cur /\ fd < f /\ f \in Files
      BY <1>0, <2>2, TailAssumption DEF Files
    <3>2. files[fd].end <= files[f].base
      BY <3>1 DEF TypeInv, Ordered
    <3> QED
      BY <1>0, <1>2, <1>4, <3>1, <3>2
  <2> QED
    BY <1>2, <1>3, <2>1, <2>2 DEF Ahead
<1> QED
  BY <1>5, <1>6

\* What the client has been shown goes forward after a send if it did before:
\* the bytes sent go forward, and those of the loop are newer than what the loop
\* has sent.
LEMMA SendForward ==
  ASSUME TypeInv, RepeatInv, Send, pc' = "wait"
  PROVE  /\ Forward'
         /\ Len(shown') >= head
         /\ IF Len(shown) < head THEN Len(shown') = head ELSE From' = chunk.hi
<1>1. /\ Len(shown') > Len(shown) /\ Len(shown') \in Nat
      /\ Len(shown') = Len(shown) + (chunk.hi - chunk.lo)
      /\ \A i \in 1 .. Len(shown) : shown'[i] = shown[i]
      /\ \A i \in Len(shown) + 1 .. Len(shown') : shown'[i] = chunk.lo + (i - Len(shown)) - 1
      /\ shown # <<>> => shown'[Len(shown)] = After - 1
      /\ After' = chunk.hi
  BY SendShows
<1>2. /\ shown \in Seq(Bytes) /\ Len(shown) \in Nat /\ After \in Int
      /\ chunk.lo \in Int /\ chunk.hi \in Int /\ head \in Nat /\ head \in Int /\ since \in Int
      /\ head' = head /\ since' = since
  BY AfterType DEF TypeInv, TypeOK, Bytes, Send, marks
<1>3. ASSUME NEW i \in 1 .. Len(shown)
      PROVE  shown[i] \in Int
  <2>1. shown[i] \in Bytes
    BY <1>2, ElementOfSeq
  <2> QED
    BY <2>1 DEF Bytes
<1>4. CASE Len(shown) < head
  <2>1. shown = <<>> /\ chunk.hi - chunk.lo = head
    BY <1>4 DEF RepeatInv, Send
  <2>2. Len(shown) = 0
    BY <2>1
  <2>3. Len(shown') = head /\ \A i \in 1 .. head : shown'[i] = chunk.lo + i - 1
    BY <1>1, <1>2, <2>1, <2>2
  <2>4. Forward'
    BY <1>2, <2>3 DEF Forward
  <2> QED
    BY <1>2, <1>4, <2>3, <2>4
<1>5. CASE Len(shown) >= head
  <2>1. chunk.lo >= From
    BY <1>5 DEF RepeatInv, Send
  <2>2. From' = chunk.hi
    BY <1>1, <1>2, <1>5 DEF From
  <2>3. \A i \in 1 .. Len(shown) : head < i => shown[i] < From /\ since <= From
    <3>1. SUFFICES ASSUME NEW i \in 1 .. Len(shown), head < i
                   PROVE  shown[i] < From /\ since <= From
      OBVIOUS
    <3>2. Len(shown) \in 1 .. Len(shown) /\ shown # <<>> /\ head < Len(shown)
      BY <1>2, <3>1, EmptySeq
    <3>3. shown[Len(shown)] = After - 1 /\ From = After
      BY <1>1, <1>2, <3>2 DEF From
    <3>4. shown[i] <= shown[Len(shown)] /\ since <= shown[Len(shown)]
      BY <1>2, <1>3, <3>1, <3>2 DEF RepeatInv, Forward
    <3> QED
      BY <1>2, <1>3, <3>1, <3>2, <3>3, <3>4
  <2>4. since <= From /\ From \in Int
    BY <1>2, <1>3, <2>3 DEF From
  <2>5. ASSUME NEW i \in 1 .. Len(shown'), NEW j \in 1 .. Len(shown'),
               i < j, j <= head \/ head < i
        PROVE  shown'[i] < shown'[j]
    <3>1. CASE j <= Len(shown)
      <4>1. i \in 1 .. Len(shown) /\ j \in 1 .. Len(shown)
        BY <1>2, <2>5, <3>1
      <4> QED
        BY <1>1, <2>5, <4>1 DEF RepeatInv, Forward
    <3>2. CASE i <= Len(shown) /\ j > Len(shown)
      <4>1. i \in 1 .. Len(shown) /\ j \in Len(shown) + 1 .. Len(shown') /\ head < i
        BY <1>1, <1>2, <1>5, <2>5, <3>2
      <4>2. shown'[i] = shown[i] /\ shown[i] < From /\ shown'[j] = chunk.lo + (j - Len(shown)) - 1
        BY <1>1, <2>3, <4>1
      <4> QED
        BY <1>2, <1>3, <2>1, <2>4, <4>1, <4>2
    <3>3. CASE i > Len(shown)
      <4>1. i \in Len(shown) + 1 .. Len(shown') /\ j \in Len(shown) + 1 .. Len(shown')
        BY <1>1, <1>2, <2>5, <3>3
      <4> QED
        BY <1>1, <1>2, <2>5, <4>1
    <3> QED
      BY <1>1, <1>2, <2>5, <3>1, <3>2, <3>3
  <2>6. ASSUME NEW j \in 1 .. Len(shown'), head < j
        PROVE  since <= shown'[j]
    <3>1. CASE j <= Len(shown)
      <4>1. j \in 1 .. Len(shown)
        BY <1>2, <2>6, <3>1
      <4> QED
        BY <1>1, <2>6, <4>1 DEF RepeatInv, Forward
    <3>2. CASE j > Len(shown)
      <4>1. j \in Len(shown) + 1 .. Len(shown')
        BY <1>1, <1>2, <2>6, <3>2
      <4> QED
        BY <1>1, <1>2, <2>1, <2>4, <4>1
    <3> QED
      BY <1>2, <2>6, <3>1, <3>2
  <2>7. Forward'
    BY <1>2, <2>5, <2>6 DEF Forward
  <2> QED
    BY <1>1, <1>2, <1>5, <2>2, <2>7
<1> QED
  BY <1>2, <1>4, <1>5

LEMMA RepeatTask == TypeInv /\ RepeatInv /\ Task => RepeatInv'
<1> SUFFICES ASSUME TypeInv, RepeatInv, Task
             PROVE  RepeatInv'
  OBVIOUS
<1>0. /\ Len(shown) \in Nat /\ fd \in Int /\ cur \in Int /\ fd <= cur /\ fd \in Files /\ cur \in Files
      /\ pos \in Int /\ len \in Int /\ since \in Int /\ head \in Int
      /\ files[fd].base \in Int /\ files[fd].end \in Int
      /\ Size(fd) \in Int /\ files[fd].base + Size(fd) = files[fd].end
  BY AfterType, SizeType DEF TypeInv, TypeOK, Prepared, Bytes, Files
<1>1. CASE /\ pc' \notin {"read", "send", "wait", "restat", "reread"}
           /\ UNCHANGED <<shown, since, head>>
  BY <1>1 DEF RepeatInv, Forward
<1>2. CASE Open \/ Recv \/ Fail
  BY <1>1, <1>2 DEF Open, Recv, Fail, marks
<1>3. CASE Stat /\ pc' = "read"
  <2>1. /\ len' = Size(fd) /\ since' = files[fd].end /\ shown = <<>> /\ shown' = shown
        /\ files' = files /\ cur' = cur /\ fd' = fd
    BY <1>3 DEF Stat, Fail, world, TypeInv, Prepared
  <2>2. ASSUME NEW f \in fd .. cur, f # fd
        PROVE  files[f].base >= files[fd].end
    <3>1. fd \in 1 .. cur /\ f \in 1 .. cur /\ fd < f
      BY <1>0, <2>2 DEF Files
    <3> QED
      BY <3>1 DEF TypeInv, Ordered
  <2>3. Ahead(since, len)'
    BY <1>0, <2>1, <2>2 DEF Ahead
  <2>4. Len(shown') = 0
    BY <2>1
  <2> QED
    BY <1>3, <2>3, <2>4 DEF RepeatInv, Forward
<1>4. CASE ReadTail /\ pc' # "failed"
  <2> DEFINE start == IF len > Initial THEN len - Initial ELSE 0
  <2>1. /\ shown = <<>> /\ shown' = shown /\ since' = since /\ pos' = len
        /\ head' = chunk'.hi - chunk'.lo /\ chunk' = Slice(fd, start, MaxBytes)
        /\ files' = files /\ cur' = cur /\ fd' = fd
        /\ pc' = IF chunk' = NoBytes THEN "wait" ELSE "send"
    BY <1>4 DEF ReadTail, Fail, world, TypeInv, Prepared
  <2>2. start \in Nat /\ MaxBytes \in Nat /\ (Size(fd) > 0 => MaxBytes > 0)
    BY <1>0, SizeType, TailAssumption DEF TypeInv, TypeOK, Bytes
  <2> HIDE DEF start
  <2>3. /\ chunk' \in [lo : Bytes, hi : Bytes]
        /\ chunk' # NoBytes => chunk'.lo < chunk'.hi
    BY <1>0, <2>1, <2>2, SliceType
  <2>4. /\ chunk' = NoBytes => head' = 0
        /\ chunk' # NoBytes => head' > 0
    BY <2>1, <2>3 DEF NoBytes, Bytes
  <2>5. Ahead(since, len)
    BY <1>4 DEF RepeatInv, ReadTail
  <2>6. Ahead(since, pos)'
    BY <2>1, <2>5 DEF Ahead
  <2>7. Len(shown') = 0
    BY <2>1
  <2>8. Forward'
    BY <2>7 DEF Forward
  <2>9. CASE chunk' = NoBytes
    <3>1. From' = since' /\ pc' = "wait"
      BY <2>1, <2>4, <2>7, <2>9 DEF From
    <3>2. Ahead(From, pos)'
      BY <2>6, <3>1 DEF Ahead
    <3> QED
      BY <2>4, <2>7, <2>8, <2>9, <3>1, <3>2 DEF RepeatInv
  <2>10. CASE chunk' # NoBytes
    <3>1. pc' = "send" /\ ~(Len(shown') >= head') /\ shown' = <<>>
      BY <2>1, <2>3, <2>4, <2>7, <2>10 DEF Bytes
    <3> QED
      BY <2>1, <2>6, <2>8, <3>1 DEF RepeatInv
  <2> QED
    BY <2>9, <2>10
<1>5. CASE Send
  <2>1. CASE pc' = "wait"
    <3>1. /\ Forward' /\ Len(shown') >= head
          /\ IF Len(shown) < head THEN Len(shown') = head ELSE From' = chunk.hi
      BY <1>5, <2>1, SendForward
    <3>2. /\ files' = files /\ cur' = cur /\ fd' = fd /\ pos' = pos
          /\ head' = head /\ since' = since
      BY <1>5 DEF Send, world, marks
    <3>3. CASE Len(shown) < head
      <4>1. Ahead(since, pos) /\ From' = since'
        BY <1>0, <1>5, <3>1, <3>2, <3>3 DEF RepeatInv, Send, From
      <4>2. Ahead(From, pos)'
        BY <3>2, <4>1 DEF Ahead
      <4> QED
        BY <2>1, <3>1, <3>2, <4>2 DEF RepeatInv
    <3>4. CASE ~(Len(shown) < head)
      <4>1. Ahead(chunk.hi, pos) /\ From' = chunk.hi
        BY <1>0, <1>5, <3>1, <3>4 DEF RepeatInv, Send
      <4>2. Ahead(From, pos)'
        BY <3>2, <4>1 DEF Ahead
      <4> QED
        BY <2>1, <3>1, <3>2, <4>2 DEF RepeatInv
    <3> QED
      BY <3>3, <3>4
  <2>2. CASE pc' # "wait"
    BY <1>1, <1>5, <2>2 DEF Send, marks
  <2> QED
    BY <2>1, <2>2
<1>6. CASE Tick
  <2>1. /\ Forward' = Forward /\ From' = From /\ shown' = shown /\ head' = head
        /\ fd' = cur /\ cur' = cur /\ files' = files /\ pos' = pos /\ pc' = "restat"
    BY <1>6 DEF Tick, Forward, From, After, marks, world
  <2>2. Len(shown) >= head /\ Ahead(From, pos)
    BY <1>6 DEF RepeatInv, Tick
  <2>3. \/ files[cur].base >= From
        \/ cur = fd /\ files[cur].base + pos = From /\ files[cur].end >= From
    <3>1. cur \in fd .. cur
      BY <1>0
    <3> QED
      BY <2>2, <3>1 DEF Ahead
  <2>4. \A f \in cur .. cur : f = cur
    BY <1>0
  <2>5. Ahead(From, pos)'
    BY <2>1, <2>3, <2>4 DEF Ahead
  <2> QED
    BY <2>1, <2>2, <2>5 DEF RepeatInv
<1>7. CASE Restat /\ pc' # "failed"
  <2>1. /\ Forward' = Forward /\ From' = From /\ shown' = shown /\ head' = head
        /\ fd' = fd /\ cur' = cur /\ files' = files /\ pos' = Resume(Size(fd))
        /\ pc' \in {"reread", "wait"}
    BY <1>7 DEF Restat, Fail, Forward, From, After, marks, world
  <2>2. Len(shown) >= head /\ Ahead(From, pos)
    BY <1>7 DEF RepeatInv, Restat
  <2>3. CASE pos' = pos
    <3>1. Ahead(From, pos)'
      BY <2>1, <2>2, <2>3 DEF Ahead
    <3> QED
      BY <2>1, <2>2, <3>1 DEF RepeatInv
  <2>4. CASE pos' # pos
    <3>1. Size(fd) < pos
      BY <2>1, <2>4 DEF Resume
    <3>2. From \in Int
      BY <1>0, AfterType DEF From
    <3>3. ~(files[fd].base + pos = From /\ files[fd].end >= From)
      BY <1>0, <3>1, <3>2
    <3>4. Ahead(From, pos)'
      BY <2>1, <2>2, <3>3 DEF Ahead
    <3> QED
      BY <2>1, <2>2, <3>4 DEF RepeatInv
  <2> QED
    BY <2>3, <2>4
<1>8. CASE Reread /\ pc' # "failed"
  <2>1. /\ Forward' = Forward /\ From' = From /\ shown' = shown /\ head' = head
        /\ fd' = fd /\ cur' = cur /\ files' = files
        /\ pc' = IF chunk' = NoBytes THEN "wait" ELSE "send"
        /\ pos' = pos + (chunk'.hi - chunk'.lo)
    BY <1>8 DEF Reread, Fail, Forward, From, After, marks, world
  <2>2. Len(shown) >= head /\ Ahead(From, pos) /\ Forward
    BY <1>8 DEF RepeatInv, Reread
  <2>3. CASE chunk' = NoBytes
    <3>1. pos' = pos /\ pc' = "wait"
      BY <1>0, <2>1, <2>3 DEF NoBytes
    <3>2. Ahead(From, pos)'
      BY <2>1, <2>2, <3>1 DEF Ahead
    <3> QED
      BY <2>1, <2>2, <3>1, <3>2 DEF RepeatInv
  <2>4. CASE chunk' # NoBytes
    <3>1. pc' = "send"
      BY <2>1, <2>4
    <3>2. chunk'.lo >= From /\ Ahead(chunk.hi, pos)'
      BY <1>8, <2>2, <2>4, RereadAhead
    <3>3. ~(Len(shown') < head')
      BY <1>0, <2>1, <2>2
    <3> QED
      BY <2>1, <2>2, <3>1, <3>2, <3>3 DEF RepeatInv
  <2> QED
    BY <2>3, <2>4
<1>9. CASE \/ Stat /\ pc' # "read"
           \/ (ReadTail \/ Restat \/ Reread) /\ pc' = "failed"
  <2>1. Fail
    BY <1>9 DEF Stat, ReadTail, Restat, Reread
  <2> QED
    BY <1>2, <2>1
<1> QED
  BY <1>2, <1>3, <1>4, <1>5, <1>6, <1>7, <1>8, <1>9 DEF Task

LEMMA RepeatStep == TypeInv /\ RepeatInv /\ [Next]_vars => RepeatInv'
<1>1. TypeInv /\ RepeatInv /\ UNCHANGED vars => RepeatInv'
  BY DEF RepeatInv, Forward, From, Ahead, After, vars
<1> QED
  BY <1>1, RepeatTask, RepeatWorld DEF Next

\* Only a byte that the app wrote between the metadata call and the first read
\* is shown twice, by that read and by the loop; what each of the two shows goes
\* forward, however often the log is rotated under the task.
THEOREM TailRepeatsOnce == Spec => []RepeatsOnce
<1>1. TypeInv /\ RepeatInv => RepeatsOnce
  <2> SUFFICES ASSUME TypeInv, RepeatInv, NEW i \in DOMAIN shown, NEW j \in DOMAIN shown,
                      i < j, shown[j] <= shown[i]
               PROVE  i <= head /\ head < j /\ since <= shown[j]
    BY DEF RepeatsOnce
  <2>1. shown \in Seq(Bytes) /\ DOMAIN shown = 1 .. Len(shown) /\ Len(shown) \in Nat
    BY LenProperties DEF TypeInv, TypeOK
  <2>2. shown[i] \in Int /\ shown[j] \in Int
    <3>1. i \in 1 .. Len(shown) /\ j \in 1 .. Len(shown)
      BY <2>1
    <3>2. shown[i] \in Bytes /\ shown[j] \in Bytes
      BY <2>1, <3>1, ElementOfSeq
    <3> QED
      BY <3>2 DEF Bytes
  <2>3. ~(j <= head \/ head < i)
    BY <2>1, <2>2 DEF RepeatInv, Forward
  <2>4. head \in Int /\ i \in Int /\ j \in Int
    BY <2>1 DEF TypeInv, TypeOK, Bytes
  <2>5. i <= head /\ head < j
    BY <2>3, <2>4
  <2> QED
    BY <2>1, <2>5 DEF RepeatInv, Forward
<1> QED
  BY <1>1, TypeInit, TypeStep, RepeatInit, RepeatStep, PTL DEF Spec

\* While the log only grows: the task reads the file that the app writes, and
\* from no later than the byte after the last one that it has sent.
GapInv ==
  ~disturbed =>
    /\ \A i \in 1 .. Len(shown) - 1 : shown[i + 1] <= shown[i] + 1
    /\ pc \notin {"open", "done", "failed"} => fd = cur /\ there
    /\ pc = "read" => len <= Size(fd)
    /\ pc = "send" =>
         /\ shown = <<>> \/ chunk.lo <= After
         /\ files[fd].base + pos <= chunk.hi
    /\ pc \in {"wait", "restat", "reread"} =>
         shown = <<>> \/ files[fd].base + pos <= After

LEMMA GapInit == Init => GapInv
BY DEF Init, GapInv

LEMMA GapWorld == TypeInv /\ GapInv /\ World => GapInv'
<1> SUFFICES ASSUME TypeInv, GapInv, World, ~disturbed'
             PROVE  GapInv'
  BY DEF GapInv
<1>0. ~disturbed /\ UNCHANGED task
  <2>1. UNCHANGED task
    BY DEF World, AppWrites, Truncate, Remove, Create, ClientLeaves
  <2>2. disturbed' \in {disturbed, disturbed \/ pc # "open"}
    BY DEF World, AppWrites, Truncate, Remove, Create, ClientLeaves, Disturb
  <2> QED
    BY <2>1, <2>2 DEF TypeInv, TypeOK
<1>1. CASE pc \in {"open", "done", "failed"}
  BY <1>0, <1>1 DEF GapInv, task
<1>2. CASE pc \notin {"open", "done", "failed"}
  <2>1. fd = cur /\ there
    BY <1>0, <1>2 DEF GapInv
  <2>2. AppWrites \/ ClientLeaves
    BY <1>0, <1>2, <2>1 DEF World, Truncate, Remove, Create, Disturb
  <2>3. cur' = cur /\ there' = there
    BY <2>2 DEF AppWrites, ClientLeaves
  <2>4. files'[fd].base = files[fd].base /\ (len <= Size(fd) => (len <= Size(fd))')
    <3>1. CASE ClientLeaves
      BY <1>0, <3>1 DEF ClientLeaves, Size, task
    <3>2. CASE AppWrites
      <4>1. /\ fd \in Files /\ files[fd] \in [base : Bytes, end : Bytes]
            /\ files[fd].end \in Int /\ files[fd].base \in Int /\ written \in Int
            /\ files[fd].end <= written /\ len \in Int
        BY DEF TypeInv, TypeOK, Ordered, Bytes
      <4>2. /\ [files[fd] EXCEPT !.end = written + 1].base = files[fd].base
            /\ [files[fd] EXCEPT !.end = written + 1].end = written + 1
        BY <4>1
      <4>3. files'[fd].base = files[fd].base /\ files'[fd].end = written + 1
        BY <2>1, <3>2, <4>1, <4>2 DEF AppWrites, TypeInv, TypeOK
      <4>4. fd' = fd /\ len' = len
        BY <1>0 DEF task
      <4> QED
        BY <4>1, <4>3, <4>4 DEF Size
    <3> QED
      BY <2>2, <3>1, <3>2
  <2>5. After' = After /\ shown' = shown /\ pc' = pc /\ chunk' = chunk /\ pos' = pos /\ fd' = fd
    BY <1>0 DEF After, task
  <2> QED
    BY <1>0, <2>1, <2>3, <2>4, <2>5 DEF GapInv
<1> QED
  BY <1>1, <1>2

LEMMA GapTask == TypeInv /\ GapInv /\ Task => GapInv'
<1> SUFFICES ASSUME TypeInv, GapInv, Task, ~disturbed'
             PROVE  GapInv'
  BY DEF GapInv
<1>0. /\ UNCHANGED world /\ ~disturbed
      /\ \A i \in 1 .. Len(shown) - 1 : shown[i + 1] <= shown[i] + 1
      /\ pc \notin {"open", "done", "failed"} => fd = cur /\ there
  BY DEF Task, Open, Stat, ReadTail, Send, Tick, Restat, Reread, Recv, Fail, world, GapInv
<1>a. /\ After \in Int /\ Len(shown) \in Nat
      /\ fd \in Files /\ pos \in Int /\ len \in Int /\ len >= 0 /\ pos >= 0
      /\ files[fd].base \in Int /\ files[fd].end \in Int
      /\ Size(fd) \in Int /\ Size(fd) >= 0 /\ Size(fd) <= MaxBytes
      /\ files[fd].base + Size(fd) = files[fd].end
  BY AfterType, SizeType DEF TypeInv, TypeOK, Bytes
<1>f. CASE pc' = "failed" /\ UNCHANGED shown
  BY <1>0, <1>f DEF GapInv
<1>1. CASE Open
  BY <1>0, <1>1, <1>f DEF GapInv, Open, Fail, world
<1>2. CASE Stat
  BY <1>0, <1>a, <1>2, <1>f DEF GapInv, Stat, Fail, world, Size
<1>3. CASE ReadTail /\ pc' # "failed"
  <2> DEFINE start == IF len > Initial THEN len - Initial ELSE 0
  <2>1. /\ start \in Nat /\ start \in Int /\ start <= len /\ len <= Size(fd) /\ shown = <<>>
        /\ MaxBytes \in Nat
    BY <1>0, <1>a, <1>3, TailAssumption DEF GapInv, ReadTail, TypeInv, Prepared
  <2> HIDE DEF start
  <2>2. /\ chunk' = Slice(fd, start, MaxBytes) /\ pos' = len
        /\ pc' = IF chunk' = NoBytes THEN "wait" ELSE "send"
        /\ UNCHANGED <<world, fd, len, shown>>
    BY <1>3 DEF ReadTail, Fail, start
  <2>3. chunk' # NoBytes => files[fd].base + pos' <= chunk'.hi
    <3>1. chunk' # NoBytes =>
            chunk'.hi = files[fd].base + AtMost(start + MaxBytes, Size(fd))
      <4>1. Size(fd) > 0 => MaxBytes > 0
        BY <1>a, <2>1
      <4> QED
        BY <1>a, <2>1, <2>2, <4>1, SliceType
    <3>2. AtMost(start + MaxBytes, Size(fd)) = Size(fd)
      BY <1>a, <2>1 DEF AtMost
    <3> QED
      BY <1>a, <2>1, <2>2, <3>1, <3>2
  <2> QED
    BY <1>0, <1>3, <2>1, <2>2, <2>3 DEF GapInv, ReadTail, world
<1>4. CASE Send
  <2>1. CASE pc' = "wait"
    <3>1. /\ shown' # <<>> /\ Len(shown') \in Nat /\ After' = chunk.hi
          /\ \A i \in 1 .. Len(shown) - 1 :
               shown'[i] = shown[i] /\ shown'[i + 1] = shown[i + 1]
          /\ \A i \in Len(shown) + 1 .. Len(shown') - 1 : shown'[i + 1] = shown'[i] + 1
          /\ shown # <<>> => shown'[Len(shown)] = After - 1
                             /\ shown'[Len(shown) + 1] = chunk.lo
      BY <1>4, <2>1, SendShows
    <3>2. shown' \in Seq(Bytes) /\ chunk.lo \in Int
      <4>1. TypeInv'
        BY TaskType
      <4> QED
        BY <4>1 DEF TypeInv, TypeOK, Bytes
    <3>3. /\ shown = <<>> \/ chunk.lo <= After
          /\ files[fd].base + pos <= chunk.hi
      BY <1>0, <1>4 DEF GapInv, Send
    <3>4. ASSUME NEW i \in 1 .. Len(shown') - 1
          PROVE  shown'[i + 1] <= shown'[i] + 1
      <4>1. CASE i < Len(shown)
        <5>1. i \in 1 .. Len(shown) - 1
          BY <1>a, <3>1, <4>1
        <5> QED
          BY <1>0, <3>1, <5>1
      <4>2. CASE i = Len(shown)
        <5>1. shown # <<>>
          BY <1>a, <3>1, <4>2
        <5> QED
          BY <1>a, <3>1, <3>2, <3>3, <4>2, <5>1
      <4>3. CASE i > Len(shown)
        <5>1. i \in Len(shown) + 1 .. Len(shown') - 1 /\ i + 1 \in 1 .. Len(shown')
          BY <1>a, <3>1, <4>3
        <5>2. shown'[i + 1] \in Bytes
          BY <3>2, <5>1, ElementOfSeq
        <5> QED
          BY <3>1, <5>1, <5>2 DEF Bytes
      <4> QED
        BY <1>a, <3>1, <4>1, <4>2, <4>3
    <3>5. fd' = fd /\ pos' = pos
      BY <1>4 DEF Send
    <3> QED
      BY <1>0, <1>4, <2>1, <3>1, <3>3, <3>4, <3>5 DEF GapInv, Send, world
  <2>2. CASE pc' # "wait"
    BY <1>0, <1>4, <2>2 DEF GapInv, Send
  <2> QED
    BY <2>1, <2>2
<1>5. CASE Tick
  <2>1. fd' = fd /\ pos' = pos /\ shown' = shown /\ After' = After
    BY <1>0, <1>5 DEF Tick, After
  <2> QED
    BY <1>0, <1>5, <2>1 DEF GapInv, Tick, world
<1>6. CASE Restat /\ pc' # "failed"
  <2>1. fd' = fd /\ shown' = shown /\ After' = After
    BY <1>6 DEF Restat, Fail, After
  <2>2. pos' \in Int /\ pos' <= pos
    BY <1>a, <1>6 DEF Restat, Fail, Resume
  <2>3. shown = <<>> \/ files[fd].base + pos <= After
    BY <1>0, <1>6 DEF GapInv, Restat
  <2>4. shown = <<>> \/ files[fd].base + pos' <= After
    BY <1>a, <2>2, <2>3
  <2> QED
    BY <1>0, <1>6, <2>1, <2>4 DEF GapInv, Restat, Fail, world
<1>7. CASE Reread /\ pc' # "failed"
  <2> DEFINE n == AtMost(len - pos, ChunkMax)
  <2>1. n \in Nat /\ n > 0 /\ pos \in Nat
    BY <1>a, <1>7, TailAssumption DEF TypeInv, Prepared, Reread, AtMost
  <2> HIDE DEF n
  <2>2. /\ chunk' = Slice(fd, pos, n) /\ pos' = pos + (chunk'.hi - chunk'.lo)
        /\ pc' = IF chunk' = NoBytes THEN "wait" ELSE "send"
        /\ fd' = fd /\ shown' = shown
    BY <1>7 DEF Reread, Fail, n
  <2>3. After' = After
    BY <2>2 DEF After
  <2>4. shown = <<>> \/ files[fd].base + pos <= After
    BY <1>0, <1>7 DEF GapInv, Reread
  <2>5. CASE chunk' = NoBytes
    <3>1. pos' = pos
      BY <1>a, <2>2, <2>5 DEF NoBytes
    <3> QED
      BY <1>0, <1>7, <2>2, <2>3, <2>4, <2>5, <3>1 DEF GapInv, Reread, world
  <2>6. CASE chunk' # NoBytes
    <3>1. chunk'.lo = files[fd].base + pos /\ chunk' \in [lo : Bytes, hi : Bytes]
      BY <1>a, <2>1, <2>2, <2>6, SliceType
    <3>2. files[fd].base + pos' <= chunk'.hi
      <4>1. chunk'.hi \in Int
        BY <3>1 DEF Bytes
      <4> QED
        BY <1>a, <2>2, <3>1, <4>1
    <3> QED
      BY <1>0, <1>7, <2>2, <2>3, <2>4, <2>6, <3>1, <3>2 DEF GapInv, Reread, world
  <2> QED
    BY <2>5, <2>6
<1>8. CASE Recv
  BY <1>0, <1>8 DEF GapInv, Recv
<1>9. CASE (ReadTail \/ Restat \/ Reread) /\ pc' = "failed"
  BY <1>9, <1>f DEF ReadTail, Restat, Reread, Fail
<1> QED
  BY <1>1, <1>2, <1>3, <1>4, <1>5, <1>6, <1>7, <1>8, <1>9 DEF Task

LEMMA GapStep == TypeInv /\ GapInv /\ [Next]_vars => GapInv'
<1>1. TypeInv /\ GapInv /\ UNCHANGED vars => GapInv'
  BY DEF GapInv, Size, After, vars
<1> QED
  BY <1>1, GapTask, GapWorld DEF Next

\* As long as the log only grows, the client is shown every byte from the first
\* one on, although a read of the loop takes less than there is.
THEOREM TailLeavesNoGap == Spec => []NoGap
<1>1. GapInv => NoGap
  BY DEF GapInv, NoGap
<1> QED
  BY <1>1, TypeInit, TypeStep, GapInit, GapStep, PTL DEF Spec
=============================================================================
