--------------------------- MODULE LogStreamProof ---------------------------
(* Proofs of the safety properties of LogStream, for every number of lines. *)
EXTENDS LogStream, SequenceTheorems, TLAPS

\* The first n lines are shown whole and in order.
Whole(n) == \A k \in 1 .. n : shown[k] = Line(k)

\* What the task has taken and not sent is the line after the last one shown: no
\* part of it, its first half or, when it is about to be sent, all of it.  Once
\* the source has ended, the last line may be sent without its second half.
LineInv ==
  /\ WholeLines
  /\ pc = "kill" => kind = "journal"
  /\ pc \in {"start", "select"} =>
       \/ Whole(Len(shown)) /\ taken = 2 * Len(shown) /\ buf = <<>>
       \/ Whole(Len(shown)) /\ taken = 2 * Len(shown) + 1 /\ buf = <<taken>>
       \/ source = "ended" /\ taken = written /\ buf = <<>>
  /\ pc = "send" =>
       /\ Whole(Len(shown))
       /\ \/ taken = 2 * Len(shown) + 2 /\ buf = Line(Len(shown) + 1)
          \/ /\ taken = 2 * Len(shown) + 1 /\ buf = <<taken>>
             /\ source = "ended" /\ taken = written

\* What there is of a line, with its first and its second part.
LEMMA Halves ==
  ASSUME NEW a \in Parts, NEW b \in Parts
  PROVE  /\ Len(<<a>>) = 1
         /\ Append(<<a>>, b) = <<a, b>>
<1>1. <<a>> \in Seq(Parts) /\ <<a, b>> \in Seq(Parts)
  OBVIOUS
<1>2. Len(<<a>>) = 1 /\ Len(<<a, b>>) = 2
  OBVIOUS
<1>3. /\ Append(<<a>>, b) \in Seq(Parts) /\ Len(Append(<<a>>, b)) = 2
      /\ Append(<<a>>, b)[1] = a /\ Append(<<a>>, b)[2] = b
  BY <1>1, <1>2, AppendProperties
<1> HIDE DEF Parts
<1>4. \A i \in 1 .. 2 : Append(<<a>>, b)[i] = <<a, b>>[i]
  BY <1>3
<1> QED
  BY <1>1, <1>2, <1>3, <1>4, SeqEqual

\* A send appends a line.
LEMMA SendAppends ==
  ASSUME TypeOK, Send, pc' = "select"
  PROVE  /\ shown' \in Seq(Seq(Parts)) /\ Len(shown) \in Nat
         /\ Len(shown') = Len(shown) + 1 /\ DOMAIN shown' = 1 .. Len(shown) + 1
         /\ \A k \in 1 .. Len(shown) : shown'[k] = shown[k]
         /\ shown'[Len(shown) + 1] = buf
<1>1. shown \in Seq(Seq(Parts)) /\ buf \in Seq(Parts)
  BY DEF TypeOK
<1>2. shown' = Append(shown, buf)
  BY DEF Send, Leave
<1>3. /\ Append(shown, buf) \in Seq(Seq(Parts))
      /\ Len(Append(shown, buf)) = Len(shown) + 1
      /\ \A k \in 1 .. Len(shown) : Append(shown, buf)[k] = shown[k]
      /\ Append(shown, buf)[Len(shown) + 1] = buf
  BY <1>1, AppendProperties
<1>4. Len(shown) \in Nat /\ DOMAIN Append(shown, buf) = 1 .. Len(Append(shown, buf))
  BY <1>1, <1>3, LenProperties
<1> QED
  BY <1>2, <1>3, <1>4

LEMMA TypeInit == Init => TypeOK
<1> SUFFICES ASSUME Init
             PROVE  TypeOK
  OBVIOUS
<1>1. 0 \in 0 .. 2 * MaxLines /\ 0 \in 0 .. 0
  BY StreamAssumption
<1>2. <<>> \in Seq(Parts) /\ Len(<<>>) <= 2 /\ <<>> \in Seq(Seq(Parts))
  BY EmptySeq
<1> QED
  BY <1>1, <1>2 DEF Init, TypeOK

\* A part that is taken is appended to what there is of its line, at most a half.
LEMMA PollType == TypeOK /\ LineInv /\ Poll => TypeOK'
<1> SUFFICES ASSUME TypeOK, LineInv, Poll
             PROVE  TypeOK'
  OBVIOUS
<1>1. taken + 1 \in Parts /\ taken + 1 \in 0 .. written /\ taken' = taken + 1
  BY StreamAssumption DEF TypeOK, Poll, Parts
<1>2. buf = <<>> \/ buf = <<taken>>
  BY DEF LineInv, Poll
<1>3. Len(buf) <= 1
  <2>1. CASE buf = <<>>
    BY <2>1
  <2>2. CASE buf = <<taken>>
    <3>1. Len(buf) = 1
      BY <2>2
    <3> QED
      BY <3>1
  <2> QED
    BY <1>2, <2>1, <2>2
<1>4. buf' = Append(buf, taken + 1) /\ buf \in Seq(Parts)
  BY <1>1 DEF Poll, TypeOK
<1>5. buf' \in Seq(Parts) /\ Len(buf') = Len(buf) + 1
  BY <1>1, <1>4, AppendProperties
<1>6. Len(buf') <= 2
  BY <1>3, <1>4, <1>5, LenProperties
<1> QED
  BY <1>1, <1>5, <1>6 DEF TypeOK, Poll

LEMMA TypeStep == TypeOK /\ LineInv /\ [Next]_vars => TypeOK'
<1> SUFFICES ASSUME TypeOK, LineInv, [Next]_vars
             PROVE  TypeOK'
  OBVIOUS
<1>1. CASE UNCHANGED vars
  BY <1>1 DEF TypeOK, vars
<1>2. CASE Start
  BY <1>2 DEF TypeOK, Start
<1>3. CASE Poll
  BY <1>3, PollType
<1>4. CASE PollFails
  BY <1>4 DEF TypeOK, PollFails, Dropped
<1>5. CASE PollEnd
  BY <1>5 DEF TypeOK, PollEnd, Leave
<1>6. CASE Send
  <2>1. buf' \in Seq(Parts) /\ Len(buf') <= 2
    BY <1>6, EmptySeq DEF Send
  <2>2. shown' \in Seq(Seq(Parts))
    BY <1>6, SendAppends DEF TypeOK, Send
  <2> QED
    BY <1>6, <2>1, <2>2 DEF TypeOK, Send, Leave
<1>7. CASE Hear \/ Recv
  BY <1>7 DEF TypeOK, Hear, Recv, Leave
<1>8. CASE Kill
  BY <1>8 DEF TypeOK, LineInv, Kill
<1>9. CASE Write
  BY <1>9, StreamAssumption DEF TypeOK, Write
<1>10. CASE SourceEnds
  BY <1>10 DEF TypeOK, SourceEnds
<1>11. CASE ClientSends \/ ClientLeaves
  BY <1>11 DEF TypeOK, ClientSends, ClientLeaves
<1>12. CASE Reap
  BY <1>12 DEF TypeOK, Reap
<1> QED
  BY <1>1, <1>2, <1>3, <1>4, <1>5, <1>6, <1>7, <1>8, <1>9, <1>10, <1>11, <1>12
     DEF Next, Task, World

LEMMA LineInit == Init => LineInv
<1> SUFFICES ASSUME Init
             PROVE  LineInv
  OBVIOUS
<1>1. shown = <<>> /\ Len(shown) = 0 /\ DOMAIN shown = {}
  BY EmptySeq DEF Init
<1>2. Whole(Len(shown))
  BY <1>1 DEF Whole
<1> QED
  BY <1>1, <1>2 DEF Init, LineInv, WholeLines

\* A line that is sent goes after the others.
LEMMA SendLine ==
  ASSUME TypeOK, LineInv, Send, pc' = "select"
  PROVE  LineInv'
<1> DEFINE n == Len(shown)
<1>1. /\ n \in Nat /\ buf' = <<>>
      /\ taken' = taken /\ source' = source /\ written' = written
  BY SendAppends DEF Send
<1>2. /\ Len(shown') = n + 1 /\ DOMAIN shown' = 1 .. n + 1
      /\ \A k \in 1 .. n : shown'[k] = shown[k]
      /\ shown'[n + 1] = buf
  BY SendAppends
<1>3. Whole(n)
  BY DEF LineInv, Send
<1>4. CASE taken = 2 * n + 2 /\ buf = Line(n + 1)
  <2>1. \A k \in 1 .. n + 1 : shown'[k] = Line(k)
    BY <1>1, <1>2, <1>3, <1>4 DEF Whole
  <2>2. Whole(Len(shown))' /\ WholeLines'
    BY <1>2, <2>1 DEF Whole, WholeLines, Line
  <2>3. taken' = 2 * Len(shown')
    BY <1>1, <1>2, <1>4
  <2> QED
    BY <1>1, <2>2, <2>3 DEF LineInv
<1>5. CASE taken = 2 * n + 1 /\ buf = <<taken>> /\ source = "ended" /\ taken = written
  <2>1. \A k \in 1 .. n : shown'[k] = Line(k)
    BY <1>2, <1>3 DEF Whole
  <2>2. shown'[n + 1] = <<2 * (n + 1) - 1>>
    BY <1>1, <1>2, <1>5
  <2>3. WholeLines'
    BY <1>1, <1>2, <1>5, <2>1, <2>2 DEF WholeLines, Line
  <2> QED
    BY <1>1, <1>5, <2>3 DEF LineInv
<1> QED
  BY <1>4, <1>5 DEF LineInv, Send

LEMMA LineStep == TypeOK /\ LineInv /\ [Next]_vars => LineInv'
<1> SUFFICES ASSUME TypeOK, LineInv, [Next]_vars
             PROVE  LineInv'
  OBVIOUS
<1> USE DEF Whole
<1>1. CASE UNCHANGED vars
  BY <1>1 DEF LineInv, WholeLines, vars
<1>2. CASE Start
  BY <1>2 DEF LineInv, WholeLines, Start
<1>3. CASE Poll
  <2> DEFINE n == Len(shown)
  <2>1. /\ n \in Nat /\ taken \in Nat /\ taken' = taken + 1 /\ shown' = shown
        /\ buf' = Append(buf, taken + 1)
        /\ pc' = IF (taken + 1) % 2 = 0 THEN "send" ELSE "select"
    BY <1>3, LenProperties DEF TypeOK, Poll, EndOfLine
  <2>2. WholeLines'
    BY <1>3 DEF LineInv, WholeLines, Poll
  <2>3. CASE Whole(n) /\ taken = 2 * n /\ buf = <<>>
    <3>1. pc' = "select"
      <4>1. (2 * n + 1) % 2 # 0
        BY <2>1
      <4> QED
        BY <2>1, <2>3, <4>1
    <3>2. buf' = <<taken'>>
      BY <2>1, <2>3
    <3> QED
      BY <2>1, <2>2, <2>3, <3>1, <3>2 DEF LineInv
  <2>4. CASE Whole(n) /\ taken = 2 * n + 1 /\ buf = <<taken>>
    <3>1. pc' = "send"
      <4>1. (2 * n + 2) % 2 = 0
        BY <2>1
      <4> QED
        BY <2>1, <2>4, <4>1
    <3>2. buf' = Line(n + 1)
      <4>1. taken \in Parts /\ taken + 1 \in Parts
        BY <1>3, <2>1, <2>4, StreamAssumption DEF TypeOK, Poll, Parts
      <4>2. buf' = <<taken, taken + 1>>
        BY <2>1, <2>4, <4>1, Halves
      <4> QED
        <5>1. 2 * (n + 1) - 1 = taken /\ 2 * (n + 1) = taken + 1
          BY <2>1, <2>4
        <5> QED
          BY <4>2, <5>1 DEF Line
    <3> QED
      BY <2>1, <2>2, <2>4, <3>1, <3>2 DEF LineInv
  <2> QED
    BY <1>3, <2>3, <2>4 DEF LineInv, Poll, TypeOK
<1>4. CASE PollFails
  BY <1>4 DEF LineInv, WholeLines, PollFails
<1>5. CASE PollEnd
  BY <1>5 DEF LineInv, WholeLines, PollEnd, Leave
<1>6. CASE Send
  <2>1. CASE pc' = "select"
    BY <1>6, <2>1, SendLine
  <2>2. CASE pc' # "select"
    BY <1>6, <2>2 DEF LineInv, WholeLines, Send, Leave
  <2> QED
    BY <2>1, <2>2
<1>7. CASE Hear \/ Recv
  BY <1>7 DEF LineInv, WholeLines, Hear, Recv, Leave
<1>8. CASE Kill
  BY <1>8 DEF LineInv, WholeLines, Kill
<1>9. CASE Write
  BY <1>9 DEF LineInv, WholeLines, Write
<1>10. CASE SourceEnds
  BY <1>10 DEF LineInv, WholeLines, SourceEnds
<1>11. CASE ClientSends \/ ClientLeaves
  BY <1>11 DEF LineInv, WholeLines, ClientSends, ClientLeaves
<1>12. CASE Reap
  BY <1>12 DEF LineInv, WholeLines, Reap
<1> QED
  BY <1>1, <1>2, <1>3, <1>4, <1>5, <1>6, <1>7, <1>8, <1>9, <1>10, <1>11, <1>12
     DEF Next, Task, World

\* Type correctness: the buffer never holds more than a line, and docker's stream
\* has no child to wait for.
THEOREM StreamTypeCorrect == Spec => []TypeOK
BY TypeInit, TypeStep, LineInit, LineStep, PTL DEF Spec

\* Every line is shown whole, once and in order, whatever the client sends while
\* half a line has been read.
THEOREM StreamShowsWholeLines == Spec => []WholeLines
<1>1. LineInv => WholeLines
  BY DEF LineInv
<1> QED
  BY <1>1, TypeInit, TypeStep, LineInit, LineStep, PTL DEF Spec
=============================================================================
