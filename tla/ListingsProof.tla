---------------------------- MODULE ListingsProof ----------------------------
(***************************************************************************)
(* Proofs about the lists of apps, containers and services, for any homes, *)
(* items, units, widths of their words and orders of the rows.             *)
(***************************************************************************)
EXTENDS Listings, SequenceTheorems, FiniteSetTheorems, TLAPS

Listed == {"pm2", "docker", "log"}

\* What a request is at any time.
ReqInv ==
  /\ req = [kind |-> req.kind, todo |-> req.todo, rows |-> req.rows,
            errs |-> req.errs, want |-> req.want]
  /\ req.kind \in {"none", "services"} \cup Listed
  /\ req.todo \in Seq(Sources)
  /\ req.errs \in BOOLEAN
  /\ req.kind # "services" => req.rows \in Seq(Catalogue)
  /\ req.kind = "none" => req = NoReq
  /\ req.kind = "services" => req.todo = <<>>
  /\ req.kind = "log" =>
       /\ Range(req.todo) \subseteq Homes
       /\ \A r \in Range(req.rows) : r[1] \in Homes
       /\ req.want[1] \in Homes

HostInv ==
  /\ configured \in Configs
  /\ marked \subseteq Homes
  /\ handle \in BOOLEAN
  /\ items \in [Sources -> SUBSET Names]
  /\ \A s \in Sources : {s} \X items[s] \subseteq Catalogue
  /\ working \subseteq Sources

\* What a request has been told, and is going to be.  A steady item can be
\* listed now; it is in the rows or its source has not been asked.  A row whose
\* name is that of a steady item of another home is known to share it.
TrackInv ==
  /\ steady \subseteq Visible
  /\ shared \subseteq Names
  /\ req.kind \in Listed => NamesOfTwo \subseteq shared
  /\ req.kind \notin Listed => steady = {}
  /\ \A i \in steady : i[1] \in Range(req.todo) \/ i \in Range(req.rows)
  /\ \A i \in steady, r \in Range(req.rows) :
       /\ i[1] \in Homes /\ r[1] \in Homes /\ i[1] # r[1] /\ i[2] = r[2]
       => i[2] \in shared

ListInv == ReqInv /\ HostInv /\ TrackInv

-----------------------------------------------------------------------------
(* Sequences.                                                              *)

\* A program lists each of its items once, in whatever order.
LEMMA InOrder ==
  ASSUME NEW S, IsFiniteSet(S), NEW q \in SetToSeqs(S)
  PROVE  q \in Seq(S) /\ Range(q) = S
<1> DEFINE n == Cardinality(S)
<1>1. n \in Nat
  BY FS_CardinalityType
<1>2. q \in [1 .. n -> S] /\ \A i, j \in 1 .. n : i # j => q[i] # q[j]
  BY DEF SetToSeqs
<1>3. Cardinality(1 .. n) = n
  BY <1>1, FS_Interval
<1>4. q \in Injection(1 .. n, S)
  BY <1>2 DEF Injection, IsInjective
<1>5. Cardinality(1 .. n) = Cardinality(S) <=> q \in Surjection(1 .. n, S)
  BY <1>4, FS_Injection
<1>6. q \in Surjection(1 .. n, S)
  BY <1>3, <1>5
<1> HIDE DEF n
<1>7. q \in Seq(S)
  BY <1>1, <1>2
<1>8. Range(q) = S
  BY <1>2, <1>6 DEF Range, Surjection
<1> QED  BY <1>7, <1>8

\* Asking the head leaves the tail.
LEMMA HeadOrTail ==
  ASSUME NEW S, NEW q \in Seq(S), q # <<>>
  PROVE  /\ Head(q) \in S
         /\ Tail(q) \in Seq(S)
         /\ Range(q) = {Head(q)} \cup Range(Tail(q))
<1>1. Len(q) \in Nat \ {0} /\ DOMAIN q = 1 .. Len(q)
  BY LenProperties, EmptySeq
<1>2. /\ Head(q) \in S /\ Tail(q) \in Seq(S)
      /\ Len(Tail(q)) = Len(q) - 1
      /\ \A i \in 1 .. Len(Tail(q)) : Tail(q)[i] = q[i + 1]
  BY HeadTailProperties
<1>3. Head(q) = q[1]
  BY <1>1
<1>4. DOMAIN Tail(q) = 1 .. Len(q) - 1
  BY <1>2, LenProperties
<1> DEFINE t == Tail(q)  h == Head(q)
<1> HIDE DEF t, h
<1>5. Range(q) \subseteq {h} \cup Range(t)
  <2> SUFFICES ASSUME NEW k \in 1 .. Len(q)
               PROVE  q[k] \in {h} \cup Range(t)
    BY <1>1 DEF Range
  <2>1. CASE k = 1
    BY <1>3, <2>1 DEF h
  <2>2. CASE k # 1
    <3>1. k - 1 \in 1 .. Len(q) - 1 /\ (k - 1) + 1 = k
      BY <1>1, <2>2
    <3>2. q[k] = t[k - 1] /\ k - 1 \in DOMAIN t
      BY <1>2, <1>4, <3>1 DEF t
    <3> QED  BY <3>2 DEF Range
  <2> QED  BY <2>1, <2>2
<1>6. {h} \cup Range(t) \subseteq Range(q)
  <2>1. h \in Range(q)
    BY <1>1, <1>3 DEF h, Range
  <2>2. ASSUME NEW k \in 1 .. Len(q) - 1
        PROVE  t[k] \in Range(q)
    <3>1. k + 1 \in 1 .. Len(q)
      BY <1>1
    <3>2. t[k] = q[k + 1]
      BY <1>2 DEF t
    <3> QED  BY <1>1, <3>1, <3>2 DEF Range
  <2>3. Range(t) \subseteq Range(q)
    BY <1>4, <2>2 DEF Range, t
  <2> QED  BY <2>1, <2>3
<1> QED  BY <1>2, <1>5, <1>6 DEF t, h

\* A set of places has a first one.
LEMMA FirstPlace ==
  ASSUME NEW I \in SUBSET Nat, I # {}
  PROVE  Min(I) \in I
<1> DEFINE R == {ss \in Nat \X Nat : ss[1] < ss[2]}
<1>1. IsWellFoundedOn(R, Nat)
  BY NatLessThanWellFounded DEF OpToRel
<1>2. \E x \in I : \A y \in I : <<y, x>> \notin R
  <2> HIDE DEF R
  <2> QED  BY <1>1, WFMin
<1>3. PICK x \in I : \A y \in I : <<y, x>> \notin R
  BY <1>2
<1>4. ASSUME NEW y \in I  PROVE x <= y
  <2>1. <<y, x>> \notin R
    BY <1>3
  <2>2. x \in Nat /\ y \in Nat /\ ~(y < x)
    BY <2>1
  <2> QED  BY <2>2
<1> QED  BY <1>4 DEF Min

-----------------------------------------------------------------------------
(* The steps of a request.                                                 *)

\* There are finitely many homes, and names at a source.
LEMMA Finite ==
  ASSUME HostInv
  PROVE  /\ IsFiniteSet(marked)
         /\ \A s \in Sources : IsFiniteSet({s} \X items[s])
<1>1. IsFiniteSet(marked)
  BY FS_Subset, ListingsAssumption DEF HostInv
<1>2. ASSUME NEW s \in Sources  PROVE IsFiniteSet({s} \X items[s])
  <2>1. IsFiniteSet(items[s])
    BY FS_Subset, ListingsAssumption DEF HostInv
  <2>2. IsFiniteSet({s})
    BY FS_Singleton
  <2> QED  BY <2>1, <2>2, FS_Product
<1> QED  BY <1>1, <1>2

\* The sources of a request are homes, but for a list of containers.
LEMMA TargetsType ==
  ASSUME HostInv, NEW kind \in Listed, NEW todo \in Targets(kind)
  PROVE  /\ todo \in Seq(Sources)
         /\ kind # "docker" => Range(todo) \subseteq Homes
<1> USE DEF Targets, Sources
<1>1. Homes \subseteq Sources /\ Docker \in Sources /\ OwnHome \in Homes
  BY ListingsAssumption
<1>2. CASE kind = "docker"
  <2>1. todo = <<Docker>> \/ todo = <<>>
    BY <1>2
  <2>2. <<Docker>> \in Seq(Sources) /\ <<>> \in Seq(Sources)
    <3>1. Docker \in Sources
      BY <1>1
    <3> HIDE DEF Sources
    <3> QED  BY <3>1, EmptySeq
  <2> QED  BY <1>2, <2>1, <2>2
<1>3. ASSUME todo \in Seq(Homes)
      PROVE  todo \in Seq(Sources) /\ Range(todo) \subseteq Homes
  <2>1. Homes \subseteq Sources
    BY <1>1
  <2> HIDE DEF Sources
  <2> QED  BY <1>3, <2>1, SeqMonotonic, RangeOfSeq
<1>4. CASE kind # "docker" /\ configured # <<>>
  <2>1. todo = configured
    BY <1>4
  <2>2. todo \in Seq(Homes)
    BY <2>1, ListingsAssumption DEF HostInv
  <2> QED  BY <1>3, <2>2
<1>5. CASE kind # "docker" /\ configured = <<>> /\ marked # {}
  <2>1. todo \in SetToSeqs(marked)
    BY <1>5 DEF Discovered
  <2>2. todo \in Seq(marked)
    BY <2>1, InOrder, Finite
  <2>3. todo \in Seq(Homes)
    BY <2>2, SeqMonotonic DEF HostInv
  <2> QED  BY <1>3, <2>3
<1>6. CASE kind # "docker" /\ configured = <<>> /\ marked = {}
  <2>1. todo = <<OwnHome>>
    BY <1>6
  <2> QED  BY <1>1, <1>3, <2>1
<1> QED  BY <1>2, <1>4, <1>5, <1>6

\* What can be listed is in the catalogue.
LEMMA VisibleItems ==
  ASSUME HostInv, NEW i \in Visible
  PROVE  /\ i \in Catalogue /\ i = <<i[1], i[2]>>
         /\ i[1] \in working /\ i[1] \in Sources /\ i[2] \in Names /\ i[2] \in items[i[1]]
BY ListingsAssumption DEF Visible, HostInv, Sources

\* A request begins with every visible item of its sources steady.
LEMMA BeginKeeps ==
  ASSUME ListInv, NEW kind \in Listed, NEW want, kind = "log" => want[1] \in Homes,
         Begin(kind, want)
  PROVE  ListInv'
<1>1. PICK todo \in Targets(kind) :
        /\ req' = [NoReq EXCEPT !.kind = kind, !.todo = todo, !.want = want]
        /\ steady' = Visible \cap (Range(todo) \X Names)
  BY DEF Begin
<1>2. /\ todo \in Seq(Sources)
      /\ kind # "docker" => Range(todo) \subseteq Homes
  BY TargetsType DEF ListInv
<1>3. /\ shared' = NamesOfTwo
      /\ UNCHANGED <<configured, marked, handle, items, working>>
  BY DEF Begin
<1>4. req' = [kind |-> kind, todo |-> todo, rows |-> <<>>, errs |-> FALSE, want |-> want]
  BY <1>1 DEF NoReq
<1>5. <<>> \in Seq(Catalogue) /\ Range(<<>>) = {}
  BY EmptySeq DEF Range
<1>6. ReqInv'
  BY <1>2, <1>4, <1>5 DEF ReqInv, Listed
<1>7. HostInv'
  BY <1>3 DEF ListInv, HostInv
<1>8. Visible' = Visible /\ NamesOfTwo' = NamesOfTwo
  BY <1>3 DEF Visible, NamesOfTwo
<1>9. TrackInv'
  <2>1. steady' \subseteq Visible' /\ shared' \subseteq Names
    BY <1>1, <1>3, <1>8 DEF NamesOfTwo
  <2>2. req'.kind = kind /\ req'.todo = todo /\ req'.rows = <<>>
    BY <1>4
  <2>3. \A i \in steady' : i[1] \in Range(req'.todo)
    BY <1>1, <2>2
  <2>4. Range(req'.rows) = {}
    BY <1>5, <2>2
  <2> QED  BY <1>3, <1>8, <2>1, <2>2, <2>3, <2>4 DEF TrackInv
<1> QED  BY <1>6, <1>7, <1>9 DEF ListInv

\* A source that is asked lists all of its items, or has no steady one.
LEMMA AskKeeps ==
  ASSUME ListInv, Ask
  PROVE  ListInv'
<1> DEFINE s == Head(req.todo)
<1>1. req.todo \in Seq(Sources) /\ req.todo # <<>>
  BY DEF Ask, ListInv, ReqInv
<1>2. /\ s \in Sources /\ Tail(req.todo) \in Seq(Sources)
      /\ Range(req.todo) = {s} \cup Range(Tail(req.todo))
  BY <1>1, HeadOrTail
<1>3. req.kind \in Listed /\ req.rows \in Seq(Catalogue)
  BY <1>1 DEF ListInv, ReqInv, NoReq, Listed
<1>4. UNCHANGED <<configured, marked, handle, items, working, steady, shared>>
  BY DEF Ask
<1>5. HostInv'
  BY <1>4 DEF ListInv, HostInv
<1>6. Visible' = Visible /\ NamesOfTwo' = NamesOfTwo
  BY <1>4 DEF Visible, NamesOfTwo
<1>7. \A i \in steady : i[1] \in working /\ i[2] \in items[i[1]] /\ i = <<i[1], i[2]>>
  BY VisibleItems DEF ListInv, TrackInv
<1> DEFINE t == Tail(req.todo)
<1>8. CASE s \in working
  <2>1. PICK rows \in RowsOf(s) : req' = [req EXCEPT !.todo = Tail(@), !.rows = @ \o rows]
    BY <1>8 DEF Ask
  <2> DEFINE all == req.rows \o rows
  <2>2. rows \in Seq({s} \X items[s]) /\ Range(rows) = {s} \X items[s]
    BY <1>2, Finite, InOrder DEF RowsOf, ListInv
  <2>3. rows \in Seq(Catalogue)
    BY <1>2, <2>2, SeqMonotonic DEF ListInv, HostInv
  <2>4. all \in Seq(Catalogue) /\ Range(all) = Range(req.rows) \cup ({s} \X items[s])
    BY <1>3, <2>2, <2>3, ConcatProperties, RangeConcatenation
  <2>5. req' = [kind |-> req.kind, todo |-> t, rows |-> all,
                errs |-> req.errs, want |-> req.want]
    BY <2>1 DEF ListInv, ReqInv
  <2> HIDE DEF s, t, all
  <2>6. /\ req'.kind = req.kind /\ req'.todo = t /\ req'.rows = all
        /\ req'.errs = req.errs /\ req'.want = req.want
    BY <2>5
  <2>7. ReqInv'
    <3>1. req.kind = "log" => s \in Homes /\ \A r \in Range(all) : r[1] \in Homes
      BY <1>2, <2>4 DEF ListInv, ReqInv
    <3> QED  BY <1>2, <1>3, <2>4, <2>5, <2>6, <3>1 DEF ListInv, ReqInv, Listed, t, s
  <2>8. \A i \in steady : i[1] \in Range(t) \/ i \in Range(all)
    <3> SUFFICES ASSUME NEW i \in steady, i[1] \notin Range(t)
                 PROVE  i \in Range(all)
      OBVIOUS
    <3>1. i[1] = s \/ i \in Range(req.rows)
      BY <1>2 DEF ListInv, TrackInv, t, s
    <3>2. CASE i[1] = s
      BY <1>7, <2>4, <3>2
    <3> QED  BY <2>4, <3>1, <3>2
  <2>9. ASSUME NEW i \in steady, NEW r \in Range(all),
               i[1] \in Homes, r[1] \in Homes, i[1] # r[1], i[2] = r[2]
        PROVE  i[2] \in shared
    <3>1. CASE r \in Range(req.rows)
      BY <2>9, <3>1 DEF ListInv, TrackInv
    <3>2. CASE r \in {s} \X items[s]
      <4>1. r[1] = s /\ r[2] \in items[s] /\ i[2] \in items[i[1]]
        BY <1>7, <3>2
      <4>2. i[2] \in Names
        BY VisibleItems DEF ListInv, TrackInv
      <4>3. i[2] \in NamesOfTwo
        BY <2>9, <4>1, <4>2 DEF NamesOfTwo
      <4> QED  BY <1>3, <4>3 DEF ListInv, TrackInv
    <3> QED  BY <2>4, <3>1, <3>2
  <2>10. TrackInv'
    BY <1>3, <1>4, <1>6, <2>6, <2>8, <2>9 DEF ListInv, TrackInv
  <2> QED  BY <1>5, <2>7, <2>10 DEF ListInv
<1>9. CASE s \notin working
  <2>1. req' = [kind |-> req.kind, todo |-> t, rows |-> req.rows,
                errs |-> TRUE, want |-> req.want]
    BY <1>9 DEF Ask, ListInv, ReqInv
  <2> HIDE DEF s, t
  <2>2. /\ req'.kind = req.kind /\ req'.todo = t /\ req'.rows = req.rows
        /\ req'.errs = TRUE /\ req'.want = req.want
    BY <2>1
  <2>3. ReqInv'
    BY <1>2, <1>3, <2>1, <2>2 DEF ListInv, ReqInv, Listed, t, s
  <2>4. \A i \in steady : i[1] \in Range(t) \/ i \in Range(req.rows)
    BY <1>2, <1>7, <1>9 DEF ListInv, TrackInv, t, s
  <2>5. TrackInv'
    BY <1>3, <1>4, <1>6, <2>2, <2>4 DEF ListInv, TrackInv
  <2> QED  BY <1>5, <2>3, <2>5 DEF ListInv
<1> QED  BY <1>8, <1>9

\* What the host does to the items and the sources is a change of what is
\* visible that the histories take note of.
LEMMA WatchedKeeps ==
  ASSUME ListInv, HostInv', Watched
  PROVE  ListInv'
<1>1. /\ steady' = steady \cap Visible'
      /\ shared' = IF req = NoReq THEN {} ELSE shared \cup NamesOfTwo'
      /\ UNCHANGED <<configured, marked, handle, req>>
  BY DEF Watched
<1>2. ReqInv'
  BY <1>1 DEF ListInv, ReqInv
<1>3. NamesOfTwo' \subseteq Names
  BY DEF NamesOfTwo
<1>4. req = NoReq => req.kind \notin Listed
  BY DEF NoReq, Listed
<1>5. TrackInv'
  BY <1>1, <1>3, <1>4 DEF ListInv, TrackInv
<1> QED  BY <1>2, <1>5 DEF ListInv

\* Apps start and stop within the catalogue; sources fail and recover.
LEMMA WorldKeeps ==
  ASSUME ListInv, World
  PROVE  ListInv'
<1>1. Watched
  BY DEF World, StartItem, StopItem, Toggle
<1>2. UNCHANGED <<configured, marked, handle>>
  BY <1>1 DEF Watched
<1>3. PICK s \in Sources : \/ \E n \in Names : StartItem(s, n) \/ StopItem(s, n)
                          \/ Toggle(s)
  BY DEF World
<1>4. ASSUME NEW n \in Names, StartItem(s, n)  PROVE HostInv'
  BY <1>2, <1>4 DEF StartItem, ListInv, HostInv
<1>5. ASSUME NEW n \in Names, StopItem(s, n)  PROVE HostInv'
  BY <1>2, <1>5 DEF StopItem, ListInv, HostInv
<1>6. ASSUME Toggle(s)  PROVE HostInv'
  BY <1>2, <1>6 DEF Toggle, ListInv, HostInv
<1> QED  BY <1>1, <1>3, <1>4, <1>5, <1>6, WatchedKeeps

\* Nothing is followed without a request, nor for a list of services.
LEMMA EndsKeep ==
  ASSUME ListInv,
         Done \/ \E table \in [Units -> UnitStates], filter \in Filters :
                   ListServices(table, filter)
  PROVE  ListInv'
<1>1. UNCHANGED <<configured, marked, handle, items, working>>
  BY DEF Done, ListServices
<1>2. HostInv' /\ Visible' = Visible
  BY <1>1 DEF ListInv, HostInv, Visible
<1>3. CASE Done
  <2>1. req' = NoReq /\ steady' = {} /\ shared' = {}
    BY <1>3 DEF Done
  <2>2. ReqInv'
    BY <2>1, EmptySeq DEF ReqInv, NoReq, Listed
  <2>3. TrackInv'
    BY <2>1 DEF TrackInv, NoReq, Listed
  <2> QED  BY <1>2, <2>2, <2>3 DEF ListInv
<1>4. CASE \E table \in [Units -> UnitStates], filter \in Filters :
             ListServices(table, filter)
  <2>1. PICK rows, want, errs :
          /\ errs \in BOOLEAN
          /\ req' = [kind |-> "services", todo |-> <<>>, rows |-> rows,
                     errs |-> errs, want |-> want]
    <3>1. PICK table \in [Units -> UnitStates], filter \in Filters :
            ListServices(table, filter)
      BY <1>4
    <3> DEFINE Answer(rows, errs) ==
          [kind |-> "services", todo |-> <<>>, rows |-> rows,
           errs |-> errs, want |-> <<table, filter>>]
    <3>2. req' = Answer(<<>>, TRUE) \/ \E rows : req' = Answer(rows, FALSE)
      BY <3>1 DEF ListServices, NoReq
    <3> QED  BY <3>2
  <2>2. /\ req'.kind = "services" /\ req'.todo = <<>> /\ req'.rows = rows
        /\ req'.errs \in BOOLEAN /\ req'.want = want
    BY <2>1
  <2>3. req.kind = "none" /\ UNCHANGED <<steady, shared>>
    BY <1>4 DEF ListServices
  <2>4. ReqInv'
    BY <2>1, <2>2, EmptySeq DEF ReqInv, Listed
  <2>5. steady' = {}
    BY <2>3 DEF ListInv, TrackInv, Listed
  <2>6. TrackInv'
    BY <2>2, <2>3, <2>5 DEF ListInv, TrackInv, Listed
  <2> QED  BY <1>2, <2>4, <2>6 DEF ListInv
<1> QED  BY <1>3, <1>4

\* Every step preserves the invariant.
LEMMA ListStep == ListInv /\ [Next]_vars => ListInv'
<1> SUFFICES ASSUME ListInv, [Next]_vars  PROVE ListInv'
  OBVIOUS
<1>1. ASSUME BeginAny  PROVE ListInv'
  <2>1. ASSUME NEW kind \in {"pm2", "docker"}, Begin(kind, NoRow)  PROVE ListInv'
    BY <2>1, BeginKeeps DEF Listed
  <2>2. ASSUME NEW i \in Catalogue, i[1] \in Homes, i[2] \in Accepted, Begin("log", i)
        PROVE  ListInv'
    BY <2>2, BeginKeeps DEF Listed
  <2> QED  BY <1>1, <2>1, <2>2 DEF BeginAny
<1>2. ASSUME UNCHANGED vars  PROVE ListInv'
  BY <1>2 DEF vars, ListInv, ReqInv, HostInv, TrackInv, Visible, NamesOfTwo
<1> QED  BY <1>1, <1>2, AskKeeps, EndsKeep, WorldKeeps DEF Next

\* The host begins with sources that have nothing, and without a request.
LEMMA ListStart == Init => ListInv
<1> SUFFICES ASSUME Init  PROVE ListInv
  OBVIOUS
<1>1. req = NoReq /\ steady = {} /\ shared = {}
  BY DEF Init
<1>2. ReqInv
  BY <1>1, EmptySeq DEF ReqInv, NoReq, Listed
<1>3. HostInv
  BY DEF Init, HostInv
<1>4. TrackInv
  BY <1>1 DEF TrackInv, NoReq, Listed
<1> QED  BY <1>2, <1>3, <1>4 DEF ListInv

-----------------------------------------------------------------------------
(* Services.                                                               *)

\* A finite set of numbers has a greatest one.
LEMMA Greatest ==
  ASSUME NEW S \in SUBSET Nat, IsFiniteSet(S), S # {}
  PROVE  Max(S) \in S /\ \A y \in S : y <= Max(S)
<1> DEFINE Tops(T) == {x \in T : \A y \in T : x >= y}
           Endless == {T \in FiniteSubsetsOf(S) : T # {} /\ Tops(T) = {}}
<1>1. ASSUME NEW T \in Endless,
             \A U \in Endless : <<U, T>> \notin StrictSubsetOrdering(S)
      PROVE  FALSE
  <2>1. PICK x \in T : TRUE
    OBVIOUS
  <2> DEFINE U == T \ {x}
  <2>2. T \in SUBSET S /\ IsFiniteSet(T)
    BY DEF FiniteSubsetsOf
  <2>3. U \in FiniteSubsetsOf(S)
    BY <2>2, FS_RemoveElement DEF FiniteSubsetsOf
  <2>4. <<U, T>> \in StrictSubsetOrdering(S)
    BY <2>1, <2>2 DEF StrictSubsetOrdering
  <2>5. U = {} \/ Tops(U) # {}
    BY <1>1, <2>3, <2>4
  <2>6. CASE U = {}
    <3>1. T = {x} /\ x \in Nat
      BY <2>1, <2>2, <2>6
    <3>2. x \in Tops(T)
      BY <3>1
    <3> QED  BY <3>2
  <2>7. CASE Tops(U) # {}
    <3>1. PICK z \in Tops(U) : TRUE
      BY <2>7
    <3>2. z \in T /\ z \in Nat /\ x \in Nat /\ \A y \in T : y = x \/ z >= y
      BY <2>1, <2>2, <3>1
    <3>3. (IF z >= x THEN z ELSE x) \in Tops(T)
      BY <2>1, <2>2, <3>2
    <3> QED  BY <3>3
  <2> QED  BY <2>5, <2>6, <2>7
<1>2. Endless \subseteq FiniteSubsetsOf(S)
  OBVIOUS
<1>3. S \notin Endless
  <2> HIDE DEF Endless
  <2> QED  BY <1>1, <1>2, FS_StrictSubsetOrderingWellFounded, WFMin
<1>4. PICK x \in S : \A y \in S : x >= y
  BY <1>3 DEF FiniteSubsetsOf
<1>5. Max(S) \in S /\ \A y \in S : Max(S) >= y
  BY <1>4 DEF Max
<1> QED  BY <1>5

\* A unit's words are not empty, and one blank or more follows each of them.
LEMMA BlanksType ==
  ASSUME NEW table \in [Units -> UnitStates], NEW u \in Units, NEW i \in 1 .. 4
  PROVE  Words(table, u)[i] # Void /\ Blanks(table, u, i) \in Nat \ {0}
<1> DEFINE Texts == {w \in DOMAIN Width : w # Void /\ Width[w] \in Nat}
           W(v) == Width[Words(table, v)[i]]
<1>1. \A v \in Units : Words(table, v)[i] \in Texts
  <2> SUFFICES ASSUME NEW v \in Units  PROVE Words(table, v)[i] \in Texts
    OBVIOUS
  <2>1. table[v] \in Texts \X Texts \X Texts /\ v \in Texts
    BY ServicesAssumption
  <2> HIDE DEF Texts
  <2>2. table[v][1] \in Texts /\ table[v][2] \in Texts /\ table[v][3] \in Texts
    BY <2>1
  <2>3. i \in {1, 2, 3, 4}
    OBVIOUS
  <2> QED  BY <2>1, <2>2, <2>3 DEF Words
<1>2. \A v \in Units : W(v) \in Nat
  BY <1>1
<1>3. {W(v) : v \in Units} \in SUBSET Nat /\ {W(v) : v \in Units} # {}
  BY <1>2
<1>4. IsFiniteSet({W(v) : v \in Units})
  <2> DEFINE f == [v \in Units |-> W(v)]
             R == {W(v) : v \in Units}
  <2>1. f \in Surjection(Units, R)
    BY DEF Surjection
  <2>2. IsFiniteSet(Units)
    BY ServicesAssumption
  <2> HIDE DEF f, R
  <2>3. IsFiniteSet(R)
    BY <2>1, <2>2, FS_Surjection
  <2> QED  BY <2>3 DEF R
<1>5. W(u) \in {W(v) : v \in Units}
  OBVIOUS
<1> DEFINE m == Max({W(v) : v \in Units})
<1>6. m \in Nat /\ W(u) <= m
  <2> HIDE DEF W
  <2> QED  BY <1>3, <1>4, <1>5, Greatest
<1>7. Blanks(table, u, i) = 1 + m - W(u)
  BY DEF Blanks
<1> HIDE DEF m
<1>8. Blanks(table, u, i) \in Nat \ {0}
  <2>1. W(u) \in Nat
    BY <1>2
  <2> HIDE DEF W
  <2> QED  BY <1>6, <1>7, <2>1
<1> QED  BY <1>1, <1>8

\* s is made of five sequences one after another.
InARow(s, a, b, c, d, e) ==
  LET A == Len(a)  B == A + Len(b)  C == B + Len(c)  D == C + Len(d)
  IN /\ Len(s) = D + Len(e)
     /\ \A k \in 1 .. D + Len(e) :
          s[k] = IF k <= A THEN a[k] ELSE IF k <= B THEN b[k - A]
                 ELSE IF k <= C THEN c[k - B] ELSE IF k <= D THEN d[k - C]
                 ELSE e[k - D]

\* Concatenation makes it so.
LEMMA FiveInARow ==
  ASSUME NEW S, NEW a \in Seq(S), NEW b \in Seq(S), NEW c \in Seq(S), NEW d \in Seq(S),
         NEW e \in Seq(S)
  PROVE  InARow(a \o b \o c \o d \o e, a, b, c, d, e)
<1>1. Len(a) \in Nat /\ Len(b) \in Nat /\ Len(c) \in Nat /\ Len(d) \in Nat /\ Len(e) \in Nat
  BY LenProperties
<1> DEFINE ab == a \o b  abc == ab \o c  abcd == abc \o d
<1>2. /\ Len(ab) = Len(a) + Len(b)
      /\ \A k \in 1 .. Len(a) + Len(b) : ab[k] = IF k <= Len(a) THEN a[k] ELSE b[k - Len(a)]
  BY ConcatProperties
<1>3. ab \in Seq(S)
  BY ConcatProperties
<1> HIDE DEF ab
<1>4. /\ Len(abc) = Len(ab) + Len(c)
      /\ \A k \in 1 .. Len(ab) + Len(c) : abc[k] = IF k <= Len(ab) THEN ab[k] ELSE c[k - Len(ab)]
  BY <1>3, ConcatProperties
<1>5. abc \in Seq(S)
  BY <1>3, ConcatProperties
<1> HIDE DEF abc
<1>6. /\ Len(abcd) = Len(abc) + Len(d)
      /\ \A k \in 1 .. Len(abc) + Len(d) :
           abcd[k] = IF k <= Len(abc) THEN abc[k] ELSE d[k - Len(abc)]
  BY <1>5, ConcatProperties
<1>7. abcd \in Seq(S)
  BY <1>5, ConcatProperties
<1> HIDE DEF abcd
<1>8. /\ abcd \o e \in Seq(S)
      /\ Len(abcd \o e) = Len(abcd) + Len(e)
      /\ \A k \in 1 .. Len(abcd) + Len(e) :
           (abcd \o e)[k] = IF k <= Len(abcd) THEN abcd[k] ELSE e[k - Len(abcd)]
  BY <1>7, ConcatProperties
<1>9. abcd \o e = a \o b \o c \o d \o e
  BY DEF ab, abc, abcd
<1> DEFINE s == abcd \o e
           A == Len(a)  B == A + Len(b)  C == B + Len(c)  D == C + Len(d)
<1>10. Len(s) = D + Len(e)
  BY <1>2, <1>4, <1>6, <1>8
<1>11. \A k \in 1 .. D + Len(e) :
        s[k] = IF k <= A THEN a[k] ELSE IF k <= B THEN b[k - A]
               ELSE IF k <= C THEN c[k - B] ELSE IF k <= D THEN d[k - C]
               ELSE e[k - D]
  <2> SUFFICES ASSUME NEW k \in 1 .. D + Len(e)
               PROVE  s[k] = IF k <= A THEN a[k] ELSE IF k <= B THEN b[k - A]
                             ELSE IF k <= C THEN c[k - B] ELSE IF k <= D THEN d[k - C]
                             ELSE e[k - D]
    OBVIOUS
  <2>1. s[k] = IF k <= D THEN abcd[k] ELSE e[k - D]
    BY <1>1, <1>2, <1>4, <1>6, <1>8
  <2>2. k <= D => abcd[k] = IF k <= C THEN abc[k] ELSE d[k - C]
    BY <1>1, <1>2, <1>4, <1>6
  <2>3. k <= C => abc[k] = IF k <= B THEN ab[k] ELSE c[k - B]
    BY <1>1, <1>2, <1>4
  <2>4. k <= B => ab[k] = IF k <= A THEN a[k] ELSE b[k - A]
    BY <1>1, <1>2
  <2>5. A <= B /\ B <= C /\ C <= D /\ A \in Nat /\ B \in Nat /\ C \in Nat /\ D \in Nat
    BY <1>1
  <2> HIDE DEF s, A, B, C, D
  <2> QED  BY <2>1, <2>2, <2>3, <2>4, <2>5
<1>12. InARow(s, a, b, c, d, e)
  BY <1>10, <1>11 DEF InARow
<1> HIDE DEF s
<1> QED  BY <1>9, <1>12 DEF s

\* A line as splitn and filter see it: the four words have places of their own,
\* every other piece but the last is empty.
LineOf(line, p, q, r) ==
  /\ p \in Nat /\ q \in Nat /\ r \in Nat /\ Len(line) \in Nat
  /\ 1 < p /\ p < q /\ q < r /\ r < Len(line)
  /\ \A k \in 1 .. Len(line) - 1 : line[k] # Void <=> k \in {1, p, q, r}

\* The line that systemctl writes is such a line.
LEMMA LineShape ==
  ASSUME NEW table \in [Units -> UnitStates], NEW u \in Units
  PROVE  LET line == Line(table, u)
             p == 1 + Blanks(table, u, 1)
             q == p + Blanks(table, u, 2)
             r == q + Blanks(table, u, 3)
         IN /\ LineOf(line, p, q, r)
            /\ line[1] = u
            /\ line[q] = table[u][2]
            /\ line[r] = table[u][3]
<1> DEFINE B(i) == Blanks(table, u, i)
           W(i) == Words(table, u)[i]
           C(i) == Column(table, u, i)
           S == {W(1), W(2), W(3), W(4), Void, "description"}
           line == Line(table, u)
           p == 1 + B(1)
           q == p + B(2)
           r == q + B(3)
           n == B(1) + B(2) + B(3) + B(4) + 1
<1>1. \A i \in {1, 2, 3, 4} : B(i) \in Nat \ {0} /\ W(i) # Void
  BY BlanksType
<1>2. W(1) = u /\ W(3) = table[u][2] /\ W(4) = table[u][3]
  BY DEF Words
<1>3. ASSUME NEW i \in {1, 2, 3, 4}
      PROVE  C(i) \in Seq(S) /\ Len(C(i)) = B(i)
             /\ \A k \in 1 .. B(i) : C(i)[k] = IF k = 1 THEN W(i) ELSE Void
  <2>1. C(i) = [k \in 1 .. B(i) |-> IF k = 1 THEN W(i) ELSE Void]
    BY DEF Column
  <2>2. W(i) \in S /\ Void \in S
    OBVIOUS
  <2> HIDE DEF B, W, S, C
  <2>3. B(i) \in Nat
    BY <1>1
  <2>4. C(i) \in [1 .. B(i) -> S]
    BY <2>1, <2>2
  <2> QED  BY <2>1, <2>3, <2>4
<1>4. <<"description">> \in Seq(S) /\ Len(<<"description">>) = 1
  <2>1. "description" \in S
    OBVIOUS
  <2> HIDE DEF S
  <2> QED  BY <2>1
<1>5. line = C(1) \o C(2) \o C(3) \o C(4) \o <<"description">>
  BY DEF Line
<1> HIDE DEF B, W, S, C, line
<1>6. /\ Len(line) = n
      /\ \A k \in 1 .. n :
           line[k] = IF k <= B(1) THEN C(1)[k]
                     ELSE IF k <= B(1) + B(2) THEN C(2)[k - B(1)]
                     ELSE IF k <= B(1) + B(2) + B(3) THEN C(3)[k - (B(1) + B(2))]
                     ELSE IF k <= B(1) + B(2) + B(3) + B(4)
                          THEN C(4)[k - (B(1) + B(2) + B(3))]
                     ELSE <<"description">>[k - (B(1) + B(2) + B(3) + B(4))]
  <2> DEFINE d == <<"description">>
  <2>1. /\ C(1) \in Seq(S) /\ C(2) \in Seq(S) /\ C(3) \in Seq(S) /\ C(4) \in Seq(S)
        /\ Len(C(1)) = B(1) /\ Len(C(2)) = B(2) /\ Len(C(3)) = B(3) /\ Len(C(4)) = B(4)
    BY <1>3
  <2>2. d \in Seq(S) /\ Len(d) = 1 /\ line = C(1) \o C(2) \o C(3) \o C(4) \o d
    BY <1>4, <1>5
  <2> HIDE DEF d
  <2> DEFINE s == C(1) \o C(2) \o C(3) \o C(4) \o d
             A == Len(C(1))  E == A + Len(C(2))  F == E + Len(C(3))  G == F + Len(C(4))
  <2>3. InARow(s, C(1), C(2), C(3), C(4), d)
    <3>1. C(1) \in Seq(S) /\ C(2) \in Seq(S) /\ C(3) \in Seq(S) /\ C(4) \in Seq(S)
          /\ d \in Seq(S)
      BY <2>1, <2>2
    <3> QED  BY <3>1, FiveInARow
  <2>4. /\ Len(s) = G + Len(d)
        /\ \A k \in 1 .. G + Len(d) :
             s[k] = IF k <= A THEN C(1)[k] ELSE IF k <= E THEN C(2)[k - A]
                    ELSE IF k <= F THEN C(3)[k - E] ELSE IF k <= G THEN C(4)[k - F]
                    ELSE d[k - G]
    BY <2>3 DEF InARow
  <2>5. line = s
    BY <2>2
  <2> HIDE DEF s
  <2> QED  BY <2>1, <2>2, <2>4, <2>5 DEF d
<1>7. \A k \in 1 .. n - 1 :
        line[k] = IF k = 1 THEN W(1) ELSE IF k = p THEN W(2) ELSE IF k = q THEN W(3)
                  ELSE IF k = r THEN W(4) ELSE Void
  <2> SUFFICES ASSUME NEW k \in 1 .. n - 1
               PROVE  line[k] = IF k = 1 THEN W(1) ELSE IF k = p THEN W(2)
                                ELSE IF k = q THEN W(3) ELSE IF k = r THEN W(4) ELSE Void
    OBVIOUS
  <2>0. B(1) \in Nat \ {0} /\ B(2) \in Nat \ {0} /\ B(3) \in Nat \ {0} /\ B(4) \in Nat \ {0}
    BY <1>1
  <2>1. CASE k <= B(1)
    <3>1. line[k] = C(1)[k] /\ k \in 1 .. B(1)
      BY <1>6, <2>0, <2>1
    <3>2. line[k] = IF k = 1 THEN W(1) ELSE Void
      BY <1>3, <3>1
    <3> QED  BY <2>0, <2>1, <3>2
  <2>2. CASE B(1) < k /\ k <= B(1) + B(2)
    <3>1. line[k] = C(2)[k - B(1)] /\ k - B(1) \in 1 .. B(2)
      BY <1>6, <2>0, <2>2
    <3>2. line[k] = IF k - B(1) = 1 THEN W(2) ELSE Void
      BY <1>3, <3>1
    <3> QED  BY <2>0, <2>2, <3>2
  <2>3. CASE B(1) + B(2) < k /\ k <= B(1) + B(2) + B(3)
    <3>1. line[k] = C(3)[k - (B(1) + B(2))] /\ k - (B(1) + B(2)) \in 1 .. B(3)
      BY <1>6, <2>0, <2>3
    <3>2. line[k] = IF k - (B(1) + B(2)) = 1 THEN W(3) ELSE Void
      BY <1>3, <3>1
    <3>3. k # 1 /\ k # p /\ k # r /\ (k = q <=> k - (B(1) + B(2)) = 1)
      BY <2>0, <2>3
    <3> HIDE DEF p, q, r
    <3> QED  BY <3>2, <3>3
  <2>4. CASE B(1) + B(2) + B(3) < k
    <3>1. /\ line[k] = C(4)[k - (B(1) + B(2) + B(3))]
          /\ k - (B(1) + B(2) + B(3)) \in 1 .. B(4)
      BY <1>6, <2>0, <2>4
    <3>2. line[k] = IF k - (B(1) + B(2) + B(3)) = 1 THEN W(4) ELSE Void
      BY <1>3, <3>1
    <3>3. k # 1 /\ k # p /\ k # q /\ (k = r <=> k - (B(1) + B(2) + B(3)) = 1)
      BY <2>0, <2>4
    <3> HIDE DEF p, q, r
    <3> QED  BY <3>2, <3>3
  <2> QED  BY <2>0, <2>1, <2>2, <2>3, <2>4
<1>8. /\ p \in Nat /\ q \in Nat /\ r \in Nat /\ n \in Nat
      /\ 1 < p /\ p < q /\ q < r /\ r < n
  BY <1>1
<1> HIDE DEF p, q, r, n
<1>9. \A k \in 1 .. n - 1 : line[k] # Void <=> k \in {1, p, q, r}
  BY <1>1, <1>7
<1>10. line[1] = W(1) /\ line[q] = W(3) /\ line[r] = W(4)
  BY <1>7, <1>8
<1>11. LineOf(line, p, q, r)
  BY <1>6, <1>8, <1>9 DEF LineOf
<1> QED  BY <1>2, <1>10, <1>11 DEF line, p, q, r, B

\* The numbers up to n.
LEMMA Interval ==
  \A n \in Nat : IsFiniteSet(1 .. n) /\ Cardinality(1 .. n) = n
<1> SUFFICES ASSUME NEW n \in Nat
             PROVE  IsFiniteSet(1 .. n) /\ Cardinality(1 .. n) = n
  OBVIOUS
<1>1. 1 \in Int /\ n \in Int
  OBVIOUS
<1>2. IsFiniteSet(1 .. n) /\ Cardinality(1 .. n) = IF 1 > n THEN 0 ELSE n - 1 + 1
  BY <1>1, FS_Interval
<1> QED  BY <1>2

\* The first column is the first word, and a word in the third or the fourth
\* column has two words before it.
LEMMA ColumnsShow ==
  ASSUME NEW line, NEW p, NEW q, NEW r, LineOf(line, p, q, r)
  PROVE  /\ Columns(line)[1] = <<line[1]>>
         /\ \A i \in {3, 4} : \A f :
              f # Void /\ Columns(line)[i] = <<f>> => f \in {line[q], line[r]}
<1> DEFINE full == {k \in 1 .. 5 : Split(line)[k] # <<Void>>}
           Upto(k) == full \cap (1 .. k)
           At(i) == {m \in full : Cardinality(Upto(m)) = i}
<1>1. /\ p \in Nat /\ q \in Nat /\ r \in Nat /\ Len(line) \in Nat
      /\ 1 < p /\ p < q /\ q < r /\ r < Len(line)
      /\ \A k \in 1 .. Len(line) - 1 : line[k] # Void <=> k \in {1, p, q, r}
  BY DEF LineOf
<1>2. ASSUME NEW i \in 1 .. 5
      PROVE  /\ At(i) = {} => Columns(line)[i] = <<Void>>
             /\ At(i) # {} => \E k \in At(i) : Columns(line)[i] = Split(line)[k]
  <2> DEFINE c == CHOOSE k \in At(i) : TRUE
  <2>1. Columns(line)[i] = IF At(i) = {} THEN <<Void>> ELSE Split(line)[c]
    BY DEF Columns
  <2>2. At(i) # {} => c \in At(i)
    OBVIOUS
  <2> HIDE DEF c, At
  <2> QED  BY <2>1, <2>2
<1>3. \A k \in 1 .. 4 : Split(line)[k] = <<line[k]>> /\ (k \in full <=> line[k] # Void)
  BY DEF Split
<1>4. Split(line)[5] = SubSeq(line, 5, Len(line))
  BY DEF Split
<1>5. full \subseteq 1 .. 5
  OBVIOUS
<1> HIDE DEF full
<1>6. 1 \in full
  BY <1>1, <1>3
<1>7. ASSUME NEW k \in full, NEW T, Upto(k) \subseteq T, IsFiniteSet(T)
      PROVE  Cardinality(Upto(k)) <= Cardinality(T)
  BY <1>7, FS_Subset
<1>8. \A k \in full : k = 1 <=> Cardinality(Upto(k)) = 1
  <2> SUFFICES ASSUME NEW k \in full
               PROVE  k = 1 <=> Cardinality(Upto(k)) = 1
    OBVIOUS
  <2>1. ASSUME k = 1  PROVE Cardinality(Upto(k)) = 1
    <3>1. Upto(k) = {1}
      BY <1>6, <2>1
    <3> QED  BY <3>1, FS_Singleton
  <2>2. ASSUME Cardinality(Upto(k)) = 1  PROVE k = 1
    <3>1. IsFiniteSet(Upto(k))
      <4>1. IsFiniteSet(1 .. 5) /\ Upto(k) \in SUBSET (1 .. 5)
        BY <1>5, Interval
      <4> QED  BY <4>1, FS_Subset
    <3>2. PICK x : Upto(k) = {x}
      <4> HIDE DEF Upto
      <4> QED  BY <2>2, <3>1, FS_Singleton
    <3>3. 1 \in Upto(k) /\ k \in Upto(k)
      BY <1>5, <1>6
    <3> QED  BY <3>2, <3>3
  <2> QED  BY <2>1, <2>2
<1>9. Columns(line)[1] = <<line[1]>>
  <2>1. At(1) = {1}
    BY <1>6, <1>8
  <2> HIDE DEF At
  <2> QED  BY <1>2, <1>3, <2>1
<1>10. ASSUME NEW i \in {3, 4}, NEW f, f # Void, Columns(line)[i] = <<f>>
       PROVE  f \in {line[q], line[r]}
  <2>1. At(i) # {}
    BY <1>2, <1>10
  <2>2. PICK k \in At(i) : Split(line)[k] = <<f>>
    <3>1. i \in 1 .. 5
      OBVIOUS
    <3> HIDE DEF At
    <3> QED  BY <1>2, <1>10, <2>1, <3>1
  <2>3. k \in full /\ k \in 1 .. 5 /\ Cardinality(Upto(k)) = i
    BY <1>5, <2>2
  <2>4. k >= 3
    <3>1. Cardinality(1 .. k) = k /\ IsFiniteSet(1 .. k)
      BY <2>3, Interval
    <3>2. i <= k
      BY <1>7, <2>3, <3>1
    <3> QED  BY <2>3, <3>2
  <2>5. CASE k = 5
    <3>1. Len(line) = 5
      <4>1. Len(<<f>>) = 1
        OBVIOUS
      <4>2. Len(SubSeq(line, 5, Len(line))) = 1
        BY <1>4, <2>2, <2>5, <4>1
      <4>3. Len(SubSeq(line, 5, Len(line))) = Len(line) - 4
        <5> DEFINE S == {line[j] : j \in 5 .. Len(line)}
        <5>1. \A j \in 5 .. Len(line) : line[j] \in S
          OBVIOUS
        <5>2. 5 <= Len(line)
          BY <1>1
        <5> HIDE DEF S
        <5> QED  BY <1>1, <5>1, <5>2, SubSeqProperties
      <4> QED  BY <1>1, <4>2, <4>3
    <3>2. p = 2 /\ q = 3 /\ r = 4
      BY <1>1, <3>1
    <3>3. \A j \in 1 .. 4 : j \in full
      BY <1>1, <1>3, <3>1, <3>2
    <3>4. Upto(k) = 1 .. 5
      BY <2>3, <2>5, <3>3
    <3>5. Cardinality(1 .. 5) = 5
      BY Interval
    <3> QED  BY <2>3, <3>4, <3>5
  <2>6. CASE k \in {3, 4}
    <3>1. f = line[k] /\ line[k] # Void
      BY <1>3, <1>10, <2>2, <2>6
    <3>2. k \in {p, q, r}
      BY <1>1, <2>6, <3>1
    <3>3. ASSUME k = p  PROVE FALSE
      <4>1. Upto(k) \subseteq {1, k}
        <5>1. \A j \in 2 .. k - 1 : j \notin full
          BY <1>1, <1>3, <2>6, <3>3
        <5> QED  BY <1>5, <2>3, <5>1
      <4>2. IsFiniteSet({1, k}) /\ Cardinality({1, k}) = 2
        <5>1. IsFiniteSet({1}) /\ Cardinality({1}) = 1
          BY FS_Singleton
        <5>2. {1, k} = {1} \cup {k} /\ k \notin {1}
          BY <2>4
        <5>3. /\ IsFiniteSet({1} \cup {k})
              /\ Cardinality({1} \cup {k}) = Cardinality({1}) + 1
          BY <5>1, <5>2, FS_AddElement
        <5> QED  BY <5>1, <5>2, <5>3
      <4>3. Cardinality(Upto(k)) <= 2
        BY <1>7, <2>3, <4>1, <4>2
      <4> QED  BY <2>3, <4>3
    <3> QED  BY <3>1, <3>2, <3>3
  <2> QED  BY <2>3, <2>4, <2>5, <2>6
<1> QED  BY <1>9, <1>10

\* The rows of an answered request for services are those that its filter shows,
\* or none.
FileInv ==
  req.kind = "services" =>
    \E table \in [Units -> UnitStates], filter \in Filters :
      /\ req.want = <<table, filter>>
      /\ Range(req.rows) \subseteq {u \in Units : Shown(table, u, filter)}

\* It is true before there is a request, and of each that begins.
LEMMA FileStart == Init => FileInv
BY DEF Init, NoReq, FileInv

\* A list of services is filtered as it is made, and other steps leave it alone.
LEMMA FileStep == ListInv /\ FileInv /\ [Next]_vars => FileInv'
<1> SUFFICES ASSUME ListInv, FileInv, [Next]_vars  PROVE FileInv'
  OBVIOUS
<1>1. ASSUME UNCHANGED req  PROVE FileInv'
  BY <1>1 DEF FileInv
<1>2. ASSUME req'.kind # "services"  PROVE FileInv'
  BY <1>2 DEF FileInv
<1>3. ASSUME BeginAny  PROVE req'.kind # "services"
  BY <1>3 DEF BeginAny, Begin, NoReq
<1>4. ASSUME Done  PROVE req'.kind # "services"
  BY <1>4 DEF Done, NoReq
<1>5. ASSUME Ask  PROVE req'.kind # "services"
  <2>1. req.kind \in Listed
    <3>1. req.todo # <<>>
      BY <1>5 DEF Ask
    <3> QED  BY <3>1 DEF ListInv, ReqInv, NoReq
  <2>2. req'.kind = req.kind
    BY <1>5 DEF Ask, ListInv, ReqInv
  <2> QED  BY <2>1, <2>2 DEF Listed
<1>6. ASSUME World \/ UNCHANGED vars  PROVE UNCHANGED req
  BY <1>6 DEF World, StartItem, StopItem, Toggle, Watched, vars
<1>7. ASSUME NEW table \in [Units -> UnitStates], NEW filter \in Filters,
             ListServices(table, filter)
      PROVE  FileInv'
  <2> DEFINE S == {u \in Units : Shown(table, u, filter)}
  <2>1. /\ req'.want = <<table, filter>>
        /\ req'.rows = <<>> \/ req'.rows \in SetToSeqs(S)
    BY <1>7 DEF ListServices, NoReq
  <2>3. IsFiniteSet(S)
    BY ServicesAssumption, FS_Subset
  <2> HIDE DEF S
  <2>4. Range(<<>>) = {}
    BY DEF Range
  <2>5. Range(req'.rows) \subseteq S
    BY <2>1, <2>3, <2>4, InOrder
  <2> QED  BY <2>1, <2>5 DEF FileInv, S
<1> QED  BY <1>1, <1>2, <1>3, <1>4, <1>5, <1>6, <1>7 DEF Next

-----------------------------------------------------------------------------
(* The theorems.                                                           *)

\* The invariant holds in every behaviour.
LEMMA ListInvariant == Spec => []ListInv
BY ListStart, ListStep, PTL DEF Spec

\* The type invariant: an answer holds nothing but what there may be.
THEOREM ListTypeCorrect == Spec => []TypeOK
<1>1. ListInv => TypeOK
  <2> SUFFICES ASSUME ListInv  PROVE TypeOK
    OBVIOUS
  <2>1. req.kind # "services" => Range(req.rows) \subseteq Catalogue
    BY RangeOfSeq DEF ListInv, ReqInv
  <2>2. steady \subseteq Catalogue
    BY DEF ListInv, TrackInv, Visible
  <2> QED  BY <2>1, <2>2 DEF ListInv, ReqInv, HostInv, TrackInv, Listed, TypeOK
<1> QED  BY <1>1, ListInvariant, PTL

\* When every source has been asked, the steady items are in the rows.
LEMMA SteadyInRows ==
  ASSUME ListInv, req.todo = <<>>, NEW i \in steady
  PROVE  i \in Range(req.rows) /\ Answered = req.rows
<1>1. Range(req.todo) = {}
  BY DEF Range
<1>2. i \in Range(req.rows)
  BY <1>1 DEF ListInv, TrackInv
<1>3. req.rows # <<>>
  BY <1>2 DEF Range
<1> QED  BY <1>2, <1>3 DEF Answered, Failed

\* What is there from the beginning to the end of a request is in its answer,
\* whatever fails in between.
THEOREM ListsSteadyItems == Spec => []SteadyItemsListed
<1>1. ListInv => SteadyItemsListed
  BY SteadyInRows DEF SteadyItemsListed, Asked
<1> QED  BY <1>1, ListInvariant, PTL

\* The first row of the name is the app whose card was clicked: its log opens, or
\* none if it has none.
THEOREM ListOpensClickedLog == Spec => []ClickedLogOpens
<1>1. ASSUME ListInv, Asked({"log"}), req.want \in steady, req.want[2] \notin shared
      PROVE  Found = req.want
  <2> DEFINE want == req.want
             I == {i \in 1 .. Len(Answered) : Answered[i][2] = want[2]}
  <2>1. req.kind = "log" /\ req.todo = <<>>
    BY <1>1 DEF Asked
  <2>2. want \in Range(req.rows) /\ Answered = req.rows
    BY <1>1, <2>1, SteadyInRows
  <2>3. Answered \in Seq(Catalogue)
    BY <1>1, <2>1, <2>2 DEF ListInv, ReqInv
  <2>4. Len(Answered) \in Nat /\ DOMAIN Answered = 1 .. Len(Answered)
    BY <2>3, LenProperties
  <2>5. I \in SUBSET Nat /\ I # {}
    BY <2>2, <2>4 DEF Range
  <2>6. Found = Answered[Min(I)] /\ Min(I) \in I
    <3>1. Min(I) \in I
      BY <2>5, FirstPlace
    <3>2. Min(I) # 0
      BY <2>4, <3>1
    <3>3. SelectInSeq(Answered, LAMBDA i : i[2] = req.want[2]) = Min(I)
      BY <2>5 DEF SelectInSeq
    <3> QED  BY <3>1, <3>2, <3>3 DEF Found
  <2>7. Found \in Range(req.rows) /\ Found[2] = want[2]
    BY <2>2, <2>4, <2>6 DEF Range
  <2>8. Found[1] \in Homes /\ want[1] \in Homes
    BY <1>1, <2>1, <2>7 DEF ListInv, ReqInv
  <2>9. Found[1] = want[1]
    BY <1>1, <2>7, <2>8 DEF ListInv, TrackInv
  <2>10. Found \in Catalogue /\ want \in Catalogue
    BY <2>2, <2>3, <2>7, RangeOfSeq
  <2>11. Found = <<Found[1], Found[2]>> /\ want = <<want[1], want[2]>>
    BY <2>10, ListingsAssumption
  <2> QED  BY <2>7, <2>9, <2>11
<1>2. ListInv => ClickedLogOpens
  BY <1>1 DEF ClickedLogOpens, Opened
<1> QED  BY <1>2, ListInvariant, PTL

\* However the blanks of a line fall, and whatever the words are that a unit and
\* its states are written with, the filter shows no service for a word of
\* another column.
THEOREM ListMisfilesNothing == Spec => []NothingMisfiled
<1>1. FileInv => NothingMisfiled
  <2> SUFFICES ASSUME FileInv, req.kind = "services", NEW u \in Range(req.rows)
               PROVE  LET table == req.want[1] IN
                      /\ Columns(Line(table, u))[1] = <<u>>
                      /\ req.want[2] \in {table[u][2], table[u][3]}
    BY DEF NothingMisfiled, Asked
  <2>1. PICK table \in [Units -> UnitStates], filter \in Filters :
          /\ req.want = <<table, filter>>
          /\ Range(req.rows) \subseteq {v \in Units : Shown(table, v, filter)}
    BY DEF FileInv
  <2>2. u \in Units /\ \E i \in 3 .. 4 : Columns(Line(table, u))[i] = <<filter>>
    BY <2>1 DEF Shown
  <2>3. PICK p, q, r : /\ LineOf(Line(table, u), p, q, r)
                       /\ Line(table, u)[1] = u
                       /\ Line(table, u)[q] = table[u][2]
                       /\ Line(table, u)[r] = table[u][3]
    BY <2>2, LineShape
  <2>4. filter # Void
    BY ServicesAssumption
  <2>5. Columns(Line(table, u))[1] = <<u>>
    BY <2>3, ColumnsShow
  <2>6. filter \in {table[u][2], table[u][3]}
    <3>1. PICK i \in {3, 4} : Columns(Line(table, u))[i] = <<filter>>
      BY <2>2
    <3>2. filter \in {Line(table, u)[q], Line(table, u)[r]}
      BY <2>3, <2>4, <3>1, ColumnsShow
    <3> QED  BY <2>3, <3>2
  <2> QED  BY <2>1, <2>5, <2>6
<1> QED  BY <1>1, ListInvariant, FileStart, FileStep, PTL DEF Spec

=============================================================================
