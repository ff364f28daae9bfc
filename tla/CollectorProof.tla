--------------------------- MODULE CollectorProof ---------------------------
(* Proofs of the safety properties of Collector, for any number of         *)
(* requests and refreshes.                                                  *)
EXTENDS Collector, SequenceTheorems, TLAPS

-----------------------------------------------------------------------------
(* The queue of a lock.                                                    *)

\* What TypeOK says of the queues.
PlaceInv ==
  /\ queue \in [Locks -> Seq(Entries)]
  /\ \A l \in Locks :
       /\ OnePlace(queue[l])
       /\ \A i \in DOMAIN queue[l] : l \in Asked(queue[l][i].who)

\* What a process holds: the refresher keeps the first lock from the moment it
\* has refreshed what it guards, a request keeps its first lock while it waits
\* for its second.
Guarded ==
  /\ pc \in {"disks", "networks", "build", "snapshot", "return"} => Granted("sys", Refresher)
  /\ \A r \in Readers : step[r] = 2 => Granted("sys", r)

\* How far the parts of a refresh have got.
Lag(pcs) == IF pc \in pcs THEN 1 ELSE 0

AgeInv ==
  /\ age["disks"] = age["sys"] - Lag({"disks"})
  /\ age["networks"] = age["sys"] - Lag({"disks", "networks"})
  /\ age["snapshot"] = age["sys"] - Lag({"disks", "networks", "build", "snapshot"})
  /\ pc = "sys" => age["sys"] < MaxRound
  /\ pc = "snapshot" => new = age["sys"]

FreshInv ==
  /\ answered <= age["snapshot"]
  /\ \A r \in Readers : floor[r] <= answered

\* What a request asks for fits where it is.
JobInv ==
  \A r \in Readers :
    /\ job[r] = "none" => step[r] = 0
    /\ job[r] = "snapshot" => step[r] = 1
    /\ job[r] = "processes" => step[r] \in {1, 2}

\* The types but for the queues.
PlainTypes ==
  /\ age \in [Locks -> 0 .. MaxRound]
  /\ pc \in Steps
  /\ new \in 0 .. MaxRound
  /\ job \in [Readers -> {"none", "snapshot", "processes"}]
  /\ step \in [Readers -> 0 .. 2]
  /\ answered \in 0 .. MaxRound
  /\ floor \in [Readers -> 0 .. MaxRound]

LockInv == PlainTypes /\ JobInv /\ PlaceInv /\ Guarded /\ AgeInv

-----------------------------------------------------------------------------
(* Queues.                                                                 *)

\* Removing an element closes the gap.
LEMMA RemoveAtElements ==
  ASSUME NEW S, NEW q \in Seq(S), NEW i \in 1 .. Len(q)
  PROVE  /\ RemoveAt(q, i) \in Seq(S)
         /\ Len(RemoveAt(q, i)) = Len(q) - 1
         /\ \A j \in 1 .. Len(q) - 1 :
              RemoveAt(q, i)[j] = IF j < i THEN q[j] ELSE q[j + 1]
<1> DEFINE a == SubSeq(q, 1, i - 1)
           b == SubSeq(q, i + 1, Len(q))
<1>1. Len(q) \in Nat /\ i \in Int
  BY LenProperties
<1>2. /\ a \in Seq(S) /\ Len(a) = i - 1
      /\ \A j \in 1 .. i - 1 : a[j] = q[j]
  <2>1. \A j \in 1 .. i - 1 : q[j] \in S
    BY <1>1, ElementOfSeq
  <2>2. /\ a \in Seq(S) /\ Len(a) = IF 1 <= i - 1 THEN i - 1 - 1 + 1 ELSE 0
        /\ \A j \in 1 .. i - 1 - 1 + 1 : a[j] = q[1 + j - 1]
    BY <1>1, <2>1, SubSeqProperties
  <2> HIDE DEF a
  <2> QED
    BY <1>1, <2>2
<1>3. /\ b \in Seq(S) /\ Len(b) = Len(q) - i
      /\ \A j \in 1 .. Len(q) - i : b[j] = q[j + i]
  <2>1. \A j \in i + 1 .. Len(q) : q[j] \in S
    BY <1>1, ElementOfSeq
  <2>2. /\ b \in Seq(S) /\ Len(b) = IF i + 1 <= Len(q) THEN Len(q) - (i + 1) + 1 ELSE 0
        /\ \A j \in 1 .. Len(q) - (i + 1) + 1 : b[j] = q[i + 1 + j - 1]
    BY <1>1, <2>1, SubSeqProperties
  <2> HIDE DEF b
  <2>3. \A j \in 1 .. Len(q) - i : b[j] = q[j + i]
    BY <1>1, <2>2
  <2> QED
    BY <1>1, <2>2, <2>3
<1> HIDE DEF a, b
<1>4. /\ a \o b \in Seq(S) /\ Len(a \o b) = Len(a) + Len(b)
      /\ \A j \in 1 .. Len(a) + Len(b) :
           (a \o b)[j] = IF j <= Len(a) THEN a[j] ELSE b[j - Len(a)]
  BY <1>2, <1>3, ConcatProperties
<1> DEFINE c == a \o b
<1>5. RemoveAt(q, i) = c
  BY DEF RemoveAt, a, b
<1>6. c \in Seq(S) /\ Len(c) = Len(q) - 1
      /\ \A j \in 1 .. Len(q) - 1 : c[j] = IF j <= i - 1 THEN a[j] ELSE b[j - (i - 1)]
  BY <1>1, <1>2, <1>3, <1>4
<1> HIDE DEF c
<1>7. ASSUME NEW j \in 1 .. Len(q) - 1
      PROVE  c[j] = IF j < i THEN q[j] ELSE q[j + 1]
  <2>1. CASE j < i
    <3>1. j \in 1 .. i - 1 /\ j <= i - 1
      BY <1>1, <2>1
    <3> QED
      BY <1>2, <1>6, <2>1, <3>1
  <2>2. CASE ~(j < i)
    <3>1. /\ ~(j <= i - 1) /\ j - (i - 1) \in 1 .. Len(q) - i
          /\ (j - (i - 1)) + i = j + 1
      BY <1>1, <2>2
    <3>2. c[j] = b[j - (i - 1)]
      BY <1>6, <3>1
    <3>3. b[j - (i - 1)] = q[(j - (i - 1)) + i]
      BY <1>3, <3>1
    <3> QED
      BY <2>2, <3>1, <3>2, <3>3
  <2> QED
    BY <2>1, <2>2
<1> QED
  BY <1>5, <1>6, <1>7

\* Giving up a place: the process is no longer there, the others keep their order.
LEMMA WithoutQueue ==
  ASSUME NEW q \in Seq(Entries), OnePlace(q), NEW p
  PROVE  /\ Without(q, p) \in Seq(Entries)
         /\ OnePlace(Without(q, p))
         /\ \A i \in DOMAIN Without(q, p) :
              /\ Without(q, p)[i].who # p
              /\ \E j \in DOMAIN q : Without(q, p)[i] = q[j]
<1>1. CASE Places(q, p) = {}
  BY <1>1 DEF Without, Places
<1>2. CASE Places(q, p) # {}
  <2>1. PICK i \in Places(q, p) : Without(q, p) = RemoveAt(q, i)
    BY <1>2 DEF Without
  <2> DEFINE w == RemoveAt(q, i)
  <2>2. i \in 1 .. Len(q) /\ DOMAIN q = 1 .. Len(q) /\ Len(q) \in Nat /\ q[i].who = p
    BY LenProperties DEF Places
  <2>3. /\ w \in Seq(Entries) /\ Len(w) = Len(q) - 1
        /\ \A j \in 1 .. Len(q) - 1 : w[j] = IF j < i THEN q[j] ELSE q[j + 1]
    BY <2>2, RemoveAtElements
  <2> HIDE DEF w
  <2>4. DOMAIN w = 1 .. Len(q) - 1
    BY <2>3, LenProperties
  <2> DEFINE at(j) == IF j < i THEN j ELSE j + 1
  <2>5. \A j \in DOMAIN w : w[j] = q[at(j)] /\ at(j) \in DOMAIN q /\ at(j) # i
    BY <2>2, <2>3, <2>4
  <2>6. \A j, k \in DOMAIN w : at(j) = at(k) => j = k
    BY <2>2, <2>4
  <2> HIDE DEF at
  <2>7. OnePlace(w)
    BY <2>5, <2>6 DEF OnePlace
  <2>8. \A j \in DOMAIN w : w[j].who # p
    BY <2>2, <2>5 DEF OnePlace
  <2> QED
    BY <2>1, <2>3, <2>5, <2>7, <2>8 DEF w
<1> QED
  BY <1>1, <1>2

\* Granted, of a queue.
GrantedIn(q, h) ==
  \E i \in DOMAIN q :
    /\ q[i].who = h
    /\ \A j \in 1 .. i - 1 : ~q[i].write /\ ~q[j].write

\* What has been granted stays granted when another process gives up its place.
LEMMA WithoutKeeps ==
  ASSUME NEW q \in Seq(Entries), NEW p, NEW h, h # p, GrantedIn(q, h)
  PROVE  GrantedIn(Without(q, p), h)
<1>1. CASE Places(q, p) = {}
  BY <1>1 DEF Without
<1>2. CASE Places(q, p) # {}
  <2>1. PICK i \in Places(q, p) : Without(q, p) = RemoveAt(q, i)
    BY <1>2 DEF Without
  <2> DEFINE w == RemoveAt(q, i)
  <2>2. i \in 1 .. Len(q) /\ DOMAIN q = 1 .. Len(q) /\ Len(q) \in Nat /\ q[i].who = p
    BY LenProperties DEF Places
  <2>3. /\ w \in Seq(Entries) /\ Len(w) = Len(q) - 1
        /\ \A j \in 1 .. Len(q) - 1 : w[j] = IF j < i THEN q[j] ELSE q[j + 1]
    BY <2>2, RemoveAtElements
  <2> HIDE DEF w
  <2>4. DOMAIN w = 1 .. Len(q) - 1
    BY <2>3, LenProperties
  <2>5. PICK k \in DOMAIN q :
          /\ q[k].who = h
          /\ \A j \in 1 .. k - 1 : ~q[k].write /\ ~q[j].write
    BY DEF GrantedIn
  <2>6. CASE k < i
    <3>1. k \in DOMAIN w /\ w[k] = q[k]
      BY <2>2, <2>3, <2>4, <2>5, <2>6
    <3>2. \A j \in 1 .. k - 1 : w[j] = q[j]
      BY <2>2, <2>3, <2>5, <2>6
    <3> QED
      BY <2>1, <2>5, <3>1, <3>2 DEF GrantedIn, w
  <2>7. CASE k > i
    <3>1. k - 1 \in DOMAIN w /\ w[k - 1] = q[k] /\ k \in Int
      BY <2>2, <2>3, <2>4, <2>5, <2>7
    <3>2. \A j \in 1 .. k - 2 : w[j] = q[j] \/ w[j] = q[j + 1]
      BY <2>2, <2>3, <2>5, <2>7
    <3>3. \A j \in 1 .. k - 2 : j \in 1 .. k - 1 /\ j + 1 \in 1 .. k - 1
      BY <3>1
    <3>4. \A j \in 1 .. k - 2 : ~w[k - 1].write /\ ~w[j].write
      BY <2>5, <3>1, <3>2, <3>3
    <3>5. \A j \in 1 .. (k - 1) - 1 : j \in 1 .. k - 2
      BY <3>1
    <3> QED
      BY <2>1, <2>5, <3>1, <3>4, <3>5 DEF GrantedIn, w
  <2> QED
    BY <2>2, <2>5, <2>6, <2>7
<1> QED
  BY <1>1, <1>2

\* A process that asks for a lock goes to the end of its queue.
LEMMA AppendQueue ==
  ASSUME NEW q \in Seq(Entries), OnePlace(q), NEW e \in Entries,
         \A i \in DOMAIN q : q[i].who # e.who
  PROVE  /\ Append(q, e) \in Seq(Entries)
         /\ OnePlace(Append(q, e))
         /\ \A i \in DOMAIN Append(q, e) :
              Append(q, e)[i] = e \/ \E j \in DOMAIN q : Append(q, e)[i] = q[j]
<1> DEFINE w == Append(q, e)
<1>1. /\ w \in Seq(Entries) /\ Len(w) = Len(q) + 1
      /\ \A i \in 1 .. Len(q) : w[i] = q[i]
      /\ w[Len(q) + 1] = e
  BY AppendProperties
<1> HIDE DEF w
<1>2. DOMAIN w = 1 .. Len(q) + 1 /\ DOMAIN q = 1 .. Len(q) /\ Len(q) \in Nat
  BY <1>1, LenProperties
<1>3. \A i \in DOMAIN w : (i \in DOMAIN q /\ w[i] = q[i]) \/ (i = Len(q) + 1 /\ w[i] = e)
  BY <1>1, <1>2
<1>4. OnePlace(w)
  BY <1>3 DEF OnePlace
<1> QED
  BY <1>1, <1>3, <1>4 DEF w

LEMMA AppendKeeps ==
  ASSUME NEW q \in Seq(Entries), NEW e \in Entries, NEW h, GrantedIn(q, h)
  PROVE  GrantedIn(Append(q, e), h)
<1> DEFINE w == Append(q, e)
<1>1. /\ w \in Seq(Entries) /\ Len(w) = Len(q) + 1
      /\ \A i \in 1 .. Len(q) : w[i] = q[i]
  BY AppendProperties
<1> HIDE DEF w
<1>2. DOMAIN w = 1 .. Len(q) + 1 /\ DOMAIN q = 1 .. Len(q) /\ Len(q) \in Nat
  BY <1>1, LenProperties
<1>3. PICK k \in DOMAIN q :
        /\ q[k].who = h
        /\ \A j \in 1 .. k - 1 : ~q[k].write /\ ~q[j].write
  BY DEF GrantedIn
<1>4. k \in DOMAIN w /\ w[k] = q[k] /\ \A j \in 1 .. k - 1 : w[j] = q[j]
  BY <1>1, <1>2, <1>3
<1> QED
  BY <1>3, <1>4 DEF GrantedIn, w

\* What an exchange of locks does to the queues, if the process asks only for locks
\* that it has no place for.
LEMMA ExchangeQueues ==
  ASSUME PlaceInv, NEW p \in Processes, NEW old \in SUBSET Locks,
         NEW next \in SUBSET Locks, NEW request \in Entries, request.who = p,
         next \cap Asked(p) = {},
         Exchange(p, old, next, request)
  PROVE  /\ queue' \in [Locks -> Seq(Entries)]
         /\ \A l \in Locks :
              /\ OnePlace(queue'[l])
              /\ \A i \in DOMAIN queue'[l] :
                   \/ /\ l \in Asked(queue'[l][i].who)
                      /\ l \in old => queue'[l][i].who # p
                   \/ queue'[l][i].who = p /\ l \in next
              /\ \A h : (h # p \/ l \notin old) /\ Granted(l, h) => Granted(l, h)'
<1>1. SUFFICES ASSUME NEW l \in Locks
               PROVE  /\ queue'[l] \in Seq(Entries)
                      /\ OnePlace(queue'[l])
                      /\ \A i \in DOMAIN queue'[l] :
                           \/ /\ l \in Asked(queue'[l][i].who)
                              /\ l \in old => queue'[l][i].who # p
                           \/ queue'[l][i].who = p /\ l \in next
                      /\ \A h : (h # p \/ l \notin old) /\ GrantedIn(queue[l], h)
                           => GrantedIn(queue'[l], h)
  <2>1. queue' = [l \in Locks |-> queue'[l]]
    BY DEF Exchange
  <2> QED
    BY <2>1 DEF Granted, GrantedIn
<1> DEFINE q == queue[l]
           rest == IF l \in old THEN Without(q, p) ELSE q
<1>2. /\ q \in Seq(Entries) /\ OnePlace(q)
      /\ \A i \in DOMAIN q : l \in Asked(q[i].who)
  BY DEF PlaceInv
<1>3. queue'[l] = IF l \in next THEN Append(rest, request) ELSE rest
  BY DEF Exchange
<1> HIDE DEF q
<1>4. /\ rest \in Seq(Entries) /\ OnePlace(rest)
      /\ \A i \in DOMAIN rest : /\ l \in Asked(rest[i].who)
                                /\ l \in old => rest[i].who # p
  <2>1. CASE l \in old
    <3>1. /\ Without(q, p) \in Seq(Entries) /\ OnePlace(Without(q, p))
          /\ \A i \in DOMAIN Without(q, p) :
               /\ Without(q, p)[i].who # p
               /\ \E j \in DOMAIN q : Without(q, p)[i] = q[j]
      BY <1>2, WithoutQueue
    <3> QED
      BY <1>2, <2>1, <3>1
  <2>2. CASE l \notin old
    BY <1>2, <2>2
  <2> QED
    BY <2>1, <2>2
<1>5. \A h : (h # p \/ l \notin old) /\ GrantedIn(q, h) => GrantedIn(rest, h)
  BY <1>2, WithoutKeeps
<1> HIDE DEF rest
<1>6. CASE l \notin next
  BY <1>3, <1>4, <1>5, <1>6 DEF q
<1>7. CASE l \in next
  <2>1. \A i \in DOMAIN rest : rest[i].who # request.who
    BY <1>4, <1>7
  <2>2. /\ Append(rest, request) \in Seq(Entries)
        /\ OnePlace(Append(rest, request))
        /\ \A i \in DOMAIN Append(rest, request) :
             \/ Append(rest, request)[i] = request
             \/ \E j \in DOMAIN rest : Append(rest, request)[i] = rest[j]
    BY <1>4, <2>1, AppendQueue
  <2>3. \A h : GrantedIn(rest, h) => GrantedIn(Append(rest, request), h)
    BY <1>4, AppendKeeps
  <2> QED
    BY <1>3, <1>4, <1>5, <1>7, <2>2, <2>3 DEF q
<1> QED
  BY <1>6, <1>7

\* An exchange keeps PlaceInv if the process has what it had but for `old`, and
\* what it asks for, and no other process is concerned.
LEMMA PlaceKept ==
  ASSUME PlaceInv, NEW p \in Processes, NEW old \in SUBSET Locks,
         NEW next \in SUBSET Locks, NEW request \in Entries, request.who = p,
         next \cap Asked(p) = {},
         Exchange(p, old, next, request),
         \A h \in Processes \ {p} : Asked(h)' = Asked(h),
         (Asked(p) \ old) \cup next \subseteq Asked(p)'
  PROVE  PlaceInv'
<1>1. /\ queue' \in [Locks -> Seq(Entries)]
      /\ \A l \in Locks :
           /\ OnePlace(queue'[l])
           /\ \A i \in DOMAIN queue'[l] :
                \/ /\ l \in Asked(queue'[l][i].who)
                   /\ l \in old => queue'[l][i].who # p
                \/ queue'[l][i].who = p /\ l \in next
  BY ExchangeQueues
<1>2. ASSUME NEW l \in Locks, NEW i \in DOMAIN queue'[l],
             NEW h, h = queue'[l][i].who
      PROVE  l \in Asked(h)'
  <2>1. queue'[l][i] \in Entries
    <3>1. queue'[l] \in Seq(Entries)
      BY <1>1
    <3> QED
      BY <3>1, LenProperties
  <2>2. h \in Processes
    BY <1>2, <2>1 DEF Entries
  <2>3. CASE h = p
    BY <1>1, <1>2, <2>3
  <2>4. CASE h # p
    BY <1>1, <1>2, <2>2, <2>4
  <2> QED
    BY <2>3, <2>4
<1>3. \A l \in Locks : \A i \in DOMAIN queue'[l] : l \in Asked(queue[l][i].who)'
  BY <1>2 DEF Asked, RefresherLocks, ReaderLocks
<1> QED
  BY <1>1, <1>3 DEF PlaceInv

\* The refresher and a request do not hold a lock together.
LEMMA Excluded ==
  ASSUME PlaceInv, NEW r \in Readers, NEW l \in Locks, Granted(l, Refresher), Granted(l, r)
  PROVE  FALSE
<1>1. /\ queue[l] \in Seq(Entries) /\ DOMAIN queue[l] = 1 .. Len(queue[l])
      /\ Len(queue[l]) \in Nat
      /\ \A i \in DOMAIN queue[l] : queue[l][i] \in Entries
  <2>1. queue[l] \in Seq(Entries)
    BY DEF PlaceInv
  <2> QED
    BY <2>1, LenProperties
<1>2. PICK i \in DOMAIN queue[l] :
        /\ queue[l][i].who = Refresher
        /\ \A j \in 1 .. i - 1 : ~queue[l][i].write /\ ~queue[l][j].write
  BY DEF Granted
<1>3. PICK k \in DOMAIN queue[l] :
        /\ queue[l][k].who = r
        /\ \A j \in 1 .. k - 1 : ~queue[l][k].write /\ ~queue[l][j].write
  BY DEF Granted
<1>4. queue[l][i].write
  BY <1>1, <1>2 DEF Entries
<1>5. i = 1
  BY <1>1, <1>2, <1>4
<1>6. k # i
  BY <1>2, <1>3, CollectorAssumption
<1>7. 1 \in 1 .. k - 1
  BY <1>1, <1>5, <1>6
<1> QED
  BY <1>3, <1>4, <1>5, <1>7

LEMMA EntryTypes ==
  /\ Write(Refresher) \in Entries /\ Write(Refresher).who = Refresher
  /\ Refresher \in Processes
  /\ \A r \in Readers : Read(r) \in Entries /\ Read(r).who = r /\ r \in Processes
BY CollectorAssumption DEF Entries, Processes, Read, Write

\* Where the refresher is when it asks for a lock, and what it gives up.
LEMMA RefresherPlaces ==
  ASSUME LockInv, Refresh
  PROVE  PlaceInv' /\ Guarded'
<1> DEFINE Exch(old, next) == Exchange(Refresher, old, next, Write(Refresher))
<1>0. /\ PlaceInv /\ pc \in Steps
      /\ \A h \in Processes \ {Refresher} : Asked(h)' = Asked(h)
      /\ \A r \in Readers : r # Refresher
      /\ step' = step
  BY CollectorAssumption
     DEF LockInv, PlainTypes, Refresh, Wake, RefreshSys, RefreshDisks, RefreshNetworks, Build,
         Publish, Return, readers, Asked, ReaderLocks, Processes
<1>1. ASSUME NEW old \in SUBSET Locks, NEW next \in SUBSET Locks,
             Exch(old, next), next \cap RefresherLocks = {},
             (RefresherLocks \ old) \cup next \subseteq RefresherLocks',
             pc' \in {"disks", "networks", "build", "snapshot", "return"} =>
               Granted("sys", Refresher) /\ "sys" \notin old
      PROVE  PlaceInv' /\ Guarded'
  <2>1. next \cap Asked(Refresher) = {}
        /\ (Asked(Refresher) \ old) \cup next \subseteq Asked(Refresher)'
    BY <1>1 DEF Asked
  <2>2. PlaceInv'
    BY <1>0, <1>1, <2>1, EntryTypes, PlaceKept
  <2>3. "sys" \in Locks
    BY DEF Locks
  <2>4. \A h : (h # Refresher \/ "sys" \notin old) /\ Granted("sys", h) => Granted("sys", h)'
    <3>1. \A l \in Locks :
            \A h : (h # Refresher \/ l \notin old) /\ Granted(l, h) => Granted(l, h)'
      BY <1>0, <1>1, <2>1, EntryTypes, ExchangeQueues
    <3> QED
      BY <2>3, <3>1 DEF Granted
  <2>5. \A r \in Readers : step[r] = 2 => Granted("sys", r)
    BY DEF LockInv, Guarded
  <2> QED
    BY <1>0, <1>1, <2>2, <2>4, <2>5 DEF Guarded
<1> USE DEF Locks, RefresherLocks
<1>2. CASE Wake
  BY <1>1, <1>2 DEF Wake
<1>3. CASE RefreshSys
  BY <1>1, <1>3 DEF RefreshSys, Renew
<1>4. CASE RefreshDisks
  BY <1>1, <1>4 DEF RefreshDisks, Renew, LockInv, Guarded
<1>5. CASE RefreshNetworks
  <2>1. queue' = queue /\ pc = "networks" /\ pc' = "build"
    BY <1>5 DEF RefreshNetworks, Renew
  <2>2. \A h : Granted("sys", h) => Granted("sys", h)'
    BY <2>1 DEF Granted
  <2>3. \A h \in Processes : Asked(h)' = Asked(h)
    BY <1>0, <2>1 DEF Asked
  <2>4. PlaceInv'
    <3>1. ASSUME NEW l \in Locks, NEW i \in DOMAIN queue[l], NEW h, h = queue[l][i].who
          PROVE  l \in Asked(h)'
      <4>1. queue[l] \in Seq(Entries)
        BY DEF LockInv, PlaceInv
      <4>2. h \in Processes
        BY <3>1, <4>1, LenProperties DEF Entries
      <4>3. l \in Asked(h)
        BY <3>1 DEF LockInv, PlaceInv
      <4> QED
        BY <2>3, <4>2, <4>3
    <3>2. \A l \in Locks : \A i \in DOMAIN queue'[l] : l \in Asked(queue[l][i].who)'
      BY <2>1, <3>1 DEF Asked, ReaderLocks
    <3> QED
      BY <2>1, <3>2 DEF LockInv, PlaceInv
  <2> QED
    BY <1>0, <2>1, <2>2, <2>4 DEF LockInv, Guarded
<1>6. CASE Build
  BY <1>1, <1>6 DEF Build, LockInv, Guarded
<1>7. CASE Publish
  BY <1>1, <1>7 DEF Publish, LockInv, Guarded
<1>8. CASE Return
  BY <1>1, <1>8 DEF Return, LockInv, Guarded
<1> QED
  BY <1>2, <1>3, <1>4, <1>5, <1>6, <1>7, <1>8 DEF Refresh

\* Where a request is when it asks for a lock, and that it gives up all its places
\* when it is over.
LEMMA ReaderPlaces ==
  ASSUME LockInv, NEW r \in Readers,
         \/ \E kind \in {"snapshot", "processes"} : Begin(r, kind)
         \/ Acquire(r) \/ Answer(r) \/ Drop(r)
  PROVE  PlaceInv' /\ Guarded' /\ JobInv'
<1>0. /\ PlaceInv /\ r # Refresher /\ pc' = pc
      /\ job \in [Readers -> {"none", "snapshot", "processes"}]
      /\ step \in [Readers -> 0 .. 2]
      /\ \A q \in Readers \ {r} : job'[q] = job[q] /\ step'[q] = step[q]
  BY CollectorAssumption
     DEF LockInv, PlainTypes, Begin, Acquire, Answer, Drop, Finish, refresher
<1>1. \A h \in Processes \ {r} : Asked(h)' = Asked(h)
  BY <1>0 DEF Asked, ReaderLocks, RefresherLocks, Processes
<1>2. /\ job[r] = "none" => step[r] = 0
      /\ job[r] = "snapshot" => step[r] = 1
      /\ job[r] = "processes" => step[r] \in {1, 2}
  BY DEF LockInv, JobInv
<1>3. ASSUME NEW old \in SUBSET Locks, NEW next \in SUBSET Locks,
             Exchange(r, old, next, Read(r)), next \cap ReaderLocks(r) = {},
             (ReaderLocks(r) \ old) \cup next \subseteq ReaderLocks(r)',
             step'[r] = 2 => Granted("sys", r) /\ "sys" \notin old
      PROVE  PlaceInv' /\ Guarded'
  <2>1. next \cap Asked(r) = {} /\ (Asked(r) \ old) \cup next \subseteq Asked(r)'
    BY <1>0, <1>3 DEF Asked
  <2>2. PlaceInv'
    BY <1>0, <1>1, <1>3, <2>1, EntryTypes, PlaceKept
  <2>3. \A h : (h # r \/ "sys" \notin old) /\ Granted("sys", h) => Granted("sys", h)'
    <3>1. \A l \in Locks :
            \A h : (h # r \/ l \notin old) /\ Granted(l, h) => Granted(l, h)'
      BY <1>0, <1>3, <2>1, EntryTypes, ExchangeQueues
    <3> QED
      BY <3>1 DEF Locks, Granted
  <2>4. \A q \in Readers : step[q] = 2 => Granted("sys", q)
    BY DEF LockInv, Guarded
  <2>5. ASSUME NEW q \in Readers, step'[q] = 2
        PROVE  Granted("sys", q)'
    BY <1>0, <1>3, <2>3, <2>4, <2>5
  <2>6. pc' \in {"disks", "networks", "build", "snapshot", "return"}
          => Granted("sys", Refresher)'
    BY <1>0, <2>3 DEF LockInv, Guarded
  <2> QED
    BY <2>2, <2>5, <2>6 DEF Guarded
<1>4. ASSUME NEW kind \in {"snapshot", "processes"}, Begin(r, kind)
      PROVE  PlaceInv' /\ Guarded' /\ JobInv'
  <2>1. job'[r] = kind /\ step'[r] = 1 /\ job[r] = "none"
    BY <1>0, <1>4 DEF Begin
  <2>2. LocksOf(kind)[1] = IF kind = "snapshot" THEN "snapshot" ELSE "sys"
    BY DEF LocksOf
  <2>3. Exchange(r, {}, {LocksOf(kind)[1]}, Read(r))
    BY <1>4 DEF Begin
  <2>4. {LocksOf(kind)[1]} \in SUBSET Locks
    BY <2>2 DEF Locks
  <2>5. ReaderLocks(r) = {} /\ {LocksOf(kind)[1]} \subseteq ReaderLocks(r)'
    BY <2>1, <2>2 DEF ReaderLocks
  <2>6. PlaceInv' /\ Guarded'
    BY <1>3, <2>1, <2>3, <2>4, <2>5
  <2>7. JobInv'
    BY <1>0, <2>1 DEF LockInv, JobInv
  <2> QED
    BY <2>6, <2>7
<1>5. CASE Acquire(r)
  <2>1. job[r] = "processes" /\ step[r] = 1 /\ Granted("sys", r)
    <3>1. job[r] # "none" /\ Granted(LocksOf(job[r])[step[r]], r)
          /\ step[r] < Len(LocksOf(job[r]))
      BY <1>5 DEF Acquire, Ready
    <3>2. CASE job[r] = "snapshot"
      BY <1>2, <3>1, <3>2 DEF LocksOf
    <3>3. CASE job[r] = "processes"
      <4>1. Len(LocksOf(job[r])) = 2 /\ LocksOf(job[r])[1] = "sys"
        BY <3>3 DEF LocksOf
      <4> QED
        BY <1>2, <3>1, <3>3, <4>1
    <3> QED
      BY <1>0, <3>1, <3>2, <3>3
  <2>2. job'[r] = job[r] /\ step'[r] = 2
    BY <1>0, <1>5, <2>1 DEF Acquire
  <2>3. LocksOf(job[r])[step[r] + 1] = "users"
    BY <2>1 DEF LocksOf
  <2>4. Exchange(r, {}, {"users"}, Read(r))
    BY <1>5, <2>3 DEF Acquire
  <2>5. ReaderLocks(r) = {"sys"} /\ ReaderLocks(r)' = {"sys", "users"}
    BY <2>1, <2>2 DEF ReaderLocks
  <2>6. {"users"} \in SUBSET Locks
    BY DEF Locks
  <2>7. PlaceInv' /\ Guarded'
    BY <1>3, <2>1, <2>4, <2>5, <2>6
  <2>8. JobInv'
    BY <1>0, <2>1, <2>2 DEF LockInv, JobInv
  <2> QED
    BY <2>7, <2>8
<1>6. CASE Answer(r) \/ Drop(r)
  <2>1. Finish(r)
    BY <1>6 DEF Answer, Drop
  <2>2. job'[r] = "none" /\ step'[r] = 0
    BY <1>0, <2>1 DEF Finish
  <2>3. ReaderLocks(r)' = {} /\ ReaderLocks(r) \subseteq Locks
    BY <2>2 DEF ReaderLocks, Locks
  <2>4. PlaceInv' /\ Guarded'
    BY <1>3, <2>1, <2>2, <2>3 DEF Finish
  <2>5. JobInv'
    BY <1>0, <2>2 DEF LockInv, JobInv
  <2> QED
    BY <2>4, <2>5
<1> QED
  BY <1>4, <1>5, <1>6

-----------------------------------------------------------------------------
(* The invariant of the locks.                                             *)

LEMMA LockInit == Init => LockInv
<1> SUFFICES ASSUME Init
             PROVE  LockInv
  OBVIOUS
<1>1. PlainTypes
  BY CollectorAssumption DEF Init, PlainTypes, Steps, Locks
<1>2. JobInv
  BY DEF Init, JobInv
<1>3. PlaceInv
  <2>1. <<>> \in Seq(Entries) /\ DOMAIN <<>> = {}
    OBVIOUS
  <2>2. queue \in [Locks -> Seq(Entries)]
    BY <2>1 DEF Init
  <2>3. \A l \in Locks : DOMAIN queue[l] = {}
    BY <2>1 DEF Init
  <2> QED
    BY <2>2, <2>3 DEF PlaceInv, OnePlace
<1>4. Guarded
  BY DEF Init, Guarded
<1>5. AgeInv
  BY DEF Init, AgeInv, Lag, Locks
<1> QED
  BY <1>1, <1>2, <1>3, <1>4, <1>5 DEF LockInv

LEMMA RefresherAges == LockInv /\ Refresh => PlainTypes' /\ AgeInv' /\ JobInv'
<1> SUFFICES ASSUME LockInv, Refresh
             PROVE  PlainTypes' /\ AgeInv' /\ JobInv'
  OBVIOUS
<1>1. JobInv'
  BY DEF LockInv, JobInv, Refresh, Wake, RefreshSys, RefreshDisks, RefreshNetworks, Build,
         Publish, Return, readers
<1>2. UNCHANGED readers
  BY DEF Refresh, Wake, RefreshSys, RefreshDisks, RefreshNetworks, Build, Publish, Return
<1>3. /\ age \in [Locks -> 0 .. MaxRound] /\ MaxRound \in Nat
      /\ {"sys", "disks", "networks", "snapshot"} \subseteq Locks
      /\ AgeInv /\ new \in 0 .. MaxRound
  BY CollectorAssumption DEF LockInv, PlainTypes, Locks
<1>4. /\ age["sys"] \in 0 .. MaxRound /\ age["disks"] \in 0 .. MaxRound
      /\ age["networks"] \in 0 .. MaxRound /\ age["snapshot"] \in 0 .. MaxRound
  BY <1>3
<1> USE DEF Lag, AgeInv
<1>5. AgeInv' /\ age' \in [Locks -> 0 .. MaxRound] /\ pc' \in Steps /\ new' \in 0 .. MaxRound
  <2>1. CASE Wake
    BY <1>3, <1>4, <2>1 DEF Wake, Steps
  <2>2. CASE RefreshSys
    BY <1>3, <1>4, <2>2 DEF RefreshSys, Renew, Steps
  <2>3. CASE RefreshDisks
    BY <1>3, <1>4, <2>3 DEF RefreshDisks, Renew, Steps
  <2>4. CASE RefreshNetworks
    BY <1>3, <1>4, <2>4 DEF RefreshNetworks, Renew, Steps
  <2>5. CASE Build
    BY <1>3, <1>4, <2>5 DEF Build, Steps
  <2>6. CASE Publish
    BY <1>3, <1>4, <2>6 DEF Publish, Steps
  <2>7. CASE Return
    BY <1>3, <1>4, <2>7 DEF Return, Steps
  <2> QED
    BY <2>1, <2>2, <2>3, <2>4, <2>5, <2>6, <2>7 DEF Refresh
<1> QED
  BY <1>1, <1>2, <1>5 DEF LockInv, PlainTypes, readers

LEMMA ReaderAges ==
  ASSUME LockInv, NEW r \in Readers,
         \/ \E kind \in {"snapshot", "processes"} : Begin(r, kind)
         \/ Acquire(r) \/ Answer(r) \/ Drop(r)
  PROVE  PlainTypes' /\ AgeInv'
<1>1. /\ age \in [Locks -> 0 .. MaxRound] /\ MaxRound \in Nat
      /\ {"sys", "snapshot"} \subseteq Locks
      /\ job \in [Readers -> {"none", "snapshot", "processes"}]
      /\ step \in [Readers -> 0 .. 2]
      /\ answered \in 0 .. MaxRound
      /\ floor \in [Readers -> 0 .. MaxRound]
  BY CollectorAssumption DEF LockInv, PlainTypes, Locks
<1>2. UNCHANGED refresher
  BY DEF Begin, Acquire, Answer, Drop
<1>3. AgeInv'
  BY <1>2 DEF LockInv, AgeInv, Lag, refresher
<1>4. /\ job' \in [Readers -> {"none", "snapshot", "processes"}]
      /\ step' \in [Readers -> 0 .. 2]
      /\ answered' \in 0 .. MaxRound
      /\ floor' \in [Readers -> 0 .. MaxRound]
  <2>1. ASSUME NEW kind \in {"snapshot", "processes"}, Begin(r, kind)
        PROVE  <1>4
    BY <1>1, <2>1 DEF Begin
  <2>2. CASE Acquire(r)
    <3>1. Len(LocksOf(job[r])) <= 2
      <4>1. Len(<<"snapshot">>) = 1 /\ Len(<<"sys", "users">>) = 2
        OBVIOUS
      <4> QED
        BY <4>1 DEF LocksOf
    <3>2. Len(LocksOf(job[r])) \in Int
      <4>1. Len(<<"snapshot">>) = 1 /\ Len(<<"sys", "users">>) = 2
        OBVIOUS
      <4> QED
        BY <4>1 DEF LocksOf
    <3> QED
      BY <1>1, <2>2, <3>1, <3>2 DEF Acquire
  <2>3. CASE Answer(r)
    <3>1. Shown(r) \in 0 .. MaxRound
      BY <1>1 DEF Shown
    <3> QED
      BY <1>1, <2>3, <3>1 DEF Answer, Finish
  <2>4. CASE Drop(r)
    BY <1>1, <2>4 DEF Drop, Finish
  <2> QED
    BY <2>1, <2>2, <2>3, <2>4
<1> QED
  BY <1>2, <1>3, <1>4 DEF LockInv, PlainTypes, refresher

LEMMA LockStep == LockInv /\ [Next]_vars => LockInv'
<1> SUFFICES ASSUME LockInv, [Next]_vars
             PROVE  LockInv'
  OBVIOUS
<1>1. CASE UNCHANGED vars
  <2>1. PlainTypes' /\ JobInv' /\ AgeInv'
    BY <1>1 DEF LockInv, PlainTypes, JobInv, AgeInv, Lag, vars
  <2>2. Guarded'
    BY <1>1 DEF LockInv, Guarded, Granted, vars
  <2>3. PlaceInv'
    BY <1>1 DEF LockInv, PlaceInv, Asked, RefresherLocks, ReaderLocks, vars
  <2> QED
    BY <2>1, <2>2, <2>3 DEF LockInv
<1>2. CASE Refresh
  BY <1>2, RefresherPlaces, RefresherAges DEF LockInv
<1>3. ASSUME NEW r \in Readers,
             \/ \E kind \in {"snapshot", "processes"} : Begin(r, kind)
             \/ Acquire(r) \/ Answer(r) \/ Drop(r)
      PROVE  LockInv'
  BY <1>3, ReaderPlaces, ReaderAges DEF LockInv
<1> QED
  BY <1>1, <1>2, <1>3 DEF Next

\* Type correctness: a process is named at most once in the queue of a lock, and
\* only while it runs and has reached that lock, so neither a refresh, nor an
\* answer, nor a client that goes away leaves a lock behind.
THEOREM CollectorTypeCorrect == Spec => []TypeOK
<1>1. LockInv => TypeOK
  BY DEF LockInv, PlaceInv, PlainTypes, TypeOK
<1> QED
  BY <1>1, LockInit, LockStep, PTL DEF Spec

-----------------------------------------------------------------------------
(* Freshness.                                                              *)

\* A request that reads the processes reads them between two refreshes.
LEMMA ReadsBetweenRefreshes ==
  ASSUME LockInv, NEW r \in Readers, Reading(r)
  PROVE  Shown(r) \in Int /\ age["snapshot"] \in Int /\ Shown(r) = age["snapshot"]
<1>1. /\ age["sys"] \in Int /\ age["snapshot"] \in Int /\ pc \in Steps
      /\ job[r] \in {"snapshot", "processes"}
  BY DEF LockInv, PlainTypes, Locks, Reading, Ready
<1>2. CASE job[r] = "snapshot"
  BY <1>1, <1>2 DEF Shown
<1>3. CASE job[r] = "processes"
  <2>1. Len(LocksOf(job[r])) = 2
    BY <1>3 DEF LocksOf
  <2>2. Granted("sys", r)
    BY <2>1 DEF Reading, LockInv, Guarded
  <2>3. pc \in {"sleep", "sys"}
    BY <1>1, <2>2, Excluded DEF LockInv, Guarded, Locks, Steps
  <2> QED
    BY <1>1, <1>3, <2>3 DEF Shown, LockInv, AgeInv, Lag
<1> QED
  BY <1>1, <1>2, <1>3

LEMMA FreshInit == Init => FreshInv
BY DEF Init, FreshInv, Locks

LEMMA FreshStep == LockInv /\ FreshInv /\ [Next]_vars => FreshInv'
<1> SUFFICES ASSUME LockInv, FreshInv, [Next]_vars
             PROVE  FreshInv'
  OBVIOUS
<1>0. /\ answered \in Int /\ age["snapshot"] \in Int /\ age["sys"] \in Int
      /\ floor \in [Readers -> 0 .. MaxRound] /\ "snapshot" \in Locks
      /\ answered >= 0
  BY DEF LockInv, PlainTypes, Locks
<1>1. CASE UNCHANGED vars
  BY <1>1 DEF FreshInv, vars
<1>2. CASE Refresh
  <2>1. UNCHANGED <<answered, floor>>
    BY <1>2 DEF Refresh, Wake, RefreshSys, RefreshDisks, RefreshNetworks, Build, Publish,
                Return, readers
  <2>2. \/ age'["snapshot"] = age["snapshot"]
        \/ age'["snapshot"] = new /\ pc = "snapshot"
    <3>1. age \in [Locks -> 0 .. MaxRound]
      BY DEF LockInv, PlainTypes
    <3>2. CASE Publish
      BY <1>0, <3>1, <3>2 DEF Publish
    <3>3. CASE RefreshSys \/ RefreshDisks \/ RefreshNetworks
      BY <1>0, <3>1, <3>3 DEF RefreshSys, RefreshDisks, RefreshNetworks, Renew
    <3>4. CASE Wake \/ Build \/ Return
      BY <3>4 DEF Wake, Build, Return
    <3> QED
      BY <1>2, <3>2, <3>3, <3>4 DEF Refresh
  <2>3. pc = "snapshot" => new >= age["snapshot"] /\ new \in Int
    BY <1>0 DEF LockInv, AgeInv, Lag
  <2> QED
    BY <1>0, <2>1, <2>2, <2>3 DEF FreshInv
<1>3. ASSUME NEW r \in Readers, NEW kind \in {"snapshot", "processes"}, Begin(r, kind)
      PROVE  FreshInv'
  BY <1>0, <1>3 DEF FreshInv, Begin, refresher
<1>4. ASSUME NEW r \in Readers, Acquire(r)
      PROVE  FreshInv'
  BY <1>4 DEF FreshInv, Acquire, refresher
<1>5. ASSUME NEW r \in Readers, Answer(r)
      PROVE  FreshInv'
  <2>1. Shown(r) \in Int /\ Shown(r) = age["snapshot"]
    BY <1>5, ReadsBetweenRefreshes DEF Answer
  <2>2. answered' \in Int /\ answered <= answered' /\ answered' <= age["snapshot"]
        /\ age' = age
    BY <1>0, <1>5, <2>1 DEF Answer, FreshInv, refresher
  <2>3. \A q \in Readers : floor'[q] \in {floor[q], 0} /\ floor[q] \in Int
    BY <1>0, <1>5 DEF Answer, Finish
  <2> QED
    BY <1>0, <2>2, <2>3 DEF FreshInv
<1>6. ASSUME NEW r \in Readers, Drop(r)
      PROVE  FreshInv'
  BY <1>0, <1>6 DEF FreshInv, Drop, Finish, refresher
<1> QED
  BY <1>1, <1>2, <1>3, <1>4, <1>5, <1>6 DEF Next

\* No request is answered with data older than what any request had been shown
\* when it arrived, whichever endpoints they used and however they interleave
\* with a refresh.
THEOREM CollectorAnswersFresh == Spec => []AnswersFresh
<1>1. LockInv /\ FreshInv => AnswersFresh
  <2> SUFFICES ASSUME LockInv, FreshInv, NEW r \in Readers, Reading(r)
               PROVE  floor[r] <= Shown(r)
    BY DEF AnswersFresh
  <2>1. Shown(r) \in Int /\ Shown(r) = age["snapshot"]
    BY ReadsBetweenRefreshes
  <2>2. answered \in Int /\ floor[r] \in Int
    BY DEF LockInv, PlainTypes
  <2> QED
    BY <2>1, <2>2 DEF FreshInv
<1> QED
  BY <1>1, LockInit, LockStep, FreshInit, FreshStep, PTL DEF Spec
=============================================================================
