---------------------------- MODULE ServerProof ----------------------------
(***************************************************************************)
(* Proofs about the process, its pool of connections and the audit log:    *)
(* the type invariant, the views on record and the private binds, for      *)
(* every number of clients, size of the pool and retention.                *)
(***************************************************************************)
EXTENDS Server, FiniteSetTheorems, TLAPS

-----------------------------------------------------------------------------
(* The binds.                                                              *)

\* The tests of std::net that is_safe_bind makes admit no address outside the
\* private ranges: the octets and the masks meet the ranges' bounds exactly.
LEMMA SafeIsPrivate ==
  ASSUME NEW ip \in Addresses, IsSafeBind(ip)
  PROVE  PrivateRange(ip)
<1>1. ASSUME NEW p \in U16, ip = V4(p)  PROVE PrivateRange(ip)
  <2>1. ip.v = 4 /\ ip.p = p
    BY <1>1 DEF V4
  <2>2. LET o0 == p \div 256  o1 == p % 256
        IN  \/ o0 = 127 \/ o0 = 10
            \/ o0 = 172 /\ o1 \in 16 .. 31
            \/ o0 = 192 /\ o1 = 168
            \/ o0 = 169 /\ o1 = 254
            \/ o0 = 100 /\ o1 \in 64 .. 127
    BY <2>1 DEF IsSafeBind
  <2>3. p = 256 * (p \div 256) + (p % 256) /\ p % 256 \in 0 .. 255
    BY SMT DEF U16
  <2>4. p \in (2560 .. 2815) \cup (25664 .. 25727) \cup (32512 .. 32767)
              \cup (44048 .. 44063) \cup {43518, 49320}
    BY <2>2, <2>3, SMT DEF U16
  <2> QED  BY <2>1, <2>4 DEF PrivateRange
<1>2. ASSUME NEW p \in U16, ip = V6(p)  PROVE PrivateRange(ip)
  <2>1. ip.v = 6 /\ ip.p = p /\ ip.one = FALSE
    BY <1>2 DEF V6
  <2>2. p - (p % 512) = 64512 \/ p - (p % 64) = 65152
    BY <2>1 DEF IsSafeBind
  <2>3. p % 512 \in 0 .. 511 /\ p % 64 \in 0 .. 63
    BY SMT DEF U16
  <2>4. p \in (64512 .. 65023) \cup (65152 .. 65215)
    BY <2>2, <2>3, SMT DEF U16
  <2> QED  BY <2>1, <2>4 DEF PrivateRange
<1>3. ASSUME ip = Localhost6  PROVE PrivateRange(ip)
  <2>1. ip.v = 6
    BY <1>3 DEF Localhost6
  <2> QED  BY <1>3, <2>1 DEF PrivateRange
<1>4. ip = Localhost6 \/ \E p \in U16 : ip = V4(p) \/ ip = V6(p)
  BY AddressAssumption
<1> QED  BY <1>1, <1>2, <1>3, <1>4

-----------------------------------------------------------------------------
(* The audit log, whichever component takes the step.                      *)

\* No clock runs ahead: an entry is written after its view was opened, and a
\* view that is due is within the retention.
InTime ==
  /\ \A e \in log : e.at <= e.ts /\ e.ts <= now
  /\ \A c \in Clients : task[c].at <= now
  /\ \A v \in due : v.at <= now /\ now <= v.at + Retain

\* The inductive invariant of the audit log: the purge deletes by the time of
\* the INSERT, so it spares every view that is due because that time is not
\* before the view's.
AuditInv ==
  /\ AuditTypeOK
  /\ \A c \in Clients : task[c].pc = "none" => task[c] = NoTask
  /\ InTime
  /\ ViewsOnRecord

\* What a step of the process does to the audit log.
AuditMove ==
  \/ \E c \in Clients : Spawn(c) \/ Connected(c) \/ Written(c) \/ NotWritten(c)
  \/ PurgeAudit \/ Lost \/ Tick
  \/ UNCHANGED auditVars

\* The log begins empty and owes nothing.
LEMMA AuditStart == ASSUME Init PROVE AuditInv
BY AuditAssumption
   DEF Init, AuditInit, AuditInv, AuditTypeOK, NoTask, InTime, ViewsOnRecord

\* Each step of the process makes one of the log's moves.
LEMMA NextMoves == ASSUME [Next]_vars PROVE AuditMove
BY DEF Next, vars, serverVars, auditVars, AuditMove, Start, Serve, StartFails,
       Request, Accept, Received, Take, TakeFails, Authenticated, Asked, OpenLog,
       Answer, Leave, AuditTake, AuditDone, PurgeBegin, PurgeOver, AuditPurged,
       PurgeIdle, CtrlC, Exit, Killed, Gone

\* A view that is opened is due, with a task that will write it.
LEMMA SpawnKeeps ==
  ASSUME AuditInv, NEW c \in Clients, Spawn(c)
  PROVE  AuditInv'
<1> USE AuditAssumption DEF AuditInv, Spawn
<1>1. /\ task' \in [Clients -> [pc : {"none", "wait", "write"}, at : 0 .. MaxNow]]
      /\ task'[c] = [pc |-> "wait", at |-> now]
      /\ \A d \in Clients \ {c} : task'[d] = task[d]
  BY DEF AuditTypeOK
<1>2. AuditTypeOK'
  BY <1>1 DEF AuditTypeOK
<1>3. InTime'
  BY <1>1 DEF InTime, AuditTypeOK
<1>4. ViewsOnRecord'
  <2> SUFFICES ASSUME NEW v \in due'
               PROVE  \/ \E e \in log' : e.who = v.who /\ e.at = v.at
                      \/ v.who \in Pending' /\ View(v.who)' = v
    BY DEF ViewsOnRecord
  <2>1. CASE v = [who |-> c, at |-> now]
    BY <1>1, <2>1 DEF Pending, View, NoTask
  <2>2. CASE v \in due /\ v # [who |-> c, at |-> now]
    BY <1>1, <2>2 DEF ViewsOnRecord, Pending, View
  <2> QED  BY <2>1, <2>2
<1> QED  BY <1>1, <1>2, <1>3, <1>4

\* The task that has its connection is the same entry, still to be written.
LEMMA ConnectedKeeps ==
  ASSUME AuditInv, NEW c \in Clients, Connected(c)
  PROVE  AuditInv'
<1> USE DEF AuditInv, Connected
<1>1. /\ task' \in [Clients -> [pc : {"none", "wait", "write"}, at : 0 .. MaxNow]]
      /\ task'[c].pc = "write" /\ task'[c].at = task[c].at
      /\ \A d \in Clients \ {c} : task'[d] = task[d]
  BY DEF AuditTypeOK
<1>2. AuditTypeOK' /\ InTime'
  BY <1>1 DEF AuditTypeOK, InTime
<1>3. Pending' = Pending /\ \A d \in Clients : View(d)' = View(d)
  BY <1>1 DEF Pending, View, NoTask
<1>4. ViewsOnRecord'
  BY <1>3 DEF ViewsOnRecord, Pending
<1> QED  BY <1>1, <1>2, <1>4

\* The entry takes the place of the task.
LEMMA WrittenKeeps ==
  ASSUME AuditInv, NEW c \in Clients, Written(c)
  PROVE  AuditInv'
<1> USE DEF AuditInv, Written
<1> DEFINE new == [who |-> c, at |-> task[c].at, ts |-> now]
<1>1. /\ task' \in [Clients -> [pc : {"none", "wait", "write"}, at : 0 .. MaxNow]]
      /\ task'[c] = NoTask
      /\ \A d \in Clients \ {c} : task'[d] = task[d]
  BY AuditAssumption DEF AuditTypeOK, NoTask
<1>2. new \in Entries /\ new.at <= new.ts /\ new.ts <= now
  BY DEF AuditTypeOK, Entries, InTime
<1>3. AuditTypeOK'
  BY <1>1, <1>2 DEF AuditTypeOK
<1>4. InTime'
  BY <1>1, <1>2 DEF InTime, AuditTypeOK, NoTask
<1>5. ViewsOnRecord'
  <2> SUFFICES ASSUME NEW v \in due
               PROVE  \/ \E e \in log' : e.who = v.who /\ e.at = v.at
                      \/ v.who \in Pending' /\ View(v.who)' = v
    BY DEF ViewsOnRecord
  <2>1. CASE \E e \in log : e.who = v.who /\ e.at = v.at
    BY <2>1
  <2>2. CASE v.who = c /\ View(c) = v
    <3>1. new.who = v.who /\ new.at = v.at
      BY <2>2 DEF View
    <3> QED  BY <3>1
  <2>3. CASE v.who \in Pending \ {c} /\ View(v.who) = v
    BY <1>1, <2>3 DEF Pending, View
  <2> QED  BY <2>1, <2>2, <2>3 DEF ViewsOnRecord
<1> QED  BY <1>1, <1>3, <1>4, <1>5

\* An entry that cannot be written is no longer due.
LEMMA NotWrittenKeeps ==
  ASSUME AuditInv, NEW c \in Clients, NotWritten(c)
  PROVE  AuditInv'
<1> USE DEF AuditInv, NotWritten
<1>1. /\ task' \in [Clients -> [pc : {"none", "wait", "write"}, at : 0 .. MaxNow]]
      /\ task'[c] = NoTask
      /\ \A d \in Clients \ {c} : task'[d] = task[d]
  BY AuditAssumption DEF AuditTypeOK, NoTask
<1>2. AuditTypeOK' /\ InTime'
  BY <1>1 DEF AuditTypeOK, InTime, NoTask
<1>3. ViewsOnRecord'
  <2> SUFFICES ASSUME NEW v \in due, v # View(c)
               PROVE  \/ \E e \in log' : e.who = v.who /\ e.at = v.at
                      \/ v.who \in Pending' /\ View(v.who)' = v
    BY DEF ViewsOnRecord
  <2> QED  BY <1>1 DEF ViewsOnRecord, Pending, View
<1> QED  BY <1>1, <1>2, <1>3

\* The purge spares the entries of the views that are due.
LEMMA PurgeKeeps ==
  ASSUME AuditInv, PurgeAudit
  PROVE  AuditInv'
<1> USE DEF AuditInv, PurgeAudit
<1>1. AuditTypeOK' /\ InTime'
  BY DEF AuditTypeOK, InTime
<1>2. ASSUME NEW v \in due, NEW e \in log, e.at = v.at
      PROVE  e \in log'
  BY <1>2, AuditAssumption DEF InTime, AuditTypeOK, Entries, Outdated
<1>3. Pending' = Pending /\ \A d \in Clients : View(d)' = View(d)
  BY DEF Pending, View
<1>4. ViewsOnRecord'
  BY <1>2, <1>3 DEF ViewsOnRecord, Pending
<1> QED  BY <1>1, <1>4

\* With the process go its tasks and what they would have written.
LEMMA LostKeeps ==
  ASSUME AuditInv, Lost
  PROVE  AuditInv'
<1> USE DEF AuditInv, Lost
<1>1. AuditTypeOK' /\ InTime'
  BY AuditAssumption DEF AuditTypeOK, InTime, NoTask
<1>2. ViewsOnRecord'
  BY DEF ViewsOnRecord
<1> QED  BY <1>1, <1>2 DEF NoTask

\* A view whose retention ends with this tick is no longer due.
LEMMA TickKeeps ==
  ASSUME AuditInv, Tick
  PROVE  AuditInv'
<1> USE DEF AuditInv, Tick
<1>1. AuditTypeOK'
  BY AuditAssumption DEF AuditTypeOK
<1>2. InTime'
  BY AuditAssumption DEF AuditTypeOK, InTime, Entries
<1>3. Pending' = Pending /\ \A d \in Clients : View(d)' = View(d)
  BY DEF Pending, View
<1>4. ViewsOnRecord'
  BY <1>3 DEF ViewsOnRecord, Pending
<1> QED  BY <1>1, <1>2, <1>4

\* Every step of the process preserves the invariant of the audit log.
LEMMA AuditStep ==
  ASSUME AuditInv, [Next]_vars
  PROVE  AuditInv'
<1>1. ASSUME UNCHANGED auditVars  PROVE AuditInv'
  BY <1>1 DEF AuditInv, AuditTypeOK, InTime, ViewsOnRecord, Pending, View, auditVars
<1> QED  BY <1>1, NextMoves, SpawnKeeps, ConnectedKeeps, WrittenKeeps,
            NotWrittenKeeps, PurgeKeeps, LostKeeps, TickKeeps DEF AuditMove

-----------------------------------------------------------------------------
(* The pool of connections.                                                *)

\* The requests, the audit tasks and the purges whose closure is running.
Closures == {c \in Clients : conn[c] \in {"auth", "work"}}
Writers == {Writer(c) : c \in {d \in Clients : task[d].pc = "write"}}
Purgers == {Purger(k) : k \in purging}

\* The inductive invariant of the pool: a connection is out for each running
\* closure and for nothing else, and the pool never gives out too many.
PoolInv ==
  /\ conn \in [Clients -> States]
  /\ purging \subseteq Purges
  /\ held = Closures \cup Writers \cup Purgers
  /\ IsFiniteSet(held)
  /\ Cardinality(held) <= PoolSize

\* An address that is listened on was read from the configuration.
LifeInv ==
  /\ phase \in {"down", "failed", "starting", "serving", "draining"}
  /\ bind \in Addresses \cup {NoAddress}
  /\ phase = "starting" => bind \in Addresses

\* The pool gives out a connection only while it has one.
LEMMA TakenFits ==
  ASSUME PoolInv, Free, NEW x, held' = held \cup {x}
  PROVE  IsFiniteSet(held') /\ Cardinality(held') <= PoolSize
<1>1. /\ IsFiniteSet(held \cup {x})
      /\ Cardinality(held \cup {x}) = IF x \in held THEN Cardinality(held)
                                      ELSE Cardinality(held) + 1
  BY FS_AddElement DEF PoolInv
<1>2. Cardinality(held) \in Nat
  BY FS_CardinalityType DEF PoolInv
<1> QED  BY <1>1, <1>2, ServerAssumption DEF Free

\* A connection that comes back leaves room.
LEMMA GivenBackFits ==
  ASSUME PoolInv, NEW x, held' = held \ {x}
  PROVE  IsFiniteSet(held') /\ Cardinality(held') <= PoolSize
<1>1. /\ IsFiniteSet(held \ {x})
      /\ Cardinality(held \ {x}) = IF x \in held THEN Cardinality(held) - 1
                                  ELSE Cardinality(held)
  BY FS_RemoveElement DEF PoolInv
<1>2. Cardinality(held) \in Nat
  BY FS_CardinalityType DEF PoolInv
<1> QED  BY <1>1, <1>2, ServerAssumption DEF PoolInv

\* A pool that nobody uses.
LEMMA EmptyPool ==
  ASSUME held' = {}
  PROVE  IsFiniteSet(held') /\ Cardinality(held') <= PoolSize
<1>1. IsFiniteSet({}) /\ Cardinality({}) = 0
  BY FS_EmptySet
<1>2. 0 <= PoolSize
  BY ServerAssumption
<1> QED  BY <1>1, <1>2

\* The names of two audit tasks and of two purges differ, and none is the name of
\* a request or of a task of the other kind.
LEMMA NamesDiffer ==
  /\ \A c, d \in Clients : Writer(c) # d /\ (Writer(c) = Writer(d) => c = d)
  /\ \A k, l \in Purges : Purger(k) = Purger(l) => k = l
  /\ \A k \in Purges : \A c \in Clients : Purger(k) # c /\ Purger(k) # Writer(c)
<1>1. \A c, d \in Clients : Writer(c) # d
  BY NameAssumption
<1>2. \A k \in Purges : \A c \in Clients : Purger(k) # c
  BY NameAssumption
<1>3. \A c, d : Writer(c) = Writer(d) => c = d
  BY DEF Writer
<1>4. \A k, l : Purger(k) = Purger(l) => k = l
  BY DEF Purger
<1>5. \A k, c : Purger(k) # Writer(c)
  BY DEF Writer, Purger
<1> QED  BY <1>1, <1>2, <1>3, <1>4, <1>5

\* So a connection is held on behalf of one of the three only.
LEMMA HoldersDiffer ==
  ASSUME PoolInv
  PROVE  /\ \A c \in Clients : c \notin Writers /\ c \notin Purgers
         /\ \A c \in Clients : Writer(c) \notin Closures /\ Writer(c) \notin Purgers
         /\ \A k \in Purges : Purger(k) \notin Closures /\ Purger(k) \notin Writers
<1>1. /\ Closures \subseteq Clients /\ purging \subseteq Purges
      /\ \A x \in Writers : \E c \in Clients : x = Writer(c)
      /\ \A x \in Purgers : \E k \in Purges : x = Purger(k)
  BY DEF PoolInv, Closures, Writers, Purgers
<1> QED  BY <1>1, NamesDiffer

\* A request that takes its connection.
LEMMA TakeKeeps ==
  ASSUME PoolInv, NEW c \in Clients, Take(c)
  PROVE  PoolInv'
<1> USE DEF PoolInv, Take, Stay
<1>1. PICK state \in {"auth", "work"} : conn' = [conn EXCEPT ![c] = state]
  BY DEF Become
<1>2. conn' \in [Clients -> States]
  BY <1>1 DEF States
<1>3. Closures' = Closures \cup {c}
  BY <1>1 DEF Closures
<1>4. Writers' = Writers /\ Purgers' = Purgers
  BY DEF auditVars, Writers, Purgers
<1>5. held' = Closures' \cup Writers' \cup Purgers'
  BY <1>3, <1>4
<1> QED  BY <1>2, <1>5, TakenFits

\* A closure that ends, with the connection it gives back.
LEMMA GiveBackKeeps ==
  ASSUME PoolInv, NEW c \in Clients, GiveBack(c), Writers' = Writers, purging' = purging,
         NEW state \in States \ {"auth", "work"}, Become(c, state)
  PROVE  PoolInv'
<1> USE DEF PoolInv, GiveBack, Become
<1>1. conn' \in [Clients -> States]
  OBVIOUS
<1>2. Closures' = Closures \ {c}
  BY DEF Closures
<1>3. c \notin Writers /\ c \notin Purgers /\ Purgers' = Purgers
  BY HoldersDiffer DEF Purgers
<1>4. held' = Closures' \cup Writers' \cup Purgers'
  BY <1>2, <1>3
<1> QED  BY <1>1, <1>4, GivenBackFits

\* A request that holds no connection before or after its step.
LEMMA WaiterKeeps ==
  ASSUME PoolInv, NEW c \in Clients, conn[c] \notin {"auth", "work"},
         NEW state \in States \ {"auth", "work"}, Become(c, state),
         UNCHANGED <<task, purging, held>>
  PROVE  PoolInv'
<1> USE DEF PoolInv, Become
<1>1. conn' \in [Clients -> States]
  OBVIOUS
<1>2. Closures' = Closures /\ Writers' = Writers /\ Purgers' = Purgers
  BY DEF Closures, Writers, Purgers
<1> QED  BY <1>1, <1>2

\* An audit task that takes its connection.
LEMMA AuditTakeKeeps ==
  ASSUME PoolInv, AuditTypeOK, NEW c \in Clients, AuditTake(c)
  PROVE  PoolInv'
<1> USE DEF PoolInv, AuditTake, Stay
<1>1. Closures' = Closures /\ Purgers' = Purgers
  BY DEF Closures, Purgers
<1>2. /\ task'[c].pc = "write"
      /\ \A d \in Clients \ {c} : task'[d] = task[d]
  BY DEF Connected, AuditTypeOK
<1>3. Writers' = Writers \cup {Writer(c)}
  BY <1>2 DEF Writers
<1>4. held' = Closures' \cup Writers' \cup Purgers'
  BY <1>1, <1>3
<1> QED  BY <1>4, TakenFits

\* An audit task that ends, waiting or writing.
LEMMA AuditDoneKeeps ==
  ASSUME PoolInv, AuditTypeOK, NEW c \in Clients, AuditDone(c)
  PROVE  PoolInv'
<1> USE DEF PoolInv, AuditDone, Stay
<1>1. Closures' = Closures /\ Purgers' = Purgers
  BY DEF Closures, Purgers
<1>2. /\ task'[c].pc = "none"
      /\ \A d \in Clients \ {c} : task'[d] = task[d]
  BY DEF Written, NotWritten, AuditTypeOK, NoTask
<1>3. Writers' = Writers \ {Writer(c)}
  BY <1>2, NamesDiffer DEF Writers
<1>4. Writer(c) \notin Closures /\ Writer(c) \notin Purgers
  BY HoldersDiffer
<1>5. held' = Closures' \cup Writers' \cup Purgers'
  BY <1>1, <1>3, <1>4
<1> QED  BY <1>5, GivenBackFits

\* A purge that begins, and one that ends.
LEMMA PurgeBeginKeeps ==
  ASSUME PoolInv, NEW k \in Purges, PurgeBegin(k)
  PROVE  PoolInv'
<1> USE DEF PoolInv, PurgeBegin
<1>1. Closures' = Closures /\ Writers' = Writers
  BY DEF Closures, Writers, auditVars
<1>2. Purgers' = Purgers \cup {Purger(k)} /\ purging' \subseteq Purges
  BY DEF Purgers
<1>3. held' = Closures' \cup Writers' \cup Purgers'
  BY <1>1, <1>2
<1> QED  BY <1>2, <1>3, TakenFits

LEMMA PurgeOverKeeps ==
  ASSUME PoolInv, NEW k \in Purges, PurgeOver(k), UNCHANGED task
  PROVE  PoolInv'
<1> USE DEF PoolInv, PurgeOver
<1>1. Closures' = Closures /\ Writers' = Writers
  BY DEF Closures, Writers
<1>2. Purgers' = Purgers \ {Purger(k)} /\ purging' \subseteq Purges
  BY NamesDiffer DEF Purgers
<1>3. Purger(k) \notin Closures /\ Purger(k) \notin Writers
  BY HoldersDiffer
<1>4. held' = Closures' \cup Writers' \cup Purgers'
  BY <1>1, <1>2, <1>3
<1> QED  BY <1>2, <1>4, GivenBackFits

\* The end of the process, which frees everything.
LEMMA GoneKeeps ==
  ASSUME NEW next, Gone(next)
  PROVE  PoolInv'
<1> USE DEF PoolInv, Gone
<1>1. conn' \in [Clients -> States]
  BY DEF Idle, States
<1>2. Closures' = {} /\ Writers' = {} /\ Purgers' = {}
  BY DEF Idle, Closures, Writers, Purgers, Lost, NoTask
<1> QED  BY <1>1, <1>2, EmptyPool

\* Every step of the process preserves the invariant of the pool.
LEMMA PoolStep ==
  ASSUME PoolInv, AuditTypeOK, [Next]_vars
  PROVE  PoolInv'
<1>1. ASSUME UNCHANGED <<task, conn, purging, held>>  PROVE PoolInv'
  BY <1>1 DEF PoolInv, Closures, Writers, Purgers
<1>2. ASSUME Start \/ Serve \/ StartFails \/ CtrlC
             \/ (Tick /\ UNCHANGED serverVars) \/ UNCHANGED vars
      PROVE  UNCHANGED <<task, conn, purging, held>>
  BY <1>2 DEF Start, Serve, StartFails, CtrlC, Tick, serverVars, auditVars, vars
<1>3. ASSUME NEW c \in Clients,
             Accept(c) \/ Received(c) \/ TakeFails(c) \/ Asked(c) \/ Leave(c)
      PROVE  PoolInv'
  <2>1. /\ conn[c] \notin {"auth", "work"}
        /\ UNCHANGED <<task, purging, held>>
    BY <1>3 DEF Accept, Received, TakeFails, Asked, Leave, Stay, auditVars
  <2>2. \E state \in {"idle", "reading", "authWait", "workWait", "answered"} : Become(c, state)
    BY <1>3 DEF Accept, Received, TakeFails, Asked, Leave
  <2>3. \E state \in States \ {"auth", "work"} : Become(c, state)
    BY <2>2 DEF States, Outside
  <2> QED  BY <2>1, <2>3, WaiterKeeps
<1>4. ASSUME NEW c \in Clients, Authenticated(c) \/ OpenLog(c) \/ Answer(c)
      PROVE  PoolInv'
  <2>1. /\ GiveBack(c)
        /\ purging' = purging
        /\ \E state \in {"answered", "workWait", "asking", "sse", "ws"} : Become(c, state)
    BY <1>4 DEF Authenticated, OpenLog, Answer, Stay
  <2>2. Writers' = Writers
    <3>1. CASE OpenLog(c)
      <4>1. /\ task[c].pc # "write" /\ task'[c].pc # "write"
            /\ \A d \in Clients \ {c} : task'[d] = task[d]
        BY <3>1 DEF OpenLog, Spawn, AuditTypeOK, NoTask
      <4> QED  BY <4>1 DEF Writers
    <3>2. CASE Authenticated(c) \/ Answer(c)
      BY <3>2 DEF Authenticated, Answer, auditVars, Writers
    <3> QED  BY <1>4, <3>1, <3>2
  <2>3. \E state \in States \ {"auth", "work"} : Become(c, state)
    BY <2>1 DEF States, Outside
  <2> QED  BY <2>1, <2>2, <2>3, GiveBackKeeps
<1>5. ASSUME Exit \/ Killed  PROVE PoolInv'
  BY <1>5, GoneKeeps DEF Exit, Killed
<1>6. ASSUME NEW k \in Purges, PurgeOver(k), UNCHANGED auditVars \/ PurgeAudit
      PROVE  PoolInv'
  <2>1. UNCHANGED task
    BY <1>6 DEF PurgeAudit, auditVars
  <2> QED  BY <1>6, <2>1, PurgeOverKeeps
<1>7. ASSUME NEW k \in Purges, PurgeIdle(k)  PROVE PoolInv'
  BY <1>6, <1>7 DEF PurgeIdle
<1>8. ASSUME AuditPurged  PROVE PoolInv'
  BY <1>6, <1>8 DEF AuditPurged, Purges
<1> QED  BY <1>1, <1>2, <1>3, <1>4, <1>5, <1>7, <1>8, PurgeBeginKeeps, TakeKeeps, AuditTakeKeeps, AuditDoneKeeps
         DEF Next, Request

\* A process that starts has read its configuration.
LEMMA LifeStep ==
  ASSUME LifeInv, [Next]_vars
  PROVE  LifeInv'
BY DEF LifeInv, Next, vars, serverVars, Start, Serve, StartFails, Stay,
       Request, Accept, Received, Take, TakeFails, Authenticated, Asked, OpenLog,
       Answer, Leave, AuditTake, AuditDone, PurgeBegin, PurgeOver, AuditPurged,
       PurgeIdle, CtrlC, Exit, Killed, Gone

-----------------------------------------------------------------------------
(* The theorems.                                                           *)

ServerInv == AuditInv /\ PoolInv /\ LifeInv

\* The server begins down, with a full pool and an empty log.
LEMMA ServerStart == Init => ServerInv
<1> SUFFICES ASSUME Init  PROVE ServerInv
  OBVIOUS
<1>1. PoolInv
  <2>1. /\ Closures = {} /\ Writers = {} /\ Purgers = {} /\ held = {}
        /\ purging \subseteq Purges
    BY DEF Init, Idle, AuditInit, NoTask, Closures, Writers, Purgers
  <2>2. conn \in [Clients -> States]
    BY DEF Init, Idle, States
  <2> QED  BY <2>1, <2>2, FS_EmptySet, ServerAssumption DEF PoolInv
<1>2. LifeInv
  BY DEF Init, LifeInv
<1> QED  BY <1>1, <1>2, AuditStart DEF ServerInv

\* Every step of the server keeps the invariants of the log, of the pool and
\* of the life of the process.
LEMMA ServerStep == ServerInv /\ [Next]_vars => ServerInv'
BY AuditStep, PoolStep, LifeStep DEF ServerInv, AuditInv

\* The inductive invariant holds in every behaviour.
LEMMA ServerInvariant == Spec => []ServerInv
BY ServerStart, ServerStep, PTL DEF Spec

\* The type invariant, with the pool's account: a connection is held exactly
\* by the closures that are running, never more than the pool has.
THEOREM ServerTypeCorrect == Spec => []TypeOK
<1>1. ServerInv => TypeOK
  BY DEF ServerInv, AuditInv, PoolInv, LifeInv, TypeOK, Closures, Writers, Purgers
<1> QED  BY <1>1, ServerInvariant, PTL

\* Every log view within the retention is in the log or about to be written,
\* over purges, restarts and tasks that wait for a connection.
THEOREM ServerKeepsViews == Spec => []ViewsOnRecord
<1>1. ServerInv => ViewsOnRecord
  BY DEF ServerInv, AuditInv
<1> QED  BY <1>1, ServerInvariant, PTL

\* The process serves only on an address of a private range.
THEOREM ServerBindsPrivately == Spec => PrivateBindsOnly
<1>1. ServerInv /\ [Next]_vars
        => [phase = "starting" /\ phase' = "serving" => PrivateRange(bind)]_vars
  <2> SUFFICES ASSUME ServerInv, [Next]_vars, phase = "starting", phase' = "serving"
               PROVE  PrivateRange(bind)
    OBVIOUS
  <2>1. Serve
    BY DEF Next, vars, serverVars, Start, Serve, StartFails, Stay,
       Request, Accept, Received, Take, TakeFails, Authenticated, Asked, OpenLog,
       Answer, Leave, AuditTake, AuditDone, PurgeBegin, PurgeOver, AuditPurged,
       PurgeIdle, Up, CtrlC, Exit, Killed, Gone
  <2>2. bind \in Addresses /\ IsSafeBind(bind)
    BY <2>1 DEF Serve, ServerInv, LifeInv
  <2> QED  BY <2>2, SafeIsPrivate
<1> QED  BY <1>1, ServerInvariant, PTL DEF Spec, PrivateBindsOnly

=============================================================================
