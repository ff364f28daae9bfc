----------------------------- MODULE Collector -----------------------------
(***************************************************************************)
(* SystemCollector: one task refreshes the host's metrics every second     *)
(* while any number of requests read them, under five tokio RwLocks.       *)
(*                                                                         *)
(* A refresh holds the locks of sys, disks and networks until the snapshot *)
(* made from them is published.  What is kept of the data is its age: the  *)
(* number of the refresh that has read it.  The future of a request is     *)
(* dropped, with its locks and its places in their queues, when its client *)
(* goes away.                                                              *)
(***************************************************************************)
EXTENDS Integers, SequencesExt

CONSTANTS
  Readers,    \* requests that may be in progress together
  Refresher,  \* the task of start_refresher
  MaxRound    \* bound of the refreshes

ASSUME CollectorAssumption ==
  /\ Refresher \notin Readers
  /\ MaxRound \in Nat

Locks == {"sys", "disks", "networks", "users", "snapshot"}

VARIABLES
  queue,     \* who holds or waits for each lock, in the order of arrival
  age,       \* the refresh that has last written what each lock guards
  pc,        \* what the refresher does next
  new,       \* the age of the snapshot it has put together
  job,       \* what each request asks for, "none" if it is not in progress
  step,      \* which of its locks a request waits for or has got last
  answered,  \* history: the latest refresh that any answer has shown
  floor      \* history: what `answered` was when a request arrived

vars == <<queue, age, pc, new, job, step, answered, floor>>
refresher == <<pc, new, age>>
readers == <<job, step, answered, floor>>

-----------------------------------------------------------------------------
(* tokio::sync::RwLock.  It is fair: a request for it is granted when no    *)
(* conflicting one is in front of it, held or waiting.                      *)

Read(p) == [who |-> p, write |-> FALSE]
Write(p) == [who |-> p, write |-> TRUE]

Granted(l, p) ==
  \E i \in DOMAIN queue[l] :
    /\ queue[l][i].who = p
    /\ \A j \in 1 .. i - 1 : ~queue[l][i].write /\ ~queue[l][j].write

\* Where p is in the queue of a lock.
Places(q, p) == {i \in DOMAIN q : q[i].who = p}

\* The queue once p has given up its place, held or waited for, if it has one.
Without(q, p) ==
  IF Places(q, p) = {} THEN q ELSE RemoveAt(q, CHOOSE i \in Places(q, p) : TRUE)

\* p gives up the locks in `old` and asks for `next`.
Exchange(p, old, next, request) ==
  queue' = [l \in Locks |->
              LET rest == IF l \in old THEN Without(queue[l], p) ELSE queue[l] IN
              IF l \in next THEN Append(rest, request) ELSE rest]

-----------------------------------------------------------------------------
Init ==
  /\ queue = [l \in Locks |-> <<>>]
  /\ age = [l \in Locks |-> 0]
  /\ pc = "sleep"
  /\ new = 0
  /\ job = [r \in Readers |-> "none"]
  /\ step = [r \in Readers |-> 0]
  /\ answered = 0
  /\ floor = [r \in Readers |-> 0]

(* The refresher.                                                           *)

\* tick.tick(), and sys.write().
Wake ==
  /\ pc = "sleep"
  /\ age["sys"] < MaxRound
  /\ pc' = "sys"
  /\ Exchange(Refresher, {}, {"sys"}, Write(Refresher))
  /\ UNCHANGED <<readers, new, age>>

\* With the lock l: read the host anew, and ask for the next lock.
Renew(l, next) ==
  /\ pc = l
  /\ Granted(l, Refresher)
  /\ pc' = next
  /\ age' = [age EXCEPT ![l] = @ + 1]

RefreshSys ==
  /\ Renew("sys", "disks")
  /\ Exchange(Refresher, {}, {"disks"}, Write(Refresher))
  /\ UNCHANGED <<readers, new>>

RefreshDisks ==
  /\ Renew("disks", "networks")
  /\ Exchange(Refresher, {}, {"networks"}, Write(Refresher))
  /\ UNCHANGED <<readers, new>>

\* Mutant of RefreshNetworks: the guards are dropped once the host is read.
RefreshNetworksUnlocking ==
  /\ Renew("networks", "build")
  /\ Exchange(Refresher, {"sys", "disks", "networks"}, {}, Write(Refresher))
  /\ UNCHANGED <<readers, new>>

RefreshNetworks ==
  /\ Renew("networks", "build")
  /\ UNCHANGED <<readers, new, queue>>

\* The snapshot is put together under the three guards.
Build ==
  /\ pc = "build"
  /\ pc' = "snapshot"
  /\ new' = age["sys"]
  /\ Exchange(Refresher, {}, {"snapshot"}, Write(Refresher))
  /\ UNCHANGED <<readers, age>>

\* Mutant of Publish: the guard of the snapshot is kept.
PublishLocked ==
  /\ pc = "snapshot"
  /\ Granted("snapshot", Refresher)
  /\ pc' = "return"
  /\ age' = [age EXCEPT !["snapshot"] = new]
  /\ UNCHANGED <<readers, new, queue>>

\* *self.snapshot.write().await = new_snapshot
Publish ==
  /\ pc = "snapshot"
  /\ Granted("snapshot", Refresher)
  /\ pc' = "return"
  /\ age' = [age EXCEPT !["snapshot"] = new]
  /\ Exchange(Refresher, {"snapshot"}, {}, Write(Refresher))
  /\ UNCHANGED <<readers, new>>

\* refresh returns, which drops its three guards.
Return ==
  /\ pc = "return"
  /\ pc' = "sleep"
  /\ Exchange(Refresher, {"sys", "disks", "networks"}, {}, Write(Refresher))
  /\ UNCHANGED <<readers, new, age>>

Refresh ==
  \/ Wake
  \/ RefreshSys
  \/ RefreshDisks
  \/ RefreshNetworks
  \/ Build
  \/ Publish
  \/ Return

-----------------------------------------------------------------------------
(* The requests: snapshot(), which /api/metrics/current and every event of  *)
(* the stream read, and top_processes().                                    *)

\* Mutant of LocksOf: top_processes pairs its rows with the snapshot.
LocksOfPaired(kind) == IF kind = "snapshot" THEN <<"snapshot">> ELSE <<"snapshot", "sys">>

\* The locks that a request takes, in order.
LocksOf(kind) == IF kind = "snapshot" THEN <<"snapshot">> ELSE <<"sys", "users">>

Begin(r, kind) ==
  /\ job[r] = "none"
  /\ job' = [job EXCEPT ![r] = kind]
  /\ step' = [step EXCEPT ![r] = 1]
  /\ floor' = [floor EXCEPT ![r] = answered]
  /\ Exchange(r, {}, {LocksOf(kind)[1]}, Read(r))
  /\ UNCHANGED <<refresher, answered>>

\* r has got the lock it waits for.
Ready(r) == job[r] # "none" /\ Granted(LocksOf(job[r])[step[r]], r)

\* r holds its last lock, and reads what it answers.
Reading(r) == Ready(r) /\ step[r] = Len(LocksOf(job[r]))

Acquire(r) ==
  /\ Ready(r)
  /\ step[r] < Len(LocksOf(job[r]))
  /\ step' = [step EXCEPT ![r] = @ + 1]
  /\ Exchange(r, {}, {LocksOf(job[r])[step[r] + 1]}, Read(r))
  /\ UNCHANGED <<refresher, job, answered, floor>>

\* The refresh whose data r is answered with.
Shown(r) == IF job[r] = "snapshot" THEN age["snapshot"] ELSE age["sys"]

\* r is over, and holds and waits for nothing.
Finish(r) ==
  /\ job' = [job EXCEPT ![r] = "none"]
  /\ step' = [step EXCEPT ![r] = 0]
  /\ floor' = [floor EXCEPT ![r] = 0]
  /\ Exchange(r, Locks, {}, Read(r))

Answer(r) ==
  /\ Reading(r)
  /\ answered' = IF Shown(r) > answered THEN Shown(r) ELSE answered
  /\ Finish(r)
  /\ UNCHANGED refresher

\* The client goes away, and the future is dropped wherever it is.
Drop(r) ==
  /\ job[r] # "none"
  /\ Finish(r)
  /\ UNCHANGED <<refresher, answered>>

Next ==
  \/ Refresh
  \/ \E r \in Readers :
       \/ \E kind \in {"snapshot", "processes"} : Begin(r, kind)
       \/ Acquire(r)
       \/ Answer(r)
       \/ Drop(r)

Spec == Init /\ [][Next]_vars

\* The executor polls a task that has been woken.  The client of a request may
\* stay for ever, so nothing is assumed of Drop.
FairSpec ==
  /\ Spec
  /\ WF_vars(Refresh)
  /\ \A r \in Readers : WF_vars(Acquire(r) \/ Answer(r))

-----------------------------------------------------------------------------
(* Properties.                                                             *)

Steps == {"sleep", "sys", "disks", "networks", "build", "snapshot", "return"}

\* The locks that a process has asked for and has not given up: those its code has
\* reached, none if it does not run.
RefresherLocks ==
  CASE pc = "sleep" -> {}
    [] pc = "sys" -> {"sys"}
    [] pc = "disks" -> {"sys", "disks"}
    [] pc = "snapshot" -> {"sys", "disks", "networks", "snapshot"}
    [] OTHER -> {"sys", "disks", "networks"}

ReaderLocks(r) ==
  CASE job[r] = "none" -> {}
    [] job[r] = "snapshot" -> {"snapshot"}
    [] OTHER -> IF step[r] = 1 THEN {"sys"} ELSE {"sys", "users"}

Asked(p) == IF p = Refresher THEN RefresherLocks ELSE ReaderLocks(p)

Processes == Readers \cup {Refresher}

\* The refresher writes and requests read.
Entries == {e \in [who : Processes, write : BOOLEAN] : e.write <=> e.who = Refresher}

OnePlace(q) == \A i, j \in DOMAIN q : q[i].who = q[j].who => i = j

\* The type invariant.  A process has at most one place in the queue of a lock, and
\* only while it runs and has reached that lock: neither an answer, nor a refresh
\* that returns, nor a request dropped anywhere leaves a lock held or waited for.
TypeOK ==
  /\ queue \in [Locks -> Seq(Entries)]
  /\ \A l \in Locks :
       /\ OnePlace(queue[l])
       /\ \A i \in DOMAIN queue[l] : l \in Asked(queue[l][i].who)
  /\ age \in [Locks -> 0 .. MaxRound]
  /\ pc \in Steps
  /\ new \in 0 .. MaxRound
  /\ job \in [Readers -> {"none", "snapshot", "processes"}]
  /\ step \in [Readers -> 0 .. 2]
  /\ answered \in 0 .. MaxRound
  /\ floor \in [Readers -> 0 .. MaxRound]

\* The endpoints never contradict each other in time: what a request is
\* answered with is at least as fresh as anything that any request had been
\* answered with when it arrived, although processes are read from sys and
\* metrics from the snapshot, which a refresh writes one after the other.
AnswersFresh == \A r \in Readers : Reading(r) => floor[r] <= Shown(r)

\* No crowd of requests, however steady, holds up a refresh for ever.
RefreshCompletes == (pc # "sleep") ~> (pc = "sleep")

\* Every request is answered or dropped, however long refreshes go on.
RequestsEnd == \A r \in Readers : (job[r] # "none") ~> (job[r] = "none")

=============================================================================
