------------------------------ MODULE AuditLog ------------------------------
(***************************************************************************)
(* The audit log of log views: audit_log() starts a blocking task and does *)
(* not wait for it, the task writes one row, and a daily task deletes the  *)
(* rows older than audit_retention_days.  Server composes these actions    *)
(* with the requests, the connection pool and the life of the process.     *)
(***************************************************************************)
EXTENDS Integers, FiniteSets

CONSTANTS
  Clients,  \* who opens log views
  Retain,   \* audit_retention_days, in ticks of the clock
  MaxRows,  \* bound of the table
  MaxNow    \* bound of the clock

ASSUME AuditAssumption == Retain \in Nat /\ MaxRows \in Nat /\ MaxNow \in Nat

VARIABLES
  now,   \* db::now_unix()
  log,   \* table audit_log; `at` is when the view was opened
  task,  \* the task that writes the entry of a client's view
  due    \* history: the views whose entry the log owes its readers

auditVars == <<now, log, task, due>>

\* A client's next view waits for its previous entry, which bounds the tasks.
NoTask == [pc |-> "none", at |-> 0]

AuditInit ==
  /\ now = 0
  /\ log = {}
  /\ task = [c \in Clients |-> NoTask]
  /\ due = {}

Pending == {c \in Clients : task[c] # NoTask}

View(c) == [who |-> c, at |-> task[c].at]

\* audit_log: the entry is left to a task of its own.
Spawn(c) ==
  /\ task[c] = NoTask
  /\ Cardinality(log) + Cardinality(Pending) < MaxRows
  /\ task' = [task EXCEPT ![c] = [pc |-> "wait", at |-> now]]
  /\ due' = due \cup {[who |-> c, at |-> now]}
  /\ UNCHANGED <<now, log>>

\* pool.get() has returned a connection.
Connected(c) ==
  /\ task[c].pc = "wait"
  /\ task' = [task EXCEPT ![c].pc = "write"]
  /\ UNCHANGED <<now, log, due>>

\* audit::write, whose ts is the clock at the time of the INSERT.
Written(c) ==
  /\ task[c].pc = "write"
  /\ log' = log \cup {[who |-> c, at |-> task[c].at, ts |-> now]}
  /\ task' = [task EXCEPT ![c] = NoTask]
  /\ UNCHANGED <<now, due>>

\* No connection within the pool's timeout, or a failing INSERT: `let _ =`.
NotWritten(c) ==
  /\ task[c].pc \in {"wait", "write"}
  /\ task' = [task EXCEPT ![c] = NoTask]
  /\ due' = due \ {View(c)}
  /\ UNCHANGED <<now, log>>

\* Mutants of Outdated: the cutoff is one tick too late; it is twice as far
\* away as it should be.
OutdatedEarly(t) == {e \in log : e.ts <= t - Retain}
OutdatedLate(t) == {e \in log : e.ts < t - 2 * Retain}

\* The rows that purge_older_than deletes at time t.
Outdated(t) == {e \in log : e.ts < t - Retain}

\* One run of the task that AppState::spawn_audit_purge starts.
PurgeAudit ==
  /\ log' = log \ Outdated(now)
  /\ UNCHANGED <<now, task, due>>

\* The tasks end with the process.
Lost ==
  /\ task' = [c \in Clients |-> NoTask]
  /\ due' = due \ {View(c) : c \in Pending}
  /\ UNCHANGED <<now, log>>

\* The log owes nobody a view that is older than the retention.
Tick ==
  /\ now < MaxNow
  /\ now' = now + 1
  /\ due' = {v \in due : v.at + Retain >= now + 1}
  /\ UNCHANGED <<log, task>>

-----------------------------------------------------------------------------
(* Properties.                                                             *)

Entries == [who : Clients, at : 0 .. MaxNow, ts : 0 .. MaxNow]

AuditTypeOK ==
  /\ now \in 0 .. MaxNow
  /\ log \subseteq Entries
  /\ task \in [Clients -> [pc : {"none", "wait", "write"}, at : 0 .. MaxNow]]
  /\ due \subseteq [who : Clients, at : 0 .. MaxNow]

\* "Every log view recorded", "retained 90 days": a view that is not older
\* than the retention is in the log or about to be written, whichever process
\* wrote it and however often the purge has run since; only a failing write
\* and the end of the process excuse a missing entry.
ViewsOnRecord ==
  \A v \in due :
    \/ \E e \in log : e.who = v.who /\ e.at = v.at
    \/ v.who \in Pending /\ View(v.who) = v

=============================================================================
