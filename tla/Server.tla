------------------------------- MODULE Server -------------------------------
(***************************************************************************)
(* The process: start-up with its bind policy, requests that share one     *)
(* pool of database connections, streams that outlive their request, a     *)
(* graceful shutdown on Ctrl-C and the ends that are not graceful.         *)
(***************************************************************************)
EXTENDS AuditLog

CONSTANTS
  Addresses,  \* the addresses that config.toml may ask for
  NoAddress,  \* no address has been read
  PoolSize    \* max_size of the r2d2 pool

ASSUME ServerAssumption == PoolSize \in Nat \ {0} /\ NoAddress \notin Addresses

VARIABLES
  phase,    \* of the process; after "failed" systemd starts it again
  bind,     \* the address that config.toml asks for, until it is listened on
  conn,     \* what the request or stream of a client does
  purging,  \* the purges that run
  held      \* who holds a connection of the pool: a request, an audit task, a purge

serverVars == <<phase, bind, conn, purging, held>>
vars == <<auditVars, serverVars>>

Idle == [c \in Clients |-> "idle"]

Init ==
  /\ AuditInit
  /\ phase = "down"
  /\ bind = NoAddress
  /\ conn = Idle
  /\ purging = {}
  /\ held = {}

Up == phase \in {"serving", "draining"}

-----------------------------------------------------------------------------
(* Start-up.  An IPv4 address is its first two octets, as one number, an   *)
(* IPv6 address its first segment and whether it is ::1.                   *)

V4(p) == [v |-> 4, p |-> p, one |-> FALSE]
V6(p) == [v |-> 6, p |-> p, one |-> FALSE]
Localhost6 == [v |-> 6, p |-> 0, one |-> TRUE]

U16 == 0 .. 65535

\* What an IpAddr can be.
ASSUME AddressAssumption ==
  \A a \in Addresses : a = Localhost6 \/ \E p \in U16 : a = V4(p) \/ a = V6(p)

\* Mutant of IsSafeBind: all of 100.0.0.0/8 is taken for tailscale's.
IsSafeBindWide(ip) ==
  LET o0 == ip.p \div 256  o1 == ip.p % 256 IN
  \/ ip.v = 4 /\ (o0 \in {127, 10, 100} \/ (o0 = 192 /\ o1 = 168))
  \/ ip.v = 6 /\ ip.one

\* is_safe_bind, with the tests of std::net that it calls.
IsSafeBind(ip) ==
  LET o0 == ip.p \div 256
      o1 == ip.p % 256
  IN \/ /\ ip.v = 4
        /\ \/ o0 = 127                                    \* is_loopback
           \/ o0 = 10                                     \* is_private
           \/ o0 = 172 /\ o1 \in 16 .. 31
           \/ o0 = 192 /\ o1 = 168
           \/ o0 = 169 /\ o1 = 254                        \* is_link_local
           \/ o0 = 100 /\ o1 \in 64 .. 127
     \/ /\ ip.v = 6
        /\ \/ ip.one
           \/ ip.p - (ip.p % 512) = 64512                  \* & 0xfe00
           \/ ip.p - (ip.p % 64) = 65152                   \* & 0xffc0

\* An administrator, or systemd after a failure, starts `vps-monitor serve`,
\* which reads config.toml.
Start ==
  /\ phase \in {"down", "failed"}
  /\ phase' = "starting"
  /\ bind' \in Addresses
  /\ UNCHANGED <<auditVars, conn, purging, held>>

\* validate_bind, migrate, AppState::new and the listener have all succeeded.
Serve ==
  /\ phase = "starting"
  /\ IsSafeBind(bind)
  /\ phase' = "serving"
  /\ bind' = NoAddress
  /\ UNCHANGED <<auditVars, conn, purging, held>>

\* One of them has not, or the address is not safe: main returns an error.
StartFails ==
  /\ phase = "starting"
  /\ phase' = "failed"
  /\ bind' = NoAddress
  /\ UNCHANGED <<auditVars, conn, purging, held>>

-----------------------------------------------------------------------------
(* Requests.  A handler runs its SQL in a blocking closure that takes one  *)
(* connection and gives it back at its end.  A client that gives up does   *)
(* not stop the closure.  Three states last as long as somebody outside    *)
(* the server likes: "reading" the request, "asking" pm2 or systemctl,     *)
(* which no handler times out, or docker, and "answered" while the client  *)
(* takes its answer.                                                       *)

Stay == UNCHANGED <<phase, bind, purging>>

Become(c, state) == conn' = [conn EXCEPT ![c] = state]

\* Mutant of Accept: the listener goes on accepting while the server drains.
AcceptAlways(c) ==
  /\ Up
  /\ conn[c] = "idle"
  /\ Become(c, "reading")
  /\ UNCHANGED <<auditVars, held>> /\ Stay

Accept(c) ==
  /\ phase = "serving"
  /\ conn[c] = "idle"
  /\ Become(c, "reading")
  /\ UNCHANGED <<auditVars, held>> /\ Stay

\* The request is complete.  All handlers of the API but login begin with the
\* AuthUser extractor; the pages, and a request without a token, ask no database.
Received(c) ==
  /\ conn[c] = "reading"
  /\ \E first \in {"authWait", "workWait", "answered"} : Become(c, first)
  /\ UNCHANGED <<auditVars, held>> /\ Stay

Free == Cardinality(held) < PoolSize

\* pool.get() of a closure.
Take(c) ==
  /\ Free
  /\ held' = held \cup {c}
  /\ \/ conn[c] = "authWait" /\ Become(c, "auth")
     \/ conn[c] = "workWait" /\ Become(c, "work")
  /\ UNCHANGED auditVars /\ Stay

\* No connection within the pool's timeout: the answer is 500.
TakeFails(c) ==
  /\ conn[c] \in {"authWait", "workWait"}
  /\ Become(c, "answered")
  /\ UNCHANGED <<auditVars, held>> /\ Stay

\* Mutant of GiveBack: the extractor's connection is passed on to the handler.
GiveBackLate(c) == held' = IF conn[c] = "auth" THEN held ELSE held \ {c}

\* The PooledConnection is dropped at the end of the closure.
GiveBack(c) == held' = held \ {c}

\* The end of the extractor's closure.  Without a session, with a statement
\* that fails or with a handler that reads the snapshot the answer follows;
\* otherwise the handler's closure, a program that is asked or the metrics stream.
Authenticated(c) ==
  /\ conn[c] = "auth"
  /\ GiveBack(c)
  /\ \E next \in {"answered", "workWait", "asking", "sse"} : Become(c, next)
  /\ UNCHANGED auditVars /\ Stay

\* pm2::list, systemd::list or docker::list has returned, or failed, or
\* pm2::find has found nothing.
Asked(c) ==
  /\ conn[c] = "asking"
  /\ Become(c, "answered")
  /\ UNCHANGED <<auditVars, held>> /\ Stay

\* ws_docker and ws_journal after the extractor, ws_pm2 when pm2::find has found
\* its app: audit_log, then the upgrade.
OpenLog(c) ==
  /\ conn[c] \in {"auth", "asking"}
  /\ GiveBack(c)
  /\ Become(c, "ws")
  /\ Spawn(c) /\ Stay

Answer(c) ==
  /\ conn[c] = "work"
  /\ GiveBack(c)
  /\ Become(c, "answered")
  /\ UNCHANGED auditVars /\ Stay

\* The answer is sent, or the client closes the connection, which drops a handler
\* that is waiting for a program.  Nothing in the server ends a stream of metrics.
Leave(c) ==
  /\ conn[c] \in {"reading", "asking", "answered", "sse", "ws"}
  /\ Become(c, "idle")
  /\ UNCHANGED <<auditVars, held>> /\ Stay

-----------------------------------------------------------------------------
(* Background tasks.                                                       *)

\* An audit task of a client, and a purge, hold a connection under these names.
Writer(c) == <<"audit", c>>
Purger(k) == <<"purge", k>>

Purges == {"sessions", "audit"}

ASSUME NameAssumption ==
  /\ \A c \in Clients : Writer(c) \notin Clients
  /\ \A k \in Purges : Purger(k) \notin Clients

AuditTake(c) ==
  /\ Free
  /\ Connected(c)
  /\ held' = held \cup {Writer(c)}
  /\ UNCHANGED conn /\ Stay

AuditDone(c) ==
  /\ Written(c) \/ NotWritten(c)
  /\ held' = held \ {Writer(c)}
  /\ UNCHANGED conn /\ Stay

\* serve() returns when no connection is left that axum serves.  One that has
\* been upgraded to a websocket is no longer one of them.
Drained == \A c \in Clients : conn[c] \in {"idle", "ws"}

\* A tick of the hourly or the daily task, whose closure gets its connection.  One
\* that gets none within the pool's timeout does nothing.  The tasks stop ticking
\* once serve() has returned.
PurgeBegin(k) ==
  /\ Up
  /\ ~(phase = "draining" /\ Drained)
  /\ Free
  /\ k \notin purging
  /\ purging' = purging \cup {k}
  /\ held' = held \cup {Purger(k)}
  /\ UNCHANGED <<auditVars, phase, bind, conn>>

PurgeOver(k) ==
  /\ k \in purging
  /\ purging' = purging \ {k}
  /\ held' = held \ {Purger(k)}
  /\ UNCHANGED <<phase, bind, conn>>

\* The DELETE of the audit log.
AuditPurged == PurgeOver("audit") /\ PurgeAudit

\* That of the sessions, which are not part of this module, and either one that
\* fails: `let _ =`.
PurgeIdle(k) == PurgeOver(k) /\ UNCHANGED auditVars

-----------------------------------------------------------------------------
(* The end of the process.                                                 *)

CtrlC ==
  /\ phase = "serving"
  /\ phase' = "draining"
  /\ UNCHANGED <<auditVars, bind, conn, purging, held>>

\* Nothing of the process is left, and SQLite rolls back what was not done.
Gone(next) ==
  /\ phase' = next
  /\ bind' = NoAddress
  /\ conn' = Idle
  /\ purging' = {}
  /\ held' = {}
  /\ Lost

\* serve() returns, and the runtime is dropped when the blocking closures that
\* have begun are over; those that have not, and the websockets, are dropped.
Exit ==
  /\ phase = "draining"
  /\ Drained
  /\ held = {}
  /\ Gone("down")

\* SIGTERM, which nothing handles and systemd takes for a clean stop; SIGKILL,
\* the OOM killer or a power cut.
Killed ==
  /\ phase \in {"starting", "serving", "draining"}
  /\ \E next \in {"down", "failed"} : Gone(next)

-----------------------------------------------------------------------------
Request(c) ==
  \/ Accept(c)
  \/ Received(c)
  \/ Take(c)
  \/ TakeFails(c)
  \/ Authenticated(c)
  \/ Asked(c)
  \/ OpenLog(c)
  \/ Answer(c)
  \/ Leave(c)

Next ==
  \/ Start \/ Serve \/ StartFails
  \/ \E c \in Clients : Request(c) \/ AuditTake(c) \/ AuditDone(c)
  \/ \E k \in Purges : PurgeBegin(k) \/ PurgeIdle(k)
  \/ AuditPurged
  \/ CtrlC \/ Exit \/ Killed
  \/ Tick /\ UNCHANGED serverVars

\* The pool wakes its waiters as connections come back, statements end by
\* busy_timeout at the latest, and the audit purge comes round for ever and does
\* not fail for ever.  Nothing is assumed of the clients, of the programs that a
\* handler asks, of the pool's timeout, the administrator or signals, nor of the
\* other tasks that wait for a connection: no property needs them to get it.
Fairness ==
  /\ \A c \in Clients :
       /\ SF_vars(Take(c)) /\ WF_vars(Answer(c))
       /\ WF_vars(conn[c] = "auth" /\ (Authenticated(c) \/ OpenLog(c)))
       /\ WF_vars(task[c].pc = "write" /\ AuditDone(c))
  /\ \A k \in Purges : WF_vars(PurgeIdle(k))
  /\ SF_vars(PurgeBegin("audit")) /\ SF_vars(AuditPurged)
  /\ WF_vars(Exit)

Spec == Init /\ [][Next]_vars /\ Fairness

-----------------------------------------------------------------------------
(* Properties.                                                             *)

\* Where a request waits for somebody outside the server, and the server for it
\* when it drains.
Outside == {"reading", "asking", "answered", "sse"}
States == {"idle", "authWait", "auth", "workWait", "work", "ws"} \cup Outside

\* The type invariant.  A connection of the pool is held exactly by the
\* closures that are running, those of the purges included: none leaks over a
\* timeout, an error or a drain.
TypeOK ==
  /\ AuditTypeOK
  /\ phase \in {"down", "failed", "starting", "serving", "draining"}
  /\ bind \in Addresses \cup {NoAddress}
  /\ conn \in [Clients -> States]
  /\ purging \subseteq Purges
  /\ held = {c \in Clients : conn[c] \in {"auth", "work"}}
              \cup {Writer(c) : c \in {d \in Clients : task[d].pc = "write"}}
              \cup {Purger(k) : k \in purging}
  /\ Cardinality(held) <= PoolSize

\* The private, link-local and shared ranges of RFC 1918, 3927, 6598, 4193 and
\* 4291, by their first and last members.
PrivateRange(ip) ==
  IF ip.v = 4
  THEN ip.p \in (\hA00 .. \hAFF) \cup (\h6440 .. \h647F) \cup (\h7F00 .. \h7FFF)
               \cup (\hAC10 .. \hAC1F) \cup {\hA9FE, \hC0A8}
  ELSE ip = Localhost6 \/ ip.p \in (\hFC00 .. \hFDFF) \cup (\hFE80 .. \hFEBF)

\* "Public-IP binds are rejected at startup with a hard failure": whatever the
\* configuration of this start or an earlier one, the process serves only on
\* an address of a private range.
PrivateBindsOnly ==
  [][phase = "starting" /\ phase' = "serving" => PrivateRange(bind)]_vars

\* No request needs the pool's timeout: none waits for a connection while it
\* holds one, so each that waits gets one, even from a pool of one, while
\* audit tasks and both purges compete for it.
WaitersServed ==
  \A c \in Clients :
    conn[c] \in {"authWait", "workWait"} ~> conn[c] \notin {"authWait", "workWait"}

\* A graceful shutdown ends if nobody outside the server holds it up for ever:
\* if each client finishes its request and takes its answer or closes the
\* connection, leaves its metrics stream, and pm2, systemctl and docker answer.
\* The rest is the server's: it gives every request that it has accepted its
\* connections, accepts nothing more and does not wait for log viewers.
DrainEnds ==
  (\A c \in Clients : []<>(conn[c] \notin Outside))
    => (phase = "draining" ~> phase # "draining")

\* "retained 90 days": an entry past its retention is deleted, unless the
\* server goes down first.  Only these times can become so old within the bound.
OldEntriesGo ==
  \A t \in 0 .. MaxNow - Retain - 1 :
    (Up /\ t < now - Retain) ~> (~Up \/ \A e \in log : e.ts # t)

=============================================================================
