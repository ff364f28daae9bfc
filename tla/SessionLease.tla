---------------------------- MODULE SessionLease ----------------------------
(***************************************************************************)
(* What sessions promise: a session is a lease.  It is granted once, it    *)
(* may be renewed while it runs, it is ended by its holder or when it has  *)
(* run out, and a lease that has run out is ended in the end.  The model   *)
(* of the code, Sessions, implements this with statements that race.       *)
(***************************************************************************)
EXTENDS Integers

CONSTANTS
  Tokens,    \* the leases
  TTL,       \* how long a lease runs
  MaxDelay   \* how late a grant or a renewal takes effect

VARIABLES
  now,      \* the clock
  expires,  \* when a lease runs out, NoLease if there is none
  ended     \* the leases that have ended

vars == <<now, expires, ended>>

NoLease == -1

Init ==
  /\ now = 0
  /\ expires = [t \in Tokens |-> NoLease]
  /\ ended = {}

\* TTL from a clock reading that is at most MaxDelay old.
Terms == now + TTL - MaxDelay .. now + TTL

Grant(t) ==
  /\ expires[t] = NoLease
  /\ t \notin ended
  /\ \E e \in Terms : expires' = [expires EXCEPT ![t] = e]
  /\ UNCHANGED <<now, ended>>

\* Only a running lease is renewed, or one that ran out while the renewal was
\* on its way, which took at most two delays.
Renew(t) ==
  /\ expires[t] # NoLease
  /\ 2 * MaxDelay < TTL => now < expires[t] + 2 * MaxDelay
  /\ \E e \in Terms : expires' = [expires EXCEPT ![t] = e]
  /\ UNCHANGED <<now, ended>>

Ended(S) ==
  /\ expires' = [t \in Tokens |-> IF t \in S THEN NoLease ELSE expires[t]]
  /\ ended' = ended \cup S
  /\ UNCHANGED now

\* The holder gives the lease back.
End(t) == expires[t] # NoLease /\ Ended({t})

RunOut == {t \in Tokens : expires[t] # NoLease /\ expires[t] < now}

\* Leases that have run out are ended together.
EndRunOut == RunOut # {} /\ Ended(RunOut)

Tick == now' = now + 1 /\ UNCHANGED <<expires, ended>>

Next ==
  \/ \E t \in Tokens : Grant(t) \/ Renew(t) \/ End(t)
  \/ EndRunOut
  \/ Tick

Spec == Init /\ [][Next]_vars /\ WF_vars(EndRunOut)

=============================================================================
