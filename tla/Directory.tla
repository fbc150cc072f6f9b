----------------------------- MODULE Directory -----------------------------
(***************************************************************************)
(* What the relay promises of its sessions, without handlers, objects,     *)
(* timers and connections: an id has one host, known by its token, and     *)
(* guests; while it has, no other host takes it; there are no more         *)
(* sessions than the cap allows; and one that ended has neither host nor   *)
(* guests.  Whether a connection to it still stands is not said here.      *)
(* Session implements this specification.                                  *)
(***************************************************************************)
EXTENDS Naturals, FiniteSets

CONSTANTS
    Sids,
    Tokens,
    Browsers,
    MaxSessions,  \* the cap, 0 for none
    None

VARIABLES
    host,    \* the token of the host that serves each id, or None
    guests   \* the browsers that are connected to each id's session

vars == <<host, guests>>

Init == host = [s \in Sids |-> None] /\ guests = [s \in Sids |-> {}]

Served == {s \in Sids : host[s] # None}

Open(s, t) ==
    /\ host[s] = None
    /\ MaxSessions > 0 => Cardinality(Served) < MaxSessions
    /\ host' = [host EXCEPT ![s] = t]
    /\ UNCHANGED guests

Join(s, b) ==
    /\ host[s] # None /\ \A r \in Sids : b \notin guests[r]
    /\ guests' = [guests EXCEPT ![s] = @ \cup {b}]
    /\ UNCHANGED host

Leave(s, b) ==
    /\ b \in guests[s]
    /\ guests' = [guests EXCEPT ![s] = @ \ {b}]
    /\ UNCHANGED host

Close(s) ==
    /\ host[s] # None
    /\ host' = [host EXCEPT ![s] = None]
    /\ guests' = [guests EXCEPT ![s] = {}]

(* The relay's process ends.                                               *)
Crash == host' = [s \in Sids |-> None] /\ guests' = [s \in Sids |-> {}]

Next ==
    \/ \E s \in Sids : \/ \E t \in Tokens : Open(s, t)
                       \/ \E b \in Browsers : Join(s, b) \/ Leave(s, b)
                       \/ Close(s)
    \/ Crash

Spec == Init /\ [][Next]_vars
=============================================================================
