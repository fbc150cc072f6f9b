------------------------------ MODULE Session ------------------------------
(***************************************************************************)
(* The life of a pairing session inside the relay (internal/server).       *)
(*                                                                         *)
(* A session is an OBJECT in the relay's memory.  The map `sessions` finds *)
(* it by the session's id, while a handler goroutine keeps the pointer it  *)
(* got when it registered: an expired object is out of the map and still   *)
(* held.  A daemon connection is used once; a daemon that lost it dials    *)
(* again, as another element of Daemons.  An object is named by the        *)
(* connection whose handler made it, a file tree by the connection that    *)
(* sent it: each sends one, when it connects.                              *)
(*                                                                         *)
(* What the daemon sees of a connection (link) and where the relay's       *)
(* handler of it stands (dpc) are apart: the relay learns of a loss later  *)
(* than the daemon, and may still be busy with the handshake of a          *)
(* connection the daemon has given up.                                     *)
(*                                                                         *)
(* A handler's step is what it does under one lock, or one broadcast: each *)
(* browser gets a broadcast at a moment of its own, and no property here   *)
(* compares two of them.                                                   *)
(***************************************************************************)
EXTENDS Naturals, FiniteSets

(* An operator whose comment says "Mutant" is no part of Spec: it is a     *)
(* slip the definition after it could have had, and a property refutes it. *)

CONSTANTS
    Sids,         \* session ids
    Tokens,       \* host tokens
    Hosts,        \* the daemon processes: [sid, token] they put in project_connect
    MaxDials,     \* bound: how many daemon connections there are
    Browsers,     \* browser connections, each used once
    MaxSessions,  \* config: the cap on sessions in memory, 0 for no cap
    MaxRestarts,  \* bound: how often the relay process is restarted
    None          \* nil

ASSUME HostsAssumption == Hosts \subseteq [sid : Sids, token : Tokens]
ASSUME NatAssumption == MaxDials \in Nat /\ MaxSessions \in Nat /\ MaxRestarts \in Nat

(* Daemon connections, numbered in the order they are dialled.             *)
Daemons == 1 .. MaxDials

ASSUME NoneAssumption == None \notin Sids \cup Tokens \cup Daemons \cup Browsers

NoHost == [sid |-> None, token |-> None]

VARIABLES
    sessions,    \* Server.sessions: session id -> object, or None
    row,         \* the host_token of the id's row in SQLite, or None
    daemonOf,    \* session.daemon of each object
    tree,        \* session.fileTree of each object
    parts,       \* session.participants of each object
    hello,       \* the project_connect of each daemon connection
    link,        \* the daemon's end of each connection
    dpc, hsess,  \* the relay's handler of it: its place, and its `sess`
    bpc, bsess,  \* the relay's handler of each browser connection
    joinTree,    \* the tree a joining browser's handler has read
    closing,     \* browser connections the relay has closed
    expelled,    \* those that closeAllBrowsers has still to close
    seenTree,    \* the last file_tree each browser got
    seenStatus,  \* the last daemon_status each browser got
    behind,      \* history: whose trees came before the object's and were not sent yet
    late,        \* history: browsers added to a session that had expired, or was about to
    restarts

mapVars    == <<sessions, row>>
objVars    == <<daemonOf, tree, parts, behind>>
daemonVars == <<hello, link, dpc, hsess>>
joinVars   == <<bpc, bsess, joinTree, closing, expelled, late>>
seenVars   == <<seenTree, seenStatus>>
vars == <<mapVars, objVars, daemonVars, joinVars, seenVars, restarts>>

(* The handler of a daemon connection holds an object from its             *)
(* registration to the end of the goroutine its deferred function leaves.  *)
Holding == {"registered", "loading", "treed", "sent", "serving", "notify", "grace", "expiring"}
DaemonPc == Holding \cup {"idle", "handshake", "done"}
BrowserPc == {"idle", "found", "joined", "identified", "sending", "ready", "gone"}

(* The variables have the types of the code's fields, and a handler that   *)
(* holds an object holds one that was made.                                *)
TypeOK ==
    /\ sessions \in [Sids -> Daemons \cup {None}]
    /\ row \in [Sids -> Tokens \cup {None}]
    /\ daemonOf \in [Daemons -> Daemons \cup {None}]
    /\ tree \in [Daemons -> Daemons \cup {None}]
    /\ parts \in [Daemons -> SUBSET Browsers]
    /\ hello \in [Daemons -> Hosts \cup {NoHost}]
    /\ link \in [Daemons -> {"unused", "open", "lost"}]
    /\ dpc \in [Daemons -> DaemonPc]
    /\ hsess \in [Daemons -> Daemons \cup {None}]
    /\ bpc \in [Browsers -> BrowserPc]
    /\ bsess \in [Browsers -> Daemons \cup {None}]
    /\ joinTree \in [Browsers -> Daemons \cup {None}]
    /\ closing \subseteq Browsers /\ expelled \subseteq Browsers /\ late \subseteq Browsers
    /\ seenTree \in [Browsers -> Daemons \cup {None}]
    /\ seenStatus \in [Browsers -> {"none", "down", "loading", "up"}]
    /\ behind \in [Daemons -> SUBSET Daemons]
    /\ restarts \in 0 .. MaxRestarts
    /\ \A d \in Daemons : dpc[d] = "idle" <=> link[d] = "unused"
    /\ \A d \in Daemons : dpc[d] # "idle" => hello[d] \in Hosts
    /\ \A d \in Daemons : dpc[d] \in Holding => hsess[d] \in Daemons
    /\ \A b \in Browsers : bpc[b] \notin {"idle", "gone"} => bsess[b] \in Daemons

Init ==
    /\ sessions = [s \in Sids |-> None]
    /\ row = [s \in Sids |-> None]
    /\ daemonOf = [o \in Daemons |-> None]
    /\ tree = [o \in Daemons |-> None]
    /\ parts = [o \in Daemons |-> {}]
    /\ hello = [d \in Daemons |-> NoHost]
    /\ link = [d \in Daemons |-> "unused"]
    /\ dpc = [d \in Daemons |-> "idle"]
    /\ hsess = [d \in Daemons |-> None]
    /\ bpc = [b \in Browsers |-> "idle"]
    /\ bsess = [b \in Browsers |-> None]
    /\ joinTree = [b \in Browsers |-> None]
    /\ closing = {} /\ expelled = {} /\ late = {}
    /\ seenTree = [b \in Browsers |-> None]
    /\ seenStatus = [b \in Browsers |-> "none"]
    /\ behind = [o \in Daemons |-> {}]
    /\ restarts = 0

(* Server.mu, which a timer that expires a session keeps while it closes   *)
(* the browsers.                                                           *)
MuFree == \A d \in Daemons : dpc[d] # "expiring"

InMemory == {s \in Sids : sessions[s] # None}
AtCapacity == MaxSessions > 0 /\ Cardinality(InMemory) >= MaxSessions

(* The object the id of a connection's session finds now.                  *)
Found(d) == sessions[hello[d].sid]

(* broadcastToBrowsers reaches every participant of the object whose       *)
(* connection stands, whether the map still finds the object or not.       *)
Reached(o) == parts[o] \ closing
ShowStatus(o, st) ==
    seenStatus' = [b \in Browsers |-> IF b \in Reached(o) THEN st ELSE seenStatus[b]]
(* Mutant: tells only those who have finished joining.                     *)
ShowTreeReadyOnly(o, t) ==
    seenTree' = [b \in Browsers |->
                   IF b \in Reached(o) /\ bpc[b] = "ready" THEN t ELSE seenTree[b]]
ShowTree(o, t) ==
    seenTree' = [b \in Browsers |-> IF b \in Reached(o) THEN t ELSE seenTree[b]]

-----------------------------------------------------------------------------
(* The daemon's end.                                                       *)

(* Daemon.Run: a process dials when the connection it had has ended.       *)
Dial(d, h) ==
    /\ link[d] = "unused"
    /\ \A e \in Daemons : e < d => link[e] # "unused"
    /\ \A e \in Daemons : hello[e] = h => link[e] # "open"
    /\ link' = [link EXCEPT ![d] = "open"]
    /\ hello' = [hello EXCEPT ![d] = h]
    /\ dpc' = [dpc EXCEPT ![d] = "handshake"]
    /\ UNCHANGED <<mapVars, objVars, hsess, joinVars, seenVars, restarts>>

(* The connection breaks, or the daemon ends.  What the daemon had sent by *)
(* then can still be in the relay's buffers.                               *)
Lose(d) ==
    /\ link[d] = "open"
    /\ link' = [link EXCEPT ![d] = "lost"]
    /\ UNCHANGED <<mapVars, objVars, hello, dpc, hsess, joinVars, seenVars, restarts>>

-----------------------------------------------------------------------------
(* handleDaemon: the handshake.                                            *)

HandshakeFails(d) ==
    /\ dpc[d] = "handshake"
    /\ link[d] = "lost"
    /\ dpc' = [dpc EXCEPT ![d] = "done"]
    /\ UNCHANGED <<mapVars, objVars, hello, link, hsess, joinVars, seenVars, restarts>>

(* Closed with StatusPolicyViolation, for the token or for the cap.        *)
(* Mutant: a session whose daemon is gone is given to whoever comes.       *)
BadTokenIfServed(d) == /\ Found(d) # None /\ hello[Found(d)].token # hello[d].token
                       /\ link[daemonOf[Found(d)]] = "open"
BadToken(d) == Found(d) # None /\ hello[Found(d)].token # hello[d].token
NoRoom(d) == Found(d) = None /\ AtCapacity

Refuse(d) ==
    /\ dpc[d] = "handshake" /\ MuFree
    /\ BadToken(d) \/ NoRoom(d)
    /\ dpc' = [dpc EXCEPT ![d] = "done"]
    /\ link' = [link EXCEPT ![d] = "lost"]
    /\ UNCHANGED <<mapVars, objVars, hello, hsess, joinVars, seenVars, restarts>>

(* The handler takes the object over, under Server.mu.                     *)
Enter(d, o) ==
    /\ dpc' = [dpc EXCEPT ![d] = "registered"]
    /\ hsess' = [hsess EXCEPT ![d] = o]
    /\ daemonOf' = [daemonOf EXCEPT ![o] = d]
    /\ UNCHANGED <<hello, link, tree, parts, behind, joinVars, seenVars, restarts>>

Resume(d) ==
    /\ dpc[d] = "handshake" /\ MuFree
    /\ Found(d) # None
    /\ ~BadToken(d)
    /\ Enter(d, Found(d))
    /\ UNCHANGED mapVars

(* A new object, restored from the row in SQLite when that carries the     *)
(* daemon's token, else new: either has the daemon's id and token, and     *)
(* SaveSession leaves the token of a row that is there as it is.           *)
Start(d) ==
    /\ dpc[d] = "handshake" /\ MuFree
    /\ Found(d) = None
    /\ ~NoRoom(d)
    /\ Enter(d, d)
    /\ sessions' = [sessions EXCEPT ![hello[d].sid] = d]
    /\ row' = [row EXCEPT ![hello[d].sid] = IF @ = None THEN hello[d].token ELSE @]

-----------------------------------------------------------------------------
(* handleDaemon: the loop and its deferred function.                       *)

(* session_ready to the daemon, "loading" to the browsers.                 *)
Ready(d) ==
    /\ dpc[d] = "registered"
    /\ dpc' = [dpc EXCEPT ![d] = "loading"]
    /\ ShowStatus(hsess[d], "loading")
    /\ UNCHANGED <<mapVars, objVars, hello, link, hsess, joinVars, seenTree, restarts>>

(* The connection's file tree, read perhaps after the daemon lost it: it   *)
(* is set under the object's lock ...                                      *)
SetTree(d) ==
    /\ dpc[d] = "loading"
    /\ dpc' = [dpc EXCEPT ![d] = "treed"]
    /\ tree' = [tree EXCEPT ![hsess[d]] = d]
    /\ behind' = [behind EXCEPT ![hsess[d]] =
                     {e \in Daemons : dpc[e] = "treed" /\ hsess[e] = hsess[d]}]
    /\ UNCHANGED <<mapVars, daemonOf, parts, hello, link, hsess, joinVars, seenVars, restarts>>

(* ... broadcast when the lock is free, other handlers of the session      *)
(* coming in between ...                                                   *)
SendTreeOn(d) ==
    /\ dpc[d] = "treed"
    /\ dpc' = [dpc EXCEPT ![d] = "sent"]
    /\ ShowTree(hsess[d], d)
    /\ UNCHANGED <<mapVars, objVars, hello, link, hsess, joinVars, seenStatus, restarts>>

(* ... and followed by the status.                                         *)
Loaded(d) ==
    /\ dpc[d] = "sent"
    /\ dpc' = [dpc EXCEPT ![d] = "serving"]
    /\ ShowStatus(hsess[d], "up")
    /\ UNCHANGED <<mapVars, objVars, hello, link, hsess, joinVars, seenTree, restarts>>

(* The read fails.  The deferred function runs evictCaches ...             *)
Evict(d) ==
    /\ dpc[d] \in {"loading", "serving"}
    /\ link[d] = "lost"
    /\ dpc' = [dpc EXCEPT ![d] = "notify"]
    /\ tree' = [tree EXCEPT ![hsess[d]] = None]
    /\ UNCHANGED <<mapVars, daemonOf, parts, behind, hello, link, hsess, joinVars, seenVars,
                   restarts>>

(* ... tells the browsers, and leaves a goroutine asleep for 60 s ...      *)
(* Mutant: an older connection of the session tells nobody.                *)
NotifyIfCurrent(d) ==
    /\ dpc[d] = "notify"
    /\ dpc' = [dpc EXCEPT ![d] = "grace"]
    /\ IF daemonOf[hsess[d]] = d THEN ShowStatus(hsess[d], "down") ELSE UNCHANGED seenStatus
    /\ UNCHANGED <<mapVars, objVars, hello, link, hsess, joinVars, seenTree, restarts>>

Notify(d) ==
    /\ dpc[d] = "notify"
    /\ dpc' = [dpc EXCEPT ![d] = "grace"]
    /\ ShowStatus(hsess[d], "down")
    /\ UNCHANGED <<mapVars, objVars, hello, link, hsess, joinVars, seenTree, restarts>>

(* ... which looks the id up again, and drops the session it finds if the  *)
(* daemon of that one is still this connection.                            *)
(* Mutant: the timer does not look at the daemon.                          *)
ExpiresAnyDaemon(d) == Found(d) # None
(* Mutant: the timer waits for a daemon that is nil.                       *)
ExpiresNoDaemon(d) == Found(d) # None /\ daemonOf[Found(d)] = None
Expires(d) == Found(d) # None /\ daemonOf[Found(d)] = d

(* closeAllBrowsers makes its list under the object's lock.                *)
(* Mutant: those who are still joining are not on it.                      *)
ListedReady(o) == {b \in parts[o] : bpc[b] = "ready"}
Listed(o) == parts[o]

(* It keeps Server.mu from here to the deletion, which addBrowser does not *)
(* need.                                                                   *)
GraceEnds(d) ==
    /\ dpc[d] = "grace" /\ MuFree
    /\ IF Expires(d)
       THEN /\ dpc' = [dpc EXCEPT ![d] = "expiring"]
            /\ expelled' = Listed(Found(d))
            /\ UNCHANGED hsess
       ELSE /\ dpc' = [dpc EXCEPT ![d] = "done"]
            /\ hsess' = [hsess EXCEPT ![d] = None]
            /\ UNCHANGED expelled
    /\ UNCHANGED <<mapVars, objVars, hello, link, bpc, bsess, joinTree, closing, late, seenVars,
                   restarts>>

(* Each is closed in its turn; it may have gone by then.                   *)
Expel(d, b) ==
    /\ dpc[d] = "expiring" /\ b \in expelled
    /\ expelled' = expelled \ {b}
    /\ closing' = closing \cup ({b} \cap parts[Found(d)])
    /\ UNCHANGED <<mapVars, objVars, daemonVars, bpc, bsess, joinTree, late, seenVars, restarts>>

Drop(d) ==
    /\ dpc[d] = "expiring" /\ expelled = {}
    /\ dpc' = [dpc EXCEPT ![d] = "done"]
    /\ hsess' = [hsess EXCEPT ![d] = None]
    /\ sessions' = [sessions EXCEPT ![hello[d].sid] = None]
    /\ UNCHANGED <<row, objVars, hello, link, joinVars, seenVars, restarts>>

-----------------------------------------------------------------------------
(* handleBrowser, up to the end of the join.                               *)

(* Mutant: the id is not checked.                                          *)
LookupUnchecked(b, s) ==
    /\ bpc[b] = "idle" /\ MuFree
    /\ bpc' = [bpc EXCEPT ![b] = "found"]
    /\ bsess' = [bsess EXCEPT ![b] = sessions[s]]
    /\ UNCHANGED <<mapVars, objVars, daemonVars, joinTree, closing, expelled, late, seenVars,
                   restarts>>

Lookup(b, s) ==
    /\ bpc[b] = "idle" /\ MuFree
    /\ sessions[s] # None
    /\ bpc' = [bpc EXCEPT ![b] = "found"]
    /\ bsess' = [bsess EXCEPT ![b] = sessions[s]]
    /\ UNCHANGED <<mapVars, objVars, daemonVars, joinTree, closing, expelled, late, seenVars,
                   restarts>>

(* The id of the object finds it, and it is not about to be dropped.       *)
Stands(o) == Found(o) = o /\ \A d \in Daemons : dpc[d] = "expiring" => Found(d) # o

(* The websocket handshake lies between the lookup and addBrowser, which   *)
(* does not look whether the session still stands.                         *)
AddBrowser(b) ==
    /\ bpc[b] = "found"
    /\ bpc' = [bpc EXCEPT ![b] = "joined"]
    /\ parts' = [parts EXCEPT ![bsess[b]] = @ \cup {b}]
    /\ late' = IF Stands(bsess[b]) THEN late ELSE late \cup {b}
    /\ UNCHANGED <<mapVars, daemonOf, tree, behind, daemonVars, bsess, joinTree, closing,
                   expelled, seenVars, restarts>>

Identify(b) ==
    /\ bpc[b] = "joined"
    /\ b \notin closing
    /\ bpc' = [bpc EXCEPT ![b] = "identified"]
    /\ UNCHANGED <<mapVars, objVars, daemonVars, bsess, joinTree, closing, expelled, late,
                   seenVars, restarts>>

(* getFileTree holds the object's lock; the write comes after it is free.  *)
ReadTree(b) ==
    /\ bpc[b] = "identified"
    /\ bpc' = [bpc EXCEPT ![b] = "sending"]
    /\ joinTree' = [joinTree EXCEPT ![b] = tree[bsess[b]]]
    /\ UNCHANGED <<mapVars, objVars, daemonVars, bsess, closing, expelled, late, seenVars, restarts>>

SendTree(b) ==
    /\ bpc[b] = "sending"
    /\ bpc' = [bpc EXCEPT ![b] = "ready"]
    /\ seenTree' = IF joinTree[b] # None /\ b \notin closing
                   THEN [seenTree EXCEPT ![b] = joinTree[b]] ELSE seenTree
    /\ UNCHANGED <<mapVars, objVars, daemonVars, bsess, joinTree, closing, expelled, late,
                   seenStatus, restarts>>

(* The page and what it shows are gone.                                    *)
Forget(B) ==
    /\ bsess' = [b \in Browsers |-> IF b \in B THEN None ELSE bsess[b]]
    /\ joinTree' = [b \in Browsers |-> IF b \in B THEN None ELSE joinTree[b]]
    /\ closing' = closing \ B
    /\ seenTree' = [b \in Browsers |-> IF b \in B THEN None ELSE seenTree[b]]
    /\ seenStatus' = [b \in Browsers |-> IF b \in B THEN "none" ELSE seenStatus[b]]

(* The browser goes, or its handler finds the connection closed.           *)
Leave(b) ==
    /\ bpc[b] \in {"joined", "ready"}
    /\ bpc' = [bpc EXCEPT ![b] = "gone"]
    /\ parts' = [parts EXCEPT ![bsess[b]] = @ \ {b}]
    /\ Forget({b})
    /\ UNCHANGED <<mapVars, daemonOf, tree, behind, daemonVars, expelled, late, restarts>>

-----------------------------------------------------------------------------
(* The relay process ends and starts again; only SQLite is left.           *)
RelayRestart ==
    /\ restarts < MaxRestarts
    /\ restarts' = restarts + 1
    /\ sessions' = [s \in Sids |-> None]
    /\ dpc' = [d \in Daemons |-> IF dpc[d] = "idle" THEN "idle" ELSE "done"]
    /\ link' = [d \in Daemons |-> IF link[d] = "open" THEN "lost" ELSE link[d]]
    /\ bpc' = [b \in Browsers |-> IF bpc[b] = "idle" THEN "idle" ELSE "gone"]
    /\ parts' = [o \in Daemons |-> {}]
    /\ expelled' = {}
    /\ Forget(Browsers)
    /\ UNCHANGED <<row, daemonOf, tree, behind, hello, hsess, late>>

HandlerStep(d) ==
    \/ HandshakeFails(d) \/ Refuse(d) \/ Resume(d) \/ Start(d)
    \/ Ready(d) \/ SetTree(d) \/ SendTreeOn(d) \/ Loaded(d) \/ Evict(d) \/ Notify(d)
    \/ GraceEnds(d) \/ (\E b \in Browsers : Expel(d, b)) \/ Drop(d)

JoinStep(b) ==
    \/ \E s \in Sids : Lookup(b, s)
    \/ AddBrowser(b) \/ Identify(b) \/ ReadTree(b) \/ SendTree(b) \/ Leave(b)

Next ==
    \/ \E d \in Daemons : \/ \E h \in Hosts : Dial(d, h)
                          \/ Lose(d)
                          \/ HandlerStep(d)
    \/ \E b \in Browsers : JoinStep(b)
    \/ RelayRestart

Spec == Init /\ [][Next]_vars

(* The Go scheduler runs every handler that can move, a read of a dead     *)
(* connection fails in the end (TCP keep-alive), and a sleep ends.         *)
FairSpec ==
    /\ Spec
    /\ \A d \in Daemons : WF_vars(HandlerStep(d))
    /\ \A b \in Browsers : WF_vars(ReadTree(b)) /\ WF_vars(SendTree(b))

-----------------------------------------------------------------------------
(* Properties.                                                             *)

(* The session of the connection session.daemon names is found by its id   *)
(* for as long as that connection's handler, or the goroutine it left, has *)
(* not ended: no timer of an older connection of the session, no expiry    *)
(* and no restored object of the same id takes it out of the map           *)
(* (server.go, the deferred function of handleDaemon).                     *)
HeldSessionFound ==
    \A d, o \in Daemons :
        dpc[d] \in Holding /\ hsess[d] = o /\ daemonOf[o] = d => Found(d) = o

(* A browser that has joined shows the tree the relay holds, once that was *)
(* broadcast, unless what it got last was the tree its own join had read   *)
(* (handleDaemon's broadcast against the tree handleBrowser sends), or the *)
(* late broadcast of a handler that had set its tree before the relay's.   *)
TreesAgree ==
    \A o \in Daemons : \A b \in parts[o] :
        bpc[b] = "ready" /\ b \notin closing /\ tree[o] # None /\ dpc[tree[o]] # "treed"
            => \/ seenTree[b] = tree[o] \/ seenTree[b] \in behind[o]
               \/ joinTree[b] # None /\ seenTree[b] = joinTree[b]

(* Nobody is left in a session that no daemon can come back to: a browser  *)
(* is among the participants its session's id finds, or it is being        *)
(* disconnected (closeAllBrowsers), unless its handshake went on while the *)
(* session expired.                                                        *)
NobodyStranded ==
    \A o \in Daemons : \A b \in parts[o] : Found(o) = o \/ b \in closing \/ b \in late

(* Handlers, objects and timers together keep what a directory of sessions *)
(* promises: the host of an id stays the same until the session ends,      *)
(* whichever daemon connects; a new session of the id starts with no guest *)
(* of the one before; and there are never more sessions than the cap.      *)
HostOf(s) == IF sessions[s] = None THEN None ELSE hello[daemonOf[sessions[s]]].token
GuestsOf(s) == IF sessions[s] = None THEN {} ELSE parts[sessions[s]] \ closing
Promised == INSTANCE Directory WITH host <- [s \in Sids |-> HostOf(s)],
                                    guests <- [s \in Sids |-> GuestsOf(s)]
ImplementsDirectory == Promised!Spec

NoDaemonLeft == \A d \in Daemons : link[d] # "open"

(* When every daemon is gone for good, no session stays in memory: the     *)
(* last connection to have registered is the one whose timer expires it,   *)
(* in whichever order the handlers noticed their losses.                   *)
AbandonedExpires ==
    <>[]NoDaemonLeft => <>[](\A s \in Sids : sessions[s] = None)

(* A browser that was told the daemon is there is told of its loss         *)
(* (DaemonStatus), or has been disconnected.                               *)
LossIsTold ==
    <>[]NoDaemonLeft =>
        <>[](\A o \in Daemons : \A b \in parts[o] :
                b \in closing \/ seenStatus[b] \in {"none", "down"})

(* A daemon that reconnected and is being served keeps its session,        *)
(* whatever became of the connection it had before.  "Sessions survive     *)
(* relay restarts (SQLite) and brief daemon disconnects" (tours.json).     *)
ServedSessionFound ==
    \A d \in Daemons : dpc[d] = "serving" /\ link[d] = "open" => Found(d) = hsess[d]

=============================================================================
