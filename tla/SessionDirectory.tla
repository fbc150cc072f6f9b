-------------------------- MODULE SessionDirectory --------------------------
(* Session implements Directory, for any sets of ids, tokens, hosts and    *)
(* browsers, any cap and any number of connections and restarts.           *)
EXTENDS SessionProofs, FiniteSetTheorems

Unmade == {"idle", "handshake"}
InSession == {"joined", "identified", "sending", "ready"}

(* The daemon an object names has the token of the daemon it was made for; *)
(* no handler knows an object before it is made.                           *)
HostInv ==
    /\ \A s \in Sids : sessions[s] # None =>
          /\ dpc[sessions[s]] \notin Unmade
          /\ daemonOf[sessions[s]] \in Daemons /\ dpc[daemonOf[sessions[s]]] \notin Unmade
          /\ hello[daemonOf[sessions[s]]].token = hello[sessions[s]].token
    /\ \A d \in Daemons : dpc[d] \in Holding => dpc[hsess[d]] \notin Unmade
    /\ \A b \in Browsers : bpc[b] \notin {"idle", "gone"} => dpc[bsess[b]] \notin Unmade

(* A participant is one of the object that its handler holds.              *)
GuestInv ==
    /\ \A o \in Daemons : \A b \in parts[o] : bsess[b] = o /\ bpc[b] \in InSession
    /\ \A b \in closing : bpc[b] \in InSession

DirectoryInv == SessionInv /\ HostInv /\ GuestInv

USE NoneAssumption, HostsAssumption, NatAssumption

(* Only a registration changes the daemon of an object, and only after the *)
(* tokens were compared (handleDaemon).                                    *)
LEMMA HostStep == DirectoryInv /\ [Next]_vars => HostInv'
<1> SUFFICES ASSUME DirectoryInv, [Next]_vars PROVE HostInv'
    OBVIOUS
<1>t. TypeOK /\ TypeOK'
  BY TypeStep DEF DirectoryInv, SessionInv
<1> USE <1>t DEF DirectoryInv, SessionInv, IdsAgree, HostInv, Holding, Found, Unmade
<1>0. ASSUME UNCHANGED <<sessions, daemonOf, hello, hsess, bpc, bsess>>,
             \A d \in Daemons : /\ dpc[d] \notin Unmade => dpc'[d] \notin Unmade
                                /\ dpc'[d] \in Holding => dpc[d] \in Holding
      PROVE HostInv'
  BY <1>0 DEF TypeOK
<1>1. ASSUME NEW d \in Daemons, NEW h \in Hosts, Dial(d, h) PROVE HostInv'
  BY <1>1 DEF Dial, mapVars, objVars, joinVars, TypeOK
<1>2. ASSUME NEW d \in Daemons, Lose(d) PROVE HostInv'
  BY <1>0, <1>2 DEF Lose, mapVars, objVars, joinVars, TypeOK
<1>3. ASSUME NEW d \in Daemons, HandlerStep(d) PROVE HostInv'
  <2>0. dpc[d] # "idle" => hello[d].sid \in Sids
    BY DEF TypeOK
  <2>1. CASE HandshakeFails(d) \/ Refuse(d)
    BY <1>0, <2>1 DEF HandshakeFails, Refuse, mapVars, objVars, joinVars, TypeOK
  <2>3. CASE Resume(d)
    BY <2>0, <2>3 DEF Resume, Enter, BadToken, mapVars, joinVars, TypeOK
  <2>4. CASE Start(d)
    BY <2>0, <2>4 DEF Start, Enter, joinVars, TypeOK
  <2>5. CASE Ready(d) \/ SendTreeOn(d) \/ Loaded(d) \/ Notify(d)
    BY <1>0, <2>5 DEF Ready, SendTreeOn, Loaded, Notify, mapVars, objVars, joinVars, TypeOK
  <2>6. CASE SetTree(d) \/ Evict(d)
    BY <1>0, <2>6 DEF SetTree, Evict, mapVars, joinVars, TypeOK
  <2>7. ASSUME NEW b \in Browsers, Expel(d, b) PROVE HostInv'
    BY <1>0, <2>7 DEF Expel, mapVars, objVars, daemonVars
  <2>8. CASE GraceEnds(d) \/ Drop(d)
    <3>1. \A s \in Sids : sessions'[s] \in {sessions[s], None}
      BY <2>0, <2>8 DEF GraceEnds, Drop, mapVars, TypeOK
    <3>2. \A e \in Daemons : dpc'[e] \notin Unmade <=> dpc[e] \notin Unmade
      BY <2>8 DEF GraceEnds, Drop, TypeOK
    <3>3. \A e \in Daemons : dpc'[e] \in Holding => dpc[e] \in Holding /\ hsess'[e] = hsess[e]
      BY <2>8 DEF GraceEnds, Drop, TypeOK
    <3>4. UNCHANGED <<hello, daemonOf, bpc, bsess>>
      BY <2>8 DEF GraceEnds, Drop, objVars, joinVars
    <3> QED
      BY <3>1, <3>2, <3>3, <3>4 DEF TypeOK
  <2> QED
    BY <1>3, <2>1, <2>3, <2>4, <2>5, <2>6, <2>7, <2>8 DEF HandlerStep
<1>4. ASSUME NEW b \in Browsers, JoinStep(b) PROVE HostInv'
  <2>0. UNCHANGED <<sessions, daemonOf, daemonVars>>
    BY <1>4 DEF JoinStep, Lookup, AddBrowser, Identify, ReadTree, SendTree, Leave,
                mapVars, objVars
  <2>1. \A c \in Browsers : bpc'[c] \notin {"idle", "gone"} => dpc[bsess'[c]] \notin Unmade
    <3>1. ASSUME NEW s \in Sids, Lookup(b, s)
          PROVE \A c \in Browsers : bpc'[c] \notin {"idle", "gone"} => dpc[bsess'[c]] \notin Unmade
      BY <3>1 DEF Lookup, TypeOK
    <3>2. CASE AddBrowser(b) \/ Identify(b) \/ ReadTree(b) \/ SendTree(b)
      <4>1. /\ bpc[b] \notin {"idle", "gone"} /\ UNCHANGED bsess
            /\ \A c \in Browsers : c # b => bpc'[c] = bpc[c]
        BY <3>2 DEF AddBrowser, Identify, ReadTree, SendTree, TypeOK
      <4> QED
        BY <4>1
    <3>3. CASE Leave(b)
      BY <3>3 DEF Leave, Forget, TypeOK
    <3> QED
      BY <1>4, <3>1, <3>2, <3>3 DEF JoinStep
  <2> QED
    BY <2>0, <2>1 DEF daemonVars
<1>5. CASE RelayRestart
  BY <1>5 DEF RelayRestart, Forget, TypeOK
<1>6. CASE UNCHANGED vars
  BY <1>0, <1>6 DEF vars, mapVars, objVars, daemonVars, joinVars
<1> QED
  BY <1>1, <1>2, <1>3, <1>4, <1>5, <1>6 DEF Next

(* Who is a participant is so of one object, and a connection that the     *)
(* relay closes is a participant's (addBrowser, closeAllBrowsers).         *)
LEMMA GuestStep == DirectoryInv /\ [Next]_vars => GuestInv'
<1> SUFFICES ASSUME DirectoryInv, [Next]_vars PROVE GuestInv'
    OBVIOUS
<1>t. TypeOK /\ TypeOK'
  BY TypeStep DEF DirectoryInv, SessionInv
<1> USE <1>t DEF DirectoryInv, SessionInv, GuestInv, InSession
<1>0. ASSUME UNCHANGED <<parts, bpc, bsess, closing>> PROVE GuestInv'
  BY <1>0
<1>1. ASSUME NEW d \in Daemons, NEW h \in Hosts, Dial(d, h) PROVE GuestInv'
  BY <1>0, <1>1 DEF Dial, objVars, joinVars
<1>2. ASSUME NEW d \in Daemons, Lose(d) PROVE GuestInv'
  BY <1>0, <1>2 DEF Lose, objVars, joinVars
<1>3. ASSUME NEW d \in Daemons, HandlerStep(d) PROVE GuestInv'
  <2>1. CASE HandshakeFails(d) \/ Refuse(d) \/ Resume(d) \/ Start(d) \/ Ready(d)
             \/ SetTree(d) \/ SendTreeOn(d) \/ Loaded(d) \/ Evict(d) \/ Notify(d)
             \/ GraceEnds(d) \/ Drop(d)
    BY <1>0, <2>1 DEF HandshakeFails, Refuse, Resume, Start, Enter, Ready, SetTree, SendTreeOn,
                      Loaded, Evict, Notify, GraceEnds, Drop, objVars, joinVars
  <2>2. ASSUME NEW b \in Browsers, Expel(d, b) PROVE GuestInv'
    <3>1. Found(d) \in Daemons
      BY <2>2 DEF Expel, ExpiryInv, Expires, Found, TypeOK, Holding
    <3> QED
      BY <2>2, <3>1 DEF Expel, objVars
  <2> QED
    BY <1>3, <2>1, <2>2 DEF HandlerStep
<1>4. ASSUME NEW b \in Browsers, JoinStep(b) PROVE GuestInv'
  <2>1. ASSUME NEW s \in Sids, Lookup(b, s) PROVE GuestInv'
    BY <2>1 DEF Lookup, objVars, TypeOK
  <2>2. CASE AddBrowser(b)
    BY <2>2 DEF AddBrowser, TypeOK
  <2>3. CASE Identify(b)
    BY <2>3 DEF Identify, objVars, TypeOK
  <2>4. CASE ReadTree(b)
    BY <2>4 DEF ReadTree, objVars, TypeOK
  <2>5. CASE SendTree(b)
    BY <2>5 DEF SendTree, objVars, TypeOK
  <2>6. CASE Leave(b)
    BY <2>6 DEF Leave, Forget, TypeOK
  <2> QED
    BY <1>4, <2>1, <2>2, <2>3, <2>4, <2>5, <2>6 DEF JoinStep
<1>5. CASE RelayRestart
  BY <1>5 DEF RelayRestart, Forget, TypeOK
<1>6. CASE UNCHANGED vars
  BY <1>0, <1>6 DEF vars, objVars, joinVars
<1> QED
  BY <1>1, <1>2, <1>3, <1>4, <1>5, <1>6 DEF Next

LEMMA DirectoryInvariant == Spec => []DirectoryInv
<1>1. Init => DirectoryInv
  BY DEF Init, DirectoryInv, SessionInv, TypeOK, IdsAgree, ExpiryInv, HeldSessionFound, HostInv,
         GuestInv, DaemonPc, BrowserPc, Holding, NoHost, Unmade, InSession
<1>2. DirectoryInv /\ [Next]_vars => DirectoryInv'
  BY TypeStep, HeldStep, HostStep, GuestStep DEF DirectoryInv, SessionInv
<1> QED
  BY <1>1, <1>2, PTL DEF Spec

-----------------------------------------------------------------------------
(* Every step of the relay is one of the directory's or leaves it as it    *)
(* was.                                                                    *)
Hosting == [s \in Sids |-> HostOf(s)]

(* An id is served, by the host whose token its object was made with, if   *)
(* and only if the map finds an object.                                    *)
LEMMA HostIsToken ==
    ASSUME DirectoryInv, NEW s \in Sids, sessions[s] # None
    PROVE  /\ HostOf(s) = hello[sessions[s]].token
           /\ HostOf(s) \in Tokens /\ HostOf(s) # None
BY DEF DirectoryInv, SessionInv, HostInv, HostOf, TypeOK, Unmade

LEMMA ServedInMemory == DirectoryInv => Promised!Served = InMemory
<1> SUFFICES ASSUME DirectoryInv PROVE Promised!Served = InMemory
    OBVIOUS
<1>1. \A s \in Sids : HostOf(s) # None <=> sessions[s] # None
  BY HostIsToken DEF HostOf
<1> QED
  BY <1>1 DEF Promised!Served, InMemory

(* The objects that two ids find are different ones.                       *)
LEMMA ObjectsApart ==
    ASSUME DirectoryInv, NEW r \in Sids, NEW s \in Sids, sessions[r] # None,
           sessions[r] = sessions[s]
    PROVE  r = s
BY DEF DirectoryInv, SessionInv, IdsAgree

(* A step that leaves the ids, the daemons and the participants alone.     *)
LEMMA Stutters ==
    ASSUME UNCHANGED <<sessions, daemonOf, hello, parts, closing>>
    PROVE  UNCHANGED Promised!vars
BY DEF Promised!vars, HostOf, GuestsOf

(* The map finds an object of each connection at most once, so there are  *)
(* finitely many sessions, and the cap compares a number.                  *)
LEMMA FinitelyMany == DirectoryInv => Cardinality(InMemory) \in Nat
<1> SUFFICES ASSUME DirectoryInv PROVE Cardinality(InMemory) \in Nat
    OBVIOUS
<1> DEFINE made == {hello[d].sid : d \in Daemons}
           f == [d \in Daemons |-> hello[d].sid]
<1>1. IsFiniteSet(Daemons)
  BY FS_Interval DEF Daemons
<1>2. IsFiniteSet(made)
  <2>1. f \in Surjection(Daemons, made)
    BY DEF Surjection
  <2> QED
    BY <1>1, <2>1, FS_Surjection
<1>3. InMemory \subseteq made
  BY DEF InMemory, DirectoryInv, SessionInv, IdsAgree, TypeOK
<1>4. IsFiniteSet(InMemory)
  BY <1>2, <1>3, FS_Subset
<1> QED
  BY <1>4, FS_CardinalityType

(* The steps of a daemon's handler: a new object opens the session, each   *)
(* browser that closeAllBrowsers closes leaves it, the deletion closes it, *)
(* a resumption changes nothing.                                           *)
LEMMA HandlerSimulates ==
    ASSUME DirectoryInv, DirectoryInv', NEW d \in Daemons, HandlerStep(d)
    PROVE  [Promised!Next]_(Promised!vars)
<1>0. TypeOK /\ TypeOK'
  BY DEF DirectoryInv, SessionInv
<1>h. dpc[d] # "idle" => hello[d].sid \in Sids /\ hello[d].token \in Tokens
  BY <1>0 DEF TypeOK
<1> DEFINE i == hello[d].sid
<1>1. CASE HandshakeFails(d) \/ Refuse(d) \/ Ready(d) \/ SetTree(d) \/ SendTreeOn(d) \/ Loaded(d)
           \/ Evict(d) \/ Notify(d) \/ GraceEnds(d)
  BY <1>1, Stutters DEF HandshakeFails, Refuse, Ready, SetTree, SendTreeOn, Loaded, Evict, Notify,
                        GraceEnds, mapVars, objVars, joinVars
<1>2. CASE Resume(d)
  <2>1. UNCHANGED <<sessions, hello, parts, closing>>
    BY <1>2 DEF Resume, Enter, mapVars, joinVars
  <2>2. ASSUME NEW s \in Sids PROVE HostOf(s)' = HostOf(s)
    <3>1. CASE sessions[s] = None
      BY <2>1, <3>1 DEF HostOf
    <3>2. CASE sessions[s] # None
      <4>1. HostOf(s) = hello[sessions[s]].token
        BY <3>2, HostIsToken
      <4>2. HostOf(s)' = hello'[sessions'[s]].token
        BY <2>1, <3>2 DEF DirectoryInv, HostInv, HostOf
      <4> QED
        BY <2>1, <4>1, <4>2
    <3> QED
      BY <3>1, <3>2
  <2> QED
    BY <2>1, <2>2 DEF Promised!vars, GuestsOf
<1>3. CASE Start(d)
  <2>1. i \in Sids /\ sessions[i] = None /\ dpc[d] = "handshake"
    BY <1>h, <1>3 DEF Start, Found
  <2>2. ASSUME NEW b \in parts[d] PROVE FALSE
    <3>1. b \in Browsers
      BY <1>0 DEF TypeOK
    <3>2. bsess[b] = d /\ bpc[b] \in InSession
      BY DEF DirectoryInv, GuestInv
    <3> QED
      BY <2>1, <3>1, <3>2 DEF DirectoryInv, HostInv, InSession, Unmade
  <2>3. /\ sessions' = [sessions EXCEPT ![i] = d]
        /\ daemonOf' = [daemonOf EXCEPT ![d] = d]
        /\ UNCHANGED <<hello, parts, closing>>
    BY <1>3 DEF Start, Enter, joinVars
  <2>4. ASSUME NEW s \in Sids
        PROVE  HostOf(s)' = IF s = i THEN hello[d].token ELSE HostOf(s)
    <3>1. CASE s = i
      BY <1>0, <2>1, <2>3, <3>1, NoneAssumption DEF HostOf, TypeOK
    <3>2. CASE s # i /\ sessions[s] = None
      BY <1>0, <2>1, <2>3, <3>2 DEF HostOf, TypeOK
    <3>3. CASE s # i /\ sessions[s] # None
      <4>1. sessions'[s] = sessions[s] /\ sessions[s] \in Daemons
        BY <1>0, <2>1, <2>3, <3>3 DEF TypeOK
      <4>2. sessions[s] # d
        BY <2>1, <3>3 DEF DirectoryInv, HostInv, Unmade
      <4> QED
        BY <1>0, <2>3, <3>3, <4>1, <4>2 DEF HostOf, TypeOK
    <3> QED
      BY <3>1, <3>2, <3>3
  <2>5. ASSUME NEW s \in Sids PROVE GuestsOf(s)' = GuestsOf(s)
    <3>1. CASE s = i
      BY <1>0, <2>1, <2>2, <2>3, <3>1 DEF GuestsOf, TypeOK
    <3>2. CASE s # i
      BY <1>0, <2>1, <2>3, <3>2 DEF GuestsOf, TypeOK
    <3> QED
      BY <3>1, <3>2
  <2>6. MaxSessions > 0 => Promised!Cardinality(Promised!Served) < MaxSessions
    <3>1. ~AtCapacity
      BY <1>3 DEF Start, NoRoom
    <3>2. Promised!Cardinality(InMemory) = Cardinality(InMemory)
      BY Zenon DEF Promised!Cardinality, Cardinality
    <3> QED
      BY <3>1, <3>2, ServedInMemory, FinitelyMany, NatAssumption DEF AtCapacity
  <2>7. HostOf(i) = None
    BY <2>1 DEF HostOf
  <2>8. Promised!Open(i, hello[d].token)
    <3>1. Hosting' = [Hosting EXCEPT ![i] = hello[d].token]
      BY <2>4 DEF Hosting
    <3>2. UNCHANGED [s \in Sids |-> GuestsOf(s)]
      BY <2>5
    <3>3. Hosting[i] = None
      BY <2>1, <2>7 DEF Hosting
    <3> HIDE DEF i
    <3> QED
      BY <2>6, <3>1, <3>2, <3>3 DEF Promised!Open, Hosting
  <2> QED
    BY <1>h, <2>1, <2>8 DEF Promised!Next
<1>4. ASSUME NEW b \in Browsers, Expel(d, b) PROVE [Promised!Next]_(Promised!vars)
  <2>1. i \in Sids /\ sessions[i] # None /\ Found(d) = sessions[i]
    BY <1>h, <1>4 DEF Expel, DirectoryInv, SessionInv, ExpiryInv, Expires, Found
  <2>2. UNCHANGED <<sessions, daemonOf, hello, parts>>
    BY <1>4 DEF Expel, mapVars, objVars, daemonVars
  <2>3. closing' = closing \cup ({b} \cap parts[sessions[i]])
    BY <1>4, <2>1 DEF Expel
  <2>4. CASE b \notin GuestsOf(i)
    <3>1. closing' = closing
      BY <2>1, <2>3, <2>4 DEF GuestsOf
    <3> QED
      BY <2>2, <3>1, Stutters
  <2>5. CASE b \in GuestsOf(i)
    <3>1. UNCHANGED Hosting
      BY <2>2 DEF Hosting, HostOf
    <3>2. ASSUME NEW s \in Sids, s # i PROVE b \notin GuestsOf(s)
      <4>1. sessions[s] # None => sessions[s] # sessions[i]
        BY <2>1, <3>2, ObjectsApart
      <4> QED
        BY <1>0, <2>1, <2>5, <4>1 DEF DirectoryInv, GuestInv, GuestsOf, TypeOK
    <3>3. ASSUME NEW s \in Sids
          PROVE  GuestsOf(s)' = IF s = i THEN GuestsOf(s) \ {b} ELSE GuestsOf(s)
      <4>1. closing' = closing \cup {b}
        BY <2>1, <2>3, <2>5 DEF GuestsOf
      <4>2. GuestsOf(s)' = GuestsOf(s) \ {b}
        BY <2>2, <4>1 DEF GuestsOf
      <4> QED
        BY <3>2, <4>2
    <3>4. Promised!Leave(i, b)
      BY <2>1, <2>5, <3>1, <3>3 DEF Promised!Leave, Hosting
    <3> QED
      BY <2>1, <3>4 DEF Promised!Next
  <2> QED
    BY <2>4, <2>5
<1>5. CASE Drop(d)
  <2>1. UNCHANGED <<daemonOf, hello, parts, closing>> /\ i \in Sids
    BY <1>h, <1>5 DEF Drop, objVars, joinVars
  <2>2. sessions' = [sessions EXCEPT ![i] = None] /\ sessions[i] # None
    BY <1>5 DEF Drop, DirectoryInv, SessionInv, ExpiryInv, Expires, Found
  <2>3. ASSUME NEW s \in Sids PROVE HostOf(s)' = IF s = i THEN None ELSE HostOf(s)
    BY <1>0, <2>1, <2>2 DEF HostOf, TypeOK
  <2>4. ASSUME NEW s \in Sids PROVE GuestsOf(s)' = IF s = i THEN {} ELSE GuestsOf(s)
    BY <1>0, <2>1, <2>2 DEF GuestsOf, TypeOK
  <2>5. HostOf(i) # None
    BY <2>1, <2>2, HostIsToken
  <2>6. Promised!Close(i)
    BY <2>1, <2>3, <2>4, <2>5 DEF Promised!Close
  <2> QED
    BY <2>1, <2>6 DEF Promised!Next
<1> QED
  BY <1>1, <1>2, <1>3, <1>4, <1>5 DEF HandlerStep

(* The steps of a browser's handler: addBrowser joins the session, if its  *)
(* id still finds the object, and removeBrowser leaves it.                 *)
LEMMA BrowserSimulates ==
    ASSUME DirectoryInv, DirectoryInv', NEW b \in Browsers, JoinStep(b)
    PROVE  [Promised!Next]_(Promised!vars)
<1>0. TypeOK /\ TypeOK'
  BY DEF DirectoryInv, SessionInv
<1>1. ASSUME NEW s \in Sids, Lookup(b, s) PROVE UNCHANGED Promised!vars
  BY <1>1, Stutters DEF Lookup, mapVars, objVars, daemonVars
<1>2. CASE Identify(b) \/ ReadTree(b) \/ SendTree(b)
  BY <1>2, Stutters DEF Identify, ReadTree, SendTree, mapVars, objVars, daemonVars
<1>3. CASE AddBrowser(b)
  <2>1. bpc[b] = "found" /\ bsess[b] \in Daemons
    BY <1>0, <1>3 DEF AddBrowser, TypeOK
  <2>2. /\ parts' = [parts EXCEPT ![bsess[b]] = @ \cup {b}]
        /\ UNCHANGED <<sessions, daemonOf, hello, closing>>
    BY <1>3 DEF AddBrowser, mapVars, daemonVars
  <2>3. b \notin closing /\ \A o \in Daemons : b \notin parts[o]
    BY <2>1 DEF DirectoryInv, GuestInv, InSession
  <2>4. UNCHANGED Hosting
    BY <2>2 DEF Hosting, HostOf
  <2>5. CASE \A s \in Sids : sessions[s] # bsess[b]
    <3>1. ASSUME NEW s \in Sids PROVE GuestsOf(s)' = GuestsOf(s)
      <4>1. CASE sessions[s] = None
        BY <2>2, <4>1 DEF GuestsOf
      <4>2. CASE sessions[s] # None
        BY <1>0, <2>1, <2>2, <2>5, <4>2 DEF GuestsOf, TypeOK
      <4> QED
        BY <4>1, <4>2
    <3> QED
      BY <2>4, <3>1 DEF Promised!vars, Hosting
  <2>6. ASSUME NEW r \in Sids, sessions[r] = bsess[b] PROVE Promised!Join(r, b)
    <3>0. sessions[r] # None
      BY <2>1, <2>6, NoneAssumption
    <3>1. ASSUME NEW s \in Sids
          PROVE  GuestsOf(s)' = IF s = r THEN GuestsOf(s) \cup {b} ELSE GuestsOf(s)
      <4>1. s # r => sessions[s] # sessions[r]
        BY <3>0, ObjectsApart
      <4>2. CASE s = r
        BY <1>0, <2>1, <2>2, <2>3, <2>6, <3>0, <4>2 DEF GuestsOf, TypeOK
      <4>3. CASE s # r /\ sessions[s] = None
        BY <2>2, <4>3 DEF GuestsOf
      <4>4. CASE s # r /\ sessions[s] # None
        BY <1>0, <2>1, <2>2, <2>6, <4>1, <4>4 DEF GuestsOf, TypeOK
      <4> QED
        BY <4>2, <4>3, <4>4
    <3>2. HostOf(r) # None
      BY <3>0, HostIsToken
    <3>3. \A s \in Sids : b \notin GuestsOf(s)
      BY <1>0, <2>3 DEF GuestsOf, TypeOK
    <3> QED
      BY <2>4, <3>1, <3>2, <3>3 DEF Promised!Join, Hosting
  <2> QED
    BY <2>5, <2>6 DEF Promised!Next
<1>4. CASE Leave(b)
  <2>1. bpc[b] \in InSession /\ bsess[b] \in Daemons
    BY <1>0, <1>4 DEF Leave, InSession, TypeOK
  <2>2. /\ parts' = [parts EXCEPT ![bsess[b]] = @ \ {b}]
        /\ closing' = closing \ {b}
        /\ UNCHANGED <<sessions, daemonOf, hello>>
    BY <1>4 DEF Leave, Forget, mapVars, daemonVars
  <2>3. \A o \in Daemons : b \in parts[o] => o = bsess[b]
    BY DEF DirectoryInv, GuestInv
  <2>4. UNCHANGED Hosting
    BY <2>2 DEF Hosting, HostOf
  <2>5. ASSUME NEW s \in Sids PROVE GuestsOf(s)' = GuestsOf(s) \ {b}
    BY <1>0, <2>1, <2>2, <2>3 DEF GuestsOf, TypeOK
  <2>6. CASE \A s \in Sids : b \notin GuestsOf(s)
    <3>1. ASSUME NEW s \in Sids PROVE GuestsOf(s)' = GuestsOf(s)
      BY <2>5, <2>6
    <3> QED
      BY <2>4, <3>1 DEF Promised!vars, Hosting
  <2>7. ASSUME NEW r \in Sids, b \in GuestsOf(r) PROVE Promised!Leave(r, b)
    <3>1. sessions[r] # None /\ sessions[r] = bsess[b]
      BY <1>0, <2>3, <2>7 DEF GuestsOf, TypeOK
    <3>2. ASSUME NEW s \in Sids, s # r PROVE b \notin GuestsOf(s)
      BY <1>0, <2>3, <3>1, <3>2, ObjectsApart DEF GuestsOf, TypeOK
    <3>3. ASSUME NEW s \in Sids
          PROVE  GuestsOf(s)' = IF s = r THEN GuestsOf(s) \ {b} ELSE GuestsOf(s)
      BY <2>5, <3>2
    <3> QED
      BY <2>4, <2>7, <3>3 DEF Promised!Leave, Hosting
  <2> QED
    BY <2>6, <2>7 DEF Promised!Next
<1> QED
  BY <1>1, <1>2, <1>3, <1>4 DEF JoinStep

LEMMA StepSimulates ==
    DirectoryInv /\ DirectoryInv' /\ [Next]_vars => [Promised!Next]_(Promised!vars)
<1> SUFFICES ASSUME DirectoryInv, DirectoryInv', [Next]_vars
             PROVE  [Promised!Next]_(Promised!vars)
    OBVIOUS
<1>0. TypeOK
  BY DEF DirectoryInv, SessionInv
<1>1. ASSUME NEW d \in Daemons, NEW h \in Hosts, Dial(d, h) PROVE UNCHANGED Promised!vars
  <2>1. /\ UNCHANGED <<sessions, daemonOf, parts, closing>>
        /\ hello' = [hello EXCEPT ![d] = h] /\ dpc[d] = "idle"
    BY <1>0, <1>1 DEF Dial, mapVars, objVars, joinVars, TypeOK
  <2>2. ASSUME NEW s \in Sids PROVE HostOf(s)' = HostOf(s)
    BY <1>0, <2>1 DEF HostOf, DirectoryInv, HostInv, Unmade, TypeOK
  <2> QED
    BY <2>1, <2>2 DEF Promised!vars, GuestsOf
<1>2. ASSUME NEW d \in Daemons, Lose(d) PROVE UNCHANGED Promised!vars
  BY <1>2, Stutters DEF Lose, mapVars, objVars, joinVars
<1>3. ASSUME NEW d \in Daemons, HandlerStep(d) PROVE [Promised!Next]_(Promised!vars)
  BY <1>3, HandlerSimulates
<1>4. ASSUME NEW b \in Browsers, JoinStep(b) PROVE [Promised!Next]_(Promised!vars)
  BY <1>4, BrowserSimulates
<1>5. CASE RelayRestart
  <2>1. \A s \in Sids : sessions'[s] = None
    BY <1>5 DEF RelayRestart
  <2> QED
    BY <2>1 DEF Promised!Next, Promised!Crash, HostOf, GuestsOf
<1>6. CASE UNCHANGED vars
  BY <1>6, Stutters DEF vars, mapVars, objVars, daemonVars, joinVars
<1> QED
  BY <1>1, <1>2, <1>3, <1>4, <1>5, <1>6 DEF Next

(* The relay's handlers, objects and timers together are a directory of    *)
(* sessions: one host to an id until the session ends, no more sessions    *)
(* than the cap, and no guest of an earlier session of the id in a new one *)
(* (handleDaemon, its deferred function, handleBrowser).                   *)
THEOREM SessionImplementsDirectory == Spec => ImplementsDirectory
<1>1. Init => Promised!Init
  BY DEF Init, Promised!Init, HostOf, GuestsOf
<1>2. DirectoryInv /\ DirectoryInv' /\ [Next]_vars => [Promised!Next]_(Promised!vars)
  BY StepSimulates
<1> QED
  BY <1>1, <1>2, DirectoryInvariant, PTL DEF Spec, ImplementsDirectory, Promised!Spec
=============================================================================
