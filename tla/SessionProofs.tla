--------------------------- MODULE SessionProofs ---------------------------
(* Proofs about Session, for any sets of ids, tokens, hosts and browsers   *)
(* and any number of connections and restarts.                             *)
EXTENDS Session, TLAPS

(* Ids and their objects correspond: the object an id finds was made for   *)
(* that id, and a handler holds an object of its own session's id.         *)
IdsAgree ==
    /\ \A s \in Sids : sessions[s] # None =>
          dpc[sessions[s]] # "idle" /\ hello[sessions[s]].sid = s
    /\ \A d \in Daemons : dpc[d] \in Holding =>
          dpc[hsess[d]] # "idle" /\ hello[hsess[d]].sid = hello[d].sid

(* One goroutine at a time expires a session, the one whose daemon it is:  *)
(* it has Server.mu.                                                       *)
ExpiryInv ==
    \A d \in Daemons : dpc[d] = "expiring" =>
        /\ Expires(d)
        /\ \A e \in Daemons : dpc[e] = "expiring" => e = d

(* The inductive strengthening of HeldSessionFound.                        *)
SessionInv == TypeOK /\ IdsAgree /\ ExpiryInv /\ HeldSessionFound

(* A participant is in the object its handler holds.                       *)
PartsInv ==
    \A o \in Daemons : \A b \in parts[o] :
        bsess[b] = o /\ bpc[b] \in {"joined", "identified", "sending", "ready"}

Before == {"idle", "handshake", "registered", "loading"}

(* An object's tree was set by a handler of it, and the tree of one that   *)
(* has not sent it yet is still there or was when another was set.         *)
UnsentInv ==
    \A o \in Daemons : tree[o] # None =>
        /\ dpc[tree[o]] \notin Before
        /\ dpc[tree[o]] = "treed" => hsess[tree[o]] = o
        /\ \A e \in Daemons :
              dpc[e] = "treed" /\ hsess[e] = o => e = tree[o] \/ e \in behind[o]

(* One whose handler is about to send the tree it read shows the relay's   *)
(* tree, or a late one, or will show what it read.                         *)
SendingInv ==
    \A o \in Daemons : \A b \in parts[o] :
        bpc[b] = "sending" /\ b \notin closing /\ tree[o] # None /\ dpc[tree[o]] # "treed"
            => seenTree[b] = tree[o] \/ seenTree[b] \in behind[o] \/ joinTree[b] = tree[o]

TreeInv == PartsInv /\ UnsentInv /\ SendingInv

USE DEF Daemons

(* The variables keep their types (all of handleDaemon, handleBrowser).    *)
LEMMA TypeStep == TypeOK /\ [Next]_vars => TypeOK'
<1> SUFFICES ASSUME TypeOK, [Next]_vars PROVE TypeOK'
    OBVIOUS
<1> USE NoneAssumption, HostsAssumption, NatAssumption
<1> USE DEF TypeOK, DaemonPc, BrowserPc, Holding, NoHost
<1>1. ASSUME NEW d \in Daemons, NEW h \in Hosts, Dial(d, h) PROVE TypeOK'
  BY <1>1 DEF Dial, mapVars, objVars, joinVars, seenVars
<1>2. ASSUME NEW d \in Daemons, Lose(d) PROVE TypeOK'
  BY <1>2 DEF Lose, mapVars, objVars, joinVars, seenVars
<1>3. ASSUME NEW d \in Daemons, HandlerStep(d) PROVE TypeOK'
  <2>0. dpc[d] # "idle" => hello[d].sid \in Sids /\ hello[d].token \in Tokens
    OBVIOUS
  <2>1. CASE HandshakeFails(d)
    BY <2>1 DEF HandshakeFails, mapVars, objVars, joinVars, seenVars
  <2>2. CASE Refuse(d)
    BY <2>2 DEF Refuse, mapVars, objVars, joinVars, seenVars
  <2>3. CASE Resume(d)
    BY <2>0, <2>3 DEF Resume, Enter, Found, mapVars, joinVars, seenVars
  <2>4. CASE Start(d)
    BY <2>0, <2>4 DEF Start, Enter, Found, joinVars, seenVars
  <2>5. CASE Ready(d)
    BY <2>5 DEF Ready, ShowStatus, mapVars, objVars, joinVars
  <2>6. CASE SetTree(d)
    BY <2>6 DEF SetTree, mapVars, joinVars, seenVars
  <2>7. CASE SendTreeOn(d)
    BY <2>7 DEF SendTreeOn, ShowTree, mapVars, objVars, joinVars
  <2>8. CASE Loaded(d)
    BY <2>8 DEF Loaded, ShowStatus, mapVars, objVars, joinVars
  <2>9. CASE Evict(d)
    BY <2>9 DEF Evict, mapVars, joinVars, seenVars
  <2>10. CASE Notify(d)
    BY <2>10 DEF Notify, ShowStatus, mapVars, objVars, joinVars
  <2>11. CASE GraceEnds(d)
    <3>1. Expires(d) => parts[Found(d)] \subseteq Browsers
      BY <2>0, <2>11 DEF GraceEnds, Expires, Found
    <3>2. dpc' \in [Daemons -> DaemonPc] /\ expelled' \subseteq Browsers
      BY <3>1, <2>11 DEF GraceEnds, Listed
    <3>a. dpc[d] = "grace" /\ hsess[d] \in Daemons
      BY <2>11 DEF GraceEnds
    <3>b. \/ dpc' = [dpc EXCEPT ![d] = "expiring"] /\ hsess' = hsess
          \/ dpc' = [dpc EXCEPT ![d] = "done"] /\ hsess' = [hsess EXCEPT ![d] = None]
      BY <2>11 DEF GraceEnds
    <3>3. /\ hsess' \in [Daemons -> Daemons \cup {None}]
          /\ \A e \in Daemons : dpc'[e] = "idle" <=> dpc[e] = "idle"
          /\ \A e \in Daemons : dpc'[e] \in Holding => hsess'[e] \in Daemons
      <4>1. CASE dpc' = [dpc EXCEPT ![d] = "expiring"] /\ hsess' = hsess
        BY <3>a, <4>1
      <4>2. CASE dpc' = [dpc EXCEPT ![d] = "done"] /\ hsess' = [hsess EXCEPT ![d] = None]
        BY <3>a, <4>2
      <4> QED
        BY <3>b, <4>1, <4>2
    <3>4. UNCHANGED <<mapVars, objVars, hello, link, bpc, bsess, joinTree, closing, late, seenVars,
                      restarts>>
      BY <2>11 DEF GraceEnds
    <3> HIDE DEF DaemonPc, Holding
    <3> QED
      BY <3>2, <3>3, <3>4 DEF mapVars, objVars, seenVars
  <2>12. ASSUME NEW b \in Browsers, Expel(d, b) PROVE TypeOK'
    BY <2>12 DEF Expel, mapVars, objVars, daemonVars, seenVars
  <2>13. CASE Drop(d)
    BY <2>13 DEF Drop, objVars, joinVars, seenVars
  <2> QED
    BY <1>3, <2>1, <2>2, <2>3, <2>4, <2>5, <2>6, <2>7, <2>8, <2>9, <2>10, <2>11, <2>12, <2>13
       DEF HandlerStep
<1>4. ASSUME NEW b \in Browsers, JoinStep(b) PROVE TypeOK'
  <2>1. ASSUME NEW s \in Sids, Lookup(b, s) PROVE TypeOK'
    BY <2>1 DEF Lookup, mapVars, objVars, daemonVars, seenVars
  <2>2. CASE AddBrowser(b)
    BY <2>2 DEF AddBrowser, mapVars, daemonVars, seenVars
  <2>3. CASE Identify(b)
    BY <2>3 DEF Identify, mapVars, objVars, daemonVars, seenVars
  <2>4. CASE ReadTree(b)
    BY <2>4 DEF ReadTree, mapVars, objVars, daemonVars, seenVars
  <2>5. CASE SendTree(b)
    BY <2>5 DEF SendTree, mapVars, objVars, daemonVars
  <2>6. CASE Leave(b)
    BY <2>6 DEF Leave, Forget, mapVars, daemonVars
  <2> QED
    BY <1>4, <2>1, <2>2, <2>3, <2>4, <2>5, <2>6 DEF JoinStep
<1>5. CASE RelayRestart
  BY <1>5 DEF RelayRestart, Forget
<1>6. CASE UNCHANGED vars
  BY <1>6 DEF vars, mapVars, objVars, daemonVars, joinVars, seenVars
<1> QED
  BY <1>1, <1>2, <1>3, <1>4, <1>5, <1>6 DEF Next

(* Type correctness, for every value of the constants.                     *)
THEOREM TypeCorrect == Spec => []TypeOK
<1>1. Init => TypeOK
  BY NatAssumption DEF Init, TypeOK, DaemonPc, BrowserPc, Holding, NoHost
<1> QED
  BY <1>1, TypeStep, PTL DEF Spec

-----------------------------------------------------------------------------
(* The step that matters: the handlers of daemon connections keep          *)
(* HeldSessionFound.  A registration makes daemonOf[o] this connection, so *)
(* no other holder of o is named by it any more; a new object is made only *)
(* where the id finds nothing, so no connection that is named by its       *)
(* object has that id; and an expiry takes out the object that names the   *)
(* expiring connection, whose goroutine ends.                              *)
LEMMA HeldStep == SessionInv /\ [Next]_vars => IdsAgree' /\ ExpiryInv' /\ HeldSessionFound'
<1> SUFFICES ASSUME SessionInv, [Next]_vars
             PROVE  IdsAgree' /\ ExpiryInv' /\ HeldSessionFound'
    OBVIOUS
<1>t. TypeOK /\ TypeOK'
  BY TypeStep DEF SessionInv
<1> USE NoneAssumption, HostsAssumption, NatAssumption
<1> USE <1>t DEF SessionInv, IdsAgree, ExpiryInv, HeldSessionFound, Holding, Found, Expires
<1>0. ASSUME UNCHANGED <<sessions, daemonOf, hello, hsess>>,
             \A d \in Daemons : /\ dpc'[d] = "idle" <=> dpc[d] = "idle"
                                /\ dpc'[d] \in Holding => dpc[d] \in Holding
                                /\ dpc'[d] = "expiring" => dpc[d] = "expiring"
      PROVE IdsAgree' /\ ExpiryInv' /\ HeldSessionFound'
  BY <1>0 DEF TypeOK
<1>1. ASSUME NEW d \in Daemons, NEW h \in Hosts, Dial(d, h)
      PROVE IdsAgree' /\ ExpiryInv' /\ HeldSessionFound'
  BY <1>1 DEF Dial, mapVars, objVars, TypeOK
<1>2. ASSUME NEW d \in Daemons, Lose(d) PROVE IdsAgree' /\ ExpiryInv' /\ HeldSessionFound'
  BY <1>0, <1>2 DEF Lose, mapVars, objVars, TypeOK
<1>3. ASSUME NEW d \in Daemons, HandlerStep(d)
      PROVE IdsAgree' /\ ExpiryInv' /\ HeldSessionFound'
  <2>0. dpc[d] # "idle" => hello[d].sid \in Sids
    BY DEF TypeOK
  <2>1. CASE HandshakeFails(d) \/ Refuse(d)
    BY <1>0, <2>1 DEF HandshakeFails, Refuse, mapVars, objVars, TypeOK
  <2>2. CASE Ready(d) \/ SetTree(d) \/ SendTreeOn(d) \/ Loaded(d) \/ Evict(d) \/ Notify(d)
    BY <1>0, <2>2 DEF Ready, SetTree, SendTreeOn, Loaded, Evict, Notify, mapVars, objVars,
                      TypeOK
  <2>3. CASE Resume(d)
    <3>1. IdsAgree'
      BY <2>0, <2>3 DEF Resume, Enter, mapVars, TypeOK
    <3>2. HeldSessionFound'
      BY <2>0, <2>3 DEF Resume, Enter, mapVars, TypeOK
    <3>3. ExpiryInv'
      BY <2>3 DEF Resume, Enter, MuFree, TypeOK
    <3> QED
      BY <3>1, <3>2, <3>3
  <2>4. CASE Start(d)
    <3>1. IdsAgree'
      BY <2>0, <2>4 DEF Start, Enter, TypeOK
    <3>2. HeldSessionFound'
      BY <2>0, <2>4 DEF Start, Enter, TypeOK
    <3>3. ExpiryInv'
      BY <2>4 DEF Start, Enter, MuFree, TypeOK
    <3> QED
      BY <3>1, <3>2, <3>3
  <2>5. CASE GraceEnds(d)
    <3>1. UNCHANGED <<sessions, daemonOf, hello>>
      BY <2>5 DEF GraceEnds, mapVars, objVars
    <3>2. \A e \in Daemons : dpc'[e] \in Holding => dpc[e] \in Holding /\ hsess'[e] = hsess[e]
      BY <2>5 DEF GraceEnds, TypeOK
    <3>3. \A e \in Daemons : dpc'[e] = "idle" <=> dpc[e] = "idle"
      BY <2>5 DEF GraceEnds, TypeOK
    <3>4. ExpiryInv'
      BY <2>5, <3>1 DEF GraceEnds, MuFree, TypeOK
    <3> QED
      BY <3>1, <3>2, <3>3, <3>4 DEF TypeOK
  <2>6. ASSUME NEW b \in Browsers, Expel(d, b)
        PROVE IdsAgree' /\ ExpiryInv' /\ HeldSessionFound'
    BY <1>0, <2>6 DEF Expel, mapVars, objVars, daemonVars
  <2>7. CASE Drop(d)
    <3>1. \A s \in Sids : sessions'[s] = IF s = hello[d].sid THEN None ELSE sessions[s]
      BY <2>0, <2>7 DEF Drop, TypeOK
    <3>2. UNCHANGED <<daemonOf, hello>>
      BY <2>7 DEF Drop, objVars
    <3>3. \A e \in Daemons : dpc'[e] \in Holding =>
            dpc[e] \in Holding /\ hsess'[e] = hsess[e] /\ e # d
      BY <2>7 DEF Drop, TypeOK
    <3>4. \A e \in Daemons : dpc'[e] = "idle" <=> dpc[e] = "idle"
      BY <2>7 DEF Drop, TypeOK
    <3>5. Found(d) # None /\ daemonOf[Found(d)] = d
      BY <2>7 DEF Drop
    <3>6. IdsAgree'
      BY <3>1, <3>2, <3>3, <3>4 DEF TypeOK
    <3>7. ExpiryInv'
      BY <2>7, <3>3 DEF Drop
    <3>8. HeldSessionFound'
      BY <3>1, <3>2, <3>3, <3>5 DEF TypeOK
    <3> QED
      BY <3>6, <3>7, <3>8
  <2> QED
    BY <1>3, <2>1, <2>2, <2>3, <2>4, <2>5, <2>6, <2>7 DEF HandlerStep
<1>4. ASSUME NEW b \in Browsers, JoinStep(b) PROVE IdsAgree' /\ ExpiryInv' /\ HeldSessionFound'
  <2>1. UNCHANGED <<sessions, daemonOf, daemonVars>>
    BY <1>4 DEF JoinStep, Lookup, AddBrowser, Identify, ReadTree, SendTree, Leave,
                mapVars, objVars
  <2> QED
    BY <1>0, <2>1 DEF daemonVars
<1>5. CASE RelayRestart
  BY <1>5 DEF RelayRestart, TypeOK
<1>6. CASE UNCHANGED vars
  BY <1>0, <1>6 DEF vars, mapVars, objVars, daemonVars
<1> QED
  BY <1>1, <1>2, <1>3, <1>4, <1>5, <1>6 DEF Next

LEMMA SessionInvariant == Spec => []SessionInv
<1>1. Init => SessionInv
  BY NatAssumption DEF Init, SessionInv, TypeOK, IdsAgree, ExpiryInv, HeldSessionFound, DaemonPc,
                       BrowserPc, Holding, NoHost
<1>2. SessionInv /\ [Next]_vars => SessionInv'
  BY TypeStep, HeldStep DEF SessionInv
<1> QED
  BY <1>1, <1>2, PTL DEF Spec

(* As long as the handler of the connection a session names has not ended, *)
(* the session is in the map (the deferred function of handleDaemon).      *)
THEOREM HeldSessionAlwaysFound == Spec => []HeldSessionFound
BY SessionInvariant, PTL DEF SessionInv

-----------------------------------------------------------------------------
(* Trees.  What a browser got last is the relay's tree, broadcast or read  *)
(* by its own join, or the late broadcast of a handler that was behind the *)
(* relay's tree when that was set.                                         *)
TreesInv == TypeOK /\ TreeInv /\ TreesAgree

LEMMA TreesStep == TreesInv /\ [Next]_vars => TreeInv' /\ TreesAgree'
<1> SUFFICES ASSUME TreesInv, [Next]_vars PROVE TreeInv' /\ TreesAgree'
    OBVIOUS
<1>t. TypeOK /\ TypeOK'
  BY TypeStep DEF TreesInv
<1> USE NoneAssumption, HostsAssumption, NatAssumption
<1> USE <1>t DEF TreesInv, TreeInv, PartsInv, UnsentInv, Before, SendingInv, TreesAgree
<1>0. ASSUME UNCHANGED <<tree, parts, behind, bpc, bsess, joinTree, seenTree>>,
             closing \subseteq closing',
             \A d \in Daemons : /\ dpc'[d] = "treed" <=> dpc[d] = "treed"
                                /\ dpc[d] = "treed" => hsess'[d] = hsess[d]
                                /\ dpc'[d] \in Before => dpc[d] \in Before
      PROVE TreeInv' /\ TreesAgree'
  BY <1>0 DEF TypeOK
<1>1. ASSUME NEW d \in Daemons, NEW h \in Hosts, Dial(d, h) PROVE TreeInv' /\ TreesAgree'
  BY <1>0, <1>1 DEF Dial, objVars, seenVars, joinVars, TypeOK
<1>2. ASSUME NEW d \in Daemons, Lose(d) PROVE TreeInv' /\ TreesAgree'
  BY <1>0, <1>2 DEF Lose, objVars, seenVars, joinVars
<1>3. ASSUME NEW d \in Daemons, HandlerStep(d) PROVE TreeInv' /\ TreesAgree'
  <2>1. CASE HandshakeFails(d) \/ Refuse(d) \/ Resume(d) \/ Start(d) \/ Ready(d) \/ Loaded(d)
             \/ Notify(d)
    BY <1>0, <2>1 DEF HandshakeFails, Refuse, Resume, Start, Enter, Ready, Loaded, Notify,
                      objVars, seenVars, joinVars, TypeOK
  <2>2. CASE GraceEnds(d) \/ Drop(d)
    <3>1. UNCHANGED <<tree, parts, behind, bpc, bsess, joinTree, seenTree, closing>>
      <4>1. CASE GraceEnds(d)
        BY <4>1 DEF GraceEnds, objVars, seenVars
      <4>2. CASE Drop(d)
        BY <4>2 DEF Drop, objVars, seenVars, joinVars
      <4> QED
        BY <2>2, <4>1, <4>2
    <3>2. \A e \in Daemons : e # d => dpc'[e] = dpc[e] /\ hsess'[e] = hsess[e]
      <4>1. CASE GraceEnds(d)
        <5>1. \/ dpc' = [dpc EXCEPT ![d] = "expiring"] /\ hsess' = hsess
              \/ dpc' = [dpc EXCEPT ![d] = "done"] /\ hsess' = [hsess EXCEPT ![d] = None]
          BY <4>1 DEF GraceEnds
        <5> QED
          BY <5>1 DEF TypeOK
      <4>2. CASE Drop(d)
        BY <4>2 DEF Drop, TypeOK
      <4> QED
        BY <2>2, <4>1, <4>2
    <3>3. dpc[d] \in {"grace", "expiring"} /\ dpc'[d] \in {"expiring", "done"}
      BY <2>2 DEF GraceEnds, Drop, TypeOK
    <3> QED
      BY <1>0, <3>1, <3>2, <3>3
  <2>3. ASSUME NEW b \in Browsers, Expel(d, b) PROVE TreeInv' /\ TreesAgree'
    BY <1>0, <2>3 DEF Expel, objVars, daemonVars, seenVars
  <2>4. CASE SetTree(d)
    <3>1. /\ \A o \in Daemons : o # hsess[d] => tree'[o] = tree[o] /\ behind'[o] = behind[o]
          /\ tree'[hsess[d]] = d /\ dpc'[d] = "treed"
          /\ behind'[hsess[d]] = {e \in Daemons : dpc[e] = "treed" /\ hsess[e] = hsess[d]}
      BY <2>4 DEF SetTree, TypeOK, Holding
    <3>2. \A e \in Daemons : e # d => dpc'[e] = dpc[e]
      BY <2>4 DEF SetTree, TypeOK
    <3>3. UNCHANGED <<hsess, parts, bpc, bsess, joinTree, closing, seenTree>>
      BY <2>4 DEF SetTree, joinVars, seenVars
    <3>4. dpc[d] = "loading" /\ hsess[d] \in Daemons
      BY <2>4 DEF SetTree, TypeOK, Holding
    <3>5. \A o \in Daemons : o # hsess[d] /\ tree[o] # None /\ dpc'[tree[o]] # "treed" =>
            dpc[tree[o]] # "treed"
      BY <3>2, <3>4 DEF TypeOK
    <3>6. UnsentInv'
      <4>1. \A o \in Daemons : tree[o] # d
        BY <3>4
      <4> SUFFICES ASSUME NEW o \in Daemons, tree'[o] # None
                   PROVE  /\ dpc'[tree'[o]] \notin Before
                          /\ dpc'[tree'[o]] = "treed" => hsess[tree'[o]] = o
                          /\ \A e \in Daemons : dpc'[e] = "treed" /\ hsess[e] = o
                                => e = tree'[o] \/ e \in behind'[o]
        BY <3>3
      <4>2. CASE o = hsess[d]
        BY <3>1, <3>2, <4>2
      <4>3. CASE o # hsess[d]
        <5>1. tree'[o] = tree[o] /\ behind'[o] = behind[o] /\ tree[o] \in Daemons \ {d}
          BY <3>1, <4>1, <4>3 DEF TypeOK
        <5> QED
          BY <3>2, <4>3, <5>1
      <4> QED
        BY <4>2, <4>3
    <3>7. PartsInv'
      BY <3>3
    <3>8. ASSUME NEW o \in Daemons, tree'[o] # None, dpc'[tree'[o]] # "treed"
          PROVE  /\ tree'[o] = tree[o] /\ behind'[o] = behind[o] /\ tree[o] # None
                 /\ dpc[tree[o]] # "treed"
      BY <3>1, <3>5, <3>8
    <3>9. SendingInv' /\ TreesAgree'
      BY <3>3, <3>8
    <3> QED
      BY <3>6, <3>7, <3>9
  <2>5. CASE SendTreeOn(d)
    <3>0. dpc[d] = "treed" /\ hsess[d] \in Daemons
      BY <2>5 DEF SendTreeOn, TypeOK, Holding
    <3>1. \A b \in Browsers :
            seenTree'[b] = IF b \in parts[hsess[d]] \ closing THEN d ELSE seenTree[b]
      BY <2>5 DEF SendTreeOn, ShowTree, Reached
    <3>2. /\ UNCHANGED <<hsess, tree, behind, parts, bpc, bsess, joinTree, closing>>
          /\ \A e \in Daemons : dpc'[e] = IF e = d THEN "sent" ELSE dpc[e]
      BY <2>5 DEF SendTreeOn, objVars, joinVars, TypeOK
    <3>3. PartsInv' /\ UnsentInv'
      BY <3>2 DEF TypeOK
    <3>4. ASSUME NEW o \in Daemons, NEW b \in parts[o], b \notin closing, tree[o] # None,
                 dpc'[tree[o]] # "treed", o = hsess[d]
          PROVE  seenTree'[b] = tree[o] \/ seenTree'[b] \in behind[o]
      BY <3>0, <3>1, <3>4 DEF TypeOK
    <3>5. ASSUME NEW o \in Daemons, NEW b \in parts[o], o # hsess[d]
          PROVE  seenTree'[b] = seenTree[b]
      BY <3>0, <3>1, <3>5 DEF TypeOK
    <3>6. ASSUME NEW o \in Daemons, tree[o] # None, dpc'[tree[o]] # "treed", o # hsess[d]
          PROVE  dpc[tree[o]] # "treed"
      BY <3>0, <3>2, <3>6 DEF TypeOK
    <3>7. SendingInv' /\ TreesAgree'
      BY <3>2, <3>4, <3>5, <3>6 DEF TypeOK
    <3> QED
      BY <3>3, <3>7
  <2>6. CASE Evict(d)
    <3>1. /\ \A o \in Daemons : o # hsess[d] => tree'[o] = tree[o]
          /\ tree'[hsess[d]] = None
      BY <2>6 DEF Evict, TypeOK, Holding
    <3>2. /\ UNCHANGED <<hsess, behind, parts, bpc, bsess, joinTree, closing, seenTree>>
          /\ \A e \in Daemons : dpc'[e] = "treed" <=> dpc[e] = "treed"
      BY <2>6 DEF Evict, joinVars, seenVars, TypeOK
    <3>3. \A e \in Daemons : dpc'[e] \in Before => dpc[e] \in Before
      BY <2>6 DEF Evict, TypeOK
    <3>4. ASSUME NEW o \in Daemons, tree'[o] # None
          PROVE  /\ tree'[o] = tree[o] /\ tree[o] \in Daemons
                 /\ dpc'[tree[o]] = "treed" <=> dpc[tree[o]] = "treed"
                 /\ dpc'[tree[o]] \in Before => dpc[tree[o]] \in Before
      BY <3>1, <3>2, <3>3, <3>4 DEF TypeOK
    <3>5. PartsInv'
      BY <3>2
    <3>6. UnsentInv'
      BY <3>2, <3>4
    <3>7. SendingInv' /\ TreesAgree'
      BY <3>2, <3>4
    <3> QED
      BY <3>5, <3>6, <3>7
  <2> QED
    BY <1>3, <2>1, <2>2, <2>3, <2>4, <2>5, <2>6 DEF HandlerStep
<1>4. ASSUME NEW b \in Browsers, JoinStep(b) PROVE TreeInv' /\ TreesAgree'
  <2>0. UNCHANGED <<tree, behind, daemonVars>>
    BY <1>4 DEF JoinStep, Lookup, AddBrowser, Identify, ReadTree, SendTree, Leave, objVars
  <2>u. UnsentInv'
    BY <2>0 DEF daemonVars
  <2> USE <2>0 DEF daemonVars
  <2>1. ASSUME NEW s \in Sids, Lookup(b, s) PROVE TreeInv' /\ TreesAgree'
    BY <2>u, <2>1 DEF Lookup, objVars, seenVars, TypeOK
  <2>2. CASE AddBrowser(b)
    BY <2>u, <2>2 DEF AddBrowser, seenVars, TypeOK
  <2>3. CASE Identify(b)
    BY <2>u, <2>3 DEF Identify, objVars, seenVars, TypeOK
  <2>4. CASE ReadTree(b)
    BY <2>u, <2>4 DEF ReadTree, objVars, seenVars, TypeOK
  <2>5. CASE SendTree(b)
    BY <2>u, <2>5 DEF SendTree, objVars, TypeOK
  <2>6. CASE Leave(b)
    BY <2>u, <2>6 DEF Leave, Forget, TypeOK
  <2> QED
    BY <1>4, <2>1, <2>2, <2>3, <2>4, <2>5, <2>6 DEF JoinStep
<1>5. CASE RelayRestart
  BY <1>5 DEF RelayRestart, Forget, TypeOK
<1>6. CASE UNCHANGED vars
  BY <1>0, <1>6 DEF vars, objVars, daemonVars, joinVars, seenVars
<1> QED
  BY <1>1, <1>2, <1>3, <1>4, <1>5, <1>6 DEF Next

LEMMA TreesInvariant == Spec => []TreesInv
<1>1. Init => TreesInv
  BY NatAssumption DEF Init, TreesInv, TypeOK, TreeInv, PartsInv, UnsentInv, Before, SendingInv,
                       TreesAgree, DaemonPc, BrowserPc, Holding, NoHost
<1>2. TreesInv /\ [Next]_vars => TreesInv'
  BY TypeStep, TreesStep DEF TreesInv
<1> QED
  BY <1>1, <1>2, PTL DEF Spec

(* A browser that has joined shows the tree the relay holds, the one its   *)
(* own join sent it, or a late one, however the handlers of the session's  *)
(* daemon connections set and broadcast theirs (handleDaemon's file_tree   *)
(* case, handleBrowser).                                                   *)
THEOREM TreesAlwaysAgree == Spec => []TreesAgree
BY TreesInvariant, PTL DEF TreesInv

-----------------------------------------------------------------------------
(* Guests.  A browser's handler holds an object that was made.             *)
MadeInv == \A b \in Browsers : bpc[b] \notin {"idle", "gone"} => dpc[bsess[b]] # "idle"

(* While a session expires, whoever is in it is on the list, disconnected, *)
(* or late.                                                                *)
ListedInv ==
    \A d \in Daemons : dpc[d] = "expiring" => parts[Found(d)] \subseteq closing \cup expelled \cup late

GuestsInv == MadeInv /\ ListedInv /\ NobodyStranded

LEMMA GuestsStep == SessionInv /\ PartsInv /\ GuestsInv /\ [Next]_vars => GuestsInv'
<1> SUFFICES ASSUME SessionInv, PartsInv, GuestsInv, [Next]_vars PROVE GuestsInv'
    OBVIOUS
<1>t. TypeOK /\ TypeOK'
  BY TypeStep DEF SessionInv
<1> USE NoneAssumption, HostsAssumption, NatAssumption
<1> USE <1>t DEF GuestsInv, MadeInv, ListedInv, NobodyStranded, Found
<1>m. ASSUME NEW o \in Daemons, NEW b \in parts[o]
      PROVE  b \in Browsers /\ bsess[b] = o /\ dpc[o] # "idle" /\ hello[o].sid \in Sids
  <2>1. b \in Browsers
    BY <1>m DEF TypeOK
  <2>a. bsess[b] = o /\ bpc[b] \notin {"idle", "gone"}
    <3> HIDE <1>t DEF MadeInv, ListedInv, NobodyStranded, Found
    <3> QED
      BY <1>m DEF PartsInv
  <2>2. dpc[o] # "idle"
    <3> HIDE <1>t DEF ListedInv, NobodyStranded, Found
    <3> QED
      BY <2>1, <2>a
  <2> QED
    BY <2>1, <2>a, <2>2 DEF TypeOK
<1>0. ASSUME UNCHANGED <<sessions, hello, parts, bpc, bsess, closing, expelled, late>>,
             \A d \in Daemons : /\ dpc'[d] = "idle" => dpc[d] = "idle"
                                /\ dpc'[d] = "expiring" => dpc[d] = "expiring"
      PROVE GuestsInv'
  BY <1>0 DEF TypeOK
<1>1. ASSUME NEW d \in Daemons, NEW h \in Hosts, Dial(d, h) PROVE GuestsInv'
  <2>1. /\ UNCHANGED <<sessions, parts, bpc, bsess, closing, expelled, late>>
        /\ dpc[d] = "idle"
        /\ \A e \in Daemons : e # d => dpc'[e] = dpc[e] /\ hello'[e] = hello[e]
        /\ dpc'[d] = "handshake"
    BY <1>1 DEF Dial, mapVars, objVars, joinVars, TypeOK
  <2> QED
    BY <1>m, <2>1 DEF TypeOK
<1>2. ASSUME NEW d \in Daemons, Lose(d) PROVE GuestsInv'
  BY <1>0, <1>2 DEF Lose, mapVars, objVars, joinVars
<1>3. ASSUME NEW d \in Daemons, HandlerStep(d) PROVE GuestsInv'
  <2>0. \A e \in Daemons : dpc[d] = "expiring" /\ dpc[e] = "expiring" => e = d
    BY DEF SessionInv, ExpiryInv
  <2>1. CASE HandshakeFails(d) \/ Refuse(d) \/ Ready(d) \/ SetTree(d) \/ SendTreeOn(d) \/ Loaded(d)
             \/ Evict(d) \/ Notify(d)
    BY <1>0, <2>1 DEF HandshakeFails, Refuse, Ready, SetTree, SendTreeOn, Loaded, Evict, Notify,
                      mapVars, objVars, joinVars, TypeOK
  <2>2. CASE Resume(d)
    BY <1>0, <2>2 DEF Resume, Enter, mapVars, joinVars, TypeOK
  <2>3. CASE Start(d)
    <3>1. /\ UNCHANGED <<hello, parts, bpc, bsess, closing, expelled, late>>
          /\ \A e \in Daemons : dpc'[e] # "expiring" /\ (dpc'[e] = "idle" => dpc[e] = "idle")
          /\ dpc[d] # "idle" /\ sessions[hello[d].sid] = None
      BY <2>3 DEF Start, Enter, MuFree, joinVars, TypeOK
    <3>2. hello[d].sid \in Sids
      BY <3>1 DEF TypeOK
    <3>3. \A s \in Sids : sessions'[s] = IF s = hello[d].sid THEN d ELSE sessions[s]
      BY <2>3, <3>2 DEF Start, TypeOK
    <3>4. NobodyStranded'
      BY <1>m, <3>1, <3>2, <3>3 DEF TypeOK
    <3> QED
      BY <3>1, <3>4 DEF TypeOK
  <2>4. CASE GraceEnds(d)
    <3>1. /\ UNCHANGED <<sessions, hello, parts, bpc, bsess, closing, late>>
          /\ \A e \in Daemons : (dpc'[e] = "expiring" => e = d) /\ (dpc'[e] = "idle" => dpc[e] = "idle")
      BY <2>4 DEF GraceEnds, MuFree, mapVars, objVars, TypeOK
    <3>2. dpc'[d] = "expiring" => expelled' = parts[Found(d)]
      BY <2>4 DEF GraceEnds, Listed, TypeOK
    <3>3. MadeInv' /\ NobodyStranded'
      BY <3>1 DEF TypeOK
    <3>4. ListedInv'
      BY <3>1, <3>2
    <3> QED
      BY <3>3, <3>4
  <2>5. ASSUME NEW b \in Browsers, Expel(d, b) PROVE GuestsInv'
    <3>1. /\ UNCHANGED <<sessions, hello, dpc, parts, bpc, bsess, late>>
          /\ dpc[d] = "expiring"
          /\ expelled' = expelled \ {b} /\ closing' = closing \cup ({b} \cap parts[Found(d)])
      BY <2>5 DEF Expel, mapVars, objVars, daemonVars
    <3> QED
      BY <2>0, <3>1
  <2>6. CASE Drop(d)
    <3>1. /\ UNCHANGED <<hello, parts, bpc, bsess, closing, expelled, late>>
          /\ \A e \in Daemons : (dpc'[e] = "expiring" => dpc[e] = "expiring" /\ e # d)
                               /\ (dpc'[e] = "idle" => dpc[e] = "idle")
          /\ dpc[d] = "expiring" /\ expelled = {}
      BY <2>6 DEF Drop, objVars, joinVars, TypeOK
    <3>2. hello[d].sid \in Sids
      BY <3>1 DEF TypeOK
    <3>3. \A s \in Sids : sessions'[s] = IF s = hello[d].sid THEN None ELSE sessions[s]
      BY <2>6, <3>2 DEF Drop, TypeOK
    <3>a. MadeInv'
      <4> HIDE <1>t DEF ListedInv, NobodyStranded, Found
      <4>1. \A b \in Browsers : bpc[b] \notin {"idle", "gone"} => bsess[b] \in Daemons
        BY <1>t DEF TypeOK
      <4> QED
        BY <3>1, <4>1
    <3>b. \A e \in Daemons : dpc'[e] # "expiring"
      BY <2>0, <3>1
    <3>4. MadeInv' /\ ListedInv'
      BY <3>a, <3>b
    <3>5. ASSUME NEW o \in Daemons, NEW b \in parts[o], hello[o].sid = hello[d].sid,
                 sessions[hello[o].sid] = o
          PROVE  b \in closing \/ b \in late
      BY <3>1, <3>5
    <3>6. NobodyStranded'
      BY <1>m, <3>1, <3>3, <3>5
    <3> QED
      BY <3>4, <3>6
  <2> QED
    BY <1>3, <2>1, <2>2, <2>3, <2>4, <2>5, <2>6 DEF HandlerStep
<1>4. ASSUME NEW b \in Browsers, JoinStep(b) PROVE GuestsInv'
  <2>0. UNCHANGED <<sessions, daemonVars, expelled>>
    BY <1>4 DEF JoinStep, Lookup, AddBrowser, Identify, ReadTree, SendTree, Leave, mapVars
  <2> USE <2>0 DEF daemonVars
  <2>1. ASSUME NEW s \in Sids, Lookup(b, s) PROVE GuestsInv'
    <3>1. /\ UNCHANGED <<parts, closing, late>>
          /\ \A c \in Browsers : c # b => bpc'[c] = bpc[c] /\ bsess'[c] = bsess[c]
          /\ bsess'[b] = sessions[s] /\ sessions[s] # None
      BY <2>1 DEF Lookup, objVars, TypeOK
    <3>2. dpc[sessions[s]] # "idle"
      BY <3>1 DEF SessionInv, IdsAgree
    <3> QED
      BY <3>1, <3>2
  <2>2. CASE AddBrowser(b)
    <3>1. /\ UNCHANGED <<bsess, closing>> /\ bpc[b] = "found"
          /\ \A c \in Browsers : c # b => bpc'[c] = bpc[c]
          /\ late' = IF Stands(bsess[b]) THEN late ELSE late \cup {b}
      BY <2>2 DEF AddBrowser, TypeOK
    <3>2. bsess[b] \in Daemons
      BY <3>1 DEF TypeOK
    <3>3. \A o \in Daemons : parts'[o] = IF o = bsess[b] THEN parts[o] \cup {b} ELSE parts[o]
      BY <2>2, <3>2 DEF AddBrowser, TypeOK
    <3>4. MadeInv'
      BY <3>1
    <3>5. NobodyStranded'
      BY <3>1, <3>3 DEF Stands
    <3>6. ASSUME NEW d \in Daemons, dpc[d] = "expiring" PROVE Found(d) \in Daemons
      <4>1. hello[d].sid \in Sids
        BY <3>6 DEF TypeOK
      <4>2. Found(d) # None
        BY <3>6 DEF SessionInv, ExpiryInv, Expires
      <4> QED
        BY <4>1, <4>2 DEF TypeOK
    <3>7. ListedInv'
      <4> SUFFICES ASSUME NEW d \in Daemons, dpc[d] = "expiring"
                   PROVE  parts'[Found(d)] \subseteq closing \cup expelled \cup late'
        BY <3>1
      <4>1. parts[Found(d)] \subseteq closing \cup expelled \cup late /\ Found(d) \in Daemons
        BY <3>6
      <4>2. CASE Found(d) = bsess[b]
        <5>1. late' = late \cup {b}
          BY <3>1, <4>2 DEF Stands
        <5> QED
          BY <3>3, <4>1, <4>2, <5>1
      <4>3. CASE Found(d) # bsess[b]
        BY <3>1, <3>3, <4>1, <4>3
      <4> QED
        BY <4>2, <4>3
    <3> QED
      BY <3>4, <3>5, <3>7
  <2>3. CASE Identify(b) \/ ReadTree(b) \/ SendTree(b)
    <3>1. /\ UNCHANGED <<parts, bsess, closing, late>>
          /\ bpc[b] \notin {"idle", "gone"}
          /\ \A c \in Browsers : c # b => bpc'[c] = bpc[c]
      BY <2>3 DEF Identify, ReadTree, SendTree, objVars, TypeOK
    <3> QED
      BY <3>1
  <2>4. CASE Leave(b)
    <3>1. /\ UNCHANGED late /\ closing' = closing \ {b} /\ bpc[b] \in {"joined", "ready"}
          /\ \A c \in Browsers : c # b => bpc'[c] = bpc[c] /\ bsess'[c] = bsess[c]
          /\ bpc'[b] = "gone"
      BY <2>4 DEF Leave, Forget, TypeOK
    <3>2. \A o \in Daemons : parts'[o] = parts[o] \ {b}
      BY <1>m, <2>4 DEF Leave, TypeOK
    <3>3. ASSUME NEW d \in Daemons, dpc[d] = "expiring" PROVE Found(d) \in Daemons
      <4>1. hello[d].sid \in Sids
        BY <3>3 DEF TypeOK
      <4>2. Found(d) # None
        BY <3>3 DEF SessionInv, ExpiryInv, Expires
      <4> QED
        BY <4>1, <4>2 DEF TypeOK
    <3>4. ListedInv'
      BY <3>1, <3>2, <3>3
    <3>5. MadeInv' /\ NobodyStranded'
      BY <3>1, <3>2
    <3> QED
      BY <3>4, <3>5
  <2> QED
    BY <1>4, <2>1, <2>2, <2>3, <2>4 DEF JoinStep
<1>5. CASE RelayRestart
  BY <1>5 DEF RelayRestart, Forget, TypeOK
<1>6. CASE UNCHANGED vars
  BY <1>0, <1>6 DEF vars, mapVars, objVars, daemonVars, joinVars
<1> QED
  BY <1>1, <1>2, <1>3, <1>4, <1>5, <1>6 DEF Next

(* A participant of a session whose id finds it no more is being           *)
(* disconnected, or was added while the session expired or afterwards,     *)
(* however joins, leaves, reconnections and timers interleave.             *)
THEOREM NobodyEverStranded == Spec => []NobodyStranded
<1>1. Init => GuestsInv
  BY DEF Init, GuestsInv, MadeInv, ListedInv, NobodyStranded
<1>2. SessionInv /\ PartsInv /\ GuestsInv /\ [Next]_vars => GuestsInv'
  BY GuestsStep
<1>3. TreesInv => PartsInv
  BY DEF TreesInv, TreeInv
<1>4. GuestsInv => NobodyStranded
  BY DEF GuestsInv
<1> QED
  BY <1>1, <1>2, <1>3, <1>4, SessionInvariant, TreesInvariant, PTL DEF Spec
=============================================================================
