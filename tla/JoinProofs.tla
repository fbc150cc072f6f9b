----------------------------- MODULE JoinProofs -----------------------------
(* Proofs about Join, for any connections, passwords, limits and bounds.   *)
EXTENDS Join, FiniteSetTheorems, TLAPS

(* Who has used up the attempts is not read from again: what the inductive *)
(* form of TypeOK needs for the count of attempts.                         *)
Kept == {k \in ConnType : k.tries = MaxAttempts => k.cut /\ k.up = <<>>}

ServedIn(cs) == {c \in Conns : cs[c].at \in Served}

JoinInv == TypeOK /\ conn \in [Conns -> Kept] /\ SlotsCounted

USE JoinAssumption DEF JoinAssumption, Served, Roles

-----------------------------------------------------------------------------
(* Connections.                                                            *)

LEMMA NothingSent ==
    <<>> \in Seq(ToPage) /\ <<>> \in Seq(ToRelay) /\ 0 \in 0 .. MaxAttempts
OBVIOUS

(* An end that goes, or closes the connection, leaves a connection.        *)
LEMMA IdleKept == Idle \in Kept /\ Idle.at = "over" /\ Idle \in ConnType
BY NothingSent DEF Idle, Kept, ConnType

LEMMA SockGoneKept ==
    ASSUME NEW k \in Kept
    PROVE  SockGone(k) \in Kept /\ SockGone(k).at = k.at
BY IdleKept, NothingSent DEF SockGone, Kept, ConnType

LEMMA HandlerGoneKept ==
    ASSUME NEW k \in Kept
    PROVE  HandlerGone(k) \in Kept /\ HandlerGone(k).at = "over"
<1> DEFINE n == [k EXCEPT !.at = "over", !.up = <<>>, !.tries = 0, !.role = None]
<1>1. n \in ConnType /\ n.tries = 0 /\ n.at = "over"
  BY NothingSent DEF Kept, ConnType
<1>2. n \in Kept
  BY <1>1 DEF Kept
<1> QED
  BY <1>1, <1>2, IdleKept DEF HandlerGone

LEMMA AppendDown ==
    ASSUME NEW k \in Kept, NEW m \in ToPage
    PROVE  /\ [k EXCEPT !.down = Append(@, m)] \in Kept
           /\ [k EXCEPT !.down = Append(@, m)].at = k.at
<1>1. Append(k.down, m) \in Seq(ToPage)
  BY DEF Kept, ConnType
<1> QED
  BY <1>1 DEF Kept, ConnType

LEMMA ShutKept ==
    ASSUME NEW k \in Kept, NEW m \in ToPage
    PROVE  Shut(k, m) \in Kept /\ Shut(k, m).at = k.at
<1>1. Append(k.down, m) \in Seq(ToPage)
  BY DEF Kept, ConnType
<1> QED
  BY <1>1, NothingSent DEF Shut, Kept, ConnType

(* Writes leave every handler where it is.                                 *)
LEMMA PutKept ==
    ASSUME NEW cs \in [Conns -> Kept], NEW c \in Conns, NEW m \in ToPage
    PROVE  Put(cs, c, m) \in [Conns -> Kept] /\ ServedIn(Put(cs, c, m)) = ServedIn(cs)
BY AppendDown DEF Put, ServedIn

LEMMA PutAllKept ==
    ASSUME NEW cs \in [Conns -> Kept], NEW m \in ToPage
    PROVE  PutAll(cs, m) \in [Conns -> Kept] /\ ServedIn(PutAll(cs, m)) = ServedIn(cs)
BY AppendDown DEF PutAll, ServedIn

LEMMA PostKept ==
    ASSUME NEW cs \in [Conns -> Kept], NEW ws \in Conns \cup {None}, NEW ms \in Seq(ToRelay)
    PROVE  Post(cs, ws, ms) \in [Conns -> Kept] /\ ServedIn(Post(cs, ws, ms)) = ServedIn(cs)
<1>1. ASSUME NEW k \in Kept, ~k.cut
      PROVE  [k EXCEPT !.up = @ \o ms] \in Kept /\ [k EXCEPT !.up = @ \o ms].at = k.at
  <2>1. k.up \o ms \in Seq(ToRelay)
    BY DEF Kept, ConnType
  <2> QED
    BY <1>1, <2>1 DEF Kept, ConnType
<1> QED
  BY <1>1 DEF Post, ServedIn

(* broadcastParticipants.                                                  *)
LEMMA OwnRolesTyped ==
    ASSUME NEW cs \in [Conns -> Kept]
    PROVE  OwnRoles(cs) \subseteq Roles \cup {None}
BY DEF OwnRoles, Kept, ConnType

LEMMA ListTyped == \A r \in Roles \cup {None} : List(r) \in ToPage
BY DEF List, ToPage

LEMMA BroadcastKept ==
    ASSUME NEW cs \in [Conns -> Kept], Broadcast(cs),
           late \in Roles \cup {None, Nothing}, oldList \in BOOLEAN
    PROVE  /\ conn' \in [Conns -> Kept] /\ ServedIn(conn') = ServedIn(cs)
           /\ late' \in Roles \cup {None, Nothing} /\ oldList' \in BOOLEAN
<1>1. PICK r \in OwnRoles(cs) :
           \/ conn' = PutAll(cs, List(r)) /\ oldList' = FALSE /\ UNCHANGED late
           \/ late' = r /\ conn' = cs /\ UNCHANGED oldList
  BY DEF Broadcast
<1>2. r \in Roles \cup {None}
  BY OwnRolesTyped
<1>3. CASE conn' = PutAll(cs, List(r)) /\ oldList' = FALSE /\ UNCHANGED late
  <2>1. List(r) \in ToPage
    BY <1>2, ListTyped
  <2>2. conn' \in [Conns -> Kept] /\ ServedIn(conn') = ServedIn(cs)
    BY <1>3, <2>1, PutAllKept
  <2> QED
    BY <1>3, <2>2
<1>4. CASE late' = r /\ conn' = cs /\ UNCHANGED oldList
  BY <1>2, <1>4
<1> QED
  BY <1>1, <1>3, <1>4

(* The messages have the types that connections carry.                     *)
LEMMA MessagesTyped ==
    ASSUME token \in Tokens
    PROVE  /\ \A p \in Passwords \cup {None}, t \in Tokens : Auth(p, t) \in ToRelay
           /\ Identify \in ToRelay /\ Request \in ToRelay
           /\ \A type \in {"open", "password_required", "wrong", "many", "denied", "close",
                           "refuse"} :
                 Say(type) \in ToPage
BY DEF Auth, Identify, Request, Say, ToRelay, ToPage, Tokens

-----------------------------------------------------------------------------
(* The page.                                                               *)

LEMMA PromptTyped == \A pg \in PageType : Prompt(pg) \in PageType
BY DEF Prompt, PageType

LEMMA OpenTyped ==
    ASSUME NEW pg \in PageType, NEW first \in BOOLEAN
    PROVE  OnOpen(pg, first) \in PageType
<1>1. 0 \in 0 .. MaxReconnects + 1
  OBVIOUS
<1> QED
  BY <1>1 DEF OnOpen, PageType

LEMMA ListedTyped ==
    ASSUME NEW pg \in PageType, NEW r \in Roles \cup {None}
    PROVE  OnList(pg, r) \in PageType
BY DEF OnList, ApplyRoleRestrictions, PageType

LEMMA CloseTyped ==
    ASSUME NEW pg \in PageType, NEW first \in BOOLEAN
    PROVE  OnClose(pg, first) \in PageType
BY DEF OnClose, PageType

(* Whatever arrives, the page keeps its type (handleMessage).              *)
LEMMA HandleTyped ==
    ASSUME NEW pg \in PageType, NEW m \in ToPage, NEW first \in BOOLEAN
    PROVE  Handle(pg, m, first) \in PageType
<1>1. m.type \in {"open", "password_required", "wrong", "many", "list", "denied", "close", "refuse"}
      /\ m.role \in Roles \cup {None}
  BY DEF ToPage
<1>2. [Prompt(pg) EXCEPT !.pwd = None] \in PageType
  BY PromptTyped DEF PageType
<1>3. /\ [pg EXCEPT !.asked = FALSE] \in PageType
      /\ OnRefuse(pg, first) \in PageType
  BY DEF OnRefuse, PageType
<1>4. OnPasswordRequired(pg) \in PageType
  BY PromptTyped DEF OnPasswordRequired
<1> QED
  BY <1>1, <1>2, <1>3, <1>4, OpenTyped, ListedTyped, CloseTyped DEF Handle

LEMMA CredentialsTyped ==
    ASSUME NEW pg \in PageType, token \in Tokens
    PROVE  Append(Credentials(pg), Identify) \in Seq(ToRelay)
<1>1. pg.pwd \in Passwords \cup {None}
  BY DEF PageType
<1>2. Auth(pg.pwd, token) \in ToRelay /\ Identify \in ToRelay
  BY <1>1, MessagesTyped
<1>3. Credentials(pg) \in Seq(ToRelay)
  BY <1>2 DEF Credentials
<1> QED
  BY <1>2, <1>3

(* A new connection (reconnect, joinSession).                              *)
LEMMA DialKept ==
    ASSUME NEW first \in BOOLEAN, page \in PageType, conn \in [Conns -> Kept], Dial(first),
           first \/ (page.timers > 0 /\ page.attempts < MaxReconnects)
    PROVE  /\ conn' \in [Conns -> Kept] /\ ServedIn(conn') = ServedIn(conn)
           /\ page' \in PageType
<1> DEFINE new == [Idle EXCEPT !.at = "dialed", !.sock = "connecting", !.cut = FALSE,
                               !.first = first]
<1>1. PICK c \in Conns :
        /\ conn[c] = Idle
        /\ conn' = [conn EXCEPT ![c] = new]
        /\ page' = [page EXCEPT !.ws = c, !.timers = IF first THEN @ ELSE @ - 1,
                                !.attempts = IF first THEN @ ELSE @ + 1]
  BY DEF Dial
<1>2. new \in ConnType /\ new.at = "dialed" /\ new.tries = 0
  BY NothingSent DEF Idle, ConnType
<1>3. new \in Kept
  BY <1>2 DEF Kept
<1>4. page' \in PageType
  <2>1. /\ (IF first THEN page.timers ELSE page.timers - 1) \in Nat
        /\ (IF first THEN page.attempts ELSE page.attempts + 1) \in 0 .. MaxReconnects + 1
    BY DEF PageType
  <2> QED
    BY <1>1, <2>1 DEF PageType
<1> HIDE DEF new
<1> QED
  BY <1>1, <1>2, <1>3, <1>4, IdleKept DEF ServedIn

-----------------------------------------------------------------------------
(* Steps that leave the count of slots and the handlers' places alone.     *)
LEMMA SlotsAlone ==
    ASSUME JoinInv, conn' \in [Conns -> Kept], ServedIn(conn') = ServedIn(conn),
           page' \in PageType, late' \in Roles \cup {None, Nothing}, toasts' \in Nat,
           live' \in BOOLEAN, password' \in Passwords \cup {None}, host' \in BOOLEAN,
           oldList' \in BOOLEAN, unheard' \in BOOLEAN, doubled' \in BOOLEAN,
           deadEnd' \in BOOLEAN, events' \in 0 .. MaxEvents,
           UNCHANGED <<token, slots, drifted>>
    PROVE  JoinInv'
<1>1. TypeOK'
  BY DEF JoinInv, TypeOK, Kept
<1>2. SlotsCounted'
  BY DEF JoinInv, SlotsCounted, ServedIn
<1> QED
  BY <1>1, <1>2 DEF JoinInv

LEMMA EventTyped == events \in 0 .. MaxEvents /\ Event => events' \in 0 .. MaxEvents
BY DEF Event

LEMMA KeptTyped == \A k \in Kept : k \in ConnType
BY DEF Kept

(* The forms (submitSession, joinSession, submitPassword, requestEditAccess). *)
LEMMA FormsStep ==
    ASSUME JoinInv,
           \/ SubmitSession \/ JoinSession \/ RightPassword \/ WrongPassword \/ RequestEditAccess
    PROVE  JoinInv'
<1> USE DEF relayVars, hostVars, histVars
<1>0. TypeOK /\ conn \in [Conns -> Kept]
  BY DEF JoinInv
<1>1. CASE SubmitSession
  <2>1. page' \in PageType
    BY <1>0, <1>1 DEF SubmitSession, TypeOK, PageType
  <2> QED
    BY <1>0, <1>1, <2>1, EventTyped, SlotsAlone DEF SubmitSession, TypeOK
<1>2. CASE JoinSession
  <2>1. Dial(TRUE) /\ doubled' \in BOOLEAN /\ Event
    BY <1>2 DEF JoinSession
  <2>2. conn' \in [Conns -> Kept] /\ ServedIn(conn') = ServedIn(conn) /\ page' \in PageType
    BY <1>0, <2>1, DialKept DEF TypeOK
  <2> QED
    BY <1>0, <1>2, <2>1, <2>2, EventTyped, SlotsAlone DEF JoinSession, TypeOK
<1>3. ASSUME NEW p \in Passwords, SubmitPassword(p), events' \in 0 .. MaxEvents PROVE JoinInv'
  <2>1. AnswerPrompt(p) \in Seq(ToRelay)
    BY <1>0, MessagesTyped DEF AnswerPrompt, TypeOK, Tokens
  <2>2. page.ws \in Conns \cup {None}
    BY <1>0 DEF TypeOK, PageType
  <2>3. conn' \in [Conns -> Kept] /\ ServedIn(conn') = ServedIn(conn)
    BY <1>0, <1>3, <2>1, <2>2, PostKept DEF SubmitPassword
  <2>4. page' \in PageType
    BY <1>0, <1>3 DEF SubmitPassword, TypeOK, PageType
  <2>5. deadEnd' \in BOOLEAN
    BY <1>3 DEF SubmitPassword
  <2> QED
    BY <1>0, <1>3, <2>3, <2>4, <2>5, SlotsAlone DEF SubmitPassword, TypeOK
<1>4. CASE RightPassword
  <2>1. \E p \in Passwords : SubmitPassword(p)
    BY <1>0, <1>4 DEF RightPassword, TypeOK
  <2> QED
    BY <1>0, <1>3, <1>4, <2>1 DEF RightPassword, TypeOK
<1>5. CASE WrongPassword
  BY <1>0, <1>3, <1>5, EventTyped DEF WrongPassword, TypeOK
<1>6. CASE RequestEditAccess
  <2>1. <<Request>> \in Seq(ToRelay)
    BY <1>0, MessagesTyped DEF TypeOK
  <2>2. page.ws \in Conns \cup {None}
    BY <1>0 DEF TypeOK, PageType
  <2>3. conn' \in [Conns -> Kept] /\ ServedIn(conn') = ServedIn(conn)
    BY <1>0, <1>6, <2>1, <2>2, PostKept DEF RequestEditAccess
  <2>4. page' \in PageType
    BY <1>0, <1>6 DEF RequestEditAccess, TypeOK, PageType
  <2> QED
    BY <1>0, <1>6, <2>3, <2>4, EventTyped, SlotsAlone DEF RequestEditAccess, TypeOK
<1> QED
  BY <1>1, <1>2, <1>4, <1>5, <1>6

(* The page's timer and its socket (reconnect, handleMessage).             *)
LEMMA PageStep ==
    ASSUME JoinInv, TimerFires \/ \E c \in Conns : Deliver(c)
    PROVE  JoinInv'
<1> USE DEF relayVars, hostVars, histVars
<1>0. TypeOK /\ conn \in [Conns -> Kept]
  BY DEF JoinInv
<1>1. CASE TimerFires
  <2>1. CASE page.attempts < MaxReconnects
    <3>1. conn' \in [Conns -> Kept] /\ ServedIn(conn') = ServedIn(conn) /\ page' \in PageType
      BY <1>0, <1>1, <2>1, DialKept DEF TimerFires, TypeOK
    <3> QED
      BY <1>0, <1>1, <3>1, SlotsAlone DEF TimerFires, TypeOK
  <2>2. CASE ~(page.attempts < MaxReconnects)
    <3>1. page.timers - 1 \in Nat /\ MaxReconnects + 1 \in 0 .. MaxReconnects + 1
      BY <1>0, <1>1 DEF TimerFires, TypeOK, PageType
    <3> DEFINE n == page.timers - 1
               a == MaxReconnects + 1
    <3>a. /\ page' = [page EXCEPT !.timers = n, !.attempts = a, !.gaveUp = TRUE]
          /\ UNCHANGED conn
      BY <1>1, <2>2 DEF TimerFires
    <3>b. page \in PageType /\ n \in Nat /\ a \in 0 .. MaxReconnects + 1
      BY <1>0, <3>1 DEF TypeOK
    <3> HIDE DEF n, a
    <3>2. page' \in PageType /\ UNCHANGED conn
      BY <3>a, <3>b DEF PageType
    <3> QED
      BY <1>0, <1>1, <3>2, SlotsAlone DEF TimerFires, TypeOK
  <2> QED
    BY <2>1, <2>2
<1>2. ASSUME NEW c \in Conns, Deliver(c) PROVE JoinInv'
  <2> DEFINE m == Head(conn[c].down)
             k == [conn[c] EXCEPT !.down = Tail(@)]
             o == [k EXCEPT !.sock = "open"]
             ms == Append(Credentials(page), Identify)
  <2>0. conn[c] \in Kept /\ conn[c] \in ConnType
    BY <1>0, KeptTyped
  <2>1. m \in ToPage /\ Tail(conn[c].down) \in Seq(ToPage)
    BY <1>2, <2>0 DEF Deliver, ConnType
  <2>2. k \in Kept /\ k.at = conn[c].at
    BY <2>0, <2>1 DEF Kept, ConnType
  <2>3. o \in Kept /\ o.at = conn[c].at
    BY <2>0, <2>1 DEF Kept, ConnType
  <2>4. page' \in PageType
    <3>1. conn[c].first \in BOOLEAN
      BY <2>0 DEF ConnType
    <3> QED
      BY <1>0, <1>2, <2>1, <3>1, HandleTyped DEF Deliver, TypeOK
  <2>5. /\ \/ conn' = Post([conn EXCEPT ![c] = o], page.ws, ms)
           \/ conn' = [conn EXCEPT ![c] = SockGone(@)]
           \/ conn' = [conn EXCEPT ![c] = k]
        /\ UNCHANGED <<token, relayVars, hostVars, histVars, events>>
    BY <1>0, <1>2 DEF Deliver
  <2>6. ms \in Seq(ToRelay) /\ page.ws \in Conns \cup {None}
    BY <1>0, CredentialsTyped DEF TypeOK, PageType
  <2> HIDE DEF m, k, o, ms
  <2>7. CASE conn' = Post([conn EXCEPT ![c] = o], page.ws, ms)
    <3>1. [conn EXCEPT ![c] = o] \in [Conns -> Kept]
          /\ ServedIn([conn EXCEPT ![c] = o]) = ServedIn(conn)
      BY <1>0, <2>3 DEF ServedIn
    <3>2. conn' \in [Conns -> Kept] /\ ServedIn(conn') = ServedIn(conn)
      BY <2>6, <2>7, <3>1, PostKept
    <3> QED
      BY <1>0, <2>4, <2>5, <3>2, SlotsAlone DEF TypeOK
  <2>8. CASE conn' = [conn EXCEPT ![c] = SockGone(@)]
    <3>1. conn' \in [Conns -> Kept] /\ ServedIn(conn') = ServedIn(conn)
      BY <1>0, <2>0, <2>8, SockGoneKept DEF ServedIn
    <3> QED
      BY <1>0, <2>4, <2>5, <3>1, SlotsAlone DEF TypeOK
  <2>9. CASE conn' = [conn EXCEPT ![c] = k]
    <3>1. conn' \in [Conns -> Kept] /\ ServedIn(conn') = ServedIn(conn)
      BY <1>0, <2>2, <2>9 DEF ServedIn
    <3> QED
      BY <1>0, <2>4, <2>5, <3>1, SlotsAlone DEF TypeOK
  <2> QED
    BY <2>5, <2>7, <2>8, <2>9
<1> QED
  BY <1>1, <1>2

-----------------------------------------------------------------------------
(* handleBrowser: the slot (ipLimiter.acquire and release).                *)

LEMMA ServedFinite == \A cs : IsFiniteSet(ServedIn(cs)) /\ Cardinality(ServedIn(cs)) \in Nat
<1> TAKE cs
<1>1. IsFiniteSet(ServedIn(cs))
  BY FS_Subset DEF ServedIn
<1> QED
  BY <1>1, FS_CardinalityType

(* A connection that is let in, and one whose handler ends.                *)
LEMMA OneMore ==
    ASSUME NEW cs, NEW ds, NEW c \in Conns, c \notin ServedIn(cs),
           ServedIn(ds) = ServedIn(cs) \cup {c}
    PROVE  Cardinality(ServedIn(ds)) = Cardinality(ServedIn(cs)) + 1
BY ServedFinite, FS_AddElement

LEMMA OneLess ==
    ASSUME NEW cs, NEW ds, NEW c \in Conns, c \in ServedIn(cs),
           ServedIn(ds) = ServedIn(cs) \ {c}
    PROVE  /\ Cardinality(ServedIn(ds)) = Cardinality(ServedIn(cs)) - 1
           /\ Cardinality(ServedIn(cs)) > 0
<1>1. ServedIn(cs) # {}
  OBVIOUS
<1> QED
  BY <1>1, ServedFinite, FS_RemoveElement, FS_EmptySet

LEMMA AcceptStep ==
    ASSUME JoinInv, NEW c \in Conns, Accept(c)
    PROVE  JoinInv'
<1> USE DEF hostVars, histVars
<1>0. TypeOK /\ conn \in [Conns -> Kept] /\ SlotsCounted
  BY DEF JoinInv
<1> DEFINE k == [conn[c] EXCEPT !.down = <<Say("open")>>]
<1>1. conn[c] \in Kept /\ conn[c] \in ConnType /\ conn[c].at = "dialed"
  BY <1>0, KeptTyped DEF Accept
<1>2. Say("open") \in ToPage /\ Say("refuse") \in ToPage /\ Say("password_required") \in ToPage
  BY <1>0, MessagesTyped DEF TypeOK
<1>3. <<Say("open")>> \in Seq(ToPage)
  BY <1>2
<1>4. k \in Kept /\ k.at = "dialed" /\ [conn EXCEPT ![c] = k] \in [Conns -> Kept]
  BY <1>0, <1>1, <1>3 DEF Kept, ConnType
<1>5. ASSUME NEW at \in {"over", "waiting", "locked"}
      PROVE  [k EXCEPT !.at = at] \in Kept /\ [k EXCEPT !.at = at].at = at
  BY <1>4 DEF Kept, ConnType
<1>6. page' = page /\ events' = events
      /\ UNCHANGED <<token, live, password, late, hostVars, histVars>>
  BY DEF Accept
<1>7. CASE Limited
  <2>1. slots' = slots
    BY <1>7 DEF Accept, Accepted
  <2>2. conn' = [conn EXCEPT ![c] = Shut([k EXCEPT !.at = "over"], Say("refuse"))]
    BY <1>0, <1>7 DEF Accept
  <2> HIDE DEF k
  <2>3. conn' \in [Conns -> Kept] /\ ServedIn(conn') = ServedIn(conn)
    BY <1>0, <1>1, <1>2, <1>5, <2>2, ShutKept DEF ServedIn
  <2> QED
    BY <1>0, <1>6, <2>1, <2>3, SlotsAlone DEF TypeOK
<1>8. CASE ~Limited
  <2>1. slots' = slots + 1 /\ slots' \in 0 .. MaxSlots
    BY <1>0, <1>8 DEF Accept, Accepted, Limited, TypeOK
  <2>2. \/ conn' = [conn EXCEPT ![c] = [k EXCEPT !.at = "waiting"]]
        \/ conn' = Put([conn EXCEPT ![c] = [k EXCEPT !.at = "locked"]], c, Say("password_required"))
    BY <1>0, <1>8 DEF Accept
  <2> HIDE DEF k
  <2>3. conn' \in [Conns -> Kept] /\ ServedIn(conn') = ServedIn(conn) \cup {c}
    <3>1. ASSUME NEW at \in {"waiting", "locked"}
          PROVE  /\ [conn EXCEPT ![c] = [k EXCEPT !.at = at]] \in [Conns -> Kept]
                 /\ ServedIn([conn EXCEPT ![c] = [k EXCEPT !.at = at]]) = ServedIn(conn) \cup {c}
      BY <1>0, <1>5 DEF ServedIn
    <3> DEFINE waiting == [conn EXCEPT ![c] = [k EXCEPT !.at = "waiting"]]
               locked == [conn EXCEPT ![c] = [k EXCEPT !.at = "locked"]]
    <3>2. /\ waiting \in [Conns -> Kept] /\ ServedIn(waiting) = ServedIn(conn) \cup {c}
          /\ locked \in [Conns -> Kept] /\ ServedIn(locked) = ServedIn(conn) \cup {c}
      BY <3>1
    <3>3. conn' = waiting \/ conn' = Put(locked, c, Say("password_required"))
      BY <2>2
    <3> HIDE DEF waiting, locked
    <3> QED
      BY <1>2, <3>2, <3>3, PutKept
  <2>4. c \notin ServedIn(conn)
    BY <1>1 DEF ServedIn
  <2>5. SlotsCounted'
    <3>1. Cardinality(ServedIn(conn')) = Cardinality(ServedIn(conn)) + 1
      BY <2>3, <2>4, OneMore
    <3> QED
      BY <1>0, <1>6, <2>1, <3>1 DEF SlotsCounted, ServedIn
  <2>6. TypeOK'
    BY <1>0, <1>6, <2>1, <2>3, KeptTyped DEF TypeOK
  <2> QED
    BY <2>3, <2>5, <2>6 DEF JoinInv
<1> QED
  BY <1>7, <1>8

(* A connection that is turned away makes the count drift, within bounds.  *)
LEMMA TurnAwayStep ==
    ASSUME JoinInv, NEW c \in Conns, TurnAway(c), events' \in 0 .. MaxEvents
    PROVE  JoinInv'
<1> USE DEF hostVars
<1>0. TypeOK /\ conn \in [Conns -> Kept]
  BY DEF JoinInv
<1>1. slots' \in 0 .. MaxSlots
  BY <1>0 DEF TurnAway, Limited, TypeOK
<1>2. [conn[c] EXCEPT !.at = "over"] \in Kept
  BY <1>0 DEF Kept, ConnType
<1>3. Say("close") \in ToPage
  BY <1>0, MessagesTyped DEF TypeOK
<1>4. conn' \in [Conns -> Kept]
  BY <1>0, <1>2, <1>3, ShutKept DEF TurnAway
<1>5. TypeOK'
  BY <1>0, <1>1, <1>4, KeptTyped DEF TurnAway, TypeOK
<1>6. SlotsCounted'
  BY DEF TurnAway, SlotsCounted
<1> QED
  BY <1>4, <1>5, <1>6 DEF JoinInv

(* The end of a handler (the deferred release and removeBrowser).          *)
LEMMA HandlerEndsStep ==
    ASSUME JoinInv, NEW c \in Conns, HandlerEnds(c)
    PROVE  JoinInv'
<1> USE DEF hostVars
<1>0. TypeOK /\ conn \in [Conns -> Kept] /\ SlotsCounted
  BY DEF JoinInv
<1> DEFINE ended == [conn EXCEPT ![c] = HandlerGone(@)]
<1>1. c \in ServedIn(conn)
  BY DEF HandlerEnds, ServedIn
<1>2. ended \in [Conns -> Kept] /\ ServedIn(ended) = ServedIn(conn) \ {c}
  BY <1>0, HandlerGoneKept DEF ServedIn
<1>3. Broadcast(ended)
  BY DEF HandlerEnds
<1> HIDE DEF ended
<1>4. /\ conn' \in [Conns -> Kept] /\ ServedIn(conn') = ServedIn(conn) \ {c}
      /\ late' \in Roles \cup {None, Nothing} /\ oldList' \in BOOLEAN
  BY <1>0, <1>2, <1>3, BroadcastKept DEF TypeOK
<1>5. slots' \in 0 .. MaxSlots
  BY <1>0 DEF HandlerEnds, Released, TypeOK
<1>6. TypeOK'
  BY <1>0, <1>4, <1>5, KeptTyped DEF HandlerEnds, TypeOK
<1>7. SlotsCounted'
  <2>1. /\ Cardinality(ServedIn(conn')) = Cardinality(ServedIn(conn)) - 1
        /\ Cardinality(ServedIn(conn)) > 0
    BY <1>1, <1>4, OneLess
  <2> QED
    BY <1>0, <2>1 DEF HandlerEnds, Released, SlotsCounted, ServedIn, TypeOK
<1> QED
  BY <1>4, <1>6, <1>7 DEF JoinInv

-----------------------------------------------------------------------------
(* handleBrowser: what is read (session_auth, identify, the main loop).    *)
LEMMA TakeStep ==
    ASSUME JoinInv, NEW c \in Conns, Take(c)
    PROVE  JoinInv'
<1>0. TypeOK /\ conn \in [Conns -> Kept] /\ conn[c] \in Kept
  BY DEF JoinInv
<1> DEFINE m == Head(conn[c].up)
           k == [conn[c] EXCEPT !.up = Tail(@)]
           rest == [conn EXCEPT ![c] = k]
<1>1. conn[c] \in ConnType /\ conn[c].up # <<>> /\ conn[c].tries + 1 \in 1 .. MaxAttempts
  BY <1>0 DEF Take, Kept, ConnType
<1>2. m \in ToRelay /\ Tail(conn[c].up) \in Seq(ToRelay)
  BY <1>1 DEF ConnType
<1>3. k \in ConnType /\ k.at = conn[c].at /\ k.tries = conn[c].tries
  BY <1>0, <1>1, <1>2 DEF Kept, ConnType
<1>4. k \in Kept
  BY <1>0, <1>1, <1>3 DEF Kept, ConnType
<1>5. rest \in [Conns -> Kept] /\ ServedIn(rest) = ServedIn(conn)
  BY <1>0, <1>3, <1>4 DEF ServedIn
<1>6. /\ \/ conn[c].at = "locked" /\ ReadLocked(c, m, rest)
         \/ conn[c].at = "waiting" /\ ReadWaiting(c, m, rest)
         \/ conn[c].at = "in" /\ ReadIn(m, rest)
      /\ UNCHANGED <<token, live, password, slots, host, page, doubled, deadEnd, drifted, events>>
  BY DEF Take
<1>7. ASSUME NEW at \in {"waiting", "in"}, NEW role \in Roles \cup {None}
      PROVE  /\ [k EXCEPT !.at = at] \in Kept /\ [k EXCEPT !.at = at].at = at
             /\ [k EXCEPT !.at = at, !.role = role] \in Kept
             /\ [k EXCEPT !.at = at, !.role = role].at = at
  BY <1>4 DEF Kept, ConnType
<1> HIDE DEF m
<1>8. CASE conn[c].at = "locked" /\ ReadLocked(c, m, rest)
  <2>1. UNCHANGED <<late, oldList, toasts, unheard>>
    BY <1>8 DEF ReadLocked
  <2>2. \/ conn' = rest
        \/ conn' = [conn EXCEPT ![c] = [k EXCEPT !.at = "waiting"]]
        \/ conn' = [conn EXCEPT ![c] = Tried(k)]
    BY <1>0, <1>8 DEF ReadLocked
  <2>3. Tried(k) \in Kept /\ Tried(k).at = conn[c].at
    <3> DEFINE wrong == [k EXCEPT !.down = Append(@, Say("wrong"))]
               many == [k EXCEPT !.down = Append(@, Say("many"))]
               shut == Shut(many, Say("close"))
    <3>1. Say("wrong") \in ToPage /\ Say("many") \in ToPage /\ Say("close") \in ToPage
      BY <1>0, MessagesTyped DEF TypeOK
    <3>2. wrong \in Kept /\ wrong.at = conn[c].at /\ wrong.tries = k.tries
      BY <1>3, <1>4, <3>1, AppendDown DEF Kept, ConnType
    <3>3. many \in Kept /\ many.at = conn[c].at /\ many.tries = k.tries
      BY <1>3, <1>4, <3>1, AppendDown DEF Kept, ConnType
    <3>4. /\ shut \in Kept /\ shut.at = conn[c].at
          /\ shut.tries = k.tries /\ shut.cut = TRUE /\ shut.up = <<>>
      <4> HIDE DEF many
      <4>1. shut \in Kept /\ shut.at = conn[c].at
        BY <3>1, <3>3, ShutKept
      <4> QED
        BY <3>3, <4>1 DEF Shut, Kept, ConnType
    <3> HIDE DEF wrong, many, shut
    <3>5. [wrong EXCEPT !.tries = @ + 1].at = conn[c].at
          /\ [shut EXCEPT !.tries = @ + 1].at = conn[c].at
      BY <3>2, <3>4 DEF Kept, ConnType
    <3> DEFINE counted == [wrong EXCEPT !.tries = @ + 1]
               ended == [shut EXCEPT !.tries = @ + 1]
    <3>0. k.tries + 1 \in 0 .. MaxAttempts
      BY <1>1, <1>3
    <3>6. k.tries + 1 < MaxAttempts => counted \in Kept
      <4>1. wrong \in ConnType /\ wrong.tries + 1 \in 0 .. MaxAttempts
        BY <3>0, <3>2, KeptTyped
      <4>2. counted \in ConnType /\ counted.tries = k.tries + 1
        BY <3>2, <4>1 DEF ConnType
      <4> HIDE DEF counted
      <4> QED
        BY <3>0, <4>2 DEF Kept
    <3>7. ended \in Kept
      <4>1. shut \in ConnType /\ shut.tries + 1 \in 0 .. MaxAttempts
        BY <3>0, <3>4, KeptTyped
      <4>2. ended \in ConnType /\ ended.cut = TRUE /\ ended.up = <<>>
        BY <3>4, <4>1 DEF ConnType
      <4> HIDE DEF ended
      <4> QED
        BY <4>2 DEF Kept
    <3>8. Tried(k) = IF k.tries + 1 < MaxAttempts THEN [wrong EXCEPT !.tries = @ + 1]
                     ELSE [shut EXCEPT !.tries = @ + 1]
      BY <1>3, <1>4 DEF Tried, wrong, many, shut, Kept, ConnType
    <3> QED
      BY <3>5, <3>6, <3>7, <3>8
  <2> HIDE DEF k
  <2>4. conn' \in [Conns -> Kept] /\ ServedIn(conn') = ServedIn(conn)
    <3> DEFINE waiting == [k EXCEPT !.at = "waiting"]
    <3>1. waiting \in Kept /\ waiting.at = "waiting"
      BY <1>7
    <3>2. \/ conn' = rest
          \/ conn' = [conn EXCEPT ![c] = waiting]
          \/ conn' = [conn EXCEPT ![c] = Tried(k)]
      BY <2>2
    <3> HIDE DEF waiting, rest
    <3>3. CASE conn' = rest
      BY <1>5, <3>3
    <3>4. CASE conn' = [conn EXCEPT ![c] = waiting]
      BY <1>0, <1>8, <3>1, <3>4 DEF ServedIn
    <3>5. CASE conn' = [conn EXCEPT ![c] = Tried(k)]
      BY <1>0, <1>8, <2>3, <3>5 DEF ServedIn
    <3> QED
      BY <3>2, <3>3, <3>4, <3>5
  <2> QED
    BY <1>0, <1>6, <2>1, <2>4, SlotsAlone DEF TypeOK
<1>9. CASE conn[c].at = "waiting" /\ ReadWaiting(c, m, rest)
  <2> DEFINE entered == [conn EXCEPT ![c] = [k EXCEPT !.at = "in", !.role = RoleFor(m)]]
  <2>1. UNCHANGED <<toasts, unheard>>
    BY <1>9 DEF ReadWaiting
  <2>2. Broadcast(entered) \/ (conn' = rest /\ UNCHANGED <<late, oldList>>)
    BY <1>0, <1>9 DEF ReadWaiting
  <2>3. RoleFor(m) \in Roles \cup {None}
    BY DEF RoleFor
  <2>4. entered \in [Conns -> Kept] /\ ServedIn(entered) = ServedIn(conn)
    BY <1>0, <1>7, <1>9, <2>3 DEF ServedIn
  <2> HIDE DEF entered, rest
  <2>5. /\ conn' \in [Conns -> Kept] /\ ServedIn(conn') = ServedIn(conn)
        /\ late' \in Roles \cup {None, Nothing} /\ oldList' \in BOOLEAN
    BY <1>0, <1>5, <2>2, <2>4, BroadcastKept DEF TypeOK
  <2> QED
    BY <1>0, <1>6, <2>1, <2>5, SlotsAlone DEF TypeOK
<1>10. CASE conn[c].at = "in" /\ ReadIn(m, rest)
  <2>1. conn' = rest /\ UNCHANGED <<late, oldList>> /\ unheard' \in BOOLEAN /\ toasts' \in Nat
    BY <1>0, <1>10 DEF ReadIn, TypeOK
  <2> QED
    BY <1>0, <1>5, <1>6, <2>1, SlotsAlone DEF TypeOK
<1> QED
  BY <1>6, <1>8, <1>9, <1>10

-----------------------------------------------------------------------------
(* Lists, roles and answers.                                               *)
LEMMA GiveRoleKept ==
    ASSUME JoinInv, NEW role \in Roles, GiveRole(role)
    PROVE  /\ conn' \in [Conns -> Kept] /\ ServedIn(conn') = ServedIn(conn)
           /\ late' \in Roles \cup {None, Nothing} /\ oldList' \in BOOLEAN
<1>0. TypeOK /\ conn \in [Conns -> Kept]
  BY DEF JoinInv
<1>1. ASSUME Broadcast(conn)
      PROVE  /\ conn' \in [Conns -> Kept] /\ ServedIn(conn') = ServedIn(conn)
             /\ late' \in Roles \cup {None, Nothing} /\ oldList' \in BOOLEAN
  BY <1>0, <1>1, BroadcastKept DEF TypeOK
<1>2. ASSUME NEW c \in Conns, Broadcast([conn EXCEPT ![c].role = role])
      PROVE  /\ conn' \in [Conns -> Kept] /\ ServedIn(conn') = ServedIn(conn)
             /\ late' \in Roles \cup {None, Nothing} /\ oldList' \in BOOLEAN
  <2> DEFINE k == [conn[c] EXCEPT !.role = role]
             given == [conn EXCEPT ![c] = k]
  <2>1. k \in Kept /\ k.at = conn[c].at
    BY <1>0 DEF Kept, ConnType
  <2>2. Broadcast(given)
    BY <1>2
  <2> HIDE DEF k
  <2>3. given \in [Conns -> Kept] /\ ServedIn(given) = ServedIn(conn)
    BY <1>0, <2>1 DEF ServedIn
  <2> HIDE DEF given
  <2> QED
    BY <1>0, <2>2, <2>3, BroadcastKept DEF TypeOK
<1> QED
  BY <1>1, <1>2 DEF GiveRole, Within

LEMMA SendLateStep ==
    ASSUME JoinInv, SendLate
    PROVE  JoinInv'
<1>0. TypeOK /\ conn \in [Conns -> Kept]
  BY DEF JoinInv
<1>1. List(late) \in ToPage
  BY <1>0, ListTyped DEF SendLate, TypeOK
<1>2. conn' \in [Conns -> Kept] /\ ServedIn(conn') = ServedIn(conn)
  BY <1>0, <1>1, PutAllKept DEF SendLate
<1> QED
  BY <1>0, <1>2, SlotsAlone DEF SendLate, hostVars, TypeOK

LEMMA HostStep ==
    ASSUME JoinInv,
           (\E role \in {"editor", "commenter"} : SetRole(role)) \/ Answer \/ HostComesOrGoes
    PROVE  JoinInv'
<1> USE DEF hostVars
<1>0. TypeOK /\ conn \in [Conns -> Kept]
  BY DEF JoinInv
<1>1. ASSUME NEW role \in {"editor", "commenter"}, SetRole(role) PROVE JoinInv'
  <2>1. GiveRole(role)
    BY <1>1 DEF SetRole
  <2> QED
    BY <1>0, <1>1, <2>1, GiveRoleKept, EventTyped, SlotsAlone DEF SetRole, TypeOK
<1>2. CASE Answer
  <2>1. toasts' \in Nat
    BY <1>0, <1>2 DEF Answer, TypeOK
  <2>2. CASE GiveRole("editor") /\ UNCHANGED unheard
    BY <1>0, <1>2, <2>1, <2>2, GiveRoleKept, SlotsAlone DEF Answer, TypeOK
  <2>3. CASE conn' = PutAll(conn, Say("denied")) /\ UNCHANGED <<late, oldList, unheard>>
    <3>1. Say("denied") \in ToPage
      BY <1>0, MessagesTyped DEF TypeOK
    <3>2. conn' \in [Conns -> Kept] /\ ServedIn(conn') = ServedIn(conn)
      BY <1>0, <2>3, <3>1, PutAllKept
    <3> QED
      BY <1>0, <1>2, <2>1, <2>3, <3>2, SlotsAlone DEF Answer, TypeOK
  <2>4. CASE unheard' = TRUE /\ UNCHANGED <<conn, late, oldList>>
    BY <1>0, <1>2, <2>1, <2>4, SlotsAlone DEF Answer, TypeOK
  <2> QED
    BY <1>2, <2>2, <2>3, <2>4 DEF Answer
<1>3. CASE HostComesOrGoes
  <2>0. host' = ~host
    BY <1>3 DEF HostComesOrGoes
  <2>1. Broadcast(conn) /\ host' \in BOOLEAN /\ toasts' \in Nat /\ unheard' \in BOOLEAN
    <3>1. host' \in BOOLEAN
      BY <2>0
    <3>2. Broadcast(conn) /\ ((toasts' = toasts /\ unheard' = unheard)
                             \/ (toasts' = 0 /\ unheard' = TRUE))
      BY <1>3 DEF HostComesOrGoes
    <3>3. toasts' \in Nat
      <4>1. toasts' = toasts \/ toasts' = 0
        BY <3>2
      <4> QED
        BY <1>0, <4>1 DEF TypeOK
    <3>4. unheard' \in BOOLEAN
      <4>1. unheard' = unheard \/ unheard' = TRUE
        BY <3>2
      <4> QED
        BY <1>0, <4>1, Zenon DEF TypeOK
    <3> QED
      BY <3>1, <3>2, <3>3, <3>4
  <2>2. /\ conn' \in [Conns -> Kept] /\ ServedIn(conn') = ServedIn(conn)
        /\ late' \in Roles \cup {None, Nothing} /\ oldList' \in BOOLEAN
    BY <1>0, <2>1, BroadcastKept DEF TypeOK
  <2> QED
    BY <1>0, <1>3, <2>1, <2>2, EventTyped, SlotsAlone DEF HostComesOrGoes, TypeOK
<1> QED
  BY <1>1, <1>2, <1>3

-----------------------------------------------------------------------------
(* The network, the daemon and the relay's process.                        *)
LEMMA FaultStep ==
    ASSUME JoinInv,
           \/ \E c \in Conns : Cut(c)
           \/ \E p \in Passwords \cup {None} : PasswordChanges(p)
           \/ SessionExpires \/ SessionResumes
    PROVE  JoinInv'
<1> USE DEF relayVars, hostVars, histVars
<1>0. TypeOK /\ conn \in [Conns -> Kept]
  BY DEF JoinInv
<1>1. Say("close") \in ToPage
  BY <1>0, MessagesTyped DEF TypeOK
<1>2. ASSUME NEW c \in Conns, Cut(c) PROVE JoinInv'
  <2> DEFINE k == [conn[c] EXCEPT !.down = <<>>]
  <2>1. k \in Kept /\ k.at = conn[c].at
    BY <1>0, NothingSent DEF Kept, ConnType
  <2>2. conn' = [conn EXCEPT ![c] = Shut(k, Say("close"))]
    BY <1>0, <1>2 DEF Cut
  <2> HIDE DEF k
  <2>3. conn' \in [Conns -> Kept] /\ ServedIn(conn') = ServedIn(conn)
    BY <1>0, <1>1, <2>1, <2>2, ShutKept DEF ServedIn
  <2> QED
    BY <1>0, <1>2, <2>3, EventTyped, SlotsAlone DEF Cut, TypeOK
<1>3. ASSUME NEW p \in Passwords \cup {None}, PasswordChanges(p) PROVE JoinInv'
  BY <1>0, <1>3, EventTyped, SlotsAlone DEF PasswordChanges, TypeOK
<1>4. CASE SessionExpires
  <2>1. conn' = [c \in Conns |-> IF conn[c].at \in Served /\ ~conn[c].cut
                                 THEN Shut(conn[c], Say("close")) ELSE conn[c]]
    BY <1>4 DEF SessionExpires
  <2>2. conn' \in [Conns -> Kept] /\ ServedIn(conn') = ServedIn(conn)
    BY <1>0, <1>1, <2>1, ShutKept DEF ServedIn
  <2>3. live' \in BOOLEAN /\ events' \in 0 .. MaxEvents
    BY <1>0, <1>4, EventTyped DEF SessionExpires, TypeOK
  <2> QED
    BY <1>0, <1>4, <2>2, <2>3, SlotsAlone DEF SessionExpires, TypeOK
<1>5. CASE SessionResumes
  BY <1>0, <1>5, EventTyped, SlotsAlone DEF SessionResumes, TypeOK
<1> QED
  BY <1>2, <1>3, <1>4, <1>5

(* A new process counts from zero, and has no handlers.                    *)
LEMMA RestartStep ==
    ASSUME JoinInv, RelayRestarts
    PROVE  JoinInv'
<1> USE DEF hostVars
<1>0. TypeOK /\ conn \in [Conns -> Kept]
  BY DEF JoinInv
<1>1. Say("close") \in ToPage
  BY <1>0, MessagesTyped DEF TypeOK
<1>2. ASSUME NEW c \in Conns
      PROVE  conn'[c] \in Kept /\ conn'[c].at \notin Served
  <2>1. CASE conn[c].at = "over"
    BY <1>0, <2>1 DEF RelayRestarts
  <2>2. CASE conn[c].at # "over"
    <3> DEFINE k == IF conn[c].cut THEN conn[c] ELSE Shut(conn[c], Say("close"))
    <3>1. k \in Kept
      BY <1>0, <1>1, ShutKept
    <3>2. conn'[c] = HandlerGone(k)
      BY <2>2 DEF RelayRestarts
    <3> HIDE DEF k
    <3> QED
      BY <3>1, <3>2, HandlerGoneKept
  <2> QED
    BY <2>1, <2>2
<1>3. conn' \in [Conns -> Kept] /\ ServedIn(conn') = {}
  <2>1. conn' = [c \in Conns |-> conn'[c]]
    BY DEF RelayRestarts
  <2>2. conn' \in [Conns -> Kept]
    BY <1>2, <2>1
  <2> QED
    BY <1>2, <2>2 DEF ServedIn
<1>4. Cardinality(ServedIn(conn')) = 0
  BY <1>3, FS_EmptySet
<1>5. SlotsCounted'
  BY <1>4 DEF RelayRestarts, SlotsCounted, ServedIn
<1>6. TypeOK'
  <2>1. /\ live' \in BOOLEAN /\ slots' \in 0 .. MaxSlots /\ drifted' \in BOOLEAN
        /\ late' \in Roles \cup {None, Nothing}
    <3>1. slots' = 0 /\ late' = Nothing
      BY DEF RelayRestarts
    <3>2. live' = FALSE /\ drifted' = FALSE
      BY Zenon DEF RelayRestarts
    <3>3. live' \in BOOLEAN /\ drifted' \in BOOLEAN
      BY <3>2, Zenon
    <3> QED
      BY <3>1, <3>3
  <2>2. events' \in 0 .. MaxEvents
    BY <1>0, EventTyped DEF RelayRestarts, TypeOK
  <2>3. conn' \in [Conns -> ConnType]
    BY <1>3, KeptTyped
  <2>4. UNCHANGED <<token, password, host, toasts, unheard, page, oldList, doubled, deadEnd>>
    BY DEF RelayRestarts
  <2> QED
    BY <1>0, <2>1, <2>2, <2>3, <2>4 DEF TypeOK
<1> QED
  BY <1>3, <1>5, <1>6 DEF JoinInv

-----------------------------------------------------------------------------
LEMMA InitJoin == Init => JoinInv
<1> SUFFICES ASSUME Init PROVE JoinInv
  OBVIOUS
<1>1. conn \in [Conns -> Kept] /\ ServedIn(conn) = {}
  BY IdleKept DEF Init, ServedIn
<1>2. Cardinality(ServedIn(conn)) = 0
  BY <1>1, FS_EmptySet
<1>3. SlotsCounted
  BY <1>2 DEF Init, SlotsCounted, ServedIn
<1>4. page \in PageType
  <2>1. 0 \in 0 .. MaxReconnects + 1
    OBVIOUS
  <2> QED
    BY <2>1 DEF Init, PageType
<1>5. TypeOK
  <2>1. 0 \in 0 .. MaxSlots /\ 0 \in 0 .. MaxEvents
    OBVIOUS
  <2> QED
    BY <1>1, <1>4, <2>1, KeptTyped DEF Init, TypeOK
<1> QED
  BY <1>1, <1>3, <1>5 DEF JoinInv

LEMMA JoinStep == JoinInv /\ [Next]_vars => JoinInv'
<1> SUFFICES ASSUME JoinInv, [Next]_vars PROVE JoinInv'
  OBVIOUS
<1>1. CASE System
  BY <1>1, PageStep, AcceptStep, TakeStep, HandlerEndsStep, SendLateStep, TurnAwayStep, EventTyped
     DEF System, NotFound, JoinInv, TypeOK
<1>2. CASE RightPassword
  BY <1>2, FormsStep
<1>3. CASE Users
  BY <1>3, FormsStep, HostStep DEF Users
<1>4. CASE Faults
  <2>1. ASSUME NEW c \in Conns, HandshakeFails(c) PROVE JoinInv'
    BY <2>1, TurnAwayStep, EventTyped DEF HandshakeFails, JoinInv, TypeOK
  <2> QED
    BY <1>4, <2>1, FaultStep, RestartStep DEF Faults
<1>5. CASE UNCHANGED vars
  <2>1. TypeOK'
    BY <1>5 DEF JoinInv, TypeOK, vars, relayVars, hostVars, histVars
  <2>2. SlotsCounted' /\ conn' \in [Conns -> Kept]
    BY <1>5 DEF JoinInv, SlotsCounted, vars, relayVars, hostVars, histVars
  <2> QED
    BY <2>1, <2>2 DEF JoinInv
<1> QED
  BY <1>1, <1>2, <1>3, <1>4, <1>5 DEF Next

(* Every variable keeps its type, whoever joins, leaves or loses what.     *)
THEOREM TypeCorrect == Spec => []TypeOK
<1>1. JoinInv => TypeOK
  BY DEF JoinInv
<1> QED
  BY <1>1, InitJoin, JoinStep, PTL DEF Spec

(* The limiter counts the connections that handleBrowser serves, in every  *)
(* interleaving of handlers that start and end, until one is turned away   *)
(* before its handler is deferred to give the slot back.                   *)
THEOREM SlotsAlwaysCounted == Spec => []SlotsCounted
<1>1. JoinInv => SlotsCounted
  BY DEF JoinInv
<1> QED
  BY <1>1, InitJoin, JoinStep, PTL DEF Spec

-----------------------------------------------------------------------------
(* What is told to a page, and what it is left with.                       *)

Has(s, type) == \E i \in DOMAIN s : s[i].type = type
AuthThenIdentify(s) ==
    \A i \in DOMAIN s : s[i].type = "session_auth"
                        => \E j \in DOMAIN s : i < j /\ s[j].type = "identify"

(* A connection that is not cut has both ends, and its page hears first    *)
(* that it is open; each password that is on its way is followed by an     *)
(* identify; nothing is read from one that is cut.                         *)
Shape(k) ==
    /\ AuthThenIdentify(k.up)
    /\ k.at = "in" => k.role \in Roles
    /\ k.cut => k.at # "dialed" /\ k.up = <<>>
    /\ ~k.cut => /\ k.at # "over" /\ k.sock # "closed"
                 /\ ~Has(k.down, "close") /\ ~Has(k.down, "refuse")
    /\ ~k.cut /\ k.sock = "open" => k.at # "dialed" /\ ~Has(k.down, "open")
    /\ ~k.cut /\ k.sock = "connecting"
       => /\ k.up = <<>> /\ k.at # "in"
          /\ k.at = "dialed" => k.down = <<>>
          /\ k.at = "waiting" => k.down = <<Say("open")>>
          /\ k.at = "locked" => k.down = <<Say("open")>> \o <<Say("password_required")>>
Sound == {k \in ConnType : Shape(k)}

(* A page that shows the IDE is not left waiting by a relay that waits for *)
(* it: what the relay waits for is on its way, or what will show the       *)
(* prompt is.                                                              *)
Greeted(k) ==
    ~k.cut /\ k.sock = "open"
    => /\ k.at = "waiting" => Has(k.up, "identify")
       /\ k.at = "locked" /\ page.ide
          => \/ Has(k.up, "session_auth") \/ Has(k.down, "wrong")
             \/ Has(k.down, "password_required") /\ page.pwd = None /\ token = "none"

-----------------------------------------------------------------------------
(* Queues.                                                                 *)

LEMMA HasAppend ==
    ASSUME NEW S, NEW s \in Seq(S), NEW m \in S, NEW type
    PROVE  Has(Append(s, m), type) <=> Has(s, type) \/ m.type = type
<1> DEFINE t == Append(s, m)
<1>1. /\ t \in Seq(S) /\ Len(t) = Len(s) + 1 /\ t[Len(s) + 1] = m
      /\ \A i \in 1 .. Len(s) : t[i] = s[i]
      /\ DOMAIN t = 1 .. Len(s) + 1 /\ DOMAIN s = 1 .. Len(s) /\ Len(s) \in Nat
  OBVIOUS
<1> HIDE DEF t
<1>2. \A i \in DOMAIN t : i \in DOMAIN s \/ i = Len(s) + 1
  BY <1>1
<1>3. Len(s) + 1 \in DOMAIN t /\ \A i \in DOMAIN s : i \in DOMAIN t
  BY <1>1
<1> QED
  BY <1>1, <1>2, <1>3 DEF Has, t

LEMMA HasTail ==
    ASSUME NEW S, NEW s \in Seq(S), s # <<>>, NEW type
    PROVE  Has(s, type) <=> Head(s).type = type \/ Has(Tail(s), type)
<1> DEFINE t == Tail(s)
<1>1. /\ t \in Seq(S) /\ Len(t) = Len(s) - 1 /\ Len(s) \in Nat \ {0}
      /\ \A i \in 1 .. Len(t) : t[i] = s[i + 1]
      /\ Head(s) = s[1] /\ DOMAIN t = 1 .. Len(t) /\ DOMAIN s = 1 .. Len(s)
  OBVIOUS
<1> HIDE DEF t
<1>2. \A i \in DOMAIN s : i = 1 \/ (i - 1 \in DOMAIN t /\ t[i - 1] = s[i])
  BY <1>1
<1>3. \A i \in DOMAIN t : i + 1 \in DOMAIN s /\ t[i] = s[i + 1]
  BY <1>1
<1>4. 1 \in DOMAIN s /\ Head(s) = s[1]
  BY <1>1
<1>5. Has(s, type) => Head(s).type = type \/ Has(t, type)
  BY <1>2, <1>4 DEF Has
<1>6. Head(s).type = type \/ Has(t, type) => Has(s, type)
  BY <1>3, <1>4 DEF Has
<1> QED
  BY <1>5, <1>6 DEF t

LEMMA HasConcat ==
    ASSUME NEW S, NEW s \in Seq(S), NEW u \in Seq(S), NEW type
    PROVE  Has(s \o u, type) <=> Has(s, type) \/ Has(u, type)
<1> DEFINE t == s \o u
<1>1. /\ t \in Seq(S) /\ Len(t) = Len(s) + Len(u) /\ Len(s) \in Nat /\ Len(u) \in Nat
      /\ \A i \in 1 .. Len(s) : t[i] = s[i]
      /\ \A i \in 1 .. Len(u) : t[i + Len(s)] = u[i]
      /\ DOMAIN t = 1 .. Len(t) /\ DOMAIN s = 1 .. Len(s) /\ DOMAIN u = 1 .. Len(u)
  OBVIOUS
<1> HIDE DEF t
<1>2. \A i \in DOMAIN t : i \in DOMAIN s \/ (i - Len(s) \in DOMAIN u /\ t[i] = u[i - Len(s)])
  BY <1>1
<1>3. /\ \A i \in DOMAIN s : i \in DOMAIN t /\ t[i] = s[i]
      /\ \A i \in DOMAIN u : i + Len(s) \in DOMAIN t /\ t[i + Len(s)] = u[i]
  BY <1>1
<1> QED
  BY <1>2, <1>3 DEF Has, t

LEMMA HasNone == \A type : ~Has(<<>>, type)
BY DEF Has

LEMMA HasOne == ASSUME NEW m, NEW type PROVE Has(<<m>>, type) <=> m.type = type
BY DEF Has

LEMMA AuthTail ==
    ASSUME NEW S, NEW s \in Seq(S), s # <<>>, AuthThenIdentify(s)
    PROVE  /\ AuthThenIdentify(Tail(s))
           /\ Head(s).type = "session_auth" => Has(Tail(s), "identify")
<1> DEFINE t == Tail(s)
<1>1. /\ t \in Seq(S) /\ Len(t) = Len(s) - 1 /\ Len(s) \in Nat \ {0}
      /\ \A i \in 1 .. Len(t) : t[i] = s[i + 1]
      /\ Head(s) = s[1] /\ DOMAIN t = 1 .. Len(t) /\ DOMAIN s = 1 .. Len(s)
  OBVIOUS
<1> HIDE DEF t
<1>2. \A i \in DOMAIN s : i # 1 => i - 1 \in DOMAIN t /\ t[i - 1] = s[i]
  BY <1>1
<1>3. ASSUME NEW i \in DOMAIN t, t[i].type = "session_auth"
      PROVE  \E j \in DOMAIN t : i < j /\ t[j].type = "identify"
  <2>1. i + 1 \in DOMAIN s /\ s[i + 1].type = "session_auth"
    BY <1>1, <1>3
  <2>2. PICK j \in DOMAIN s : i + 1 < j /\ s[j].type = "identify"
    BY <2>1 DEF AuthThenIdentify
  <2>3. j - 1 \in DOMAIN t /\ t[j - 1] = s[j] /\ i < j - 1
    BY <1>1, <1>2, <2>2
  <2> QED
    BY <2>2, <2>3
<1>4. ASSUME Head(s).type = "session_auth" PROVE Has(t, "identify")
  <2>1. 1 \in DOMAIN s /\ s[1].type = "session_auth"
    BY <1>1, <1>4
  <2>2. PICK j \in DOMAIN s : 1 < j /\ s[j].type = "identify"
    BY <2>1 DEF AuthThenIdentify
  <2>3. j - 1 \in DOMAIN t /\ t[j - 1] = s[j]
    BY <1>1, <1>2, <2>2
  <2> QED
    BY <2>2, <2>3 DEF Has
<1> QED
  BY <1>3, <1>4 DEF AuthThenIdentify, t

LEMMA AuthConcat ==
    ASSUME NEW S, NEW s \in Seq(S), NEW u \in Seq(S), AuthThenIdentify(s), AuthThenIdentify(u)
    PROVE  AuthThenIdentify(s \o u)
<1> DEFINE t == s \o u
<1>1. /\ t \in Seq(S) /\ Len(t) = Len(s) + Len(u) /\ Len(s) \in Nat /\ Len(u) \in Nat
      /\ \A i \in 1 .. Len(s) : t[i] = s[i]
      /\ \A i \in 1 .. Len(u) : t[i + Len(s)] = u[i]
      /\ DOMAIN t = 1 .. Len(t) /\ DOMAIN s = 1 .. Len(s) /\ DOMAIN u = 1 .. Len(u)
  OBVIOUS
<1> HIDE DEF t
<1>2. \A i \in DOMAIN t : i \in DOMAIN s \/ (i - Len(s) \in DOMAIN u /\ t[i] = u[i - Len(s)])
  BY <1>1
<1>3. /\ \A i \in DOMAIN s : i \in DOMAIN t /\ t[i] = s[i]
      /\ \A i \in DOMAIN u : i + Len(s) \in DOMAIN t /\ t[i + Len(s)] = u[i]
  BY <1>1
<1>4. ASSUME NEW i \in DOMAIN t, t[i].type = "session_auth"
      PROVE  \E j \in DOMAIN t : i < j /\ t[j].type = "identify"
  <2>1. CASE i \in DOMAIN s
    BY <1>3, <1>4, <2>1 DEF AuthThenIdentify
  <2>2. CASE i - Len(s) \in DOMAIN u /\ t[i] = u[i - Len(s)]
    <3>1. PICK j \in DOMAIN u : i - Len(s) < j /\ u[j].type = "identify"
      BY <1>4, <2>2 DEF AuthThenIdentify
    <3>2. j + Len(s) \in DOMAIN t /\ t[j + Len(s)].type = "identify" /\ i < j + Len(s)
      BY <1>1, <1>3, <3>1
    <3> QED
      BY <3>2
  <2> QED
    BY <1>2, <2>1, <2>2
<1> QED
  BY <1>4 DEF AuthThenIdentify, t

LEMMA AuthNone == AuthThenIdentify(<<>>)
BY DEF AuthThenIdentify

(* What the page sends: an identify comes after each password.             *)
LEMMA SentShape ==
    ASSUME token \in Tokens
    PROVE  /\ \A p \in Passwords : /\ AuthThenIdentify(AnswerPrompt(p))
                                   /\ Has(AnswerPrompt(p), "session_auth")
                                   /\ Has(AnswerPrompt(p), "identify")
           /\ AuthThenIdentify(<<Request>>) /\ Has(<<Request>>, "request_role")
           /\ \A pg \in PageType :
                 LET ms == Append(Credentials(pg), Identify)
                 IN  /\ AuthThenIdentify(ms) /\ Has(ms, "identify")
                     /\ pg.pwd # None \/ token # "none" => Has(ms, "session_auth")
<1>1. /\ \A p, t : Auth(p, t).type = "session_auth"
      /\ Identify.type = "identify" /\ Request.type = "request_role"
  BY DEF Auth, Identify, Request
<1>2. ASSUME NEW s, DOMAIN s = 1 .. 2, s[1].type = "session_auth", s[2].type = "identify"
      PROVE  AuthThenIdentify(s) /\ Has(s, "session_auth") /\ Has(s, "identify")
  <2>1. Has(s, "session_auth") /\ Has(s, "identify")
    BY <1>2 DEF Has
  <2>2. AuthThenIdentify(s)
    BY <1>2 DEF AuthThenIdentify
  <2> QED
    BY <2>1, <2>2
<1>3. \A m : m.type # "session_auth" => AuthThenIdentify(<<m>>)
  BY DEF AuthThenIdentify
<1>4. ASSUME NEW p \in Passwords
      PROVE  LET s == AnswerPrompt(p)
             IN  AuthThenIdentify(s) /\ Has(s, "session_auth") /\ Has(s, "identify")
  <2> DEFINE s == AnswerPrompt(p)
  <2>1. DOMAIN s = 1 .. 2 /\ s[1] = Auth(p, "none") /\ s[2] = Identify
    BY DEF AnswerPrompt
  <2> HIDE DEF s
  <2>2. AuthThenIdentify(s) /\ Has(s, "session_auth") /\ Has(s, "identify")
    BY <1>1, <1>2, <2>1
  <2> QED
    BY <2>2 DEF s
<1>5. ASSUME NEW pg \in PageType
      PROVE  LET ms == Append(Credentials(pg), Identify)
             IN  /\ AuthThenIdentify(ms) /\ Has(ms, "identify")
                 /\ pg.pwd # None \/ token # "none" => Has(ms, "session_auth")
  <2>1. CASE pg.pwd # None \/ token # "none"
    <3> DEFINE a == Auth(pg.pwd, token)
               ms == Append(Credentials(pg), Identify)
    <3>1. ms = Append(<<a>>, Identify) /\ a \in ToRelay /\ Identify \in ToRelay
      BY <2>1, MessagesTyped DEF Credentials, PageType
    <3>2. a.type = "session_auth"
      BY <1>1
    <3> HIDE DEF a, ms
    <3>3. DOMAIN ms = 1 .. 2 /\ ms[1] = a /\ ms[2] = Identify
      BY <3>1
    <3>4. AuthThenIdentify(ms) /\ Has(ms, "identify") /\ Has(ms, "session_auth")
      BY <1>1, <1>2, <3>2, <3>3
    <3> QED
      BY <3>4 DEF ms
  <2>2. CASE ~(pg.pwd # None \/ token # "none")
    <3>1. Append(Credentials(pg), Identify) = <<Identify>>
      BY <2>2 DEF Credentials
    <3> QED
      BY <1>1, <1>3, <2>2, <3>1, HasOne
  <2> QED
    BY <2>1, <2>2
<1> QED
  BY <1>1, <1>2, <1>3, <1>4, <1>5, HasOne

-----------------------------------------------------------------------------
(* What a handler, the network or the host does to a connection.           *)

(* The page's end stays as it is, and what it waits for remains.           *)
Moves(k, n) ==
    /\ Shape(n) /\ n.sock = k.sock /\ (k.sock # "closed" => n.first = k.first)
    /\ Greeted(k) => Greeted(n)

LEMMA MovesAgain ==
    ASSUME NEW k, NEW n, NEW o, Moves(k, n), Moves(n, o)
    PROVE  Moves(k, o)
BY DEF Moves

LEMMA MovesNot == \A k \in Sound : Moves(k, k)
BY DEF Moves, Sound

LEMMA CutMoves ==
    ASSUME NEW k, NEW n \in ConnType, n.cut, n.up = <<>>, n.at # "dialed",
           n.at = "in" => n.role \in Roles,
           n.sock = k.sock, k.sock # "closed" => n.first = k.first
    PROVE  Moves(k, n) /\ n \in Sound
<1>1. n.cut = TRUE
  BY DEF ConnType
<1>2. Shape(n)
  BY <1>1, AuthNone DEF Shape
<1>3. Greeted(n)
  BY <1>1 DEF Greeted
<1> QED
  BY <1>2, <1>3 DEF Moves, Sound

LEMMA IdleSound == Idle \in Sound /\ Idle.sock = "closed"
<1>1. /\ Idle \in ConnType /\ Idle.cut /\ Idle.up = <<>> /\ Idle.at = "over"
      /\ Idle.sock = "closed"
  BY IdleKept DEF Idle
<1> QED
  BY <1>1, CutMoves

LEMMA SaidMoves ==
    ASSUME NEW k \in Sound, ~k.cut, k.sock = "open",
           NEW m \in ToPage, m.type \in {"list", "denied", "wrong"}
    PROVE  LET n == [k EXCEPT !.down = Append(@, m)]
           IN  /\ n \in Sound /\ Moves(k, n) /\ n.at = k.at /\ n.role = k.role /\ n.up = k.up
               /\ n.down = Append(k.down, m) /\ n.cut = k.cut
<1> DEFINE n == [k EXCEPT !.down = Append(@, m)]
<1>1. k \in ConnType /\ Shape(k) /\ k.down \in Seq(ToPage)
  BY DEF Sound, ConnType
<1>2. Append(k.down, m) \in Seq(ToPage)
  BY <1>1
<1>3. /\ n \in ConnType /\ n.down = Append(k.down, m)
      /\ n.at = k.at /\ n.role = k.role /\ n.up = k.up /\ n.cut = k.cut /\ n.sock = k.sock
      /\ n.first = k.first
  BY <1>1, <1>2 DEF ConnType
<1>4. \A type : Has(n.down, type) <=> Has(k.down, type) \/ m.type = type
  BY <1>1, <1>3, HasAppend
<1> HIDE DEF n
<1>5. Shape(n)
  BY <1>1, <1>3, <1>4 DEF Shape
<1>6. Greeted(k) => Greeted(n)
  BY <1>1, <1>3, <1>4 DEF Greeted
<1>7. Moves(k, n) /\ n \in Sound
  BY <1>3, <1>5, <1>6 DEF Moves, Sound
<1> QED
  BY <1>3, <1>7 DEF n

LEMMA GoneMoves ==
    ASSUME NEW j, NEW k \in ConnType, k.cut, k.sock = j.sock,
           j.sock # "closed" => k.first = j.first
    PROVE  Moves(j, HandlerGone(k)) /\ HandlerGone(k) \in Sound /\ HandlerGone(k).at = "over"
<1> DEFINE n == [k EXCEPT !.at = "over", !.up = <<>>, !.tries = 0, !.role = None]
<1>1. /\ n \in ConnType /\ n.at = "over" /\ n.up = <<>> /\ n.cut = k.cut /\ n.sock = k.sock
      /\ n.first = k.first
  BY NothingSent DEF ConnType
<1>2. CASE k.sock = "closed"
  <2>1. HandlerGone(k) = Idle
    BY <1>2 DEF HandlerGone
  <2>2. Idle.cut /\ Idle.up = <<>> /\ Idle.at = "over"
    BY DEF Idle
  <2> QED
    BY <1>2, <2>1, <2>2, IdleSound, CutMoves DEF Sound
<1>3. CASE k.sock # "closed"
  <2>1. HandlerGone(k) = n
    BY <1>3 DEF HandlerGone
  <2> HIDE DEF n
  <2> QED
    BY <1>1, <2>1, CutMoves
<1> QED
  BY <1>2, <1>3

LEMMA ShutMoves ==
    ASSUME NEW j, NEW k \in ConnType, k.at # "dialed", k.at = "in" => k.role \in Roles,
           k.sock = j.sock, j.sock # "closed" => k.first = j.first, NEW m \in ToPage
    PROVE  LET n == Shut(k, m)
           IN  Moves(j, n) /\ n \in Sound /\ n.cut /\ n.at = k.at /\ n.role = k.role
<1> DEFINE n == Shut(k, m)
<1>1. Append(k.down, m) \in Seq(ToPage)
  BY DEF ConnType
<1>2. /\ n \in ConnType /\ n.cut /\ n.up = <<>> /\ n.at = k.at /\ n.role = k.role
      /\ n.sock = k.sock /\ n.first = k.first
  BY <1>1, NothingSent DEF Shut, ConnType
<1> HIDE DEF n
<1>3. Moves(j, n) /\ n \in Sound
  BY <1>2, CutMoves
<1> QED
  BY <1>2, <1>3 DEF n

(* A connection that is open at both ends.                                 *)
LEMMA OpenSound ==
    ASSUME NEW n \in ConnType, ~n.cut, n.sock = "open", n.at \in Served,
           n.at = "in" => n.role \in Roles, AuthThenIdentify(n.up),
           ~Has(n.down, "open"), ~Has(n.down, "close"), ~Has(n.down, "refuse")
    PROVE  n \in Sound
BY DEF Sound, Shape

LEMMA SoundOpen ==
    ASSUME NEW k \in Sound, ~k.cut, k.sock = "open"
    PROVE  /\ k.at \in Served /\ AuthThenIdentify(k.up) /\ (k.at = "in" => k.role \in Roles)
           /\ ~Has(k.down, "open") /\ ~Has(k.down, "close") /\ ~Has(k.down, "refuse")
BY DEF Sound, Shape, ConnType

(* A list, or a denial, for everyone.                                      *)
LEMMA PutAllMoves ==
    ASSUME NEW cs \in [Conns -> Sound], NEW m \in ToPage, m.type \in {"list", "denied"}
    PROVE  /\ PutAll(cs, m) \in [Conns -> Sound]
           /\ \A c \in Conns : LET k == cs[c]
                                   n == PutAll(cs, m)[c]
                               IN  /\ Moves(k, n) /\ n.at = k.at /\ n.role = k.role
                                   /\ n.up = k.up /\ n.cut = k.cut
                                   /\ n.down = IF k.at = "in" /\ ~k.cut THEN Append(k.down, m)
                                               ELSE k.down
<1> DEFINE ds == PutAll(cs, m)
<1>1. ASSUME NEW c \in Conns
      PROVE  LET k == cs[c]
                 n == ds[c]
             IN  /\ Moves(k, n) /\ n.at = k.at /\ n.role = k.role /\ n \in Sound
                 /\ n.up = k.up /\ n.cut = k.cut
                 /\ n.down = IF k.at = "in" /\ ~k.cut THEN Append(k.down, m) ELSE k.down
  <2> DEFINE k == cs[c]
             n == [k EXCEPT !.down = Append(@, m)]
  <2>1. k \in Sound
    OBVIOUS
  <2>2. ds[c] = IF k.at = "in" /\ ~k.cut THEN n ELSE k
    BY DEF PutAll
  <2>3. CASE k.at = "in" /\ ~k.cut
    <3>1. k.sock = "open"
      BY <2>1, <2>3 DEF Sound, Shape, ConnType
    <3> HIDE DEF k
    <3>2. /\ n \in Sound /\ Moves(k, n) /\ n.at = k.at /\ n.role = k.role /\ n.up = k.up
          /\ n.down = Append(k.down, m) /\ n.cut = k.cut
      BY <2>1, <2>3, <3>1, SaidMoves
    <3> QED
      BY <2>2, <2>3, <3>2 DEF k
  <2>4. CASE ~(k.at = "in" /\ ~k.cut)
    BY <2>1, <2>2, <2>4, MovesNot
  <2> QED
    BY <2>3, <2>4
<1>2. ds = [c \in Conns |-> ds[c]]
  BY DEF PutAll
<1>3. ds \in [Conns -> Sound]
  BY <1>1, <1>2
<1> QED
  BY <1>1, <1>3

LEMMA ListIs == \A r : List(r).type = "list" /\ List(r).role = r
BY DEF List

(* A list of participants tells each page, or is late.                     *)
LEMMA BroadcastMoves ==
    ASSUME NEW cs \in [Conns -> Sound], Broadcast(cs)
    PROVE  /\ conn' \in [Conns -> Sound]
           /\ \A c \in Conns : Moves(cs[c], conn'[c])
<1>1. PICK r \in OwnRoles(cs) : conn' = PutAll(cs, List(r)) \/ conn' = cs
  BY DEF Broadcast
<1>3. r \in Roles \cup {None}
  <2>1. \A c \in Conns : cs[c].role \in Roles \cup {None}
    BY DEF Sound, ConnType
  <2> QED
    BY <2>1 DEF OwnRoles
<1>4. List(r) \in ToPage /\ List(r).type = "list"
  BY <1>3, ListTyped, ListIs
<1> QED
  BY <1>1, <1>4, PutAllMoves, MovesNot

-----------------------------------------------------------------------------
(* The same, step by step.                                                 *)

AllMove == conn' \in [Conns -> Sound] /\ \A c \in Conns : Moves(conn[c], conn'[c])

LEMMA OneMoves ==
    ASSUME conn \in [Conns -> Sound], NEW c \in Conns, NEW n \in Sound, Moves(conn[c], n)
    PROVE  LET cs == [conn EXCEPT ![c] = n]
           IN  cs \in [Conns -> Sound] /\ \A d \in Conns : Moves(conn[d], cs[d])
BY MovesNot

(* The step ends with a list for everyone.                                 *)
Listed == \E cs \in [Conns -> Sound] : Broadcast(cs)

LEMMA OneThenList ==
    ASSUME conn \in [Conns -> Sound], NEW c \in Conns, NEW n \in Sound, Moves(conn[c], n),
           Broadcast([conn EXCEPT ![c] = n])
    PROVE  AllMove /\ Listed
<1> DEFINE cs == [conn EXCEPT ![c] = n]
<1>1. cs \in [Conns -> Sound] /\ \A d \in Conns : Moves(conn[d], cs[d])
  BY OneMoves
<1>2. Broadcast(cs)
  OBVIOUS
<1> HIDE DEF cs
<1>3. conn' \in [Conns -> Sound] /\ \A d \in Conns : Moves(cs[d], conn'[d])
  BY <1>1, <1>2, BroadcastMoves
<1> QED
  BY <1>1, <1>2, <1>3, MovesAgain DEF AllMove, Listed

LEMMA AcceptMoves ==
    ASSUME JoinInv, conn \in [Conns -> Sound], NEW c \in Conns, Accept(c)
    PROVE  AllMove
<1> DEFINE j == conn[c]
           k == [j EXCEPT !.down = <<Say("open")>>]
<1>1. token \in Tokens /\ conn \in [Conns -> Kept]
  BY DEF JoinInv, TypeOK
<1>2. /\ Say("open") \in ToPage /\ Say("password_required") \in ToPage /\ Say("refuse") \in ToPage
      /\ <<Say("open")>> \in Seq(ToPage)
      /\ <<Say("open")>> \o <<Say("password_required")>> \in Seq(ToPage)
  <2>1. /\ Say("open") \in ToPage /\ Say("password_required") \in ToPage
        /\ Say("refuse") \in ToPage
    BY <1>1, MessagesTyped
  <2> QED
    BY <2>1
<1>3. /\ j \in ConnType /\ Shape(j) /\ j.at = "dialed" /\ j.cut = FALSE
  BY DEF Accept, Sound, ConnType
<1>4. j.sock = "connecting" /\ j.up = <<>>
  BY <1>3 DEF Shape, ConnType
<1>5. CASE Limited
  <2> DEFINE o == [k EXCEPT !.at = "over"]
  <2>1. o \in ConnType /\ o.at = "over" /\ o.sock = j.sock /\ o.first = j.first
    BY <1>2, <1>3 DEF ConnType
  <2>2. conn' = [conn EXCEPT ![c] = Shut(o, Say("refuse"))]
    BY <1>5 DEF Accept
  <2> HIDE DEF o
  <2>3. Shut(o, Say("refuse")) \in Sound /\ Moves(j, Shut(o, Say("refuse")))
    BY <1>2, <2>1, ShutMoves
  <2> QED
    BY <2>2, <2>3, OneMoves DEF AllMove
<1>6. CASE ~Limited /\ password = None
  <2> DEFINE o == [k EXCEPT !.at = "waiting"]
  <2>1. /\ o \in ConnType /\ o.at = "waiting" /\ o.sock = j.sock /\ o.first = j.first
        /\ o.down = <<Say("open")>> /\ o.up = <<>> /\ o.cut = FALSE
    BY <1>2, <1>3, <1>4 DEF ConnType
  <2>2. conn' = [conn EXCEPT ![c] = o]
    BY <1>6 DEF Accept
  <2> HIDE DEF o
  <2>3. ~Has(o.down, "close") /\ ~Has(o.down, "refuse")
    BY <2>1, HasOne DEF Say
  <2>4. o \in Sound /\ Moves(j, o)
    BY <1>4, <2>1, <2>3, AuthNone DEF Sound, Moves, Shape, Greeted
  <2> QED
    BY <2>2, <2>4, OneMoves DEF AllMove
<1>7. CASE ~Limited /\ password # None
  <2> DEFINE l == [k EXCEPT !.at = "locked"]
             o == [l EXCEPT !.down = Append(@, Say("password_required"))]
  <2>1. l \in ConnType /\ l.down = <<Say("open")>> /\ l.cut = FALSE
    BY <1>2, <1>3 DEF ConnType
  <2>2. conn' = Put([conn EXCEPT ![c] = l], c, Say("password_required"))
    BY <1>7 DEF Accept
  <2>3. conn' = [conn EXCEPT ![c] = o]
    <3> HIDE DEF l
    <3> QED
      BY <2>1, <2>2 DEF Put
  <2>4. Append(<<Say("open")>>, Say("password_required"))
          = <<Say("open")>> \o <<Say("password_required")>>
    OBVIOUS
  <2>5. /\ o \in ConnType /\ o.at = "locked" /\ o.sock = j.sock /\ o.first = j.first
        /\ o.down = <<Say("open")>> \o <<Say("password_required")>>
        /\ o.up = <<>> /\ o.cut = FALSE
    BY <1>2, <1>3, <1>4, <2>4 DEF ConnType
  <2> HIDE DEF o
  <2>6. ~Has(o.down, "close") /\ ~Has(o.down, "refuse")
    <3> DEFINE a == Say("open")
               b == Say("password_required")
    <3>1. a.type = "open" /\ b.type = "password_required"
      BY DEF Say
    <3>2. <<a>> \in Seq(ToPage) /\ <<b>> \in Seq(ToPage) /\ o.down = <<a>> \o <<b>>
      BY <1>2, <2>5
    <3> HIDE DEF a, b
    <3> DEFINE sa == <<a>>
               sb == <<b>>
    <3>4. sa \in Seq(ToPage) /\ sb \in Seq(ToPage) /\ o.down = sa \o sb
      BY <3>2
    <3>5. \A type : (Has(sa, type) <=> a.type = type) /\ (Has(sb, type) <=> b.type = type)
      BY HasOne
    <3> HIDE DEF sa, sb
    <3>3. \A type : Has(o.down, type) <=> Has(sa, type) \/ Has(sb, type)
      BY <3>4, HasConcat
    <3> QED
      BY <3>1, <3>3, <3>5
  <2>7. o \in Sound /\ Moves(j, o)
    BY <1>4, <2>5, <2>6, AuthNone DEF Sound, Moves, Shape, Greeted
  <2> QED
    BY <2>3, <2>7, OneMoves DEF AllMove
<1> QED
  BY <1>5, <1>6, <1>7

LEMMA TurnAwayMoves ==
    ASSUME JoinInv, conn \in [Conns -> Sound], NEW c \in Conns, TurnAway(c)
    PROVE  AllMove
<1> DEFINE j == conn[c]
           o == [j EXCEPT !.at = "over"]
<1>1. Say("close") \in ToPage
  BY MessagesTyped DEF JoinInv, TypeOK
<1>2. o \in ConnType /\ o.at = "over" /\ o.sock = j.sock /\ o.first = j.first
  BY DEF Sound, ConnType
<1>3. conn' = [conn EXCEPT ![c] = Shut(o, Say("close"))]
  BY DEF TurnAway
<1> HIDE DEF o
<1>4. Shut(o, Say("close")) \in Sound /\ Moves(j, Shut(o, Say("close")))
  BY <1>1, <1>2, ShutMoves
<1> QED
  BY <1>3, <1>4, OneMoves DEF AllMove

LEMMA TakeMoves ==
    ASSUME JoinInv, conn \in [Conns -> Sound], NEW c \in Conns, Take(c)
    PROVE  /\ AllMove
           /\ conn[c].at = "waiting" /\ Head(conn[c].up).type = "identify" => Listed
<1> DEFINE j == conn[c]
           m == Head(j.up)
           k == [j EXCEPT !.up = Tail(@)]
           rest == [conn EXCEPT ![c] = k]
<1>1. j \in ConnType /\ Shape(j) /\ j.up # <<>> /\ j.up \in Seq(ToRelay) /\ j.down \in Seq(ToPage)
  BY DEF Take, Sound, ConnType
<1>2. ~j.cut /\ j.sock = "open"
  BY <1>1 DEF Shape, ConnType
<1>21. /\ j.at \in Served /\ (j.at = "in" => j.role \in Roles)
       /\ ~Has(j.down, "open") /\ ~Has(j.down, "close") /\ ~Has(j.down, "refuse")
  BY <1>2, SoundOpen
<1>3. Tail(j.up) \in Seq(ToRelay) /\ m \in ToRelay
  BY <1>1
<1>4. /\ k \in ConnType /\ k.at = j.at /\ k.sock = j.sock /\ k.first = j.first /\ ~k.cut
      /\ k.down = j.down /\ k.up = Tail(j.up) /\ k.role = j.role
  BY <1>1, <1>2, <1>3 DEF ConnType
<1>5. /\ AuthThenIdentify(k.up)
      /\ m.type = "session_auth" => Has(k.up, "identify")
      /\ \A type : Has(j.up, type) <=> m.type = type \/ Has(k.up, type)
  BY <1>1, <1>4, AuthTail, HasTail DEF Shape
<1>6. /\ \/ j.at = "locked" /\ ReadLocked(c, m, rest)
         \/ j.at = "waiting" /\ ReadWaiting(c, m, rest)
         \/ j.at = "in" /\ ReadIn(m, rest)
  BY DEF Take
<1>8. rest = [conn EXCEPT ![c] = k]
  OBVIOUS
<1>9. token \in Tokens
  BY DEF JoinInv, TypeOK
<1> HIDE DEF m, k, rest
<1>71. k \in Sound
  BY <1>2, <1>21, <1>4, <1>5, OpenSound
<1>7. ASSUME ~(j.at = "locked" /\ m.type = "session_auth")
             /\ ~(j.at = "waiting" /\ m.type = "identify")
      PROVE  Moves(j, k)
  <2>1. Greeted(j) => Greeted(k)
    BY <1>2, <1>4, <1>5, <1>7 DEF Greeted
  <2> QED
    BY <1>4, <1>71, <2>1 DEF Moves, Sound
<1>10. ASSUME conn' = rest, Moves(j, k) PROVE AllMove
  BY <1>71, <1>8, <1>10, OneMoves DEF AllMove
<1>11. ASSUME j.at = "locked", ReadLocked(c, m, rest), m.type = "session_auth" PROVE AllMove
  <2>1. CASE conn' = [rest EXCEPT ![c].at = "waiting"]
    <3> DEFINE o == [k EXCEPT !.at = "waiting"]
    <3>1. conn' = [conn EXCEPT ![c] = o]
      BY <1>8, <2>1
    <3>2. /\ o \in ConnType /\ o.at = "waiting" /\ o.sock = "open" /\ o.first = j.first
          /\ ~o.cut /\ o.down = j.down /\ o.up = k.up
      BY <1>2, <1>4 DEF ConnType
    <3> HIDE DEF o
    <3>3. o \in Sound
      BY <1>2, <1>21, <1>5, <3>2, OpenSound
    <3>4. Greeted(o)
      BY <1>5, <1>11, <3>2 DEF Greeted
    <3>5. Moves(j, o)
      BY <1>2, <3>2, <3>3, <3>4 DEF Moves, Sound
    <3> QED
      BY <3>1, <3>3, <3>5, OneMoves DEF AllMove
  <2>2. CASE conn' = [rest EXCEPT ![c] = Tried(@)]
    <3>1. conn' = [conn EXCEPT ![c] = Tried(k)]
      BY <1>8, <2>2
    <3>2. CASE k.tries + 1 < MaxAttempts
      <4> DEFINE d == Append(k.down, Say("wrong"))
                 o == [k EXCEPT !.tries = @ + 1, !.down = d]
      <4>1. Say("wrong") \in ToPage /\ Say("wrong").type = "wrong"
        BY <1>9, MessagesTyped DEF Say
      <4>2. d \in Seq(ToPage) /\ (\A type : Has(d, type) <=> Has(j.down, type) \/ "wrong" = type)
        BY <1>1, <1>4, <4>1, HasAppend
      <4>3. Tried(k) = o
        BY <3>2 DEF Tried
      <4> HIDE DEF d
      <4>4. k.tries + 1 \in 0 .. MaxAttempts
        BY <1>4, <3>2 DEF ConnType
      <4>5. /\ o \in ConnType /\ o.at = "locked" /\ o.sock = "open" /\ o.first = j.first
            /\ ~o.cut /\ o.down = d /\ o.up = k.up
        BY <1>2, <1>4, <1>11, <4>2, <4>4 DEF ConnType
      <4> HIDE DEF o
      <4>6. o \in Sound
        BY <1>2, <1>21, <1>5, <4>2, <4>5, OpenSound
      <4>7. Has(o.down, "wrong")
        BY <4>2, <4>5
      <4>8. Moves(j, o)
        BY <1>2, <4>5, <4>6, <4>7 DEF Moves, Sound, Greeted
      <4> QED
        BY <3>1, <4>3, <4>6, <4>8, OneMoves DEF AllMove
    <3>3. CASE ~(k.tries + 1 < MaxAttempts)
      <4> DEFINE a == [k EXCEPT !.down = Append(@, Say("many"))]
                 b == Shut(a, Say("close"))
                 o == [b EXCEPT !.tries = @ + 1]
      <4>1. Tried(k) = o
        BY <3>3 DEF Tried
      <4>2. Say("many") \in ToPage /\ Say("close") \in ToPage
        BY <1>9, MessagesTyped
      <4>3. Append(k.down, Say("many")) \in Seq(ToPage)
        BY <1>1, <1>4, <4>2
      <4>4. /\ a \in ConnType /\ a.at = k.at /\ a.sock = k.sock /\ a.first = k.first
            /\ a.tries = k.tries
        BY <1>4, <4>3 DEF ConnType
      <4> HIDE DEF a
      <4>5. Append(a.down, Say("close")) \in Seq(ToPage)
        BY <4>2, <4>4 DEF ConnType
      <4>6. /\ b \in ConnType /\ b.at = k.at /\ b.sock = k.sock /\ b.first = k.first
            /\ b.cut /\ b.up = <<>> /\ b.tries = k.tries
        BY <4>4, <4>5, NothingSent DEF Shut, ConnType
      <4>7. k.tries + 1 \in 0 .. MaxAttempts
        <5>1. conn[c] \in Kept /\ ~j.cut /\ k.tries = j.tries
          BY <1>1, <1>2 DEF JoinInv, k, ConnType
        <5> QED
          BY <1>1, <5>1 DEF Kept, ConnType
      <4> HIDE DEF b
      <4>8. /\ o \in ConnType /\ o.at = k.at /\ o.sock = k.sock /\ o.first = k.first
            /\ o.cut /\ o.up = <<>>
        BY <4>6, <4>7 DEF ConnType
      <4> HIDE DEF o
      <4>9. o \in Sound /\ Moves(j, o)
        BY <1>4, <1>11, <4>8, CutMoves
      <4> QED
        BY <3>1, <4>1, <4>9, OneMoves DEF AllMove
    <3> QED
      BY <3>2, <3>3
  <2> QED
    BY <1>11, <2>1, <2>2 DEF ReadLocked
<1>12. ASSUME j.at = "waiting", ReadWaiting(c, m, rest), m.type = "identify"
       PROVE  AllMove /\ Listed
  <2> DEFINE o == [k EXCEPT !.at = "in", !.role = RoleFor(m)]
  <2>1. RoleFor(m) \in Roles
    BY DEF RoleFor
  <2>2. /\ o \in ConnType /\ o.at = "in" /\ o.sock = "open" /\ o.first = j.first
        /\ ~o.cut /\ o.down = j.down /\ o.up = k.up /\ o.role \in Roles
    BY <1>2, <1>4, <2>1 DEF ConnType
  <2>3. Broadcast([conn EXCEPT ![c] = o])
    BY <1>8, <1>12 DEF ReadWaiting
  <2> HIDE DEF o
  <2>4. o \in Sound /\ Moves(j, o)
    <3>1. o \in Sound
      BY <1>2, <1>21, <1>5, <2>2, OpenSound
    <3> QED
      BY <1>2, <2>2, <3>1 DEF Moves, Sound, Greeted
  <2> QED
    BY <2>3, <2>4, OneThenList
<1> QED
  <2>1. j.at = "waiting" /\ m.type = "identify" => AllMove /\ Listed
    BY <1>6, <1>12
  <2>2. ~(j.at = "waiting" /\ m.type = "identify") => AllMove
    <3>1. CASE j.at = "locked" /\ m.type = "session_auth"
      BY <1>6, <1>11, <3>1
    <3>2. CASE ~(j.at = "locked" /\ m.type = "session_auth")
               /\ ~(j.at = "waiting" /\ m.type = "identify")
      <4>1. conn' = rest
        BY <1>6, <3>2 DEF ReadLocked, ReadWaiting, ReadIn
      <4> QED
        BY <1>7, <1>10, <3>2, <4>1
    <3> QED
      BY <3>1, <3>2
  <2> QED
    BY <2>1, <2>2 DEF m

LEMMA GiveRoleMoves ==
    ASSUME conn \in [Conns -> Sound], NEW role \in Roles, GiveRole(role)
    PROVE  AllMove /\ Listed
<1>1. ASSUME Broadcast(conn) PROVE AllMove /\ Listed
  BY <1>1, BroadcastMoves DEF AllMove, Listed
<1>2. ASSUME NEW c \in Within, Broadcast([conn EXCEPT ![c].role = role]) PROVE AllMove /\ Listed
  <2> DEFINE j == conn[c]
             o == [j EXCEPT !.role = role]
  <2>1. c \in Conns /\ j \in ConnType /\ Shape(j) /\ j.at = "in"
    BY <1>2 DEF Within, Sound
  <2>2. /\ o \in ConnType /\ o.at = "in" /\ o.sock = j.sock /\ o.first = j.first /\ o.up = j.up
        /\ o.cut = j.cut /\ o.down = j.down /\ o.role = role
    BY <2>1 DEF ConnType
  <2>3. Broadcast([conn EXCEPT ![c] = o])
    BY <1>2
  <2> HIDE DEF o
  <2>4. o \in Sound /\ Moves(j, o)
    BY <2>1, <2>2 DEF Sound, Moves, Shape, Greeted
  <2> QED
    BY <2>1, <2>3, <2>4, OneThenList
<1> QED
  BY <1>1, <1>2 DEF GiveRole

LEMMA HandlerEndsMoves ==
    ASSUME conn \in [Conns -> Sound], NEW c \in Conns, HandlerEnds(c)
    PROVE  AllMove /\ Listed
<1> DEFINE n == HandlerGone(conn[c])
<1>1. Broadcast([conn EXCEPT ![c] = n])
  BY DEF HandlerEnds
<1>2. Moves(conn[c], n) /\ n \in Sound
  BY GoneMoves DEF HandlerEnds, Sound
<1> HIDE DEF n
<1> QED
  BY <1>1, <1>2, OneThenList

LEMMA FaultMoves ==
    ASSUME JoinInv, conn \in [Conns -> Sound],
           (\E c \in Conns : Cut(c)) \/ SessionExpires \/ RelayRestarts
    PROVE  AllMove
<1> DEFINE m == Say("close")
<1>1. m \in ToPage
  BY MessagesTyped DEF JoinInv, TypeOK
<1>2. \A c \in Conns : conn[c] \in ConnType /\ Shape(conn[c]) /\ conn[c] \in Sound
  BY DEF Sound
<1> HIDE DEF m
<1>3. ASSUME NEW c \in Conns, Cut(c) PROVE AllMove
  <2> DEFINE k == [conn[c] EXCEPT !.down = <<>>]
  <2>1. /\ k \in ConnType /\ k.sock = conn[c].sock /\ k.first = conn[c].first
        /\ k.at = conn[c].at /\ k.role = conn[c].role
    BY <1>2, NothingSent DEF ConnType
  <2>2. conn' = [conn EXCEPT ![c] = Shut(k, m)]
    BY <1>3 DEF Cut, m
  <2>3. k.at # "dialed" /\ (k.at = "in" => k.role \in Roles)
    BY <1>2, <1>3, <2>1 DEF Cut, Shape
  <2> HIDE DEF k
  <2>4. Shut(k, m) \in Sound /\ Moves(conn[c], Shut(k, m))
    BY <1>1, <2>1, <2>3, ShutMoves
  <2> QED
    BY <2>2, <2>4, OneMoves DEF AllMove
<1>4. CASE SessionExpires
  <2>1. conn' = [c \in Conns |-> IF conn[c].at \in Served /\ ~conn[c].cut
                                 THEN Shut(conn[c], m) ELSE conn[c]]
    BY <1>4 DEF SessionExpires, m
  <2>2. ASSUME NEW c \in Conns PROVE conn'[c] \in Sound /\ Moves(conn[c], conn'[c])
    <3>1. CASE conn[c].at \in Served /\ ~conn[c].cut
      <4>1. conn[c].at # "dialed" /\ (conn[c].at = "in" => conn[c].role \in Roles)
        BY <1>2, <3>1 DEF Shape
      <4>2. Shut(conn[c], m) \in Sound /\ Moves(conn[c], Shut(conn[c], m))
        BY <1>1, <1>2, <4>1, ShutMoves
      <4> QED
        BY <2>1, <3>1, <4>2
    <3>2. CASE ~(conn[c].at \in Served /\ ~conn[c].cut)
      <4>1. conn'[c] = conn[c]
        BY <2>1, <3>2
      <4> QED
        BY <1>2, <4>1, MovesNot
    <3> QED
      BY <3>1, <3>2
  <2> QED
    BY <2>1, <2>2 DEF AllMove
<1>5. CASE RelayRestarts
  <2>1. conn' = [c \in Conns |->
                   IF conn[c].at = "over" THEN conn[c]
                   ELSE HandlerGone(IF conn[c].cut THEN conn[c] ELSE Shut(conn[c], m))]
    BY <1>5 DEF RelayRestarts, m
  <2>2. ASSUME NEW c \in Conns PROVE conn'[c] \in Sound /\ Moves(conn[c], conn'[c])
    <3>1. CASE conn[c].at = "over"
      BY <1>2, <2>1, <3>1, MovesNot
    <3>2. CASE conn[c].at # "over"
      <4> DEFINE k == IF conn[c].cut THEN conn[c] ELSE Shut(conn[c], m)
      <4>1. conn'[c] = HandlerGone(k)
        BY <2>1, <3>2
      <4>2. k \in ConnType /\ k.cut /\ k.sock = conn[c].sock /\ k.first = conn[c].first
        <5>1. Append(conn[c].down, m) \in Seq(ToPage)
          BY <1>1, <1>2 DEF ConnType
        <5>2. LET n == Shut(conn[c], m)
              IN  n \in ConnType /\ n.cut /\ n.sock = conn[c].sock /\ n.first = conn[c].first
          BY <1>2, <5>1, NothingSent DEF Shut, ConnType
        <5> QED
          BY <1>2, <5>2
      <4> HIDE DEF k
      <4> QED
        BY <4>1, <4>2, GoneMoves
    <3> QED
      BY <3>1, <3>2
  <2> QED
    BY <2>1, <2>2 DEF AllMove
<1> QED
  BY <1>3, <1>4, <1>5

(* What the relay, the network and the host do leaves the page as it is.   *)
RelayAct ==
    \/ \E c \in Conns : \/ Accept(c) \/ NotFound(c) \/ HandshakeFails(c) \/ Take(c)
                        \/ HandlerEnds(c) \/ Cut(c)
    \/ SendLate \/ (\E role \in {"editor", "commenter"} : SetRole(role)) \/ Answer
    \/ HostComesOrGoes \/ (\E p \in Passwords \cup {None} : PasswordChanges(p))
    \/ SessionExpires \/ RelayRestarts \/ SessionResumes

LEMMA RelayMoves ==
    ASSUME JoinInv, conn \in [Conns -> Sound], RelayAct
    PROVE  AllMove /\ UNCHANGED <<token, page, doubled, deadEnd>>
<1>1. UNCHANGED <<token, page, doubled, deadEnd>>
  BY DEF RelayAct, Accept, NotFound, HandshakeFails, TurnAway, Take, HandlerEnds, Cut, SendLate,
         SetRole, Answer, HostComesOrGoes, PasswordChanges, SessionExpires, RelayRestarts,
         SessionResumes, relayVars, hostVars, histVars
<1>2. ASSUME conn' = conn PROVE AllMove
  BY <1>2, MovesNot DEF AllMove
<1>3. ASSUME NEW m \in ToPage, m.type \in {"list", "denied"}, conn' = PutAll(conn, m)
      PROVE  AllMove
  BY <1>3, PutAllMoves DEF AllMove
<1>4. ASSUME NEW c \in Conns, NotFound(c) \/ HandshakeFails(c) PROVE AllMove
  BY <1>4, TurnAwayMoves DEF NotFound, HandshakeFails
<1>5. ASSUME SendLate PROVE AllMove
  <2> DEFINE m == List(late)
  <2>1. m \in ToPage /\ m.type = "list" /\ conn' = PutAll(conn, m)
    BY <1>5, ListTyped, ListIs DEF SendLate, JoinInv, TypeOK
  <2> HIDE DEF m
  <2> QED
    BY <2>1, <1>3
<1>6. ASSUME Answer PROVE AllMove
  <2> DEFINE m == Say("denied")
  <2>1. m \in ToPage /\ m.type = "denied"
    BY MessagesTyped DEF Say, JoinInv, TypeOK
  <2>2. GiveRole("editor") \/ conn' = PutAll(conn, m) \/ conn' = conn
    BY <1>6 DEF Answer
  <2> HIDE DEF m
  <2> QED
    BY <1>2, <1>3, <2>1, <2>2, GiveRoleMoves
<1>7. ASSUME NEW role \in {"editor", "commenter"}, SetRole(role) PROVE AllMove
  BY <1>7, GiveRoleMoves DEF SetRole
<1>8. ASSUME HostComesOrGoes PROVE AllMove
  BY <1>8, BroadcastMoves DEF HostComesOrGoes, AllMove
<1>9. ASSUME SessionResumes \/ \E p \in Passwords \cup {None} : PasswordChanges(p) PROVE AllMove
  BY <1>2, <1>9 DEF PasswordChanges, SessionResumes
<1> QED
  BY <1>1, <1>4, <1>5, <1>6, <1>7, <1>8, <1>9, AcceptMoves, TakeMoves, HandlerEndsMoves, FaultMoves
     DEF RelayAct

-----------------------------------------------------------------------------
(* What the page does to a connection.                                     *)

(* What is sent adds to what waits to be read, and to nothing else.        *)
Grows(k, n) ==
    /\ n.at = k.at /\ n.sock = k.sock /\ n.cut = k.cut /\ n.first = k.first /\ n.down = k.down
    /\ n.role = k.role /\ \A type : Has(k.up, type) => Has(n.up, type)

LEMMA PostSound ==
    ASSUME NEW cs \in [Conns -> Sound], NEW ws \in Conns \cup {None}, NEW ms \in Seq(ToRelay),
           AuthThenIdentify(ms)
    PROVE  LET ds == Post(cs, ws, ms)
           IN  /\ ds \in [Conns -> Sound]
               /\ \A c \in Conns : Grows(cs[c], ds[c])
               /\ ws # None /\ cs[ws].sock = "open" /\ ~cs[ws].cut
                  => \A type : Has(ms, type) => Has(ds[ws].up, type)
<1> DEFINE ds == Post(cs, ws, ms)
<1>1. ASSUME ds = cs, ws = None \/ cs[ws].sock # "open" \/ cs[ws].cut
      PROVE  /\ ds \in [Conns -> Sound]
             /\ \A c \in Conns : Grows(cs[c], ds[c])
             /\ ws # None /\ cs[ws].sock = "open" /\ ~cs[ws].cut
                => \A type : Has(ms, type) => Has(ds[ws].up, type)
  BY <1>1 DEF Grows
<1>2. ASSUME ws # None, cs[ws].sock = "open", ~cs[ws].cut
      PROVE  /\ ds \in [Conns -> Sound]
             /\ \A c \in Conns : Grows(cs[c], ds[c])
             /\ \A type : Has(ms, type) => Has(ds[ws].up, type)
  <2> DEFINE k == cs[ws]
             u == k.up \o ms
             n == [k EXCEPT !.up = u]
  <2>1. ws \in Conns /\ k \in Sound /\ k \in ConnType /\ k.up \in Seq(ToRelay)
    BY <1>2 DEF Sound, ConnType
  <2>2. ds = [cs EXCEPT ![ws] = n]
    BY <1>2, <2>1 DEF Post
  <2>3. /\ u \in Seq(ToRelay) /\ AuthThenIdentify(u)
        /\ \A type : Has(u, type) <=> Has(k.up, type) \/ Has(ms, type)
    BY <2>1, AuthConcat, HasConcat DEF Sound, Shape
  <2> HIDE DEF u
  <2>4. /\ n \in ConnType /\ n.at = k.at /\ n.sock = k.sock /\ n.cut = k.cut /\ n.first = k.first
        /\ n.down = k.down /\ n.role = k.role /\ n.up = u /\ ~n.cut
    BY <1>2, <2>1, <2>3 DEF ConnType
  <2>5. /\ k.at \in Served /\ (k.at = "in" => k.role \in Roles)
        /\ ~Has(k.down, "open") /\ ~Has(k.down, "close") /\ ~Has(k.down, "refuse")
    BY <1>2, <2>1, SoundOpen
  <2> HIDE DEF n, k, ds
  <2>6. n \in Sound
    BY <1>2, <2>3, <2>4, <2>5, OpenSound DEF k
  <2>7. Grows(k, n)
    BY <2>3, <2>4 DEF Grows
  <2>8. \A c \in Conns : Grows(cs[c], cs[c])
    BY DEF Grows
  <2> QED
    BY <2>1, <2>2, <2>3, <2>4, <2>6, <2>7, <2>8 DEF k
<1> HIDE DEF ds
<1>3. CASE ws = None \/ cs[ws].sock # "open" \/ cs[ws].cut
  <2>1. ds = cs
    BY <1>3 DEF ds, Post
  <2> QED
    BY <1>1, <1>3, <2>1 DEF ds
<1> QED
  BY <1>2, <1>3 DEF ds

(* joinSession and reconnect: all that is known of the new connection.     *)
LEMMA DialSound ==
    ASSUME NEW first \in BOOLEAN, page \in PageType, conn \in [Conns -> Sound], Dial(first)
    PROVE  \E c \in Conns :
              /\ conn' \in [Conns -> Sound] /\ conn[c].sock = "closed" /\ conn[c].at = "over"
              /\ \A d \in Conns : d # c => conn'[d] = conn[d]
              /\ conn'[c].sock = "connecting" /\ conn'[c].at = "dialed" /\ ~conn'[c].cut
              /\ conn'[c].first = first
              /\ page'.ws = c /\ page'.form = page.form /\ page'.ide = page.ide
              /\ page'.gaveUp = page.gaveUp /\ page'.refused = page.refused
              /\ page'.pwd = page.pwd /\ page'.role = page.role
              /\ page'.asked = page.asked
              /\ page'.timers = IF first THEN page.timers ELSE page.timers - 1
<1> DEFINE n == [Idle EXCEPT !.at = "dialed", !.sock = "connecting", !.cut = FALSE,
                             !.first = first]
<1>1. PICK c \in Conns :
        /\ conn[c] = Idle
        /\ conn' = [conn EXCEPT ![c] = n]
        /\ page' = [page EXCEPT !.ws = c, !.timers = IF first THEN @ ELSE @ - 1,
                                !.attempts = IF first THEN @ ELSE @ + 1]
  BY DEF Dial
<1>2. /\ n \in ConnType /\ n.at = "dialed" /\ n.sock = "connecting" /\ ~n.cut /\ n.first = first
      /\ n.up = <<>> /\ n.down = <<>>
  BY NothingSent DEF Idle, ConnType
<1> HIDE DEF n
<1>3. n \in Sound
  BY <1>2, AuthNone, HasNone DEF Sound, Shape
<1>4. /\ page'.ws = c /\ page'.form = page.form /\ page'.ide = page.ide
      /\ page'.gaveUp = page.gaveUp /\ page'.refused = page.refused
      /\ page'.pwd = page.pwd /\ page'.role = page.role
      /\ page'.asked = page.asked
      /\ page'.timers = IF first THEN page.timers ELSE page.timers - 1
  BY <1>1 DEF PageType
<1>5. conn[c].sock = "closed" /\ conn[c].at = "over"
  BY <1>1, IdleSound, IdleKept
<1>6. conn' \in [Conns -> Sound] /\ conn'[c] = n /\ \A d \in Conns : d # c => conn'[d] = conn[d]
  BY <1>1, <1>3
<1> QED
  BY <1>2, <1>4, <1>5, <1>6

(* The socket opens (ws.onopen): what the page knows is sent.              *)
LEMMA DeliverOpens ==
    ASSUME JoinInv, conn \in [Conns -> Sound], NEW c \in Conns, Deliver(c),
           Head(conn[c].down).type = "open"
    PROVE  LET k == conn[c]
               n == conn'[c]
               ms == Append(Credentials(page), Identify)
           IN  /\ conn' \in [Conns -> Sound]
               /\ \A d \in Conns : d # c => Grows(conn[d], conn'[d])
               /\ Grows([k EXCEPT !.down = Tail(@), !.sock = "open"], n)
               /\ k.sock # "closed" /\ n.sock = "open" /\ n.first = k.first /\ n.at = k.at
               /\ n.role = k.role /\ n.cut = k.cut /\ n.down = Tail(k.down) /\ k.down # <<>>
               /\ \A type : Has(k.up, type) => Has(n.up, type)
               /\ ~k.cut => k.sock = "connecting"
               /\ ~k.cut /\ page.ws = c => \A type : Has(ms, type) => Has(n.up, type)
<1> DEFINE k == conn[c]
           o == [[k EXCEPT !.down = Tail(@)] EXCEPT !.sock = "open"]
           opened == [conn EXCEPT ![c] = o]
           ms == Append(Credentials(page), Identify)
<1>1. k \in Sound /\ k \in ConnType /\ Shape(k) /\ k.down \in Seq(ToPage)
  BY DEF Sound, ConnType
<1>2. k.down # <<>> /\ k.sock # "closed"
  BY DEF Deliver
<1>3. Has(k.down, "open") /\ Tail(k.down) \in Seq(ToPage)
  BY <1>1, <1>2, HasTail
<1>4. ~k.cut => k.sock = "connecting"
  BY <1>1, <1>2, <1>3 DEF Shape, ConnType
<1>5. conn' = Post(opened, page.ws, ms)
  BY <1>1 DEF Deliver
<1>6. /\ o \in ConnType /\ o.sock = "open" /\ o.first = k.first /\ o.at = k.at /\ o.role = k.role
      /\ o.cut = k.cut /\ o.down = Tail(k.down) /\ o.up = k.up
  BY <1>1, <1>3 DEF ConnType
<1>7. page.ws \in Conns \cup {None} /\ ms \in Seq(ToRelay) /\ AuthThenIdentify(ms)
  BY CredentialsTyped, SentShape DEF JoinInv, TypeOK, PageType
<1>8. o = [k EXCEPT !.down = Tail(@), !.sock = "open"]
  BY <1>1 DEF ConnType
<1> HIDE DEF o
<1>9. o \in Sound
  <2>1. CASE k.cut
    <3>1. o.up = <<>> /\ o.cut /\ o.at # "dialed" /\ (o.at = "in" => o.role \in Roles)
      BY <1>1, <1>6, <2>1 DEF Shape
    <3> QED
      BY <1>6, <3>1, CutMoves
  <2>2. CASE ~k.cut
    <3>1. k.up = <<>> /\ k.at \in {"waiting", "locked"}
      BY <1>1, <1>2, <1>4, <2>2 DEF Shape, ConnType
    <3>2. ~Has(Tail(k.down), "open") /\ ~Has(Tail(k.down), "close") /\ ~Has(Tail(k.down), "refuse")
      <4> DEFINE a == Say("open")
                 b == Say("password_required")
      <4>1. /\ a \in ToPage /\ b \in ToPage /\ b.type = "password_required"
        BY MessagesTyped DEF Say, JoinInv, TypeOK
      <4>2. k.down = <<a>> \/ k.down = <<a>> \o <<b>>
        BY <1>1, <1>4, <2>2, <3>1 DEF Shape
      <4> HIDE DEF a, b
      <4>3. \A i \in DOMAIN Tail(k.down) : Tail(k.down)[i] = b
        <5>1. CASE k.down = <<a>>
          <6>1. Len(k.down) = 1
            BY <5>1
          <6> QED
            BY <1>1, <6>1
        <5>2. CASE k.down = <<a>> \o <<b>>
          <6>1. Len(k.down) = 2 /\ k.down[2] = b
            BY <4>1, <5>2
          <6> QED
            BY <1>1, <6>1
        <5> QED
          BY <4>2, <5>1, <5>2
      <4> QED
        BY <4>1, <4>3 DEF Has
    <3> QED
      BY <1>1, <1>6, <2>2, <3>1, <3>2, AuthNone, OpenSound
  <2> QED
    BY <2>1, <2>2
<1>10. opened \in [Conns -> Sound] /\ opened[c] = o /\ \A d \in Conns : d # c => opened[d] = conn[d]
  BY <1>9
<1> HIDE DEF ms, opened
<1>11. /\ conn' \in [Conns -> Sound]
       /\ \A d \in Conns : Grows(opened[d], conn'[d])
       /\ page.ws # None /\ opened[page.ws].sock = "open" /\ ~opened[page.ws].cut
          => \A type : Has(ms, type) => Has(conn'[page.ws].up, type)
  BY <1>5, <1>7, <1>10, PostSound
<1>12. Grows(o, conn'[c]) /\ \A d \in Conns : d # c => Grows(conn[d], conn'[d])
  BY <1>10, <1>11
<1>13. ~k.cut /\ page.ws = c => \A type : Has(ms, type) => Has(conn'[c].up, type)
  BY <1>6, <1>10, <1>11
<1>14. /\ conn'[c].sock = "open" /\ conn'[c].first = k.first /\ conn'[c].at = k.at
       /\ conn'[c].role = k.role /\ conn'[c].cut = k.cut /\ conn'[c].down = Tail(k.down)
       /\ \A type : Has(k.up, type) => Has(conn'[c].up, type)
  BY <1>6, <1>12 DEF Grows
<1> QED
  BY <1>2, <1>4, <1>8, <1>11, <1>12, <1>13, <1>14 DEF ms

(* The socket closes (ws.onclose): the connection was cut.                 *)
LEMMA DeliverEnds ==
    ASSUME JoinInv, conn \in [Conns -> Sound], NEW c \in Conns, Deliver(c),
           Head(conn[c].down).type \in {"close", "refuse"}
    PROVE  LET n == conn'[c]
           IN  /\ conn' \in [Conns -> Sound] /\ \A d \in Conns : d # c => conn'[d] = conn[d]
               /\ conn[c].sock # "closed" /\ conn[c].cut /\ n.sock = "closed" /\ n.cut
               /\ n.at = conn[c].at /\ (n.at = "in" => n.role = conn[c].role)
<1> DEFINE k == conn[c]
           o == [k EXCEPT !.sock = "closed", !.down = <<>>]
<1>1. k \in Sound /\ k \in ConnType /\ Shape(k) /\ k.down \in Seq(ToPage)
  BY DEF Sound, ConnType
<1>2. k.down # <<>> /\ k.sock # "closed"
  BY DEF Deliver
<1>3. Has(k.down, "close") \/ Has(k.down, "refuse")
  BY <1>1, <1>2, HasTail
<1>4. k.cut /\ k.at # "dialed" /\ k.up = <<>> /\ (k.at = "in" => k.role \in Roles)
  BY <1>1, <1>3 DEF Shape
<1>5. conn' = [conn EXCEPT ![c] = SockGone(k)]
  BY DEF Deliver
<1>6. /\ o \in ConnType /\ o.sock = "closed" /\ o.at = k.at /\ o.role = k.role /\ o.cut
      /\ o.up = <<>>
  BY <1>1, <1>4, NothingSent DEF ConnType
<1>7. o \in Sound
  BY <1>4, <1>6, CutMoves
<1>8. Idle.at = "over" /\ Idle.cut /\ Idle \in Sound /\ Idle.sock = "closed"
  BY IdleSound DEF Idle
<1>9. SockGone(k) = IF k.at = "over" THEN Idle ELSE o
  BY DEF SockGone
<1> HIDE DEF o
<1> DEFINE n == SockGone(k)
<1>10. n \in Sound /\ n.sock = "closed" /\ n.cut /\ n.at = k.at /\ (n.at = "in" => n.role = k.role)
  BY <1>6, <1>7, <1>8, <1>9
<1> HIDE DEF n
<1>11. /\ conn' \in [Conns -> Sound] /\ conn'[c] = n
       /\ \A d \in Conns : d # c => conn'[d] = conn[d]
  BY <1>5, <1>10 DEF n
<1> QED
  BY <1>2, <1>4, <1>10, <1>11

(* Any other message.                                                      *)
LEMMA DeliverReads ==
    ASSUME JoinInv, conn \in [Conns -> Sound], NEW c \in Conns, Deliver(c),
           Head(conn[c].down).type \notin {"open", "close", "refuse"}
    PROVE  LET k == conn[c]
               n == conn'[c]
           IN  /\ conn' \in [Conns -> Sound] /\ \A d \in Conns : d # c => conn'[d] = conn[d]
               /\ k.sock # "closed" /\ k.down # <<>> /\ n.down = Tail(k.down)
               /\ n.sock = k.sock /\ n.first = k.first /\ n.at = k.at /\ n.role = k.role
               /\ n.cut = k.cut /\ n.up = k.up
<1> DEFINE k == conn[c]
           o == [k EXCEPT !.down = Tail(@)]
<1>1. k \in Sound /\ k \in ConnType /\ Shape(k) /\ k.down \in Seq(ToPage)
  BY DEF Sound, ConnType
<1>2. k.down # <<>> /\ k.sock # "closed"
  BY DEF Deliver
<1>3. Tail(k.down) \in Seq(ToPage) /\ \A type : Has(Tail(k.down), type) => Has(k.down, type)
  BY <1>1, <1>2, HasTail
<1>4. conn' = [conn EXCEPT ![c] = o]
  BY DEF Deliver
<1>5. /\ o \in ConnType /\ o.sock = k.sock /\ o.first = k.first /\ o.at = k.at /\ o.role = k.role
      /\ o.cut = k.cut /\ o.down = Tail(k.down) /\ o.up = k.up
  BY <1>1, <1>3 DEF ConnType
<1> HIDE DEF o
<1>6. o \in Sound
  <2>1. CASE k.cut
    BY <1>1, <1>5, <2>1, CutMoves DEF Shape
  <2>2. CASE ~k.cut /\ k.sock = "open"
    <3>1. /\ k.at \in Served /\ AuthThenIdentify(k.up) /\ (k.at = "in" => k.role \in Roles)
          /\ ~Has(k.down, "open") /\ ~Has(k.down, "close") /\ ~Has(k.down, "refuse")
      BY <1>1, <2>2, SoundOpen
    <3>2. ~o.cut /\ ~Has(o.down, "open") /\ ~Has(o.down, "close") /\ ~Has(o.down, "refuse")
      BY <1>3, <1>5, <2>2, <3>1
    <3> QED
      BY <1>5, <2>2, <3>1, <3>2, OpenSound
  <2>3. CASE ~k.cut /\ k.sock = "connecting"
    <3> DEFINE a == Say("open")
               b == Say("password_required")
    <3>1. a.type = "open" /\ a \in ToPage /\ b \in ToPage
      BY MessagesTyped DEF Say, JoinInv, TypeOK
    <3>2. k.down = <<a>> \/ k.down = <<a>> \o <<b>> \/ k.down = <<>>
      BY <1>1, <2>3 DEF Shape, ConnType
    <3> HIDE DEF a, b
    <3>3. Head(k.down) = a
      <4>1. CASE k.down = <<a>>
        BY <4>1
      <4>2. CASE k.down = <<a>> \o <<b>>
        <5>1. k.down[1] = a
          BY <3>1, <4>2
        <5> QED
          BY <1>1, <1>2, <5>1
      <4> QED
        BY <1>2, <3>2, <4>1, <4>2
    <3> QED
      BY <3>1, <3>3
  <2> QED
    BY <1>1, <1>2, <2>1, <2>2, <2>3 DEF ConnType
<1>7. /\ conn' \in [Conns -> Sound] /\ conn'[c] = o
      /\ \A d \in Conns : d # c => conn'[d] = conn[d]
  BY <1>4, <1>6
<1> QED
  BY <1>2, <1>5, <1>7

-----------------------------------------------------------------------------
(* One connection at a time, and one timer when there is none.             *)

Alive(c) == conn[c].sock # "closed"

(* A page whose user joined once has a connection, a timer for the next, a *)
(* form, or says that it gave up; but for a password entered in vain.      *)
OneChain ==
    /\ page.form # "none" => ~page.ide
    /\ ~doubled =>
       /\ \A c \in Conns : Alive(c) => page.ws = c /\ page.timers = 0
       /\ page.timers <= 1
       /\ page.form # "none"
          => /\ page.timers = 0
             /\ \A c \in Conns : Alive(c) => conn[c].sock = "connecting" /\ conn[c].first
       /\ page.form = "none"
          => \/ page.timers > 0 \/ page.gaveUp \/ page.refused \/ (page.ide /\ deadEnd)
             \/ \E c \in Conns : Alive(c)

AllGreeted == ~doubled => \A c \in Conns : Greeted(conn[c])

ChainInv == JoinInv /\ conn \in [Conns -> Sound] /\ OneChain /\ AllGreeted

LEMMA RelayChain ==
    ASSUME ChainInv, RelayAct
    PROVE  conn' \in [Conns -> Sound] /\ OneChain' /\ AllGreeted'
<1>1. AllMove /\ page' = page /\ token' = token /\ doubled' = doubled /\ deadEnd' = deadEnd
  BY RelayMoves DEF ChainInv
<1>2. \A c \in Conns : /\ conn'[c].sock = conn[c].sock
                       /\ conn[c].sock # "closed" => conn'[c].first = conn[c].first
                       /\ Greeted(conn[c]) => Greeted(conn'[c])
  BY <1>1 DEF AllMove, Moves
<1>3. \A c \in Conns : Alive(c)' <=> Alive(c)
  BY <1>2 DEF Alive
<1>4. OneChain'
  BY <1>1, <1>2, <1>3 DEF ChainInv, OneChain
<1>5. AllGreeted'
  <2>1. \A c \in Conns : Greeted(conn'[c]) => Greeted(conn[c])'
    BY <1>1 DEF Greeted
  <2> QED
    BY <1>1, <1>2, <2>1 DEF ChainInv, AllGreeted
<1> QED
  BY <1>1, <1>4, <1>5 DEF AllMove

(* A page that has the fields of PageType.                                 *)
LEMMA PageFields ==
    ASSUME page \in PageType
    PROVE  /\ page.timers \in Nat /\ page.ws \in Conns \cup {None} /\ page.ide \in BOOLEAN
           /\ page.form \in {"session", "name", "none"} /\ page.gaveUp \in BOOLEAN
           /\ page.refused \in BOOLEAN
           /\ page.asked \in BOOLEAN
BY DEF PageType

LEMMA DialChain ==
    ASSUME ChainInv, NEW first \in BOOLEAN, Dial(first), deadEnd' = deadEnd, token' = token,
           \/ first /\ page.form # "none"
              /\ doubled' = (doubled \/ \E c \in Conns : conn[c].sock # "closed")
           \/ ~first /\ page.timers > 0 /\ doubled' = doubled
    PROVE  conn' \in [Conns -> Sound] /\ OneChain' /\ AllGreeted'
<1>1. page \in PageType /\ OneChain /\ AllGreeted
  BY DEF ChainInv, JoinInv, TypeOK
<1>2. PICK c \in Conns :
              /\ conn' \in [Conns -> Sound] /\ conn[c].sock = "closed" /\ conn[c].at = "over"
              /\ \A d \in Conns : d # c => conn'[d] = conn[d]
              /\ conn'[c].sock = "connecting" /\ conn'[c].at = "dialed" /\ ~conn'[c].cut
              /\ conn'[c].first = first
              /\ page'.ws = c /\ page'.form = page.form /\ page'.ide = page.ide
              /\ page'.gaveUp = page.gaveUp /\ page'.refused = page.refused
              /\ page'.pwd = page.pwd /\ page'.role = page.role
              /\ page'.asked = page.asked
              /\ page'.timers = IF first THEN page.timers ELSE page.timers - 1
  BY <1>1, DialSound DEF ChainInv
<1>3. page.form # "none" => ~page.ide
  BY <1>1 DEF OneChain
<1>4. ASSUME ~doubled'
      PROVE  /\ ~doubled /\ (\A d \in Conns : ~Alive(d)) /\ page'.timers = 0
             /\ (page.form # "none" => first)
  <2>1. ~doubled
    BY <1>4
  <2>2. page.timers \in Nat
    BY <1>1, PageFields
  <2>3. CASE first
    BY <1>1, <1>2, <1>4, <2>1, <2>2, <2>3 DEF OneChain, Alive
  <2>4. CASE ~first
    <3>1. page.timers = 1 /\ page.form = "none" /\ \A d \in Conns : ~Alive(d)
      BY <1>1, <2>1, <2>2, <2>4 DEF OneChain
    <3> QED
      BY <1>2, <2>1, <2>4, <3>1
  <2> QED
    BY <2>3, <2>4
<1>5. ASSUME ~doubled' PROVE \A d \in Conns : Alive(d)' <=> d = c
  BY <1>2, <1>4, <1>5 DEF Alive
<1>6. OneChain'
  <2>1. (page.form # "none" => ~page.ide)'
    BY <1>2, <1>3
  <2>2. ASSUME ~doubled'
        PROVE  (/\ \A d \in Conns : Alive(d) => page.ws = d /\ page.timers = 0
                /\ page.timers <= 1
                /\ page.form # "none"
                   => /\ page.timers = 0
                      /\ \A d \in Conns : Alive(d) => conn[d].sock = "connecting" /\ conn[d].first
                /\ page.form = "none"
                   => \/ page.timers > 0 \/ page.gaveUp \/ page.refused \/ (page.ide /\ deadEnd)
                      \/ \E d \in Conns : Alive(d))'
    <3>1. page.form # "none" => conn'[c].first
      BY <1>2, <1>4, <2>2
    <3>2. page'.timers = 0 /\ page'.form = page.form /\ page'.ws = c
      BY <1>2, <1>4, <2>2
    <3> QED
      <4>1. \A d \in Conns : Alive(d)' => d = c
        BY <1>5, <2>2
      <4>2. conn'[c].sock = "connecting" /\ Alive(c)'
        BY <1>2 DEF Alive
      <4>3. (\A d \in Conns : Alive(d) => page.ws = d /\ page.timers = 0)'
        BY <3>2, <4>1
      <4>4. page'.form # "none"
            => (\A d \in Conns : Alive(d) => conn[d].sock = "connecting" /\ conn[d].first)'
        BY <3>1, <3>2, <4>1, <4>2
      <4>5. page'.timers <= 1 /\ (\E d \in Conns : Alive(d))'
        BY <3>2, <4>2 DEF Alive
      <4> QED
        BY <3>2, <4>3, <4>4, <4>5 DEF Alive
  <2> QED
    BY <2>1, <2>2 DEF OneChain
<1>7. AllGreeted'
  <2>1. ASSUME ~doubled', NEW d \in Conns PROVE Greeted(conn[d])'
    <3>1. conn'[d].sock # "open"
      BY <1>2, <1>5, <2>1 DEF Alive
    <3> QED
      BY <3>1 DEF Greeted
  <2> QED
    BY <2>1 DEF AllGreeted
<1> QED
  BY <1>2, <1>6, <1>7

(* What the page sends leaves the sockets as they are.                     *)
LEMMA PostChain ==
    ASSUME ChainInv, NEW ms \in Seq(ToRelay), AuthThenIdentify(ms),
           conn' = Post(conn, page.ws, ms), page' \in PageType,
           page'.ws = page.ws, page'.timers = page.timers, page'.gaveUp = page.gaveUp,
           page'.refused = page.refused,
           doubled' = doubled, token' = token,
           \/ /\ Has(ms, "identify") /\ Has(ms, "session_auth")
              /\ page'.form = "none"
              /\ page.timers = 0 => deadEnd' \/ \E c \in Conns : conn[c].sock # "closed"
              /\ page'.ide
           \/ /\ page'.form = page.form /\ deadEnd' = deadEnd
              /\ page'.ide = page.ide /\ page'.pwd = page.pwd
    PROVE  conn' \in [Conns -> Sound] /\ OneChain' /\ AllGreeted'
<1>1. page \in PageType /\ OneChain /\ AllGreeted /\ conn \in [Conns -> Sound]
  BY DEF ChainInv, JoinInv, TypeOK
<1>2. /\ conn' \in [Conns -> Sound]
      /\ \A c \in Conns : Grows(conn[c], conn'[c])
      /\ page.ws # None /\ conn[page.ws].sock = "open" /\ ~conn[page.ws].cut
         => \A type : Has(ms, type) => Has(conn'[page.ws].up, type)
  BY <1>1, PageFields, PostSound
<1>3. \A c \in Conns : (Alive(c)' <=> Alive(c)) /\ conn'[c].sock = conn[c].sock
                       /\ conn'[c].first = conn[c].first
  BY <1>2 DEF Grows, Alive
<1>4. page.timers \in Nat
  BY <1>1, PageFields
<1>5. OneChain'
  <2>1. CASE page'.form = page.form /\ deadEnd' = deadEnd /\ page'.ide = page.ide
    BY <1>1, <1>3, <2>1 DEF OneChain
  <2>2. CASE /\ page'.form = "none" /\ page'.ide
             /\ page.timers = 0 => deadEnd' \/ \E c \in Conns : conn[c].sock # "closed"
    <3>1. (page.timers > 0 \/ (\E c \in Conns : Alive(c))) \/ deadEnd'
      BY <1>4, <2>2 DEF Alive
    <3> QED
      BY <1>1, <1>3, <2>2, <3>1 DEF OneChain
  <2> QED
    BY <2>1, <2>2
<1>6. AllGreeted'
  <2>1. ASSUME ~doubled', NEW c \in Conns, conn'[c].sock = "open", ~conn'[c].cut
        PROVE  Greeted(conn[c])'
    <3>1. Grows(conn[c], conn'[c]) /\ conn[c].sock = "open" /\ ~conn[c].cut /\ Greeted(conn[c])
      BY <1>1, <1>2, <2>1 DEF Grows, AllGreeted
    <3>2. page.ws = c
      BY <1>1, <2>1, <3>1 DEF OneChain, Alive
    <3>3. CASE Has(ms, "identify") /\ Has(ms, "session_auth")
      <4>1. Has(conn'[c].up, "identify") /\ Has(conn'[c].up, "session_auth")
        BY <1>2, <3>1, <3>2, <3>3
      <4> QED
        BY <4>1 DEF Greeted
    <3>4. CASE page'.ide = page.ide /\ page'.pwd = page.pwd
      BY <3>1, <3>4 DEF Greeted, Grows
    <3> QED
      BY <3>3, <3>4
  <2>2. ASSUME ~doubled', NEW c \in Conns, ~(conn'[c].sock = "open" /\ ~conn'[c].cut)
        PROVE  Greeted(conn[c])'
    BY <2>2 DEF Greeted
  <2> QED
    BY <2>1, <2>2 DEF AllGreeted
<1> QED
  BY <1>2, <1>5, <1>6

LEMMA FormsChain ==
    ASSUME ChainInv,
           \/ SubmitSession \/ JoinSession \/ RightPassword \/ WrongPassword \/ RequestEditAccess
           \/ TimerFires
    PROVE  conn' \in [Conns -> Sound] /\ OneChain' /\ AllGreeted'
<1> USE DEF relayVars, hostVars, histVars
<1>1. page \in PageType /\ OneChain /\ AllGreeted /\ conn \in [Conns -> Sound] /\ token \in Tokens
  BY DEF ChainInv, JoinInv, TypeOK
<1>2. page' \in PageType
  <2>1. JoinInv'
    BY FormsStep, PageStep DEF ChainInv
  <2> QED
    BY <2>1 DEF JoinInv, TypeOK
<1>3. CASE SubmitSession
  <2>1. /\ page.form = "session" /\ page'.form = "name" /\ page'.ide = page.ide
        /\ page'.timers = page.timers /\ page'.ws = page.ws /\ page'.pwd = page.pwd
        /\ UNCHANGED <<token, conn, doubled, deadEnd>>
    BY <1>1, <1>3 DEF SubmitSession, PageType
  <2>2. OneChain'
    BY <1>1, <2>1 DEF OneChain, Alive
  <2>3. AllGreeted'
    BY <1>1, <2>1 DEF AllGreeted, Greeted
  <2> QED
    BY <1>1, <2>1, <2>2, <2>3
<1>4. CASE JoinSession
  <2>1. /\ Dial(TRUE) /\ page.form # "none" /\ UNCHANGED <<token, deadEnd>>
        /\ doubled' = (doubled \/ \E c \in Conns : conn[c].sock # "closed")
    BY <1>4 DEF JoinSession
  <2> QED
    BY <2>1, DialChain
<1>5. ASSUME NEW p \in Passwords, SubmitPassword(p)
      PROVE  conn' \in [Conns -> Sound] /\ OneChain' /\ AllGreeted'
  <2> DEFINE ms == AnswerPrompt(p)
  <2>1. /\ ms \in Seq(ToRelay) /\ AuthThenIdentify(ms) /\ Has(ms, "identify")
        /\ Has(ms, "session_auth")
    <3>1. ms \in Seq(ToRelay)
      BY <1>1, MessagesTyped DEF AnswerPrompt, Tokens
    <3> QED
      BY <1>1, <3>1, SentShape
  <2>2. conn' = Post(conn, page.ws, ms) /\ UNCHANGED <<token, doubled>>
    BY <1>5 DEF SubmitPassword
  <2>3. /\ page'.ws = page.ws /\ page'.timers = page.timers
        /\ page'.gaveUp = page.gaveUp /\ page'.refused = page.refused
        /\ page'.form = "none" /\ page'.ide
    BY <1>1, <1>5 DEF SubmitPassword, PageType
  <2>4. page.timers = 0 => deadEnd' \/ \E c \in Conns : conn[c].sock # "closed"
    <3>1. deadEnd' = (deadEnd \/ (page.timers = 0 /\ \A c \in Conns : conn[c].sock = "closed"))
      BY <1>5 DEF SubmitPassword
    <3> QED
      BY <3>1, Zenon
  <2> HIDE DEF ms
  <2> QED
    BY <1>2, <2>1, <2>2, <2>3, <2>4, PostChain
<1>6. CASE RightPassword
  <2>1. \E p \in Passwords : SubmitPassword(p)
    BY <1>6 DEF RightPassword, ChainInv, JoinInv, TypeOK
  <2> QED
    BY <1>5, <2>1
<1>7. CASE WrongPassword
  BY <1>5, <1>7 DEF WrongPassword
<1>8. CASE RequestEditAccess
  <2> DEFINE ms == <<Request>>
  <2>1. ms \in Seq(ToRelay) /\ AuthThenIdentify(ms)
    BY <1>1, MessagesTyped, SentShape
  <2>2. conn' = Post(conn, page.ws, ms) /\ UNCHANGED <<token, doubled, deadEnd>>
    BY <1>8 DEF RequestEditAccess
  <2>3. /\ page'.ws = page.ws /\ page'.timers = page.timers
        /\ page'.gaveUp = page.gaveUp /\ page'.refused = page.refused
        /\ page'.form = page.form /\ page'.ide = page.ide /\ page'.pwd = page.pwd
    BY <1>1, <1>8 DEF RequestEditAccess, PageType
  <2> HIDE DEF ms
  <2> QED
    BY <1>2, <2>1, <2>2, <2>3, PostChain
<1>9. CASE TimerFires /\ page.attempts < MaxReconnects
  <2>1. Dial(FALSE) /\ page.timers > 0 /\ UNCHANGED <<token, doubled, deadEnd>>
    BY <1>9 DEF TimerFires
  <2> QED
    BY <2>1, DialChain
<1>10. CASE TimerFires /\ ~(page.attempts < MaxReconnects)
  <2>1. /\ page.timers > 0 /\ page'.timers = page.timers - 1 /\ page'.gaveUp
        /\ page'.form = page.form /\ page'.ws = page.ws /\ page'.ide = page.ide
        /\ page'.pwd = page.pwd /\ UNCHANGED <<token, conn, doubled, deadEnd>>
    <3>1. /\ page' = [page EXCEPT !.timers = @ - 1, !.attempts = MaxReconnects + 1,
                                  !.gaveUp = TRUE]
          /\ page.timers > 0 /\ UNCHANGED <<token, conn, doubled, deadEnd>>
      BY <1>10 DEF TimerFires
    <3>2. page'.gaveUp = TRUE
      BY <1>1, <3>1 DEF PageType
    <3> QED
      BY <1>1, <3>1, <3>2 DEF PageType
  <2>2. page.timers \in Nat
    BY <1>1, PageFields
  <2>3. OneChain'
    BY <1>1, <2>1, <2>2 DEF OneChain, Alive
  <2>4. AllGreeted'
    BY <1>1, <2>1 DEF AllGreeted, Greeted
  <2> QED
    BY <1>1, <2>1, <2>3, <2>4
<1> QED
  BY <1>3, <1>4, <1>6, <1>7, <1>8, <1>9, <1>10

(* What the page makes of a message (handleMessage).                       *)
LEMMA HandleOthers ==
    ASSUME NEW pg \in PageType, NEW m \in ToPage, NEW first \in BOOLEAN,
           m.type \notin {"open", "close", "refuse"}
    PROVE  LET q == Handle(pg, m, first)
           IN  /\ q.ws = pg.ws /\ q.timers = pg.timers
               /\ q.gaveUp = pg.gaveUp /\ q.refused = pg.refused
               /\ \/ q.ide = pg.ide /\ q.form = pg.form /\ q.pwd = pg.pwd /\ m.type # "wrong"
                     /\ (m.type = "password_required" => ~(pg.pwd = None /\ token = "none"))
                  \/ ~q.ide /\ q.form = "none"
               /\ q.asked => pg.asked /\ m.type \notin {"list", "denied"}
               /\ m.type # "list" => q.role = pg.role
               /\ m.type = "list" => q.role = IF m.role = None THEN pg.role ELSE m.role
<1>1. m.type \in {"password_required", "wrong", "many", "list", "denied"}
  BY DEF ToPage
<1>2. CASE m.type = "password_required"
  <2>1. Handle(pg, m, first) = OnPasswordRequired(pg)
    BY <1>2 DEF Handle
  <2>2. CASE pg.pwd = None /\ token = "none"
    BY <1>2, <2>1, <2>2 DEF OnPasswordRequired, Prompt, PageType
  <2>3. CASE ~(pg.pwd = None /\ token = "none")
    BY <1>2, <2>1, <2>3 DEF OnPasswordRequired
  <2> QED
    BY <2>2, <2>3
<1>3. CASE m.type = "wrong"
  BY <1>3 DEF Handle, Prompt, PageType
<1>4. CASE m.type = "many"
  BY <1>4 DEF Handle
<1>5. CASE m.type = "list"
  <2>1. Handle(pg, m, first) = OnList(pg, m.role)
    BY <1>5 DEF Handle
  <2> QED
    BY <1>5, <2>1 DEF OnList, ApplyRoleRestrictions, PageType
<1>6. CASE m.type = "denied"
  BY <1>6 DEF Handle, PageType
<1> QED
  BY <1>1, <1>2, <1>3, <1>4, <1>5, <1>6

LEMMA HandleOpen ==
    ASSUME NEW pg \in PageType, NEW m \in ToPage, NEW first \in BOOLEAN, m.type = "open"
    PROVE  LET q == Handle(pg, m, first)
           IN  /\ q.ws = pg.ws /\ q.role = pg.role /\ q.asked = pg.asked /\ q.pwd = pg.pwd
               /\ q.timers = pg.timers
               /\ first => q.form = "none" /\ q.ide
               /\ ~first => q.form = pg.form /\ q.ide = pg.ide
<1>1. Handle(pg, m, first) = OnOpen(pg, first)
  BY DEF Handle
<1>2. CASE first
  <2> DEFINE q == [pg EXCEPT !.ide = TRUE, !.form = "none"]
  <2>1. Handle(pg, m, first) = q
    BY <1>1, <1>2 DEF OnOpen
  <2>2. q.ide = TRUE
    BY DEF PageType
  <2> QED
    BY <1>2, <2>1, <2>2 DEF PageType
<1>3. CASE ~first
  BY <1>1, <1>3 DEF OnOpen, PageType
<1> QED
  BY <1>2, <1>3

LEMMA HandleEnd ==
    ASSUME NEW pg \in PageType, NEW m \in ToPage, NEW first \in BOOLEAN,
           m.type \in {"close", "refuse"}
    PROVE  LET q == Handle(pg, m, first)
           IN  /\ q.ws = pg.ws /\ q.role = pg.role /\ q.asked = pg.asked /\ q.pwd = pg.pwd
               /\ q.ide = pg.ide
               /\ \/ first /\ ~pg.ide /\ q.form = "session" /\ q.timers = pg.timers
                  \/ ~(first /\ ~pg.ide) /\ q.form = pg.form /\ q.timers = pg.timers + 1
                  \/ (q.gaveUp \/ q.refused) /\ q.form = pg.form /\ q.timers = pg.timers
<1>1. CASE m.type = "close"
  <2>1. Handle(pg, m, first) = OnClose(pg, first)
    BY <1>1 DEF Handle
  <2>2. CASE first /\ ~pg.ide
    BY <2>1, <2>2 DEF OnClose, PageType
  <2>3. CASE ~(first /\ ~pg.ide)
    BY <2>1, <2>3 DEF OnClose, PageType
  <2> QED
    BY <2>2, <2>3
<1>2. CASE m.type = "refuse"
  <2>1. Handle(pg, m, first) = OnRefuse(pg, first)
    BY <1>2 DEF Handle
  <2>2. CASE first
    <3>1. Handle(pg, m, first) = [pg EXCEPT !.gaveUp = TRUE]
      BY <2>1, <2>2 DEF OnRefuse
    <3>2. Handle(pg, m, first).gaveUp = TRUE
      BY <3>1 DEF PageType
    <3> QED
      BY <3>1, <3>2 DEF PageType
  <2>3. CASE ~first
    <3>1. Handle(pg, m, first) = [pg EXCEPT !.refused = TRUE]
      BY <2>1, <2>3 DEF OnRefuse
    <3>2. Handle(pg, m, first).refused = TRUE
      BY <3>1 DEF PageType
    <3> QED
      BY <3>1, <3>2 DEF PageType
  <2> QED
    BY <2>2, <2>3
<1> QED
  BY <1>1, <1>2

(* The page reads from a connection it has.                                *)
LEMMA DeliverFacts ==
    ASSUME ChainInv, NEW c \in Conns, Deliver(c)
    PROVE  /\ Head(conn[c].down) \in ToPage /\ conn[c].first \in BOOLEAN
           /\ page' = Handle(page, Head(conn[c].down), conn[c].first) /\ page \in PageType
           /\ UNCHANGED <<token, late, toasts, unheard, oldList, doubled, deadEnd>>
           /\ conn[c].sock # "closed" /\ conn[c].down \in Seq(ToPage) /\ conn[c].down # <<>>
           /\ ~doubled => /\ page.ws = c /\ page.timers = 0
                          /\ \A d \in Conns : Alive(d) => d = c
<1>1. conn[c].down # <<>> /\ conn[c] \in ConnType /\ conn[c].sock # "closed"
  BY DEF Deliver, ChainInv, Sound
<1>2. Head(conn[c].down) \in ToPage /\ conn[c].first \in BOOLEAN /\ conn[c].down \in Seq(ToPage)
  BY <1>1 DEF ConnType
<1>3. /\ page' = Handle(page, Head(conn[c].down), conn[c].first)
      /\ UNCHANGED <<token, late, toasts, unheard, oldList, doubled, deadEnd>>
  BY DEF Deliver, relayVars, hostVars, histVars
<1>4. ~doubled => page.ws = c /\ page.timers = 0 /\ \A d \in Conns : Alive(d) => d = c
  BY <1>1 DEF ChainInv, OneChain, Alive
<1> QED
  BY <1>1, <1>2, <1>3, <1>4 DEF ChainInv, JoinInv, TypeOK

LEMMA OpenChain ==
    ASSUME ChainInv, NEW c \in Conns, Deliver(c), Head(conn[c].down).type = "open"
    PROVE  conn' \in [Conns -> Sound] /\ OneChain' /\ AllGreeted'
<1> DEFINE k == conn[c]
           n == conn'[c]
           ms == Append(Credentials(page), Identify)
           m == Head(k.down)
           f == k.first
<1>0. m \in ToPage /\ f \in BOOLEAN /\ page \in PageType /\ page' = Handle(page, m, f)
  BY DeliverFacts
<1>1. OneChain /\ AllGreeted /\ JoinInv /\ conn \in [Conns -> Sound] /\ token \in Tokens
  BY DEF ChainInv, JoinInv, TypeOK
<1>2. /\ page \in PageType /\ UNCHANGED <<token, doubled, deadEnd>> /\ k.sock # "closed"
      /\ ~doubled => /\ page.ws = c /\ page.timers = 0
                     /\ \A d \in Conns : Alive(d) => d = c
  BY DeliverFacts
<1>3. /\ page'.ws = page.ws /\ page'.pwd = page.pwd /\ page'.timers = page.timers
      /\ k.first => page'.form = "none"
      /\ ~k.first => page'.form = page.form /\ page'.ide = page.ide
  <2>1. m.type = "open"
    OBVIOUS
  <2> HIDE DEF m, f
  <2>2. LET q == Handle(page, m, f)
        IN  /\ q.ws = page.ws /\ q.pwd = page.pwd /\ q.timers = page.timers
            /\ f => q.form = "none"
            /\ ~f => q.form = page.form /\ q.ide = page.ide
    BY <1>0, <2>1, HandleOpen
  <2> QED
    BY <1>0, <2>2 DEF f
<1> HIDE DEF m, f
<1>4. /\ conn' \in [Conns -> Sound]
      /\ \A d \in Conns : d # c => Grows(conn[d], conn'[d])
      /\ n.sock = "open" /\ n.at = k.at /\ n.cut = k.cut /\ n.down = Tail(k.down) /\ k.down # <<>>
      /\ ~k.cut => k.sock = "connecting"
      /\ ~k.cut /\ page.ws = c => \A type : Has(ms, type) => Has(n.up, type)
  BY <1>1, DeliverOpens
<1>5. /\ Has(ms, "identify")
      /\ page.pwd # None \/ token # "none" => Has(ms, "session_auth")
  BY <1>1, <1>2, SentShape
<1> HIDE DEF ms
<1>6. ASSUME ~doubled', NEW d \in Conns PROVE Alive(d)' <=> d = c
  BY <1>2, <1>4, <1>6 DEF Grows, Alive
<1>7. ~doubled' => page'.form = "none"
  <2>1. ~doubled /\ page.form # "none" => k.first
    BY <1>1, <1>2 DEF OneChain, Alive
  <2> QED
    BY <1>2, <1>3, <2>1
<1>8. OneChain'
  <2>1. page'.form # "none" => ~page'.ide
    BY <1>1, <1>3 DEF OneChain
  <2>2. ~doubled' => page'.timers = 0 /\ page'.ws = c
    BY <1>2, <1>3
  <2> QED
    BY <1>6, <1>7, <2>1, <2>2 DEF OneChain, Alive
<1>9. ASSUME ~doubled', ~n.cut PROVE Greeted(conn[c])'
  <2>1. ~doubled /\ ~k.cut /\ page.ws = c
    BY <1>2, <1>4, <1>9
  <2>2. Has(n.up, "identify") /\ (page.pwd # None \/ token # "none" => Has(n.up, "session_auth"))
    BY <1>4, <1>5, <2>1
  <2>3. n.at = "locked" => Has(n.down, "password_required")
    <3> DEFINE a == Say("open")
               b == Say("password_required")
    <3>1. a \in ToPage /\ b \in ToPage /\ b.type = "password_required"
      BY <1>1, MessagesTyped DEF Say
    <3>2. n.at = "locked" => k.down = <<a>> \o <<b>>
      BY <1>1, <1>4, <2>1 DEF Sound, Shape
    <3> HIDE DEF a, b
    <3>3. k.down = <<a>> \o <<b>> => 1 \in DOMAIN Tail(k.down) /\ Tail(k.down)[1] = b
      <4> SUFFICES ASSUME k.down = <<a>> \o <<b>>
                   PROVE  1 \in DOMAIN Tail(k.down) /\ Tail(k.down)[1] = b
        OBVIOUS
      <4>1. k.down \in Seq(ToPage) /\ Len(k.down) = 2 /\ k.down[2] = b
        BY <3>1
      <4> QED
        BY <4>1
    <3> QED
      BY <1>4, <3>1, <3>2, <3>3 DEF Has
  <2> QED
    BY <1>2, <1>3, <2>2, <2>3 DEF Greeted
<1>10. AllGreeted'
  <2>1. ASSUME ~doubled', NEW d \in Conns, d # c PROVE Greeted(conn[d])'
    BY <1>6, <2>1 DEF Greeted, Alive
  <2>2. ASSUME ~doubled', n.cut PROVE Greeted(conn[c])'
    BY <2>2 DEF Greeted
  <2> QED
    BY <1>9, <2>1, <2>2 DEF AllGreeted
<1> QED
  BY <1>4, <1>8, <1>10

LEMMA EndChain ==
    ASSUME ChainInv, NEW c \in Conns, Deliver(c), Head(conn[c].down).type \in {"close", "refuse"}
    PROVE  conn' \in [Conns -> Sound] /\ OneChain' /\ AllGreeted'
<1> DEFINE k == conn[c]
           n == conn'[c]
           m == Head(k.down)
           f == k.first
<1>0. m \in ToPage /\ f \in BOOLEAN /\ page \in PageType /\ page' = Handle(page, m, f)
  BY DeliverFacts
<1>1. OneChain /\ JoinInv /\ conn \in [Conns -> Sound]
  BY DEF ChainInv
<1>2. /\ page \in PageType /\ UNCHANGED <<token, doubled, deadEnd>> /\ k.sock # "closed"
      /\ ~doubled => /\ page.ws = c /\ page.timers = 0
                     /\ \A d \in Conns : Alive(d) => d = c
  BY DeliverFacts
<1>3. /\ page'.ide = page.ide
      /\ \/ k.first /\ ~page.ide /\ page'.form = "session" /\ page'.timers = page.timers
         \/ ~(k.first /\ ~page.ide) /\ page'.form = page.form /\ page'.timers = page.timers + 1
         \/ (page'.gaveUp \/ page'.refused) /\ page'.form = page.form /\ page'.timers = page.timers
  <2>1. m.type \in {"close", "refuse"}
    OBVIOUS
  <2> HIDE DEF m, f
  <2>2. LET q == Handle(page, m, f)
        IN  /\ q.ide = page.ide
            /\ \/ f /\ ~page.ide /\ q.form = "session" /\ q.timers = page.timers
               \/ ~(f /\ ~page.ide) /\ q.form = page.form /\ q.timers = page.timers + 1
               \/ (q.gaveUp \/ q.refused) /\ q.form = page.form /\ q.timers = page.timers
    BY <1>0, <2>1, HandleEnd
  <2> QED
    BY <1>0, <2>2 DEF f
<1> HIDE DEF m, f
<1>4. /\ conn' \in [Conns -> Sound] /\ \A d \in Conns : d # c => conn'[d] = conn[d]
      /\ n.sock = "closed"
  BY <1>1, DeliverEnds
<1>5. ASSUME ~doubled', NEW d \in Conns PROVE ~Alive(d)'
  BY <1>2, <1>4, <1>5 DEF Alive
<1>6. (page.form # "none" => ~page.ide) /\ (~doubled /\ page.form # "none" => k.first)
  BY <1>1, <1>2 DEF OneChain, Alive
<1>7. OneChain'
  BY <1>2, <1>3, <1>5, <1>6 DEF OneChain, Alive
<1>8. AllGreeted'
  BY <1>5 DEF AllGreeted, Greeted, Alive
<1> QED
  BY <1>4, <1>7, <1>8

LEMMA ReadChain ==
    ASSUME ChainInv, NEW c \in Conns, Deliver(c),
           Head(conn[c].down).type \notin {"open", "close", "refuse"}
    PROVE  conn' \in [Conns -> Sound] /\ OneChain' /\ AllGreeted'
<1> DEFINE k == conn[c]
           n == conn'[c]
           m == Head(k.down)
           f == k.first
<1>0. m \in ToPage /\ f \in BOOLEAN /\ page \in PageType /\ page' = Handle(page, m, f)
  BY DeliverFacts
<1>1. OneChain /\ AllGreeted /\ JoinInv /\ conn \in [Conns -> Sound]
  BY DEF ChainInv
<1>2. /\ page \in PageType /\ UNCHANGED <<token, doubled, deadEnd>> /\ k.sock # "closed"
      /\ k.down \in Seq(ToPage) /\ k.down # <<>>
  BY DeliverFacts
<1>3. /\ page'.ws = page.ws /\ page'.timers = page.timers
      /\ page'.gaveUp = page.gaveUp /\ page'.refused = page.refused
      /\ \/ page'.ide = page.ide /\ page'.form = page.form /\ page'.pwd = page.pwd
            /\ m.type # "wrong"
            /\ (m.type = "password_required" => ~(page.pwd = None /\ token = "none"))
         \/ ~page'.ide /\ page'.form = "none"
  <2>1. m.type \notin {"open", "close", "refuse"}
    OBVIOUS
  <2> HIDE DEF m, f
  <2> QED
    BY <1>0, <2>1, HandleOthers
<1>4. /\ conn' \in [Conns -> Sound] /\ \A d \in Conns : d # c => conn'[d] = conn[d]
      /\ n.down = Tail(k.down) /\ n.sock = k.sock /\ n.first = k.first /\ n.at = k.at
      /\ n.cut = k.cut /\ n.up = k.up
  BY <1>1, DeliverReads
<1>5. \A d \in Conns : /\ Alive(d)' <=> Alive(d)
                       /\ conn'[d].sock = conn[d].sock /\ conn'[d].first = conn[d].first
  BY <1>4 DEF Alive
<1>6. \A type : Has(k.down, type) <=> m.type = type \/ Has(n.down, type)
  BY <1>2, <1>4, HasTail
<1> HIDE DEF m
<1>7. OneChain'
  <2>1. CASE page'.ide = page.ide /\ page'.form = page.form
    BY <1>1, <1>2, <1>3, <1>5, <2>1 DEF OneChain, Alive
  <2>2. CASE ~page'.ide /\ page'.form = "none"
    BY <1>1, <1>2, <1>3, <1>5, <2>2 DEF OneChain, Alive
  <2> QED
    BY <1>3, <2>1, <2>2
<1>8. AllGreeted'
  <2>1. ASSUME NEW d \in Conns, Greeted(conn[d]) PROVE Greeted(conn[d])'
    <3>1. CASE ~page'.ide /\ page'.form = "none"
      <4>1. conn'[d].sock = conn[d].sock /\ conn'[d].at = conn[d].at /\ conn'[d].cut = conn[d].cut
            /\ conn'[d].up = conn[d].up
        BY <1>4
      <4> QED
        BY <2>1, <3>1, <4>1 DEF Greeted
    <3>2. CASE /\ page'.ide = page.ide /\ page'.pwd = page.pwd /\ m.type # "wrong"
               /\ m.type = "password_required" => ~(page.pwd = None /\ token = "none")
      <4>1. CASE d # c
        BY <1>2, <1>4, <2>1, <3>2, <4>1 DEF Greeted
      <4>2. CASE d = c
        BY <1>2, <1>4, <1>6, <2>1, <3>2, <4>2 DEF Greeted
      <4> QED
        BY <4>1, <4>2
    <3> QED
      BY <1>3, <3>1, <3>2
  <2> QED
    BY <1>1, <1>2, <2>1 DEF AllGreeted
<1> QED
  BY <1>4, <1>7, <1>8

LEMMA NextActs ==
    ASSUME JoinInv, Next
    PROVE  \/ RelayAct
           \/ SubmitSession \/ JoinSession \/ RightPassword \/ WrongPassword \/ RequestEditAccess
           \/ TimerFires \/ \E c \in Conns : Deliver(c)
BY DEF Next, System, Users, Faults, RelayAct

LEMMA InitChain == Init => ChainInv
<1> SUFFICES ASSUME Init PROVE ChainInv
  OBVIOUS
<1>1. /\ conn = [c \in Conns |-> Idle] /\ page.form = "name" /\ ~page.ide /\ page.timers = 0
  BY DEF Init
<1>2. conn \in [Conns -> Sound] /\ \A c \in Conns : conn[c].sock = "closed"
  BY <1>1, IdleSound
<1>3. OneChain
  <2>1. page.timers <= 1 /\ \A c \in Conns : ~Alive(c)
    BY <1>1, <1>2 DEF Alive
  <2>2. page.form # "none"
    BY <1>1
  <2> QED
    BY <1>1, <2>1, <2>2 DEF OneChain
<1>4. AllGreeted
  BY <1>2 DEF AllGreeted, Greeted
<1> QED
  BY <1>2, <1>3, <1>4, InitJoin DEF ChainInv

LEMMA ChainStep == ChainInv /\ [Next]_vars => ChainInv'
<1> SUFFICES ASSUME ChainInv, [Next]_vars PROVE ChainInv'
  OBVIOUS
<1>1. JoinInv'
  BY JoinStep DEF ChainInv
<1>2. CASE Next
  <2>1. conn' \in [Conns -> Sound] /\ OneChain' /\ AllGreeted'
    BY <1>2, NextActs, RelayChain, FormsChain, OpenChain, EndChain, ReadChain DEF ChainInv
  <2> QED
    BY <1>1, <2>1 DEF ChainInv
<1>3. CASE UNCHANGED vars
  <2>1. UNCHANGED <<token, conn, page, doubled, deadEnd>>
    BY <1>3 DEF vars, histVars
  <2>2. conn' \in [Conns -> Sound] /\ OneChain' /\ AllGreeted'
    BY <2>1 DEF ChainInv, OneChain, AllGreeted, Greeted, Alive
  <2> QED
    BY <1>1, <2>2 DEF ChainInv
<1> QED
  BY <1>2, <1>3

-----------------------------------------------------------------------------
(* The role the page goes by when it has read what is on its way to it.    *)

(* The last list of s, or r when there is none, is one of R.               *)
Ends(s, R, r) ==
    /\ ~Has(s, "list") => r \in R
    /\ \A i \in DOMAIN s :
          s[i].type = "list" /\ (\A j \in DOMAIN s : i < j => s[j].type # "list")
          => s[i].role \in R

LEMMA EndsAppend ==
    ASSUME NEW S, NEW s \in Seq(S), NEW m \in S, NEW R, NEW r
    PROVE  /\ m.type = "list" /\ m.role \in R => Ends(Append(s, m), R, r)
           /\ m.type # "list" /\ Ends(s, R, r) => Ends(Append(s, m), R, r)
<1> DEFINE t == Append(s, m)
<1>1. /\ DOMAIN t = 1 .. Len(s) + 1 /\ DOMAIN s = 1 .. Len(s) /\ Len(s) \in Nat
      /\ t[Len(s) + 1] = m /\ \A i \in 1 .. Len(s) : t[i] = s[i]
  OBVIOUS
<1> HIDE DEF t
<1>2. Len(s) + 1 \in DOMAIN t /\ \A i \in DOMAIN t : i \in DOMAIN s \/ i = Len(s) + 1
  BY <1>1
<1>3. \A i \in DOMAIN s : i \in DOMAIN t /\ t[i] = s[i] /\ i < Len(s) + 1
  BY <1>1
<1>4. ASSUME m.type = "list", m.role \in R PROVE Ends(t, R, r)
  <2>1. Has(t, "list")
    BY <1>1, <1>2, <1>4 DEF Has
  <2>2. ASSUME NEW i \in DOMAIN t, t[i].type = "list",
               \A j \in DOMAIN t : i < j => t[j].type # "list"
        PROVE  t[i].role \in R
    BY <1>1, <1>2, <1>3, <1>4, <2>2
  <2> QED
    BY <2>1, <2>2 DEF Ends
<1>5. ASSUME m.type # "list", Ends(s, R, r) PROVE Ends(t, R, r)
  <2>1. Has(s, "list") => Has(t, "list")
    BY <1>3 DEF Has
  <2>2. ASSUME NEW i \in DOMAIN t, t[i].type = "list",
               \A j \in DOMAIN t : i < j => t[j].type # "list"
        PROVE  t[i].role \in R
    <3>1. i \in DOMAIN s /\ t[i] = s[i]
      BY <1>1, <1>2, <1>3, <1>5, <2>2
    <3>2. \A j \in DOMAIN s : i < j => s[j].type # "list"
      BY <1>3, <2>2
    <3> QED
      BY <1>5, <2>2, <3>1, <3>2 DEF Ends
  <2> QED
    BY <1>5, <2>1, <2>2 DEF Ends
<1> QED
  BY <1>4, <1>5 DEF t

LEMMA EndsTail ==
    ASSUME NEW S, NEW s \in Seq(S), s # <<>>, NEW R, NEW r, NEW q, Ends(s, R, r),
           Head(s).type # "list" => q = r,
           Head(s).type = "list" /\ Head(s).role \in R => q = Head(s).role
    PROVE  Ends(Tail(s), R, q)
<1> DEFINE t == Tail(s)
<1>1. /\ Len(s) \in Nat \ {0} /\ DOMAIN t = 1 .. Len(s) - 1 /\ DOMAIN s = 1 .. Len(s)
      /\ \A i \in 1 .. Len(s) - 1 : t[i] = s[i + 1]
      /\ Head(s) = s[1]
  OBVIOUS
<1> HIDE DEF t
<1>2. /\ \A i \in DOMAIN s : i = 1 \/ (i - 1 \in DOMAIN t /\ t[i - 1] = s[i])
      /\ \A i \in DOMAIN t : i + 1 \in DOMAIN s /\ t[i] = s[i + 1]
      /\ 1 \in DOMAIN s
  BY <1>1
<1>3. ASSUME ~Has(t, "list") PROVE q \in R
  <2>1. \A j \in DOMAIN s : 1 < j => s[j].type # "list"
    BY <1>1, <1>2, <1>3 DEF Has
  <2>2. CASE Head(s).type = "list"
    <3>1. s[1].role \in R
      BY <1>1, <1>2, <2>1, <2>2 DEF Ends
    <3> QED
      BY <1>1, <2>2, <3>1
  <2>3. CASE Head(s).type # "list"
    <3>1. ~Has(s, "list")
      BY <1>1, <1>2, <2>1, <2>3 DEF Has
    <3> QED
      BY <2>3, <3>1 DEF Ends
  <2> QED
    BY <2>2, <2>3
<1>4. ASSUME NEW i \in DOMAIN t, t[i].type = "list",
             \A j \in DOMAIN t : i < j => t[j].type # "list"
      PROVE  t[i].role \in R
  <2>1. i + 1 \in DOMAIN s /\ s[i + 1] = t[i]
    BY <1>2
  <2>2. ASSUME NEW j \in DOMAIN s, i + 1 < j PROVE s[j].type # "list"
    <3>1. i \in Nat /\ i >= 1 /\ j \in Nat
      BY <1>1
    <3>2. j - 1 \in DOMAIN t /\ t[j - 1] = s[j] /\ i < j - 1
      BY <1>2, <2>2, <3>1
    <3> QED
      BY <1>4, <3>2
  <2> QED
    BY <1>4, <2>1, <2>2 DEF Ends
<1> QED
  BY <1>3, <1>4 DEF Ends, t

(* A participant's connection that is there.                               *)
Here(k) == k.at = "in" /\ ~k.cut

AllTold ==
    ~doubled /\ ~oldList /\ late = Nothing
    => \A c \in Conns : Here(conn[c]) => Ends(conn[c].down, OwnRoles(conn), page.role)

(* No participant comes, goes or gets a role, and no list is lost.         *)
SameList(k, n) ==
    /\ n.at = "in" <=> k.at = "in"
    /\ n.at = "in" => n.role = k.role
    /\ Here(n) => Here(k) /\ \A R, r : Ends(k.down, R, r) => Ends(n.down, R, r)

LEMMA SameListNot == \A k : SameList(k, k)
BY DEF SameList

LEMMA SameRoles ==
    ASSUME NEW cs, NEW ds,
           \A c \in Conns : (ds[c].at = "in" <=> cs[c].at = "in")
                            /\ (ds[c].at = "in" => ds[c].role = cs[c].role)
    PROVE  OwnRoles(ds) = OwnRoles(cs)
<1> DEFINE In(x) == {c \in Conns : x[c].at = "in"}
<1>1. In(ds) = In(cs)
  OBVIOUS
<1>2. {ds[c].role : c \in In(ds)} = {cs[c].role : c \in In(cs)}
  BY <1>1
<1> QED
  BY <1>1, <1>2 DEF OwnRoles

LEMMA FrameTold ==
    ASSUME AllTold, \A c \in Conns : SameList(conn[c], conn'[c]),
           UNCHANGED <<late, oldList>>, doubled => doubled', page'.role = page.role
    PROVE  AllTold'
<1>1. OwnRoles(conn') = OwnRoles(conn)
  BY SameRoles DEF SameList
<1>2. ASSUME ~doubled', ~oldList', late' = Nothing, NEW c \in Conns, Here(conn'[c])
      PROVE  Ends(conn'[c].down, OwnRoles(conn'), page'.role)
  <2>1. Here(conn[c]) /\ Ends(conn[c].down, OwnRoles(conn), page.role)
    BY <1>2 DEF AllTold, SameList
  <2> QED
    BY <1>1, <1>2, <2>1 DEF SameList
<1> QED
  BY <1>2 DEF AllTold, Here, OwnRoles

(* A message for everyone.                                                 *)
LEMMA PutAllEach ==
    ASSUME NEW cs \in [Conns -> Sound], NEW m \in ToPage,
            NEW ds, ds = PutAll(cs, m), NEW c \in Conns
    PROVE  /\ ds[c].at = cs[c].at /\ ds[c].role = cs[c].role /\ ds[c].cut = cs[c].cut
           /\ ds[c].up = cs[c].up
           /\ Here(ds[c]) => Here(cs[c]) /\ ds[c].down = Append(cs[c].down, m)
<1>1. cs[c] \in ConnType /\ cs[c].down \in Seq(ToPage)
  BY DEF Sound, ConnType
<1>2. ds[c] = IF cs[c].at = "in" /\ ~cs[c].cut
                 THEN [cs[c] EXCEPT !.down = Append(@, m)] ELSE cs[c]
  BY DEF PutAll
<1>3. CASE cs[c].at = "in" /\ ~cs[c].cut
  <2>1. /\ ds[c].at = cs[c].at /\ ds[c].role = cs[c].role /\ ds[c].cut = cs[c].cut
        /\ ds[c].up = cs[c].up /\ ds[c].down = Append(cs[c].down, m)
    BY <1>1, <1>2, <1>3 DEF ConnType
  <2> QED
    BY <1>3, <2>1 DEF Here
<1>4. CASE ~(cs[c].at = "in" /\ ~cs[c].cut)
  BY <1>2, <1>4 DEF Here
<1> QED
  BY <1>3, <1>4

(* A list that is written tells every page one of the roles.               *)
LEMMA ListTold ==
    ASSUME NEW cs \in [Conns -> Sound], NEW r \in Roles \cup {None},
           conn' = PutAll(cs, List(r)), ~oldList' => r \in OwnRoles(cs)
    PROVE  AllTold'
<1> DEFINE m == List(r)
<1>1. m \in ToPage /\ m.type = "list" /\ m.role = r
  BY ListTyped, ListIs
<1> HIDE DEF m
<1>2. conn' = PutAll(cs, m)
  BY DEF m
<1>3. ASSUME NEW c \in Conns
      PROVE  /\ conn'[c].at = cs[c].at /\ conn'[c].role = cs[c].role
             /\ Here(conn'[c]) => conn'[c].down = Append(cs[c].down, m)
  <2> DEFINE ds == conn'
  <2>1. ds = PutAll(cs, m)
    BY <1>2
  <2> HIDE DEF ds
  <2>2. /\ ds[c].at = cs[c].at /\ ds[c].role = cs[c].role /\ ds[c].cut = cs[c].cut
        /\ ds[c].up = cs[c].up
        /\ Here(ds[c]) => Here(cs[c]) /\ ds[c].down = Append(cs[c].down, m)
    <3>1. cs \in [Conns -> Sound] /\ c \in Conns /\ m \in ToPage
      BY <1>1
    <3> QED
      BY ONLY <2>1, <3>1, PutAllEach
  <2> QED
    BY <2>2 DEF ds
<1>4. OwnRoles(conn') = OwnRoles(cs)
  BY <1>3, SameRoles
<1>5. ASSUME ~oldList', NEW c \in Conns, Here(conn'[c])
      PROVE  Ends(conn'[c].down, OwnRoles(conn'), page'.role)
  <2>1. cs[c].down \in Seq(ToPage)
    BY DEF Sound, ConnType
  <2>2. r \in OwnRoles(cs) /\ conn'[c].down = Append(cs[c].down, m)
    BY <1>3, <1>5
  <2>3. \A R, x : m.role \in R => Ends(Append(cs[c].down, m), R, x)
    BY <1>1, <2>1, EndsAppend
  <2> QED
    BY <1>1, <1>4, <2>2, <2>3
<1> QED
  BY <1>5 DEF AllTold, Here, OwnRoles

LEMMA BroadcastTold ==
    ASSUME NEW cs \in [Conns -> Sound], Broadcast(cs)
    PROVE  AllTold'
<1>1. PICK r \in OwnRoles(cs) :
           \/ conn' = PutAll(cs, List(r)) /\ oldList' = FALSE /\ UNCHANGED late
           \/ late' = r
  BY DEF Broadcast
<1>2. r \in Roles \cup {None}
  <2>1. \A c \in Conns : cs[c].role \in Roles \cup {None}
    BY DEF Sound, ConnType
  <2> QED
    BY <2>1 DEF OwnRoles
<1>3. CASE late' = r
  <2>1. late' # Nothing
    BY <1>2, <1>3 DEF Nothing
  <2> QED
    BY <2>1 DEF AllTold, Nothing
<1>4. CASE conn' = PutAll(cs, List(r))
  BY <1>2, <1>4, ListTold
<1> QED
  BY <1>1, <1>3, <1>4

-----------------------------------------------------------------------------
(* What answers a user who waits for the host's approval.                  *)

Waits(k) == Has(k.up, "request_role") \/ Has(k.down, "list") \/ Has(k.down, "denied")

(* The request is on its way, a host shows it, or a list or a denial is on *)
(* its way, which undoes the banner.                                       *)
Pending ==
    page.asked /\ ~unheard /\ page.ws # None /\ Here(conn[page.ws])
    => toasts > 0 \/ late # Nothing \/ Waits(conn[page.ws])

SameWait(k, n) == Here(n) => Here(k) /\ (Waits(k) => Waits(n))
Quietly(k, n) == SameList(k, n) /\ SameWait(k, n)

LEMMA QuietlyNot == \A k : Quietly(k, k)
BY DEF Quietly, SameList, SameWait

LEMMA QuietlyAway ==
    ASSUME NEW k, NEW n, k.at # "in", n.at # "in"
    PROVE  Quietly(k, n)
BY DEF Quietly, SameList, SameWait, Here

LEMMA QuietlyCut ==
    ASSUME NEW k, NEW n, n.at = k.at, n.role = k.role, n.cut
    PROVE  Quietly(k, n)
BY DEF Quietly, SameList, SameWait, Here

LEMMA FramePending ==
    ASSUME Pending, page \in PageType, \A c \in Conns : SameWait(conn[c], conn'[c]),
           unheard => unheard', toasts > 0 => toasts' > 0, late # Nothing => late' # Nothing,
           page'.asked => page.asked, page'.ws = page.ws
    PROVE  Pending'
<1> DEFINE ws == page.ws
<1>1. ASSUME page'.asked, ~unheard', page'.ws # None, Here(conn'[ws])
      PROVE  toasts' > 0 \/ late' # Nothing \/ Waits(conn'[ws])
  <2>1. ws \in Conns
    BY <1>1 DEF PageType
  <2>2. Here(conn[ws]) /\ (Waits(conn[ws]) => Waits(conn'[ws]))
    BY <1>1, <2>1 DEF SameWait
  <2>3. toasts > 0 \/ late # Nothing \/ Waits(conn[ws])
    BY <1>1, <2>2 DEF Pending
  <2> QED
    BY <2>2, <2>3
<1> QED
  BY <1>1 DEF Pending, Here, Waits, Nothing

(* A message for everyone ends the wait.                                   *)
LEMMA PutAllPending ==
    ASSUME NEW cs \in [Conns -> Sound], NEW m \in ToPage, m.type \in {"list", "denied"},
           conn' = PutAll(cs, m), page' \in PageType
    PROVE  Pending'
<1> DEFINE ds == PutAll(cs, m)
<1>1. ASSUME NEW c \in Conns, Here(ds[c]) PROVE Waits(ds[c])
  <2>1. cs[c].down \in Seq(ToPage)
    BY DEF Sound, ConnType
  <2>2. ds = PutAll(cs, m)
    OBVIOUS
  <2> HIDE DEF ds
  <2>3. ds[c].down = Append(cs[c].down, m)
    BY <1>1, <2>2, PutAllEach
  <2>4. Has(Append(cs[c].down, m), m.type)
    BY <2>1, HasAppend
  <2> QED
    BY <2>3, <2>4 DEF Waits
<1> HIDE DEF ds
<1>2. conn' = ds
  BY DEF ds
<1>3. page'.ws # None => page'.ws \in Conns
  BY DEF PageType
<1>4. page'.ws # None /\ Here(conn'[page'.ws]) => Waits(conn'[page'.ws])
  BY <1>1, <1>2, <1>3
<1> QED
  BY <1>4 DEF Pending, Here, Waits

LEMMA ListedPending ==
    ASSUME Listed, page' \in PageType
    PROVE  Pending'
<1>0. PICK cs \in [Conns -> Sound] : Broadcast(cs)
  BY DEF Listed
<1>1. PICK r \in OwnRoles(cs) : conn' = PutAll(cs, List(r)) \/ late' = r
  BY <1>0 DEF Broadcast
<1>2. r \in Roles \cup {None}
  <2>1. \A c \in Conns : cs[c].role \in Roles \cup {None}
    BY DEF Sound, ConnType
  <2> QED
    BY <2>1 DEF OwnRoles
<1>3. CASE late' = r
  <2>1. late' # Nothing
    BY <1>2, <1>3 DEF Nothing
  <2> QED
    BY <2>1 DEF Pending, Nothing
<1>4. CASE conn' = PutAll(cs, List(r))
  <2> DEFINE m == List(r)
  <2>1. m \in ToPage /\ m.type = "list"
    BY <1>2, ListTyped, ListIs
  <2>2. conn' = PutAll(cs, m)
    BY <1>4
  <2> HIDE DEF m
  <2> QED
    BY <2>1, <2>2, PutAllPending
<1> QED
  BY <1>1, <1>3, <1>4

-----------------------------------------------------------------------------
(* Steps after which no list is due.                                       *)

AllQuiet ==
    /\ \A c \in Conns : Quietly(conn[c], conn'[c])
    /\ UNCHANGED <<late, oldList, toasts, unheard>>

LEMMA AcceptQuiet ==
    ASSUME JoinInv, conn \in [Conns -> Sound], NEW c \in Conns, Accept(c) \/ TurnAway(c)
    PROVE  AllQuiet
<1>1. conn[c].at = "dialed" /\ UNCHANGED <<late, oldList, toasts, unheard>>
  BY DEF Accept, TurnAway, hostVars, histVars
<1>2. \A d \in Conns : d # c => conn'[d] = conn[d]
  BY DEF Accept, TurnAway, Put
<1>3. conn'[c].at # "in"
  <2>1. conn[c] \in ConnType
    BY DEF Sound
  <2>2. CASE Accept(c)
    <3> DEFINE k == [conn[c] EXCEPT !.down = <<Say("open")>>]
               w == [k EXCEPT !.at = "waiting"]
               l == [k EXCEPT !.at = "locked"]
               o == [k EXCEPT !.at = "over"]
    <3>1. Say("open") \in ToPage /\ <<Say("open")>> \in Seq(ToPage)
      <4>1. Say("open") \in ToPage
        BY MessagesTyped DEF JoinInv, TypeOK
      <4> QED
        BY <4>1
    <3>2. /\ w \in ConnType /\ w.at = "waiting" /\ l \in ConnType /\ l.at = "locked"
          /\ o \in ConnType /\ o.at = "over"
      BY <2>1, <3>1 DEF ConnType
    <3>3. \/ conn' = [conn EXCEPT ![c] = w]
          \/ conn' = Put([conn EXCEPT ![c] = l], c, Say("password_required"))
          \/ conn' = [conn EXCEPT ![c] = Shut(o, Say("refuse"))]
      BY <2>2 DEF Accept
    <3> HIDE DEF w, l, o
    <3>4. /\ Shut(o, Say("refuse")).at = "over"
          /\ [l EXCEPT !.down = Append(@, Say("password_required"))].at = "locked"
      BY <3>2 DEF Shut, ConnType
    <3> QED
      BY <3>2, <3>3, <3>4 DEF Put
  <2>3. CASE TurnAway(c)
    <3> DEFINE o == [conn[c] EXCEPT !.at = "over"]
    <3>1. o \in ConnType /\ o.at = "over"
      BY <2>1 DEF ConnType
    <3>2. conn' = [conn EXCEPT ![c] = Shut(o, Say("close"))]
      BY <2>3 DEF TurnAway
    <3> HIDE DEF o
    <3> QED
      BY <3>1, <3>2 DEF Shut, ConnType
  <2> QED
    BY <2>2, <2>3
<1>4. ASSUME NEW d \in Conns PROVE Quietly(conn[d], conn'[d])
  <2>1. CASE d = c
    <3>1. conn[c].at # "in"
      BY <1>1
    <3> QED
      BY <1>3, <2>1, <3>1, QuietlyAway
  <2>2. CASE d # c
    BY <1>2, <2>2, QuietlyNot
  <2> QED
    BY <2>1, <2>2
<1> QED
  BY <1>1, <1>4 DEF AllQuiet

LEMMA FaultQuiet ==
    ASSUME conn \in [Conns -> Sound], (\E c \in Conns : Cut(c)) \/ SessionExpires
    PROVE  AllQuiet
<1> DEFINE m == Say("close")
<1>1. UNCHANGED <<late, oldList, toasts, unheard>>
  BY DEF Cut, SessionExpires, relayVars, hostVars, histVars
<1>2. ASSUME NEW d \in Conns PROVE conn[d] \in ConnType
  BY DEF Sound
<1>3. ASSUME NEW d \in Conns PROVE Quietly(conn[d], conn'[d])
  <2> DEFINE j == conn[d]
             k == [j EXCEPT !.down = <<>>]
             a == Shut(k, m)
             b == Shut(j, m)
  <2>1. \/ conn'[d] = j
        \/ conn'[d] = a
        \/ conn'[d] = b
    BY DEF Cut, SessionExpires
  <2>2. k \in ConnType /\ k.at = j.at /\ k.role = j.role
    BY <1>2, NothingSent DEF ConnType
  <2> HIDE DEF k
  <2>3. ASSUME NEW x \in ConnType 
         PROVE  Shut(x, m).cut = TRUE /\ Shut(x, m).at = x.at /\ Shut(x, m).role = x.role
    BY DEF Shut, ConnType
  <2>4. /\ a.cut = TRUE /\ a.at = j.at /\ a.role = j.role
        /\ b.cut = TRUE /\ b.at = j.at /\ b.role = j.role
    BY <1>2, <2>2, <2>3
  <2> HIDE DEF a, b
  <2>5. Quietly(j, a) /\ Quietly(j, b)
    BY <2>4, QuietlyCut
  <2> QED
    BY <2>1, <2>5, QuietlyNot
<1> QED
  BY <1>1, <1>3 DEF AllQuiet

(* What is read, an identify apart: a request reaches the host, or is not  *)
(* heard.                                                                  *)
LEMMA TakeQuiet ==
    ASSUME JoinInv, conn \in [Conns -> Sound], NEW c \in Conns, Take(c),
           ~(conn[c].at = "waiting" /\ Head(conn[c].up).type = "identify")
    PROVE  /\ \A d \in Conns : SameList(conn[d], conn'[d])
           /\ (\A d \in Conns : SameWait(conn[d], conn'[d])) \/ toasts' > 0 \/ unheard'
           /\ UNCHANGED <<late, oldList>> /\ (unheard => unheard') /\ (toasts > 0 => toasts' > 0)
<1> DEFINE j == conn[c]
           m == Head(j.up)
           k == [j EXCEPT !.up = Tail(@)]
           rest == [conn EXCEPT ![c] = k]
           w == [k EXCEPT !.at = "waiting"]
<1>1. j \in ConnType /\ j.up # <<>> /\ j.up \in Seq(ToRelay) /\ toasts \in Nat
  BY DEF Take, Sound, ConnType, JoinInv, TypeOK
<1>2. Tail(j.up) \in Seq(ToRelay)
  BY <1>1
<1>3. /\ k \in ConnType /\ k.at = j.at /\ k.cut = j.cut /\ k.down = j.down /\ k.up = Tail(j.up)
      /\ k.role = j.role
  BY <1>1, <1>2 DEF ConnType
<1>4. /\ rest[c] = k /\ \A d \in Conns : d # c => rest[d] = conn[d]
      /\ rest = [conn EXCEPT ![c] = k]
  OBVIOUS
<1>5. \/ j.at = "locked" /\ ReadLocked(c, m, rest)
      \/ j.at = "waiting" /\ ReadWaiting(c, m, rest)
      \/ j.at = "in" /\ ReadIn(m, rest)
  BY DEF Take
<1>6. ~(j.at = "waiting" /\ m.type = "identify")
  OBVIOUS
<1>7. \A type : Has(j.up, type) => m.type = type \/ Has(k.up, type)
  BY <1>1, <1>3, HasTail
<1>8. \A d \in Conns : d # c => Quietly(conn[d], conn[d])
  BY QuietlyNot
<1> HIDE DEF k, rest, m
<1>9. ASSUME j.at # "in", conn'[c].at # "in", \A d \in Conns : d # c => conn'[d] = conn[d]
      PROVE  \A d \in Conns : Quietly(conn[d], conn'[d])
  BY <1>8, <1>9, QuietlyAway
<1>10. CASE j.at = "locked" /\ ReadLocked(c, m, rest)
  <2>1. UNCHANGED <<late, oldList, toasts, unheard>>
    BY <1>10 DEF ReadLocked
  <2>2. \/ conn' = rest
        \/ conn' = [rest EXCEPT ![c].at = "waiting"]
        \/ conn' = [rest EXCEPT ![c] = Tried(@)]
    BY <1>10 DEF ReadLocked
  <2>3. conn' = rest \/ conn' = [conn EXCEPT ![c] = w] \/ conn' = [conn EXCEPT ![c] = Tried(k)]
    BY <1>4, <2>2
  <2>4. w.at = "waiting"
    BY <1>3 DEF ConnType
  <2>5. Tried(k).at = "locked"
    <3> DEFINE e == Append(k.down, Say("wrong"))
               f == Append(k.down, Say("many"))
               a == [k EXCEPT !.down = f]
               b == Shut(a, Say("close"))
    <3>1. /\ Say("many") \in ToPage /\ Say("close") \in ToPage /\ k.down \in Seq(ToPage)
      BY <1>3, MessagesTyped DEF JoinInv, TypeOK, ConnType
    <3>2. f \in Seq(ToPage)
      BY <3>1
    <3> HIDE DEF f
    <3>3. a \in ConnType /\ a.at = "locked"
      BY <1>3, <1>10, <3>2 DEF ConnType
    <3> HIDE DEF a
    <3>4. Append(a.down, Say("close")) \in Seq(ToPage)
      BY <3>1, <3>3 DEF ConnType
    <3>5. b \in ConnType /\ b.at = "locked"
      BY <3>3, <3>4, NothingSent DEF Shut, ConnType
    <3> HIDE DEF b
    <3>6. [b EXCEPT !.tries = @ + 1].at = "locked"
      BY <3>5 DEF ConnType
    <3>7. CASE k.tries + 1 < MaxAttempts
      <4>1. Tried(k) = [k EXCEPT !.tries = @ + 1, !.down = e]
        BY <3>7 DEF Tried
      <4> HIDE DEF e
      <4> QED
        BY <1>3, <1>10, <4>1 DEF ConnType
    <3>8. CASE ~(k.tries + 1 < MaxAttempts)
      <4>1. Tried(k) = [b EXCEPT !.tries = @ + 1]
        BY <3>8 DEF Tried, a, b, f
      <4> QED
        BY <3>6, <4>1
    <3> QED
      BY <3>7, <3>8
  <2> HIDE DEF w
  <2>6. conn'[c].at # "in" /\ \A d \in Conns : d # c => conn'[d] = conn[d]
    BY <1>3, <1>4, <1>10, <2>3, <2>4, <2>5
  <2>7. \A d \in Conns : Quietly(conn[d], conn'[d])
    BY <1>9, <1>10, <2>6
  <2> QED
    BY <2>1, <2>7 DEF Quietly
<1>11. CASE j.at = "waiting" /\ ReadWaiting(c, m, rest)
  <2>1. conn' = rest /\ UNCHANGED <<late, oldList, toasts, unheard>>
    BY <1>6, <1>11 DEF ReadWaiting
  <2>2. \A d \in Conns : Quietly(conn[d], conn'[d])
    BY <1>3, <1>4, <1>9, <1>11, <2>1
  <2> QED
    BY <2>1, <2>2 DEF Quietly
<1>12. CASE j.at = "in" /\ ReadIn(m, rest)
  <2>1. /\ conn' = rest /\ UNCHANGED <<late, oldList>>
        /\ toasts' = IF m.type = "request_role" /\ host THEN toasts + 1 ELSE toasts
        /\ unheard' = (unheard \/ (m.type = "request_role" /\ ~host))
    BY <1>12 DEF ReadIn
  <2>2. unheard => unheard'
    BY <2>1, Zenon
  <2>3. (m.type = "request_role" /\ ~host) => unheard'
    BY <2>1, Zenon
  <2>4. (toasts > 0 => toasts' > 0) /\ (m.type = "request_role" /\ host => toasts' > 0)
    BY <1>1, <2>1
  <2>5. \A d \in Conns : SameList(conn[d], conn'[d])
    <3>1. SameList(j, k)
      BY <1>3 DEF SameList, Here
    <3> QED
      BY <1>4, <2>1, <3>1, SameListNot
  <2>6. m.type # "request_role" => \A d \in Conns : SameWait(conn[d], conn'[d])
    <3>1. m.type # "request_role" => SameWait(j, k)
      BY <1>3, <1>7 DEF SameWait, Here, Waits
    <3>2. \A d \in Conns : d # c => SameWait(conn[d], conn[d])
      BY DEF SameWait
    <3> QED
      BY <1>4, <2>1, <3>1, <3>2
  <2> QED
    BY <2>1, <2>2, <2>3, <2>4, <2>5, <2>6
<1> QED
  BY <1>5, <1>10, <1>11, <1>12

TellInv == ChainInv /\ AllTold /\ Pending

LEMMA RestartTold ==
    ASSUME JoinInv, conn \in [Conns -> Sound], RelayRestarts
    PROVE  AllTold' /\ Pending'
<1>1. \A c \in Conns : conn'[c].at # "in"
  <2>1. ASSUME NEW k \in ConnType PROVE HandlerGone(k).at = "over"
    <3>1. CASE k.sock = "closed"
      BY <3>1 DEF HandlerGone, Idle
    <3>2. CASE k.sock # "closed"
      BY <3>2 DEF HandlerGone, ConnType
    <3> QED
      BY <3>1, <3>2
  <2>2. ASSUME NEW c \in Conns PROVE conn'[c].at = "over"
    <3> DEFINE j == conn[c]
               m == Say("close")
               k == IF j.cut THEN j ELSE Shut(j, m)
    <3>1. j \in ConnType /\ m \in ToPage
      BY MessagesTyped DEF Sound, JoinInv, TypeOK
    <3>2. Append(j.down, m) \in Seq(ToPage)
      BY <3>1 DEF ConnType
    <3>3. Shut(j, m) \in ConnType
      BY <3>1, <3>2, NothingSent DEF Shut, ConnType
    <3>4. k \in ConnType
      BY <3>1, <3>3
    <3>5. conn'[c] = IF j.at = "over" THEN j ELSE HandlerGone(k)
      BY DEF RelayRestarts
    <3> HIDE DEF k
    <3> QED
      BY <2>1, <3>4, <3>5
  <2> QED
    BY <2>2
<1>2. AllTold'
  BY <1>1 DEF AllTold, Here
<1>3. Pending'
  <2>1. page' = page /\ page \in PageType
    BY DEF RelayRestarts, JoinInv, TypeOK
  <2>2. page'.ws # None => conn'[page'.ws].at # "in"
    BY <1>1, <2>1 DEF PageType
  <2> QED
    BY <2>2 DEF Pending, Here
<1> QED
  BY <1>2, <1>3

LEMMA RelayTold ==
    ASSUME TellInv, RelayAct
    PROVE  AllTold' /\ Pending'
<1>1. JoinInv /\ conn \in [Conns -> Sound] /\ page \in PageType /\ AllTold /\ Pending
  BY DEF TellInv, ChainInv, JoinInv, TypeOK
<1>2. UNCHANGED <<token, page, doubled, deadEnd>> /\ page' \in PageType
  BY <1>1, RelayMoves
<1>3. ASSUME Listed PROVE AllTold' /\ Pending'
  BY <1>2, <1>3, BroadcastTold, ListedPending DEF Listed
<1>4. ASSUME \A c \in Conns : SameList(conn[c], conn'[c]), UNCHANGED <<late, oldList>>
      PROVE  AllTold'
  BY <1>1, <1>2, <1>4, FrameTold
<1>5. ASSUME \A c \in Conns : SameWait(conn[c], conn'[c]), UNCHANGED late,
             unheard => unheard', toasts > 0 => toasts' > 0
      PROVE  Pending'
  BY <1>1, <1>2, <1>5, FramePending
<1>6. ASSUME AllQuiet PROVE AllTold' /\ Pending'
  BY <1>4, <1>5, <1>6 DEF AllQuiet, Quietly
<1>7. ASSUME NEW c \in Conns, Take(c) PROVE AllTold' /\ Pending'
  <2>1. CASE conn[c].at = "waiting" /\ Head(conn[c].up).type = "identify"
    BY <1>1, <1>3, <1>7, <2>1, TakeMoves
  <2>2. CASE ~(conn[c].at = "waiting" /\ Head(conn[c].up).type = "identify")
    <3>1. /\ \A d \in Conns : SameList(conn[d], conn'[d])
          /\ (\A d \in Conns : SameWait(conn[d], conn'[d])) \/ toasts' > 0 \/ unheard'
          /\ UNCHANGED <<late, oldList>> /\ (unheard => unheard') /\ (toasts > 0 => toasts' > 0)
      BY <1>1, <1>7, <2>2, TakeQuiet
    <3>2. toasts' > 0 \/ unheard' => Pending'
      BY DEF Pending
    <3> QED
      BY <1>4, <1>5, <3>1, <3>2
  <2> QED
    BY <2>1, <2>2
<1>8. ASSUME NEW c \in Conns,
             Accept(c) \/ NotFound(c) \/ HandshakeFails(c) \/ HandlerEnds(c) \/ Cut(c)
      PROVE  AllTold' /\ Pending'
  <2>1. CASE Accept(c) \/ NotFound(c) \/ HandshakeFails(c)
    BY <1>1, <1>6, <2>1, AcceptQuiet DEF NotFound, HandshakeFails
  <2>2. CASE HandlerEnds(c)
    BY <1>1, <1>3, <2>2, HandlerEndsMoves
  <2>3. CASE Cut(c)
    BY <1>1, <1>6, <2>3, FaultQuiet
  <2> QED
    BY <1>8, <2>1, <2>2, <2>3
<1>9. ASSUME SendLate PROVE AllTold' /\ Pending'
  <2> DEFINE m == List(late)
  <2>1. /\ late \in Roles \cup {None} /\ conn' = PutAll(conn, List(late))
        /\ (~oldList' => late \in OwnRoles(conn))
    <3>1. oldList' = (late \notin OwnRoles(conn))
      BY <1>9 DEF SendLate
    <3>2. ~oldList' => late \in OwnRoles(conn)
      BY <3>1, Zenon
    <3> QED
      BY <1>1, <1>9, <3>2 DEF SendLate, JoinInv, TypeOK
  <2>2. AllTold'
    BY <1>1, <2>1, ListTold
  <2>3. m \in ToPage /\ m.type = "list" /\ conn' = PutAll(conn, m)
    BY <2>1, ListTyped, ListIs
  <2> HIDE DEF m
  <2>4. Pending'
    BY <1>1, <1>2, <2>3, PutAllPending
  <2> QED
    BY <2>2, <2>4
<1>10. ASSUME Answer PROVE AllTold' /\ Pending'
  <2>1. CASE GiveRole("editor")
    BY <1>1, <1>3, <2>1, GiveRoleMoves
  <2>2. CASE conn' = PutAll(conn, Say("denied")) /\ UNCHANGED <<late, oldList>>
    <3> DEFINE m == Say("denied")
    <3>1. m \in ToPage /\ m.type = "denied" /\ conn' = PutAll(conn, m)
      BY <1>1, <2>2, MessagesTyped DEF Say, JoinInv, TypeOK
    <3> HIDE DEF m
    <3>2. Pending'
      BY <1>1, <1>2, <3>1, PutAllPending
    <3>3. ASSUME NEW c \in Conns PROVE SameList(conn[c], conn'[c])
      <4> DEFINE ds == conn'
      <4>1. ds = PutAll(conn, m)
        BY <3>1
      <4> HIDE DEF ds
      <4>2. /\ ds[c].at = conn[c].at /\ ds[c].role = conn[c].role /\ ds[c].cut = conn[c].cut
            /\ ds[c].up = conn[c].up
            /\ Here(ds[c]) => Here(conn[c]) /\ ds[c].down = Append(conn[c].down, m)
        <5>1. conn \in [Conns -> Sound] /\ c \in Conns /\ m \in ToPage
          BY <1>1, <3>1
        <5> QED
          BY ONLY <4>1, <5>1, PutAllEach
      <4>3. conn[c].down \in Seq(ToPage) /\ m.type # "list"
        BY <1>1, <3>1 DEF Sound, ConnType
      <4>4. \A R, r : Ends(conn[c].down, R, r) => Ends(Append(conn[c].down, m), R, r)
        BY <3>1, <4>3, EndsAppend
      <4>5. SameList(conn[c], ds[c])
        BY <4>2, <4>4 DEF SameList
      <4> QED
        BY <4>5 DEF ds
    <3> QED
      BY <1>4, <2>2, <3>2, <3>3
  <2>3. CASE unheard' = TRUE /\ UNCHANGED <<conn, late, oldList>>
    BY <1>4, <2>3, SameListNot DEF Pending
  <2> QED
    BY <1>10, <2>1, <2>2, <2>3 DEF Answer
<1>11. ASSUME NEW role \in {"editor", "commenter"}, SetRole(role) PROVE AllTold' /\ Pending'
  BY <1>1, <1>3, <1>11, GiveRoleMoves DEF SetRole
<1>12. ASSUME HostComesOrGoes PROVE AllTold' /\ Pending'
  BY <1>1, <1>3, <1>12 DEF HostComesOrGoes, Listed
<1>13. ASSUME SessionResumes \/ \E p \in Passwords \cup {None} : PasswordChanges(p)
       PROVE  AllTold' /\ Pending'
  <2>1. UNCHANGED <<conn, late, oldList, toasts, unheard>>
    BY <1>13 DEF SessionResumes, PasswordChanges, hostVars, histVars
  <2> QED
    BY <1>6, <2>1, QuietlyNot DEF AllQuiet
<1>14. SessionExpires => AllTold' /\ Pending'
  BY <1>1, <1>6, FaultQuiet
<1>15. RelayRestarts => AllTold' /\ Pending'
  BY <1>1, RestartTold
<1> QED
  BY <1>7, <1>8, <1>9, <1>10, <1>11, <1>12, <1>13, <1>14, <1>15 DEF RelayAct

-----------------------------------------------------------------------------
(* What the page does leaves the lists that are due, and reads them.       *)

LEMMA GrowsQuietly ==
    ASSUME NEW k, NEW n, Grows(k, n)
    PROVE  Quietly(k, n)
BY DEF Grows, Quietly, SameList, SameWait, Here, Waits

LEMMA DialTold ==
    ASSUME TellInv, NEW first \in BOOLEAN, Dial(first), doubled => doubled',
           UNCHANGED <<late, oldList>>
    PROVE  AllTold' /\ Pending'
<1>1. page \in PageType /\ conn \in [Conns -> Sound] /\ AllTold
  BY DEF TellInv, ChainInv, JoinInv, TypeOK
<1>2. PICK c \in Conns :
        /\ conn[c].at = "over" /\ conn'[c].at = "dialed"
        /\ \A d \in Conns : d # c => conn'[d] = conn[d]
        /\ page'.ws = c /\ page'.role = page.role
  BY <1>1, DialSound
<1>3. ASSUME NEW d \in Conns PROVE SameList(conn[d], conn'[d])
  <2>1. CASE d = c
    BY <1>2, <2>1 DEF SameList, Here
  <2>2. CASE d # c
    BY <1>2, <2>2, SameListNot
  <2> QED
    BY <2>1, <2>2
<1>4. AllTold'
  BY <1>1, <1>2, <1>3, FrameTold
<1>5. Pending'
  BY <1>2 DEF Pending, Here
<1> QED
  BY <1>4, <1>5

LEMMA FormsTold ==
    ASSUME TellInv,
           \/ SubmitSession \/ JoinSession \/ RightPassword \/ WrongPassword \/ RequestEditAccess
           \/ TimerFires
    PROVE  AllTold' /\ Pending'
<1> USE DEF relayVars, hostVars, histVars
<1>1. /\ page \in PageType /\ conn \in [Conns -> Sound] /\ AllTold /\ Pending
      /\ token \in Tokens
  BY DEF TellInv, ChainInv, JoinInv, TypeOK
<1>2. ASSUME \A c \in Conns : Quietly(conn[c], conn'[c]),
             UNCHANGED <<late, oldList, toasts, doubled, unheard>>,
             page'.role = page.role, page'.asked = page.asked, page'.ws = page.ws
      PROVE  AllTold' /\ Pending'
  BY <1>1, <1>2, FrameTold, FramePending DEF Quietly
<1>3. CASE SubmitSession
  <2>1. /\ UNCHANGED <<conn, late, oldList, toasts, doubled, unheard>>
        /\ page'.role = page.role /\ page'.asked = page.asked /\ page'.ws = page.ws
    BY <1>1, <1>3 DEF SubmitSession, PageType
  <2> QED
    BY <1>2, <2>1, QuietlyNot
<1>4. CASE JoinSession
  <2>1. doubled' = (doubled \/ \E c \in Conns : conn[c].sock # "closed")
    BY <1>4 DEF JoinSession
  <2>2. doubled => doubled'
    BY <2>1, Zenon
  <2>3. Dial(TRUE) /\ UNCHANGED <<late, oldList>>
    BY <1>4 DEF JoinSession
  <2> QED
    BY <2>2, <2>3, DialTold
<1>5. ASSUME NEW p \in Passwords, SubmitPassword(p) PROVE AllTold' /\ Pending'
  <2> DEFINE ms == AnswerPrompt(p)
  <2>1. ms \in Seq(ToRelay) /\ AuthThenIdentify(ms)
    <3>1. ms \in Seq(ToRelay)
      BY <1>1, MessagesTyped DEF AnswerPrompt, Tokens
    <3> QED
      BY <1>1, <3>1, SentShape
  <2>2. /\ conn' = Post(conn, page.ws, ms)
        /\ UNCHANGED <<late, oldList, toasts, doubled, unheard>>
    BY <1>5 DEF SubmitPassword
  <2>3. page'.role = page.role /\ page'.asked = page.asked /\ page'.ws = page.ws
    BY <1>1, <1>5 DEF SubmitPassword, PageType
  <2> HIDE DEF ms
  <2>4. \A c \in Conns : Grows(conn[c], conn'[c])
    BY <1>1, <2>1, <2>2, PageFields, PostSound
  <2>5. \A c \in Conns : Quietly(conn[c], conn'[c])
    BY <2>4, GrowsQuietly
  <2> QED
    BY <1>2, <2>2, <2>3, <2>5
<1>6. CASE RightPassword
  <2>1. \E p \in Passwords : SubmitPassword(p)
    BY <1>6 DEF RightPassword, TellInv, ChainInv, JoinInv, TypeOK
  <2> QED
    BY <1>5, <2>1
<1>7. CASE WrongPassword
  BY <1>5, <1>7 DEF WrongPassword
<1>8. CASE RequestEditAccess
  <2> DEFINE ms == <<Request>>
  <2>1. ms \in Seq(ToRelay) /\ AuthThenIdentify(ms) /\ Has(ms, "request_role")
    BY <1>1, MessagesTyped, SentShape
  <2>2. conn' = Post(conn, page.ws, ms) /\ UNCHANGED <<late, oldList, toasts, doubled>>
    BY <1>8 DEF RequestEditAccess
  <2>3. page'.role = page.role /\ page'.ws = page.ws
    BY <1>1, <1>8 DEF RequestEditAccess, PageType
  <2> HIDE DEF ms
  <2>4. /\ \A c \in Conns : Grows(conn[c], conn'[c])
        /\ page.ws # None /\ conn[page.ws].sock = "open" /\ ~conn[page.ws].cut
           => \A type : Has(ms, type) => Has(conn'[page.ws].up, type)
    BY <1>1, <2>1, <2>2, PageFields, PostSound
  <2>5. \A c \in Conns : SameList(conn[c], conn'[c])
    BY <2>4, GrowsQuietly DEF Quietly
  <2>6. AllTold'
    BY <1>1, <2>2, <2>3, <2>5, FrameTold
  <2>7. ASSUME page.ws # None, Here(conn'[page.ws]) PROVE Waits(conn'[page.ws])
    <3>1. page.ws \in Conns
      BY <1>1, <2>7 DEF PageType
    <3>2. conn[page.ws].at = "in" /\ ~conn[page.ws].cut
      BY <2>4, <2>7, <3>1 DEF Grows, Here
    <3>3. conn[page.ws].sock = "open"
      BY <1>1, <3>1, <3>2 DEF Sound, Shape, ConnType
    <3> QED
      BY <2>1, <2>4, <2>7, <3>2, <3>3 DEF Waits
  <2>8. Pending'
    BY <2>3, <2>7 DEF Pending, Here, Waits
  <2> QED
    BY <2>6, <2>8
<1>9. CASE TimerFires /\ page.attempts < MaxReconnects
  <2>1. Dial(FALSE) /\ UNCHANGED <<late, oldList, doubled>>
    BY <1>9 DEF TimerFires
  <2> QED
    BY <2>1, DialTold
<1>10. CASE TimerFires /\ ~(page.attempts < MaxReconnects)
  <2>1. /\ UNCHANGED <<conn, late, oldList, toasts, doubled, unheard>>
        /\ page'.role = page.role /\ page'.asked = page.asked /\ page'.ws = page.ws
    BY <1>1, <1>10 DEF TimerFires, PageType
  <2> QED
    BY <1>2, <2>1, QuietlyNot
<1> QED
  BY <1>3, <1>4, <1>6, <1>7, <1>8, <1>9, <1>10

LEMMA SocketTold ==
    ASSUME TellInv, NEW c \in Conns, Deliver(c),
           Head(conn[c].down).type \in {"open", "close", "refuse"}
    PROVE  AllTold' /\ Pending'
<1> DEFINE k == conn[c]
           m == Head(k.down)
           f == k.first
<1>1. /\ page \in PageType /\ conn \in [Conns -> Sound] /\ AllTold /\ Pending /\ ChainInv
      /\ JoinInv
  BY DEF TellInv, ChainInv, JoinInv, TypeOK
<1>2. /\ m \in ToPage /\ f \in BOOLEAN /\ page' = Handle(page, m, f)
      /\ UNCHANGED <<late, toasts, unheard, oldList, doubled>>
  BY <1>1, DeliverFacts
<1>3. page'.role = page.role /\ page'.asked = page.asked /\ page'.ws = page.ws
  <2>1. m.type \in {"open", "close", "refuse"}
    OBVIOUS
  <2> HIDE DEF m, f
  <2>2. CASE m.type = "open"
    BY <1>1, <1>2, <2>2, HandleOpen
  <2>3. CASE m.type \in {"close", "refuse"}
    BY <1>1, <1>2, <2>3, HandleEnd
  <2> QED
    BY <2>1, <2>2, <2>3
<1>4. \A d \in Conns : Quietly(conn[d], conn'[d])
  <2>1. CASE m.type = "open"
    <3>1. /\ \A d \in Conns : d # c => Grows(conn[d], conn'[d])
          /\ conn'[c].at = k.at /\ conn'[c].role = k.role /\ conn'[c].cut = k.cut
          /\ ~k.cut => k.sock = "connecting"
      BY <1>1, <2>1, DeliverOpens
    <3>2. ~Here(conn'[c])
      BY <1>1, <3>1 DEF Here, Sound, Shape
    <3>3. Quietly(k, conn'[c])
      BY <3>1, <3>2 DEF Quietly, SameList, SameWait
    <3> QED
      BY <3>1, <3>3, GrowsQuietly
  <2>2. CASE m.type \in {"close", "refuse"}
    <3>1. /\ \A d \in Conns : d # c => conn'[d] = conn[d]
          /\ conn'[c].cut /\ conn'[c].at = k.at /\ (conn'[c].at = "in" => conn'[c].role = k.role)
      BY <1>1, <2>2, DeliverEnds
    <3>2. Quietly(k, conn'[c])
      BY <3>1 DEF Quietly, SameList, SameWait, Here
    <3> QED
      BY <3>1, <3>2, QuietlyNot
  <2> QED
    BY <2>1, <2>2
<1>5. AllTold'
  BY <1>1, <1>2, <1>3, <1>4, FrameTold DEF Quietly
<1>6. Pending'
  BY <1>1, <1>2, <1>3, <1>4, FramePending DEF Quietly
<1> QED
  BY <1>5, <1>6

LEMMA ReadTold ==
    ASSUME TellInv, NEW c \in Conns, Deliver(c),
           Head(conn[c].down).type \notin {"open", "close", "refuse"}
    PROVE  AllTold' /\ Pending'
<1> DEFINE k == conn[c]
           n == conn'[c]
           m == Head(k.down)
           f == k.first
<1>1. /\ page \in PageType /\ conn \in [Conns -> Sound] /\ AllTold /\ Pending /\ ChainInv
      /\ JoinInv
  BY DEF TellInv, ChainInv, JoinInv, TypeOK
<1>2. /\ m \in ToPage /\ f \in BOOLEAN /\ page' = Handle(page, m, f)
      /\ UNCHANGED <<late, toasts, unheard, oldList, doubled>>
      /\ k.down \in Seq(ToPage) /\ k.down # <<>>
      /\ ~doubled => \A d \in Conns : Alive(d) => d = c
  BY <1>1, DeliverFacts
<1>3. /\ page'.ws = page.ws
      /\ page'.asked => page.asked /\ m.type \notin {"list", "denied"}
      /\ m.type # "list" => page'.role = page.role
      /\ m.type = "list" => page'.role = IF m.role = None THEN page.role ELSE m.role
  <2>1. m.type \notin {"open", "close", "refuse"}
    OBVIOUS
  <2> HIDE DEF m, f
  <2> QED
    BY <1>1, <1>2, <2>1, HandleOthers
<1>4. /\ \A d \in Conns : d # c => conn'[d] = conn[d]
      /\ n.down = Tail(k.down) /\ n.at = k.at /\ n.role = k.role /\ n.cut = k.cut /\ n.up = k.up
  BY <1>1, DeliverReads
<1>5. \A type : Has(k.down, type) <=> m.type = type \/ Has(n.down, type)
  BY <1>2, <1>4, HasTail
<1>6. OwnRoles(conn') = OwnRoles(conn)
  BY <1>4, SameRoles
<1>7. ASSUME ~doubled, ~oldList, late = Nothing, NEW d \in Conns, Here(conn'[d])
      PROVE  Ends(conn'[d].down, OwnRoles(conn'), page'.role)
  <2>1. d = c
    <3>1. CASE d # c
      <4>1. ~conn[d].cut
        BY <1>4, <1>7, <3>1 DEF Here
      <4>2. Alive(d)
        BY <1>1, <4>1 DEF Sound, Shape, Alive
      <4> QED
        BY <1>2, <1>7, <4>2
    <3> QED
      BY <3>1
  <2> DEFINE R == OwnRoles(conn)
  <2>2. k.at = "in" /\ Ends(k.down, R, page.role)
    BY <1>1, <1>4, <1>7, <2>1 DEF AllTold, Here
  <2>3. R \subseteq Roles
    <3>1. \A e \in Conns : conn[e].at = "in" => conn[e].role \in Roles
      BY <1>1 DEF Sound, Shape
    <3> QED
      BY <2>2, <3>1 DEF OwnRoles
  <2> HIDE DEF R
  <2>4. m.type = "list" /\ m.role \in R => page'.role = m.role
    BY <1>3, <2>3
  <2> HIDE DEF m
  <2>5. Ends(Tail(k.down), R, page'.role)
    <3> DEFINE q == page'.role
               r == page.role
    <3>1. /\ m.type # "list" => q = r
          /\ m.type = "list" /\ m.role \in R => q = m.role
          /\ Ends(k.down, R, r) /\ m = Head(k.down)
      BY <1>3, <2>2, <2>4 DEF m
    <3> HIDE DEF q, r
    <3>2. Ends(Tail(k.down), R, q)
      BY <1>2, <3>1, EndsTail
    <3> QED
      BY <3>2 DEF q
  <2> QED
    BY <1>4, <1>6, <2>1, <2>5 DEF R
<1>8. AllTold'
  BY <1>2, <1>7 DEF AllTold, Here, OwnRoles
<1>9. CASE m.type \in {"list", "denied"}
  <2>1. ~page'.asked
    BY <1>3, <1>9
  <2> QED
    BY <1>8, <2>1 DEF Pending
<1>10. CASE m.type \notin {"list", "denied"}
  <2>1. SameWait(k, n)
    BY <1>4, <1>5, <1>10 DEF SameWait, Here, Waits
  <2>2. ASSUME NEW d \in Conns PROVE SameWait(conn[d], conn'[d])
    BY <1>4, <2>1 DEF SameWait
  <2>3. Pending'
    BY <1>1, <1>2, <1>3, <2>2, FramePending
  <2> QED
    BY <1>8, <2>3
<1> QED
  BY <1>9, <1>10

LEMMA InitTell == Init => TellInv
<1> SUFFICES ASSUME Init PROVE TellInv
  OBVIOUS
<1>1. \A c \in Conns : ~Here(conn[c])
  BY IdleKept DEF Init, Here
<1>2. ~page.asked
  BY DEF Init
<1> QED
  BY <1>1, <1>2, InitChain DEF TellInv, AllTold, Pending

LEMMA TellStep == TellInv /\ [Next]_vars => TellInv'
<1> SUFFICES ASSUME TellInv, [Next]_vars PROVE TellInv'
  OBVIOUS
<1>1. ChainInv'
  BY ChainStep DEF TellInv
<1>2. CASE Next
  <2>1. AllTold' /\ Pending'
    BY <1>2, NextActs, RelayTold, FormsTold, SocketTold, ReadTold DEF TellInv, ChainInv
  <2> QED
    BY <1>1, <2>1 DEF TellInv
<1>3. CASE UNCHANGED vars
  <2>1. UNCHANGED <<conn, page, late, oldList, doubled, toasts, unheard>>
    BY <1>3 DEF vars, relayVars, hostVars, histVars
  <2>2. AllTold' /\ Pending'
    BY <2>1 DEF TellInv, AllTold, Pending, Here, Waits, OwnRoles
  <2> QED
    BY <1>1, <2>2 DEF TellInv
<1> QED
  BY <1>2, <1>3

LEMMA AlwaysTell == Spec => []TellInv
BY InitTell, TellStep, PTL DEF Spec

-----------------------------------------------------------------------------
(* What it comes to when nothing is on its way.                            *)

LEMMA QuietConn ==
    ASSUME TellInv, Quiet, NEW c \in Conns
    PROVE  /\ conn[c].up = <<>> /\ conn[c].down = <<>>
           /\ conn[c].cut => conn[c].at = "over" /\ ~Alive(c)
           /\ ~conn[c].cut => conn[c].at \in Served /\ conn[c].sock = "open"
<1>1. conn[c] \in ConnType /\ Shape(conn[c])
  BY DEF TellInv, ChainInv, Sound
<1>2. conn[c].cut => conn[c] = Idle
  BY DEF Quiet
<1>3. Idle.at = "over" /\ Idle.sock = "closed"
  BY DEF Idle
<1> QED
  BY <1>1, <1>2, <1>3 DEF Quiet, Shape, ConnType, Alive

LEMMA QuietChain ==
    ASSUME TellInv, Quiet, page.form = "none", ~doubled, ~page.gaveUp, ~page.refused,
           ~(page.ide /\ deadEnd)
    PROVE  /\ page.ws \in Conns /\ conn[page.ws].at \in {"locked", "in"}
           /\ conn[page.ws].at = "locked" => ~page.ide
<1>1. OneChain /\ AllGreeted
  BY DEF TellInv, ChainInv
<1>2. PICK c \in Conns : Alive(c)
  BY <1>1 DEF OneChain, Quiet
<1>3. page.ws = c
  BY <1>1, <1>2 DEF OneChain
<1>4. ~conn[c].cut /\ conn[c].sock = "open" /\ conn[c].at \in Served
      /\ conn[c].up = <<>> /\ conn[c].down = <<>>
  BY <1>2, QuietConn
<1>5. Greeted(conn[c])
  BY <1>1 DEF AllGreeted
<1>6. \A type : ~Has(conn[c].up, type) /\ ~Has(conn[c].down, type)
  BY <1>4, HasNone
<1> QED
  BY <1>3, <1>4, <1>5, <1>6 DEF Greeted

(* A page that shows the IDE is in the session, or its banner says that it *)
(* gave up, whatever is lost, prompted for or connected again (reconnect,  *)
(* submitPassword), but for one refused by the relay: what the relay waits *)
(* for is on its way, or what takes the IDE away is (OneChain, AllGreeted).*)
THEOREM IdeAlwaysLive == Spec => []IdeIsLive
<1>1. TellInv => IdeIsLive
  <2> SUFFICES ASSUME TellInv, Quiet, page.ide, ~deadEnd, ~doubled, ~page.gaveUp,
                      ~page.refused
               PROVE  Joined
    BY DEF IdeIsLive
  <2>1. page.form = "none"
    BY DEF TellInv, ChainInv, OneChain
  <2>2. page.ws \in Conns /\ conn[page.ws].at = "in"
    BY <2>1, QuietChain
  <2> QED
    BY <2>2 DEF Joined, Within
<1> QED
  BY <1>1, AlwaysTell, PTL

(* A prompt that is shown alone, on a page that neither gave up nor was    *)
(* refused, is one that the relay waits for (OnPasswordRequired).          *)
THEOREM PromptAlwaysLive == Spec => []PromptIsLive
<1>1. TellInv => PromptIsLive
  <2> SUFFICES ASSUME TellInv, Quiet, ~page.ide, page.form = "none", ~doubled, ~page.gaveUp,
                      ~page.refused
               PROVE  Joined \/ (page.ws # None /\ conn[page.ws].at = "locked")
    BY DEF PromptIsLive
  <2>1. page.ws \in Conns /\ conn[page.ws].at \in {"locked", "in"}
    BY QuietChain
  <2> QED
    BY <2>1 DEF Joined, Within
<1> QED
  BY <1>1, AlwaysTell, PTL

(* The user is at most once among the participants (participants): only    *)
(* the newest connection is alive, and the others' handlers have ended.    *)
THEOREM AlwaysOneSelf == Spec => []OneSelf
<1>1. TellInv => OneSelf
  <2> SUFFICES ASSUME TellInv, Quiet, ~doubled PROVE Cardinality(Within) <= 1
    BY DEF OneSelf
  <2>1. ASSUME NEW c \in Within PROVE c = page.ws
    <3>1. c \in Conns /\ conn[c].at = "in"
      BY <2>1 DEF Within
    <3>2. Alive(c)
      BY <3>1, QuietConn DEF Alive
    <3> QED
      BY <3>1, <3>2 DEF TellInv, ChainInv, OneChain
  <2>2. Within = {} \/ Within = {page.ws}
    BY <2>1
  <2>3. Cardinality({}) = 0 /\ Cardinality({page.ws}) = 1
    BY FS_EmptySet, FS_Singleton
  <2> QED
    BY <2>2, <2>3
<1> QED
  BY <1>1, AlwaysTell, PTL

(* The role that the page goes by is the one that the relay checks: the    *)
(* last list on its way has it, unless a list was overtaken (AllTold).     *)
THEOREM RoleAlwaysShown == Spec => []RoleShown
<1>1. TellInv => RoleShown
  <2> SUFFICES ASSUME TellInv, Quiet, Joined, ~oldList, ~doubled
               PROVE  page.role = conn[page.ws].role
    BY DEF RoleShown
  <2>1. page.ws \in Conns /\ conn[page.ws].at = "in"
    BY DEF Joined, Within
  <2>2. ~conn[page.ws].cut /\ conn[page.ws].down = <<>>
    BY <2>1, QuietConn
  <2>3. page.role \in OwnRoles(conn)
    <3>1. Ends(conn[page.ws].down, OwnRoles(conn), page.role)
      BY <2>1, <2>2 DEF TellInv, AllTold, Here, Quiet
    <3> QED
      BY <2>2, <3>1, HasNone DEF Ends
  <2>4. ASSUME NEW c \in Conns, conn[c].at = "in" PROVE c = page.ws
    <3>1. Alive(c)
      BY <2>4, QuietConn DEF Alive
    <3> QED
      BY <3>1 DEF TellInv, ChainInv, OneChain
  <2> QED
    BY <2>1, <2>3, <2>4 DEF OwnRoles
<1> QED
  BY <1>1, AlwaysTell, PTL

(* A user who waits for the host's approval is shown to a host, or was not *)
(* heard: the request or an answer that undoes the wait is never lost with *)
(* the connection (Pending).                                               *)
THEOREM RequestAlwaysPending == Spec => []RequestPending
<1>1. TellInv => RequestPending
  <2> SUFFICES ASSUME TellInv, Quiet, Joined, page.asked, ~unheard PROVE toasts > 0
    BY DEF RequestPending
  <2>1. page.ws # None /\ page.ws \in Conns /\ conn[page.ws].at = "in"
    BY DEF Joined, Within
  <2>2. ~conn[page.ws].cut /\ conn[page.ws].down = <<>> /\ conn[page.ws].up = <<>>
    BY <2>1, QuietConn
  <2>3. ~Waits(conn[page.ws])
    BY <2>2, HasNone DEF Waits
  <2> QED
    BY <2>1, <2>2, <2>3 DEF TellInv, Pending, Here, Quiet
<1> QED
  BY <1>1, AlwaysTell, PTL

=============================================================================
