-------------------------------- MODULE Join --------------------------------
(***************************************************************************)
(* How a page gets into a session and stays there: the forms, the password *)
(* prompt, reconnecting and the user's role (web/app.js), and the relay's  *)
(* handler of a browser's connection up to its main loop, participants and *)
(* roles, and the limit on connections (internal/server).                  *)
(*                                                                         *)
(* One user has one page.  A connection is used again when both ends have  *)
(* done with it.  Other participants are a host and whoever joins, leaves  *)
(* or is given a role: what they do reaches the page as a list, of which   *)
(* the user's own role is kept.                                            *)
(***************************************************************************)
EXTENDS Naturals, Sequences, FiniteSets, SequencesExt

(* An operator whose comment says "Mutant" is no part of Spec: it is a     *)
(* slip the definition after it could have had, and a property refutes it. *)

CONSTANTS
    Conns,         \* the connections there may be at a time
    Passwords,
    FirstPasswords, \* what the session's may be at first, None for none
    MaxSlots,      \* connections for an address: ipLimit.max
    MaxAttempts,   \* wrong passwords for a connection: 5 in the code
    MaxReconnects, \* maxReconnectAttempts: 10 in the code
    MaxEvents,     \* bound: what users, networks, the daemon and the relay do
    None

ASSUME JoinAssumption ==
    /\ Conns \subseteq Nat /\ IsFiniteSet(Conns)
    /\ FirstPasswords \subseteq Passwords \cup {None}
    /\ MaxSlots \in Nat \ {0} /\ MaxAttempts \in Nat \ {0}
    /\ MaxReconnects \in Nat /\ MaxEvents \in Nat
    /\ None \notin Conns /\ None \notin Passwords
    /\ None \notin {"host", "editor", "commenter", "nothing"}

VARIABLES
    token,     \* the host token in the page's link: right, stale or none
    live,      \* the relay has the session
    password,  \* the session's, None when it has none
    conn,
    slots,     \* ipLimit.conns of the page's address
    late,      \* the list of participants that is read and not yet written
    host,      \* a host is connected, when the session is there
    toasts,    \* requests that the host's page shows
    page,
    oldList,   \* history: the list written last was not the newest
    unheard,   \* history: a request, or the answer to it, met no host
    doubled,   \* history: the user pressed Join twice
    deadEnd,   \* history: a password was entered with nothing to send it on
    drifted,   \* history: a connection was turned away
    events

relayVars == <<live, password, slots, late>>
hostVars == <<host, toasts, unheard>>
histVars == <<oldList, doubled, deadEnd, drifted>>
vars == <<token, relayVars, hostVars, conn, page, histVars, events>>

Roles == {"host", "editor", "commenter"}
Nothing == "nothing"
Auth(p, t) == [type |-> "session_auth", value |-> p, token |-> t]
Identify == [type |-> "identify", value |-> None, token |-> token]
Request == [type |-> "request_role", value |-> None, token |-> "none"]
Tokens == {"right", "stale", "none"}
ToRelay == [type : {"session_auth", "identify", "request_role"},
            value : Passwords \cup {None}, token : Tokens]
(* open and close are the events of the socket.                            *)
Say(type) == [type |-> type, role |-> None]
ToPage == [type : {"open", "password_required", "wrong", "many", "list", "denied", "close",
                   "refuse"},
           role : Roles \cup {None}]

(* `at` is where the handler is: in the loop that waits for session_auth,  *)
(* in the one that waits for identify, in the main loop.  `first` says the *)
(* socket has the handlers of joinSession, not those of reconnect.         *)
Served == {"locked", "waiting", "in"}
ConnType == [at : {"dialed", "over"} \cup Served, sock : {"connecting", "open", "closed"},
             cut : BOOLEAN, first : BOOLEAN, up : Seq(ToRelay), down : Seq(ToPage),
             tries : 0 .. MaxAttempts, role : Roles \cup {None}]
Idle == [at |-> "over", sock |-> "closed", cut |-> TRUE, first |-> TRUE, up |-> <<>>,
         down |-> <<>>, tries |-> 0, role |-> None]

(* `asked` says that the banner waits for the host's approval, `gaveUp`    *)
(* that it says why the page will not connect again, `refused` that the    *)
(* relay refused to connect it again, which the banner hides.              *)
PageType ==
    [ide : BOOLEAN, form : {"session", "name", "none"}, prompt : BOOLEAN,
     pwd : Passwords \cup {None}, role : Roles \cup {None}, asked : BOOLEAN,
     ws : Conns \cup {None}, attempts : 0 .. MaxReconnects + 1, timers : Nat, gaveUp : BOOLEAN,
     refused : BOOLEAN]

(* The variables have their types.                                         *)
TypeOK ==
    /\ token \in Tokens /\ live \in BOOLEAN /\ password \in Passwords \cup {None}
    /\ conn \in [Conns -> ConnType] /\ slots \in 0 .. MaxSlots
    /\ late \in Roles \cup {None, Nothing}
    /\ host \in BOOLEAN /\ toasts \in Nat /\ page \in PageType
    /\ oldList \in BOOLEAN /\ unheard \in BOOLEAN /\ doubled \in BOOLEAN
    /\ deadEnd \in BOOLEAN /\ drifted \in BOOLEAN /\ events \in 0 .. MaxEvents

Init ==
    /\ token \in Tokens /\ live = TRUE /\ password \in FirstPasswords
    /\ conn = [c \in Conns |-> Idle]
    /\ slots = 0 /\ late = Nothing
    /\ host = TRUE /\ toasts = 0 /\ unheard = FALSE
    /\ page = [ide |-> FALSE, form |-> "name", prompt |-> FALSE, pwd |-> None, role |-> None,
               asked |-> FALSE, ws |-> None, attempts |-> 0, timers |-> 0, gaveUp |-> FALSE,
               refused |-> FALSE]
    /\ oldList = FALSE /\ doubled = FALSE /\ deadEnd = FALSE /\ drifted = FALSE
    /\ events = 0

Event == events < MaxEvents /\ events' = events + 1

-----------------------------------------------------------------------------
(* What is written to a connection that is lost goes nowhere.  Lists that  *)
(* come before the user is in the session are left out: the one that then  *)
(* comes undoes whatever they did.                                         *)

Put(cs, c, m) == IF cs[c].cut THEN cs ELSE [cs EXCEPT ![c].down = Append(@, m)]
PutAll(cs, m) ==
    [c \in Conns |-> IF cs[c].at = "in" /\ ~cs[c].cut
                     THEN [cs[c] EXCEPT !.down = Append(@, m)] ELSE cs[c]]

(* send.                                                                   *)
Post(cs, ws, ms) ==
    IF ws = None THEN cs
    ELSE IF cs[ws].sock # "open" \/ cs[ws].cut THEN cs
    ELSE [cs EXCEPT ![ws].up = @ \o ms]

Credentials(pg) == IF pg.pwd # None \/ token # "none" THEN <<Auth(pg.pwd, token)>> ELSE <<>>

(* A socket that closes, and a handler that ends, leave the connection.    *)
SockGone(k) == IF k.at = "over" THEN Idle ELSE [k EXCEPT !.sock = "closed", !.down = <<>>]
HandlerGone(k) ==
    IF k.sock = "closed" THEN Idle
    ELSE [k EXCEPT !.at = "over", !.up = <<>>, !.tries = 0, !.role = None]
Shut(k, m) == [k EXCEPT !.cut = TRUE, !.up = <<>>, !.down = Append(@, m)]

Within == {c \in Conns : conn[c].at = "in"}
OwnRoles(cs) == LET in == {c \in Conns : cs[c].at = "in"}
                IN  IF in = {} THEN {None} ELSE {cs[c].role : c \in in}

(* broadcastParticipants, when the session is as in cs; renderParticipants *)
(* takes the first of the user's name, and the list has no order.  It is   *)
(* written when the lock is let go: others may overtake it, and one that   *)
(* none overtakes is as good as written at once.                           *)
List(r) == [type |-> "list", role |-> r]
Broadcast(cs) ==
    \E r \in OwnRoles(cs) :
        \/ conn' = PutAll(cs, List(r)) /\ oldList' = FALSE /\ UNCHANGED late
        \/ /\ late = Nothing
           /\ late' = r /\ conn' = cs /\ UNCHANGED oldList

-----------------------------------------------------------------------------
(* The page: forms, prompt and timers.                                     *)

Dial(first) ==
    \E c \in Conns :
        /\ conn[c] = Idle /\ \A d \in Conns : conn[d] = Idle => c <= d
        /\ conn' = [conn EXCEPT ![c] = [Idle EXCEPT !.at = "dialed", !.sock = "connecting",
                                                    !.cut = FALSE, !.first = first]]
        /\ page' = [page EXCEPT !.ws = c, !.timers = IF first THEN @ ELSE @ - 1,
                                !.attempts = IF first THEN @ ELSE @ + 1]

SubmitSession ==
    /\ Event
    /\ ~page.ide /\ page.form = "session"
    /\ page' = [page EXCEPT !.form = "name"]
    /\ UNCHANGED <<token, relayVars, hostVars, conn, histVars>>

JoinSession ==
    /\ Event
    /\ ~page.ide /\ page.form = "name"
    /\ Dial(TRUE)
    /\ doubled' = (doubled \/ \E c \in Conns : conn[c].sock # "closed")
    /\ UNCHANGED <<token, relayVars, hostVars, oldList, deadEnd, drifted>>

(* Mutant: identify, sent when the socket opened, is not sent again.       *)
AnswerAuth(p) == <<Auth(p, "none")>>
AnswerPrompt(p) == <<Auth(p, "none"), Identify>>

(* The prompt, once shown, stays under the other forms.                    *)
SubmitPassword(p) ==
    /\ ~page.ide /\ page.prompt
    /\ page' = [page EXCEPT !.pwd = p, !.ide = TRUE, !.form = "none"]
    /\ conn' = Post(conn, page.ws, AnswerPrompt(p))
    /\ deadEnd' = (deadEnd \/ (page.timers = 0 /\ \A c \in Conns : conn[c].sock = "closed"))
    /\ UNCHANGED <<token, relayVars, hostVars, oldList, doubled, drifted>>

(* A user who is not let in tries another.                                 *)
RightPassword ==
    /\ UNCHANGED events
    /\ \E p \in IF password = None THEN Passwords ELSE {password} : SubmitPassword(p)
WrongPassword ==
    Event /\ \E p \in Passwords \ {password} : SubmitPassword(p)

RequestEditAccess ==
    /\ Event
    /\ page.ide /\ page.role = "commenter"
    /\ page' = [page EXCEPT !.asked = TRUE]
    /\ conn' = Post(conn, page.ws, <<Request>>)
    /\ unheard' = FALSE
    /\ UNCHANGED <<token, relayVars, host, toasts, histVars>>

TimerFires ==
    /\ page.timers > 0
    /\ IF page.attempts < MaxReconnects THEN Dial(FALSE)
       ELSE /\ page' = [page EXCEPT !.timers = @ - 1, !.attempts = MaxReconnects + 1,
                                    !.gaveUp = TRUE]
            /\ UNCHANGED conn
    /\ UNCHANGED <<token, relayVars, hostVars, histVars, events>>

-----------------------------------------------------------------------------
(* The page: what arrives.  Mutants come before the operator they alter.   *)

OnOpen(pg, first) ==
    IF first THEN [pg EXCEPT !.ide = TRUE, !.form = "none"]
    ELSE [pg EXCEPT !.attempts = 0, !.gaveUp = FALSE, !.refused = FALSE]

Prompt(pg) == [pg EXCEPT !.ide = FALSE, !.form = "none", !.prompt = TRUE]

OnPasswordRequired(pg) == IF pg.pwd = None /\ token = "none" THEN Prompt(pg) ELSE pg

(* The banner is written anew: it says again that access can be asked for. *)
ApplyRoleRestrictions(pg) == [pg EXCEPT !.asked = FALSE]

(* Mutant: the page looks for its role once.                               *)
OnListOnce(pg, role) == IF pg.role # None THEN pg ELSE [pg EXCEPT !.role = role]
OnList(pg, role) == ApplyRoleRestrictions([pg EXCEPT !.role = IF role = None THEN @ ELSE role])

(* Mutant: a page that was in the session waits for the user.              *)
OnCloseIdle(pg, first) ==
    IF pg.role # None THEN pg
    ELSE IF first /\ ~pg.ide THEN [pg EXCEPT !.form = "session"] ELSE [pg EXCEPT !.timers = @ + 1]
(* Mutant: a page that shows the prompt does not connect again.            *)
OnClosePrompt(pg, first) ==
    IF pg.ide THEN [pg EXCEPT !.timers = @ + 1]
    ELSE IF first THEN [pg EXCEPT !.form = "session"] ELSE pg
(* Mutant: the page connects again twice.                                  *)
OnCloseTwice(pg, first) ==
    IF first /\ ~pg.ide THEN [pg EXCEPT !.form = "session"] ELSE [pg EXCEPT !.timers = @ + 2]
OnClose(pg, first) ==
    IF first /\ ~pg.ide THEN [pg EXCEPT !.form = "session"] ELSE [pg EXCEPT !.timers = @ + 1]

(* The relay accepts before it refuses: the banner, which joinSession's    *)
(* handler shows, was hidden when reconnect's socket opened.               *)
OnRefuse(pg, first) ==
    IF first THEN [pg EXCEPT !.gaveUp = TRUE] ELSE [pg EXCEPT !.refused = TRUE]

Handle(pg, m, first) ==
    CASE m.type = "open" -> OnOpen(pg, first)
      [] m.type = "password_required" -> OnPasswordRequired(pg)
      [] m.type = "wrong" -> [Prompt(pg) EXCEPT !.pwd = None]
      [] m.type = "list" -> OnList(pg, m.role)
      [] m.type = "denied" -> [pg EXCEPT !.asked = FALSE]
      [] m.type = "many" -> pg
      [] m.type = "close" -> OnClose(pg, first)
      [] m.type = "refuse" -> OnRefuse(pg, first)

Deliver(c) ==
    /\ conn[c].sock # "closed" /\ conn[c].down # <<>>
    /\ LET m == Head(conn[c].down)
           rest == [conn EXCEPT ![c].down = Tail(@)]
           opened == [rest EXCEPT ![c].sock = "open"]
       IN  /\ page' = Handle(page, m, conn[c].first)
           /\ conn' = CASE m.type = "open" ->
                             Post(opened, page.ws, Append(Credentials(page), Identify))
                        [] m.type \in {"close", "refuse"} ->
                             [conn EXCEPT ![c] = SockGone(@)]
                        [] OTHER -> rest
    /\ UNCHANGED <<token, relayVars, hostVars, histVars, events>>

-----------------------------------------------------------------------------
(* handleBrowser.                                                          *)

(* Mutant: one more is let in.                                             *)
LimitedLate == slots > MaxSlots
Limited == slots >= MaxSlots

Accepted == slots' = IF Limited THEN slots ELSE slots + 1

(* Over the limit the connection is accepted and closed (1013).            *)
Accept(c) ==
    /\ conn[c].at = "dialed" /\ ~conn[c].cut /\ live
    /\ Accepted
    /\ LET opened == [conn EXCEPT ![c].down = <<Say("open")>>]
       IN  IF Limited
           THEN conn' = [opened EXCEPT ![c] = Shut([@ EXCEPT !.at = "over"], Say("refuse"))]
           ELSE IF password = None THEN conn' = [opened EXCEPT ![c].at = "waiting"]
           ELSE conn' = Put([opened EXCEPT ![c].at = "locked"], c, Say("password_required"))
    /\ UNCHANGED <<token, live, password, late, hostVars, page, histVars, events>>

(* The session is not there, or the handshake fails: the slot is given     *)
(* back only if none was taken.                                            *)
TurnAway(c) ==
    /\ conn[c].at = "dialed"
    /\ slots' = IF Limited THEN slots - 1 ELSE slots + 1
    /\ drifted' = TRUE
    /\ conn' = [conn EXCEPT ![c] = Shut([@ EXCEPT !.at = "over"], Say("close"))]
    /\ UNCHANGED <<token, live, password, late, hostVars, page, oldList, doubled, deadEnd>>
NotFound(c) == ~live /\ TurnAway(c) /\ UNCHANGED events
HandshakeFails(c) == Event /\ live /\ TurnAway(c)

Admits(m) == m.token = "right" \/ (password # None /\ m.value = password)

Tried(k) ==
    IF k.tries + 1 < MaxAttempts
    THEN [k EXCEPT !.tries = @ + 1, !.down = Append(@, Say("wrong"))]
    ELSE [Shut([k EXCEPT !.down = Append(@, Say("many"))], Say("close")) EXCEPT !.tries = @ + 1]

(* A handler that closes the connection ends as one that finds it closed.  *)
ReadLocked(c, m, rest) ==
    /\ conn' = IF m.type # "session_auth" THEN rest
               ELSE IF Admits(m) THEN [rest EXCEPT ![c].at = "waiting"]
               ELSE [rest EXCEPT ![c] = Tried(@)]
    /\ UNCHANGED <<late, oldList, toasts, unheard>>

RoleFor(m) == IF m.token = "right" THEN "host" ELSE "commenter"

(* identifyBrowser.                                                        *)
ReadWaiting(c, m, rest) ==
    /\ IF m.type = "identify"
       THEN Broadcast([rest EXCEPT ![c].at = "in", ![c].role = RoleFor(m)])
       ELSE conn' = rest /\ UNCHANGED <<late, oldList>>
    /\ UNCHANGED <<toasts, unheard>>

ReadIn(m, rest) ==
    /\ conn' = rest
    /\ toasts' = IF m.type = "request_role" /\ host THEN toasts + 1 ELSE toasts
    /\ unheard' = (unheard \/ (m.type = "request_role" /\ ~host))
    /\ UNCHANGED <<late, oldList>>

Take(c) ==
    /\ conn[c].up # <<>> /\ conn[c].at \in Served
    /\ LET m == Head(conn[c].up)
           rest == [conn EXCEPT ![c].up = Tail(@)]
       IN  \/ conn[c].at = "locked" /\ ReadLocked(c, m, rest)
           \/ conn[c].at = "waiting" /\ ReadWaiting(c, m, rest)
           \/ conn[c].at = "in" /\ ReadIn(m, rest)
    /\ UNCHANGED <<token, live, password, slots, host, page, doubled, deadEnd, drifted, events>>

(* Mutant: the slot of a connection that was not let in is not given back. *)
ReleasedIn(k) == slots' = IF k.at = "in" THEN slots - 1 ELSE slots
Released(k) == slots' = IF slots = 0 THEN 0 ELSE slots - 1

HandlerEnds(c) ==
    /\ conn[c].at \in Served /\ conn[c].cut /\ conn[c].up = <<>>
    /\ Released(conn[c])
    /\ Broadcast([conn EXCEPT ![c] = HandlerGone(@)])
    /\ UNCHANGED <<token, live, password, hostVars, page, doubled, deadEnd, drifted, events>>

SendLate ==
    /\ late # Nothing /\ late' = Nothing
    /\ conn' = PutAll(conn, List(late))
    /\ oldList' = (late \notin OwnRoles(conn))
    /\ UNCHANGED <<token, live, password, slots, hostVars, page, doubled, deadEnd, drifted, events>>

-----------------------------------------------------------------------------
(* Others: the host, the network, the daemon and the relay's process.      *)

(* setRole, found by name: never a host's.                                 *)
GiveRole(role) ==
    LET named == {c \in Within : conn[c].role # "host"}
    IN  \/ named = {} /\ Broadcast(conn)
        \/ \E c \in named : Broadcast([conn EXCEPT ![c].role = role])

SetRole(role) ==
    /\ Event
    /\ host /\ live /\ Within # {}
    /\ GiveRole(role)
    /\ UNCHANGED <<token, live, password, slots, hostVars, page, doubled, deadEnd, drifted>>

(* The buttons of the toast, which goes away also when nothing is sent.    *)
Answer ==
    /\ toasts > 0 /\ toasts' = toasts - 1
    /\ \/ host /\ live /\ GiveRole("editor") /\ UNCHANGED unheard
       \/ /\ host /\ live /\ conn' = PutAll(conn, Say("denied"))
          /\ UNCHANGED <<late, oldList, unheard>>
       \/ ~(host /\ live) /\ unheard' = TRUE /\ UNCHANGED <<conn, late, oldList>>
    /\ UNCHANGED <<token, live, password, slots, host, page, doubled, deadEnd, drifted, events>>

(* A page that is loaded again has no toasts.                              *)
HostComesOrGoes ==
    /\ Event
    /\ live
    /\ host' = ~host
    /\ \/ UNCHANGED <<toasts, unheard>>
       \/ toasts > 0 /\ toasts' = 0 /\ unheard' = TRUE
    /\ Broadcast(conn)
    /\ UNCHANGED <<token, live, password, slots, page, doubled, deadEnd, drifted>>

(* What is on its way is lost; each end notices in its own time.           *)
Cut(c) ==
    /\ Event
    /\ conn[c].at \in Served /\ ~conn[c].cut
    /\ conn' = [conn EXCEPT ![c] = Shut([@ EXCEPT !.down = <<>>], Say("close"))]
    /\ UNCHANGED <<token, relayVars, hostVars, page, histVars>>

(* The daemon connects again, with another password or none.               *)
PasswordChanges(p) ==
    /\ Event
    /\ live /\ p # password
    /\ password' = p
    /\ UNCHANGED <<token, live, slots, late, hostVars, conn, page, histVars>>

(* closeAllBrowsers.                                                       *)
SessionExpires ==
    /\ Event
    /\ live /\ live' = FALSE
    /\ conn' = [c \in Conns |-> IF conn[c].at \in Served /\ ~conn[c].cut
                                THEN Shut(conn[c], Say("close")) ELSE conn[c]]
    /\ UNCHANGED <<token, password, slots, late, hostVars, page, histVars>>

RelayRestarts ==
    /\ Event
    /\ live' = FALSE /\ slots' = 0 /\ late' = Nothing /\ drifted' = FALSE
    /\ conn' = [c \in Conns |->
                  IF conn[c].at = "over" THEN conn[c]
                  ELSE HandlerGone(IF conn[c].cut THEN conn[c] ELSE Shut(conn[c], Say("close")))]
    /\ UNCHANGED <<token, password, hostVars, page, oldList, doubled, deadEnd>>

(* The daemon is back; the handlers of the old session have ended.         *)
SessionResumes ==
    /\ Event
    /\ ~live /\ live' = TRUE
    /\ late = Nothing /\ \A c \in Conns : conn[c].at \notin Served
    /\ UNCHANGED <<token, password, slots, late, hostVars, conn, page, histVars>>

-----------------------------------------------------------------------------
System ==
    \/ \E c \in Conns : Deliver(c) \/ Accept(c) \/ NotFound(c) \/ Take(c) \/ HandlerEnds(c)
    \/ SendLate \/ TimerFires

Users ==
    \/ SubmitSession \/ JoinSession \/ WrongPassword \/ RequestEditAccess
    \/ \E role \in {"editor", "commenter"} : SetRole(role)
    \/ Answer \/ HostComesOrGoes

Faults ==
    \/ \E c \in Conns : Cut(c) \/ HandshakeFails(c)
    \/ \E p \in Passwords \cup {None} : PasswordChanges(p)
    \/ SessionExpires \/ RelayRestarts \/ SessionResumes

Next == System \/ RightPassword \/ Users \/ Faults

(* What has been sent is read, timers fire, and a user who is asked for    *)
(* the password enters it in the end.                                      *)
Spec == Init /\ [][Next]_vars /\ WF_vars(System) /\ WF_vars(RightPassword)

-----------------------------------------------------------------------------
(* Properties.                                                             *)

Quiet ==
    /\ late = Nothing /\ page.timers = 0
    /\ \A c \in Conns : /\ conn[c].at # "dialed" /\ conn[c].sock # "connecting"
                        /\ conn[c].up = <<>> /\ conn[c].down = <<>>
                        /\ conn[c].cut => conn[c] = Idle
Joined == page.ws # None /\ page.ws \in Within

(* A page that shows the IDE is in the session, or its banner says that it *)
(* will not connect again, however passwords, prompts, losses and          *)
(* reconnecting interleave; but for a page that the relay refused to       *)
(* connect again, whose banner is hidden (OnRefuse), for a password        *)
(* that was entered when there was no connection and none was to come, and *)
(* for a user who joined twice (submitPassword: "will revert to password   *)
(* prompt if wrong").                                                      *)
IdeIsLive ==
    Quiet /\ page.ide /\ ~page.refused /\ ~deadEnd /\ ~doubled => Joined \/ page.gaveUp

(* A prompt that the user is shown alone is one the relay waits for, or it *)
(* was shown before the session lost its password; but for one on a page   *)
(* that gave up or was refused, which no relay waits for: what would say   *)
(* so is hidden with the IDE.                                              *)
PromptIsLive ==
    Quiet /\ ~page.ide /\ page.form = "none" /\ ~page.gaveUp /\ ~page.refused /\ ~doubled
    => Joined \/ (page.ws # None /\ conn[page.ws].at = "locked")

(* A page is at most once among the participants when the handlers of its  *)
(* lost connections have ended, unless the user joined twice.              *)
OneSelf == Quiet /\ ~doubled => Cardinality(Within) <= 1

(* The role the page goes by is the one the relay checks, after changes of *)
(* role, losses and new connections, unless an older list overtook a newer *)
(* one.                                                                    *)
RoleShown == Quiet /\ Joined /\ ~oldList /\ ~doubled => page.role = conn[page.ws].role

(* A user who waits for the host's approval has a host that was asked, and *)
(* has not answered; but for what was sent while there was no host.        *)
RequestPending == Quiet /\ Joined /\ page.asked => toasts > 0 \/ unheard

(* ipLimiter "tracks active connections per IP address", until one of them *)
(* is turned away: the slot of that one is never given back.               *)
SlotsCounted == ~drifted => slots = Cardinality({c \in Conns : conn[c].at \in Served})

(* A user who knows the password gets in, or is told that it is no use;    *)
(* but for one whom the relay refuses to connect again, who is left with   *)
(* the IDE as it was (OnRefuse), and the exceptions of IdeIsLive.          *)
Settled ==
    \/ page.ide /\ (Joined \/ page.gaveUp \/ page.refused)
    \/ ~page.ide /\ page.form # "none"
    \/ deadEnd \/ doubled
Settles == <>[]Settled
=============================================================================
