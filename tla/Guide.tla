------------------------------- MODULE Guide -------------------------------
(***************************************************************************)
(* Guide mode: the session's guide fields and the relay's handlers of the  *)
(* browsers' connections (internal/server), and the pages that guide and   *)
(* follow (web/app.js).                                                    *)
(*                                                                         *)
(* A handler changes the session under its lock and writes to the          *)
(* connections of the others when it has let the lock go, one after the    *)
(* other: `out` is what it has yet to write.  What a page sends is taken   *)
(* from its connection in the same step: nobody else sees what a page does *)
(* before that, so a page whose handler is busy is one that acts later.    *)
(* A browser stands for the name of its user, and its page stays the same  *)
(* when the connection is lost and made again.  What a guide shows is the  *)
(* file in view; scrolling and the cursor within it go the same way.       *)
(***************************************************************************)
EXTENDS Naturals, Sequences

(* An operator whose comment says "Mutant" is no part of Spec: it is a     *)
(* slip the definition after it could have had, and a property refutes it. *)

CONSTANTS
    Browsers,
    Files,
    Opened,     \* the files every page has a copy of at first
    MaxEvents,  \* bound: what users, connections and the daemon's loss may do
    None

ASSUME GuideAssumption ==
    /\ Opened \subseteq Files
    /\ MaxEvents \in Nat /\ None \notin Browsers \cup Files

VARIABLES
    hosts,       \* whose participant has the role of a host; it never changes
    guideName,   \* session.guideName, None while guideActive is false
    guideState,  \* the file of session.guideState, or None
    stateBy,     \* history: whose guide_state that is, None if it is of an earlier guide
    pc,          \* where the handler of each browser's connection is
    out,         \* the message each handler is broadcasting, and who has yet to get it
    down,        \* messages to the page of each connection
    page,
    behind,      \* history: see Overtaken
    strayed,     \* history: pages whose view did not last come from the guide
    events

relayVars == <<guideName, guideState, stateBy, pc, out>>
histVars == <<behind, strayed>>
vars == <<hosts, relayVars, down, page, histVars, events>>

(* Of messages; "count" is for guides that missed some of kind "follow".   *)
Kinds == {"guide", "state", "follow", "count"}
Msg(type, who, file) == [type |-> type, who |-> who, file |-> file]
Msgs == [type : {"guide_start", "follow", "unfollow"}, who : Browsers, file : {None}]
        \cup [type : {"guide_state"}, who : {None}, file : Files]
        \cup {Msg("guide_stop", None, None)}
Nothing == [kind |-> "none", msg |-> Msg("none", None, None), to |-> {}, begun |-> FALSE]

Page ==
    [guideActive : BOOLEAN, guideName : Browsers \cup {None}, following : BOOLEAN,
     followers : SUBSET Browsers, lastState : Files \cup {None}, pending : Files \cup {None},
     frame : BOOLEAN, view : Files \cup {None}, openFiles : SUBSET Files, asked : SUBSET Files]
NewPage(file) ==
    [guideActive |-> FALSE, guideName |-> None, following |-> FALSE, followers |-> {},
     lastState |-> None, pending |-> None, frame |-> FALSE, view |-> file,
     openFiles |-> Opened, asked |-> {}]
PageUnder(b, g, in, file) ==
    IF g = None THEN NewPage(file)
    ELSE [NewPage(file) EXCEPT !.guideActive = b = g, !.guideName = g, !.following = b # g,
                               !.followers = in \ {g}, !.lastState = file]

(* The variables have their types; the bounds on events are kept.          *)
TypeOK ==
    /\ hosts \subseteq Browsers
    /\ guideName \in Browsers \cup {None}
    /\ guideState \in Files \cup {None}
    /\ stateBy \in Browsers \cup {None}
    /\ pc \in [Browsers -> {"off", "greet", "serving"}]
    /\ out \in [Browsers -> [kind : Kinds, msg : Msgs, to : SUBSET Browsers, begun : BOOLEAN]
                             \cup {Nothing}]
    /\ down \in [Browsers -> Seq(Msgs)]
    /\ page \in [Browsers -> Page]
    /\ behind \in [Kinds -> SUBSET Browsers]
    /\ strayed \subseteq Browsers
    /\ events \in 0 .. MaxEvents

(* Nobody guides, or everybody follows a guide.  All have one file in view *)
(* or none.                                                                *)
Init ==
    \E in \in SUBSET Browsers : \E g \in in \cup {None} : \E file \in Opened \cup {None} :
        /\ hosts \in SUBSET Browsers /\ (g # None => g \in hosts)
        /\ guideName = g /\ stateBy = IF file = None THEN None ELSE g
        /\ guideState = IF g = None THEN None ELSE file
        /\ pc = [b \in Browsers |-> IF b \in in THEN "serving" ELSE "off"]
        /\ out = [b \in Browsers |-> Nothing]
        /\ down = [b \in Browsers |-> <<>>]
        /\ page = [b \in Browsers |-> IF b \in in THEN PageUnder(b, g, in, file)
                                     ELSE NewPage(file)]
        /\ behind = [k \in Kinds |-> {}] /\ strayed = {}
        /\ events = 0

In == {b \in Browsers : pc[b] # "off"}
(* What costs more starts more messages; MaxEvents bounds the sum.         *)
Event(cost) == events + cost <= MaxEvents /\ events' = events + cost

-----------------------------------------------------------------------------
(* web/app.js: what an event makes of the page.                            *)

OnGuideStart(pg, b, name) ==
    [pg EXCEPT !.guideName = name, !.followers = {}, !.following = (name # b) \/ @]

(* Mutant: a page that stops following keeps the guide's name.             *)
OnGuideStopKeepName(pg, b) ==
    IF pg.guideName = b THEN pg
    ELSE [pg EXCEPT !.following = FALSE, !.lastState = None, !.followers = {}]
OnGuideStop(pg, b) ==
    IF pg.guideName = b THEN pg
    ELSE [pg EXCEPT !.guideName = None, !.following = FALSE, !.lastState = None,
                    !.followers = {}]

(* Mutant: nobody who was counted is taken off again.                      *)
OnFollowStatusAdd(pg, name, on) == [pg EXCEPT !.followers = @ \cup {name}]
OnFollowStatus(pg, name, on) ==
    [pg EXCEPT !.followers = IF on THEN @ \cup {name} ELSE @ \ {name}]

(* applyGuideState shows the file, or asks for it and waits.               *)
MustAsk(pg, f) == pg.view # f /\ f \notin pg.openFiles
ApplyGuideState(pg, f) ==
    IF MustAsk(pg, f) THEN [pg EXCEPT !.pending = f, !.asked = @ \cup {f}]
    ELSE [pg EXCEPT !.view = f]

(* Mutant: the page of a user who broke away is moved too.                 *)
FollowsAlways(pg, b) == pg.guideName # b
Follows(pg, b) == pg.following /\ pg.guideName # b

OnGuideState(pg, b, f) ==
    LET known == [pg EXCEPT !.lastState = f]
    IN  IF Follows(pg, b) THEN ApplyGuideState(known, f) ELSE known

(* A file that arrives is shown, whatever the page shows meanwhile.        *)
OnFileContent(pg, f) ==
    [pg EXCEPT !.openFiles = @ \cup {f}, !.asked = @ \ {f}, !.view = f,
               !.pending = IF @ = f THEN None ELSE @]

(* The page becomes pg, its view led by the guide or otherwise.            *)
Show(b, pg, led) ==
    /\ page' = [page EXCEPT ![b] = pg]
    /\ strayed' = IF led THEN strayed \ {b} ELSE strayed \cup {b}
Become(b, pg) == page' = [page EXCEPT ![b] = pg] /\ UNCHANGED strayed

-----------------------------------------------------------------------------
(* The relay.                                                              *)

(* Who has yet to get a message of kind k from one of the handlers in B.   *)
Awaiting(k, B) == UNION {out[c].to : c \in {d \in B : out[d].kind = k}}

(* Those who do not get what handler b is about to write, or may get an    *)
(* earlier message of the kind after it: handlers do not write in the      *)
(* order of their critical sections.                                       *)
Overtaken(b, k) == (Browsers \ In) \cup Awaiting(k, Browsers \ {b})

(* broadcastToBrowsers.  Who starts to guide counts from none.             *)
Broadcast(b, k, m) ==
    /\ out' = [out EXCEPT ![b] = [kind |-> k, msg |-> m, begun |-> FALSE, to |-> In]]
    /\ behind' = [behind EXCEPT ![k] = Overtaken(b, k),
                                !["count"] = IF k = "guide" THEN @ \ {b} ELSE @]

(* What is left of a broadcast without one of its recipients.              *)
Without(o, c) == IF o.to \subseteq {c} THEN Nothing ELSE [o EXCEPT !.to = @ \ {c}]

Write(b, c) ==
    /\ c \in out[b].to
    /\ down' = [down EXCEPT ![c] = Append(@, out[b].msg)]
    /\ out' = [out EXCEPT ![b] = Without([out[b] EXCEPT !.begun = TRUE], c)]
    /\ UNCHANGED <<hosts, guideName, guideState, stateBy, pc, page, histVars, events>>

(* addBrowser, before the password and the name are asked for.  Handlers   *)
(* that have yet to list the recipients of their message write to it too.  *)
Connect(b) ==
    /\ pc[b] = "off" /\ Event(1)
    /\ pc' = [pc EXCEPT ![b] = "greet"]
    /\ down' = [down EXCEPT ![b] = <<>>]
    /\ \E late \in SUBSET {d \in Browsers : out[d] # Nothing /\ ~out[d].begun} :
           out' = [d \in Browsers |-> IF d \in late THEN [out[d] EXCEPT !.to = @ \cup {b}]
                                      ELSE out[d]]
    /\ UNCHANGED <<hosts, guideName, guideState, stateBy, page, histVars>>

(* The joiner is sent the guide and its state, under the session's lock.   *)
(* Mutant: the state is sent though there is none.                         *)
GreetingAll == IF guideName = None THEN <<>>
               ELSE <<Msg("guide_start", guideName, None), Msg("guide_state", None, guideState)>>
(* Mutant: the state is not sent.                                          *)
GreetingStart == IF guideName = None THEN <<>> ELSE <<Msg("guide_start", guideName, None)>>
Greeting ==
    IF guideName = None THEN <<>>
    ELSE <<Msg("guide_start", guideName, None)>> \o
         (IF guideState = None THEN <<>> ELSE <<Msg("guide_state", None, guideState)>>)

Greet(b) ==
    /\ pc[b] = "greet"
    /\ pc' = [pc EXCEPT ![b] = "serving"]
    /\ down' = [down EXCEPT ![b] = @ \o Greeting]
    /\ behind' = [k \in Kinds |->
                    IF guideName # None /\ k \in {"guide", "state"} /\ b \notin Awaiting(k, Browsers)
                    THEN behind[k] \ {b} ELSE behind[k]]
    /\ UNCHANGED <<hosts, guideName, guideState, stateBy, out, page, strayed, events>>

(* The connection ends; its page may still take what has arrived.  The     *)
(* guide's fields stay, even if it was the guide.                          *)
Drop(b) ==
    /\ pc[b] = "serving" /\ out[b] = Nothing /\ Event(1)
    /\ pc' = [pc EXCEPT ![b] = "off"]
    /\ out' = [d \in Browsers |-> Without(out[d], b)]
    /\ behind' = [k \in Kinds |-> behind[k] \cup {b}]
    /\ UNCHANGED <<hosts, guideName, guideState, stateBy, down, page, strayed>>

(* The daemon's connection is lost: evictCaches, which tells nobody.       *)
Evict ==
    /\ Event(1)
    /\ guideName' = None /\ guideState' = None /\ stateBy' = None
    /\ behind' = [k \in Kinds |-> IF k \in {"guide", "state"} THEN Browsers ELSE behind[k]]
    /\ UNCHANGED <<hosts, pc, out, down, page, strayed>>

(* The cases of handleBrowser.  What only a host may do is dropped for     *)
(* others, whose page goes on without the guide that it had.               *)
GuideStop(b) ==
    IF b \in hosts
    THEN /\ guideName' = None /\ guideState' = None /\ stateBy' = None
         /\ Broadcast(b, "guide", Msg("guide_stop", None, None))
    ELSE /\ behind' = [behind EXCEPT !["guide"] = @ \cup {b}]
         /\ UNCHANGED <<guideName, guideState, stateBy, out>>

GuideStart(b) ==
    /\ IF b \in hosts THEN /\ guideName' = b /\ stateBy' = None
                          /\ Broadcast(b, "guide", Msg("guide_start", b, None))
       ELSE UNCHANGED <<guideName, stateBy, out, behind>>
    /\ UNCHANGED guideState

(* Stored and sent on whether or not anyone guides.                        *)
GuideState(b, f) ==
    /\ IF b \in hosts THEN /\ guideState' = f /\ stateBy' = b
                          /\ Broadcast(b, "state", Msg("guide_state", None, f))
       ELSE UNCHANGED <<guideState, stateBy, out, behind>>
    /\ UNCHANGED guideName

(* A page may take this status before the start that it answers.           *)
FollowStatus(b, on) ==
    /\ out' = [out EXCEPT ![b] = [kind |-> "follow", begun |-> FALSE, to |-> In,
                                  msg |-> Msg(IF on THEN "follow" ELSE "unfollow", b, None)]]
    /\ behind' = [behind EXCEPT !["follow"] =
                    IF Awaiting("guide", Browsers) # {} THEN @ \cup {b} ELSE @ \ {b}]
    /\ UNCHANGED <<guideName, guideState, stateBy>>

-----------------------------------------------------------------------------
(* The users, and what the pages do by themselves.                         *)

(* send does nothing while the connection is down.                         *)
Send(b, Handle) ==
    \/ pc[b] = "serving" /\ out[b] = Nothing /\ Handle
    \/ b \notin In /\ UNCHANGED <<guideName, guideState, stateBy, out, behind>>
SendNothing == UNCHANGED <<guideName, guideState, stateBy, out, behind>>

(* The button is hidden and shown by updateGuideUI and, for the role, by   *)
(* applyRoleRestrictions, whichever came last: anyone may have it.         *)
ToggleGuide(b) ==
    /\ Event(2)
    /\ IF page[b].guideActive
       THEN /\ Become(b, [page[b] EXCEPT !.guideActive = FALSE, !.guideName = None,
                                         !.lastState = None])
            /\ Send(b, GuideStop(b))
       ELSE /\ Become(b, [page[b] EXCEPT !.guideActive = TRUE, !.frame = TRUE])
            /\ Send(b, GuideStart(b))
    /\ UNCHANGED <<hosts, pc, down>>

ToggleFollow(b) ==
    LET pg == [page[b] EXCEPT !.following = ~@]
    IN  /\ Event(1)
        /\ page[b].guideName \notin {None, b} /\ ~page[b].guideActive
        /\ IF pg.following /\ pg.lastState # None
           THEN Show(b, ApplyGuideState(pg, pg.lastState), TRUE) ELSE Become(b, pg)
        /\ Send(b, FollowStatus(b, pg.following))
        /\ UNCHANGED <<hosts, pc, down>>

(* A file picked in the tree is shown, or asked for.  Neither ends the     *)
(* following nor reports the guide's new place: no cursor has moved.       *)
OpenFile(b, f) ==
    /\ Event(1)
    /\ page[b].view # f
    /\ IF f \in page[b].openFiles THEN Show(b, [page[b] EXCEPT !.view = f], FALSE)
       ELSE Become(b, [page[b] EXCEPT !.asked = @ \cup {f}])
    /\ SendNothing /\ UNCHANGED <<hosts, pc, down>>

(* A guide's click on a tab is reported, in the next frame.                *)
ClickTab(b, f) ==
    /\ Event(1)
    /\ page[b].view # f /\ f \in page[b].openFiles
    /\ page[b].guideActive
    /\ Show(b, [page[b] EXCEPT !.view = f, !.frame = TRUE], FALSE)
    /\ SendNothing /\ UNCHANGED <<hosts, pc, down>>

(* The cursor moves: a guide reports its place, a follower breaks away.    *)
(* Within 200 ms of the guide's last change a follower's move does nothing *)
(* and is no step.                                                         *)
MoveCursor(b) ==
    /\ Event(1)
    /\ \/ /\ page[b].guideActive
          /\ Become(b, [page[b] EXCEPT !.frame = TRUE])
          /\ SendNothing
       \/ /\ page[b].following /\ ~page[b].guideActive
          /\ Become(b, [page[b] EXCEPT !.following = FALSE])
          /\ Send(b, FollowStatus(b, FALSE))
    /\ UNCHANGED <<hosts, pc, down>>

(* The frame that broadcastGuideState asked for.  It comes even if the     *)
(* guide has stopped by then.                                              *)
Frame(b) ==
    /\ page[b].frame
    /\ Become(b, [page[b] EXCEPT !.frame = FALSE])
    /\ IF page[b].view # None THEN Send(b, GuideState(b, page[b].view)) ELSE SendNothing
    /\ UNCHANGED <<hosts, pc, down, events>>

(* The answer of relay and daemon to open_file: it may come at any time,   *)
(* and when two pages ask at once one of them gets none (see FileSync).    *)
FileArrives(b, f) ==
    /\ b \in In /\ f \in page[b].asked
    /\ Show(b, OnFileContent(page[b], f), page[b].pending = f /\ page[b].lastState = f)
    /\ SendNothing /\ UNCHANGED <<hosts, pc, down, events>>

(* handleMessage.                                                          *)
Deliver(b) ==
    /\ down[b] # <<>>
    /\ down' = [down EXCEPT ![b] = Tail(@)]
    /\ LET m == Head(down[b])
           pg == page[b]
       IN  \/ /\ m.type = "guide_start"
              /\ Become(b, OnGuideStart(pg, b, m.who))
              /\ IF m.who # b THEN Send(b, FollowStatus(b, TRUE)) ELSE SendNothing
           \/ /\ m.type = "guide_stop"
              /\ Become(b, OnGuideStop(pg, b))
              /\ SendNothing
           \/ /\ m.type \in {"follow", "unfollow"}
              /\ Become(b, OnFollowStatus(pg, m.who, m.type = "follow"))
              /\ SendNothing
           \/ /\ m.type = "guide_state"
              /\ Show(b, OnGuideState(pg, b, m.file), Follows(pg, b) \/ b \notin strayed)
              /\ SendNothing
    /\ UNCHANGED <<hosts, pc, events>>

-----------------------------------------------------------------------------
UserStep(b) ==
    \/ ToggleGuide(b) \/ ToggleFollow(b) \/ MoveCursor(b)
    \/ \E f \in Files : OpenFile(b, f) \/ ClickTab(b, f)
    \/ Connect(b) \/ Drop(b)

HandlerStep(b) ==
    \/ \E c \in Browsers : Write(b, c)
    \/ Greet(b)

PageStep(b) == Frame(b) \/ Deliver(b) \/ \E f \in Files : FileArrives(b, f)

Next ==
    \/ \E b \in Browsers : UserStep(b) \/ PageStep(b) \/ HandlerStep(b)
    \/ Evict

Spec == Init /\ [][Next]_vars

-----------------------------------------------------------------------------
(* Properties.                                                             *)

Quiet ==
    \A b \in Browsers : /\ down[b] = <<>> /\ out[b] = Nothing
                        /\ ~page[b].frame /\ pc[b] # "greet"

(* Whom a page believes to be guiding, itself apart: a page that stops its *)
(* own guide before it hears of the start keeps its own name.              *)
Other(b, name) == IF name = b THEN None ELSE name

(* When nothing is on its way, all pages name the guide the relay has,     *)
(* whichever hosts started and stopped guiding meanwhile and whoever       *)
(* joined, except those `behind` names (guide_start and guide_stop against *)
(* the guide_start that a new joiner is sent).                             *)
PagesKnowGuide ==
    Quiet => \A b \in In \ behind["guide"] :
                Other(b, page[b].guideName) = Other(b, guideName)

(* ... and a page that follows shows the place its guide last reported, if *)
(* that was since it began to guide, unless the page's user or a file      *)
(* asked for earlier has put another file into view, or it still waits for *)
(* the file ("Your team sees what you see", README.md; handleGuideState    *)
(* and the pending state of applyGuideState).                              *)
FollowersShowState ==
    Quiet => \A b \in In \ (behind["guide"] \cup behind["state"] \cup strayed) :
                /\ Follows(page[b], b) /\ page[b].asked = {}
                /\ page[b].guideName = stateBy /\ guideName = stateBy
                => page[b].view = guideState

(* ... and the guide's count of followers is that of those who follow it,  *)
(* if it was connected since it began ("The guide sees who's following",   *)
(* README.md).                                                             *)
FollowersCounted ==
    Quiet => \A g \in In \ (behind["guide"] \cup behind["count"]),
                b \in In \ (behind["guide"] \cup behind["follow"]) :
                g # b /\ guideName = g /\ page[g].guideName = g
                => (b \in page[g].followers <=> page[b].following)

(* Who broke away is left where they are: what moves the view of a page    *)
(* that does not follow is its user or a file it has asked for             *)
(* ("Followers can break away", README.md).                                *)
BreakAwayKept ==
    [][\A b \in Browsers :
         page'[b].view # page[b].view /\ ~page[b].following /\ ~page'[b].following
         => \/ page'[b].view \in page[b].asked
            \/ OpenFile(b, page'[b].view) \/ ClickTab(b, page'[b].view)]_vars
=============================================================================
