---------------------------- MODULE GuideProofs ----------------------------
(* Proofs about Guide, for any browsers, hosts, files and bound on events: *)
(* types, that who broke away is left alone, and that when nothing is on   *)
(* its way all pages know the guide, those that follow show its place, and *)
(* it counts them.                                                         *)
EXTENDS Guide, TLAPS

OutType == [kind : Kinds, msg : Msgs, to : SUBSET Browsers, begun : BOOLEAN]

RelayTyped ==
    /\ guideName \in Browsers \cup {None}
    /\ guideState \in Files \cup {None}
    /\ stateBy \in Browsers \cup {None}
    /\ out \in [Browsers -> OutType \cup {Nothing}]
    /\ behind \in [Kinds -> SUBSET Browsers]
PagesTyped == page \in [Browsers -> Page] /\ strayed \subseteq Browsers

-----------------------------------------------------------------------------
(* Types.                                                                  *)

LEMMA TypeParts ==
    TypeOK <=> /\ RelayTyped /\ PagesTyped
               /\ hosts \subseteq Browsers
               /\ pc \in [Browsers -> {"off", "greet", "serving"}]
               /\ down \in [Browsers -> Seq(Msgs)]
               /\ events \in 0 .. MaxEvents
BY DEF TypeOK, RelayTyped, PagesTyped, OutType

LEMMA MsgsTyped ==
    /\ Msg("guide_stop", None, None) \in Msgs
    /\ \A b \in Browsers : /\ Msg("guide_start", b, None) \in Msgs
                           /\ Msg("follow", b, None) \in Msgs
                           /\ Msg("unfollow", b, None) \in Msgs
    /\ \A f \in Files : Msg("guide_state", None, f) \in Msgs
BY DEF Msg, Msgs

LEMMA MsgFields ==
  ASSUME NEW m \in Msgs
  PROVE  /\ m.type \in {"guide_start", "follow", "unfollow"} => m.who \in Browsers
         /\ m.type = "guide_state" => m.file \in Files
         /\ m.type = "guide_stop" => m.who = None
BY DEF Msg, Msgs

LEMMA EventTyped ==
  ASSUME events \in 0 .. MaxEvents, NEW n \in Nat, Event(n)
  PROVE  events' \in 0 .. MaxEvents
BY GuideAssumption DEF Event, GuideAssumption

LEMMA BroadcastTyped ==
  ASSUME RelayTyped, NEW b \in Browsers, NEW k \in Kinds, NEW m \in Msgs, Broadcast(b, k, m)
  PROVE  /\ out' \in [Browsers -> OutType \cup {Nothing}]
         /\ behind' \in [Kinds -> SUBSET Browsers]
<1>1. In \subseteq Browsers
  BY DEF In
<1>2. [kind |-> k, msg |-> m, begun |-> FALSE, to |-> In] \in OutType
  BY <1>1 DEF OutType
<1>3. out' \in [Browsers -> OutType \cup {Nothing}]
  BY <1>2 DEF RelayTyped, Broadcast
<1>4. Overtaken(b, k) \subseteq Browsers
  <2>1. \A c \in Browsers : out[c].to \subseteq Browsers
    BY DEF RelayTyped, OutType, Nothing
  <2> QED
    BY <2>1 DEF Overtaken, Awaiting
<1>5. behind' \in [Kinds -> SUBSET Browsers]
  BY <1>4 DEF RelayTyped, Broadcast
<1> QED
  BY <1>3, <1>5

(* What the relay makes of a message keeps its fields' types.              *)
LEMMA SilenceTyped ==
  ASSUME RelayTyped, SendNothing
  PROVE  RelayTyped'
BY DEF RelayTyped, SendNothing

LEMMA StopTyped ==
  ASSUME RelayTyped, NEW b \in Browsers, GuideStop(b)
  PROVE  RelayTyped'
<1>1. CASE b \in hosts
  <2>1. Broadcast(b, "guide", Msg("guide_stop", None, None)) /\ "guide" \in Kinds
    BY <1>1 DEF GuideStop, Kinds
  <2>2. guideName' = None /\ guideState' = None /\ stateBy' = None
    BY <1>1 DEF GuideStop
  <2> QED
    BY <2>1, <2>2, BroadcastTyped, MsgsTyped DEF RelayTyped
<1>2. CASE b \notin hosts
  <2>1. behind' \in [Kinds -> SUBSET Browsers]
    BY <1>2 DEF GuideStop, RelayTyped
  <2> QED
    BY <1>2, <2>1 DEF GuideStop, RelayTyped
<1> QED
  BY <1>1, <1>2

LEMMA StartTyped ==
  ASSUME RelayTyped, NEW b \in Browsers, GuideStart(b)
  PROVE  RelayTyped'
<1>1. CASE b \in hosts
  <2>1. Broadcast(b, "guide", Msg("guide_start", b, None)) /\ "guide" \in Kinds
    BY <1>1 DEF GuideStart, Kinds
  <2>2. guideName' = b /\ stateBy' = None /\ guideState' = guideState
    BY <1>1 DEF GuideStart
  <2> QED
    BY <2>1, <2>2, BroadcastTyped, MsgsTyped DEF RelayTyped
<1>2. CASE b \notin hosts
  BY <1>2 DEF GuideStart, RelayTyped
<1> QED
  BY <1>1, <1>2

LEMMA StateTyped ==
  ASSUME RelayTyped, NEW b \in Browsers, NEW f \in Files, GuideState(b, f)
  PROVE  RelayTyped'
<1>1. CASE b \in hosts
  <2>1. Broadcast(b, "state", Msg("guide_state", None, f)) /\ "state" \in Kinds
    BY <1>1 DEF GuideState, Kinds
  <2>2. guideState' = f /\ stateBy' = b /\ guideName' = guideName
    BY <1>1 DEF GuideState
  <2> QED
    BY <2>1, <2>2, BroadcastTyped, MsgsTyped DEF RelayTyped
<1>2. CASE b \notin hosts
  BY <1>2 DEF GuideState, RelayTyped
<1> QED
  BY <1>1, <1>2

LEMMA FollowTyped ==
  ASSUME RelayTyped, NEW b \in Browsers, NEW on, FollowStatus(b, on)
  PROVE  RelayTyped'
<1> DEFINE m == Msg(IF on THEN "follow" ELSE "unfollow", b, None)
<1>1. m \in Msgs
  BY MsgsTyped
<1>2. In \subseteq Browsers /\ "follow" \in Kinds
  BY DEF In, Kinds
<1>3. out' = [out EXCEPT ![b] = [kind |-> "follow", begun |-> FALSE, to |-> In, msg |-> m]]
  BY DEF FollowStatus
<1> HIDE DEF m
<1>4. [kind |-> "follow", begun |-> FALSE, to |-> In, msg |-> m] \in OutType
  BY <1>1, <1>2 DEF OutType
<1>5. out' \in [Browsers -> OutType \cup {Nothing}]
  BY <1>3, <1>4 DEF RelayTyped
<1>6. behind' \in [Kinds -> SUBSET Browsers]
  BY DEF RelayTyped, FollowStatus
<1> QED
  BY <1>5, <1>6 DEF RelayTyped, FollowStatus

(* Events leave pages that are pages.                                      *)
LEMMA BecomeTyped ==
  ASSUME PagesTyped, NEW b \in Browsers, NEW pg \in Page, NEW led,
         Become(b, pg) \/ Show(b, pg, led)
  PROVE  PagesTyped'
BY DEF PagesTyped, Become, Show

LEMMA OnGuideStartTyped ==
  ASSUME NEW pg \in Page, NEW b, NEW name \in Browsers
  PROVE  OnGuideStart(pg, b, name) \in Page
<1>1. ((name # b) \/ pg.following) \in BOOLEAN
  OBVIOUS
<1> QED
  BY <1>1 DEF OnGuideStart, Page

LEMMA OnGuideStopTyped ==
  ASSUME NEW pg \in Page, NEW b
  PROVE  OnGuideStop(pg, b) \in Page
BY DEF OnGuideStop, Page

LEMMA OnFollowStatusTyped ==
  ASSUME NEW pg \in Page, NEW name \in Browsers, NEW on
  PROVE  OnFollowStatus(pg, name, on) \in Page
BY DEF OnFollowStatus, Page

LEMMA ApplyTyped ==
  ASSUME NEW pg \in Page, NEW f \in Files
  PROVE  ApplyGuideState(pg, f) \in Page
BY DEF ApplyGuideState, Page

LEMMA OnGuideStateTyped ==
  ASSUME NEW pg \in Page, NEW b, NEW f \in Files
  PROVE  OnGuideState(pg, b, f) \in Page
<1>1. [pg EXCEPT !.lastState = f] \in Page
  BY DEF Page
<1> QED
  BY <1>1, ApplyTyped DEF OnGuideState

LEMMA OnFileContentTyped ==
  ASSUME NEW pg \in Page, NEW f \in Files
  PROVE  OnFileContent(pg, f) \in Page
BY DEF OnFileContent, Page

LEMMA PageFields ==
  ASSUME PagesTyped, NEW b \in Browsers
  PROVE  /\ page[b] \in Page
         /\ page[b].lastState \in Files \cup {None} /\ page[b].view \in Files \cup {None}
         /\ page[b].guideName \in Browsers \cup {None}
         /\ page[b].asked \subseteq Files
         /\ page[b].following \in BOOLEAN
BY DEF PagesTyped, Page

LEMMA SendTyped ==
  ASSUME RelayTyped,
         \/ SendNothing
         \/ \E b \in Browsers : \/ Send(b, GuideStop(b)) \/ Send(b, GuideStart(b))
                                \/ \E f \in Files : Send(b, GuideState(b, f))
                                \/ \E on \in BOOLEAN : Send(b, FollowStatus(b, on))
  PROVE  RelayTyped'
BY SilenceTyped, StopTyped, StartTyped, StateTyped, FollowTyped DEF Send, SendNothing

(* Nothing but what a user, a page or a message does to page and relay.    *)
LEMMA EventSteps ==
  ASSUME TypeOK, NEW b \in Browsers,
         \/ ToggleGuide(b) \/ ToggleFollow(b) \/ MoveCursor(b)
         \/ \E f \in Files : OpenFile(b, f) \/ ClickTab(b, f)
  PROVE  TypeOK'
<1>0. RelayTyped /\ PagesTyped /\ page[b] \in Page /\ events \in 0 .. MaxEvents
  BY TypeParts, PageFields
<1>1. CASE ToggleGuide(b)
  <2>1. /\ [page[b] EXCEPT !.guideActive = FALSE, !.guideName = None, !.lastState = None] \in Page
        /\ [page[b] EXCEPT !.guideActive = TRUE, !.frame = TRUE] \in Page
    BY <1>0 DEF Page
  <2>2. PagesTyped'
    BY <1>0, <1>1, <2>1, BecomeTyped DEF ToggleGuide
  <2>3. RelayTyped'
    BY <1>0, <1>1, SendTyped DEF ToggleGuide
  <2>4. events' \in 0 .. MaxEvents /\ UNCHANGED <<hosts, pc, down>>
    BY <1>0, <1>1, EventTyped DEF ToggleGuide
  <2> QED
    BY <2>2, <2>3, <2>4 DEF TypeOK, RelayTyped, PagesTyped, OutType
<1>2. CASE ToggleFollow(b)
  <2> DEFINE pg == [page[b] EXCEPT !.following = ~@]
  <2>1. pg \in Page /\ pg.lastState \in Files \cup {None} /\ pg.following \in BOOLEAN
    BY <1>0 DEF Page
  <2>2. /\ IF pg.following /\ pg.lastState # None
           THEN Show(b, ApplyGuideState(pg, pg.lastState), TRUE) ELSE Become(b, pg)
        /\ Send(b, FollowStatus(b, pg.following))
        /\ Event(1) /\ UNCHANGED <<hosts, pc, down>>
    BY <1>2 DEF ToggleFollow
  <2> HIDE DEF pg
  <2>3. PagesTyped'
    BY <1>0, <2>1, <2>2, ApplyTyped, BecomeTyped
  <2>4. RelayTyped'
    BY <1>0, <2>1, <2>2, SendTyped
  <2>5. events' \in 0 .. MaxEvents
    BY <1>0, <2>2, EventTyped
  <2> QED
    BY <2>2, <2>3, <2>4, <2>5 DEF TypeOK, RelayTyped, PagesTyped, OutType
<1>3. CASE MoveCursor(b)
  <2>1. /\ [page[b] EXCEPT !.frame = TRUE] \in Page
        /\ [page[b] EXCEPT !.following = FALSE] \in Page
    BY <1>0 DEF Page
  <2>2. PagesTyped'
    BY <1>0, <1>3, <2>1, BecomeTyped DEF MoveCursor
  <2>3. RelayTyped'
    BY <1>0, <1>3, SendTyped DEF MoveCursor
  <2>4. events' \in 0 .. MaxEvents /\ UNCHANGED <<hosts, pc, down>>
    BY <1>0, <1>3, EventTyped DEF MoveCursor
  <2> QED
    BY <2>2, <2>3, <2>4 DEF TypeOK, RelayTyped, PagesTyped, OutType
<1>4. ASSUME NEW f \in Files, OpenFile(b, f) \/ ClickTab(b, f)
      PROVE  TypeOK'
  <2>1. /\ [page[b] EXCEPT !.view = f] \in Page
        /\ [page[b] EXCEPT !.asked = @ \cup {f}] \in Page
        /\ [page[b] EXCEPT !.view = f, !.frame = TRUE] \in Page
    BY <1>0 DEF Page
  <2>2. PagesTyped'
    BY <1>0, <1>4, <2>1, BecomeTyped DEF OpenFile, ClickTab
  <2>3. RelayTyped'
    BY <1>0, <1>4, SendTyped DEF OpenFile, ClickTab
  <2>4. events' \in 0 .. MaxEvents /\ UNCHANGED <<hosts, pc, down>>
    BY <1>0, <1>4, EventTyped DEF OpenFile, ClickTab
  <2> QED
    BY <2>2, <2>3, <2>4 DEF TypeOK, RelayTyped, PagesTyped, OutType
<1> QED
  BY <1>1, <1>2, <1>3, <1>4

LEMMA PageSteps ==
  ASSUME TypeOK, NEW b \in Browsers, PageStep(b)
  PROVE  TypeOK'
<1>0. RelayTyped /\ PagesTyped /\ page[b] \in Page /\ page[b].view \in Files \cup {None}
  BY TypeParts, PageFields
<1>1. CASE Frame(b)
  <2>1. [page[b] EXCEPT !.frame = FALSE] \in Page
    BY <1>0 DEF Page
  <2>2. PagesTyped'
    BY <1>0, <1>1, <2>1, BecomeTyped DEF Frame
  <2>3. RelayTyped'
    BY <1>0, <1>1, SendTyped DEF Frame
  <2> QED
    BY <1>1, <2>2, <2>3 DEF Frame, TypeOK, RelayTyped, PagesTyped, OutType
<1>2. ASSUME NEW f \in Files, FileArrives(b, f)
      PROVE  TypeOK'
  <2>1. PagesTyped'
    BY <1>0, <1>2, OnFileContentTyped, BecomeTyped DEF FileArrives
  <2>2. RelayTyped'
    BY <1>0, <1>2, SendTyped DEF FileArrives
  <2> QED
    BY <1>2, <2>1, <2>2 DEF FileArrives, TypeOK, RelayTyped, PagesTyped, OutType
<1>3. CASE Deliver(b)
  <2> DEFINE m == Head(down[b])
  <2>1. m \in Msgs /\ down' \in [Browsers -> Seq(Msgs)] /\ UNCHANGED <<hosts, pc, events>>
    BY <1>3 DEF Deliver, TypeOK
  <2>2. \/ /\ m.type = "guide_start" /\ Become(b, OnGuideStart(page[b], b, m.who))
           /\ IF m.who # b THEN Send(b, FollowStatus(b, TRUE)) ELSE SendNothing
        \/ m.type = "guide_stop" /\ Become(b, OnGuideStop(page[b], b)) /\ SendNothing
        \/ /\ m.type \in {"follow", "unfollow"}
           /\ Become(b, OnFollowStatus(page[b], m.who, m.type = "follow")) /\ SendNothing
        \/ /\ m.type = "guide_state" /\ SendNothing
           /\ Show(b, OnGuideState(page[b], b, m.file), Follows(page[b], b) \/ b \notin strayed)
    BY <1>3 DEF Deliver
  <2> HIDE DEF m
  <2>3. PagesTyped'
    <3>1. CASE m.type = "guide_start"
      BY <1>0, <2>1, <2>2, <3>1, MsgFields, OnGuideStartTyped, BecomeTyped
    <3>2. CASE m.type = "guide_stop"
      BY <1>0, <2>1, <2>2, <3>2, OnGuideStopTyped, BecomeTyped
    <3>3. CASE m.type \in {"follow", "unfollow"}
      BY <1>0, <2>1, <2>2, <3>3, MsgFields, OnFollowStatusTyped, BecomeTyped
    <3>4. CASE m.type = "guide_state"
      BY <1>0, <2>1, <2>2, <3>4, MsgFields, OnGuideStateTyped, BecomeTyped
    <3> QED
      BY <2>2, <3>1, <3>2, <3>3, <3>4
  <2>4. RelayTyped'
    BY <1>0, <2>2, SendTyped
  <2> QED
    BY <2>1, <2>3, <2>4 DEF TypeOK, RelayTyped, PagesTyped, OutType
<1> QED
  BY <1>1, <1>2, <1>3 DEF PageStep

LEMMA GreetingTyped ==
  ASSUME RelayTyped
  PROVE  Greeting \in Seq(Msgs)
<1>1. guideName # None => Msg("guide_start", guideName, None) \in Msgs
  BY MsgsTyped DEF RelayTyped
<1>2. guideState # None => Msg("guide_state", None, guideState) \in Msgs
  BY MsgsTyped DEF RelayTyped
<1> QED
  BY <1>1, <1>2 DEF Greeting

LEMMA OutFields ==
  ASSUME RelayTyped, NEW d \in Browsers
  PROVE  /\ out[d].to \subseteq Browsers
         /\ out[d] # Nothing => out[d] \in OutType
<1>1. out[d] # Nothing => out[d] \in OutType
  BY DEF RelayTyped
<1>2. out[d].to \subseteq Browsers
  BY <1>1 DEF OutType, Nothing
<1> QED
  BY <1>1, <1>2

LEMMA WithoutTyped ==
  ASSUME NEW o \in OutType \cup {Nothing}, NEW c
  PROVE  Without(o, c) \in OutType \cup {Nothing}
<1>1. CASE o = Nothing
  BY <1>1 DEF Without, Nothing
<1>2. CASE o \in OutType
  BY <1>2 DEF Without, OutType
<1> QED
  BY <1>1, <1>2

LEMMA HandlerSteps ==
  ASSUME TypeOK, NEW b \in Browsers,
         (\E c \in Browsers : Write(b, c)) \/ Greet(b) \/ Connect(b) \/ Drop(b) \/ Evict
  PROVE  TypeOK'
<1>0. RelayTyped /\ events \in 0 .. MaxEvents
  BY TypeParts
<1>1. ASSUME NEW c \in Browsers, Write(b, c)
      PROVE  TypeOK'
  <2>1. out[b] # Nothing
    BY <1>1 DEF Write, Nothing
  <2>2. out[b] \in OutType /\ out[b].msg \in Msgs
    BY <1>0, <2>1, OutFields DEF OutType
  <2> DEFINE left == Without([out[b] EXCEPT !.begun = TRUE], c)
             longer == Append(down[c], out[b].msg)
  <2>3. [out[b] EXCEPT !.begun = TRUE] \in OutType
    BY <2>2 DEF OutType
  <2>4. left \in OutType \cup {Nothing}
    BY <2>3, WithoutTyped
  <2>5. longer \in Seq(Msgs)
    BY <2>2 DEF TypeOK
  <2>6. out' = [out EXCEPT ![b] = left] /\ down' = [down EXCEPT ![c] = longer]
    BY <1>1 DEF Write
  <2> HIDE DEF left, longer
  <2>7. out' \in [Browsers -> OutType \cup {Nothing}]
    BY <1>0, <2>4, <2>6 DEF RelayTyped
  <2>8. down' \in [Browsers -> Seq(Msgs)]
    BY <2>5, <2>6 DEF TypeOK
  <2> QED
    BY <1>1, <2>7, <2>8 DEF Write, TypeOK, OutType, histVars
<1>2. CASE Greet(b)
  <2>1. down[b] \o Greeting \in Seq(Msgs)
    BY <1>0, GreetingTyped DEF TypeOK
  <2>2. down' \in [Browsers -> Seq(Msgs)]
    BY <1>2, <2>1 DEF Greet, TypeOK
  <2>3. behind' \in [Kinds -> SUBSET Browsers]
    BY <1>0, <1>2 DEF Greet, RelayTyped
  <2>4. pc' \in [Browsers -> {"off", "greet", "serving"}]
    BY <1>2 DEF Greet, TypeOK
  <2> QED
    BY <1>2, <2>2, <2>3, <2>4 DEF Greet, TypeOK
<1>3. CASE Connect(b)
  <2>1. PICK late \in SUBSET {d \in Browsers : out[d] # Nothing /\ ~out[d].begun} :
           out' = [d \in Browsers |-> IF d \in late THEN [out[d] EXCEPT !.to = @ \cup {b}]
                                      ELSE out[d]]
    BY <1>3 DEF Connect
  <2>2. ASSUME NEW d \in Browsers, d \in late
        PROVE  [out[d] EXCEPT !.to = @ \cup {b}] \in OutType
    <3>1. out[d] \in OutType
      BY <1>0, <2>1, <2>2, OutFields
    <3> QED
      BY <3>1 DEF OutType
  <2>3. out' \in [Browsers -> OutType \cup {Nothing}]
    BY <1>0, <2>1, <2>2 DEF RelayTyped
  <2>4. /\ pc' \in [Browsers -> {"off", "greet", "serving"}]
        /\ events' \in 0 .. MaxEvents
    BY <1>0, <1>3, EventTyped DEF Connect, TypeOK
  <2>5. <<>> \in Seq(Msgs)
    OBVIOUS
  <2>6. down' \in [Browsers -> Seq(Msgs)]
    BY <1>3, <2>5 DEF Connect, TypeOK
  <2> QED
    BY <1>3, <2>3, <2>4, <2>6 DEF Connect, TypeOK, OutType, histVars
<1>4. CASE Drop(b)
  <2>1. ASSUME NEW d \in Browsers
        PROVE  Without(out[d], b) \in OutType \cup {Nothing}
    BY <1>0, OutFields, WithoutTyped
  <2>2. out' \in [Browsers -> OutType \cup {Nothing}]
    BY <1>4, <2>1 DEF Drop
  <2>3. behind' \in [Kinds -> SUBSET Browsers]
    BY <1>0, <1>4 DEF Drop, RelayTyped
  <2>4. /\ pc' \in [Browsers -> {"off", "greet", "serving"}]
        /\ events' \in 0 .. MaxEvents
    BY <1>0, <1>4, EventTyped DEF Drop, TypeOK
  <2> QED
    BY <1>4, <2>2, <2>3, <2>4 DEF Drop, TypeOK, OutType
<1>5. CASE Evict
  <2>1. behind' \in [Kinds -> SUBSET Browsers]
    BY <1>0, <1>5 DEF Evict, RelayTyped
  <2>2. events' \in 0 .. MaxEvents
    BY <1>0, <1>5, EventTyped DEF Evict
  <2> QED
    BY <1>5, <2>1, <2>2 DEF Evict, TypeOK
<1> QED
  BY <1>1, <1>2, <1>3, <1>4, <1>5

LEMMA PageUnderTyped ==
  ASSUME NEW b \in Browsers, NEW in \in SUBSET Browsers, NEW g \in in \cup {None},
         NEW file \in Opened \cup {None}
  PROVE  NewPage(file) \in Page /\ PageUnder(b, g, in, file) \in Page
<1>1. file \in Files \cup {None} /\ Opened \subseteq Files
  BY GuideAssumption DEF GuideAssumption
<1>2. NewPage(file) \in Page
  BY <1>1 DEF NewPage, Page
<1>3. (b = g) \in BOOLEAN /\ (b # g) \in BOOLEAN /\ in \ {g} \subseteq Browsers
  OBVIOUS
<1>4. g = None \/ g \in Browsers
  OBVIOUS
<1>5. PageUnder(b, g, in, file) \in Page
  BY <1>1, <1>2, <1>3, <1>4 DEF PageUnder, Page
<1> QED
  BY <1>2, <1>5

(* The disjuncts of Init.                                                  *)
Starts(in, g, file) ==
    /\ hosts \in SUBSET Browsers /\ (g # None => g \in hosts)
    /\ guideName = g /\ stateBy = IF file = None THEN None ELSE g
    /\ guideState = IF g = None THEN None ELSE file
    /\ pc = [b \in Browsers |-> IF b \in in THEN "serving" ELSE "off"]
    /\ out = [b \in Browsers |-> Nothing]
    /\ down = [b \in Browsers |-> <<>>]
    /\ page = [b \in Browsers |-> IF b \in in THEN PageUnder(b, g, in, file)
                                 ELSE NewPage(file)]
    /\ behind = [k \in Kinds |-> {}] /\ strayed = {}
    /\ events = 0

LEMMA InitStarts ==
    Init => \E in \in SUBSET Browsers : \E g \in in \cup {None} :
                \E file \in Opened \cup {None} : Starts(in, g, file)
BY DEF Init, Starts

LEMMA TypeInit == Init => TypeOK
<1> SUFFICES ASSUME NEW in \in SUBSET Browsers, NEW g \in in \cup {None},
                    NEW file \in Opened \cup {None}, Starts(in, g, file)
             PROVE  TypeOK
  BY InitStarts
<1>1. page \in [Browsers -> Page]
  BY PageUnderTyped DEF Starts
<1>2. /\ guideState \in Files \cup {None} /\ stateBy \in Browsers \cup {None}
      /\ events \in 0 .. MaxEvents
  BY GuideAssumption DEF GuideAssumption, Starts
<1>3. <<>> \in Seq(Msgs)
  OBVIOUS
<1> QED
  BY <1>1, <1>2, <1>3 DEF TypeOK, Starts

LEMMA TypeNext == TypeOK /\ [Next]_vars => TypeOK'
<1> SUFFICES ASSUME TypeOK, [Next]_vars PROVE TypeOK'
  OBVIOUS
<1>1. CASE UNCHANGED vars
  BY <1>1 DEF TypeOK, vars, relayVars, histVars
<1>2. ASSUME NEW b \in Browsers, UserStep(b) \/ PageStep(b) \/ HandlerStep(b)
      PROVE  TypeOK'
  BY <1>2, EventSteps, PageSteps, HandlerSteps DEF UserStep, HandlerStep
<1>3. CASE Evict
  <2>1. behind' \in [Kinds -> SUBSET Browsers] /\ events' \in 0 .. MaxEvents
    BY <1>3, EventTyped DEF Evict, TypeOK
  <2> QED
    BY <1>3, <2>1 DEF Evict, TypeOK
<1> QED
  BY <1>1, <1>2, <1>3 DEF Next

(* The relay's fields, its messages and the pages keep their types,        *)
(* whoever guides, follows, joins or leaves.                               *)
THEOREM TypeCorrect == Spec => []TypeOK
<1>1. Init => TypeOK
  BY TypeInit
<1>2. TypeOK /\ [Next]_vars => TypeOK'
  BY TypeNext
<1> QED
  BY <1>1, <1>2, PTL DEF Spec

-----------------------------------------------------------------------------
(* Who broke away.                                                         *)

Left(b) ==
    page'[b].view # page[b].view /\ ~page[b].following /\ ~page'[b].following
    => \/ page'[b].view \in page[b].asked
       \/ OpenFile(b, page'[b].view) \/ ClickTab(b, page'[b].view)

(* A step of another browser's user, page or handler is none of b's.       *)
LEMMA OthersLeave ==
  ASSUME TypeOK, NEW b \in Browsers, NEW c \in Browsers,
         UserStep(c) \/ PageStep(c), b # c
  PROVE  page'[b] = page[b]
<1>1. \A pg, led : Become(c, pg) \/ Show(c, pg, led) => page'[b] = page[b]
  BY DEF Become, Show, TypeOK
<1>2. CASE UserStep(c)
  BY <1>1, <1>2 DEF UserStep, ToggleGuide, ToggleFollow, MoveCursor, OpenFile, ClickTab,
                    Connect, Drop
<1>3. CASE PageStep(c)
  BY <1>1, <1>3 DEF PageStep, Frame, Deliver, FileArrives
<1> QED
  BY <1>2, <1>3

LEMMA OwnPage ==
  ASSUME TypeOK, NEW b \in Browsers, NEW pg, NEW led, Become(b, pg) \/ Show(b, pg, led)
  PROVE  page'[b] = pg
BY DEF Become, Show, TypeOK

LEMMA OwnStepLeaves ==
  ASSUME TypeOK, NEW b \in Browsers, UserStep(b) \/ PageStep(b)
  PROVE  Left(b)
<1>0. page[b] \in Page
  BY DEF TypeOK
<1>1. CASE ToggleGuide(b)
  <2>1. page'[b].view = page[b].view
    BY <1>0, <1>1, OwnPage DEF ToggleGuide, Page
  <2> QED
    BY <2>1 DEF Left
<1>2. CASE ToggleFollow(b)
  <2> DEFINE pg == [page[b] EXCEPT !.following = ~@]
  <2>1. pg.following = ~page[b].following
    BY <1>0 DEF Page
  <2>2. page'[b] = pg \/ page'[b] = ApplyGuideState(pg, pg.lastState)
    BY <1>2, OwnPage DEF ToggleFollow
  <2>3. page[b].following # page'[b].following
    <3>1. pg \in Page
      BY <1>0 DEF Page
    <3> HIDE DEF pg
    <3>2. ApplyGuideState(pg, pg.lastState).following = pg.following
      BY <3>1 DEF ApplyGuideState, Page
    <3> QED
      BY <2>1, <2>2, <3>2
  <2>4. page[b].following \in BOOLEAN /\ page'[b].following \in BOOLEAN
    BY <1>2, EventSteps DEF TypeOK, Page
  <2> QED
    BY <2>3, <2>4 DEF Left
<1>3. CASE MoveCursor(b)
  <2>1. page'[b].view = page[b].view
    BY <1>0, <1>3, OwnPage DEF MoveCursor, Page
  <2> QED
    BY <2>1 DEF Left
<1>4. ASSUME NEW f \in Files, OpenFile(b, f)
      PROVE  Left(b)
  <2>1. page'[b].view \in {page[b].view, f}
    BY <1>0, <1>4, OwnPage DEF OpenFile, Page
  <2> QED
    BY <1>4, <2>1 DEF Left
<1>5. ASSUME NEW f \in Files, ClickTab(b, f)
      PROVE  Left(b)
  <2>1. page'[b].view = f
    BY <1>0, <1>5, OwnPage DEF ClickTab, Page
  <2> QED
    BY <1>5, <2>1 DEF Left
<1>6. CASE Connect(b) \/ Drop(b)
  BY <1>6 DEF Connect, Drop, Left
<1>7. CASE Frame(b)
  <2>1. page'[b].view = page[b].view
    BY <1>0, <1>7, OwnPage DEF Frame, Page
  <2> QED
    BY <2>1 DEF Left
<1>8. ASSUME NEW f \in Files, FileArrives(b, f)
      PROVE  Left(b)
  <2>1. page'[b].view = f /\ f \in page[b].asked
    BY <1>0, <1>8, OwnPage DEF FileArrives, OnFileContent, Page
  <2> QED
    BY <2>1 DEF Left
<1>9. CASE Deliver(b)
  <2> DEFINE m == Head(down[b])
  <2>1. \/ page'[b] = OnGuideStart(page[b], b, m.who)
        \/ page'[b] = OnGuideStop(page[b], b)
        \/ page'[b] = OnFollowStatus(page[b], m.who, m.type = "follow")
        \/ page'[b] = OnGuideState(page[b], b, m.file)
    BY <1>9, OwnPage DEF Deliver
  <2> HIDE DEF m
  <2>2. ~page[b].following => page'[b].view = page[b].view
    BY <1>0, <2>1 DEF OnGuideStart, OnGuideStop, OnFollowStatus, OnGuideState, Follows, Page
  <2> QED
    BY <2>2 DEF Left
<1> QED
  BY <1>1, <1>2, <1>3, <1>4, <1>5, <1>6, <1>7, <1>8, <1>9 DEF UserStep, PageStep

LEMMA StepLeaves == TypeOK /\ [Next]_vars => \A b \in Browsers : Left(b)
<1> SUFFICES ASSUME TypeOK, [Next]_vars, NEW b \in Browsers PROVE Left(b)
  OBVIOUS
<1>1. CASE UNCHANGED vars
  BY <1>1 DEF vars, Left
<1>2. ASSUME NEW c \in Browsers, UserStep(c) \/ PageStep(c)
      PROVE  Left(b)
  <2>1. CASE c = b
    BY <1>2, <2>1, OwnStepLeaves
  <2>2. CASE c # b
    BY <1>2, <2>2, OthersLeave DEF Left
  <2> QED
    BY <2>1, <2>2
<1>3. ASSUME NEW c \in Browsers, HandlerStep(c)
      PROVE  Left(b)
  BY <1>3 DEF HandlerStep, Write, Greet, Left
<1>4. CASE Evict
  BY <1>4 DEF Evict, Left
<1> QED
  BY <1>1, <1>2, <1>3, <1>4 DEF Next

(* Who broke away is left where they are: what moves the view of a page    *)
(* that does not follow is its user or a file it has asked for (app.js,    *)
(* applyGuideState and the follow state that guards it).                   *)
THEOREM BreakAwayAlwaysKept == Spec => BreakAwayKept
<1>1. Init => TypeOK
  BY TypeInit
<1>2. TypeOK /\ [Next]_vars => TypeOK'
  BY TypeNext
<1>3. TypeOK /\ [Next]_vars =>
        [\A b \in Browsers :
           page'[b].view # page[b].view /\ ~page[b].following /\ ~page'[b].following
           => \/ page'[b].view \in page[b].asked
              \/ OpenFile(b, page'[b].view) \/ ClickTab(b, page'[b].view)]_vars
  BY StepLeaves DEF Left
<1> QED
  BY <1>1, <1>2, <1>3, PTL DEF Spec, BreakAwayKept

-----------------------------------------------------------------------------
(* Whom the pages believe to be guiding.                                   *)

(* Messages that name the guide, the last of them in a queue, and whether  *)
(* handler c has yet to write one to browser b.                            *)
Guides == {"guide_start", "guide_stop"}
NoGuides(s) == \A i \in DOMAIN s : s[i].type \notin Guides
LastNames(s, name) ==
    \A i \in DOMAIN s :
        s[i].type \in Guides /\ (\A j \in DOMAIN s : i < j => s[j].type \notin Guides)
        => s[i].who = name
Awaits(b, c) == out[c].kind = "guide" /\ b \in out[c].to

(* A page that has nothing more to wait for knows the guide: from the last *)
(* message on its way, or already.                                         *)
Told(b) ==
    /\ LastNames(down[b], guideName)
    /\ NoGuides(down[b]) => Other(b, page[b].guideName) = Other(b, guideName)

(* A browser that never was connected has heard of no guide; what is about *)
(* to be written to one that is names the guide; if nothing is, and no     *)
(* greeting is to come, its page is told.                                  *)
Covered(b) ==
    IF pc[b] = "off"
    THEN /\ \A c \in Browsers : out[c].kind # "guide"
         /\ NoGuides(down[b]) /\ page[b].guideName = None
    ELSE /\ \A c \in Browsers : Awaits(b, c) => out[c].msg.who = guideName
         /\ (\A c \in Browsers : ~Awaits(b, c)) /\ (pc[b] = "serving" \/ guideName = None)
            => Told(b)

KindsAgree ==
    \A c \in Browsers : out[c] # Nothing => (out[c].kind = "guide" <=> out[c].msg.type \in Guides)

(* The inductive strengthening of PagesKnowGuide.                          *)
GuideInv ==
    /\ TypeOK /\ KindsAgree
    /\ \A b \in Browsers : b \notin behind["guide"] => Covered(b)

LEMMA AppendGuide ==
  ASSUME NEW s \in Seq(Msgs), NEW m \in Msgs
  PROVE  /\ m.type \in Guides => /\ LastNames(Append(s, m), m.who) /\ ~NoGuides(Append(s, m))
         /\ m.type \notin Guides =>
               /\ NoGuides(Append(s, m)) <=> NoGuides(s)
               /\ \A name : LastNames(s, name) => LastNames(Append(s, m), name)
<1>1. /\ Len(s) \in Nat /\ DOMAIN s = 1 .. Len(s) /\ DOMAIN Append(s, m) = 1 .. Len(s) + 1
      /\ \A i \in 1 .. Len(s) : Append(s, m)[i] = s[i]
      /\ Append(s, m)[Len(s) + 1] = m
  OBVIOUS
<1>2. m.type \in Guides => /\ LastNames(Append(s, m), m.who) /\ ~NoGuides(Append(s, m))
  BY <1>1 DEF LastNames, NoGuides
<1>3. m.type \notin Guides => (NoGuides(Append(s, m)) <=> NoGuides(s))
  BY <1>1 DEF NoGuides
<1>4. ASSUME m.type \notin Guides, NEW name, LastNames(s, name)
      PROVE  LastNames(Append(s, m), name)
  BY <1>1, <1>4 DEF LastNames
<1> QED
  BY <1>2, <1>3, <1>4

LEMMA TakeGuide ==
  ASSUME NEW s \in Seq(Msgs), s # <<>>, NEW name
  PROVE  /\ LastNames(s, name) => LastNames(Tail(s), name)
         /\ LastNames(s, name) /\ NoGuides(Tail(s)) /\ Head(s).type \in Guides
               => Head(s).who = name
         /\ NoGuides(Tail(s)) /\ Head(s).type \notin Guides => NoGuides(s)
         /\ NoGuides(s) => NoGuides(Tail(s)) /\ Head(s).type \notin Guides
<1>1. /\ Len(s) \in Nat \ {0} /\ DOMAIN s = 1 .. Len(s)
      /\ DOMAIN Tail(s) = 1 .. Len(s) - 1 /\ Head(s) = s[1]
      /\ \A i \in 1 .. Len(s) - 1 : Tail(s)[i] = s[i + 1]
  OBVIOUS
<1>2. \A i \in DOMAIN s : i # 1 => i - 1 \in DOMAIN Tail(s) /\ s[i] = Tail(s)[i - 1]
  BY <1>1
<1>3. ASSUME LastNames(s, name), NEW i \in DOMAIN Tail(s), Tail(s)[i].type \in Guides,
             \A j \in DOMAIN Tail(s) : i < j => Tail(s)[j].type \notin Guides
      PROVE  Tail(s)[i].who = name
  <2>1. i + 1 \in DOMAIN s /\ Tail(s)[i] = s[i + 1]
    BY <1>1
  <2>2. ASSUME NEW j \in DOMAIN s, i + 1 < j PROVE s[j].type \notin Guides
    <3>1. j # 1 /\ i < j - 1
      BY <1>1, <2>2
    <3> QED
      BY <1>2, <1>3, <3>1
  <2> QED
    BY <1>3, <2>1, <2>2 DEF LastNames
<1>4. ASSUME NoGuides(Tail(s)), NEW j \in DOMAIN s, 1 < j
      PROVE  s[j].type \notin Guides
  <2>1. j - 1 \in DOMAIN Tail(s) /\ s[j] = Tail(s)[j - 1]
    BY <1>1, <1>2, <1>4
  <2> QED
    BY <1>4, <2>1 DEF NoGuides
<1>5. LastNames(s, name) => LastNames(Tail(s), name)
  BY <1>3 DEF LastNames
<1>6. LastNames(s, name) /\ NoGuides(Tail(s)) /\ Head(s).type \in Guides => Head(s).who = name
  BY <1>1, <1>4 DEF LastNames
<1>7. NoGuides(Tail(s)) /\ Head(s).type \notin Guides => NoGuides(s)
  BY <1>1, <1>4 DEF NoGuides
<1>8. NoGuides(s) => NoGuides(Tail(s)) /\ Head(s).type \notin Guides
  BY <1>1 DEF NoGuides
<1> QED
  BY <1>5, <1>6, <1>7, <1>8

LEMMA GuideInit == Init => GuideInv
<1> SUFFICES ASSUME Init PROVE GuideInv
  OBVIOUS
<1>1. TypeOK
  BY TypeInit
<1>2. PICK in \in SUBSET Browsers : \E g \in in \cup {None} : \E file \in Opened \cup {None} :
        Starts(in, g, file)
  BY InitStarts
<1>3. PICK file \in Opened \cup {None} : Starts(in, guideName, file)
  BY <1>2 DEF Starts
<1>4. KindsAgree
  BY <1>3 DEF KindsAgree, Starts
<1>5. ASSUME NEW b \in Browsers PROVE Covered(b)
  <2>1. \A c \in Browsers : out[c].kind # "guide"
    BY <1>3 DEF Nothing, Starts
  <2>2. down[b] = <<>> /\ NoGuides(down[b]) /\ LastNames(down[b], guideName)
    BY <1>3 DEF NoGuides, LastNames, Starts
  <2>3. NewPage(file).guideName = None
    BY DEF NewPage
  <2>4. PageUnder(b, guideName, in, file).guideName = guideName
    BY DEF PageUnder, NewPage
  <2>5. CASE b \in in
    <3>1. page[b].guideName = guideName /\ pc[b] = "serving"
      BY <1>3, <2>4, <2>5 DEF Starts
    <3> QED
      BY <2>1, <2>2, <3>1 DEF Covered, Told, Awaits
  <2>6. CASE b \notin in
    <3>1. page[b].guideName = None /\ pc[b] = "off"
      BY <1>3, <2>3, <2>6 DEF Starts
    <3> QED
      BY <2>1, <2>2, <3>1 DEF Covered
  <2> QED
    BY <2>5, <2>6
<1> QED
  BY <1>1, <1>4, <1>5 DEF GuideInv

(* A step of b that says nothing of the guide, to whomever it writes: the  *)
(* page keeps the guide it knows, or is behind, or is not connected.       *)
LEMMA SilentKeeps ==
  ASSUME GuideInv, TypeOK', NEW b \in Browsers,
         UNCHANGED <<guideName, pc, down>>,
         behind["guide"] \subseteq behind'["guide"],
         \A c \in Browsers : c # b => page'[c] = page[c] /\ out'[c] = out[c],
         \/ out'[b] = out[b]
         \/ /\ out[b] = Nothing /\ out'[b].kind # "guide"
            /\ out'[b].msg.type \notin Guides,
         \/ page'[b].guideName = page[b].guideName
         \/ b \in behind'["guide"]
         \/ pc[b] = "off" /\ page'[b].guideName = None
  PROVE  GuideInv'
<1>1. KindsAgree'
  BY DEF GuideInv, KindsAgree
<1>2. \A c \in Browsers : out[c] = Nothing => out[c].kind # "guide"
  BY DEF Nothing
<1>3. ASSUME NEW c \in Browsers, c \notin behind'["guide"] PROVE Covered(c)'
  <2>1. Covered(c) /\ pc'[c] = pc[c] /\ down'[c] = down[c] /\ guideName' = guideName
    BY <1>3 DEF GuideInv
  <2>2. \A d \in Browsers : /\ out'[d].kind = "guide" => out[d].kind = "guide"
                            /\ Awaits(c, d)' <=> Awaits(c, d)
                            /\ Awaits(c, d) => out'[d].msg = out[d].msg
    BY <1>2 DEF Awaits
  <2>3. \/ page'[c].guideName = page[c].guideName
        \/ pc[c] = "off" /\ page'[c].guideName = None
    BY <1>3
  <2>4. CASE pc[c] = "off"
    BY <2>1, <2>2, <2>3, <2>4 DEF Covered
  <2>5. CASE pc[c] # "off"
    <3>1. Told(c) => Told(c)'
      BY <2>1, <2>3, <2>5 DEF Told, Other
    <3> QED
      BY <2>1, <2>2, <2>5, <3>1 DEF Covered
  <2> QED
    BY <2>4, <2>5
<1> QED
  BY <1>1, <1>3 DEF GuideInv

(* A host starts or stops guiding: all who are connected, and await no     *)
(* other such message, will be written its name.                           *)
LEMMA AnnounceKeeps ==
  ASSUME GuideInv, TypeOK', NEW b \in Browsers, pc[b] # "off", out[b] = Nothing,
         NEW m \in Msgs, m.type \in Guides, guideName' = m.who, Broadcast(b, "guide", m),
         UNCHANGED <<pc, down>>
  PROVE  GuideInv'
<1>1. /\ out'[b] = [kind |-> "guide", msg |-> m, begun |-> FALSE, to |-> In]
      /\ \A c \in Browsers : c # b => out'[c] = out[c]
      /\ behind'["guide"] = Overtaken(b, "guide")
  BY DEF Broadcast, GuideInv, TypeOK, Kinds
<1>2. KindsAgree'
  BY <1>1 DEF GuideInv, KindsAgree
<1>3. ASSUME NEW c \in Browsers, c \notin behind'["guide"] PROVE Covered(c)'
  <2>1. pc[c] # "off" /\ c \in In
    BY <1>1, <1>3 DEF Overtaken, In
  <2>2. \A d \in Browsers : d # b => ~(out[d].kind = "guide" /\ c \in out[d].to)
    BY <1>1, <1>3 DEF Overtaken, Awaiting
  <2>3. Awaits(c, b)' /\ out'[b].msg.who = guideName'
    BY <1>1, <2>1 DEF Awaits
  <2>4. \A d \in Browsers : Awaits(c, d)' => d = b
    BY <1>1, <2>2 DEF Awaits
  <2>5. pc'[c] # "off"
    BY <2>1
  <2> QED
    BY <2>3, <2>4, <2>5 DEF Covered
<1> QED
  BY <1>2, <1>3 DEF GuideInv

(* What a page sends, as far as the guide's name goes.                     *)
LEMMA SilentSends ==
  ASSUME GuideInv, NEW b \in Browsers,
         \/ SendNothing
         \/ \E f \in Files : Send(b, GuideState(b, f))
         \/ \E on \in BOOLEAN : Send(b, FollowStatus(b, on))
  PROVE  /\ guideName' = guideName /\ behind'["guide"] = behind["guide"]
         /\ \A c \in Browsers : c # b => out'[c] = out[c]
         /\ \/ out'[b] = out[b]
            \/ /\ out[b] = Nothing /\ out'[b].kind # "guide"
               /\ out'[b].msg.type \notin Guides
<1>0. out \in [Browsers -> OutType \cup {Nothing}] /\ behind \in [Kinds -> SUBSET Browsers]
  BY TypeParts DEF GuideInv, RelayTyped
<1>1. CASE UNCHANGED <<guideName, guideState, stateBy, out, behind>>
  BY <1>1
<1>2. ASSUME NEW f \in Files, out[b] = Nothing, GuideState(b, f), b \in hosts
      PROVE  /\ guideName' = guideName /\ behind'["guide"] = behind["guide"]
             /\ \A c \in Browsers : c # b => out'[c] = out[c]
             /\ out'[b].kind # "guide" /\ out'[b].msg.type \notin Guides
  <2>1. /\ guideName' = guideName
        /\ out' = [out EXCEPT ![b] = [kind |-> "state", msg |-> Msg("guide_state", None, f),
                                      begun |-> FALSE, to |-> In]]
        /\ behind' = [behind EXCEPT !["state"] = Overtaken(b, "state")]
    BY <1>2 DEF GuideState, Broadcast
  <2>2. Msg("guide_state", None, f).type \notin Guides
    BY DEF Msg, Guides
  <2> QED
    BY <1>0, <2>1, <2>2
<1>3. ASSUME NEW on \in BOOLEAN, out[b] = Nothing, FollowStatus(b, on)
      PROVE  /\ guideName' = guideName /\ behind'["guide"] = behind["guide"]
             /\ \A c \in Browsers : c # b => out'[c] = out[c]
             /\ out'[b].kind # "guide" /\ out'[b].msg.type \notin Guides
  <2> DEFINE m == Msg(IF on THEN "follow" ELSE "unfollow", b, None)
  <2>1. m.type \notin Guides
    BY DEF Msg, Guides
  <2>2. /\ guideName' = guideName
        /\ out' = [out EXCEPT ![b] = [kind |-> "follow", begun |-> FALSE, to |-> In, msg |-> m]]
        /\ behind'["guide"] = behind["guide"]
    BY <1>0, <1>3 DEF FollowStatus
  <2> HIDE DEF m
  <2> QED
    BY <1>0, <2>1, <2>2
<1>4. ASSUME NEW f \in Files, GuideState(b, f), b \notin hosts
      PROVE  UNCHANGED <<guideName, guideState, stateBy, out, behind>>
  BY <1>4 DEF GuideState
<1> QED
  BY <1>1, <1>2, <1>3, <1>4 DEF Send, SendNothing

LEMMA OthersPages ==
  ASSUME TypeOK, NEW b \in Browsers, NEW pg, NEW led, Become(b, pg) \/ Show(b, pg, led)
  PROVE  \A c \in Browsers : c # b => page'[c] = page[c]
BY DEF Become, Show, TypeOK

LEMMA QuietEvents ==
  ASSUME GuideInv, TypeOK', NEW b \in Browsers,
         \/ ToggleFollow(b) \/ MoveCursor(b) \/ Frame(b)
         \/ \E f \in Files : OpenFile(b, f) \/ ClickTab(b, f) \/ FileArrives(b, f)
  PROVE  GuideInv'
<1>0. TypeOK /\ page[b] \in Page
  BY DEF GuideInv, TypeOK
<1>1. UNCHANGED <<pc, down>>
  BY DEF ToggleFollow, MoveCursor, Frame, OpenFile, ClickTab, FileArrives
<1>2. \E pg, led : Become(b, pg) \/ Show(b, pg, led)
  BY DEF ToggleFollow, MoveCursor, Frame, OpenFile, ClickTab, FileArrives
<1>3. page'[b].guideName = page[b].guideName
  <2>1. CASE ToggleFollow(b)
    <3> DEFINE pg == [page[b] EXCEPT !.following = ~@]
    <3>1. pg \in Page /\ pg.guideName = page[b].guideName
      BY <1>0 DEF Page
    <3>2. page'[b] = pg \/ page'[b] = ApplyGuideState(pg, pg.lastState)
      BY <1>0, <2>1, OwnPage DEF ToggleFollow
    <3> HIDE DEF pg
    <3> QED
      BY <3>1, <3>2 DEF ApplyGuideState, Page
  <2>2. CASE MoveCursor(b) \/ Frame(b)
    BY <1>0, <2>2, OwnPage DEF MoveCursor, Frame, Page
  <2>3. ASSUME NEW f \in Files, OpenFile(b, f) \/ ClickTab(b, f) \/ FileArrives(b, f)
        PROVE  page'[b].guideName = page[b].guideName
    BY <1>0, <2>3, OwnPage DEF OpenFile, ClickTab, FileArrives, OnFileContent, Page
  <2> QED
    BY <2>1, <2>2, <2>3
<1>4. \/ SendNothing
      \/ \E f \in Files : Send(b, GuideState(b, f))
      \/ \E on \in BOOLEAN : Send(b, FollowStatus(b, on))
  <2>1. CASE ToggleFollow(b)
    <3>1. [page[b] EXCEPT !.following = ~@].following \in BOOLEAN
      BY <1>0 DEF Page
    <3> QED
      BY <2>1, <3>1 DEF ToggleFollow
  <2>2. CASE Frame(b)
    <3>1. page[b].view \in Files \cup {None}
      BY <1>0 DEF Page
    <3> QED
      BY <2>2, <3>1 DEF Frame
  <2>3. CASE MoveCursor(b)
    BY <2>3 DEF MoveCursor
  <2>4. CASE \E f \in Files : OpenFile(b, f) \/ ClickTab(b, f) \/ FileArrives(b, f)
    BY <2>4 DEF OpenFile, ClickTab, FileArrives
  <2> QED
    BY <2>1, <2>2, <2>3, <2>4
<1>5. \A c \in Browsers : c # b => page'[c] = page[c]
  BY <1>0, <1>2, OthersPages
<1>6. /\ guideName' = guideName /\ behind'["guide"] = behind["guide"]
      /\ \A c \in Browsers : c # b => out'[c] = out[c]
      /\ \/ out'[b] = out[b]
         \/ out[b] = Nothing /\ out'[b].kind # "guide" /\ out'[b].msg.type \notin Guides
  BY <1>4, SilentSends
<1> QED
  BY <1>1, <1>3, <1>5, <1>6, SilentKeeps

LEMMA ToggleKeeps ==
  ASSUME GuideInv, TypeOK', NEW b \in Browsers, ToggleGuide(b)
  PROVE  GuideInv'
<1>0. TypeOK /\ page[b] \in Page /\ UNCHANGED <<pc, down>>
  BY DEF GuideInv, TypeOK, ToggleGuide
<1>1. \A c \in Browsers : c # b => page'[c] = page[c]
  BY <1>0, OthersPages DEF ToggleGuide
<1>2. page'[b].guideName = page[b].guideName \/ page'[b].guideName = None
  BY <1>0, OwnPage DEF ToggleGuide, Page
<1>3. Msg("guide_stop", None, None) \in Msgs /\ Msg("guide_start", b, None) \in Msgs
  BY MsgsTyped
<1>4. CASE /\ pc[b] = "serving" /\ out[b] = Nothing /\ b \in hosts
           /\ GuideStop(b) \/ GuideStart(b)
  <2>1. PICK m \in Msgs : m.type \in Guides /\ guideName' = m.who /\ Broadcast(b, "guide", m)
    <3>1. CASE GuideStop(b)
      <4>1. Msg("guide_stop", None, None).type \in Guides
            /\ Msg("guide_stop", None, None).who = None
        BY DEF Msg, Guides
      <4> QED
        BY <1>3, <1>4, <3>1, <4>1 DEF GuideStop
    <3>2. CASE GuideStart(b)
      <4>1. Msg("guide_start", b, None).type \in Guides /\ Msg("guide_start", b, None).who = b
        BY DEF Msg, Guides
      <4> QED
        BY <1>3, <1>4, <3>2, <4>1 DEF GuideStart
    <3> QED
      BY <1>4, <3>1, <3>2
  <2> QED
    BY <1>0, <1>4, <2>1, AnnounceKeeps
<1>5. CASE b \notin hosts /\ GuideStop(b)
  <2>1. /\ UNCHANGED <<guideName, out>> /\ behind["guide"] \subseteq behind'["guide"]
        /\ b \in behind'["guide"]
    BY <1>0, <1>5 DEF GuideStop, TypeOK, Kinds
  <2> QED
    BY <1>0, <1>1, <2>1, SilentKeeps
<1>6. CASE b \notin hosts /\ GuideStart(b) /\ ~page[b].guideActive
  <2>1. UNCHANGED <<guideName, out, behind>>
    BY <1>6 DEF GuideStart
  <2>2. page'[b].guideName = page[b].guideName
    BY <1>0, <1>6, OwnPage DEF ToggleGuide, Page
  <2> QED
    BY <1>0, <1>1, <2>1, <2>2, SilentKeeps
<1>7. CASE b \notin In /\ UNCHANGED <<guideName, guideState, stateBy, out, behind>>
  <2>1. pc[b] = "off"
    BY <1>7 DEF In
  <2> QED
    BY <1>0, <1>1, <1>2, <1>7, <2>1, SilentKeeps
<1> QED
  BY <1>4, <1>5, <1>6, <1>7 DEF ToggleGuide, Send

(* What the handlers' steps make of connections and broadcasts.            *)
LEMMA WriteOut ==
  ASSUME TypeOK, NEW b \in Browsers, NEW c \in Browsers, Write(b, c)
  PROVE  /\ UNCHANGED <<guideName, guideState, stateBy, pc, page, behind, strayed>>
         /\ c \in out[b].to /\ out[b] # Nothing /\ out[b] \in OutType /\ out[b].msg \in Msgs
         /\ \A d \in Browsers : d # b => out'[d] = out[d]
         /\ \/ out'[b] = Nothing /\ out[b].to \subseteq {c}
            \/ /\ out'[b].kind = out[b].kind /\ out'[b].msg = out[b].msg
               /\ out'[b].to = out[b].to \ {c}
         /\ \A x \in Browsers :
               down'[x] = IF x = c THEN Append(down[c], out[b].msg) ELSE down[x]
<1> DEFINE o == [out[b] EXCEPT !.begun = TRUE]
           left == Without(o, c)
<1>1. RelayTyped /\ down \in [Browsers -> Seq(Msgs)]
  BY TypeParts
<1>2. /\ c \in out[b].to /\ out' = [out EXCEPT ![b] = left]
      /\ down' = [down EXCEPT ![c] = Append(@, out[b].msg)]
      /\ UNCHANGED <<guideName, guideState, stateBy, pc, page, behind, strayed>>
  BY DEF Write, histVars
<1>3. out[b] # Nothing
  BY <1>2 DEF Nothing
<1>4. out[b] \in OutType /\ out[b].msg \in Msgs
  <2>1. out[b] \in OutType
    BY <1>1, <1>3, OutFields
  <2> QED
    BY <2>1 DEF OutType
<1>5. \/ left = Nothing /\ out[b].to \subseteq {c}
      \/ left.kind = out[b].kind /\ left.msg = out[b].msg /\ left.to = out[b].to \ {c}
  <2>1. /\ o \in OutType /\ o.kind = out[b].kind /\ o.msg = out[b].msg /\ o.to = out[b].to
    BY <1>4 DEF OutType
  <2> HIDE DEF o
  <2>2. \/ left = Nothing /\ o.to \subseteq {c}
        \/ left = [o EXCEPT !.to = @ \ {c}]
    BY DEF Without
  <2>3. o \in OutType => LET w == [o EXCEPT !.to = @ \ {c}]
                         IN  w.kind = o.kind /\ w.msg = o.msg /\ w.to = o.to \ {c}
    BY DEF OutType
  <2> QED
    BY <2>1, <2>2, <2>3
<1> HIDE DEF left
<1>6. \A d \in Browsers : out'[d] = IF d = b THEN left ELSE out[d]
  BY <1>1, <1>2 DEF TypeOK
<1>7. \A x \in Browsers : down'[x] = IF x = c THEN Append(down[c], out[b].msg) ELSE down[x]
  BY <1>1, <1>2
<1> QED
  BY <1>2, <1>3, <1>4, <1>5, <1>6, <1>7

LEMMA ConnectOut ==
  ASSUME TypeOK, NEW b \in Browsers, Connect(b)
  PROVE  /\ UNCHANGED <<guideName, guideState, stateBy, page, behind, strayed>>
         /\ pc[b] = "off"
         /\ \A c \in Browsers : /\ pc'[c] = IF c = b THEN "greet" ELSE pc[c]
                                /\ down'[c] = IF c = b THEN <<>> ELSE down[c]
         /\ \A d \in Browsers :
               /\ out'[d].kind = out[d].kind /\ out'[d].msg = out[d].msg
               /\ \A c \in Browsers : c # b => (c \in out'[d].to <=> c \in out[d].to)
               /\ out'[d] # Nothing => out[d] # Nothing
<1>1. RelayTyped
  BY TypeParts
<1>2. /\ pc[b] = "off"
      /\ UNCHANGED <<guideName, guideState, stateBy, page, behind, strayed>>
      /\ \A c \in Browsers : /\ pc'[c] = IF c = b THEN "greet" ELSE pc[c]
                             /\ down'[c] = IF c = b THEN <<>> ELSE down[c]
  BY DEF Connect, TypeOK, histVars
<1>3. PICK late \in SUBSET {d \in Browsers : out[d] # Nothing /\ ~out[d].begun} :
         out' = [d \in Browsers |-> IF d \in late THEN [out[d] EXCEPT !.to = @ \cup {b}]
                                    ELSE out[d]]
  BY DEF Connect
<1>4. ASSUME NEW d \in Browsers
      PROVE  /\ out'[d].kind = out[d].kind /\ out'[d].msg = out[d].msg
             /\ \A c \in Browsers : c # b => (c \in out'[d].to <=> c \in out[d].to)
             /\ out'[d] # Nothing => out[d] # Nothing
  <2>1. CASE d \in late
    <3>1. out[d] \in OutType /\ out'[d] = [out[d] EXCEPT !.to = @ \cup {b}]
      BY <1>1, <1>3, <2>1, OutFields
    <3> QED
      BY <1>3, <2>1, <3>1 DEF OutType
  <2>2. CASE d \notin late
    BY <1>3, <2>2
  <2> QED
    BY <2>1, <2>2
<1> QED
  BY <1>2, <1>4

LEMMA DropOut ==
  ASSUME TypeOK, NEW b \in Browsers, Drop(b)
  PROVE  /\ UNCHANGED <<guideName, guideState, stateBy, page, strayed, down>>
         /\ \A k \in Kinds : behind'[k] = behind[k] \cup {b}
         /\ pc[b] = "serving" /\ pc'[b] = "off"
         /\ \A c \in Browsers : c # b => pc'[c] = pc[c]
         /\ \A d \in Browsers :
               /\ out'[d] # Nothing => /\ out[d] # Nothing /\ out'[d].kind = out[d].kind
                                       /\ out'[d].msg = out[d].msg
               /\ \A c \in Browsers : c # b => (c \in out'[d].to <=> c \in out[d].to)
<1>1. RelayTyped
  BY TypeParts
<1>2. /\ UNCHANGED <<guideName, guideState, stateBy, page, strayed, down>>
      /\ \A k \in Kinds : behind'[k] = behind[k] \cup {b}
      /\ pc[b] = "serving" /\ pc'[b] = "off"
      /\ \A c \in Browsers : c # b => pc'[c] = pc[c]
      /\ \A d \in Browsers : out'[d] = Without(out[d], b)
  BY DEF Drop, TypeOK
<1>3. ASSUME NEW d \in Browsers
      PROVE  /\ out'[d] # Nothing => /\ out[d] # Nothing /\ out'[d].kind = out[d].kind
                                     /\ out'[d].msg = out[d].msg
             /\ \A c \in Browsers : c # b => (c \in out'[d].to <=> c \in out[d].to)
  <2>1. CASE out[d].to \subseteq {b}
    <3>1. out'[d] = Nothing
      BY <1>2, <2>1 DEF Without
    <3>2. out'[d].to = {}
      BY <3>1 DEF Nothing
    <3> QED
      BY <2>1, <3>1, <3>2
  <2>2. CASE ~(out[d].to \subseteq {b})
    <3>1. out'[d] = [out[d] EXCEPT !.to = @ \ {b}] /\ out[d] # Nothing
      BY <1>2, <2>2 DEF Without, Nothing
    <3>2. out[d] \in OutType
      BY <1>1, <3>1, OutFields
    <3> QED
      BY <3>1, <3>2 DEF OutType
  <2> QED
    BY <2>1, <2>2
<1> QED
  BY <1>2, <1>3

(* A message of any kind is written to one of those who have yet to get it.*)
LEMMA WriteKeeps ==
  ASSUME GuideInv, TypeOK', NEW b \in Browsers, NEW c \in Browsers, Write(b, c)
  PROVE  GuideInv'
<1> DEFINE m == out[b].msg
<1>1. TypeOK /\ down \in [Browsers -> Seq(Msgs)]
  BY TypeParts DEF GuideInv
<1>2. UNCHANGED <<guideName, pc, page, behind>>
  BY <1>1, WriteOut
<1>3. /\ out[b] # Nothing /\ c \in out[b].to
      /\ \A d \in Browsers : d # b => out'[d] = out[d]
      /\ \/ out'[b] = Nothing /\ out[b].to \subseteq {c}
         \/ out'[b].kind = out[b].kind /\ out'[b].msg = m /\ out'[b].to = out[b].to \ {c}
      /\ \A x \in Browsers : down'[x] = IF x = c THEN Append(down[c], m) ELSE down[x]
  BY <1>1, WriteOut
<1>4. m \in Msgs /\ (out[b].kind = "guide" <=> m.type \in Guides)
  BY <1>1, <1>3, WriteOut DEF GuideInv, KindsAgree
<1>7. KindsAgree'
  BY <1>3, <1>4 DEF GuideInv, KindsAgree
<1>8. ASSUME NEW x \in Browsers, x \notin behind'["guide"] PROVE Covered(x)'
  <2>1. Covered(x)
    BY <1>2, <1>8 DEF GuideInv
  <2>2. \A d \in Browsers :
          out'[d].kind = "guide" => out[d].kind = "guide" /\ out'[d].msg = out[d].msg
    BY <1>3 DEF Nothing
  <2>3. \A d \in Browsers : Awaits(x, d)' => Awaits(x, d)
    BY <1>3 DEF Awaits, Nothing
  <2>4. down'[x] = IF x = c THEN Append(down[c], m) ELSE down[x]
    BY <1>3
  <2>5. CASE pc[x] = "off"
    <3>1. m.type \notin Guides
      BY <1>4, <2>1, <2>5 DEF Covered
    <3>2. NoGuides(down'[x])
      BY <1>1, <1>4, <2>1, <2>4, <2>5, <3>1, AppendGuide DEF Covered
    <3> QED
      BY <1>2, <2>1, <2>2, <2>5, <3>2 DEF Covered
  <2>6. CASE pc[x] # "off"
    <3>1. \A d \in Browsers : Awaits(x, d)' => out'[d].msg.who = guideName'
      BY <1>2, <2>1, <2>2, <2>3, <2>6 DEF Covered, Awaits
    <3>2. ASSUME \A d \in Browsers : ~Awaits(x, d)', pc[x] = "serving" \/ guideName = None
          PROVE  Told(x)'
      <4>1. CASE x = c /\ out[b].kind = "guide"
        <5>1. m.who = guideName
          BY <1>3, <2>1, <2>6, <4>1 DEF Covered, Awaits
        <5>2. LastNames(down'[x], guideName) /\ ~NoGuides(down'[x])
          BY <1>1, <1>4, <2>4, <4>1, <5>1, AppendGuide
        <5> QED
          BY <1>2, <5>2 DEF Told
      <4>2. CASE x # c \/ out[b].kind # "guide"
        <5>1. \A d \in Browsers : ~Awaits(x, d)
          BY <1>3, <3>2, <4>2 DEF Awaits
        <5>2. Told(x)
          BY <2>1, <2>6, <3>2, <5>1 DEF Covered
        <5>3. CASE x # c
          BY <1>2, <2>4, <5>2, <5>3 DEF Told
        <5>4. CASE x = c
          <6>1. m.type \notin Guides
            BY <1>4, <4>2, <5>4
          <6>2. /\ NoGuides(down'[x]) <=> NoGuides(down[x])
                /\ LastNames(down[x], guideName) => LastNames(down'[x], guideName)
            BY <1>1, <1>4, <2>4, <5>4, <6>1, AppendGuide
          <6> QED
            BY <1>2, <5>2, <6>2 DEF Told
        <5> QED
          BY <5>3, <5>4
      <4> QED
        BY <4>1, <4>2
    <3> QED
      BY <1>2, <2>6, <3>1, <3>2 DEF Covered
  <2> QED
    BY <2>5, <2>6
<1> QED
  BY <1>7, <1>8 DEF GuideInv

(* The greeting of a joiner names the guide, if there is one.              *)
LEMMA GreetingNames ==
  ASSUME RelayTyped, NEW s \in Seq(Msgs)
  PROVE  /\ guideName = None => s \o Greeting = s
         /\ guideName # None => LastNames(s \o Greeting, guideName) /\ ~NoGuides(s \o Greeting)
<1> DEFINE m == Msg("guide_start", guideName, None)
           n == Msg("guide_state", None, guideState)
<1>1. CASE guideName = None
  BY <1>1 DEF Greeting
<1>2. CASE guideName # None
  <2>1. m \in Msgs /\ m.type \in Guides /\ m.who = guideName
    BY <1>2, MsgsTyped DEF RelayTyped, Msg, Guides
  <2>2. guideState # None => n \in Msgs /\ n.type \notin Guides
    BY MsgsTyped DEF RelayTyped, Msg, Guides
  <2>3. Greeting = <<m>> \o (IF guideState = None THEN <<>> ELSE <<n>>)
    BY <1>2 DEF Greeting
  <2> HIDE DEF m, n
  <2>4. LastNames(Append(s, m), guideName) /\ ~NoGuides(Append(s, m)) /\ Append(s, m) \in Seq(Msgs)
    BY <2>1, AppendGuide
  <2>5. CASE guideState = None
    <3>1. s \o Greeting = Append(s, m)
      BY <2>1, <2>3, <2>5
    <3> QED
      BY <1>2, <2>4, <3>1
  <2>6. CASE guideState # None
    <3>1. s \o Greeting = Append(Append(s, m), n)
      <4>1. Greeting = <<m>> \o <<n>> /\ m \in Msgs /\ n \in Msgs
        BY <2>1, <2>2, <2>3, <2>6
      <4>2. s \o (<<m>> \o <<n>>) = (s \o <<m>>) \o <<n>>
        BY <4>1
      <4>3. s \o <<m>> = Append(s, m) /\ Append(s, m) \o <<n>> = Append(Append(s, m), n)
        BY <2>4, <4>1
      <4> QED
        BY <4>1, <4>2, <4>3
    <3>2. /\ LastNames(Append(Append(s, m), n), guideName)
          /\ ~NoGuides(Append(Append(s, m), n))
      BY <2>2, <2>4, <2>6, AppendGuide
    <3> QED
      BY <1>2, <3>1, <3>2
  <2> QED
    BY <2>5, <2>6
<1> QED
  BY <1>1, <1>2

LEMMA GreetKeeps ==
  ASSUME GuideInv, TypeOK', NEW b \in Browsers, Greet(b)
  PROVE  GuideInv'
<1>1. TypeOK /\ RelayTyped /\ down \in [Browsers -> Seq(Msgs)]
  BY TypeParts DEF GuideInv
<1>2. /\ pc[b] = "greet" /\ UNCHANGED <<guideName, out, page>>
      /\ \A c \in Browsers : /\ pc'[c] = IF c = b THEN "serving" ELSE pc[c]
                             /\ down'[c] = IF c = b THEN down[b] \o Greeting ELSE down[c]
  BY <1>1 DEF Greet, TypeOK
<1>3. behind'["guide"] = IF guideName # None /\ b \notin Awaiting("guide", Browsers)
                         THEN behind["guide"] \ {b} ELSE behind["guide"]
  BY DEF Greet, Kinds
<1>4. KindsAgree'
  BY <1>2 DEF GuideInv, KindsAgree
<1>5. ASSUME NEW c \in Browsers, c \notin behind'["guide"] PROVE Covered(c)'
  <2>1. CASE c # b
    <3>1. Covered(c)
      BY <1>3, <1>5, <2>1 DEF GuideInv
    <3> QED
      BY <1>2, <2>1, <3>1 DEF Covered, Told, Awaits
  <2>2. CASE c = b /\ guideName = None
    <3>1. Covered(b) /\ down'[b] = down[b]
      BY <1>1, <1>2, <1>3, <1>5, <2>2, GreetingNames DEF GuideInv
    <3> QED
      BY <1>2, <2>2, <3>1 DEF Covered, Told, Awaits
  <2>3. CASE c = b /\ guideName # None
    <3>1. LastNames(down'[b], guideName) /\ ~NoGuides(down'[b])
      BY <1>1, <1>2, <2>3, GreetingNames
    <3>2. Told(b)'
      BY <1>2, <3>1 DEF Told
    <3>3. \A d \in Browsers : Awaits(b, d) => out[d].msg.who = guideName
      <4>1. CASE b \in behind["guide"]
        BY <1>3, <1>5, <2>3, <4>1 DEF Awaiting, Awaits
      <4>2. CASE b \notin behind["guide"]
        BY <1>2, <4>2 DEF GuideInv, Covered
      <4> QED
        BY <4>1, <4>2
    <3> QED
      BY <1>2, <2>3, <3>2, <3>3 DEF Covered, Awaits
  <2> QED
    BY <2>1, <2>2, <2>3
<1> QED
  BY <1>4, <1>5 DEF GuideInv

LEMMA ConnectKeeps ==
  ASSUME GuideInv, TypeOK', NEW b \in Browsers, Connect(b)
  PROVE  GuideInv'
<1>1. TypeOK
  BY DEF GuideInv
<1>2. /\ pc[b] = "off" /\ UNCHANGED <<guideName, page, behind>>
      /\ \A c \in Browsers : /\ pc'[c] = IF c = b THEN "greet" ELSE pc[c]
                             /\ down'[c] = IF c = b THEN <<>> ELSE down[c]
  BY <1>1, ConnectOut
<1>4. ASSUME NEW d \in Browsers
      PROVE  /\ out'[d].kind = out[d].kind /\ out'[d].msg = out[d].msg
             /\ \A c \in Browsers : c # b => (c \in out'[d].to <=> c \in out[d].to)
             /\ out'[d] # Nothing => out[d] # Nothing
  BY <1>1, ConnectOut
<1>5. KindsAgree'
  BY <1>4 DEF GuideInv, KindsAgree
<1>6. ASSUME NEW c \in Browsers, c \notin behind'["guide"] PROVE Covered(c)'
  <2>1. Covered(c)
    BY <1>2, <1>6 DEF GuideInv
  <2>2. CASE c # b
    <3>1. \A d \in Browsers : Awaits(c, d)' <=> Awaits(c, d)
      BY <1>4, <2>2 DEF Awaits
    <3> QED
      BY <1>2, <1>4, <2>1, <2>2, <3>1 DEF Covered, Told
  <2>3. CASE c = b
    <3>1. (\A d \in Browsers : ~Awaits(b, d)') /\ page[b].guideName = None
      BY <1>2, <1>4, <2>1, <2>3 DEF Covered, Awaits
    <3>2. NoGuides(<<>>) /\ \A name : LastNames(<<>>, name)
      BY DEF NoGuides, LastNames
    <3>3. guideName = None => Told(b)'
      BY <1>2, <3>1, <3>2 DEF Told
    <3>4. pc'[b] = "greet" /\ down'[b] = <<>>
      BY <1>2
    <3> QED
      BY <1>2, <2>3, <3>1, <3>3, <3>4 DEF Covered
  <2> QED
    BY <2>2, <2>3
<1> QED
  BY <1>5, <1>6 DEF GuideInv

LEMMA DropKeeps ==
  ASSUME GuideInv, TypeOK', NEW b \in Browsers, Drop(b)
  PROVE  GuideInv'
<1>1. TypeOK
  BY DEF GuideInv
<1>2. /\ UNCHANGED <<guideName, page, down>> /\ behind'["guide"] = behind["guide"] \cup {b}
      /\ \A c \in Browsers : c # b => pc'[c] = pc[c]
  BY <1>1, DropOut DEF Kinds
<1>3. ASSUME NEW d \in Browsers
      PROVE  /\ out'[d].kind = "guide" => out[d].kind = "guide" /\ out'[d].msg = out[d].msg
             /\ \A c \in Browsers : c # b => (Awaits(c, d)' <=> Awaits(c, d))
             /\ out'[d] # Nothing => /\ out[d] # Nothing /\ out'[d].kind = out[d].kind
                                     /\ out'[d].msg = out[d].msg
  <2>1. /\ out'[d] # Nothing => /\ out[d] # Nothing /\ out'[d].kind = out[d].kind
                                /\ out'[d].msg = out[d].msg
        /\ \A c \in Browsers : c # b => (c \in out'[d].to <=> c \in out[d].to)
    BY <1>1, DropOut
  <2>2. CASE out'[d] = Nothing
    BY <2>1, <2>2 DEF Awaits, Nothing
  <2>3. CASE out'[d] # Nothing
    BY <2>1, <2>3 DEF Awaits
  <2> QED
    BY <2>2, <2>3
<1>4. KindsAgree'
  BY <1>3 DEF GuideInv, KindsAgree
<1>5. ASSUME NEW c \in Browsers, c \notin behind'["guide"] PROVE Covered(c)'
  <2>1. Covered(c) /\ c # b
    BY <1>2, <1>5 DEF GuideInv
  <2> QED
    BY <1>2, <1>3, <2>1 DEF Covered, Told, Awaits
<1> QED
  BY <1>4, <1>5 DEF GuideInv

LEMMA DeliverKeeps ==
  ASSUME GuideInv, TypeOK', NEW b \in Browsers, Deliver(b)
  PROVE  GuideInv'
<1> DEFINE m == Head(down[b])
<1>1. TypeOK /\ page[b] \in Page /\ down[b] \in Seq(Msgs)
  BY DEF GuideInv, TypeOK
<1>2. /\ down[b] # <<>> /\ pc' = pc /\ m \in Msgs
      /\ \A c \in Browsers : down'[c] = IF c = b THEN Tail(down[b]) ELSE down[c]
  BY <1>1 DEF Deliver, TypeOK
<1>3. \/ /\ m.type = "guide_start" /\ Become(b, OnGuideStart(page[b], b, m.who))
         /\ Send(b, FollowStatus(b, TRUE)) \/ SendNothing
      \/ m.type = "guide_stop" /\ Become(b, OnGuideStop(page[b], b)) /\ SendNothing
      \/ /\ m.type \in {"follow", "unfollow"}
         /\ Become(b, OnFollowStatus(page[b], m.who, m.type = "follow")) /\ SendNothing
      \/ /\ m.type = "guide_state" /\ SendNothing
         /\ Show(b, OnGuideState(page[b], b, m.file), Follows(page[b], b) \/ b \notin strayed)
  BY DEF Deliver
<1> HIDE DEF m
<1>4. /\ guideName' = guideName /\ behind'["guide"] = behind["guide"]
      /\ \A c \in Browsers : c # b => out'[c] = out[c]
      /\ \/ out'[b] = out[b]
         \/ out[b] = Nothing /\ out'[b].kind # "guide" /\ out'[b].msg.type \notin Guides
  BY <1>3, SilentSends
<1>5. \A c \in Browsers : c # b => page'[c] = page[c]
  BY <1>1, <1>3, OthersPages
<1>6. /\ m.type \notin Guides => page'[b].guideName = page[b].guideName
      /\ m.type \in Guides => Other(b, page'[b].guideName) = Other(b, m.who)
  <2>1. CASE m.type = "guide_start"
    <3>1. page'[b] = OnGuideStart(page[b], b, m.who)
      BY <1>1, <1>3, <2>1, OwnPage
    <3>2. page'[b].guideName = m.who
      BY <1>1, <3>1 DEF OnGuideStart, Page
    <3> QED
      BY <2>1, <3>2 DEF Guides
  <2>2. CASE m.type = "guide_stop"
    <3>1. m.who = None
      BY <1>2, <2>2, MsgFields
    <3>2. page'[b] = OnGuideStop(page[b], b)
      BY <1>1, <1>3, <2>2, OwnPage
    <3>3. page'[b].guideName \in {b, None}
      BY <1>1, <3>2 DEF OnGuideStop, Page
    <3> QED
      BY <2>2, <3>1, <3>3 DEF Guides, Other
  <2>3. CASE m.type \in {"follow", "unfollow"}
    <3>1. page'[b] = OnFollowStatus(page[b], m.who, m.type = "follow")
      BY <1>1, <1>3, <2>3, OwnPage
    <3>2. page'[b].guideName = page[b].guideName
      BY <1>1, <3>1 DEF OnFollowStatus, Page
    <3> QED
      BY <2>3, <3>2 DEF Guides
  <2>4. CASE m.type = "guide_state"
    <3>1. page'[b] = OnGuideState(page[b], b, m.file)
      BY <1>1, <1>3, <2>4, OwnPage
    <3>2. [page[b] EXCEPT !.lastState = m.file].guideName = page[b].guideName
      BY <1>1 DEF Page
    <3>3. page'[b].guideName = page[b].guideName
      BY <1>1, <3>1, <3>2 DEF OnGuideState, ApplyGuideState, Page
    <3> QED
      BY <2>4, <3>3 DEF Guides
  <2> QED
    BY <1>3, <2>1, <2>2, <2>3, <2>4
<1>7. KindsAgree'
  BY <1>4 DEF GuideInv, KindsAgree
<1>8. \A c, d \in Browsers : /\ out'[d].kind = "guide" => out[d].kind = "guide"
                             /\ Awaits(c, d)' <=> Awaits(c, d)
                             /\ Awaits(c, d) => out'[d].msg = out[d].msg
  BY <1>4 DEF Awaits, Nothing
<1>9. ASSUME NEW c \in Browsers, c \notin behind'["guide"] PROVE Covered(c)'
  <2>1. Covered(c)
    BY <1>4, <1>9 DEF GuideInv
  <2>2. CASE c # b
    BY <1>2, <1>4, <1>5, <1>8, <2>1, <2>2 DEF Covered, Told
  <2>3. CASE c = b /\ pc[b] = "off"
    <3>1. NoGuides(down'[b]) /\ m.type \notin Guides
      BY <1>1, <1>2, <2>1, <2>3, TakeGuide DEF Covered, m
    <3> QED
      BY <1>2, <1>6, <1>8, <2>1, <2>3, <3>1 DEF Covered
  <2>4. CASE c = b /\ pc[b] # "off"
    <3>1. ASSUME Told(b) PROVE Told(b)'
      <4>1. /\ LastNames(Tail(down[b]), guideName)
            /\ NoGuides(Tail(down[b])) /\ m.type \in Guides => m.who = guideName
            /\ NoGuides(Tail(down[b])) /\ m.type \notin Guides => NoGuides(down[b])
        BY <1>1, <1>2, <3>1, TakeGuide DEF Told, m
      <4>2. down'[b] = Tail(down[b])
        BY <1>2
      <4> QED
        BY <1>4, <1>6, <3>1, <4>1, <4>2 DEF Told
    <3> QED
      BY <1>2, <1>4, <1>8, <2>1, <2>4, <3>1 DEF Covered
  <2> QED
    BY <2>2, <2>3, <2>4
<1> QED
  BY <1>7, <1>9 DEF GuideInv

LEMMA GuideNext == GuideInv /\ [Next]_vars => GuideInv'
<1> SUFFICES ASSUME GuideInv, [Next]_vars PROVE GuideInv'
  OBVIOUS
<1>0. TypeOK'
  BY TypeNext DEF GuideInv
<1>1. CASE UNCHANGED vars
  BY <1>0, <1>1 DEF GuideInv, KindsAgree, Covered, Told, Awaits, vars, relayVars, histVars
<1>2. ASSUME NEW b \in Browsers, UserStep(b) \/ PageStep(b)
      PROVE  GuideInv'
  BY <1>0, <1>2, ToggleKeeps, QuietEvents, ConnectKeeps, DropKeeps, DeliverKeeps
     DEF UserStep, PageStep
<1>3. ASSUME NEW b \in Browsers, HandlerStep(b)
      PROVE  GuideInv'
  BY <1>0, <1>3, WriteKeeps, GreetKeeps DEF HandlerStep
<1>4. CASE Evict
  <2>1. out' = out /\ behind'["guide"] = Browsers
    BY <1>4 DEF Evict, Kinds
  <2> QED
    BY <1>0, <2>1 DEF GuideInv, KindsAgree
<1> QED
  BY <1>1, <1>2, <1>3, <1>4 DEF Next

LEMMA GuideKnown == GuideInv => PagesKnowGuide
<1> SUFFICES ASSUME GuideInv, Quiet, NEW b \in In \ behind["guide"]
             PROVE  Other(b, page[b].guideName) = Other(b, guideName)
  BY DEF PagesKnowGuide
<1>1. b \in Browsers /\ pc[b] = "serving" /\ down[b] = <<>>
  BY DEF In, Quiet, GuideInv, TypeOK
<1>2. \A c \in Browsers : ~Awaits(b, c)
  BY DEF Quiet, Awaits, Nothing
<1>3. Told(b)
  BY <1>1, <1>2 DEF GuideInv, Covered
<1> QED
  BY <1>1, <1>3 DEF Told, NoGuides

(* When nothing is on its way, all pages name the guide the relay has, but *)
(* those that got an older message after a newer one, or none: however the *)
(* handlers of guide_start and guide_stop, their writes, and the greeting  *)
(* of joiners interleave (server.go, handleBrowser).                       *)
THEOREM PagesAlwaysKnowGuide == Spec => []PagesKnowGuide
<1>1. Init => GuideInv
  BY GuideInit
<1>2. GuideInv /\ [Next]_vars => GuideInv'
  BY GuideNext
<1>3. GuideInv => PagesKnowGuide
  BY GuideKnown
<1> QED
  BY <1>1, <1>2, <1>3, PTL DEF Spec

-----------------------------------------------------------------------------
(* The last message of M that is on its way to a page is one of N, and     *)
(* what names the guide comes before it.                                   *)
LastOf(s, M, N) ==
    \A i \in DOMAIN s :
        /\ s[i] \in M /\ (\A j \in DOMAIN s : i < j => s[j] \notin M) => s[i] \in N
        /\ s[i].type \in Guides => \E j \in DOMAIN s : i < j /\ s[j] \in M
Lacks(s, M) == \A i \in DOMAIN s : s[i] \notin M

LEMMA EmptyLast == ASSUME NEW M, NEW N PROVE LastOf(<<>>, M, N) /\ Lacks(<<>>, M)
BY DEF LastOf, Lacks

LEMMA AppendLast ==
  ASSUME NEW s \in Seq(Msgs), NEW m \in Msgs, NEW M, NEW N
  PROVE  /\ m \in M /\ m \in N /\ m.type \notin Guides
            => LastOf(Append(s, m), M, N) /\ ~Lacks(Append(s, m), M)
         /\ m \notin M /\ m.type \notin Guides
            => /\ LastOf(s, M, N) => LastOf(Append(s, m), M, N)
               /\ Lacks(Append(s, m), M) => Lacks(s, M)
<1>1. /\ Len(s) \in Nat /\ DOMAIN s = 1 .. Len(s) /\ DOMAIN Append(s, m) = 1 .. Len(s) + 1
      /\ \A i \in 1 .. Len(s) : Append(s, m)[i] = s[i]
      /\ Append(s, m)[Len(s) + 1] = m
  OBVIOUS
<1>2. ASSUME m \in M, m \in N, m.type \notin Guides
      PROVE  LastOf(Append(s, m), M, N) /\ ~Lacks(Append(s, m), M)
  BY <1>1, <1>2 DEF LastOf, Lacks
<1>3. ASSUME m \notin M, m.type \notin Guides, LastOf(s, M, N)
      PROVE  LastOf(Append(s, m), M, N)
  <2>1. ASSUME NEW i \in DOMAIN Append(s, m)
        PROVE  LET t == Append(s, m)
               IN  /\ t[i] \in M /\ (\A j \in DOMAIN t : i < j => t[j] \notin M) => t[i] \in N
                   /\ t[i].type \in Guides => \E j \in DOMAIN t : i < j /\ t[j] \in M
    BY <1>1, <1>3, <2>1 DEF LastOf
  <2> QED
    BY <2>1 DEF LastOf
<1>4. Lacks(Append(s, m), M) => Lacks(s, M)
  BY <1>1 DEF Lacks
<1> QED
  BY <1>2, <1>3, <1>4

LEMMA TakeLast ==
  ASSUME NEW s \in Seq(Msgs), s # <<>>, NEW M, NEW N
  PROVE  /\ LastOf(s, M, N) => LastOf(Tail(s), M, N)
         /\ LastOf(s, M, N) /\ Lacks(Tail(s), M)
            => Head(s).type \notin Guides /\ (Head(s) \in M => Head(s) \in N)
         /\ Lacks(Tail(s), M) /\ Head(s) \notin M => Lacks(s, M)
<1>1. /\ Len(s) \in Nat \ {0} /\ DOMAIN s = 1 .. Len(s)
      /\ DOMAIN Tail(s) = 1 .. Len(s) - 1 /\ Head(s) = s[1]
      /\ \A i \in 1 .. Len(s) - 1 : Tail(s)[i] = s[i + 1]
  OBVIOUS
<1>2. \A i \in DOMAIN s : i # 1 => i - 1 \in DOMAIN Tail(s) /\ s[i] = Tail(s)[i - 1]
  BY <1>1
<1>3. ASSUME LastOf(s, M, N), NEW i \in DOMAIN Tail(s)
      PROVE  LET t == Tail(s)
             IN  /\ t[i] \in M /\ (\A j \in DOMAIN t : i < j => t[j] \notin M) => t[i] \in N
                 /\ t[i].type \in Guides => \E j \in DOMAIN t : i < j /\ t[j] \in M
  <2>1. i + 1 \in DOMAIN s /\ Tail(s)[i] = s[i + 1]
    BY <1>1
  <2>2. \A j \in DOMAIN s : i + 1 < j => j - 1 \in DOMAIN Tail(s) /\ i < j - 1
                                         /\ s[j] = Tail(s)[j - 1]
    BY <1>1, <1>2
  <2>3. ASSUME Tail(s)[i] \in M, \A j \in DOMAIN Tail(s) : i < j => Tail(s)[j] \notin M
        PROVE  Tail(s)[i] \in N
    <3>1. \A j \in DOMAIN s : i + 1 < j => s[j] \notin M
      BY <2>2, <2>3
    <3> QED
      BY <1>3, <2>1, <2>3, <3>1 DEF LastOf
  <2>4. ASSUME Tail(s)[i].type \in Guides
        PROVE  \E j \in DOMAIN Tail(s) : i < j /\ Tail(s)[j] \in M
    <3>1. PICK j \in DOMAIN s : i + 1 < j /\ s[j] \in M
      BY <1>3, <2>1, <2>4 DEF LastOf
    <3> QED
      BY <2>2, <3>1
  <2> QED
    BY <2>3, <2>4
<1>4. LastOf(s, M, N) => LastOf(Tail(s), M, N)
  BY <1>3 DEF LastOf
<1>5. ASSUME Lacks(Tail(s), M), NEW j \in DOMAIN s, 1 < j
      PROVE  s[j] \notin M
  <2>1. j - 1 \in DOMAIN Tail(s) /\ s[j] = Tail(s)[j - 1]
    BY <1>1, <1>2, <1>5
  <2> QED
    BY <1>5, <2>1 DEF Lacks
<1>6. LastOf(s, M, N) /\ Lacks(Tail(s), M)
      => Head(s).type \notin Guides /\ (Head(s) \in M => Head(s) \in N)
  BY <1>1, <1>5 DEF LastOf
<1>7. Lacks(Tail(s), M) /\ Head(s) \notin M => Lacks(s, M)
  BY <1>1, <1>5 DEF Lacks
<1> QED
  BY <1>4, <1>6, <1>7

-----------------------------------------------------------------------------
(* What a page sends of itself: nothing, or its follow status.             *)
LEMMA StatusSent ==
  ASSUME TypeOK, NEW b \in Browsers, NEW on \in BOOLEAN,
         SendNothing \/ Send(b, FollowStatus(b, on))
  PROVE  /\ UNCHANGED <<guideName, guideState, stateBy>>
         /\ \A k \in Kinds : k # "follow" => behind'[k] = behind[k]
         /\ \A c \in Browsers : c # b => /\ out'[c] = out[c]
                                         /\ c \in behind'["follow"] <=> c \in behind["follow"]
         /\ \/ out'[b] = out[b] /\ behind' = behind /\ (SendNothing \/ b \notin In)
            \/ /\ pc[b] = "serving" /\ out[b] = Nothing /\ out'[b] # Nothing
               /\ out'[b].kind = "follow" /\ out'[b].to = In
               /\ out'[b].msg.who = b
               /\ out'[b].msg.type = IF on THEN "follow" ELSE "unfollow"
               /\ b \notin behind'["follow"] => Awaiting("guide", Browsers) = {}
<1>0. out \in [Browsers -> OutType \cup {Nothing}] /\ behind \in [Kinds -> SUBSET Browsers]
  BY TypeParts DEF RelayTyped
<1>1. CASE UNCHANGED <<guideName, guideState, stateBy, out, behind>>
           /\ (SendNothing \/ b \notin In)
  BY <1>1
<1>2. CASE pc[b] = "serving" /\ out[b] = Nothing /\ FollowStatus(b, on)
  <2> DEFINE m == Msg(IF on THEN "follow" ELSE "unfollow", b, None)
             o == [kind |-> "follow", begun |-> FALSE, to |-> In, msg |-> m]
  <2>1. m.who = b /\ m.type = IF on THEN "follow" ELSE "unfollow"
    BY DEF Msg
  <2>2. /\ out' = [out EXCEPT ![b] = o]
        /\ behind' = [behind EXCEPT !["follow"] =
                        IF Awaiting("guide", Browsers) # {} THEN @ \cup {b} ELSE @ \ {b}]
        /\ UNCHANGED <<guideName, guideState, stateBy>>
    BY <1>2 DEF FollowStatus
  <2> HIDE DEF m
  <2>3. o.kind = "follow" /\ o.to = In /\ o.msg = m /\ o # Nothing
    BY DEF Nothing
  <2> HIDE DEF o
  <2>4. "follow" \in Kinds
    BY DEF Kinds
  <2>5. /\ out'[b] = o /\ \A c \in Browsers : c # b => out'[c] = out[c]
        /\ \A k \in Kinds : k # "follow" => behind'[k] = behind[k]
        /\ behind'["follow"] = IF Awaiting("guide", Browsers) # {}
                               THEN behind["follow"] \cup {b} ELSE behind["follow"] \ {b}
    BY <1>0, <2>2, <2>4
  <2>6. b \notin behind'["follow"] => Awaiting("guide", Browsers) = {}
    BY <2>5
  <2>7. \A c \in Browsers : c # b => (c \in behind'["follow"] <=> c \in behind["follow"])
    BY <2>5
  <2> QED
    BY <1>2, <2>1, <2>2, <2>3, <2>5, <2>6, <2>7
<1> QED
  BY <1>1, <1>2 DEF Send, SendNothing

-----------------------------------------------------------------------------
(* What the pages that follow show.                                        *)

States == {m \in Msgs : m.type = "guide_state"}
StatesOf(f) == {m \in States : m.file = f}
Status == {"follow", "unfollow"}
AwaitsState(b, c) == out[c].kind = "state" /\ b \in out[c].to

(* A handler writes of its own page only, and what its kind says.          *)
OwnWords ==
    \A d \in Browsers : out[d] # Nothing =>
        /\ out[d].kind = "state" <=> out[d].msg \in States
        /\ out[d].kind = "follow" <=> out[d].msg.type \in Status
        /\ out[d].kind = "follow" => out[d].msg.who = d
        /\ out[d].kind = "guide" => out[d].msg.who \in {d, None}

(* The guide has reported its place since it began to guide.               *)
Reported == stateBy # None /\ guideName = stateBy

(* What is about to be written to b of the guide's place is its last one;  *)
(* a browser that never was connected has missed none.                     *)
Latest(b) ==
    IF pc[b] = "off" THEN \A d \in Browsers : out[d].kind # "state"
    ELSE stateBy # None => \A d \in Browsers : AwaitsState(b, d) => out[d].msg.file = guideState

(* Nobody reports before the start has been written to all.                *)
Begun(b) == pc[b] # "off" /\ Reported => \A d \in Browsers : ~Awaits(b, d)

Shows(b) ==
    /\ page[b].lastState = guideState
    /\ Follows(page[b], b) /\ page[b].asked = {} /\ b \notin strayed
       => page[b].view = guideState

(* A page gets the guide's place after its name, and goes there.           *)
Led(b) ==
    pc[b] = "serving" /\ Reported /\ b # guideName /\ (\A d \in Browsers : ~AwaitsState(b, d))
    => /\ LastOf(down[b], States, StatesOf(guideState))
       /\ Lacks(down[b], States) => Shows(b)

(* A page that nothing more is to tell of the guide, and knows of none,    *)
(* does not follow.                                                        *)
Unled(b) ==
    IF pc[b] = "off" THEN ~page[b].following
    ELSE /\ \A d \in Browsers : ~Awaits(b, d)
         /\ pc[b] = "serving" \/ guideName = None
         /\ NoGuides(down[b])
         => ~page[b].following \/ page[b].guideName # None

ShowParts ==
    /\ OwnWords
    /\ stateBy # None => guideState \in Files
    /\ \A b \in Browsers :
         /\ b \notin behind["state"] => Latest(b)
         /\ b \notin behind["guide"] => Begun(b) /\ Unled(b)
         /\ b \notin behind["guide"] \cup behind["state"] => Led(b)

(* The inductive strengthening of FollowersShowState.                      *)
ShowInv == GuideInv /\ ShowParts

LEMMA ShowInit == Init => ShowInv
<1> SUFFICES ASSUME Init PROVE ShowInv
  OBVIOUS
<1>1. GuideInv
  BY GuideInit
<1>2. PICK in \in SUBSET Browsers : \E g \in in \cup {None} : \E file \in Opened \cup {None} :
        Starts(in, g, file)
  BY InitStarts
<1>3. PICK file \in Opened \cup {None} : Starts(in, guideName, file)
  BY <1>2 DEF Starts
<1>4. \A d \in Browsers : out[d] = Nothing /\ down[d] = <<>>
  BY <1>3 DEF Starts
<1>5. Nothing.kind = "none" /\ Nothing.to = {}
  BY DEF Nothing
<1>6. OwnWords
  BY <1>4 DEF OwnWords
<1>7. stateBy # None => guideName = stateBy /\ guideState = file /\ file \in Files
  BY <1>3, GuideAssumption DEF Starts, GuideAssumption
<1>8. ASSUME NEW b \in Browsers PROVE Latest(b) /\ Begun(b) /\ Unled(b) /\ Led(b)
  <2>1. Latest(b) /\ Begun(b)
    BY <1>4, <1>5 DEF Latest, Begun, AwaitsState, Awaits
  <2>2. page[b] = IF b \in in THEN PageUnder(b, guideName, in, file) ELSE NewPage(file)
    BY <1>3 DEF Starts
  <2>3. pc[b] = IF b \in in THEN "serving" ELSE "off"
    BY <1>3 DEF Starts
  <2>4. NewPage(file).following = FALSE /\ NewPage(file).guideName = None
    BY DEF NewPage
  <2>5. guideName # None => LET pg == PageUnder(b, guideName, in, file)
                            IN  /\ pg.guideName = guideName /\ pg.following = (b # guideName)
                                /\ pg.lastState = file /\ pg.view = file
    BY DEF PageUnder, NewPage
  <2>6. guideName = None => PageUnder(b, guideName, in, file) = NewPage(file)
    BY DEF PageUnder
  <2>7. Unled(b)
    BY <2>2, <2>3, <2>4, <2>5, <2>6 DEF Unled
  <2>8. ASSUME pc[b] = "serving", Reported PROVE Shows(b)
    <3>1. page[b].lastState = file /\ page[b].view = file /\ guideState = file
      BY <1>7, <2>2, <2>3, <2>5, <2>8 DEF Reported
    <3> QED
      BY <3>1 DEF Shows
  <2>9. LastOf(down[b], States, StatesOf(guideState))
    BY <1>4, EmptyLast
  <2> QED
    BY <2>1, <2>7, <2>8, <2>9 DEF Led
<1> QED
  BY <1>1, <1>6, <1>7, <1>8 DEF ShowInv, ShowParts

-----------------------------------------------------------------------------
(* Steps of handlers.                                                      *)

LEMMA StateMsg ==
  ASSUME NEW m \in Msgs
  PROVE  /\ m \in States <=> m.type = "guide_state"
         /\ m \in States => m.type \notin Guides
         /\ \A f : m \in StatesOf(f) <=> m \in States /\ m.file = f
BY DEF States, StatesOf, Guides

LEMMA WriteShows ==
  ASSUME ShowInv, NEW b \in Browsers, NEW c \in Browsers, Write(b, c)
  PROVE  ShowParts'
<1> DEFINE m == out[b].msg
<1>1. TypeOK /\ down \in [Browsers -> Seq(Msgs)]
  BY DEF ShowInv, GuideInv, TypeOK
<1>2. /\ guideName' = guideName /\ guideState' = guideState /\ stateBy' = stateBy
      /\ pc' = pc /\ page' = page /\ behind' = behind /\ strayed' = strayed
  BY <1>1, WriteOut
<1>3. /\ out[b] # Nothing /\ c \in out[b].to
      /\ \A d \in Browsers : d # b => out'[d] = out[d]
      /\ \/ out'[b] = Nothing /\ out[b].to \subseteq {c}
         \/ out'[b].kind = out[b].kind /\ out'[b].msg = m /\ out'[b].to = out[b].to \ {c}
      /\ \A x \in Browsers : down'[x] = IF x = c THEN Append(down[c], m) ELSE down[x]
  BY <1>1, WriteOut
<1>4. /\ m \in Msgs
      /\ out[b].kind = "guide" <=> m.type \in Guides
      /\ out[b].kind = "state" <=> m \in States
  BY <1>1, <1>3, WriteOut DEF ShowInv, ShowParts, OwnWords, GuideInv, KindsAgree
<1> HIDE DEF m
<1>5. Nothing.kind = "none" /\ Nothing.to = {}
  BY DEF Nothing
<1>6. \A x, d \in Browsers : /\ Awaits(x, d)' => Awaits(x, d)
                             /\ AwaitsState(x, d)' => AwaitsState(x, d) /\ out'[d].msg = out[d].msg
                             /\ x # c \/ d # b => /\ Awaits(x, d) => Awaits(x, d)'
                                                  /\ AwaitsState(x, d) => AwaitsState(x, d)'
  BY <1>3, <1>5 DEF Awaits, AwaitsState, m
<1>7. \A d \in Browsers : out'[d].kind = "state" => out[d].kind = "state"
  BY <1>3, <1>5
<1>8. OwnWords'
  BY <1>3, <1>4, <1>5 DEF ShowInv, ShowParts, OwnWords, m
<1>9. (stateBy # None => guideState \in Files)'
  BY <1>2 DEF ShowInv, ShowParts
<1>10. ASSUME NEW x \in Browsers, x \notin behind'["state"] PROVE Latest(x)'
  <2>1. Latest(x)
    BY <1>2, <1>10 DEF ShowInv, ShowParts
  <2> QED
    BY <1>2, <1>6, <1>7, <2>1 DEF Latest
<1>11. ASSUME NEW x \in Browsers, x \notin behind'["guide"] PROVE Begun(x)' /\ Unled(x)'
  <2>1. Begun(x) /\ Unled(x)
    BY <1>2, <1>11 DEF ShowInv, ShowParts
  <2>2. Begun(x)'
    BY <1>2, <1>6, <2>1 DEF Begun, Reported
  <2>3. NoGuides(down'[x]) => NoGuides(down[x]) /\ (Awaits(x, b) => Awaits(x, b)')
    <3>1. CASE x = c
      BY <1>1, <1>3, <1>4, <3>1, AppendGuide DEF Awaits
    <3>2. CASE x # c
      BY <1>3, <1>6, <3>2
    <3> QED
      BY <3>1, <3>2
  <2>4. Unled(x)'
    BY <1>2, <1>6, <2>1, <2>3 DEF Unled
  <2> QED
    BY <2>2, <2>4
<1>12. ASSUME NEW x \in Browsers, x \notin behind'["guide"] \cup behind'["state"],
              pc'[x] = "serving", Reported', x # guideName',
              \A d \in Browsers : ~AwaitsState(x, d)'
       PROVE  /\ LastOf(down'[x], States, StatesOf(guideState'))
              /\ Lacks(down'[x], States) => Shows(x)'
  <2>1. Led(x) /\ Latest(x) /\ Begun(x) /\ Reported /\ stateBy # None
    BY <1>2, <1>12 DEF ShowInv, ShowParts, Reported
  <2>2. Shows(x)' <=> Shows(x)
    BY <1>2 DEF Shows
  <2>3. CASE x # c
    <3>1. \A d \in Browsers : ~AwaitsState(x, d)
      BY <1>6, <1>12, <2>3
    <3>2. LastOf(down[x], States, StatesOf(guideState)) /\ (Lacks(down[x], States) => Shows(x))
      BY <1>2, <1>12, <2>1, <3>1 DEF Led
    <3> QED
      BY <1>2, <1>3, <2>2, <2>3, <3>2
  <2>4. CASE x = c /\ out[b].kind = "state"
    <3>1. m.file = guideState /\ m \in StatesOf(guideState)
      BY <1>2, <1>3, <1>4, <1>12, <2>1, <2>4, StateMsg DEF Latest, AwaitsState, m
    <3>2. m \in States /\ m.type \notin Guides
      BY <1>4, <2>4, StateMsg
    <3>3. LastOf(Append(down[x], m), States, StatesOf(guideState))
          /\ ~Lacks(Append(down[x], m), States)
      BY <1>1, <1>4, <3>1, <3>2, AppendLast
    <3> QED
      BY <1>2, <1>3, <2>4, <3>3
  <2>5. CASE x = c /\ out[b].kind # "state"
    <3>1. m \notin States /\ m.type \notin Guides
      BY <1>2, <1>3, <1>4, <1>12, <2>1, <2>5 DEF Begun, Awaits
    <3>2. \A d \in Browsers : ~AwaitsState(x, d)
      BY <1>6, <1>12, <2>5 DEF AwaitsState
    <3>3. LastOf(down[x], States, StatesOf(guideState)) /\ (Lacks(down[x], States) => Shows(x))
      BY <1>2, <1>12, <2>1, <3>2 DEF Led
    <3>4. /\ LastOf(Append(down[x], m), States, StatesOf(guideState))
          /\ Lacks(Append(down[x], m), States) => Lacks(down[x], States)
      BY <1>1, <1>4, <3>1, <3>3, AppendLast
    <3> QED
      BY <1>2, <1>3, <2>2, <2>5, <3>3, <3>4
  <2> QED
    BY <2>3, <2>4, <2>5
<1> QED
  BY <1>8, <1>9, <1>10, <1>11, <1>12 DEF ShowParts, Led

LEMMA GreetShows ==
  ASSUME ShowInv, NEW b \in Browsers, Greet(b)
  PROVE  ShowParts'
<1>1. TypeOK /\ RelayTyped /\ down[b] \in Seq(Msgs)
  BY TypeParts DEF ShowInv, GuideInv, TypeOK
<1>2. /\ pc[b] = "greet"
      /\ guideName' = guideName /\ guideState' = guideState /\ stateBy' = stateBy
      /\ out' = out /\ page' = page /\ strayed' = strayed
      /\ \A c \in Browsers : /\ pc'[c] = IF c = b THEN "serving" ELSE pc[c]
                             /\ down'[c] = IF c = b THEN down[b] \o Greeting ELSE down[c]
  BY <1>1 DEF Greet, TypeOK
<1>3. \A k \in {"guide", "state"} :
         behind'[k] = IF guideName # None /\ b \notin Awaiting(k, Browsers)
                      THEN behind[k] \ {b} ELSE behind[k]
  BY DEF Greet, Kinds
<1>4. OwnWords' /\ (stateBy # None => guideState \in Files)'
  BY <1>2 DEF ShowInv, ShowParts, OwnWords
<1>5. ASSUME NEW c \in Browsers, c \notin behind'["state"] PROVE Latest(c)'
  <2>1. CASE c \notin behind["state"]
    BY <1>2, <2>1 DEF ShowInv, ShowParts, Latest, AwaitsState
  <2>2. CASE c \in behind["state"]
    <3>1. c = b /\ b \notin Awaiting("state", Browsers)
      BY <1>3, <1>5, <2>2
    <3>2. \A d \in Browsers : ~AwaitsState(c, d)
      BY <3>1 DEF Awaiting, AwaitsState
    <3> QED
      BY <1>2, <3>1, <3>2 DEF Latest, AwaitsState
  <2> QED
    BY <2>1, <2>2
<1>6. ASSUME NEW c \in Browsers, c \notin behind'["guide"] PROVE Begun(c)' /\ Unled(c)'
  <2>1. CASE c # b
    <3>1. Begun(c) /\ Unled(c)
      BY <1>3, <1>6, <2>1 DEF ShowInv, ShowParts
    <3> QED
      BY <1>2, <2>1, <3>1 DEF Begun, Unled, Reported, Awaits
  <2>2. CASE c = b /\ guideName = None
    <3>1. Begun(c) /\ Unled(c) /\ down'[b] = down[b]
      BY <1>1, <1>2, <1>3, <1>6, <2>2, GreetingNames DEF ShowInv, ShowParts
    <3> QED
      BY <1>2, <2>2, <3>1 DEF Begun, Unled, Reported, Awaits
  <2>3. CASE c = b /\ guideName # None
    <3>1. ~NoGuides(down'[b])
      BY <1>1, <1>2, <2>3, GreetingNames
    <3>2. Reported => \A d \in Browsers : ~Awaits(b, d)
      <4>1. CASE b \in behind["guide"]
        BY <1>3, <1>6, <2>3, <4>1 DEF Awaiting, Awaits
      <4>2. CASE b \notin behind["guide"]
        BY <1>2, <4>2 DEF ShowInv, ShowParts, Begun
      <4> QED
        BY <4>1, <4>2
    <3> QED
      BY <1>2, <2>3, <3>1, <3>2 DEF Begun, Unled, Reported, Awaits
  <2> QED
    BY <2>1, <2>2, <2>3
<1>7. ASSUME NEW c \in Browsers, c \notin behind'["guide"] \cup behind'["state"]
      PROVE  Led(c)'
  <2>1. CASE c # b
    <3>1. Led(c)
      BY <1>3, <1>7, <2>1 DEF ShowInv, ShowParts
    <3> QED
      BY <1>2, <2>1, <3>1 DEF Led, Reported, Shows, AwaitsState
  <2>2. CASE c = b
    <3>1. ASSUME Reported
          PROVE  LastOf(down'[b], States, StatesOf(guideState)) /\ ~Lacks(down'[b], States)
      <4> DEFINE m == Msg("guide_start", guideName, None)
                 n == Msg("guide_state", None, guideState)
      <4>1. guideName # None /\ guideState # None /\ guideState \in Files
        BY <3>1, GuideAssumption DEF Reported, ShowInv, ShowParts, GuideAssumption
      <4>2. m \in Msgs /\ n \in Msgs
        BY <1>1, <4>1, MsgsTyped DEF RelayTyped
      <4>3. n \in States /\ n \in StatesOf(guideState) /\ n.type \notin Guides
        BY <4>2, StateMsg DEF Msg, Guides
      <4>4. Greeting = <<m>> \o <<n>>
        BY <4>1 DEF Greeting
      <4> HIDE DEF m, n
      <4>5. down'[b] = Append(Append(down[b], m), n)
        <5>1. down[b] \o (<<m>> \o <<n>>) = (down[b] \o <<m>>) \o <<n>>
          BY <1>1, <4>2
        <5>2. down[b] \o <<m>> = Append(down[b], m) /\ Append(down[b], m) \in Seq(Msgs)
          BY <1>1, <4>2
        <5>3. Append(down[b], m) \o <<n>> = Append(Append(down[b], m), n)
          BY <4>2, <5>2
        <5> QED
          BY <1>2, <4>4, <5>1, <5>2, <5>3
      <4>6. Append(down[b], m) \in Seq(Msgs)
        BY <1>1, <4>2
      <4> QED
        BY <4>2, <4>3, <4>5, <4>6, AppendLast
    <3> QED
      BY <1>2, <2>2, <3>1 DEF Led, Reported
  <2> QED
    BY <2>1, <2>2
<1> QED
  BY <1>4, <1>5, <1>6, <1>7 DEF ShowParts

LEMMA ConnectShows ==
  ASSUME ShowInv, NEW b \in Browsers, Connect(b)
  PROVE  ShowParts'
<1>1. TypeOK
  BY DEF ShowInv, GuideInv
<1>2. /\ guideName' = guideName /\ guideState' = guideState /\ stateBy' = stateBy
      /\ page' = page /\ behind' = behind /\ strayed' = strayed /\ pc[b] = "off"
      /\ \A c \in Browsers : /\ pc'[c] = IF c = b THEN "greet" ELSE pc[c]
                             /\ down'[c] = IF c = b THEN <<>> ELSE down[c]
  BY <1>1, ConnectOut
<1>3. \A d \in Browsers :
        /\ out'[d].kind = out[d].kind /\ out'[d].msg = out[d].msg
        /\ \A c \in Browsers : c # b => (c \in out'[d].to <=> c \in out[d].to)
        /\ out'[d] # Nothing => out[d] # Nothing
  BY <1>1, ConnectOut
<1>4. OwnWords' /\ (stateBy # None => guideState \in Files)'
  BY <1>2, <1>3 DEF ShowInv, ShowParts, OwnWords
<1>5. \A c, d \in Browsers : c # b => /\ Awaits(c, d)' <=> Awaits(c, d)
                                      /\ AwaitsState(c, d)' <=> AwaitsState(c, d)
  BY <1>3 DEF Awaits, AwaitsState
<1>6. ASSUME NEW c \in Browsers, c \notin behind'["state"] PROVE Latest(c)'
  <2>1. Latest(c)
    BY <1>2, <1>6 DEF ShowInv, ShowParts
  <2>2. CASE c # b
    BY <1>2, <1>3, <1>5, <2>1, <2>2 DEF Latest
  <2>3. CASE c = b
    BY <1>2, <1>3, <2>1, <2>3 DEF Latest, AwaitsState
  <2> QED
    BY <2>2, <2>3
<1>7. ASSUME NEW c \in Browsers, c \notin behind'["guide"] PROVE Begun(c)' /\ Unled(c)'
  <2>1. Begun(c) /\ Unled(c) /\ Covered(c)
    BY <1>2, <1>7 DEF ShowInv, ShowParts, GuideInv
  <2>2. CASE c # b
    BY <1>2, <1>5, <2>1, <2>2 DEF Begun, Unled, Reported
  <2>3. CASE c = b
    <3>1. (\A d \in Browsers : ~Awaits(b, d)') /\ ~page'[b].following
      BY <1>2, <1>3, <2>1, <2>3 DEF Covered, Unled, Awaits
    <3> QED
      BY <1>2, <2>3, <3>1 DEF Begun, Unled
  <2> QED
    BY <2>2, <2>3
<1>8. ASSUME NEW c \in Browsers, c \notin behind'["guide"] \cup behind'["state"]
      PROVE  Led(c)'
  <2>1. Led(c)
    BY <1>2, <1>8 DEF ShowInv, ShowParts
  <2>2. CASE c # b
    BY <1>2, <1>5, <2>1, <2>2 DEF Led, Reported, Shows
  <2>3. CASE c = b
    BY <1>2, <2>3 DEF Led
  <2> QED
    BY <2>2, <2>3
<1> QED
  BY <1>4, <1>6, <1>7, <1>8 DEF ShowParts

LEMMA DropShows ==
  ASSUME ShowInv, NEW b \in Browsers, Drop(b)
  PROVE  ShowParts'
<1>1. TypeOK
  BY DEF ShowInv, GuideInv
<1>2. /\ guideName' = guideName /\ guideState' = guideState /\ stateBy' = stateBy
      /\ page' = page /\ strayed' = strayed /\ down' = down
      /\ \A c \in Browsers : c # b => pc'[c] = pc[c]
      /\ behind'["guide"] = behind["guide"] \cup {b} /\ behind'["state"] = behind["state"] \cup {b}
  BY <1>1, DropOut DEF Kinds
<1>3. \A d \in Browsers :
        /\ out'[d] # Nothing => /\ out[d] # Nothing /\ out'[d].kind = out[d].kind
                                /\ out'[d].msg = out[d].msg
        /\ \A c \in Browsers : c # b => (c \in out'[d].to <=> c \in out[d].to)
  BY <1>1, DropOut
<1>4. Nothing.kind = "none" /\ Nothing.to = {}
  BY DEF Nothing
<1>5. OwnWords' /\ (stateBy # None => guideState \in Files)'
  BY <1>2, <1>3 DEF ShowInv, ShowParts, OwnWords
<1>6. \A c, d \in Browsers :
        c # b => /\ Awaits(c, d)' <=> Awaits(c, d)
                 /\ AwaitsState(c, d)' <=> AwaitsState(c, d)
                 /\ AwaitsState(c, d)' => out'[d].msg = out[d].msg
  BY <1>3, <1>4 DEF Awaits, AwaitsState
<1>7. \A d \in Browsers : out'[d].kind = "state" => out[d].kind = "state"
  BY <1>3, <1>4
<1>8. ASSUME NEW c \in Browsers, c \notin behind'["state"] PROVE Latest(c)'
  <2>1. Latest(c) /\ c # b
    BY <1>2, <1>8 DEF ShowInv, ShowParts
  <2> QED
    BY <1>2, <1>6, <1>7, <2>1 DEF Latest
<1>9. ASSUME NEW c \in Browsers, c \notin behind'["guide"] PROVE Begun(c)' /\ Unled(c)'
  <2>1. Begun(c) /\ Unled(c) /\ c # b
    BY <1>2, <1>9 DEF ShowInv, ShowParts
  <2> QED
    BY <1>2, <1>6, <2>1 DEF Begun, Unled, Reported
<1>10. ASSUME NEW c \in Browsers, c \notin behind'["guide"] \cup behind'["state"]
       PROVE  Led(c)'
  <2>1. Led(c) /\ c # b
    BY <1>2, <1>10 DEF ShowInv, ShowParts
  <2> QED
    BY <1>2, <1>6, <2>1 DEF Led, Reported, Shows
<1> QED
  BY <1>5, <1>8, <1>9, <1>10 DEF ShowParts

LEMMA BroadcastOut ==
  ASSUME TypeOK, NEW b \in Browsers, NEW k \in {"guide", "state"}, NEW m \in Msgs,
         Broadcast(b, k, m)
  PROVE  /\ out'[b] # Nothing /\ out'[b].kind = k /\ out'[b].msg = m /\ out'[b].to = In
         /\ \A d \in Browsers : d # b => out'[d] = out[d]
         /\ behind'[k] = Overtaken(b, k)
         /\ \A j \in {"guide", "state", "follow"} : j # k => behind'[j] = behind[j]
         /\ behind'["count"] = IF k = "guide" THEN behind["count"] \ {b} ELSE behind["count"]
         /\ \A c \in Browsers : c \notin behind'[k] =>
              /\ c \in In
              /\ \A d \in Browsers : d # b => ~(out[d].kind = k /\ c \in out[d].to)
<1> DEFINE o == [kind |-> k, msg |-> m, begun |-> FALSE, to |-> In]
<1>1. out' = [out EXCEPT ![b] = o]
  BY DEF Broadcast
<1>2. o.kind = k /\ o.msg = m /\ o.to = In /\ o.kind # Nothing.kind
  BY DEF Nothing
<1> HIDE DEF o
<1>3. out'[b] = o /\ \A d \in Browsers : d # b => out'[d] = out[d]
  BY <1>1 DEF TypeOK
<1>4. /\ behind'[k] = Overtaken(b, k)
      /\ \A j \in {"guide", "state", "follow"} : j # k => behind'[j] = behind[j]
      /\ behind'["count"] = IF k = "guide" THEN behind["count"] \ {b} ELSE behind["count"]
  BY DEF Broadcast, TypeOK, Kinds
<1>5. ASSUME NEW c \in Browsers, c \notin behind'[k]
      PROVE  /\ c \in In
             /\ \A d \in Browsers : d # b => ~(out[d].kind = k /\ c \in out[d].to)
  BY <1>4, <1>5 DEF Overtaken, Awaiting
<1> QED
  BY <1>2, <1>3, <1>4, <1>5

(* A host starts or stops guiding: it has reported nothing yet.            *)
LEMMA AnnounceShows ==
  ASSUME ShowInv, NEW b \in Browsers, out[b] = Nothing, NEW m \in Msgs, m.type \in Guides,
         m.who \in {b, None}, Broadcast(b, "guide", m), stateBy' = None, pc' = pc
  PROVE  ShowParts'
<1>1. TypeOK
  BY DEF ShowInv, GuideInv
<1>2. /\ out'[b].kind = "guide" /\ out'[b].msg = m /\ out'[b].to = In
      /\ \A d \in Browsers : d # b => out'[d] = out[d]
      /\ behind'["state"] = behind["state"]
      /\ \A c \in Browsers : c \notin behind'["guide"] => c \in In
  BY <1>1, BroadcastOut
<1>3. m \notin States /\ m.type \notin Status
  BY DEF States, Status, Guides
<1>4. OwnWords'
  BY <1>2, <1>3 DEF ShowInv, ShowParts, OwnWords
<1>5. ASSUME NEW c \in Browsers, c \notin behind'["state"] PROVE Latest(c)'
  <2>1. Latest(c)
    BY <1>2, <1>5 DEF ShowInv, ShowParts
  <2> QED
    BY <1>2, <2>1 DEF Latest
<1>6. ASSUME NEW c \in Browsers PROVE Begun(c)' /\ Led(c)'
  BY DEF Begun, Led, Reported
<1>7. ASSUME NEW c \in Browsers, c \notin behind'["guide"] PROVE Unled(c)'
  <2>1. pc'[c] # "off" /\ Awaits(c, b)'
    BY <1>2, <1>7 DEF In, Awaits
  <2> QED
    BY <2>1 DEF Unled
<1> QED
  BY <1>4, <1>5, <1>6, <1>7 DEF ShowParts

(* A host reports its place, whoever guides: it is about to be written to  *)
(* all who are connected.                                                  *)
LEMMA ReportShows ==
  ASSUME ShowInv, NEW b \in Browsers, pc[b] = "serving", out[b] = Nothing,
         NEW f \in Files, b \in hosts, GuideState(b, f), UNCHANGED <<pc, down, strayed>>,
         \A c \in Browsers : /\ page'[c].following = page[c].following
                             /\ page'[c].guideName = page[c].guideName
  PROVE  ShowParts'
<1> DEFINE m == Msg("guide_state", None, f)
<1>1. TypeOK
  BY DEF ShowInv, GuideInv
<1>2. m \in Msgs /\ m \in States /\ m.type \notin Guides \cup Status /\ m.file = f
  BY MsgsTyped DEF Msg, States, Guides, Status
<1>3. /\ guideState' = f /\ stateBy' = b /\ guideName' = guideName
      /\ Broadcast(b, "state", m)
  BY DEF GuideState
<1> HIDE DEF m
<1>4. /\ out'[b].kind = "state" /\ out'[b].msg = m /\ out'[b].to = In
      /\ \A d \in Browsers : d # b => out'[d] = out[d]
      /\ behind'["guide"] = behind["guide"]
      /\ \A c \in Browsers : c \notin behind'["state"] =>
            /\ c \in In
            /\ \A d \in Browsers : d # b => ~(out[d].kind = "state" /\ c \in out[d].to)
  BY <1>1, <1>2, <1>3, BroadcastOut
<1>5. OwnWords'
  BY <1>2, <1>4 DEF ShowInv, ShowParts, OwnWords
<1>6. ASSUME NEW c \in Browsers, c \notin behind'["state"]
      PROVE  Latest(c)' /\ AwaitsState(c, b)'
  <2>1. c \in In /\ pc'[c] # "off"
    BY <1>4, <1>6 DEF In
  <2>2. \A d \in Browsers : AwaitsState(c, d)' => d = b
    BY <1>4, <1>6 DEF AwaitsState
  <2>3. AwaitsState(c, b)'
    BY <1>4, <2>1 DEF AwaitsState
  <2> QED
    BY <1>2, <1>3, <1>4, <2>1, <2>2, <2>3 DEF Latest
<1>7. \A c, d \in Browsers : Awaits(c, d)' <=> Awaits(c, d)
  BY <1>4 DEF Awaits, Nothing
<1>8. ASSUME NEW c \in Browsers, c \notin behind'["guide"] PROVE Begun(c)' /\ Unled(c)'
  <2>1. Unled(c) /\ Covered(c)
    BY <1>4, <1>8 DEF ShowInv, ShowParts, GuideInv
  <2>2. ASSUME pc[c] # "off", guideName = b, NEW d \in Browsers, Awaits(c, d) PROVE FALSE
    <3>1. out[d].msg.who = b /\ out[d] # Nothing /\ out[d].kind = "guide"
      BY <2>1, <2>2 DEF Covered, Awaits, Nothing
    <3>2. out[d].msg.who \in {d, None}
      BY <3>1 DEF ShowInv, ShowParts, OwnWords
    <3>3. b # None
      BY GuideAssumption DEF GuideAssumption
    <3> QED
      BY <3>1, <3>2, <3>3
  <2>3. Begun(c)'
    BY <1>3, <1>7, <2>2 DEF Begun, Reported
  <2>4. Unled(c)'
    BY <1>3, <1>7, <2>1 DEF Unled
  <2> QED
    BY <2>3, <2>4
<1>9. ASSUME NEW c \in Browsers, c \notin behind'["guide"] \cup behind'["state"]
      PROVE  Led(c)'
  BY <1>6, <1>9 DEF Led
<1> QED
  BY <1>3, <1>5, <1>6, <1>8, <1>9 DEF ShowParts

-----------------------------------------------------------------------------
(* Steps of pages.                                                         *)

LEMMA OwnStepShows ==
  ASSUME ShowInv, NEW b \in Browsers, UNCHANGED <<guideName, guideState, stateBy, pc>>,
         behind["guide"] \subseteq behind'["guide"], behind["state"] \subseteq behind'["state"],
         \A c \in Browsers : c # b => /\ page'[c] = page[c] /\ out'[c] = out[c]
                                      /\ down'[c] = down[c]
                                      /\ c \in strayed' <=> c \in strayed,
         \/ out'[b] = out[b]
         \/ /\ out[b] = Nothing /\ out'[b].kind = "follow"
            /\ out'[b].msg.type \in Status /\ out'[b].msg.who = b,
         b \notin behind'["guide"] => Unled(b)',
         b \notin behind'["guide"] \cup behind'["state"] => Led(b)'
  PROVE  ShowParts'
<1>1. Nothing.kind = "none" /\ Nothing.to = {}
  BY DEF Nothing
<1>2. \A c, d \in Browsers : /\ Awaits(c, d)' <=> Awaits(c, d)
                             /\ AwaitsState(c, d)' <=> AwaitsState(c, d)
                             /\ AwaitsState(c, d)' => out'[d].msg = out[d].msg
  BY <1>1 DEF Awaits, AwaitsState
<1>3. \A d \in Browsers : out'[d].kind = "state" => out[d].kind = "state"
  BY <1>1
<1>4. OwnWords'
  <2>1. out'[b].msg.type \in Status => out'[b].msg \notin States
    BY DEF Status, States
  <2> QED
    BY <2>1 DEF ShowInv, ShowParts, OwnWords
<1>5. (stateBy # None => guideState \in Files)'
  BY DEF ShowInv, ShowParts
<1>6. ASSUME NEW c \in Browsers, c \notin behind'["state"] PROVE Latest(c)'
  <2>1. Latest(c)
    BY <1>6 DEF ShowInv, ShowParts
  <2> QED
    BY <1>2, <1>3, <2>1 DEF Latest
<1>7. ASSUME NEW c \in Browsers, c \notin behind'["guide"] PROVE Begun(c)' /\ Unled(c)'
  <2>1. Begun(c) /\ Unled(c)
    BY <1>7 DEF ShowInv, ShowParts
  <2>2. Begun(c)'
    BY <1>2, <2>1 DEF Begun, Reported
  <2>3. c # b => Unled(c)'
    BY <1>2, <2>1 DEF Unled
  <2> QED
    BY <1>7, <2>2, <2>3
<1>8. ASSUME NEW c \in Browsers, c \notin behind'["guide"] \cup behind'["state"]
      PROVE  Led(c)'
  <2>1. Led(c)
    BY <1>8 DEF ShowInv, ShowParts
  <2>2. c # b => Led(c)'
    BY <1>2, <2>1 DEF Led, Reported, Shows
  <2> QED
    BY <1>8, <2>2
<1> QED
  BY <1>4, <1>5, <1>6, <1>7, <1>8 DEF ShowParts

(* A step of b's page that takes no message.                               *)
LEMMA ViewShows ==
  ASSUME ShowInv, NEW b \in Browsers, UNCHANGED <<guideName, guideState, stateBy, pc, down>>,
         behind["guide"] \subseteq behind'["guide"], behind["state"] \subseteq behind'["state"],
         \A c \in Browsers : c # b => /\ page'[c] = page[c] /\ out'[c] = out[c]
                                      /\ c \in strayed' <=> c \in strayed,
         \/ out'[b] = out[b]
         \/ /\ out[b] = Nothing /\ out'[b].kind = "follow"
            /\ out'[b].msg.type \in Status /\ out'[b].msg.who = b,
         \/ b \in behind'["guide"]
         \/ pc[b] = "off" /\ page'[b].following = page[b].following
         \/ /\ page'[b].guideName = page[b].guideName
            /\ page'[b].following => page[b].following \/ page[b].guideName # None
            /\ guideState \in Files /\ Shows(b) => Shows(b)'
  PROVE  ShowParts'
<1>1. \A d \in Browsers : /\ Awaits(b, d)' <=> Awaits(b, d)
                          /\ AwaitsState(b, d)' <=> AwaitsState(b, d)
  BY DEF Awaits, AwaitsState, Nothing
<1>2. ASSUME b \notin behind'["guide"] PROVE Unled(b)'
  <2>1. Unled(b) /\ Covered(b)
    BY <1>2 DEF ShowInv, ShowParts, GuideInv
  <2>2. CASE pc[b] = "off"
    BY <1>2, <2>1, <2>2 DEF Unled, Covered
  <2>3. CASE pc[b] # "off"
    BY <1>1, <1>2, <2>1, <2>3 DEF Unled
  <2> QED
    BY <2>2, <2>3
<1>3. ASSUME b \notin behind'["guide"] \cup behind'["state"] PROVE Led(b)'
  <2>1. Led(b)
    BY <1>3 DEF ShowInv, ShowParts
  <2>2. Reported => guideState \in Files
    BY DEF Reported, ShowInv, ShowParts
  <2> QED
    BY <1>1, <1>3, <2>1, <2>2 DEF Led, Reported
<1> QED
  BY <1>2, <1>3, OwnStepShows

(* A step of a page that takes no message: the page follows no one new,    *)
(* and if it follows without waiting for a file, it is where the guide     *)
(* last was, or where it was before.                                       *)
MovesOn(b) ==
    /\ page'[b].guideName = page[b].guideName
    /\ page'[b].following => page[b].following \/ page[b].guideName # None
    /\ page'[b].lastState = page[b].lastState
    /\ page'[b].lastState \in Files /\ Follows(page'[b], b) /\ page'[b].asked = {}
       => \/ b \in strayed'
          \/ page'[b].view = page[b].lastState
          \/ /\ Follows(page[b], b) /\ page[b].asked = {} /\ (b \in strayed => b \in strayed')
             /\ page'[b].view = page[b].view

LEMMA QuietShows ==
  ASSUME ShowInv, NEW b \in Browsers,
         \/ ToggleFollow(b) \/ MoveCursor(b)
         \/ \E f \in Files : OpenFile(b, f) \/ ClickTab(b, f) \/ FileArrives(b, f)
  PROVE  ShowParts'
<1>1. TypeOK /\ page[b] \in Page /\ strayed \subseteq Browsers
  BY DEF ShowInv, GuideInv, TypeOK
<1>2. UNCHANGED <<pc, down>>
  BY DEF ToggleFollow, MoveCursor, OpenFile, ClickTab, FileArrives
<1>3. \E pg, led : Become(b, pg) \/ Show(b, pg, led)
  BY DEF ToggleFollow, MoveCursor, OpenFile, ClickTab, FileArrives
<1>4. \A c \in Browsers : c # b => page'[c] = page[c] /\ (c \in strayed' <=> c \in strayed)
  <2>1. \A c \in Browsers : c # b => page'[c] = page[c]
    BY <1>1, <1>3, OthersPages
  <2>2. \A c \in Browsers : c # b => (c \in strayed' <=> c \in strayed)
    BY <1>3 DEF Become, Show
  <2> QED
    BY <2>1, <2>2
<1>5. PICK on \in BOOLEAN : SendNothing \/ Send(b, FollowStatus(b, on))
  <2>1. [page[b] EXCEPT !.following = ~@].following \in BOOLEAN
    BY <1>1 DEF Page
  <2> QED
    BY <2>1 DEF ToggleFollow, MoveCursor, OpenFile, ClickTab, FileArrives
<1>6. /\ UNCHANGED <<guideName, guideState, stateBy>>
      /\ behind'["guide"] = behind["guide"] /\ behind'["state"] = behind["state"]
      /\ \A c \in Browsers : c # b => out'[c] = out[c]
      /\ \/ out'[b] = out[b]
         \/ /\ out[b] = Nothing /\ out'[b].kind = "follow"
            /\ out'[b].msg.type \in Status /\ out'[b].msg.who = b
  BY <1>1, <1>5, StatusSent DEF Kinds, Status
<1>7. MovesOn(b)
  <2>1. CASE ToggleFollow(b)
    <3> DEFINE pg == [page[b] EXCEPT !.following = ~@]
    <3>1. /\ pg \in Page /\ pg.guideName = page[b].guideName
          /\ pg.lastState = page[b].lastState /\ pg.view = page[b].view
          /\ pg.following = ~page[b].following /\ pg.asked = page[b].asked
      BY <1>1 DEF Page
    <3>2. /\ page[b].guideName # None
          /\ IF pg.following /\ pg.lastState # None
             THEN page'[b] = ApplyGuideState(pg, pg.lastState) ELSE page'[b] = pg
      BY <1>1, <2>1, OwnPage DEF ToggleFollow
    <3> HIDE DEF pg
    <3>3. None \notin Files
      BY GuideAssumption DEF GuideAssumption
    <3>4. CASE page'[b] = pg /\ ~(pg.following /\ pg.lastState # None)
      BY <3>1, <3>2, <3>3, <3>4 DEF MovesOn, Follows
    <3>5. CASE page'[b] = ApplyGuideState(pg, pg.lastState)
      <4> DEFINE f == pg.lastState
                 asking == [pg EXCEPT !.pending = f, !.asked = @ \cup {f}]
                 showing == [pg EXCEPT !.view = f]
      <4>1. /\ asking.guideName = pg.guideName /\ asking.lastState = pg.lastState
            /\ asking.following = pg.following /\ f \in asking.asked
            /\ showing.guideName = pg.guideName /\ showing.lastState = pg.lastState
            /\ showing.following = pg.following /\ showing.view = f
        BY <3>1 DEF Page
      <4>2. page'[b] = asking \/ page'[b] = showing
        BY <3>5 DEF ApplyGuideState
      <4> HIDE DEF asking, showing
      <4> QED
        BY <3>1, <3>2, <4>1, <4>2 DEF MovesOn
    <3> QED
      BY <3>2, <3>4, <3>5
  <2>2. CASE MoveCursor(b)
    <3>1. strayed' = strayed /\ \/ page'[b] = [page[b] EXCEPT !.frame = TRUE]
                                \/ page'[b] = [page[b] EXCEPT !.following = FALSE]
      BY <1>1, <2>2, OwnPage DEF MoveCursor, Become
    <3> QED
      BY <1>1, <3>1 DEF MovesOn, Page, Follows
  <2>3. ASSUME NEW f \in Files, OpenFile(b, f) \/ ClickTab(b, f)
        PROVE  MovesOn(b)
    <3>1. \/ b \in strayed' /\ page'[b] = [page[b] EXCEPT !.view = f]
          \/ b \in strayed' /\ page'[b] = [page[b] EXCEPT !.view = f, !.frame = TRUE]
          \/ page'[b] = [page[b] EXCEPT !.asked = @ \cup {f}]
      BY <1>1, <2>3, OwnPage DEF OpenFile, ClickTab, Show
    <3> QED
      BY <1>1, <3>1 DEF MovesOn, Page, Follows
  <2>4. ASSUME NEW f \in Files, FileArrives(b, f)
        PROVE  MovesOn(b)
    <3>1. page'[b] = OnFileContent(page[b], f) /\ (b \in strayed' \/ page[b].lastState = f)
      BY <1>1, <2>4, OwnPage DEF FileArrives, Show
    <3> QED
      BY <1>1, <3>1 DEF MovesOn, Page, OnFileContent
  <2> QED
    BY <2>1, <2>2, <2>3, <2>4
<1>8. guideState \in Files /\ Shows(b) => Shows(b)'
  BY <1>6, <1>7 DEF MovesOn, Shows
<1> QED
  BY <1>2, <1>4, <1>6, <1>7, <1>8, ViewShows DEF MovesOn

LEMMA FrameShows ==
  ASSUME ShowInv, NEW b \in Browsers, Frame(b)
  PROVE  ShowParts'
<1>1. TypeOK /\ page[b] \in Page
  BY DEF ShowInv, GuideInv, TypeOK
<1>2. /\ UNCHANGED <<pc, down>> /\ UNCHANGED strayed
      /\ \A c \in Browsers : c # b => page'[c] = page[c]
      /\ page'[b] = [page[b] EXCEPT !.frame = FALSE]
  BY <1>1, OwnPage, OthersPages DEF Frame, Become
<1>3. /\ page'[b].following = page[b].following /\ page'[b].guideName = page[b].guideName
      /\ page'[b].lastState = page[b].lastState /\ page'[b].asked = page[b].asked
      /\ page'[b].view = page[b].view
  BY <1>1, <1>2 DEF Page
<1>4. CASE UNCHANGED <<guideName, guideState, stateBy, out, behind>>
  <2>1. Shows(b) => Shows(b)'
    BY <1>2, <1>3, <1>4 DEF Shows, Follows
  <2> QED
    BY <1>2, <1>3, <1>4, <2>1, ViewShows
<1>5. CASE pc[b] = "serving" /\ out[b] = Nothing /\ GuideState(b, page[b].view)
           /\ page[b].view # None /\ b \in hosts
  <2>1. page[b].view \in Files
    BY <1>1, <1>5 DEF Page
  <2>2. \A c \in Browsers : /\ page'[c].following = page[c].following
                            /\ page'[c].guideName = page[c].guideName
    BY <1>2, <1>3
  <2> QED
    BY <1>2, <1>5, <2>1, <2>2, ReportShows
<1> QED
  BY <1>4, <1>5 DEF Frame, Send, SendNothing, GuideState

LEMMA ToggleShows ==
  ASSUME ShowInv, NEW b \in Browsers, ToggleGuide(b)
  PROVE  ShowParts'
<1>1. TypeOK /\ page[b] \in Page
  BY DEF ShowInv, GuideInv, TypeOK
<1>2. /\ pc' = pc /\ down' = down /\ strayed' = strayed
      /\ \A c \in Browsers : c # b => page'[c] = page[c]
  BY <1>1, OthersPages DEF ToggleGuide, Become
<1>3. IF page[b].guideActive
      THEN /\ page'[b] = [page[b] EXCEPT !.guideActive = FALSE, !.guideName = None,
                                         !.lastState = None]
           /\ Send(b, GuideStop(b))
      ELSE /\ page'[b] = [page[b] EXCEPT !.guideActive = TRUE, !.frame = TRUE]
           /\ Send(b, GuideStart(b))
  BY <1>1, OwnPage DEF ToggleGuide
<1>4. CASE b \notin In /\ UNCHANGED <<guideName, guideState, stateBy, out, behind>>
  <2>1. pc[b] = "off" /\ page'[b].following = page[b].following
    BY <1>1, <1>3, <1>4 DEF In, Page
  <2> QED
    BY <1>2, <1>4, <2>1, ViewShows
<1>5. CASE b \notin hosts /\ GuideStop(b)
  <2>1. /\ UNCHANGED <<guideName, guideState, stateBy, out>>
        /\ behind["guide"] \subseteq behind'["guide"] /\ behind["state"] \subseteq behind'["state"]
        /\ b \in behind'["guide"]
    BY <1>1, <1>5 DEF GuideStop, TypeOK, Kinds
  <2> QED
    BY <1>2, <2>1, ViewShows
<1>6. CASE b \notin hosts /\ GuideStart(b) /\ ~page[b].guideActive
  <2>1. UNCHANGED <<guideName, guideState, stateBy, out, behind>>
    BY <1>6 DEF GuideStart
  <2>2. /\ page'[b].following = page[b].following /\ page'[b].guideName = page[b].guideName
        /\ page'[b].lastState = page[b].lastState /\ page'[b].asked = page[b].asked
        /\ page'[b].view = page[b].view
    BY <1>1, <1>3, <1>6 DEF Page
  <2>3. Shows(b) => Shows(b)'
    BY <1>2, <2>1, <2>2 DEF Shows, Follows
  <2> QED
    BY <1>2, <2>1, <2>2, <2>3, ViewShows
<1>7. CASE /\ pc[b] = "serving" /\ out[b] = Nothing /\ b \in hosts
           /\ GuideStop(b) \/ GuideStart(b)
  <2>1. PICK m \in Msgs : /\ m.type \in Guides /\ m.who \in {b, None}
                          /\ stateBy' = None /\ Broadcast(b, "guide", m)
    <3>1. CASE GuideStop(b)
      <4>1. Msg("guide_stop", None, None).type \in Guides
            /\ Msg("guide_stop", None, None).who = None
        BY DEF Msg, Guides
      <4> QED
        BY <1>7, <3>1, <4>1, MsgsTyped DEF GuideStop
    <3>2. CASE GuideStart(b)
      <4>1. Msg("guide_start", b, None).type \in Guides /\ Msg("guide_start", b, None).who = b
        BY DEF Msg, Guides
      <4> QED
        BY <1>7, <3>2, <4>1, MsgsTyped DEF GuideStart
    <3> QED
      BY <1>7, <3>1, <3>2
  <2> QED
    BY <1>2, <1>7, <2>1, AnnounceShows
<1> QED
  BY <1>3, <1>4, <1>5, <1>6, <1>7 DEF Send

(* What a message makes of a page.                                         *)
LEMMA DeliverPage ==
  ASSUME TypeOK, NEW b \in Browsers, Deliver(b)
  PROVE  LET m == Head(down[b])
         IN  /\ down[b] # <<>> /\ m \in Msgs /\ pc' = pc
             /\ down'[b] = Tail(down[b])
             /\ \A c \in Browsers : c # b => /\ page'[c] = page[c] /\ down'[c] = down[c]
                                             /\ c \in strayed' <=> c \in strayed
             /\ SendNothing \/ Send(b, FollowStatus(b, TRUE))
             /\ m.type = "guide_start" /\ m.who # b => Send(b, FollowStatus(b, TRUE))
             /\ m.type # "guide_start" => SendNothing
             /\ m.type = "guide_start" => page'[b] = OnGuideStart(page[b], b, m.who)
             /\ m.type = "guide_stop" => page'[b] = OnGuideStop(page[b], b)
             /\ m.type \in Status => page'[b] = OnFollowStatus(page[b], m.who, m.type = "follow")
             /\ m.type = "guide_state" => page'[b] = OnGuideState(page[b], b, m.file)
             /\ m.type # "guide_state" => strayed' = strayed
             /\ m.type \in Guides \/ m.type \in Status \/ m.type = "guide_state"
<1> DEFINE m == Head(down[b])
<1>1. /\ down[b] # <<>> /\ m \in Msgs /\ pc' = pc /\ down'[b] = Tail(down[b])
      /\ \A c \in Browsers : c # b => down'[c] = down[c]
  BY DEF Deliver, TypeOK
<1>2. \/ /\ m.type = "guide_start" /\ Become(b, OnGuideStart(page[b], b, m.who))
         /\ IF m.who # b THEN Send(b, FollowStatus(b, TRUE)) ELSE SendNothing
      \/ m.type = "guide_stop" /\ Become(b, OnGuideStop(page[b], b)) /\ SendNothing
      \/ /\ m.type \in Status
         /\ Become(b, OnFollowStatus(page[b], m.who, m.type = "follow")) /\ SendNothing
      \/ /\ m.type = "guide_state" /\ SendNothing
         /\ Show(b, OnGuideState(page[b], b, m.file), Follows(page[b], b) \/ b \notin strayed)
  BY DEF Deliver, Status
<1> HIDE DEF m
<1>3. \A c \in Browsers : c # b => page'[c] = page[c]
  BY <1>2, OthersPages
<1>4. /\ m.type # "guide_state" => strayed' = strayed
      /\ \A c \in Browsers : c # b => (c \in strayed' <=> c \in strayed)
  BY <1>2 DEF Become, Show
<1>5. /\ m.type = "guide_start" => page'[b] = OnGuideStart(page[b], b, m.who)
      /\ m.type = "guide_stop" => page'[b] = OnGuideStop(page[b], b)
      /\ m.type \in Status => page'[b] = OnFollowStatus(page[b], m.who, m.type = "follow")
      /\ m.type = "guide_state" => page'[b] = OnGuideState(page[b], b, m.file)
  BY <1>2, OwnPage DEF Status
<1>6. /\ SendNothing \/ Send(b, FollowStatus(b, TRUE))
      /\ m.type = "guide_start" /\ m.who # b => Send(b, FollowStatus(b, TRUE))
      /\ m.type # "guide_start" => SendNothing
      /\ m.type \in Guides \/ m.type \in Status \/ m.type = "guide_state"
  <2>1. CASE m.type = "guide_start"
    BY <1>2, <2>1 DEF Guides, Status
  <2>2. CASE m.type # "guide_start"
    BY <1>2, <2>2 DEF Guides
  <2> QED
    BY <2>1, <2>2
<1> QED
  BY <1>1, <1>3, <1>4, <1>5, <1>6 DEF m

LEMMA DeliverShows ==
  ASSUME ShowInv, NEW b \in Browsers, Deliver(b)
  PROVE  ShowParts'
<1> DEFINE m == Head(down[b])
<1>1. TypeOK /\ page[b] \in Page /\ down[b] \in Seq(Msgs) /\ None \notin Browsers
  BY GuideAssumption DEF GuideAssumption, ShowInv, GuideInv, TypeOK
<1>2. /\ down[b] # <<>> /\ m \in Msgs /\ pc' = pc /\ down'[b] = Tail(down[b])
      /\ \A c \in Browsers : c # b => /\ page'[c] = page[c] /\ down'[c] = down[c]
                                      /\ c \in strayed' <=> c \in strayed
      /\ SendNothing \/ Send(b, FollowStatus(b, TRUE))
      /\ m.type = "guide_start" => page'[b] = OnGuideStart(page[b], b, m.who)
      /\ m.type = "guide_stop" => page'[b] = OnGuideStop(page[b], b)
      /\ m.type \in Status => page'[b] = OnFollowStatus(page[b], m.who, m.type = "follow")
      /\ m.type = "guide_state" => page'[b] = OnGuideState(page[b], b, m.file)
      /\ m.type # "guide_state" => strayed' = strayed
      /\ m.type \in Guides \/ m.type \in Status \/ m.type = "guide_state"
  BY <1>1, DeliverPage
<1>3. /\ guideName' = guideName /\ guideState' = guideState /\ stateBy' = stateBy
      /\ behind'["guide"] = behind["guide"] /\ behind'["state"] = behind["state"]
      /\ \A c \in Browsers : c # b => out'[c] = out[c]
      /\ \/ out'[b] = out[b]
         \/ /\ out[b] = Nothing /\ out'[b].kind = "follow"
            /\ out'[b].msg.type \in Status /\ out'[b].msg.who = b
  BY <1>1, <1>2, StatusSent DEF Kinds, Status
<1>4. \A d \in Browsers : /\ Awaits(b, d)' <=> Awaits(b, d)
                          /\ AwaitsState(b, d)' <=> AwaitsState(b, d)
  BY <1>3 DEF Awaits, AwaitsState, Nothing
<1>5. m.type \in Guides => ~page'[b].following \/ page'[b].guideName # None
  <2>1. CASE m.type = "guide_start"
    <3>1. page'[b].guideName = m.who /\ m.who \in Browsers
      BY <1>1, <1>2, <2>1, MsgFields DEF OnGuideStart, Page
    <3> QED
      BY <1>1, <3>1
  <2>2. CASE m.type = "guide_stop"
    <3>1. page'[b] = OnGuideStop(page[b], b) /\ page[b] \in Page
      BY <1>1, <1>2, <2>2
    <3>2. CASE page[b].guideName = b
      BY <1>1, <3>1, <3>2 DEF OnGuideStop
    <3>3. CASE page[b].guideName # b
      BY <3>1, <3>3 DEF OnGuideStop, Page
    <3> QED
      BY <3>2, <3>3
  <2> QED
    BY <2>1, <2>2 DEF Guides
<1>6. m.type \in Status => /\ page'[b].following = page[b].following
                           /\ page'[b].guideName = page[b].guideName
                           /\ page'[b].lastState = page[b].lastState
                           /\ page'[b].asked = page[b].asked /\ page'[b].view = page[b].view
  BY <1>1, <1>2 DEF OnFollowStatus, Page
<1>7. ASSUME m.type = "guide_state"
      PROVE  /\ page'[b].following = page[b].following /\ page'[b].guideName = page[b].guideName
             /\ page'[b].lastState = m.file
             /\ Follows(page[b], b) => m.file \in page'[b].asked \/ page'[b].view = m.file
  <2> DEFINE pg == [page[b] EXCEPT !.lastState = m.file]
  <2>1. /\ pg \in Page /\ pg.following = page[b].following
        /\ pg.guideName = page[b].guideName /\ pg.lastState = m.file
    BY <1>1, <1>2, <1>7, MsgFields DEF Page
  <2>2. page'[b] = IF Follows(page[b], b) THEN ApplyGuideState(pg, m.file) ELSE pg
    BY <1>2, <1>7 DEF OnGuideState
  <2> HIDE DEF pg
  <2> QED
    BY <2>1, <2>2 DEF ApplyGuideState, Page
<1> HIDE DEF m
<1>8. ASSUME b \notin behind'["guide"] PROVE Unled(b)'
  <2>1. Unled(b) /\ Covered(b)
    BY <1>3, <1>8 DEF ShowInv, ShowParts, GuideInv
  <2>2. /\ NoGuides(down'[b]) /\ m.type \notin Guides => NoGuides(down[b])
        /\ NoGuides(down[b]) => m.type \notin Guides
    BY <1>1, <1>2, TakeGuide DEF m
  <2>3. m.type \notin Guides => /\ page'[b].following = page[b].following
                                /\ page'[b].guideName = page[b].guideName
    BY <1>2, <1>6, <1>7
  <2>4. CASE pc[b] = "off"
    BY <1>2, <2>1, <2>2, <2>3, <2>4 DEF Unled, Covered
  <2>5. CASE pc[b] # "off"
    BY <1>2, <1>3, <1>4, <1>5, <2>1, <2>2, <2>3, <2>5 DEF Unled
  <2> QED
    BY <2>4, <2>5
<1>9. ASSUME b \notin behind'["guide"] \cup behind'["state"],
             pc'[b] = "serving", Reported', b # guideName',
             \A d \in Browsers : ~AwaitsState(b, d)'
      PROVE  /\ LastOf(down'[b], States, StatesOf(guideState'))
             /\ Lacks(down'[b], States) => Shows(b)'
  <2>1. Led(b) /\ Reported
    BY <1>3, <1>9 DEF ShowInv, ShowParts, Reported
  <2>2. LastOf(down[b], States, StatesOf(guideState)) /\ (Lacks(down[b], States) => Shows(b))
    BY <1>2, <1>3, <1>4, <1>9, <2>1 DEF Led
  <2>3. LastOf(down'[b], States, StatesOf(guideState'))
    BY <1>1, <1>2, <1>3, <2>2, TakeLast
  <2>4. ASSUME Lacks(down'[b], States) PROVE Shows(b)'
    <3>1. /\ m.type \notin Guides
          /\ m \in States => m \in StatesOf(guideState)
          /\ m \notin States => Lacks(down[b], States)
      BY <1>1, <1>2, <2>2, <2>4, TakeLast DEF m
    <3>2. CASE m.type \in Status
      <4>1. m \notin States
        BY <3>2 DEF States, Status
      <4> QED
        BY <1>2, <1>3, <1>6, <2>2, <3>1, <3>2, <4>1 DEF Shows, Follows, States, Status
    <3>3. CASE m.type = "guide_state"
      <4>1. m.file = guideState
        BY <1>2, <3>1, <3>3, StateMsg
      <4> QED
        BY <1>3, <1>7, <3>3, <4>1 DEF Shows, Follows
    <3> QED
      BY <1>2, <3>1, <3>2, <3>3
  <2> QED
    BY <2>3, <2>4
<1>10. b \notin behind'["guide"] \cup behind'["state"] => Led(b)'
  BY <1>9 DEF Led
<1> QED
  BY <1>2, <1>3, <1>8, <1>10, OwnStepShows

LEMMA EvictShows ==
  ASSUME ShowInv, Evict
  PROVE  ShowParts'
<1>1. /\ stateBy' = None /\ out' = out
      /\ behind'["guide"] = Browsers /\ behind'["state"] = Browsers
  BY DEF Evict, Kinds
<1> QED
  BY <1>1 DEF ShowInv, ShowParts, OwnWords

LEMMA ShowNext == ShowInv /\ [Next]_vars => ShowInv'
<1> SUFFICES ASSUME ShowInv, [Next]_vars PROVE ShowParts'
  BY GuideNext DEF ShowInv
<1>1. CASE UNCHANGED vars
  BY <1>1 DEF ShowInv, ShowParts, OwnWords, Latest, Begun, Unled, Led, Shows, Reported,
              Awaits, AwaitsState, vars, relayVars, histVars
<1>2. ASSUME NEW b \in Browsers, UserStep(b) \/ PageStep(b)
      PROVE  ShowParts'
  BY <1>2, ToggleShows, QuietShows, FrameShows, ConnectShows, DropShows, DeliverShows
     DEF UserStep, PageStep
<1>3. ASSUME NEW b \in Browsers, HandlerStep(b)
      PROVE  ShowParts'
  BY <1>3, WriteShows, GreetShows DEF HandlerStep
<1> QED
  BY <1>1, <1>2, <1>3, EvictShows DEF Next

LEMMA ShowShown == ShowInv => FollowersShowState
<1> SUFFICES ASSUME ShowInv, Quiet,
                    NEW b \in In \ (behind["guide"] \cup behind["state"] \cup strayed),
                    Follows(page[b], b), page[b].asked = {},
                    page[b].guideName = stateBy, guideName = stateBy
             PROVE  page[b].view = guideState
  BY DEF FollowersShowState
<1>1. b \in Browsers /\ pc[b] = "serving" /\ down[b] = <<>>
  BY DEF In, Quiet, ShowInv, GuideInv, TypeOK
<1>2. \A d \in Browsers : ~Awaits(b, d) /\ ~AwaitsState(b, d)
  BY DEF Quiet, Awaits, AwaitsState, Nothing
<1>3. Unled(b) /\ Led(b)
  BY <1>1 DEF ShowInv, ShowParts
<1>4. stateBy # None
  BY <1>1, <1>2, <1>3 DEF Unled, NoGuides, Follows
<1>5. Reported /\ b # guideName /\ Lacks(down[b], States)
  BY <1>1, <1>4, EmptyLast DEF Reported, Follows
<1> QED
  BY <1>1, <1>2, <1>3, <1>5 DEF Led, Shows

(* When nothing is on its way, a page that follows and waits for no file   *)
(* shows the place its guide last reported since it began to guide: of the *)
(* greeting, the reports and the files that arrive none leads it elsewhere *)
(* in any interleaving (handleGuideState, applyGuideState, web/app.js).    *)
THEOREM FollowersAlwaysShowState == Spec => []FollowersShowState
<1>1. Init => ShowInv
  BY ShowInit
<1>2. ShowInv /\ [Next]_vars => ShowInv'
  BY ShowNext
<1>3. ShowInv => FollowersShowState
  BY ShowShown
<1> QED
  BY <1>1, <1>2, <1>3, PTL DEF Spec

-----------------------------------------------------------------------------
(* Whom a guide counts.                                                    *)

StatusesOf(b) == {m \in Msgs : m.type \in Status /\ m.who = b}
StatusAs(b, word) == {m \in StatusesOf(b) : m.type = word}
Word(b) == IF page[b].following THEN "follow" ELSE "unfollow"
AwaitsStatus(g, b) == out[b].kind = "follow" /\ g \in out[b].to

(* A guide that missed no status is connected.                             *)
Present == guideName # None /\ guideName \notin behind["count"] => pc[guideName] = "serving"

(* If nothing more is to tell b's page of its guide g, then what is to     *)
(* tell g of b, last of all, is how b follows; or g has it already.        *)
Counted(g, b) ==
    pc[b] = "serving" /\ (\A d \in Browsers : ~Awaits(b, d)) /\ NoGuides(down[b])
    => /\ \A d \in Browsers : ~Awaits(g, d)
       /\ AwaitsStatus(g, b) => out[b].msg.type = Word(b)
       /\ ~AwaitsStatus(g, b)
          => /\ LastOf(down[g], StatusesOf(b), StatusAs(b, Word(b)))
             /\ Lacks(down[g], StatusesOf(b)) => (b \in page[g].followers <=> Word(b) = "follow")

Counts(g, b) ==
    /\ g = guideName /\ g # b /\ g \notin behind["guide"] \cup behind["count"]
    /\ b \notin behind["guide"] \cup behind["follow"]

CountParts == Present /\ \A g, b \in Browsers : Counts(g, b) => Counted(g, b)

(* The inductive strengthening of FollowersCounted.                        *)
CountInv == ShowInv /\ CountParts

LEMMA CountTypes ==
  ASSUME CountInv
  PROVE  /\ TypeOK /\ RelayTyped /\ GuideInv /\ OwnWords
         /\ down \in [Browsers -> Seq(Msgs)] /\ page \in [Browsers -> Page]
         /\ None \notin Browsers
BY TypeParts, GuideAssumption
   DEF GuideAssumption, CountInv, ShowInv, ShowParts, GuideInv, PagesTyped

LEMMA CountInit == Init => CountInv
<1> SUFFICES ASSUME Init PROVE CountInv
  OBVIOUS
<1>1. ShowInv
  BY ShowInit
<1>2. PICK in \in SUBSET Browsers : \E g \in in \cup {None} : \E file \in Opened \cup {None} :
        Starts(in, g, file)
  BY InitStarts
<1>3. PICK file \in Opened \cup {None} :
        Starts(in, guideName, file) /\ guideName \in in \cup {None}
  BY <1>2 DEF Starts
<1>4. \A d \in Browsers : out[d] = Nothing /\ down[d] = <<>>
  BY <1>3 DEF Starts
<1>5. Nothing.kind = "none" /\ Nothing.to = {}
  BY DEF Nothing
<1>6. Present
  BY <1>3 DEF Present, Starts
<1>7. ASSUME NEW g \in Browsers, NEW b \in Browsers, Counts(g, b), pc[b] = "serving"
      PROVE  b \in page[g].followers /\ Word(b) = "follow"
  <2>1. b \in in /\ g \in in /\ g = guideName /\ g # b /\ guideName # None
    BY <1>3, <1>7, GuideAssumption DEF Starts, Counts, GuideAssumption
  <2>2. /\ page[b] = PageUnder(b, guideName, in, file)
        /\ page[g] = PageUnder(g, guideName, in, file)
    BY <1>3, <2>1 DEF Starts
  <2>3. /\ PageUnder(b, guideName, in, file).following = (b # guideName)
        /\ PageUnder(g, guideName, in, file).followers = in \ {guideName}
    BY <2>1 DEF PageUnder, NewPage
  <2> QED
    BY <2>1, <2>2, <2>3 DEF Word
<1>8. ASSUME NEW g \in Browsers, NEW b \in Browsers, Counts(g, b)
      PROVE  Counted(g, b)
  <2>1. ~AwaitsStatus(g, b) /\ \A d \in Browsers : ~Awaits(g, d)
    BY <1>4, <1>5 DEF AwaitsStatus, Awaits
  <2>2. LastOf(down[g], StatusesOf(b), StatusAs(b, Word(b)))
    BY <1>4, EmptyLast
  <2> QED
    BY <1>7, <1>8, <2>1, <2>2 DEF Counted
<1> QED
  BY <1>1, <1>6, <1>8 DEF CountInv, CountParts

(* Nothing that matters to this pair changes.                              *)
LEMMA PairKept ==
  ASSUME NEW g \in Browsers, NEW b \in Browsers, Counted(g, b), pc'[b] = pc[b],
         page'[b].following = page[b].following,
         b \in page'[g].followers <=> b \in page[g].followers,
         down'[b] = down[b], down'[g] = down[g],
         \A d \in Browsers : (Awaits(b, d)' <=> Awaits(b, d)) /\ (Awaits(g, d)' <=> Awaits(g, d)),
         AwaitsStatus(g, b)' <=> AwaitsStatus(g, b),
         AwaitsStatus(g, b)' => out'[b].msg = out[b].msg
  PROVE  Counted(g, b)'
<1>1. Word(b)' = Word(b)
  BY DEF Word
<1>2. StatusesOf(b)' = StatusesOf(b) /\ StatusAs(b, Word(b))' = StatusAs(b, Word(b))
  BY <1>1 DEF StatusesOf, StatusAs
<1> QED
  BY <1>1, <1>2 DEF Counted

LEMMA DropCounts ==
  ASSUME CountInv, NEW c \in Browsers, Drop(c)
  PROVE  CountParts'
<1>1. TypeOK
  BY CountTypes
<1>2. /\ guideName' = guideName /\ page' = page /\ down' = down
      /\ \A x \in Browsers : x # c => pc'[x] = pc[x]
      /\ behind'["guide"] = behind["guide"] \cup {c} /\ behind'["follow"] = behind["follow"] \cup {c}
      /\ behind'["count"] = behind["count"] \cup {c}
  BY <1>1, DropOut DEF Kinds
<1>3. \A d \in Browsers :
        /\ out'[d] # Nothing => /\ out[d] # Nothing /\ out'[d].kind = out[d].kind
                                /\ out'[d].msg = out[d].msg
        /\ \A x \in Browsers : x # c => (x \in out'[d].to <=> x \in out[d].to)
  BY <1>1, DropOut
<1>4. Nothing.kind = "none" /\ Nothing.to = {}
  BY DEF Nothing
<1>5. Present'
  BY <1>1, <1>2 DEF CountInv, CountParts, Present, TypeOK
<1>6. ASSUME NEW g \in Browsers, NEW b \in Browsers, Counts(g, b)' PROVE Counted(g, b)'
  <2>1. g # c /\ b # c /\ Counts(g, b) /\ Counted(g, b)
    BY <1>2, <1>6 DEF Counts, CountInv, CountParts
  <2>2. /\ \A d \in Browsers :
             (Awaits(b, d)' <=> Awaits(b, d)) /\ (Awaits(g, d)' <=> Awaits(g, d))
        /\ AwaitsStatus(g, b)' <=> AwaitsStatus(g, b)
        /\ AwaitsStatus(g, b)' => out'[b].msg = out[b].msg
    BY <1>3, <1>4, <2>1 DEF Awaits, AwaitsStatus
  <2> QED
    BY <1>2, <2>1, <2>2, PairKept
<1> QED
  BY <1>5, <1>6 DEF CountParts

LEMMA ConnectCounts ==
  ASSUME CountInv, NEW c \in Browsers, Connect(c)
  PROVE  CountParts'
<1>1. TypeOK
  BY CountTypes
<1>2. /\ guideName' = guideName /\ page' = page /\ behind' = behind /\ pc[c] = "off"
      /\ \A x \in Browsers : /\ pc'[x] = IF x = c THEN "greet" ELSE pc[x]
                             /\ down'[x] = IF x = c THEN <<>> ELSE down[x]
  BY <1>1, ConnectOut
<1>3. \A d \in Browsers :
        /\ out'[d].kind = out[d].kind /\ out'[d].msg = out[d].msg
        /\ \A x \in Browsers : x # c => (x \in out'[d].to <=> x \in out[d].to)
  BY <1>1, ConnectOut
<1>4. guideName # None /\ guideName \notin behind["count"] => guideName # c
  BY <1>2 DEF CountInv, CountParts, Present
<1>5. Present'
  BY <1>1, <1>2, <1>4 DEF CountInv, CountParts, Present, TypeOK
<1>6. ASSUME NEW g \in Browsers, NEW b \in Browsers, Counts(g, b)' PROVE Counted(g, b)'
  <2>1. Counts(g, b) /\ Counted(g, b) /\ g # c
    BY <1>2, <1>4, <1>6, CountTypes DEF Counts, CountInv, CountParts
  <2>2. CASE b = c
    BY <1>2, <2>2 DEF Counted
  <2>3. CASE b # c
    <3>1. /\ \A d \in Browsers :
               (Awaits(b, d)' <=> Awaits(b, d)) /\ (Awaits(g, d)' <=> Awaits(g, d))
          /\ AwaitsStatus(g, b)' <=> AwaitsStatus(g, b)
          /\ AwaitsStatus(g, b)' => out'[b].msg = out[b].msg
      BY <1>3, <2>1, <2>3 DEF Awaits, AwaitsStatus
    <3> QED
      BY <1>2, <2>1, <2>3, <3>1, PairKept
  <2> QED
    BY <2>2, <2>3
<1> QED
  BY <1>5, <1>6 DEF CountParts

LEMMA GreetCounts ==
  ASSUME CountInv, NEW c \in Browsers, Greet(c)
  PROVE  CountParts'
<1>1. TypeOK /\ RelayTyped /\ down[c] \in Seq(Msgs) /\ None \notin Browsers
  BY CountTypes DEF TypeOK
<1>2. /\ pc[c] = "greet" /\ guideName' = guideName /\ out' = out /\ page' = page
      /\ behind'["follow"] = behind["follow"] /\ behind'["count"] = behind["count"]
      /\ \A x \in Browsers : /\ pc'[x] = IF x = c THEN "serving" ELSE pc[x]
                             /\ down'[x] = IF x = c THEN down[c] \o Greeting ELSE down[x]
                             /\ x # c => (x \in behind'["guide"] <=> x \in behind["guide"])
  BY <1>1 DEF Greet, TypeOK, Kinds
<1>3. guideName # None /\ guideName \notin behind["count"] => guideName # c
  BY <1>2 DEF CountInv, CountParts, Present
<1>4. Present'
  BY <1>1, <1>2, <1>3 DEF CountInv, CountParts, Present, TypeOK
<1>5. ASSUME NEW g \in Browsers, NEW b \in Browsers, Counts(g, b)' PROVE Counted(g, b)'
  <2>1. g = guideName /\ guideName # None /\ g # c
    BY <1>1, <1>2, <1>3, <1>5 DEF Counts
  <2>2. CASE b = c
    <3>1. ~NoGuides(down'[b])
      BY <1>1, <1>2, <2>1, <2>2, GreetingNames
    <3> QED
      BY <3>1 DEF Counted
  <2>3. CASE b # c
    <3>1. Counted(g, b)
      BY <1>2, <1>5, <2>1, <2>3 DEF Counts, CountInv, CountParts
    <3>2. /\ \A d \in Browsers :
               (Awaits(b, d)' <=> Awaits(b, d)) /\ (Awaits(g, d)' <=> Awaits(g, d))
          /\ AwaitsStatus(g, b)' <=> AwaitsStatus(g, b)
      BY <1>2 DEF Awaits, AwaitsStatus
    <3> QED
      BY <1>2, <2>1, <2>3, <3>1, <3>2, PairKept
  <2> QED
    BY <2>2, <2>3
<1> QED
  BY <1>4, <1>5 DEF CountParts

LEMMA WriteCounts ==
  ASSUME CountInv, NEW d \in Browsers, NEW c \in Browsers, Write(d, c)
  PROVE  CountParts'
<1> DEFINE m == out[d].msg
<1>1. TypeOK /\ down \in [Browsers -> Seq(Msgs)]
  BY CountTypes
<1>2. guideName' = guideName /\ pc' = pc /\ page' = page /\ behind' = behind
  BY <1>1, WriteOut
<1>3. /\ out[d] # Nothing /\ c \in out[d].to
      /\ \A x \in Browsers : x # d => out'[x] = out[x]
      /\ \/ out'[d] = Nothing /\ out[d].to \subseteq {c}
         \/ out'[d].kind = out[d].kind /\ out'[d].msg = m /\ out'[d].to = out[d].to \ {c}
      /\ \A x \in Browsers : down'[x] = IF x = c THEN Append(down[c], m) ELSE down[x]
  BY <1>1, WriteOut
<1>4. /\ m \in Msgs
      /\ out[d].kind = "guide" <=> m.type \in Guides
      /\ out[d].kind = "follow" <=> m.type \in Status
      /\ out[d].kind = "follow" => m.who = d
  BY <1>1, <1>3, WriteOut, CountTypes DEF OwnWords, GuideInv, KindsAgree
<1> HIDE DEF m
<1>5. Nothing.kind = "none" /\ Nothing.to = {}
  BY DEF Nothing
<1>6. \A x, y \in Browsers : /\ Awaits(x, y)' => Awaits(x, y)
                             /\ x # c \/ y # d => /\ Awaits(x, y) <=> Awaits(x, y)'
                                                  /\ AwaitsStatus(x, y) <=> AwaitsStatus(x, y)'
                             /\ AwaitsStatus(x, y)' => out'[y].msg = out[y].msg
                             /\ x = c /\ y = d => ~AwaitsStatus(x, y)'
  BY <1>3, <1>5 DEF Awaits, AwaitsStatus, m
<1>7. Present'
  BY <1>2 DEF CountInv, CountParts, Present
<1>8. ASSUME NEW g \in Browsers, NEW b \in Browsers, Counts(g, b)' PROVE Counted(g, b)'
  <2>1. Counts(g, b) /\ Counted(g, b) /\ g # b
    BY <1>2, <1>8 DEF Counts, CountInv, CountParts
  <2>2. Word(b)' = Word(b) /\ StatusesOf(b)' = StatusesOf(b)
        /\ StatusAs(b, Word(b))' = StatusAs(b, Word(b))
    BY <1>2 DEF Word, StatusesOf, StatusAs
  <2>3. CASE c # b /\ c # g
    BY <1>2, <1>3, <1>6, <2>1, <2>3, PairKept
  <2>4. CASE c = b
    <3>1. CASE out[d].kind = "guide"
      <4>1. ~NoGuides(down'[b])
        BY <1>1, <1>3, <1>4, <2>4, <3>1, AppendGuide
      <4> QED
        BY <4>1 DEF Counted
    <3>2. CASE out[d].kind # "guide"
      <4>1. NoGuides(down'[b]) <=> NoGuides(down[b])
        BY <1>1, <1>3, <1>4, <2>4, <3>2, AppendGuide
      <4>2. \A y \in Browsers : Awaits(b, y)' <=> Awaits(b, y)
        BY <1>6, <2>4, <3>2 DEF Awaits
      <4>3. /\ \A y \in Browsers : Awaits(g, y)' <=> Awaits(g, y)
            /\ AwaitsStatus(g, b)' <=> AwaitsStatus(g, b)
            /\ AwaitsStatus(g, b)' => out'[b].msg = out[b].msg
            /\ down'[g] = down[g]
        BY <1>3, <1>6, <2>1, <2>4
      <4> QED
        BY <1>2, <2>1, <2>2, <4>1, <4>2, <4>3 DEF Counted
    <3> QED
      BY <3>1, <3>2
  <2>5. CASE c = g
    <3>1. /\ \A y \in Browsers : Awaits(b, y)' <=> Awaits(b, y)
          /\ down'[b] = down[b] /\ down'[g] = Append(down[g], m)
      BY <1>3, <1>6, <2>1, <2>5
    <3> SUFFICES ASSUME pc[b] = "serving", \A y \in Browsers : ~Awaits(b, y), NoGuides(down[b])
                 PROVE  /\ \A y \in Browsers : ~Awaits(g, y)'
                        /\ AwaitsStatus(g, b)' => out'[b].msg.type = Word(b)
                        /\ ~AwaitsStatus(g, b)'
                           => /\ LastOf(down'[g], StatusesOf(b), StatusAs(b, Word(b)))
                              /\ Lacks(down'[g], StatusesOf(b))
                                 => (b \in page[g].followers <=> Word(b) = "follow")
      BY <1>2, <2>2, <3>1 DEF Counted
    <3>2. /\ \A y \in Browsers : ~Awaits(g, y)
          /\ AwaitsStatus(g, b) => out[b].msg.type = Word(b)
          /\ ~AwaitsStatus(g, b)
             => /\ LastOf(down[g], StatusesOf(b), StatusAs(b, Word(b)))
                /\ Lacks(down[g], StatusesOf(b)) => (b \in page[g].followers <=> Word(b) = "follow")
      BY <2>1 DEF Counted
    <3>3. m.type \notin Guides
      BY <1>3, <1>4, <2>5, <3>2 DEF Awaits
    <3>4. \A y \in Browsers : ~Awaits(g, y)'
      BY <1>6, <3>2
    <3>5. CASE d = b /\ out[b].kind = "follow"
      <4>1. m \in StatusesOf(b) /\ m \in StatusAs(b, Word(b)) /\ ~AwaitsStatus(g, b)'
        BY <1>3, <1>4, <1>6, <2>5, <3>2, <3>5 DEF AwaitsStatus, StatusesOf, StatusAs, m
      <4>2. /\ LastOf(Append(down[g], m), StatusesOf(b), StatusAs(b, Word(b)))
            /\ ~Lacks(Append(down[g], m), StatusesOf(b))
        BY <1>1, <1>4, <3>3, <4>1, AppendLast
      <4> QED
        BY <3>1, <3>4, <4>1, <4>2
    <3>6. CASE d # b \/ out[b].kind # "follow"
      <4>1. m \notin StatusesOf(b)
        BY <1>4, <3>6 DEF StatusesOf
      <4>2. AwaitsStatus(g, b)' <=> AwaitsStatus(g, b)
        <5>1. CASE d # b
          BY <1>6, <5>1
        <5>2. CASE d = b
          BY <1>3, <1>5, <3>6, <5>2 DEF AwaitsStatus
        <5> QED
          BY <5>1, <5>2
      <4>3. /\ LastOf(down[g], StatusesOf(b), StatusAs(b, Word(b)))
               => LastOf(Append(down[g], m), StatusesOf(b), StatusAs(b, Word(b)))
            /\ Lacks(Append(down[g], m), StatusesOf(b)) => Lacks(down[g], StatusesOf(b))
        BY <1>1, <1>4, <3>3, <4>1, AppendLast
      <4> QED
        BY <1>6, <3>1, <3>2, <3>4, <4>2, <4>3
    <3> QED
      BY <3>5, <3>6
  <2> QED
    BY <2>3, <2>4, <2>5
<1> QED
  BY <1>7, <1>8 DEF CountParts

(* A step of b that says nothing of the guide or of how b follows.         *)
LEMMA SilentCounts ==
  ASSUME CountInv, NEW b \in Browsers, UNCHANGED <<guideName, pc, down>>,
         behind["guide"] \subseteq behind'["guide"],
         behind'["follow"] = behind["follow"], behind'["count"] = behind["count"],
         \A c \in Browsers : c # b => page'[c] = page[c] /\ out'[c] = out[c],
         \/ out'[b] = out[b]
         \/ out[b] = Nothing /\ out'[b].kind = "state",
         page'[b].following = page[b].following, page'[b].followers = page[b].followers
  PROVE  CountParts'
<1>1. Present'
  BY DEF CountInv, CountParts, Present
<1>2. \A x, d \in Browsers : /\ Awaits(x, d)' <=> Awaits(x, d)
                             /\ AwaitsStatus(x, d)' <=> AwaitsStatus(x, d)
                             /\ AwaitsStatus(x, d)' => out'[d].msg = out[d].msg
  BY DEF Awaits, AwaitsStatus, Nothing
<1>3. ASSUME NEW g \in Browsers, NEW c \in Browsers, Counts(g, c)' PROVE Counted(g, c)'
  <2>1. Counted(g, c)
    BY <1>3 DEF Counts, CountInv, CountParts
  <2> QED
    BY <1>2, <2>1, PairKept
<1> QED
  BY <1>1, <1>3 DEF CountParts

(* A host starts or stops guiding: all who are connected await the word.   *)
LEMMA AnnounceCounts ==
  ASSUME CountInv, NEW b \in Browsers, pc[b] = "serving",
         NEW m \in Msgs, guideName' \in {b, None}, Broadcast(b, "guide", m), pc' = pc
  PROVE  CountParts'
<1>1. TypeOK /\ None \notin Browsers
  BY CountTypes
<1>2. /\ out'[b].kind = "guide" /\ out'[b].to = In
      /\ \A c \in Browsers : c \notin behind'["guide"] => c \in In
  BY <1>1, BroadcastOut
<1>3. Present'
  BY DEF Present
<1>4. ASSUME NEW g \in Browsers, NEW c \in Browsers, Counts(g, c)' PROVE Counted(g, c)'
  <2>1. Awaits(c, b)'
    BY <1>2, <1>4 DEF Counts, Awaits
  <2> QED
    BY <2>1 DEF Counted
<1> QED
  BY <1>3, <1>4 DEF CountParts

(* b has sent word of how it follows, and no guide has begun or ended      *)
(* that others are yet to hear of.                                         *)
LEMMA StatusCounts ==
  ASSUME CountInv, NEW b \in Browsers, UNCHANGED <<guideName, pc>>,
         behind'["count"] = behind["count"],
         \A c \in Browsers : c # b => out'[c] = out[c],
         out[b] = Nothing, out'[b].kind = "follow", out'[b].to = In,
         out'[b].msg.type = Word(b)',
         b \notin behind'["follow"] => Awaiting("guide", Browsers) = {},
         NEW g \in Browsers, Counts(g, b)'
  PROVE  Counted(g, b)'
<1>1. \A x, d \in Browsers : Awaits(x, d)' <=> Awaits(x, d)
  BY DEF Awaits, Nothing
<1>2. \A d \in Browsers : ~Awaits(g, d)
  BY DEF Counts, Awaits, Awaiting
<1>3. g \in In
  BY CountTypes DEF Counts, CountInv, CountParts, Present, In
<1> QED
  BY <1>1, <1>2, <1>3 DEF Counted, AwaitsStatus

(* A step of b that tells nobody anything.                                 *)
LEMMA IdleCounts ==
  ASSUME CountInv, NEW b \in Browsers, guideName' = guideName, out' = out,
         UNCHANGED <<pc, down>>, behind["guide"] \subseteq behind'["guide"],
         behind'["follow"] = behind["follow"], behind'["count"] = behind["count"],
         \A c \in Browsers : c # b => page'[c] = page[c],
         page'[b].following = page[b].following, page'[b].followers = page[b].followers
  PROVE  CountParts'
<1>1. Present'
  BY DEF CountInv, CountParts, Present
<1>2. \A x, d \in Browsers : /\ Awaits(x, d)' <=> Awaits(x, d)
                             /\ AwaitsStatus(x, d)' <=> AwaitsStatus(x, d)
  BY DEF Awaits, AwaitsStatus
<1>3. ASSUME NEW g \in Browsers, NEW c \in Browsers, Counts(g, c)' PROVE Counted(g, c)'
  <2>1. Counted(g, c)
    BY <1>3 DEF Counts, CountInv, CountParts
  <2>2. /\ pc'[c] = pc[c] /\ down'[c] = down[c] /\ down'[g] = down[g] /\ out'[c].msg = out[c].msg
        /\ page'[c].following = page[c].following
        /\ c \in page'[g].followers <=> c \in page[g].followers
    OBVIOUS
  <2> QED
    BY <1>2, <2>1, <2>2, PairKept
<1> QED
  BY <1>1, <1>3 DEF CountParts

(* A user's choice to follow or not is sent, unless b is not connected.    *)
LEMMA FollowCounts ==
  ASSUME CountInv, NEW b \in Browsers, UNCHANGED <<pc, down>>,
         \A c \in Browsers : c # b => page'[c] = page[c],
         page'[b].followers = page[b].followers,
         NEW on \in BOOLEAN, page'[b].following = on, Send(b, FollowStatus(b, on))
  PROVE  CountParts'
<1>1. TypeOK
  BY CountTypes
<1>2. /\ guideName' = guideName
      /\ behind'["guide"] = behind["guide"] /\ behind'["count"] = behind["count"]
      /\ \A c \in Browsers : c # b => /\ out'[c] = out[c]
                                      /\ c \in behind'["follow"] <=> c \in behind["follow"]
      /\ \/ out'[b] = out[b] /\ behind' = behind /\ (SendNothing \/ b \notin In)
         \/ /\ pc[b] = "serving" /\ out[b] = Nothing /\ out'[b].kind = "follow"
            /\ out'[b].to = In /\ out'[b].msg.type = IF on THEN "follow" ELSE "unfollow"
            /\ b \notin behind'["follow"] => Awaiting("guide", Browsers) = {}
  BY <1>1, StatusSent DEF Kinds
<1>3. Present'
  BY <1>2 DEF CountInv, CountParts, Present
<1>4. \A x, d \in Browsers : Awaits(x, d)' <=> Awaits(x, d)
  BY <1>2 DEF Awaits, Nothing
<1>5. ASSUME NEW g \in Browsers, NEW c \in Browsers, Counts(g, c)' PROVE Counted(g, c)'
  <2>1. CASE c # b
    <3>1. Counted(g, c)
      BY <1>2, <1>5, <2>1 DEF Counts, CountInv, CountParts
    <3>2. AwaitsStatus(g, c)' <=> AwaitsStatus(g, c)
      BY <1>2, <2>1 DEF AwaitsStatus
    <3> QED
      BY <1>2, <1>4, <2>1, <3>1, <3>2, PairKept
  <2>2. CASE c = b /\ pc[b] # "serving"
    BY <2>2 DEF Counted
  <2>3. CASE c = b /\ pc[b] = "serving"
    <3>1. /\ out[b] = Nothing /\ out'[b].kind = "follow" /\ out'[b].to = In
          /\ out'[b].msg.type = IF on THEN "follow" ELSE "unfollow"
          /\ b \notin behind'["follow"] => Awaiting("guide", Browsers) = {}
      <4>1. FollowStatus(b, on) /\ out[b] = Nothing
        BY <2>3 DEF Send, In
      <4> DEFINE o == [kind |-> "follow", begun |-> FALSE, to |-> In,
                       msg |-> Msg(IF on THEN "follow" ELSE "unfollow", b, None)]
      <4>2. out'[b] = o
        BY <1>1, <4>1 DEF FollowStatus, TypeOK
      <4>3. o.kind = "follow" /\ o.kind # Nothing.kind
        BY DEF Nothing
      <4> HIDE DEF o
      <4>4. out'[b] # out[b]
        BY <4>1, <4>2, <4>3
      <4> QED
        BY <1>2, <4>4
    <3>2. out'[b].msg.type = Word(b)'
      BY <3>1 DEF Word
    <3> QED
      BY <1>2, <1>5, <2>3, <3>1, <3>2, StatusCounts
  <2> QED
    BY <2>1, <2>2, <2>3
<1> QED
  BY <1>3, <1>5 DEF CountParts

LEMMA QuietCounts ==
  ASSUME CountInv, NEW b \in Browsers,
         \/ ToggleFollow(b) \/ MoveCursor(b) \/ Frame(b)
         \/ \E f \in Files : OpenFile(b, f) \/ ClickTab(b, f) \/ FileArrives(b, f)
  PROVE  CountParts'
<1>1. TypeOK /\ page[b] \in Page
  BY CountTypes
<1>2. UNCHANGED <<pc, down>>
  BY DEF ToggleFollow, MoveCursor, Frame, OpenFile, ClickTab, FileArrives
<1>3. \A c \in Browsers : c # b => page'[c] = page[c]
  <2>1. \E pg, led : Become(b, pg) \/ Show(b, pg, led)
    BY DEF ToggleFollow, MoveCursor, Frame, OpenFile, ClickTab, FileArrives
  <2> QED
    BY <1>1, <2>1, OthersPages
<1>4. CASE ToggleFollow(b)
  <2> DEFINE pg == [page[b] EXCEPT !.following = ~@]
  <2>1. /\ pg \in Page /\ pg.following \in BOOLEAN /\ pg.followers = page[b].followers
        /\ page'[b] = pg \/ page'[b] = ApplyGuideState(pg, pg.lastState)
        /\ Send(b, FollowStatus(b, pg.following))
    BY <1>1, <1>4, OwnPage DEF ToggleFollow, Page
  <2> HIDE DEF pg
  <2>2. page'[b].following = pg.following /\ page'[b].followers = pg.followers
    BY <2>1 DEF ApplyGuideState, Page
  <2> QED
    BY <1>2, <1>3, <2>1, <2>2, FollowCounts
<1>5. CASE MoveCursor(b)
  <2>1. CASE page'[b] = [page[b] EXCEPT !.frame = TRUE] /\ SendNothing
    <3>1. page'[b].following = page[b].following /\ page'[b].followers = page[b].followers
      BY <1>1, <2>1 DEF Page
    <3> QED
      BY <1>2, <1>3, <2>1, <3>1, IdleCounts DEF SendNothing
  <2>2. CASE /\ page'[b] = [page[b] EXCEPT !.following = FALSE]
             /\ Send(b, FollowStatus(b, FALSE))
    <3>1. page'[b].following = FALSE /\ page'[b].followers = page[b].followers
      BY <1>1, <2>2 DEF Page
    <3> QED
      BY <1>2, <1>3, <2>2, <3>1, FollowCounts
  <2> QED
    BY <1>1, <1>5, <2>1, <2>2, OwnPage DEF MoveCursor
<1>6. ASSUME NEW f \in Files, OpenFile(b, f) \/ ClickTab(b, f) \/ FileArrives(b, f)
      PROVE  CountParts'
  <2>1. page'[b].following = page[b].following /\ page'[b].followers = page[b].followers
    BY <1>1, <1>6, OwnPage DEF OpenFile, ClickTab, FileArrives, OnFileContent, Page
  <2>2. SendNothing
    BY <1>6 DEF OpenFile, ClickTab, FileArrives
  <2> QED
    BY <1>2, <1>3, <2>1, <2>2, IdleCounts DEF SendNothing
<1>7. CASE Frame(b)
  <2>1. page'[b].following = page[b].following /\ page'[b].followers = page[b].followers
    BY <1>1, <1>7, OwnPage DEF Frame, Page
  <2>2. CASE UNCHANGED <<guideName, guideState, stateBy, out, behind>>
    BY <1>2, <1>3, <2>1, <2>2, IdleCounts
  <2>3. CASE /\ out[b] = Nothing /\ b \in hosts /\ page[b].view # None
             /\ GuideState(b, page[b].view)
    <3> DEFINE m == Msg("guide_state", None, page[b].view)
    <3>1. m \in Msgs
      BY <1>1, <2>3, MsgsTyped DEF Page
    <3>2. Broadcast(b, "state", m) /\ guideName' = guideName
      BY <2>3 DEF GuideState
    <3> HIDE DEF m
    <3>3. /\ out'[b].kind = "state" /\ \A c \in Browsers : c # b => out'[c] = out[c]
          /\ behind'["guide"] = behind["guide"] /\ behind'["follow"] = behind["follow"]
          /\ behind'["count"] = behind["count"]
      BY <1>1, <3>1, <3>2, BroadcastOut
    <3> QED
      BY <1>2, <1>3, <2>1, <2>3, <3>2, <3>3, SilentCounts
  <2> QED
    BY <1>7, <2>2, <2>3 DEF Frame, Send, SendNothing, GuideState
<1> QED
  BY <1>4, <1>5, <1>6, <1>7

LEMMA ToggleCounts ==
  ASSUME CountInv, NEW b \in Browsers, ToggleGuide(b)
  PROVE  CountParts'
<1>1. TypeOK /\ page[b] \in Page
  BY CountTypes
<1>2. /\ UNCHANGED <<pc, down>> /\ \A c \in Browsers : c # b => page'[c] = page[c]
  BY <1>1, OthersPages DEF ToggleGuide
<1>3. page'[b].following = page[b].following /\ page'[b].followers = page[b].followers
  BY <1>1, OwnPage DEF ToggleGuide, Page
<1>4. CASE UNCHANGED <<guideName, guideState, stateBy, out, behind>>
  BY <1>2, <1>3, <1>4, IdleCounts
<1>5. CASE b \notin hosts /\ GuideStop(b)
  <2>1. /\ UNCHANGED <<guideName, out>> /\ behind["guide"] \subseteq behind'["guide"]
        /\ behind'["follow"] = behind["follow"] /\ behind'["count"] = behind["count"]
    BY <1>1, <1>5 DEF GuideStop, TypeOK, Kinds
  <2> QED
    BY <1>2, <1>3, <2>1, IdleCounts
<1>6. CASE /\ pc[b] = "serving" /\ b \in hosts
           /\ GuideStop(b) \/ GuideStart(b)
  <2>1. PICK m \in Msgs : guideName' \in {b, None} /\ Broadcast(b, "guide", m)
    BY <1>6, MsgsTyped DEF GuideStop, GuideStart
  <2> QED
    BY <1>2, <1>6, <2>1, AnnounceCounts
<1> QED
  BY <1>4, <1>5, <1>6 DEF ToggleGuide, Send, GuideStop, GuideStart

LEMMA DeliverCounts ==
  ASSUME CountInv, NEW x \in Browsers, Deliver(x)
  PROVE  CountParts'
<1> DEFINE m == Head(down[x])
<1>1. /\ TypeOK /\ page[x] \in Page /\ down \in [Browsers -> Seq(Msgs)] /\ GuideInv
      /\ None \notin Browsers
  BY CountTypes
<1>2. /\ down[x] # <<>> /\ m \in Msgs /\ pc' = pc /\ down'[x] = Tail(down[x])
      /\ \A c \in Browsers : c # x => page'[c] = page[c] /\ down'[c] = down[c]
      /\ SendNothing \/ Send(x, FollowStatus(x, TRUE))
      /\ m.type = "guide_start" /\ m.who # x => Send(x, FollowStatus(x, TRUE))
      /\ m.type # "guide_start" => SendNothing
      /\ m.type = "guide_start" => page'[x] = OnGuideStart(page[x], x, m.who)
      /\ m.type \in Status => page'[x] = OnFollowStatus(page[x], m.who, m.type = "follow")
      /\ m.type = "guide_state" => page'[x] = OnGuideState(page[x], x, m.file)
      /\ m.type \in Guides \/ m.type \in Status \/ m.type = "guide_state"
  BY <1>1, DeliverPage
<1>3. m.type = "guide_start" => page'[x].following = ((m.who # x) \/ page[x].following)
  BY <1>1, <1>2 DEF OnGuideStart, Page
<1>4. m.type \in Status
      => /\ page'[x].following = page[x].following
         /\ page'[x].followers = IF m.type = "follow" THEN page[x].followers \cup {m.who}
                                 ELSE page[x].followers \ {m.who}
  BY <1>1, <1>2 DEF OnFollowStatus, Page
<1>5. ASSUME m.type = "guide_state"
      PROVE  /\ page'[x].following = page[x].following
             /\ page'[x].followers = page[x].followers
  <2> DEFINE pg == [page[x] EXCEPT !.lastState = m.file]
  <2>1. /\ pg \in Page /\ pg.following = page[x].following /\ pg.followers = page[x].followers
    BY <1>1, <1>2, <1>5, MsgFields DEF Page
  <2>2. page'[x] = ApplyGuideState(pg, m.file) \/ page'[x] = pg
    BY <1>2, <1>5 DEF OnGuideState
  <2> HIDE DEF pg
  <2> QED
    BY <2>1, <2>2 DEF ApplyGuideState, Page
<1> HIDE DEF m
<1>6. /\ guideName' = guideName
      /\ behind'["guide"] = behind["guide"] /\ behind'["count"] = behind["count"]
      /\ \A c \in Browsers : c # x => /\ out'[c] = out[c]
                                      /\ c \in behind'["follow"] <=> c \in behind["follow"]
      /\ \/ out'[x] = out[x]
         \/ out[x] = Nothing /\ out'[x].kind = "follow"
  BY <1>1, <1>2, StatusSent DEF Kinds
<1>7. \A y, d \in Browsers : /\ Awaits(y, d)' <=> Awaits(y, d)
                             /\ d # x => (AwaitsStatus(y, d)' <=> AwaitsStatus(y, d))
  BY <1>6 DEF Awaits, AwaitsStatus, Nothing
<1>8. Present'
  BY <1>2, <1>6 DEF CountInv, CountParts, Present
<1>9. ASSUME NEW g \in Browsers, NEW b \in Browsers, Counts(g, b)' PROVE Counted(g, b)'
  <2>1. g = guideName /\ g # b /\ b \notin behind["guide"] /\ g \notin behind["count"]
    BY <1>6, <1>9 DEF Counts
  <2>2. b # x \/ m.type \notin Guides => Counts(g, b) /\ Counted(g, b)
    <3>1. m.type \notin Guides => behind' = behind
      BY <1>2 DEF SendNothing, Guides
    <3> QED
      BY <1>6, <1>9, <3>1 DEF Counts, CountInv, CountParts
  <2>3. CASE b # x /\ g # x
    BY <1>2, <1>6, <1>7, <2>2, <2>3, PairKept
  <2>4. CASE b = x /\ m.type \notin Guides
    <3>1. out' = out /\ page'[b].following = page[b].following /\ page'[g] = page[g]
          /\ down'[g] = down[g]
      BY <1>2, <1>4, <1>5, <2>1, <2>4 DEF SendNothing, Guides
    <3>2. NoGuides(down'[b]) => NoGuides(down[b])
      BY <1>1, <1>2, <2>4, TakeGuide DEF m
    <3>3. /\ AwaitsStatus(g, b)' <=> AwaitsStatus(g, b)
          /\ Word(b)' = Word(b) /\ StatusesOf(b)' = StatusesOf(b)
          /\ StatusAs(b, Word(b))' = StatusAs(b, Word(b))
      BY <3>1 DEF AwaitsStatus, Word, StatusesOf, StatusAs
    <3> QED
      BY <1>2, <1>7, <2>2, <2>4, <3>1, <3>2, <3>3 DEF Counted
  <2>5. CASE b = x /\ m.type \in Guides
    <3> SUFFICES ASSUME pc[b] = "serving", \A d \in Browsers : ~Awaits(b, d),
                        NoGuides(down'[b])
                 PROVE  Counted(g, b)'
      BY <1>2, <1>7 DEF Counted
    <3>1. m.who = guideName
      <4>1. LastNames(down[b], guideName)
        BY <1>1, <2>1 DEF GuideInv, Covered, Told
      <4>2. /\ down[b] \in Seq(Msgs) /\ down[b] # <<>> /\ NoGuides(Tail(down[b]))
            /\ m = Head(down[b]) /\ m.type \in Guides
        BY <1>1, <1>2, <2>5 DEF m
      <4> QED
        BY <4>1, <4>2, TakeGuide
    <3>2. m.type = "guide_start" /\ m.who # b
      BY <1>1, <1>2, <2>1, <2>5, <3>1, MsgFields DEF Guides
    <3>3. out[b] = Nothing /\ FollowStatus(b, TRUE)
      BY <1>2, <2>5, <3>2 DEF Send, In
    <3> DEFINE o == [kind |-> "follow", begun |-> FALSE, to |-> In, msg |-> Msg("follow", b, None)]
    <3>4. /\ out'[b] = o
          /\ behind'["follow"] = IF Awaiting("guide", Browsers) # {} THEN behind["follow"] \cup {b}
                                 ELSE behind["follow"] \ {b}
      BY <1>1, <3>3 DEF FollowStatus, TypeOK, Kinds
    <3>5. o.kind = "follow" /\ o.to = In /\ o.msg.type = "follow"
      BY DEF Msg
    <3> HIDE DEF o
    <3>6. out'[b].msg.type = Word(b)'
      BY <1>3, <2>5, <3>2, <3>4, <3>5 DEF Word
    <3>7. b \notin behind'["follow"] => Awaiting("guide", Browsers) = {}
      BY <3>4
    <3> QED
      BY <1>2, <1>6, <1>9, <2>5, <3>3, <3>4, <3>5, <3>6, <3>7, StatusCounts
  <2>6. CASE g = x /\ b # x
    <3>1. /\ page'[b] = page[b] /\ down'[b] = down[b] /\ out'[b] = out[b]
          /\ down'[g] = Tail(down[g])
      BY <1>2, <1>6, <2>6
    <3>2. /\ AwaitsStatus(g, b)' <=> AwaitsStatus(g, b)
          /\ Word(b)' = Word(b) /\ StatusesOf(b)' = StatusesOf(b)
          /\ StatusAs(b, Word(b))' = StatusAs(b, Word(b))
      BY <3>1 DEF AwaitsStatus, Word, StatusesOf, StatusAs
    <3>3. ASSUME LastOf(down[g], StatusesOf(b), StatusAs(b, Word(b))),
                 Lacks(down[g], StatusesOf(b)) => (b \in page[g].followers <=> Word(b) = "follow")
          PROVE  /\ LastOf(down'[g], StatusesOf(b), StatusAs(b, Word(b)))
                 /\ Lacks(down'[g], StatusesOf(b))
                    => (b \in page'[g].followers <=> Word(b) = "follow")
      <4>0. down[g] \in Seq(Msgs) /\ down[g] # <<>> /\ down'[g] = Tail(down[g]) /\ m = Head(down[g])
        BY <1>1, <1>2, <2>6, <3>1 DEF m
      <4>1. LastOf(down'[g], StatusesOf(b), StatusAs(b, Word(b)))
        BY <3>3, <4>0, TakeLast
      <4>2. ASSUME Lacks(down'[g], StatusesOf(b))
            PROVE  b \in page'[g].followers <=> Word(b) = "follow"
        <5>1. /\ m.type \notin Guides
              /\ m \in StatusesOf(b) => m \in StatusAs(b, Word(b))
              /\ m \notin StatusesOf(b) => Lacks(down[g], StatusesOf(b))
          BY <3>3, <4>0, <4>2, TakeLast
        <5>2. CASE m \in StatusesOf(b)
          <6>1. m.type \in Status /\ m.who = b /\ m.type = Word(b)
            BY <5>1, <5>2 DEF StatusesOf, StatusAs
          <6> QED
            BY <1>4, <2>6, <6>1
        <5>3. CASE m \notin StatusesOf(b)
          <6>1. m.type \in Status => m.who # b
            BY <1>2, <5>3 DEF StatusesOf
          <6>2. b \in page'[g].followers <=> b \in page[g].followers
            BY <1>2, <1>4, <1>5, <2>6, <5>1, <6>1
          <6> QED
            BY <3>3, <5>1, <5>3, <6>2
        <5> QED
          BY <5>2, <5>3
      <4> QED
        BY <4>1, <4>2
    <3> QED
      BY <1>2, <1>7, <2>2, <2>6, <3>1, <3>2, <3>3 DEF Counted
  <2> QED
    BY <2>3, <2>4, <2>5, <2>6
<1> QED
  BY <1>8, <1>9 DEF CountParts

LEMMA CountNext == CountInv /\ [Next]_vars => CountInv'
<1> SUFFICES ASSUME CountInv, [Next]_vars PROVE CountParts'
  BY ShowNext DEF CountInv
<1>1. CASE UNCHANGED vars
  <2>1. /\ guideName' = guideName /\ pc' = pc /\ out' = out /\ down' = down
        /\ page' = page /\ behind' = behind
    BY <1>1 DEF vars, relayVars, histVars
  <2>2. Present' <=> Present
    BY <2>1 DEF Present
  <2>3. \A g, b \in Browsers : Counts(g, b)' <=> Counts(g, b)
    BY <2>1 DEF Counts
  <2>4. \A g, b \in Browsers : Counted(g, b)' <=> Counted(g, b)
    BY <2>1 DEF Counted, Word, StatusesOf, StatusAs, Awaits, AwaitsStatus
  <2> QED
    BY <2>2, <2>3, <2>4 DEF CountInv, CountParts
<1>2. ASSUME NEW b \in Browsers, UserStep(b) \/ PageStep(b)
      PROVE  CountParts'
  BY <1>2, ToggleCounts, QuietCounts, ConnectCounts, DropCounts, DeliverCounts
     DEF UserStep, PageStep
<1>3. ASSUME NEW b \in Browsers, HandlerStep(b)
      PROVE  CountParts'
  BY <1>3, WriteCounts, GreetCounts DEF HandlerStep
<1>4. CASE Evict
  BY <1>4, CountTypes DEF Evict, CountParts, Present, Counts
<1> QED
  BY <1>1, <1>2, <1>3, <1>4 DEF Next

LEMMA CountShown == CountInv => FollowersCounted
<1> SUFFICES ASSUME CountInv, Quiet,
                    NEW g \in In \ (behind["guide"] \cup behind["count"]),
                    NEW b \in In \ (behind["guide"] \cup behind["follow"]),
                    g # b, guideName = g
             PROVE  b \in page[g].followers <=> page[b].following
  BY DEF FollowersCounted
<1>1. /\ g \in Browsers /\ b \in Browsers /\ pc[b] = "serving"
      /\ down[b] = <<>> /\ down[g] = <<>> /\ page[b].following \in BOOLEAN
  BY CountTypes DEF In, Quiet, TypeOK, Page
<1>2. \A d \in Browsers : ~Awaits(b, d) /\ ~AwaitsStatus(g, d)
  BY DEF Quiet, Awaits, AwaitsStatus, Nothing
<1>3. Counted(g, b)
  BY <1>1 DEF Counts, CountInv, CountParts
<1>4. b \in page[g].followers <=> Word(b) = "follow"
  BY <1>1, <1>2, <1>3, EmptyLast DEF Counted, NoGuides
<1> QED
  BY <1>1, <1>4 DEF Word

(* When nothing is on its way, a guide that has been connected since it    *)
(* began counts those who follow it, and no others: the statuses that the  *)
(* pages send reach it after its own start, which empties the count, and   *)
(* the last of each is how that page follows (server.go, follow_status).   *)
THEOREM FollowersAlwaysCounted == Spec => []FollowersCounted
<1>1. Init => CountInv
  BY CountInit
<1>2. CountInv /\ [Next]_vars => CountInv'
  BY CountNext
<1>3. CountInv => FollowersCounted
  BY CountShown
<1> QED
  BY <1>1, <1>2, <1>3, PTL DEF Spec
=============================================================================
