---------------------------- MODULE BoardProofs ----------------------------
(* Proofs about Board, for any files, tours and bounds: types, that        *)
(* nothing but a guide's state leads to a step that the tour has not, and  *)
(* that when all has arrived the page shows the step, the guide's place    *)
(* and the tour it saved.                                                  *)
EXTENDS Board, TLAPS

(* What the type of a page does not say: the tour that is selected is one  *)
(* that the page has, and the bar is open then; a file in view is open.    *)
Fit(pg) ==
    /\ pg \in PageType
    /\ pg.active # None => pg.bar /\ pg.tours[pg.active] # None
    /\ pg.view # None => pg.view \in pg.has

BoardInv == TypeOK /\ Fit(page)

(* Two pages that show the same step of the same tour.                     *)
SameStep(pg, q) == pg.tours = q.tours /\ pg.active = q.active /\ pg.step = q.step

-----------------------------------------------------------------------------
(* Tours.                                                                  *)

LEMMA NotNone ==
    /\ None \notin Files /\ None \notin TourIds /\ None \notin Steps /\ None \notin Nat
    /\ MaxLine \in Nat \ {0} /\ MaxSteps \in Nat \ {0} /\ MaxEvents \in Nat
    /\ FirstTours \in Tours /\ Opened \subseteq Files
BY BoardAssumption DEF BoardAssumption

LEMMA StepsAre ==
  ASSUME NEW s
  PROVE  s \in Steps <=> s \in Seq(Step) /\ Len(s) <= MaxSteps
<1>1. ASSUME s \in Steps PROVE s \in Seq(Step) /\ Len(s) <= MaxSteps
  <2>1. PICK n \in 0 .. MaxSteps : s \in [1 .. n -> Step]
    BY <1>1 DEF Steps
  <2> QED
    BY <2>1, NotNone
<1>2. ASSUME s \in Seq(Step), Len(s) <= MaxSteps PROVE s \in Steps
  <2>1. Len(s) \in 0 .. MaxSteps /\ s \in [1 .. Len(s) -> Step]
    BY <1>2, NotNone
  <2> QED
    BY <2>1 DEF Steps
<1> QED
  BY <1>1, <1>2

LEMMA NoSteps == <<>> \in Steps /\ 0 \in 0 .. MaxSteps
<1>1. <<>> \in [1 .. 0 -> Step]
  OBVIOUS
<1>2. 0 \in 0 .. MaxSteps
  BY NotNone
<1> QED
  BY <1>1, <1>2 DEF Steps

LEMMA RemoveAtSteps ==
  ASSUME NEW s \in Steps, NEW i \in DOMAIN s
  PROVE  RemoveAt(s, i) \in Steps
<1>1. s \in Seq(Step) /\ Len(s) <= MaxSteps /\ Len(s) \in Nat /\ i \in 1 .. Len(s)
  BY StepsAre
<1>2. /\ SubSeq(s, 1, i - 1) \in Seq(Step) /\ Len(SubSeq(s, 1, i - 1)) = i - 1
      /\ SubSeq(s, i + 1, Len(s)) \in Seq(Step) /\ Len(SubSeq(s, i + 1, Len(s))) = Len(s) - i
  BY <1>1
<1>3. /\ RemoveAt(s, i) \in Seq(Step)
      /\ Len(RemoveAt(s, i)) = (i - 1) + (Len(s) - i)
  BY <1>2 DEF RemoveAt
<1>4. Len(RemoveAt(s, i)) <= MaxSteps
  BY <1>1, <1>3, NotNone
<1> QED
  BY <1>3, <1>4, StepsAre

LEMMA RemoveAtSending ==
  ASSUME NEW s \in Seq(Sending), NEW i \in DOMAIN s
  PROVE  RemoveAt(s, i) \in Seq(Sending)
BY DEF RemoveAt

LEMMA SendingTyped ==
  ASSUME NEW pg, Fit(pg), NEW i \in DOMAIN pg.sending
  PROVE  /\ pg.sending \in Seq(Sending)
         /\ pg.sending[i].tour \in TourIds /\ pg.sending[i].steps \in Steps
<1>1. pg.sending \in Seq(Sending)
  BY DEF Fit, PageType
<1>2. pg.sending[i] \in Sending
  BY <1>1
<1> QED
  BY <1>1, <1>2 DEF Sending

LEMMA ReverseSteps ==
  ASSUME NEW s \in Steps
  PROVE  Reverse(s) \in Steps
<1>1. s \in Seq(Step) /\ Len(s) <= MaxSteps /\ Len(s) \in Nat
  BY StepsAre
<1>2. Reverse(s) \in [1 .. Len(s) -> Step]
  BY <1>1 DEF Reverse
<1> QED
  BY <1>1, <1>2, NotNone DEF Steps

LEMMA AppendSteps ==
  ASSUME NEW s \in Steps, NEW x \in Step, Len(s) < MaxSteps
  PROVE  Append(s, x) \in Steps
<1>1. s \in Seq(Step) /\ Len(s) \in Nat
  BY StepsAre
<1>2. Append(s, x) \in Seq(Step) /\ Len(Append(s, x)) = Len(s) + 1
  BY <1>1
<1>3. Len(Append(s, x)) <= MaxSteps
  BY <1>1, <1>2, NotNone
<1> QED
  BY <1>2, <1>3, StepsAre

LEMMA ExceptSteps ==
  ASSUME NEW s \in Steps, NEW i, NEW x \in Step
  PROVE  [s EXCEPT ![i] = x] \in Steps
<1>1. PICK n \in 0 .. MaxSteps : s \in [1 .. n -> Step]
  BY DEF Steps
<1>2. [s EXCEPT ![i] = x] \in [1 .. n -> Step]
  BY <1>1
<1> QED
  BY <1>2 DEF Steps

LEMMA ActiveTyped ==
  ASSUME NEW pg, Fit(pg)
  PROVE  /\ ActiveSteps(pg) \in Steps
         /\ Len(ActiveSteps(pg)) \in 0 .. MaxSteps
         /\ DOMAIN ActiveSteps(pg) = 1 .. Len(ActiveSteps(pg))
         /\ \A i \in DOMAIN ActiveSteps(pg) : ActiveSteps(pg)[i] \in Step
<1>1. ActiveSteps(pg) \in Steps
  <2>1. CASE pg.active = None
    BY <2>1, NoSteps DEF ActiveSteps
  <2>2. CASE pg.active # None
    BY <2>2 DEF ActiveSteps, Fit, PageType, Tours
  <2> QED
    BY <2>1, <2>2
<1>2. ActiveSteps(pg) \in Seq(Step) /\ Len(ActiveSteps(pg)) <= MaxSteps
  BY <1>1, StepsAre
<1> QED
  BY <1>1, <1>2, NotNone

-----------------------------------------------------------------------------
(* The page's operations.                                                  *)

LEMMA OpenFit ==
  ASSUME NEW pg, Fit(pg), NEW f \in Files
  PROVE  /\ Fit(Open(pg, f)) /\ SameStep(Open(pg, f), pg)
         /\ Open(pg, f).pendingStep = pg.pendingStep
BY DEF Open, Fit, PageType, SameStep

LEMMA SameStepIn ==
  ASSUME NEW pg, NEW q, SameStep(pg, q), InTour(q)
  PROVE  InTour(pg)
BY DEF SameStep, InTour, ActiveSteps

LEMMA StepSet ==
  ASSUME NEW pg, Fit(pg), NEW i \in 0 .. MaxSteps
  PROVE  /\ Fit([pg EXCEPT !.step = i])
         /\ ActiveSteps([pg EXCEPT !.step = i]) = ActiveSteps(pg)
         /\ [pg EXCEPT !.step = i].step = i
BY DEF Fit, PageType, ActiveSteps

LEMMA PendingSet ==
  ASSUME NEW pg, Fit(pg), NEW i \in 0 .. MaxSteps
  PROVE  /\ Fit([pg EXCEPT !.pendingStep = i])
         /\ SameStep([pg EXCEPT !.pendingStep = i], pg)
BY DEF Fit, PageType, SameStep

LEMMA GoToFit ==
  ASSUME NEW pg, Fit(pg), NEW i
  PROVE  /\ Fit(GoToTourStep(pg, i)) /\ GoToTourStep(pg, i).tours = pg.tours
         /\ InTour(pg) => InTour(GoToTourStep(pg, i))
<1>1. CASE i \notin DOMAIN ActiveSteps(pg)
  BY <1>1 DEF GoToTourStep
<1>2. CASE i \in DOMAIN ActiveSteps(pg)
  <2> DEFINE f == ActiveSteps(pg)[i].file
             at == [pg EXCEPT !.step = i]
             q == Open(at, f)
  <2>1. /\ i \in 1 .. Len(ActiveSteps(pg)) /\ i \in 0 .. MaxSteps /\ f \in Files
        /\ Len(ActiveSteps(pg)) \in Nat
    BY <1>2, ActiveTyped, NotNone DEF Step
  <2>2. /\ Fit(at) /\ ActiveSteps(at) = ActiveSteps(pg) /\ at.step = i
        /\ at.tours = pg.tours
    BY <2>1, StepSet DEF Fit, PageType
  <2>3. GoToTourStep(pg, i) = q \/ GoToTourStep(pg, i) = [q EXCEPT !.pendingStep = i]
    BY <1>2 DEF GoToTourStep
  <2> HIDE DEF f, at
  <2>4. Fit(q) /\ SameStep(q, at)
    BY <2>1, <2>2, OpenFit
  <2> HIDE DEF q
  <2>5. Fit([q EXCEPT !.pendingStep = i]) /\ SameStep([q EXCEPT !.pendingStep = i], q)
    BY <2>1, <2>4, PendingSet
  <2>6. InTour(at)
    BY <2>1, <2>2 DEF InTour
  <2>7. InTour(q)
    BY <2>4, <2>6, SameStepIn
  <2>8. InTour([q EXCEPT !.pendingStep = i])
    BY <2>5, <2>7, SameStepIn
  <2>9. q.tours = pg.tours /\ [q EXCEPT !.pendingStep = i].tours = pg.tours
    BY <2>2, <2>4, <2>5 DEF SameStep
  <2> QED
    BY <2>3, <2>4, <2>5, <2>7, <2>8, <2>9
<1> QED
  BY <1>1, <1>2

LEMMA SelectFit ==
  ASSUME NEW pg, Fit(pg), pg.bar, NEW id \in TourIds
  PROVE  Fit(SelectTourById(pg, id)) /\ InTour(SelectTourById(pg, id))
<1> DEFINE q == [pg EXCEPT !.active = IF pg.tours[id] = None THEN None ELSE id, !.step = 0]
<1>1. Fit(q) /\ q.step = 0
  <2>1. CASE pg.tours[id] = None
    <3>1. q = [pg EXCEPT !.active = None, !.step = 0]
      BY <2>1
    <3> HIDE DEF q
    <3> QED
      BY <3>1, NoSteps DEF Fit, PageType
  <2>2. CASE pg.tours[id] # None
    <3>1. q = [pg EXCEPT !.active = id, !.step = 0]
      BY <2>2
    <3> HIDE DEF q
    <3> QED
      BY <2>2, <3>1, NoSteps DEF Fit, PageType
  <2> QED
    BY <2>1, <2>2
<1>2. SelectTourById(pg, id) = GoToTourStep(q, 1)
  BY DEF SelectTourById
<1> HIDE DEF q
<1>3. InTour(q)
  BY <1>1, ActiveTyped, NotNone DEF InTour
<1> QED
  BY <1>1, <1>2, <1>3, GoToFit

LEMMA CloseFit ==
  ASSUME NEW pg, Fit(pg)
  PROVE  Fit(CloseTour(pg)) /\ InTour(CloseTour(pg))
BY NoSteps DEF CloseTour, Fit, PageType, InTour

LEMMA CancelFit ==
  ASSUME NEW pg, Fit(pg)
  PROVE  Fit(CancelTourCreation(pg)) /\ SameStep(CancelTourCreation(pg), pg)
<1>1. PICK d \in Steps : d = <<>>
  BY NoSteps
<1>2. CancelTourCreation(pg) =
        [pg EXCEPT !.creating = FALSE, !.editing = None, !.mark = 0, !.draft = d]
  BY <1>1 DEF CancelTourCreation
<1> QED
  BY <1>2, NoSteps DEF Fit, PageType, SameStep

LEMMA TourListFit ==
  ASSUME NEW pg, Fit(pg), NEW list \in Tours
  PROVE  Fit(OnTourList(pg, list)) /\ InTour(OnTourList(pg, list))
<1> DEFINE kept == OnTourListKeepStep(pg, list)
           len == Len(ActiveSteps(kept))
<1>1. Fit(kept) /\ kept.step = pg.step /\ pg.step \in 0 .. MaxSteps
  <2> DEFINE prev == IF pg.active # None THEN pg.active ELSE pg.select
  <2>1. CASE ~pg.bar
    BY <2>1 DEF OnTourListKeepStep, Fit, PageType
  <2>2. CASE pg.bar /\ prev = None
    BY <2>2 DEF OnTourListKeepStep, Fit, PageType
  <2>3. CASE pg.bar /\ prev # None /\ list[prev] = None
    BY <2>3 DEF OnTourListKeepStep, Fit, PageType
  <2>4. CASE pg.bar /\ prev # None /\ list[prev] # None
    <3>1. prev \in TourIds
      BY <2>4 DEF Fit, PageType
    <3>2. kept = [pg EXCEPT !.tours = list, !.select = None, !.active = prev]
      BY <2>4 DEF OnTourListKeepStep
    <3> HIDE DEF prev, kept
    <3> QED
      BY <2>4, <3>1, <3>2 DEF Fit, PageType
  <2> QED
    BY <2>1, <2>2, <2>3, <2>4
<1>2. len \in 0 .. MaxSteps
  BY <1>1, ActiveTyped
<1>3. OnTourList(pg, list) = IF kept.active = None \/ pg.step <= len THEN kept
                             ELSE [kept EXCEPT !.step = len]
  BY DEF OnTourList
<1> HIDE DEF kept
<1>4. CASE kept.active = None \/ pg.step <= len
  BY <1>1, <1>3, <1>4 DEF InTour
<1>5. CASE ~(kept.active = None \/ pg.step <= len)
  <2>1. /\ Fit([kept EXCEPT !.step = len]) /\ [kept EXCEPT !.step = len].step = len
        /\ ActiveSteps([kept EXCEPT !.step = len]) = ActiveSteps(kept)
    BY <1>1, <1>2, StepSet
  <2> QED
    BY <1>2, <1>3, <1>5, <2>1, NotNone DEF InTour
<1> QED
  BY <1>4, <1>5

LEMMA GuidedTourFit ==
  ASSUME NEW pg, Fit(pg), NEW s \in GuideStates
  PROVE  Fit(GuidedTour(pg, s))
<1>1. s.tour \in TourIds \cup {None} /\ s.step \in 0 .. MaxSteps
  BY DEF GuideStates
<1>2. CASE s.tour = None
  BY <1>2, CloseFit DEF GuidedTour
<1>3. CASE s.tour # None
  <2> DEFINE step == IF s.step = 0 THEN pg.step ELSE s.step
             q == [pg EXCEPT !.bar = TRUE, !.active = s.tour, !.step = step]
  <2>1. step \in 0 .. MaxSteps
    BY <1>1 DEF Fit, PageType
  <2>2. GuidedTour(pg, s) = IF pg.tours[s.tour] = None THEN pg ELSE q
    BY <1>3 DEF GuidedTour
  <2> HIDE DEF step
  <2>3. pg.tours[s.tour] # None => Fit(q)
    BY <1>1, <2>1 DEF Fit, PageType
  <2> QED
    BY <2>2, <2>3
<1> QED
  BY <1>2, <1>3

LEMMA ApplyFit ==
  ASSUME NEW pg, Fit(pg), NEW s \in GuideStates
  PROVE  Fit(ApplyGuideState(pg, s))
<1> DEFINE q == Open(GuidedTour(pg, s), s.file)
<1>1. s.file \in Files
  BY DEF GuideStates
<1>2. Fit(q)
  BY <1>1, GuidedTourFit, OpenFit
<1>3. ApplyGuideState(pg, s) = q \/ ApplyGuideState(pg, s) = [q EXCEPT !.pendingGuide = s]
  BY DEF ApplyGuideState
<1> HIDE DEF q
<1>4. Fit([q EXCEPT !.pendingGuide = s])
  BY <1>2 DEF Fit, PageType
<1> QED
  BY <1>2, <1>3, <1>4

LEMMA FileContentFit ==
  ASSUME NEW pg, Fit(pg), NEW f \in Files
  PROVE  /\ Fit(OnFileContent(pg, f))
         /\ ~(pg.pendingGuide # None /\ pg.pendingGuide.file = f)
               => OnFileContent(pg, f).tours = pg.tours
         /\ ~(pg.pendingGuide # None /\ pg.pendingGuide.file = f) /\ InTour(pg)
               => InTour(OnFileContent(pg, f))
<1> DEFINE got == [pg EXCEPT !.has = pg.has \cup {f}, !.view = f, !.pendingStep = 0]
           w == pg.pendingGuide # None /\ pg.pendingGuide.file = f
           a == ApplyGuideState(got, pg.pendingGuide)
           led == IF w THEN [a EXCEPT !.pendingGuide = None] ELSE got
<1>1. Fit(got) /\ SameStep(got, pg)
  BY NoSteps DEF Fit, PageType, SameStep
<1>2. OnFileContent(pg, f) = GoToTourStep(led, pg.pendingStep)
  BY DEF OnFileContent
<1>3. w => pg.pendingGuide \in GuideStates
  BY DEF Fit, PageType
<1> HIDE DEF got, w
<1>4. w => Fit(a)
  BY <1>1, <1>3, ApplyFit
<1> HIDE DEF a
<1>5. w => Fit([a EXCEPT !.pendingGuide = None])
  BY <1>4 DEF Fit, PageType
<1>6. Fit(led) /\ (~w => led = got)
  BY <1>1, <1>5
<1>7. InTour(pg) => InTour(got)
  BY <1>1, SameStepIn
<1>8. got.tours = pg.tours
  BY <1>1 DEF SameStep
<1> HIDE DEF led
<1> QED
  BY <1>2, <1>6, <1>7, <1>8, GoToFit DEF w

LEMMA FileChangedFit ==
  ASSUME NEW pg, Fit(pg), NEW f \in Files
  PROVE  Fit(OnFileChanged(pg, f)) /\ SameStep(OnFileChanged(pg, f), pg)
<1> DEFINE r == IF pg.view = f THEN pg.frames \cup {f} ELSE pg.frames
           q == [pg EXCEPT !.has = pg.has \cup {f}, !.frames = r]
<1>1. r \subseteq Files
  BY DEF Fit, PageType
<1>2. OnFileChanged(pg, f) = q
  BY DEF OnFileChanged
<1> HIDE DEF r
<1>3. Fit(q) /\ SameStep(q, pg)
  BY <1>1 DEF Fit, PageType, SameStep
<1> QED
  BY <1>2, <1>3

-----------------------------------------------------------------------------
(* Steps of the specification.                                             *)

(* What StepInTour says of a step.                                         *)
StepKept ==
    InTour(page) \/ page'.tours # page.tours
    => InTour(page') \/ (down # <<>> /\ Led(Head(down)))

(* A page that the step may lead to.                                       *)
Allowed(pg) ==
    Fit(pg) /\ (InTour(pg) \/ (pg.tours = page.tours /\ (InTour(page) => InTour(pg))))

LEMMA AllowedKept ==
  ASSUME Allowed(page')
  PROVE  Fit(page') /\ StepKept
BY DEF Allowed, StepKept

LEMMA SameAllowed ==
  ASSUME NEW pg, Fit(pg), SameStep(pg, page)
  PROVE  Allowed(pg)
<1>1. pg.tours = page.tours
  BY DEF SameStep
<1>2. InTour(page) => InTour(pg)
  BY SameStepIn
<1> QED
  BY <1>1, <1>2 DEF Allowed

LEMMA GoToAllowed ==
  ASSUME BoardInv, NEW i
  PROVE  Allowed(GoToTourStep(page, i))
BY GoToFit DEF BoardInv, Allowed

LEMMA EventTyped ==
  ASSUME TypeOK, Event \/ TwoEvents
  PROVE  events' \in 0 .. MaxEvents
BY NotNone DEF TypeOK, Event, TwoEvents

LEMMA TellTyped ==
  ASSUME TypeOK, NEW m \in Msgs, Tell(m)
  PROVE  down' \in Seq(Msgs)
BY DEF TypeOK, Tell

LEMMA SetToursTyped ==
  ASSUME TypeOK, NEW t \in Tours, SetTours(t)
  PROVE  tours' \in Tours /\ down' \in Seq(Msgs)
<1>1. TourList(t) \in Msgs
  BY DEF TourList, Msgs
<1> QED
  BY <1>1, TellTyped DEF SetTours

LEMMA SetNoteTyped ==
  ASSUME TypeOK, NEW n \in Note \cup {None}, SetNote(n)
  PROVE  note' \in Note \cup {None} /\ down' \in Seq(Msgs)
<1>1. NoteList(n) \in Msgs
  BY DEF NoteList, Msgs
<1> QED
  BY <1>1, TellTyped DEF SetNote

(* A step of the page alone.                                               *)
LEMMA SilentKept ==
  ASSUME BoardInv, Event \/ (UNCHANGED events), Silent, Allowed(page'),
         saved' \in TourIds \cup {None}, roaming' \in BOOLEAN,
         guided' \in GuideStates \cup {None}
  PROVE  TypeOK' /\ Fit(page') /\ StepKept
<1>1. Fit(page') /\ StepKept
  BY AllowedKept
<1>2. events' \in 0 .. MaxEvents
  BY EventTyped DEF BoardInv, TypeOK
<1>3. page' \in PageType /\ page'.view \in page'.has \cup {None}
  BY <1>1 DEF Fit
<1>4. TypeOK'
  BY <1>2, <1>3 DEF BoardInv, TypeOK, Silent, Keep
<1> QED
  BY <1>1, <1>4

LEMMA ShowStepKept ==
  ASSUME BoardInv, Event, Silent, NEW pg, Allowed(pg), ShowStep(pg)
  PROVE  TypeOK' /\ Fit(page') /\ StepKept
<1>1. page' = pg /\ saved' = None /\ guided' = None
  BY DEF ShowStep
<1>2. roaming' \in BOOLEAN
  BY DEF ShowStep
<1> QED
  BY <1>1, <1>2, SilentKept

LEMMA RoamKept ==
  ASSUME BoardInv, Event, Silent, NEW pg, Allowed(pg), Roam(pg)
  PROVE  TypeOK' /\ Fit(page') /\ StepKept
<1>1. page' = pg /\ roaming' = TRUE /\ guided' = None /\ UNCHANGED saved
  BY DEF Roam
<1> QED
  BY <1>1, SilentKept DEF BoardInv, TypeOK

LEMMA PanelKept ==
  ASSUME BoardInv, Event, NEW pg, Fit(pg), SameStep(pg, page), Panel(pg)
  PROVE  TypeOK' /\ Fit(page') /\ StepKept
<1>1. page' = pg /\ UNCHANGED histVars /\ Silent
  BY DEF Panel
<1>2. Allowed(page')
  BY <1>1, SameAllowed
<1> QED
  BY <1>1, <1>2, SilentKept DEF BoardInv, TypeOK, histVars

LEMMA OpenAllowed ==
  ASSUME BoardInv, NEW f \in Files
  PROVE  Allowed(Open(page, f))
BY OpenFit, SameAllowed DEF BoardInv

LEMMA ToggleKept ==
  ASSUME BoardInv, ToggleTourBar
  PROVE  TypeOK' /\ Fit(page') /\ StepKept
<1> DEFINE open == [page EXCEPT !.bar = TRUE]
<1>1. Event /\ Silent
  BY DEF ToggleTourBar
<1>2. Fit(page)
  BY DEF BoardInv
<1>3. Fit(open) /\ open.bar /\ SameStep(open, page)
  BY <1>2 DEF Fit, PageType, SameStep
<1>4. CASE page.bar
  <2>1. Allowed(CloseTour(page))
    BY <1>2, CloseFit DEF Allowed
  <2>2. ShowStep(CloseTour(page))
    BY <1>4 DEF ToggleTourBar
  <2> QED
    BY <1>1, <2>1, <2>2, ShowStepKept
<1>5. CASE ~page.bar
  <2>1. ShowStep(open) \/ \E t \in TourIds : ShowStep(SelectTourById(open, t))
    BY <1>5 DEF ToggleTourBar
  <2> HIDE DEF open
  <2>2. Allowed(open)
    BY <1>3, SameAllowed
  <2>3. \A t \in TourIds : Allowed(SelectTourById(open, t))
    BY <1>3, SelectFit DEF Allowed
  <2>4. CASE ShowStep(open)
    BY <1>1, <2>2, <2>4, ShowStepKept
  <2>5. CASE \E t \in TourIds : ShowStep(SelectTourById(open, t))
    BY <1>1, <2>3, <2>5, ShowStepKept
  <2> QED
    BY <2>1, <2>4, <2>5
<1> QED
  BY <1>4, <1>5

LEMMA SelectTourKept ==
  ASSUME BoardInv, NEW t \in TourIds, SelectTour(t)
  PROVE  TypeOK' /\ Fit(page') /\ StepKept
<1>1. Event /\ Silent /\ page.bar /\ ShowStep(SelectTourById(page, t))
  BY DEF SelectTour
<1>2. Allowed(SelectTourById(page, t))
  BY <1>1, SelectFit DEF BoardInv, Allowed
<1> QED
  BY <1>1, <1>2, ShowStepKept

LEMMA TourToKept ==
  ASSUME BoardInv, NEW i, TourTo(i)
  PROVE  TypeOK' /\ Fit(page') /\ StepKept
<1>1. Event /\ Silent /\ ShowStep(GoToTourStep(page, i))
  BY DEF TourTo
<1> QED
  BY <1>1, GoToAllowed, ShowStepKept

LEMMA OpenFileKept ==
  ASSUME BoardInv, NEW f \in Files, OpenFile(f)
  PROVE  TypeOK' /\ Fit(page') /\ StepKept
<1>1. Event /\ Silent /\ Roam(Open(page, f))
  BY DEF OpenFile
<1> QED
  BY <1>1, OpenAllowed, RoamKept

LEMMA StartKept ==
  ASSUME BoardInv, StartTourCreation
  PROVE  TypeOK' /\ Fit(page') /\ StepKept
<1>1. PICK d \in Steps : d = <<>>
  BY NoSteps
<1> DEFINE q == [page EXCEPT !.editing = None, !.creating = TRUE, !.draft = d,
                             !.active = None, !.step = 0]
<1>2. /\ Event /\ Silent /\ page' = q
      /\ saved' = None /\ guided' = None /\ UNCHANGED roaming
  BY <1>1 DEF StartTourCreation
<1>3. Fit(q) /\ q.active = None
  BY NoSteps DEF BoardInv, Fit, PageType
<1> HIDE DEF q
<1>4. Allowed(page')
  BY <1>2, <1>3 DEF Allowed, InTour
<1> QED
  BY <1>2, <1>4, SilentKept DEF BoardInv, TypeOK

LEMMA EditKept ==
  ASSUME BoardInv, EditCurrentTour
  PROVE  TypeOK' /\ Fit(page') /\ StepKept
<1> DEFINE d == ActiveSteps(page)
           q == [page EXCEPT !.editing = page.active, !.creating = TRUE, !.draft = d,
                             !.step = 0]
<1>1. /\ Event /\ Silent /\ page' = q /\ page.active # None
      /\ saved' = None /\ guided' = None /\ UNCHANGED roaming
  BY DEF EditCurrentTour
<1>2. d \in Steps
  BY ActiveTyped DEF BoardInv
<1> HIDE DEF d
<1>3. Fit(q) /\ q.step = 0
  BY <1>2, NoSteps DEF BoardInv, Fit, PageType
<1> HIDE DEF q
<1>4. InTour(q)
  BY <1>3, ActiveTyped, NotNone DEF InTour
<1>5. Allowed(page')
  BY <1>1, <1>3, <1>4 DEF Allowed
<1> QED
  BY <1>1, <1>5, SilentKept DEF BoardInv, TypeOK

LEMMA CancelKept ==
  ASSUME BoardInv, CancelCreation
  PROVE  TypeOK' /\ Fit(page') /\ StepKept
<1>1. Event /\ Panel(CancelTourCreation(page))
  BY DEF CancelCreation
<1> QED
  BY <1>1, CancelFit, PanelKept DEF BoardInv

LEMMA RemoveStepKept ==
  ASSUME BoardInv, NEW i \in DOMAIN page.draft, RemoveStep(i)
  PROVE  TypeOK' /\ Fit(page') /\ StepKept
<1> DEFINE d == RemoveAt(page.draft, i)
           k == IF page.mark = i THEN 0 ELSE page.mark
           q == [page EXCEPT !.draft = d, !.mark = k]
<1>1. Event /\ Panel(q)
  BY DEF RemoveStep
<1>2. page.draft \in Steps /\ page.mark \in 0 .. MaxSteps
  BY DEF BoardInv, Fit, PageType
<1>3. d \in Steps /\ k \in 0 .. MaxSteps
  BY <1>2, RemoveAtSteps, NoSteps
<1> HIDE DEF d, k
<1>4. Fit(q) /\ SameStep(q, page)
  BY <1>3 DEF BoardInv, Fit, PageType, SameStep
<1> HIDE DEF q
<1> QED
  BY <1>1, <1>4, PanelKept

LEMMA MoveStepKept ==
  ASSUME BoardInv, NEW i \in DOMAIN page.draft, MoveStep(i)
  PROVE  TypeOK' /\ Fit(page') /\ StepKept
<1> DEFINE c == [page.draft EXCEPT ![i] = page.draft[i + 1]]
           d == [c EXCEPT ![i + 1] = page.draft[i]]
           q == [page EXCEPT !.draft = d]
<1>1. /\ Event /\ i + 1 \in DOMAIN page.draft
      /\ Panel([page EXCEPT !.draft[i] = page.draft[i + 1], !.draft[i + 1] = page.draft[i]])
  BY DEF MoveStep
<1>2. page.draft \in Steps /\ page \in PageType
  BY DEF BoardInv, Fit, PageType
<1>3. page.draft[i] \in Step /\ page.draft[i + 1] \in Step
  BY <1>1, <1>2, StepsAre
<1>4. c \in Steps
  BY <1>2, <1>3, ExceptSteps
<1>5. [page EXCEPT !.draft[i] = page.draft[i + 1], !.draft[i + 1] = page.draft[i]] = q
  BY <1>2 DEF PageType
<1> HIDE DEF c
<1>6. d \in Steps
  BY <1>3, <1>4, ExceptSteps
<1> HIDE DEF d
<1>7. Fit(q) /\ SameStep(q, page)
  BY <1>6 DEF BoardInv, Fit, PageType, SameStep
<1> HIDE DEF q
<1> QED
  BY <1>1, <1>5, <1>7, PanelKept

LEMMA ReanchorStepKept ==
  ASSUME BoardInv, NEW i \in DOMAIN page.draft, ReanchorStep(i)
  PROVE  TypeOK' /\ Fit(page') /\ StepKept
<1> DEFINE k == IF page.mark = i THEN 0 ELSE i
           q == [page EXCEPT !.mark = k]
<1>1. Event /\ Panel(q)
  BY DEF ReanchorStep
<1>2. page.draft \in Seq(Step) /\ Len(page.draft) <= MaxSteps /\ Len(page.draft) \in Nat
  BY StepsAre DEF BoardInv, Fit, PageType
<1>3. k \in 0 .. MaxSteps
  BY <1>2, NotNone, NoSteps
<1> HIDE DEF k
<1>4. Fit(q) /\ SameStep(q, page)
  BY <1>3 DEF BoardInv, Fit, PageType, SameStep
<1> HIDE DEF q
<1> QED
  BY <1>1, <1>4, PanelKept

LEMMA GoToNewStepKept ==
  ASSUME BoardInv, NEW i \in DOMAIN page.draft, GoToNewStep(i)
  PROVE  TypeOK' /\ Fit(page') /\ StepKept
<1>1. Event /\ Silent /\ Roam(Open(page, page.draft[i].file))
  BY DEF GoToNewStep
<1>2. page.draft[i] \in Step
  BY StepsAre DEF BoardInv, Fit, PageType
<1>3. page.draft[i].file \in Files
  BY <1>2 DEF Step
<1> QED
  BY <1>1, <1>3, OpenAllowed, RoamKept

LEMMA SaveTourKept ==
  ASSUME BoardInv, NEW t \in TourIds, SaveTour(t)
  PROVE  TypeOK' /\ Fit(page') /\ StepKept
<1> DEFINE d == Append(page.sending, [tour |-> t, steps |-> page.draft])
           q == [page EXCEPT !.sending = d]
<1>1. Event /\ Panel(q)
  BY DEF SaveTour
<1>2. page.sending \in Seq(Sending) /\ [tour |-> t, steps |-> page.draft] \in Sending
  BY DEF BoardInv, Fit, PageType, Sending
<1>3. d \in Seq(Sending)
  BY <1>2
<1> HIDE DEF d
<1>4. Fit(q) /\ SameStep(q, page)
  BY <1>3 DEF BoardInv, Fit, PageType, SameStep
<1> HIDE DEF q
<1> QED
  BY <1>1, <1>4, PanelKept

LEMMA SendTourKept ==
  ASSUME BoardInv, NEW i \in DOMAIN page.sending, SendTour(i)
  PROVE  TypeOK' /\ Fit(page') /\ StepKept
<1> DEFINE t == page.sending[i].tour
           new == [tours EXCEPT ![t] = page.sending[i].steps]
           c == CancelTourCreation(page)
           d == RemoveAt(page.sending, i)
           q == [c EXCEPT !.select = t, !.sending = d]
<1>1. page.sending \in Seq(Sending) /\ t \in TourIds /\ page.sending[i].steps \in Steps
  BY SendingTyped DEF BoardInv
<1>2. c.sending = page.sending
  BY DEF CancelTourCreation, BoardInv, Fit, PageType
<1>3. /\ page' = q /\ SetTours(new) /\ saved' \in {t, None}
      /\ UNCHANGED <<note, roaming, guided, events>>
  BY <1>2 DEF SendTour
<1>4. d \in Seq(Sending)
  BY <1>1, RemoveAtSending
<1>5. new \in Tours
  BY <1>1 DEF BoardInv, TypeOK, Tours
<1> HIDE DEF new, t, d
<1>6. tours' \in Tours /\ down' \in Seq(Msgs)
  BY <1>3, <1>5, SetToursTyped DEF BoardInv
<1>7. Fit(c) /\ SameStep(c, page)
  BY CancelFit DEF BoardInv
<1> HIDE DEF c
<1>8. Fit(q) /\ SameStep(q, page)
  BY <1>1, <1>4, <1>7 DEF Fit, PageType, SameStep
<1> HIDE DEF q
<1>9. Fit(page') /\ StepKept
  BY <1>3, <1>8, SameAllowed, AllowedKept
<1>10. TypeOK'
  BY <1>1, <1>3, <1>6, <1>9 DEF BoardInv, TypeOK, Fit
<1> QED
  BY <1>9, <1>10

LEMMA DeleteKept ==
  ASSUME BoardInv, DeleteCurrentTour
  PROVE  TypeOK' /\ Fit(page') /\ StepKept
<1> DEFINE id == IF page.editing # None THEN page.editing ELSE page.active
           new == [tours EXCEPT ![id] = None]
           c == CancelTourCreation(page)
           q == [c EXCEPT !.active = None, !.step = 0]
<1>1. /\ Event /\ page' = q /\ SetTours(new) /\ saved' = None /\ guided' = None
      /\ UNCHANGED <<note, roaming>>
  BY DEF DeleteCurrentTour
<1>2. new \in Tours
  BY DEF BoardInv, TypeOK, Tours
<1> HIDE DEF new
<1>3. tours' \in Tours /\ down' \in Seq(Msgs)
  BY <1>1, <1>2, SetToursTyped DEF BoardInv
<1>4. Fit(c)
  BY CancelFit DEF BoardInv
<1> HIDE DEF c
<1>5. Fit(q) /\ q.active = None
  BY <1>4, NoSteps DEF Fit, PageType
<1> HIDE DEF q
<1>6. Fit(page') /\ StepKept
  BY <1>1, <1>5, AllowedKept DEF Allowed, InTour
<1>7. events' \in 0 .. MaxEvents
  BY <1>1, EventTyped DEF BoardInv
<1>8. TypeOK'
  BY <1>1, <1>3, <1>6, <1>7 DEF BoardInv, TypeOK, Fit
<1> QED
  BY <1>6, <1>8

LEMMA AddStepKept ==
  ASSUME BoardInv, Event, page.view # None, NEW line \in Lines, AddTourStepAtLine(line)
  PROVE  TypeOK' /\ Fit(page') /\ StepKept
<1> DEFINE step(title) == [file |-> page.view, line |-> line, title |-> title]
<1>1. page \in PageType /\ page.draft \in Steps /\ page.draft \in Seq(Step)
  BY StepsAre DEF BoardInv, Fit, PageType
<1>2. \A title \in 0 .. MaxEvents : step(title) \in Step
  BY <1>1 DEF PageType, Step
<1>3. events' \in 0 .. MaxEvents
  BY EventTyped DEF BoardInv
<1>4. CASE page.mark \in DOMAIN page.draft
  <2> DEFINE x == step(page.draft[page.mark].title)
             d == [page.draft EXCEPT ![page.mark] = x]
             q == [page EXCEPT !.draft = d, !.mark = 0]
  <2>1. Panel(q)
    BY <1>4 DEF AddTourStepAtLine
  <2>2. page.draft[page.mark].title \in 0 .. MaxEvents
    <3>1. page.draft[page.mark] \in Step
      BY <1>1, <1>4
    <3> QED
      BY <3>1 DEF Step
  <2>3. x \in Step
    BY <1>2, <2>2
  <2> HIDE DEF x
  <2>4. d \in Steps
    BY <1>1, <2>3, ExceptSteps
  <2> HIDE DEF d
  <2>5. Fit(q) /\ SameStep(q, page)
    BY <2>4, NoSteps DEF BoardInv, Fit, PageType, SameStep
  <2> HIDE DEF q
  <2> QED
    BY <2>1, <2>5, PanelKept
<1>5. CASE page.mark \notin DOMAIN page.draft
  <2> DEFINE x == step(events')
             d == Append(page.draft, x)
             q == [page EXCEPT !.draft = d]
  <2>1. Len(page.draft) < MaxSteps /\ Panel(q)
    BY <1>5 DEF AddTourStepAtLine
  <2>2. x \in Step
    BY <1>2, <1>3
  <2> HIDE DEF x
  <2>3. d \in Steps
    BY <1>1, <2>1, <2>2, AppendSteps
  <2> HIDE DEF d
  <2>4. Fit(q) /\ SameStep(q, page)
    BY <2>3 DEF BoardInv, Fit, PageType, SameStep
  <2> HIDE DEF q
  <2> QED
    BY <2>1, <2>4, PanelKept
<1> QED
  BY <1>4, <1>5

LEMMA GutterClickKept ==
  ASSUME BoardInv, NEW line \in Lines, GutterClick(line)
  PROVE  TypeOK' /\ Fit(page') /\ StepKept
<1> DEFINE b == [file |-> page.view, line |-> line]
           q == [page EXCEPT !.box = b]
<1>1. Event /\ page.view # None
  BY DEF GutterClick
<1>2. \/ AddTourStepAtLine(line)
      \/ Silent /\ \E i \in StepsAt(line) : ShowStep(GoToTourStep(page, i))
      \/ page' = q /\ UNCHANGED histVars /\ Silent
  BY DEF GutterClick
<1>3. b \in Box
  BY <1>1 DEF Box, BoardInv, Fit, PageType
<1> HIDE DEF b
<1>4. Fit(q) /\ SameStep(q, page)
  BY <1>3 DEF BoardInv, Fit, PageType, SameStep
<1> HIDE DEF q
<1>5. CASE AddTourStepAtLine(line)
  BY <1>1, <1>5, AddStepKept
<1>6. CASE Silent /\ \E i \in StepsAt(line) : ShowStep(GoToTourStep(page, i))
  BY <1>1, <1>6, GoToAllowed, ShowStepKept
<1>7. CASE page' = q /\ UNCHANGED histVars /\ Silent
  <2>1. Allowed(page')
    BY <1>4, <1>7, SameAllowed
  <2> QED
    BY <1>1, <1>7, <2>1, SilentKept DEF BoardInv, TypeOK, histVars
<1> QED
  BY <1>2, <1>5, <1>6, <1>7

LEMMA SymbolTyped ==
  ASSUME NEW line
  PROVE  SymbolAt(line) \in Files \cup {None}
BY DEF SymbolAt

(* A step of the relay's rows of comments.                                 *)
LEMMA NoteKept ==
  ASSUME BoardInv, Event \/ (UNCHANGED events), Allowed(page'),
         note' \in Note \cup {None}, down' \in Seq(Msgs),
         UNCHANGED <<tours, histVars>>
  PROVE  TypeOK' /\ Fit(page') /\ StepKept
<1>1. Fit(page') /\ StepKept
  BY AllowedKept
<1>2. events' \in 0 .. MaxEvents
  BY EventTyped DEF BoardInv, TypeOK
<1>3. TypeOK'
  BY <1>1, <1>2 DEF BoardInv, TypeOK, Fit, histVars
<1> QED
  BY <1>1, <1>3

LEMMA AddCommentKept ==
  ASSUME BoardInv, AddComment
  PROVE  TypeOK' /\ Fit(page') /\ StepKept
<1> DEFINE n == [file |-> page.box.file, line |-> page.box.line,
                 sym |-> SymbolAt(page.box.line), gone |-> FALSE]
           q == [page EXCEPT !.box = None]
<1>1. /\ Event /\ page.box # None /\ SetNote(n) /\ page' = q
      /\ UNCHANGED <<tours, histVars>>
  BY DEF AddComment
<1>2. page.box \in Box
  BY <1>1 DEF BoardInv, Fit, PageType
<1>3. n \in Note
  <2>1. page.box.file \in Files /\ page.box.line \in Lines
    BY <1>2 DEF Box
  <2>2. SymbolAt(page.box.line) \in Files \cup {None}
    BY SymbolTyped
  <2> QED
    BY <2>1, <2>2 DEF Note
<1>4. Fit(q) /\ SameStep(q, page)
  BY DEF BoardInv, Fit, PageType, SameStep
<1> HIDE DEF n, q
<1>5. note' \in Note \cup {None} /\ down' \in Seq(Msgs)
  BY <1>1, <1>3, SetNoteTyped DEF BoardInv
<1>6. Allowed(page')
  BY <1>1, <1>4, SameAllowed
<1> QED
  BY <1>1, <1>5, <1>6, NoteKept

LEMMA StutterAllowed ==
  ASSUME BoardInv
  PROVE  Allowed(page)
BY DEF BoardInv, Allowed

LEMMA JumpKept ==
  ASSUME BoardInv, JumpToComment
  PROVE  TypeOK' /\ Fit(page') /\ StepKept
<1>1. Event /\ Silent /\ page.note # None /\ Roam(Open(page, page.note.file))
  BY DEF JumpToComment
<1>2. page.note.file \in Files
  BY <1>1 DEF BoardInv, Fit, PageType, Note
<1> QED
  BY <1>1, <1>2, OpenAllowed, RoamKept

LEMMA OthersEditKept ==
  ASSUME BoardInv, NEW t \in TourIds, OthersEdit(t)
  PROVE  TypeOK' /\ Fit(page') /\ StepKept
<1>1. PICK new \in {RemoveAt(tours[t], i) : i \in DOMAIN tours[t]}
                   \cup {Reverse(tours[t]), None} :
        SetTours([tours EXCEPT ![t] = new])
  BY DEF OthersEdit
<1>2. /\ Event /\ tours[t] # None /\ saved' \in {saved, None}
      /\ UNCHANGED <<note, page, roaming, guided>>
  BY DEF OthersEdit
<1>3. tours \in Tours /\ tours[t] \in Steps
  BY <1>2 DEF BoardInv, TypeOK, Tours
<1>4. new \in Steps \cup {None}
  BY <1>1, <1>3, RemoveAtSteps, ReverseSteps
<1>5. [tours EXCEPT ![t] = new] \in Tours
  BY <1>3, <1>4 DEF Tours
<1>6. tours' \in Tours /\ down' \in Seq(Msgs)
  BY <1>1, <1>5, SetToursTyped DEF BoardInv
<1>7. Fit(page') /\ StepKept
  BY <1>2, StutterAllowed, AllowedKept
<1>8. events' \in 0 .. MaxEvents
  BY <1>2, EventTyped DEF BoardInv
<1>9. TypeOK'
  BY <1>2, <1>6, <1>7, <1>8 DEF BoardInv, TypeOK, Fit
<1> QED
  BY <1>7, <1>9

LEMMA GuideShowsKept ==
  ASSUME BoardInv, NEW s \in GuideStates, GuideShows(s)
  PROVE  TypeOK' /\ Fit(page') /\ StepKept
<1>1. TwoEvents /\ Tell(GuideState(s)) /\ UNCHANGED <<tours, note, page, histVars>>
  BY DEF GuideShows
<1>2. GuideState(s) \in Msgs
  BY DEF GuideState, Msgs
<1>3. down' \in Seq(Msgs) /\ events' \in 0 .. MaxEvents
  BY <1>1, <1>2, TellTyped, EventTyped DEF BoardInv
<1>4. Fit(page') /\ StepKept
  BY <1>1, StutterAllowed, AllowedKept
<1>5. TypeOK'
  BY <1>1, <1>3 DEF BoardInv, TypeOK, histVars
<1> QED
  BY <1>4, <1>5

LEMMA FileChangesKept ==
  ASSUME BoardInv, NEW f \in Files, FileChanges(f)
  PROVE  TypeOK' /\ Fit(page') /\ StepKept
<1>1. /\ Event /\ Tell(File("file_changed", f))
      /\ UNCHANGED <<tours, note, page, histVars>>
  BY DEF FileChanges
<1>2. File("file_changed", f) \in Msgs
  BY DEF File, Msgs
<1>3. down' \in Seq(Msgs) /\ events' \in 0 .. MaxEvents
  BY <1>1, <1>2, TellTyped, EventTyped DEF BoardInv
<1>4. Fit(page') /\ StepKept
  BY <1>1, StutterAllowed, AllowedKept
<1>5. TypeOK'
  BY <1>1, <1>3 DEF BoardInv, TypeOK, histVars
<1> QED
  BY <1>4, <1>5

LEMMA AnswerKept ==
  ASSUME BoardInv, NEW f \in Files, Answer(f)
  PROVE  TypeOK' /\ Fit(page') /\ StepKept
<1> DEFINE q == [page EXCEPT !.asked = page.asked \ {f}]
<1>1. /\ page' = q /\ Tell(File("file_content", f))
      /\ UNCHANGED <<tours, note, histVars, events>>
  BY DEF Answer
<1>3. File("file_content", f) \in Msgs
  BY DEF File, Msgs
<1>4. down' \in Seq(Msgs)
  BY <1>1, <1>3, TellTyped DEF BoardInv
<1>5. Fit(q) /\ SameStep(q, page)
  BY DEF BoardInv, Fit, PageType, SameStep
<1> HIDE DEF q
<1>6. Fit(page') /\ StepKept
  BY <1>1, <1>5, SameAllowed, AllowedKept
<1>7. TypeOK'
  BY <1>1, <1>4, <1>6 DEF BoardInv, TypeOK, histVars, Fit
<1> QED
  BY <1>6, <1>7

LEMMA ReanchoredTyped ==
  ASSUME NEW n \in Note
  PROVE  Reanchored(n) \in Note
BY DEF Reanchored, Note

LEMMA FrameKept ==
  ASSUME BoardInv, NEW f \in Files, Frame(f)
  PROVE  TypeOK' /\ Fit(page') /\ StepKept
<1> DEFINE q == [page EXCEPT !.frames = page.frames \ {f}]
<1>1. /\ page' = q
      /\ \/ page.note # None /\ SetNote(Reanchored(page.note))
         \/ UNCHANGED <<note, down>>
      /\ UNCHANGED <<tours, histVars, events>>
  BY DEF Frame, histVars
<1>2. note' \in Note \cup {None} /\ down' \in Seq(Msgs)
  <2>1. CASE page.note # None /\ SetNote(Reanchored(page.note))
    <3>1. page.note \in Note
      BY <2>1 DEF BoardInv, Fit, PageType
    <3>2. Reanchored(page.note) \in Note
      BY <3>1, ReanchoredTyped
    <3> QED
      BY <2>1, <3>2, SetNoteTyped DEF BoardInv
  <2>2. CASE UNCHANGED <<note, down>>
    BY <2>2 DEF BoardInv, TypeOK
  <2> QED
    BY <1>1, <2>1, <2>2
<1>3. Fit(q) /\ SameStep(q, page)
  BY DEF BoardInv, Fit, PageType, SameStep
<1> HIDE DEF q
<1>4. Allowed(page')
  BY <1>1, <1>3, SameAllowed
<1> QED
  BY <1>1, <1>2, <1>4, NoteKept DEF BoardInv, TypeOK

(* What comes is taken in: only a guide's state, or the file that one      *)
(* waits for, may lead to a step that the tour has not.                    *)
LEMMA DeliverKept ==
  ASSUME BoardInv, Deliver
  PROVE  TypeOK' /\ Fit(page') /\ StepKept
<1> DEFINE m == Head(down)
<1>1. /\ down # <<>> /\ down \in Seq(Msgs) /\ Fit(page)
      /\ down' = Tail(down) /\ UNCHANGED <<tours, note, events>>
  BY DEF Deliver, BoardInv, TypeOK
<1>2. m \in Msgs /\ down' \in Seq(Msgs)
  BY <1>1
<1>3. saved \in TourIds \cup {None} /\ roaming \in BOOLEAN /\ guided \in GuideStates \cup {None}
  BY DEF BoardInv, TypeOK
<1>4. SUFFICES /\ Fit(page') /\ StepKept
               /\ saved' \in TourIds \cup {None} /\ roaming' \in BOOLEAN
               /\ guided' \in GuideStates \cup {None}
  BY <1>1, <1>2 DEF BoardInv, TypeOK, Fit
<1>5. CASE m.type = "tour_list"
  <2>1. m.list \in Tours
    BY <1>2, <1>5 DEF Msgs
  <2>2. /\ page' = OnTourList(page, m.list) /\ UNCHANGED saved
        /\ roaming' = (roaming \/ Shown(page') # Shown(page))
        /\ guided' \in {guided, None}
    BY <1>5 DEF Deliver
  <2>3. Fit(page') /\ InTour(page')
    BY <1>1, <2>1, <2>2, TourListFit
  <2>4. roaming' \in BOOLEAN
    BY <2>2
  <2> QED
    BY <1>3, <2>2, <2>3, <2>4 DEF StepKept
<1>6. CASE m.type = "comment_list"
  <2> DEFINE q == [page EXCEPT !.note = m.note]
  <2>1. m.note \in Note \cup {None}
    BY <1>2, <1>6 DEF Msgs
  <2>2. page' = q /\ UNCHANGED <<saved, roaming, guided>>
    BY <1>6 DEF Deliver
  <2> HIDE DEF m
  <2>3. Fit(q) /\ SameStep(q, page)
    BY <1>1, <2>1 DEF Fit, PageType, SameStep
  <2> HIDE DEF q
  <2>4. Fit(page') /\ StepKept
    BY <2>2, <2>3, SameAllowed, AllowedKept
  <2> QED
    BY <1>3, <2>2, <2>4
<1>7. CASE m.type = "file_content"
  <2>1. m.file \in Files
    BY <1>2, <1>7 DEF Msgs
  <2>2. page' = OnFileContent(page, m.file)
    BY <1>7 DEF Deliver
  <2>3. \/ /\ Waited(m.file) /\ saved' = None /\ roaming' = TRUE /\ guided' \in {guided, None}
        \/ ~Waited(m.file) /\ UNCHANGED <<saved, roaming, guided>>
    BY <1>7 DEF Deliver
  <2>4. /\ Fit(page')
        /\ ~Waited(m.file) => page'.tours = page.tours /\ (InTour(page) => InTour(page'))
    BY <1>1, <2>1, <2>2, FileContentFit DEF Waited
  <2>5. Waited(m.file) => Led(Head(down))
    BY <1>7 DEF Led
  <2>6. StepKept
    BY <1>1, <2>4, <2>5 DEF StepKept
  <2> QED
    BY <1>3, <2>3, <2>4, <2>6
<1>8. CASE m.type = "file_changed"
  <2>1. m.file \in Files
    BY <1>2, <1>8 DEF Msgs
  <2>2. page' = OnFileChanged(page, m.file) /\ UNCHANGED <<saved, roaming, guided>>
    BY <1>8 DEF Deliver
  <2>3. Fit(page') /\ SameStep(page', page)
    BY <1>1, <2>1, <2>2, FileChangedFit
  <2>4. Fit(page') /\ StepKept
    BY <2>3, SameAllowed, AllowedKept
  <2> QED
    BY <1>3, <2>2, <2>4
<1>9. CASE m.type = "guide_state"
  <2>1. m.state \in GuideStates
    BY <1>2, <1>9 DEF Msgs
  <2>2. /\ page' = ApplyGuideState(page, m.state)
        /\ guided' \in {None, m.state} /\ saved' = None /\ roaming' = TRUE
    BY <1>9 DEF Deliver
  <2>3. Fit(page')
    BY <1>1, <2>1, <2>2, ApplyFit
  <2>4. StepKept
    BY <1>1, <1>9 DEF StepKept, Led
  <2> QED
    BY <2>1, <2>2, <2>3, <2>4
<1> QED
  BY <1>5, <1>6, <1>7, <1>8, <1>9 DEF Deliver

LEMMA InitInv == Init => BoardInv
<1> SUFFICES ASSUME Init PROVE BoardInv
  OBVIOUS
<1>0. <<>> \in Steps /\ <<>> \in Seq(Sending)
  BY NoSteps
<1>1. PICK f \in Opened, d \in Steps, e \in Seq(Sending) :
        /\ d = <<>> /\ e = <<>>
        /\ page = [tours |-> tours, note |-> note, has |-> Opened, view |-> f, asked |-> {},
                   frames |-> {},
                   bar |-> FALSE, active |-> None, step |-> 0, pendingStep |-> 0,
                   pendingGuide |-> None, creating |-> FALSE, editing |-> None, draft |-> d,
                   mark |-> 0, select |-> None, sending |-> e, box |-> None]
  BY <1>0 DEF Init
<1>2. /\ f \in Files /\ Opened \subseteq Files /\ 1 \in Lines
      /\ 0 \in 0 .. MaxEvents
  BY NotNone DEF Lines
<1>3. note \in Note \cup {None}
  <2>1. \/ note = None
        \/ \E g \in Opened : note = [file |-> g, line |-> 1, sym |-> SymbolAt(1), gone |-> FALSE]
    BY DEF Init
  <2>2. \A g \in Opened :
          [file |-> g, line |-> 1, sym |-> SymbolAt(1), gone |-> FALSE] \in Note
    BY <1>2, SymbolTyped DEF Note
  <2> QED
    BY <2>1, <2>2
<1>4. tours \in Tours
  BY NotNone DEF Init
<1>5. Fit(page)
  <2>1. page \in PageType
    BY <1>1, <1>2, <1>3, <1>4, NoSteps DEF PageType
  <2> QED
    BY <1>1, <2>1 DEF Fit
<1>6. TypeOK
  <2>1. /\ down = <<>> /\ saved = None /\ roaming = FALSE /\ guided = None
        /\ events = 0
    BY DEF Init
  <2>2. down \in Seq(Msgs)
    BY <2>1
  <2> QED
    BY <1>2, <1>3, <1>4, <1>5, <2>1, <2>2 DEF TypeOK, Fit
<1> QED
  BY <1>5, <1>6 DEF BoardInv

LEMMA NextKept ==
  ASSUME BoardInv, [Next]_vars
  PROVE  TypeOK' /\ Fit(page') /\ (StepKept \/ UNCHANGED vars)
<1>1. CASE TourStep
  <2> USE <1>1
  <2>1. CASE ToggleTourBar
    BY <2>1, ToggleKept
  <2>2. CASE \E t \in TourIds : SelectTour(t)
    BY <2>2, SelectTourKept
  <2>3. CASE \E i \in 1 .. MaxSteps : TourTo(i)
    BY <2>3, TourToKept
  <2>4. CASE StartTourCreation
    BY <2>4, StartKept
  <2>5. CASE EditCurrentTour
    BY <2>5, EditKept
  <2>6. CASE CancelCreation
    BY <2>6, CancelKept
  <2>7. CASE DeleteCurrentTour
    BY <2>7, DeleteKept
  <2>8. CASE \E t \in TourIds : SaveTour(t)
    BY <2>8, SaveTourKept
  <2>9. CASE \E i \in DOMAIN page.draft :
               RemoveStep(i) \/ MoveStep(i) \/ ReanchorStep(i) \/ GoToNewStep(i)
    BY <2>9, RemoveStepKept, MoveStepKept, ReanchorStepKept, GoToNewStepKept
  <2>10. CASE \E i \in DOMAIN page.sending : SendTour(i)
    BY <2>10, SendTourKept
  <2> QED
    BY <2>1, <2>2, <2>3, <2>4, <2>5, <2>6, <2>7, <2>8, <2>9, <2>10 DEF TourStep
<1>2. CASE CommentStep
  <2>1. CASE \E line \in Lines : GutterClick(line)
    BY <2>1, GutterClickKept
  <2>2. CASE AddComment
    BY <2>2, AddCommentKept
  <2>3. CASE JumpToComment
    BY <2>3, JumpKept
  <2> QED
    BY <1>2, <2>1, <2>2, <2>3 DEF CommentStep
<1>3. CASE Deliver
  BY <1>3, DeliverKept
<1>4. CASE \E f \in Files : OpenFile(f) \/ Answer(f) \/ Frame(f)
  BY <1>4, OpenFileKept, AnswerKept, FrameKept
<1>5. CASE \E f \in Files : FileChanges(f)
  BY <1>5, FileChangesKept
<1>6. CASE \E t \in TourIds : OthersEdit(t)
  BY <1>6, OthersEditKept
<1>7. CASE \E s \in GuideStates : GuideShows(s)
  BY <1>7, GuideShowsKept
<1>8. CASE UNCHANGED vars
  <2>1. UNCHANGED <<tours, note, down, page, saved, roaming, guided, events>>
    BY <1>8 DEF vars, histVars
  <2> QED
    BY <1>8, <2>1 DEF BoardInv, TypeOK
<1> QED
  BY <1>1, <1>2, <1>3, <1>4, <1>5, <1>6, <1>7, <1>8 DEF Next

-----------------------------------------------------------------------------

(* The invariant holds of every state.                                     *)
THEOREM Invariant == Spec => []BoardInv
<1>1. BoardInv /\ [Next]_vars => BoardInv'
  BY NextKept DEF BoardInv
<1> QED
  BY InitInv, <1>1, PTL DEF Spec

(* Whatever lists, files and states of a guide arrive, and in whatever     *)
(* order, what a page, the relay's rows and the messages hold has its type *)
(* (app.js, handleMessage and the handlers of the tour bar).               *)
THEOREM TypeCorrect == Spec => []TypeOK
<1>1. BoardInv => TypeOK
  BY DEF BoardInv
<1> QED
  BY Invariant, <1>1, PTL

(* The step that the tour bar counts is one that its tour has, for any     *)
(* number of files, tours and steps: lists that others cause, files that   *)
(* arrive late and what the user does with the bar and the panel keep it   *)
(* so (app.js, goToTourStep, handleTourList), and only what a guide showed *)
(* may lead to a step that the page's own copy of the tour has not.        *)
THEOREM StepAlwaysInTour == Spec => StepInTour
<1>1. BoardInv /\ [Next]_vars => StepKept \/ UNCHANGED vars
  BY NextKept
<1>2. BoardInv /\ [Next]_vars
      => [InTour(page) \/ page'.tours # page.tours
          => InTour(page') \/ (down # <<>> /\ Led(Head(down)))]_vars
  BY <1>1 DEF StepKept
<1> QED
  BY Invariant, <1>2, PTL DEF Spec, StepInTour
-----------------------------------------------------------------------------
(* What is on its way.                                                     *)

(* Only messages of these types come or are taken.                         *)
OnlyIn(types) ==
    \/ down' = down
    \/ \E m \in Msgs : Tell(m) /\ m.type \in types
    \/ down # <<>> /\ down' = Tail(down) /\ Head(down).type \in types

(* A queue t has the messages of s that are not of these types, each k     *)
(* places nearer to the head.                                              *)
Shifted(s, t, types, k) ==
    /\ \A i \in DOMAIN t : t[i].type \notin types => i + k \in DOMAIN s /\ s[i + k] = t[i]
    /\ \A i \in DOMAIN s : s[i].type \notin types => i - k \in DOMAIN t /\ t[i - k] = s[i]

LEMMA AppendShifts ==
  ASSUME NEW s \in Seq(Msgs), NEW m \in Msgs, NEW types, m.type \in types
  PROVE  Shifted(s, Append(s, m), types, 0)
<1>1. /\ Len(s) \in Nat /\ DOMAIN s = 1 .. Len(s) /\ DOMAIN Append(s, m) = 1 .. Len(s) + 1
      /\ Append(s, m)[Len(s) + 1] = m /\ \A i \in 1 .. Len(s) : Append(s, m)[i] = s[i]
  OBVIOUS
<1> QED
  BY <1>1 DEF Shifted

LEMMA TailOf ==
  ASSUME NEW s \in Seq(Msgs), s # <<>>
  PROVE  /\ Len(s) \in Nat \ {0} /\ DOMAIN s = 1 .. Len(s) /\ DOMAIN Tail(s) = 1 .. Len(s) - 1
         /\ Tail(s) \in Seq(Msgs) /\ Head(s) = s[1] /\ Head(s) \in Msgs
         /\ \A i \in 1 .. Len(s) - 1 : Tail(s)[i] = s[i + 1]
OBVIOUS

LEMMA TailShifts ==
  ASSUME NEW s \in Seq(Msgs), s # <<>>, NEW types, Head(s).type \in types
  PROVE  Shifted(s, Tail(s), types, 1)
<1>1. \A i \in DOMAIN Tail(s) : i + 1 \in DOMAIN s /\ s[i + 1] = Tail(s)[i]
  BY TailOf
<1>2. ASSUME NEW i \in DOMAIN s, s[i].type \notin types
      PROVE  i - 1 \in DOMAIN Tail(s) /\ Tail(s)[i - 1] = s[i]
  <2>1. i # 1 /\ i \in 1 .. Len(s)
    BY <1>2, TailOf
  <2>2. i - 1 \in 1 .. Len(s) - 1 /\ (i - 1) + 1 = i
    BY <2>1, TailOf
  <2> QED
    BY <2>2, TailOf
<1> QED
  BY <1>1, <1>2 DEF Shifted

LEMMA OthersShift ==
  ASSUME down \in Seq(Msgs), NEW types, OnlyIn(types)
  PROVE  \E k \in {0, 1} : Shifted(down, down', types, k)
<1>1. CASE down' = down
  <2>1. DOMAIN down = 1 .. Len(down) /\ Len(down) \in Nat
    OBVIOUS
  <2> QED
    BY <1>1, <2>1 DEF Shifted
<1>2. CASE \E m \in Msgs : Tell(m) /\ m.type \in types
  BY <1>2, AppendShifts DEF Tell
<1>3. CASE down # <<>> /\ down' = Tail(down) /\ Head(down).type \in types
  BY <1>3, TailShifts
<1> QED
  BY <1>1, <1>2, <1>3 DEF OnlyIn

-----------------------------------------------------------------------------
(* Files that are to come.                                                 *)

NoFiles(s) == \A i \in DOMAIN s : s[i].type # "file_content"
OneFile(s) ==
    \A i, j \in DOMAIN s : s[i].type = "file_content" /\ s[j].type = "file_content" => i = j
FilesOf(s, f) == \A i \in DOMAIN s : s[i].type = "file_content" => s[i].file = f

Idle(pg, s) == pg.asked = {} /\ NoFiles(s)
Alone(pg, s) ==
    /\ \A f, g \in pg.asked : f = g
    /\ OneFile(s) /\ (pg.asked = {} \/ NoFiles(s))
Only(pg, s, f) == pg.asked \subseteq {f} /\ FilesOf(s, f)

LEMMA UnansweredIs == Unanswered <=> ~Idle(page, down)
BY DEF Unanswered, Coming, Idle, NoFiles

LEMMA IdleAlone ==
  ASSUME NEW pg, NEW s, Idle(pg, s)
  PROVE  Alone(pg, s)
BY DEF Idle, Alone, NoFiles, OneFile

LEMMA ShiftWait ==
  ASSUME NEW s \in Seq(Msgs), NEW t \in Seq(Msgs), NEW types, "file_content" \notin types,
         NEW k \in {0, 1}, Shifted(s, t, types, k)
  PROVE  /\ NoFiles(t) <=> NoFiles(s)
         /\ OneFile(t) <=> OneFile(s)
         /\ \A f : FilesOf(t, f) <=> FilesOf(s, f)
<1>1. \A i \in DOMAIN t : t[i].type = "file_content" => i + k \in DOMAIN s /\ s[i + k] = t[i]
  BY DEF Shifted
<1>2. \A i \in DOMAIN s : s[i].type = "file_content" => i - k \in DOMAIN t /\ t[i - k] = s[i]
  BY DEF Shifted
<1>3. \A i \in DOMAIN t : i \in Nat
  OBVIOUS
<1>4. \A i \in DOMAIN s : i \in Nat
  OBVIOUS
<1>5. NoFiles(t) <=> NoFiles(s)
  BY <1>1, <1>2 DEF NoFiles
<1>6. OneFile(s) => OneFile(t)
  BY <1>1, <1>3 DEF OneFile
<1>7. OneFile(t) => OneFile(s)
  BY <1>2, <1>4 DEF OneFile
<1>8. \A f : FilesOf(t, f) <=> FilesOf(s, f)
  BY <1>1, <1>2 DEF FilesOf
<1> QED
  BY <1>5, <1>6, <1>7, <1>8

(* A step in which no file comes or is taken.                              *)
LEMMA SameWait ==
  ASSUME down \in Seq(Msgs), down' \in Seq(Msgs), page'.asked = page.asked,
         NEW types, OnlyIn(types), "file_content" \notin types
  PROVE  /\ Idle(page', down') <=> Idle(page, down)
         /\ Alone(page', down') <=> Alone(page, down)
         /\ \A f : Only(page', down', f) <=> Only(page, down, f)
<1>1. PICK k \in {0, 1} : Shifted(down, down', types, k)
  BY OthersShift
<1>2. /\ NoFiles(down') <=> NoFiles(down)
      /\ OneFile(down') <=> OneFile(down)
      /\ \A f : FilesOf(down', f) <=> FilesOf(down, f)
  BY <1>1, ShiftWait
<1> QED
  BY <1>2 DEF Idle, Alone, Only

(* A file that was asked for is answered.                                  *)
LEMMA AnswerWait ==
  ASSUME down \in Seq(Msgs), NEW f \in page.asked, NEW m \in Msgs,
         m.type = "file_content", m.file = f,
         down' = Append(down, m), page'.asked = page.asked \ {f}
  PROVE  /\ ~Idle(page, down) /\ ~Idle(page', down')
         /\ Alone(page, down) => Alone(page', down')
         /\ \A g : Only(page, down, g) => Only(page', down', g)
<1>1. /\ Len(down) \in Nat /\ DOMAIN down = 1 .. Len(down) /\ DOMAIN down' = 1 .. Len(down) + 1
      /\ down'[Len(down) + 1] = m /\ \A i \in 1 .. Len(down) : down'[i] = down[i]
  OBVIOUS
<1>2. ~NoFiles(down')
  BY <1>1 DEF NoFiles
<1>3. ASSUME Alone(page, down) PROVE Alone(page', down')
  <2>1. NoFiles(down) /\ page'.asked = {}
    BY <1>3 DEF Alone
  <2>2. \A i \in DOMAIN down' : down'[i].type = "file_content" => i = Len(down) + 1
    BY <1>1, <2>1 DEF NoFiles
  <2> QED
    BY <2>1, <2>2 DEF Alone, OneFile
<1>4. ASSUME NEW g, Only(page, down, g) PROVE Only(page', down', g)
  BY <1>1, <1>4 DEF Only, FilesOf
<1> QED
  BY <1>2, <1>3, <1>4 DEF Idle

(* A file arrives.                                                         *)
LEMMA TakeWait ==
  ASSUME NEW pg, NEW s \in Seq(Msgs), s # <<>>, Head(s).type = "file_content"
  PROVE  /\ ~Idle(pg, s)
         /\ Alone(pg, s) => Idle(pg, Tail(s))
         /\ \A f : Only(pg, s, f) => Head(s).file = f
<1>1. ~NoFiles(s) /\ 1 \in DOMAIN s
  BY TailOf DEF NoFiles
<1>2. ASSUME OneFile(s) PROVE NoFiles(Tail(s))
  <2> SUFFICES ASSUME NEW i \in DOMAIN Tail(s), Tail(s)[i].type = "file_content" PROVE FALSE
    BY DEF NoFiles
  <2>1. i + 1 \in DOMAIN s /\ s[i + 1].type = "file_content" /\ i + 1 # 1
    BY TailOf
  <2> QED
    BY <1>1, <1>2, <2>1, TailOf DEF OneFile
<1>3. \A f : FilesOf(s, f) => Head(s).file = f
  BY <1>1, TailOf DEF FilesOf
<1> QED
  BY <1>1, <1>2, <1>3 DEF Idle, Alone, Only

-----------------------------------------------------------------------------
(* Where a page is, and what it waits for.                                 *)

SameFiles(pg, q) == pg.has = q.has
SameBar(pg, q) == pg.bar = q.bar /\ pg.active = q.active /\ pg.select = q.select
SameView(pg, q) ==
    /\ pg.view = q.view /\ pg.asked = q.asked
    /\ pg.pendingStep = q.pendingStep /\ pg.pendingGuide = q.pendingGuide

(* A step that waits, waits for a file that is to come.                    *)
PendingOK(pg, s) == pg.pendingStep # 0 => ~Idle(pg, s)

(* The page shows the step's file, or that is the file it waits for.       *)
StepOK(pg, s) ==
    /\ Alone(pg, s) /\ InTour(pg)
    /\ Shown(pg) # None
       => IF Idle(pg, s) THEN pg.view = Shown(pg) ELSE Only(pg, s, Shown(pg))

(* The page is where the state g led it, or waits for the file of g.       *)
TourAs(pg, g) ==
    /\ g.tour = None => pg.active = None
    /\ g.tour # None /\ pg.tours[g.tour] # None
       => pg.active = g.tour /\ (g.step # 0 => pg.step = g.step)
GuidedOK(pg, s, g) ==
    /\ Alone(pg, s) /\ pg.pendingStep = 0 /\ TourAs(pg, g)
    /\ IF Idle(pg, s) THEN pg.view = g.file ELSE pg.pendingGuide = g /\ Only(pg, s, g.file)

LEMMA OpenIs ==
  ASSUME NEW pg, Fit(pg), NEW f \in Files
  PROVE  /\ SameFiles(Open(pg, f), pg) /\ SameBar(Open(pg, f), pg) /\ SameStep(Open(pg, f), pg)
         /\ Open(pg, f).pendingStep = pg.pendingStep
         /\ Open(pg, f).pendingGuide = pg.pendingGuide
         /\ f \in pg.has => Open(pg, f).view = f /\ Open(pg, f).asked = pg.asked
         /\ f \notin pg.has => /\ Open(pg, f).view = pg.view
                                 /\ Open(pg, f).asked = pg.asked \cup {f}
BY DEF Open, Fit, PageType, SameFiles, SameBar, SameStep

LEMMA SameShown ==
  ASSUME NEW pg, NEW q, SameStep(pg, q)
  PROVE  ActiveSteps(pg) = ActiveSteps(q) /\ Shown(pg) = Shown(q) /\ (InTour(pg) <=> InTour(q))
BY DEF SameStep, ActiveSteps, Shown, InTour

LEMMA GoToIs ==
  ASSUME NEW pg, Fit(pg), NEW i \in DOMAIN ActiveSteps(pg)
  PROVE  /\ i \in Nat \ {0} /\ ActiveSteps(pg)[i].file \in Files
         /\ SameFiles(GoToTourStep(pg, i), pg) /\ SameBar(GoToTourStep(pg, i), pg)
         /\ InTour(GoToTourStep(pg, i)) /\ GoToTourStep(pg, i).tours = pg.tours
         /\ GoToTourStep(pg, i).step = i
         /\ Shown(GoToTourStep(pg, i)) = ActiveSteps(pg)[i].file
         /\ ActiveSteps(pg)[i].file \in pg.has
            => /\ GoToTourStep(pg, i).view = ActiveSteps(pg)[i].file
               /\ GoToTourStep(pg, i).asked = pg.asked
               /\ GoToTourStep(pg, i).pendingStep = pg.pendingStep
         /\ ActiveSteps(pg)[i].file \notin pg.has
            => GoToTourStep(pg, i).asked = pg.asked \cup {ActiveSteps(pg)[i].file}
<1> DEFINE f == ActiveSteps(pg)[i].file
           at == [pg EXCEPT !.step = i]
           o == Open(at, f)
           q == GoToTourStep(pg, i)
<1>1. /\ i \in 1 .. Len(ActiveSteps(pg)) /\ i \in 0 .. MaxSteps /\ f \in Files
      /\ Len(ActiveSteps(pg)) \in Nat
  BY ActiveTyped, NotNone DEF Step
<1>2. /\ Fit(at) /\ ActiveSteps(at) = ActiveSteps(pg) /\ at.step = i
      /\ SameFiles(at, pg) /\ SameBar(at, pg) /\ SameView(at, pg) /\ at.tours = pg.tours
  BY <1>1, StepSet DEF Fit, PageType, SameFiles, SameBar, SameView
<1>3. IF f \in pg.has THEN q = o ELSE q = [o EXCEPT !.pendingStep = i]
  BY DEF GoToTourStep
<1> HIDE DEF at, f, q
<1>4. /\ SameFiles(o, at) /\ SameBar(o, at) /\ SameStep(o, at) /\ Fit(o)
      /\ o.pendingStep = at.pendingStep
      /\ f \in at.has => o.view = f /\ o.asked = at.asked
      /\ f \notin at.has => o.asked = at.asked \cup {f}
  BY <1>1, <1>2, OpenIs, OpenFit
<1> HIDE DEF o
<1>5. /\ SameFiles(q, o) /\ SameBar(q, o) /\ SameStep(q, o)
      /\ q.view = o.view /\ q.asked = o.asked
      /\ f \in pg.has => q.pendingStep = o.pendingStep
  BY <1>3, <1>4 DEF SameFiles, SameBar, SameStep, Fit, PageType
<1>6. ActiveSteps(q) = ActiveSteps(pg) /\ q.step = i /\ q.tours = pg.tours
  BY <1>2, <1>4, <1>5, SameShown DEF SameStep
<1>7. InTour(q) /\ Shown(q) = f
  BY <1>1, <1>6 DEF InTour, Shown, f
<1>8. SameFiles(q, pg) /\ SameBar(q, pg)
  BY <1>2, <1>4, <1>5 DEF SameFiles, SameBar
<1>9. /\ f \in pg.has => q.view = f /\ q.asked = pg.asked /\ q.pendingStep = pg.pendingStep
      /\ f \notin pg.has => q.asked = pg.asked \cup {f}
  BY <1>2, <1>4, <1>5 DEF SameFiles, SameView
<1> QED
  BY <1>1, <1>6, <1>7, <1>8, <1>9 DEF f, q

LEMMA GoToKeeps ==
  ASSUME NEW pg, Fit(pg), NEW i, NEW s
  PROVE  /\ SameFiles(GoToTourStep(pg, i), pg) /\ SameBar(GoToTourStep(pg, i), pg)
         /\ GoToTourStep(pg, i).tours = pg.tours
         /\ PendingOK(pg, s) => PendingOK(GoToTourStep(pg, i), s)
<1>1. CASE i \in DOMAIN ActiveSteps(pg)
  BY <1>1, GoToIs DEF PendingOK, Idle
<1>2. CASE i \notin DOMAIN ActiveSteps(pg)
  BY <1>2 DEF GoToTourStep, SameFiles, SameBar
<1> QED
  BY <1>1, <1>2

LEMMA GoToShows ==
  ASSUME NEW pg, Fit(pg), NEW i \in DOMAIN ActiveSteps(pg), NEW s, Idle(pg, s)
  PROVE  StepOK(GoToTourStep(pg, i), s)
<1> DEFINE f == ActiveSteps(pg)[i].file
           q == GoToTourStep(pg, i)
<1>1. /\ InTour(q) /\ Shown(q) = f
      /\ f \in pg.has => q.view = f /\ q.asked = pg.asked
      /\ f \notin pg.has => q.asked = pg.asked \cup {f}
  BY GoToIs
<1> HIDE DEF f, q
<1>2. CASE f \in pg.has
  <2>1. Idle(q, s) /\ q.view = f
    BY <1>1, <1>2 DEF Idle
  <2> QED
    BY <1>1, <2>1, IdleAlone DEF StepOK, q
<1>3. CASE f \notin pg.has
  <2>1. q.asked = {f} /\ NoFiles(s)
    BY <1>1, <1>3 DEF Idle
  <2>2. Alone(q, s) /\ ~Idle(q, s) /\ Only(q, s, f)
    BY <2>1 DEF Alone, Idle, Only, NoFiles, OneFile, FilesOf
  <2> QED
    BY <1>1, <2>2 DEF StepOK, q
<1> QED
  BY <1>2, <1>3

LEMMA GuidedTourIs ==
  ASSUME NEW pg, Fit(pg), NEW g \in GuideStates
  PROVE  /\ TourAs(GuidedTour(pg, g), g)
         /\ SameFiles(GuidedTour(pg, g), pg) /\ SameView(GuidedTour(pg, g), pg)
<1>1. g.tour \in TourIds \cup {None} /\ g.step \in 0 .. MaxSteps
  BY DEF GuideStates
<1>2. CASE g.tour = None
  BY <1>2 DEF GuidedTour, CloseTour, Fit, PageType, TourAs, SameFiles, SameView
<1>3. CASE g.tour # None /\ pg.tours[g.tour] = None
  BY <1>3 DEF GuidedTour, TourAs, SameFiles, SameView
<1>4. CASE g.tour # None /\ pg.tours[g.tour] # None
  <2> DEFINE step == IF g.step = 0 THEN pg.step ELSE g.step
             q == [pg EXCEPT !.bar = TRUE, !.active = g.tour, !.step = step]
  <2>1. GuidedTour(pg, g) = q
    BY <1>4 DEF GuidedTour
  <2>2. g.step # 0 => step = g.step
    OBVIOUS
  <2> HIDE DEF step
  <2>3. /\ q.active = g.tour /\ q.step = step
        /\ SameFiles(q, pg) /\ SameView(q, pg)
    BY DEF Fit, PageType, SameFiles, SameView
  <2> HIDE DEF q
  <2> QED
    BY <1>4, <2>1, <2>2, <2>3 DEF TourAs
<1> QED
  BY <1>2, <1>3, <1>4

LEMMA SameTourAs ==
  ASSUME NEW pg, NEW q, SameStep(pg, q), NEW g, TourAs(q, g)
  PROVE  TourAs(pg, g)
BY DEF SameStep, TourAs

(* A state of the guide that finds a page which waits for nothing.         *)
LEMMA ApplyIs ==
  ASSUME NEW pg, Fit(pg), NEW g \in GuideStates, NEW s
  PROVE  /\ SameFiles(ApplyGuideState(pg, g), pg)
         /\ ApplyGuideState(pg, g).pendingStep = pg.pendingStep
         /\ pg.asked \subseteq ApplyGuideState(pg, g).asked
         /\ Idle(pg, s) /\ pg.pendingStep = 0 => GuidedOK(ApplyGuideState(pg, g), s, g)
         /\ g.file \in pg.has => /\ ApplyGuideState(pg, g).asked = pg.asked
                                      /\ ApplyGuideState(pg, g).view = g.file
         /\ TourAs(ApplyGuideState(pg, g), g)
<1> DEFINE led == GuidedTour(pg, g)
           o == Open(led, g.file)
           q == ApplyGuideState(pg, g)
<1>1. g.file \in Files /\ (pg.view = g.file => g.file \in pg.has)
  BY NotNone DEF GuideStates, Fit
<1>2. /\ Fit(led) /\ TourAs(led, g) /\ SameFiles(led, pg) /\ SameView(led, pg)
  BY GuidedTourIs, GuidedTourFit
<1>3. IF g.file \notin pg.has THEN q = [o EXCEPT !.pendingGuide = g] ELSE q = o
  BY <1>1 DEF ApplyGuideState
<1> HIDE DEF led, q
<1>4. /\ SameFiles(o, led) /\ SameStep(o, led) /\ Fit(o)
      /\ o.pendingStep = led.pendingStep
      /\ g.file \in led.has => o.view = g.file /\ o.asked = led.asked
      /\ g.file \notin led.has => o.asked = led.asked \cup {g.file}
  BY <1>1, <1>2, OpenIs, OpenFit
<1> HIDE DEF o
<1>5. /\ SameFiles(q, o) /\ SameStep(q, o)
      /\ q.pendingStep = o.pendingStep /\ q.view = o.view /\ q.asked = o.asked
      /\ g.file \notin pg.has => q.pendingGuide = g
  BY <1>3, <1>4 DEF SameFiles, SameStep, Fit, PageType
<1>6. TourAs(o, g)
  BY <1>2, <1>4, SameTourAs
<1>7. TourAs(q, g)
  BY <1>5, <1>6, SameTourAs
<1>8. /\ SameFiles(q, pg) /\ q.pendingStep = pg.pendingStep
      /\ g.file \in pg.has => q.view = g.file /\ q.asked = pg.asked
      /\ g.file \notin pg.has => q.asked = pg.asked \cup {g.file} /\ q.pendingGuide = g
  BY <1>2, <1>4, <1>5 DEF SameFiles, SameView
<1>9. ASSUME Idle(pg, s), pg.pendingStep = 0 PROVE GuidedOK(q, s, g)
  <2>1. CASE g.file \in pg.has
    <3>1. Idle(q, s) /\ q.view = g.file
      BY <1>8, <1>9, <2>1 DEF Idle
    <3> QED
      BY <1>7, <1>8, <1>9, <3>1, IdleAlone DEF GuidedOK
  <2>2. CASE g.file \notin pg.has
    <3>1. q.asked = {g.file} /\ NoFiles(s)
      BY <1>8, <1>9, <2>2 DEF Idle
    <3>2. Alone(q, s) /\ ~Idle(q, s) /\ Only(q, s, g.file)
      BY <3>1 DEF Alone, Idle, Only, NoFiles, OneFile, FilesOf
    <3> QED
      BY <1>7, <1>8, <1>9, <2>2, <3>2 DEF GuidedOK
  <2> QED
    BY <2>1, <2>2
<1> QED
  BY <1>7, <1>8, <1>9 DEF q

LEMMA TourListIs ==
  ASSUME NEW pg, Fit(pg), NEW list \in Tours
  PROVE  /\ OnTourList(pg, list).tours = list /\ OnTourList(pg, list).bar = pg.bar
         /\ SameView(OnTourList(pg, list), pg)
         /\ pg.bar => OnTourList(pg, list).active =
                        LET prev == IF pg.active # None THEN pg.active ELSE pg.select
                        IN  IF prev = None \/ list[prev] = None THEN None ELSE prev
<1> DEFINE kept == OnTourListKeepStep(pg, list)
           prev == IF pg.active # None THEN pg.active ELSE pg.select
           len == Len(ActiveSteps(kept))
<1>1. /\ kept.tours = list /\ kept.bar = pg.bar
      /\ SameView(kept, pg)
      /\ pg.bar => kept.active = IF prev = None \/ list[prev] = None THEN None ELSE prev
      /\ DOMAIN kept = DOMAIN pg
  <2>1. CASE ~pg.bar
    BY <2>1 DEF OnTourListKeepStep, Fit, PageType, SameView
  <2>2. CASE pg.bar /\ prev = None
    BY <2>2 DEF OnTourListKeepStep, Fit, PageType, SameView
  <2>3. CASE pg.bar /\ prev # None /\ list[prev] = None
    BY <2>3, NotNone DEF OnTourListKeepStep, Fit, PageType, SameView
  <2>4. CASE pg.bar /\ prev # None /\ list[prev] # None
    <3>1. kept = [pg EXCEPT !.tours = list, !.select = None, !.active = prev]
      BY <2>4 DEF OnTourListKeepStep
    <3> HIDE DEF prev, kept
    <3> QED
      BY <2>4, <3>1 DEF Fit, PageType, SameView
  <2> QED
    BY <2>1, <2>2, <2>3, <2>4
<1>2. OnTourList(pg, list) = IF kept.active = None \/ pg.step <= len THEN kept
                             ELSE [kept EXCEPT !.step = len]
  BY DEF OnTourList
<1> HIDE DEF kept, len, prev
<1> DEFINE q == [kept EXCEPT !.step = len]
<1>3. /\ q.tours = kept.tours /\ q.bar = kept.bar /\ q.active = kept.active
      /\ SameView(q, kept)
  BY DEF SameView
<1> HIDE DEF q
<1>4. OnTourList(pg, list) = kept \/ OnTourList(pg, list) = q
  BY <1>2 DEF q
<1>5. /\ q.tours = list /\ q.bar = pg.bar /\ SameView(q, pg)
      /\ q.active = kept.active
  BY <1>1, <1>3 DEF SameView
<1>6. OnTourList(pg, list).active = kept.active
  BY <1>4, <1>5
<1> QED
  BY <1>1, <1>4, <1>5, <1>6 DEF prev

-----------------------------------------------------------------------------
(* The inductive strengthening of StepShown, TourFollowsGuide and          *)
(* SavedTourShown.                                                         *)

PendingPart == PendingOK(page, down)
StepPart == ~roaming => StepOK(page, down)
GuidedPart == guided # None => GuidedOK(page, down, guided)

(* All lists that are to come have the tour that was saved, and the page   *)
(* has selected it, or will when the first of them comes.                  *)
NoLists(s) == \A i \in DOMAIN s : s[i].type # "tour_list"
ListsHave(s, t) == \A i \in DOMAIN s : s[i].type = "tour_list" => s[i].list[t] # None
SavedPart ==
    saved # None
    => /\ page.bar /\ tours[saved] # None /\ ListsHave(down, saved)
       /\ \/ page.active = saved
          \/ page.active = None /\ page.select = saved /\ ~NoLists(down)

NavParts == PendingPart /\ StepPart /\ GuidedPart
Parts == NavParts /\ SavedPart
PageInv == BoardInv /\ Parts

LEMMA PageTypes ==
  ASSUME PageInv
  PROVE  /\ TypeOK /\ Fit(page) /\ down \in Seq(Msgs) /\ page \in PageType
         /\ tours \in Tours /\ note \in Note \cup {None}
         /\ guided \in GuideStates \cup {None} /\ saved \in TourIds \cup {None}
         /\ roaming \in BOOLEAN /\ None \notin Files
BY NotNone DEF PageInv, BoardInv, TypeOK

(* A step that leaves the page where it is.                                *)
LEMMA NavSame ==
  ASSUME PageInv, BoardInv', SameStep(page', page), SameView(page', page),
         roaming' = roaming, guided' = guided \/ guided' = None,
         NEW types, OnlyIn(types), "file_content" \notin types
  PROVE  NavParts'
<1>1. /\ page'.asked = page.asked /\ page'.view = page.view
      /\ page'.pendingStep = page.pendingStep /\ page'.pendingGuide = page.pendingGuide
  BY DEF SameView
<1>2. down \in Seq(Msgs) /\ down' \in Seq(Msgs)
  BY DEF PageInv, BoardInv, TypeOK
<1>3. /\ Idle(page', down') <=> Idle(page, down)
      /\ Alone(page', down') <=> Alone(page, down)
      /\ \A f : Only(page', down', f) <=> Only(page, down, f)
  BY <1>1, <1>2, SameWait
<1>4. Shown(page') = Shown(page) /\ (InTour(page') <=> InTour(page))
  BY SameShown
<1>5. PendingOK(page', down')
  BY <1>1, <1>3 DEF PageInv, Parts, NavParts, PendingPart, PendingOK
<1>6. ASSUME ~roaming' PROVE StepOK(page', down')
  <2>1. StepOK(page, down)
    BY <1>6 DEF PageInv, Parts, NavParts, StepPart
  <2> QED
    BY <1>1, <1>3, <1>4, <2>1 DEF StepOK
<1>7. ASSUME guided' # None PROVE GuidedOK(page', down', guided')
  <2>1. guided' = guided /\ GuidedOK(page, down, guided)
    BY <1>7 DEF PageInv, Parts, NavParts, GuidedPart
  <2>2. TourAs(page', guided)
    BY <2>1, SameTourAs DEF GuidedOK
  <2> QED
    BY <1>1, <1>3, <2>1, <2>2 DEF GuidedOK
<1> QED
  BY <1>5, <1>6, <1>7 DEF NavParts, PendingPart, StepPart, GuidedPart

(* A step that leaves the tour.                                            *)
LEMMA NavLeft ==
  ASSUME PageInv, BoardInv', SameView(page', page),
         page'.active = None \/ page'.step = 0,
         roaming' = roaming, guided' = None,
         NEW types, OnlyIn(types), "file_content" \notin types
  PROVE  NavParts'
<1>1. page'.asked = page.asked /\ page'.pendingStep = page.pendingStep
  BY DEF SameView
<1>2. down \in Seq(Msgs) /\ down' \in Seq(Msgs) /\ Fit(page')
  BY DEF PageInv, BoardInv, TypeOK
<1>3. /\ Idle(page', down') <=> Idle(page, down)
      /\ Alone(page', down') <=> Alone(page, down)
  BY <1>1, <1>2, SameWait
<1>4. Shown(page') = None /\ InTour(page')
  <2>1. /\ DOMAIN ActiveSteps(page') = 1 .. Len(ActiveSteps(page'))
        /\ Len(ActiveSteps(page')) \in Nat
    BY <1>2, ActiveTyped, NotNone
  <2>2. CASE page'.active = None
    <3>1. ActiveSteps(page') = <<>>
      BY <2>2 DEF ActiveSteps
    <3> QED
      BY <2>2, <3>1 DEF Shown, InTour
  <2>3. CASE page'.step = 0
    BY <2>1, <2>3 DEF Shown, InTour
  <2> QED
    BY <2>2, <2>3
<1>5. ~roaming' => StepOK(page', down')
  BY <1>3, <1>4 DEF PageInv, Parts, NavParts, StepPart, StepOK
<1>6. PendingOK(page', down')
  BY <1>1, <1>3 DEF PageInv, Parts, NavParts, PendingPart, PendingOK
<1> QED
  BY <1>5, <1>6 DEF NavParts, PendingPart, StepPart, GuidedPart

LEMMA SavedSame ==
  ASSUME PageInv, saved' = saved, tours' = tours, SameBar(page', page),
         NEW types, OnlyIn(types), "tour_list" \notin types
  PROVE  SavedPart'
<1>1. down \in Seq(Msgs)
  BY PageTypes
<1>2. PICK k \in {0, 1} : Shifted(down, down', types, k)
  BY <1>1, OthersShift
<1>3. /\ \A i \in DOMAIN down' : down'[i].type = "tour_list"
                                 => i + k \in DOMAIN down /\ down[i + k] = down'[i]
      /\ \A i \in DOMAIN down : down[i].type = "tour_list"
                                => i - k \in DOMAIN down' /\ down'[i - k] = down[i]
  BY <1>2 DEF Shifted
<1>4. NoLists(down') => NoLists(down)
  BY <1>3 DEF NoLists
<1>5. \A t : ListsHave(down, t) => ListsHave(down', t)
  BY <1>3 DEF ListsHave
<1> QED
  BY <1>4, <1>5 DEF PageInv, Parts, SavedPart, SameBar

-----------------------------------------------------------------------------
(* What the user does.                                                     *)

LEMMA SilentIn ==
  ASSUME Silent
  PROVE  /\ tours' = tours /\ down' = down
         /\ \A types : OnlyIn(types)
BY DEF Silent, Keep, OnlyIn

(* The page is made to show a step.                                        *)
LEMMA ShowParts ==
  ASSUME PageInv, BoardInv', Silent, NEW pg, ShowStep(pg),
         PendingOK(page, down) => PendingOK(pg, down),
         Idle(page, down) /\ pg.step # 0 => StepOK(pg, down)
  PROVE  Parts'
<1>1. /\ page' = pg /\ roaming' = (Unanswered \/ pg.step = 0)
      /\ saved' = None /\ guided' = None
  BY DEF ShowStep
<1>2. tours' = tours /\ down' = down
     
  BY SilentIn
<1>3. NavParts'
  <2>1. PendingPart'
    BY <1>1, <1>2 DEF PageInv, Parts, NavParts, PendingPart
  <2>2. StepPart'
    BY <1>1, <1>2, UnansweredIs DEF StepPart
  <2> QED
    BY <1>1, <2>1, <2>2 DEF NavParts, GuidedPart
<1> QED
  BY <1>1, <1>3 DEF Parts, SavedPart

LEMMA GoToParts ==
  ASSUME PageInv, BoardInv', Silent, NEW i \in DOMAIN ActiveSteps(page),
         ShowStep(GoToTourStep(page, i))
  PROVE  Parts'
<1>1. Fit(page)
  BY PageTypes
<1>2. /\ PendingOK(page, down) => PendingOK(GoToTourStep(page, i), down)
      /\ Idle(page, down) => StepOK(GoToTourStep(page, i), down)
  BY <1>1, GoToKeeps, GoToShows
<1> QED
  BY <1>2, ShowParts

LEMMA SelectParts ==
  ASSUME PageInv, BoardInv', Silent, NEW pg, Fit(pg), pg.bar,
         SameView(pg, page), NEW t \in TourIds,
         ShowStep(SelectTourById(pg, t))
  PROVE  Parts'
<1> DEFINE a == IF pg.tours[t] = None THEN None ELSE t
           q == [pg EXCEPT !.active = a, !.step = 0]
           z == SelectTourById(pg, t)
<1>1. a \in TourIds \cup {None} /\ (a # None => pg.tours[a] # None)
  OBVIOUS
<1>2. z = GoToTourStep(q, 1)
  BY DEF SelectTourById
<1> HIDE DEF a, z
<1>3. Fit(q) /\ SameView(q, page) /\ q.step = 0
  <2>1. SameView(q, pg) /\ q.step = 0
    BY DEF Fit, PageType, SameView
  <2>2. q.active = a /\ q.tours = pg.tours /\ q.bar = pg.bar /\ q.view = pg.view /\ q.has = pg.has
    BY DEF Fit, PageType
  <2>3. q \in PageType
    BY <1>1, NoSteps DEF Fit, PageType
  <2>4. Fit(q)
    BY <1>1, <2>2, <2>3 DEF Fit
  <2> QED
    BY <2>1, <2>4 DEF SameView
<1> HIDE DEF q
<1>4. Idle(q, down) <=> Idle(page, down)
  BY <1>3 DEF SameView, Idle
<1>5. PendingOK(q, down) <=> PendingOK(page, down)
  BY <1>3, <1>4 DEF SameView, PendingOK
<1>6. PendingOK(q, down) => PendingOK(z, down)
  BY <1>2, <1>3, GoToKeeps
<1>7. ASSUME Idle(page, down), z.step # 0 PROVE StepOK(z, down)
  <2>1. 1 \in DOMAIN ActiveSteps(q)
    BY <1>2, <1>3, <1>7 DEF GoToTourStep
  <2> QED
    BY <1>2, <1>3, <1>4, <1>7, <2>1, GoToShows
<1>8. PendingOK(page, down) => PendingOK(z, down)
  BY <1>3, <1>5, <1>6
<1> QED
  BY <1>7, <1>8, ShowParts DEF z

LEMMA ToggleParts ==
  ASSUME PageInv, BoardInv', ToggleTourBar
  PROVE  Parts'
<1> DEFINE open == [page EXCEPT !.bar = TRUE]
<1>1. Silent /\ Fit(page)
  BY PageTypes DEF ToggleTourBar
<1>2. CASE page.bar
  <2> DEFINE q == CloseTour(page)
  <2>1. ShowStep(q)
    BY <1>2 DEF ToggleTourBar
  <2>2. SameView(q, page) /\ q.step = 0
    BY <1>1 DEF CloseTour, Fit, PageType, SameView
  <2> HIDE DEF q
  <2>3. PendingOK(page, down) => PendingOK(q, down)
    BY <2>2 DEF SameView, PendingOK, Idle
  <2> QED
    BY <1>1, <2>1, <2>2, <2>3, ShowParts
<1>3. CASE ~page.bar
  <2>1. ShowStep(open) \/ \E t \in TourIds : ShowStep(SelectTourById(open, t))
    BY <1>3 DEF ToggleTourBar
  <2>2. /\ Fit(open) /\ open.bar /\ SameStep(open, page)
        /\ SameView(open, page)
    BY <1>1 DEF Fit, PageType, SameStep, SameView
  <2>3. page.active = None
    BY <1>1, <1>3 DEF Fit
  <2> HIDE DEF open
  <2>4. CASE ShowStep(open)
    <3>1. PendingOK(page, down) => PendingOK(open, down)
      BY <2>2 DEF SameView, PendingOK, Idle
    <3>2. open.active = None
      BY <2>2, <2>3 DEF SameStep
    <3>3. InTour(open) /\ Shown(open) = None
      BY <3>2 DEF InTour, Shown, ActiveSteps
    <3>4. Idle(page, down) => Alone(open, down)
      BY <2>2, IdleAlone DEF SameView, Idle
    <3> QED
      BY <1>1, <2>2, <2>4, <3>1, <3>3, <3>4, ShowParts DEF StepOK
  <2>5. CASE \E t \in TourIds : ShowStep(SelectTourById(open, t))
    BY <1>1, <2>2, <2>5, SelectParts
  <2> QED
    BY <2>1, <2>4, <2>5
<1> QED
  BY <1>2, <1>3

LEMMA SelectTourParts ==
  ASSUME PageInv, BoardInv', NEW t \in TourIds, SelectTour(t)
  PROVE  Parts'
<1>1. Silent /\ page.bar /\ ShowStep(SelectTourById(page, t))
  BY DEF SelectTour
<1>2. Fit(page) /\ SameView(page, page)
  BY PageTypes DEF SameView
<1> QED
  BY <1>1, <1>2, SelectParts

LEMMA TourToParts ==
  ASSUME PageInv, BoardInv', NEW i, TourTo(i)
  PROVE  Parts'
<1>1. Silent /\ i \in DOMAIN ActiveSteps(page) /\ ShowStep(GoToTourStep(page, i))
  BY DEF TourTo
<1> QED
  BY <1>1, GoToParts

(* The user goes to another file.                                          *)
LEMMA RoamParts ==
  ASSUME PageInv, BoardInv', Silent, NEW f \in Files, Roam(Open(page, f))
  PROVE  Parts'
<1>1. /\ page' = Open(page, f) /\ roaming' = TRUE /\ guided' = None
      /\ saved' = saved
  BY DEF Roam
<1>2. /\ tours' = tours /\ down' = down
      /\ \A types : OnlyIn(types)
  BY SilentIn
<1>3. Fit(page)
  BY PageTypes
<1>4. /\ SameBar(page', page)
      /\ page'.pendingStep = page.pendingStep /\ page.asked \subseteq page'.asked
  BY <1>1, <1>3, OpenIs
<1>5. PendingPart'
  BY <1>2, <1>4 DEF PageInv, Parts, NavParts, PendingPart, PendingOK, Idle
<1>6. OnlyIn({})
  BY <1>2
<1>7. SavedPart'
  BY <1>1, <1>2, <1>4, <1>6, SavedSame
<1> QED
  BY <1>1, <1>5, <1>7 DEF Parts, NavParts, StepPart, GuidedPart

(* A step that has to do with neither tours nor files that come.           *)
LEMMA AwayParts ==
  ASSUME PageInv, BoardInv', SameStep(page', page), SameBar(page', page), SameView(page', page),
         tours' = tours, saved' = saved, roaming' = roaming, guided' = guided,
         NEW types, OnlyIn(types), "tour_list" \notin types, "file_content" \notin types
  PROVE  Parts'
<1>1. NavParts'
  BY NavSame
<1>2. SavedPart'
  BY SavedSame
<1> QED
  BY <1>1, <1>2 DEF Parts

(* The user works in the panel, or clicks a line.                          *)
LEMMA AsideParts ==
  ASSUME PageInv, BoardInv', Silent, UNCHANGED histVars, SameStep(page', page),
         SameBar(page', page), SameView(page', page)
  PROVE  Parts'
<1>1. saved' = saved /\ roaming' = roaming /\ guided' = guided
  BY DEF histVars
<1>2. tours' = tours /\ OnlyIn({})
  BY SilentIn
<1> QED
  BY <1>1, <1>2, AwayParts

LEMMA PanelParts ==
  ASSUME PageInv, BoardInv', NEW pg, Panel(pg), SameStep(pg, page),
         SameBar(pg, page), SameView(pg, page)
  PROVE  Parts'
BY AsideParts DEF Panel

LEMMA StartParts ==
  ASSUME PageInv, BoardInv', StartTourCreation
  PROVE  Parts'
<1> DEFINE q == [page EXCEPT !.editing = None, !.creating = TRUE, !.draft = <<>>,
                             !.active = None, !.step = 0]
<1>1. /\ Silent /\ page' = q
      /\ saved' = None /\ guided' = None /\ roaming' = roaming
  BY DEF StartTourCreation
<1>2. SameView(q, page) /\ q.active = None
  BY PageTypes DEF PageType, SameView
<1> HIDE DEF q
<1>3. /\ OnlyIn({})
  BY <1>1, SilentIn
<1>4. NavParts'
  BY <1>1, <1>2, <1>3, NavLeft
<1> QED
  BY <1>1, <1>4 DEF Parts, SavedPart

LEMMA EditParts ==
  ASSUME PageInv, BoardInv', EditCurrentTour
  PROVE  Parts'
<1> DEFINE d == ActiveSteps(page)
           q == [page EXCEPT !.editing = page.active, !.creating = TRUE, !.draft = d,
                             !.step = 0]
<1>1. /\ Silent /\ page' = q
      /\ saved' = None /\ guided' = None /\ roaming' = roaming
  BY DEF EditCurrentTour
<1> HIDE DEF d
<1>2. SameView(q, page) /\ q.step = 0
  BY PageTypes DEF PageType, SameView
<1> HIDE DEF q
<1>3. /\ OnlyIn({})
  BY <1>1, SilentIn
<1>4. NavParts'
  BY <1>1, <1>2, <1>3, NavLeft
<1> QED
  BY <1>1, <1>4 DEF Parts, SavedPart

LEMMA CancelSame ==
  ASSUME NEW pg \in PageType
  PROVE  /\ SameStep(CancelTourCreation(pg), pg) /\ SameBar(CancelTourCreation(pg), pg)
         /\ SameView(CancelTourCreation(pg), pg)
         /\ DOMAIN CancelTourCreation(pg) = DOMAIN pg
BY DEF CancelTourCreation, PageType, SameStep, SameBar, SameView

LEMMA CancelParts ==
  ASSUME PageInv, BoardInv', CancelCreation
  PROVE  Parts'
<1>1. Panel(CancelTourCreation(page)) /\ page \in PageType
  BY PageTypes DEF CancelCreation
<1> QED
  BY <1>1, CancelSame, PanelParts

LEMMA RemoveStepParts ==
  ASSUME PageInv, BoardInv', NEW i, RemoveStep(i)
  PROVE  Parts'
<1> DEFINE d == RemoveAt(page.draft, i)
           k == IF page.mark = i THEN 0 ELSE page.mark
           q == [page EXCEPT !.draft = d, !.mark = k]
<1>1. Panel(q)
  BY DEF RemoveStep
<1> HIDE DEF d, k
<1>2. /\ SameStep(q, page) /\ SameBar(q, page) /\ SameView(q, page)
  BY PageTypes DEF PageType, SameStep, SameBar, SameView
<1> HIDE DEF q
<1> QED
  BY <1>1, <1>2, PanelParts

LEMMA MoveStepParts ==
  ASSUME PageInv, BoardInv', NEW i, MoveStep(i)
  PROVE  Parts'
<1> DEFINE c == [page.draft EXCEPT ![i] = page.draft[i + 1]]
           d == [c EXCEPT ![i + 1] = page.draft[i]]
           q == [page EXCEPT !.draft = d]
<1>1. Panel([page EXCEPT !.draft[i] = page.draft[i + 1], !.draft[i + 1] = page.draft[i]])
  BY DEF MoveStep
<1>2. [page EXCEPT !.draft[i] = page.draft[i + 1], !.draft[i + 1] = page.draft[i]] = q
  BY PageTypes DEF PageType
<1> HIDE DEF d
<1>3. /\ SameStep(q, page) /\ SameBar(q, page) /\ SameView(q, page)
  BY PageTypes DEF PageType, SameStep, SameBar, SameView
<1> HIDE DEF q
<1> QED
  BY <1>1, <1>2, <1>3, PanelParts

LEMMA ReanchorStepParts ==
  ASSUME PageInv, BoardInv', NEW i, ReanchorStep(i)
  PROVE  Parts'
<1> DEFINE k == IF page.mark = i THEN 0 ELSE i
           q == [page EXCEPT !.mark = k]
<1>1. Panel(q)
  BY DEF ReanchorStep
<1> HIDE DEF k
<1>2. /\ SameStep(q, page) /\ SameBar(q, page) /\ SameView(q, page)
  BY PageTypes DEF PageType, SameStep, SameBar, SameView
<1> HIDE DEF q
<1> QED
  BY <1>1, <1>2, PanelParts

LEMMA AddStepParts ==
  ASSUME PageInv, BoardInv', NEW line, AddTourStepAtLine(line)
  PROVE  Parts'
<1> DEFINE step(title) == [file |-> page.view, line |-> line, title |-> title]
           c == [page.draft EXCEPT ![page.mark] = step(page.draft[page.mark].title)]
           p == [page EXCEPT !.draft = c, !.mark = 0]
           d == Append(page.draft, step(events'))
           q == [page EXCEPT !.draft = d]
<1>1. Panel(p) \/ Panel(q)
  BY DEF AddTourStepAtLine
<1> HIDE DEF c, d
<1>2. /\ SameStep(p, page) /\ SameBar(p, page) /\ SameView(p, page)
      /\ SameStep(q, page) /\ SameBar(q, page) /\ SameView(q, page)
  BY PageTypes DEF PageType, SameStep, SameBar, SameView
<1> HIDE DEF p, q
<1> QED
  BY <1>1, <1>2, PanelParts

LEMMA GutterClickParts ==
  ASSUME PageInv, BoardInv', NEW line, GutterClick(line)
  PROVE  Parts'
<1> DEFINE b == [file |-> page.view, line |-> line]
           q == [page EXCEPT !.box = b]
<1>1. \/ AddTourStepAtLine(line)
      \/ Silent /\ \E i \in DOMAIN ActiveSteps(page) : ShowStep(GoToTourStep(page, i))
      \/ page' = q /\ UNCHANGED histVars /\ Silent
  BY DEF GutterClick, StepsAt
<1> HIDE DEF b
<1>2. SameStep(q, page) /\ SameBar(q, page) /\ SameView(q, page)
  BY PageTypes DEF PageType, SameStep, SameBar, SameView
<1> HIDE DEF q
<1> QED
  BY <1>1, <1>2, AddStepParts, GoToParts, AsideParts

(* A tour is saved or deleted.                                             *)
LEMMA SetToursIn ==
  ASSUME NEW t \in Tours, SetTours(t)
  PROVE  /\ tours' = t /\ down' = Append(down, TourList(t)) /\ TourList(t) \in Msgs
         /\ OnlyIn({"tour_list"})
<1>1. TourList(t) \in Msgs /\ TourList(t).type = "tour_list"
  BY DEF TourList, Msgs
<1>2. tours' = t /\ Tell(TourList(t))
  BY DEF SetTours
<1> QED
  BY <1>1, <1>2 DEF OnlyIn, Tell

LEMMA AppendList ==
  ASSUME NEW s \in Seq(Msgs), NEW m \in Msgs, m.type = "tour_list", NEW t
  PROVE  /\ ~NoLists(Append(s, m))
         /\ ListsHave(s, t) /\ m.list[t] # None => ListsHave(Append(s, m), t)
         /\ NoLists(s) => ListsHave(s, t)
<1>1. /\ Len(s) \in Nat /\ DOMAIN s = 1 .. Len(s) /\ DOMAIN Append(s, m) = 1 .. Len(s) + 1
      /\ Append(s, m)[Len(s) + 1] = m /\ \A i \in 1 .. Len(s) : Append(s, m)[i] = s[i]
  OBVIOUS
<1> QED
  BY <1>1 DEF NoLists, ListsHave

LEMMA SaveTourParts ==
  ASSUME PageInv, BoardInv', NEW t, SaveTour(t)
  PROVE  Parts'
<1> DEFINE d == Append(page.sending, [tour |-> t, steps |-> page.draft])
           q == [page EXCEPT !.sending = d]
<1>1. Panel(q)
  BY DEF SaveTour
<1> HIDE DEF d
<1>2. /\ SameStep(q, page) /\ SameBar(q, page) /\ SameView(q, page)
  BY PageTypes DEF PageType, SameStep, SameBar, SameView
<1> HIDE DEF q
<1> QED
  BY <1>1, <1>2, PanelParts

LEMMA SendTourParts ==
  ASSUME PageInv, BoardInv', NEW i \in DOMAIN page.sending, SendTour(i)
  PROVE  Parts'
<1> DEFINE t == page.sending[i].tour
           new == [tours EXCEPT ![t] = page.sending[i].steps]
           c == CancelTourCreation(page)
           d == RemoveAt(c.sending, i)
           q == [c EXCEPT !.select = t, !.sending = d]
<1>1. /\ page' = q /\ SetTours(new)
      /\ saved' = (IF page.bar /\ page.active \in {None, t} /\ ~Coming({"tour_list"}) THEN t
                   ELSE None)
      /\ roaming' = roaming /\ guided' = guided
  BY DEF SendTour
<1>2. /\ t \in TourIds /\ page.sending[i].steps \in Steps /\ tours \in Tours
      /\ page \in PageType /\ down \in Seq(Msgs)
  BY PageTypes, SendingTyped
<1>3. new \in Tours /\ new[t] # None
  BY <1>2, NotNone DEF Tours
<1> HIDE DEF new, t, d
<1>4. /\ tours' = new /\ down' = Append(down, TourList(new)) /\ TourList(new) \in Msgs
      /\ OnlyIn({"tour_list"})
  BY <1>1, <1>3, SetToursIn
<1>5. SameStep(c, page) /\ SameBar(c, page) /\ SameView(c, page) /\ DOMAIN c = DOMAIN page
  BY <1>2, CancelSame
<1>6. "select" \in DOMAIN page
  BY <1>2 DEF PageType
<1> HIDE DEF c
<1>7. /\ SameStep(q, page) /\ SameView(q, page)
      /\ q.bar = page.bar /\ q.active = page.active /\ q.select = t
  BY <1>5, <1>6 DEF SameStep, SameBar, SameView
<1> HIDE DEF q
<1>8. NavParts'
  BY <1>1, <1>4, <1>7, NavSame
<1>9. ASSUME saved' # None
      PROVE  /\ saved' = t /\ page.bar /\ page.active \in {None, t} /\ NoLists(down)
  BY <1>1, <1>9 DEF Coming, NoLists
<1>10. /\ ~NoLists(down')
       /\ NoLists(down) => ListsHave(down', t)
  <2>1. TourList(new).type = "tour_list" /\ TourList(new).list[t] # None
    BY <1>3 DEF TourList
  <2> QED
    BY <1>2, <1>4, <2>1, AppendList
<1>11. SavedPart'
  BY <1>1, <1>3, <1>4, <1>7, <1>9, <1>10 DEF SavedPart
<1> QED
  BY <1>8, <1>11 DEF Parts

LEMMA DeleteParts ==
  ASSUME PageInv, BoardInv', DeleteCurrentTour
  PROVE  Parts'
<1> DEFINE id == IF page.editing # None THEN page.editing ELSE page.active
           new == [tours EXCEPT ![id] = None]
           c == CancelTourCreation(page)
           q == [c EXCEPT !.active = None, !.step = 0]
<1>1. /\ page' = q /\ SetTours(new) /\ saved' = None /\ guided' = None
      /\ roaming' = roaming
  BY DEF DeleteCurrentTour
<1>2. tours \in Tours /\ page \in PageType
  BY PageTypes
<1>3. new \in Tours
  BY <1>2 DEF Tours
<1> HIDE DEF new
<1>4. OnlyIn({"tour_list"})
  BY <1>1, <1>3, SetToursIn
<1>5. SameView(c, page) /\ DOMAIN c = DOMAIN page /\ "step" \in DOMAIN page
  BY <1>2, CancelSame DEF PageType
<1> HIDE DEF c
<1>6. SameView(q, page) /\ q.step = 0
  BY <1>5 DEF SameView
<1> HIDE DEF q
<1>7. NavParts'
  BY <1>1, <1>4, <1>6, NavLeft
<1> QED
  BY <1>1, <1>7 DEF Parts, SavedPart

LEMMA PageItself ==
  SameStep(page, page) /\ SameBar(page, page) /\ SameView(page, page)
BY DEF SameStep, SameBar, SameView

LEMMA OthersEditParts ==
  ASSUME PageInv, BoardInv', NEW t \in TourIds, OthersEdit(t)
  PROVE  Parts'
<1>1. PICK new \in {RemoveAt(tours[t], i) : i \in DOMAIN tours[t]}
                   \cup {Reverse(tours[t]), None} :
        /\ SetTours([tours EXCEPT ![t] = new])
        /\ saved' = IF saved = t /\ new = None THEN None ELSE saved
  BY DEF OthersEdit
<1> DEFINE list == [tours EXCEPT ![t] = new]
<1>2. /\ tours[t] # None /\ page' = page /\ roaming' = roaming
      /\ guided' = guided
  BY DEF OthersEdit
<1>3. tours \in Tours /\ tours[t] \in Steps /\ down \in Seq(Msgs) /\ saved \in TourIds \cup {None}
  BY <1>2, PageTypes DEF Tours
<1>4. new \in Steps \cup {None}
  BY <1>1, <1>3, RemoveAtSteps, ReverseSteps
<1>5. list \in Tours
  BY <1>3, <1>4 DEF Tours
<1>6. SetTours(list)
  BY <1>1
<1>7. saved' # None => saved' = saved /\ (tours[saved] # None => list[saved] # None)
  BY <1>1, <1>3 DEF Tours
<1> HIDE DEF list
<1>8. /\ tours' = list /\ down' = Append(down, TourList(list)) /\ TourList(list) \in Msgs
      /\ OnlyIn({"tour_list"})
  BY <1>5, <1>6, SetToursIn
<1>9. SameStep(page', page) /\ SameView(page', page)
  BY <1>2, PageItself
<1>10. NavParts'
  BY <1>2, <1>8, <1>9, NavSame
<1>11. ASSUME saved' # None PROVE SavedPart'
  <2>1. /\ saved' = saved /\ saved # None
        /\ page.bar /\ tours[saved] # None /\ ListsHave(down, saved)
        /\ page.active = saved \/ (page.active = None /\ page.select = saved)
    BY <1>7, <1>11 DEF PageInv, Parts, SavedPart
  <2>2. TourList(list).type = "tour_list" /\ TourList(list).list[saved] # None
    BY <1>7, <1>11, <2>1 DEF TourList
  <2>3. ListsHave(down', saved) /\ ~NoLists(down')
    BY <1>3, <1>8, <2>1, <2>2, AppendList
  <2> QED
    BY <1>2, <1>7, <1>8, <1>11, <2>1, <2>3 DEF SavedPart
<1>12. SavedPart'
  BY <1>11 DEF SavedPart
<1> QED
  BY <1>10, <1>12 DEF Parts

LEMMA GuideShowsParts ==
  ASSUME PageInv, BoardInv', NEW g \in GuideStates, GuideShows(g)
  PROVE  Parts'
<1>1. /\ Tell(GuideState(g)) /\ tours' = tours /\ page' = page
      /\ saved' = saved /\ roaming' = roaming /\ guided' = guided
  BY DEF GuideShows, histVars
<1>2. GuideState(g) \in Msgs /\ GuideState(g).type = "guide_state"
  BY DEF GuideState, Msgs
<1>3. OnlyIn({"guide_state"})
  BY <1>1, <1>2 DEF OnlyIn
<1> QED
  BY <1>1, <1>3, PageItself, AwayParts

LEMMA FileChangesParts ==
  ASSUME PageInv, BoardInv', NEW f \in Files, FileChanges(f)
  PROVE  Parts'
<1>1. /\ Tell(File("file_changed", f)) /\ tours' = tours /\ page' = page
      /\ saved' = saved /\ roaming' = roaming /\ guided' = guided
  BY DEF FileChanges, histVars
<1>2. File("file_changed", f) \in Msgs /\ File("file_changed", f).type = "file_changed"
  BY DEF File, Msgs
<1>3. OnlyIn({"file_changed"})
  BY <1>1, <1>2 DEF OnlyIn
<1> QED
  BY <1>1, <1>3, PageItself, AwayParts

LEMMA AnswerParts ==
  ASSUME PageInv, BoardInv', NEW f \in Files, Answer(f)
  PROVE  Parts'
<1> DEFINE m == File("file_content", f)
           q == [page EXCEPT !.asked = page.asked \ {f}]
<1>1. /\ f \in page.asked /\ page' = q /\ down' = Append(down, m)
      /\ tours' = tours
      /\ saved' = saved /\ roaming' = roaming /\ guided' = guided
  BY DEF Answer, Tell, histVars
<1>2. m \in Msgs /\ m.type = "file_content" /\ m.file = f
  BY PageTypes DEF File, Msgs
<1>3. OnlyIn({"file_content"})
  BY <1>1, <1>2 DEF OnlyIn, Tell
<1>4. /\ SameStep(q, page) /\ SameBar(q, page)
      /\ q.asked = page.asked \ {f} /\ q.view = page.view /\ q.pendingStep = page.pendingStep
      /\ q.pendingGuide = page.pendingGuide
  BY PageTypes DEF PageType, SameStep, SameBar
<1> HIDE DEF m, q
<1>5. down \in Seq(Msgs) /\ down' \in Seq(Msgs)
  BY PageTypes DEF BoardInv, TypeOK
<1>6. /\ ~Idle(page, down) /\ ~Idle(page', down')
      /\ Alone(page, down) => Alone(page', down')
      /\ \A g : Only(page, down, g) => Only(page', down', g)
  BY <1>1, <1>2, <1>4, <1>5, AnswerWait
<1>7. NavParts'
  <2>1. Shown(page') = Shown(page) /\ (InTour(page') <=> InTour(page))
    BY <1>1, <1>4, SameShown
  <2>2. ASSUME ~roaming' PROVE StepOK(page', down')
    <3>1. StepOK(page, down)
      BY <1>1, <2>2 DEF PageInv, Parts, NavParts, StepPart
    <3> QED
      BY <1>6, <2>1, <3>1 DEF StepOK
  <2>3. ASSUME guided' # None PROVE GuidedOK(page', down', guided')
    <3>1. GuidedOK(page, down, guided)
      BY <1>1, <2>3 DEF PageInv, Parts, NavParts, GuidedPart
    <3>2. TourAs(page', guided)
      BY <1>1, <1>4, <3>1, SameTourAs DEF GuidedOK
    <3> QED
      BY <1>1, <1>4, <1>6, <3>1, <3>2 DEF GuidedOK
  <2> QED
    BY <1>6, <2>2, <2>3 DEF NavParts, PendingPart, PendingOK, StepPart, GuidedPart
<1>8. SavedPart'
  BY <1>1, <1>3, <1>4, SavedSame
<1> QED
  BY <1>7, <1>8 DEF Parts

-----------------------------------------------------------------------------
(* The comment.                                                            *)

(* A list of comments is sent, and the page is where it was.               *)
LEMMA SetNoteParts ==
  ASSUME PageInv, BoardInv', NEW n \in Note, SetNote(n), SameStep(page', page),
         SameBar(page', page), SameView(page', page),
         tours' = tours, saved' = saved, roaming' = roaming, guided' = guided
  PROVE  Parts'
<1>1. NoteList(n) \in Msgs /\ NoteList(n).type = "comment_list"
  BY DEF NoteList, Msgs
<1>2. OnlyIn({"comment_list"})
  BY <1>1 DEF OnlyIn, SetNote
<1> QED
  BY <1>2, AwayParts

LEMMA AddCommentParts ==
  ASSUME PageInv, BoardInv', AddComment
  PROVE  Parts'
<1> DEFINE n == [file |-> page.box.file, line |-> page.box.line,
                 sym |-> SymbolAt(page.box.line), gone |-> FALSE]
           q == [page EXCEPT !.box = None]
<1>1. /\ page.box # None /\ SetNote(n) /\ page' = q
      /\ tours' = tours /\ saved' = saved /\ roaming' = roaming /\ guided' = guided
  BY DEF AddComment, histVars
<1>2. page.box.file \in Files /\ page.box.line \in Lines
  BY <1>1, PageTypes DEF PageType, Box
<1>3. n \in Note
  BY <1>2, SymbolTyped DEF Note
<1>4. SameStep(q, page) /\ SameBar(q, page) /\ SameView(q, page)
  BY PageTypes DEF PageType, SameStep, SameBar, SameView
<1> HIDE DEF n, q
<1> QED
  BY <1>1, <1>3, <1>4, SetNoteParts

LEMMA FrameParts ==
  ASSUME PageInv, BoardInv', NEW f \in Files, Frame(f)
  PROVE  Parts'
<1> DEFINE q == [page EXCEPT !.frames = page.frames \ {f}]
           n == Reanchored(page.note)
<1>1. /\ page' = q /\ ((page.note # None /\ SetNote(n)) \/ down' = down)
      /\ tours' = tours /\ saved' = saved /\ roaming' = roaming /\ guided' = guided
  BY DEF Frame, histVars
<1>2. SameStep(q, page) /\ SameBar(q, page) /\ SameView(q, page)
  BY PageTypes DEF PageType, SameStep, SameBar, SameView
<1>3. page.note # None => n \in Note
  BY PageTypes, ReanchoredTyped DEF PageType
<1>4. down' = down => OnlyIn({})
  BY DEF OnlyIn
<1> HIDE DEF q, n
<1> QED
  BY <1>1, <1>2, <1>3, <1>4, SetNoteParts, AwayParts

-----------------------------------------------------------------------------
(* What the page is sent.                                                  *)

LEMMA TakeIn ==
  ASSUME PageInv, Deliver
  PROVE  /\ down # <<>> /\ down \in Seq(Msgs) /\ Head(down) \in Msgs /\ down' = Tail(down)
         /\ tours' = tours
         /\ OnlyIn({Head(down).type})
<1>1. /\ down # <<>> /\ down' = Tail(down) /\ down \in Seq(Msgs)
      /\ tours' = tours
  BY PageTypes DEF Deliver
<1> QED
  BY <1>1, TailOf DEF OnlyIn

LEMMA TourListParts ==
  ASSUME PageInv, BoardInv', Deliver, Head(down).type = "tour_list"
  PROVE  Parts'
<1> DEFINE m == Head(down)
<1>1. /\ down # <<>> /\ down \in Seq(Msgs) /\ m \in Msgs /\ down' = Tail(down)
      /\ tours' = tours
      /\ OnlyIn({"tour_list"})
  BY TakeIn
<1>2. /\ page' = OnTourList(page, m.list) /\ saved' = saved
      /\ roaming' = (roaming \/ Shown(page') # Shown(page))
      /\ guided' = IF /\ page'.active = page.active /\ page'.step = page.step
                      /\ HasGuided(page') => HasGuided(page)
                   THEN guided ELSE None
  BY DEF Deliver
<1>3. m.list \in Tours /\ Fit(page) /\ m.type = "tour_list" /\ down' \in Seq(Msgs)
  BY <1>1, PageTypes DEF Msgs, BoardInv, TypeOK
<1> HIDE DEF m
<1>4. /\ page'.tours = m.list /\ page'.bar = page.bar
      /\ SameView(page', page) /\ InTour(page')
      /\ page.bar => page'.active =
                       LET prev == IF page.active # None THEN page.active ELSE page.select
                       IN  IF prev = None \/ m.list[prev] = None THEN None ELSE prev
  BY <1>2, <1>3, TourListIs, TourListFit
<1>5. /\ Idle(page', down') <=> Idle(page, down)
      /\ Alone(page', down') <=> Alone(page, down)
      /\ \A f : Only(page', down', f) <=> Only(page, down, f)
  BY <1>1, <1>3, <1>4, SameWait DEF SameView
<1>6. PendingPart'
  BY <1>4, <1>5 DEF PageInv, Parts, NavParts, PendingPart, PendingOK, SameView
<1>7. StepPart'
  <2> SUFFICES ASSUME ~roaming' PROVE StepOK(page', down')
    BY DEF StepPart
  <2>1. Shown(page') = Shown(page) /\ StepOK(page, down)
    BY <1>2 DEF PageInv, Parts, NavParts, StepPart
  <2> QED
    BY <1>4, <1>5, <2>1 DEF StepOK, SameView
<1>8. GuidedPart'
  <2> SUFFICES ASSUME guided' # None PROVE GuidedOK(page', down', guided)
    BY <1>2 DEF GuidedPart
  <2>1. /\ guided # None /\ page'.active = page.active /\ page'.step = page.step
        /\ HasGuided(page') => HasGuided(page)
    BY <1>2
  <2>2. GuidedOK(page, down, guided)
    BY <2>1 DEF PageInv, Parts, NavParts, GuidedPart
  <2>3. guided.tour # None /\ page'.tours[guided.tour] # None => page.tours[guided.tour] # None
    BY <2>1 DEF HasGuided
  <2>4. TourAs(page', guided)
    BY <2>1, <2>2, <2>3 DEF GuidedOK, TourAs
  <2> QED
    BY <1>4, <1>5, <2>2, <2>4 DEF GuidedOK, SameView
<1>9. SavedPart'
  <2> SUFFICES ASSUME saved # None
               PROVE  /\ page'.bar /\ tours[saved] # None /\ ListsHave(down', saved)
                      /\ page'.active = saved
    BY <1>1, <1>2 DEF SavedPart
  <2>1. /\ page.bar /\ tours[saved] # None /\ ListsHave(down, saved)
        /\ page.active = saved \/ (page.active = None /\ page.select = saved)
    BY DEF PageInv, Parts, SavedPart
  <2>2. m.list[saved] # None
    BY <1>1, <1>3, <2>1, TailOf DEF ListsHave, m
  <2>3. ListsHave(down', saved)
    <3>1. \A i \in DOMAIN down' : i + 1 \in DOMAIN down /\ down[i + 1] = down'[i]
      BY <1>1, TailOf
    <3> QED
      BY <2>1, <3>1 DEF ListsHave
  <2> QED
    BY <1>4, <2>1, <2>2, <2>3
<1> QED
  BY <1>6, <1>7, <1>8, <1>9 DEF Parts, NavParts

LEMMA CommentListParts ==
  ASSUME PageInv, BoardInv', Deliver, Head(down).type = "comment_list"
  PROVE  Parts'
<1> DEFINE m == Head(down)
           q == [page EXCEPT !.note = m.note]
<1>1. OnlyIn({"comment_list"}) /\ tours' = tours
  BY TakeIn
<1>2. page' = q /\ saved' = saved /\ roaming' = roaming /\ guided' = guided
  BY DEF Deliver
<1> HIDE DEF m
<1>3. SameStep(q, page) /\ SameBar(q, page) /\ SameView(q, page)
  BY PageTypes DEF PageType, SameStep, SameBar, SameView
<1> HIDE DEF q
<1> QED
  BY <1>1, <1>2, <1>3, AwayParts

LEMMA FileChangedIs ==
  ASSUME NEW pg \in PageType, NEW f
  PROVE  /\ SameStep(OnFileChanged(pg, f), pg) /\ SameBar(OnFileChanged(pg, f), pg)
         /\ SameView(OnFileChanged(pg, f), pg)
BY DEF OnFileChanged, PageType, SameStep, SameBar, SameView

LEMMA FileChangedParts ==
  ASSUME PageInv, BoardInv', Deliver, Head(down).type = "file_changed"
  PROVE  Parts'
<1>1. OnlyIn({"file_changed"}) /\ tours' = tours
  BY TakeIn
<1>2. /\ page' = OnFileChanged(page, Head(down).file) /\ saved' = saved /\ roaming' = roaming
      /\ guided' = guided
  BY DEF Deliver
<1> QED
  BY <1>1, <1>2, PageTypes, FileChangedIs, AwayParts

(* A guide's state reaches a page that waits for nothing, or is not        *)
(* counted on.                                                             *)
LEMMA GuideStateParts ==
  ASSUME PageInv, BoardInv', Deliver, Head(down).type = "guide_state"
  PROVE  Parts'
<1> DEFINE m == Head(down)
<1>1. /\ m \in Msgs /\ down' \in Seq(Msgs) /\ OnlyIn({"guide_state"})
      /\ down \in Seq(Msgs)
      /\ tours' = tours
  BY TakeIn DEF BoardInv, TypeOK
<1>2. /\ page' = ApplyGuideState(page, m.state)
      /\ guided' = (IF Unanswered THEN None ELSE m.state)
      /\ saved' = None /\ roaming' = TRUE
  BY DEF Deliver
<1>3. m.state \in GuideStates /\ Fit(page)
  BY <1>1, PageTypes DEF Msgs
<1> HIDE DEF m
<1>4. Idle(page, down') <=> Idle(page, down)
  <2>1. PICK k \in {0, 1} : Shifted(down, down', {"guide_state"}, k)
    BY <1>1, OthersShift
  <2>2. NoFiles(down') <=> NoFiles(down)
    BY <1>1, <2>1, ShiftWait
  <2> QED
    BY <2>2 DEF Idle
<1>5. /\ page'.pendingStep = page.pendingStep
      /\ page.asked \subseteq page'.asked
      /\ Idle(page, down') /\ page.pendingStep = 0 => GuidedOK(page', down', m.state)
  BY <1>2, <1>3, ApplyIs
<1>6. PendingOK(page, down)
  BY DEF PageInv, Parts, NavParts, PendingPart
<1>7. PendingPart'
  BY <1>4, <1>5, <1>6 DEF PendingPart, PendingOK, Idle
<1>8. GuidedPart'
  <2> SUFFICES ASSUME guided' # None PROVE GuidedOK(page', down', m.state)
    BY <1>2 DEF GuidedPart
  <2>1. Idle(page, down)
    BY <1>2, UnansweredIs
  <2> QED
    BY <1>4, <1>5, <1>6, <2>1 DEF PendingOK
<1> QED
  BY <1>2, <1>7, <1>8 DEF Parts, NavParts, StepPart, SavedPart

(* A file that was asked for: the step that waited is gone to, and a state *)
(* of the guide that waited for this file is taken up.                     *)
LEMMA FileContentParts ==
  ASSUME PageInv, BoardInv', Deliver, Head(down).type = "file_content"
  PROVE  Parts'
<1> DEFINE m == Head(down)
           f == m.file
           g == page.pendingGuide
           got == [page EXCEPT !.has = page.has \cup {f}, !.view = f, !.pendingStep = 0]
           a == ApplyGuideState(got, g)
           b == [a EXCEPT !.pendingGuide = None]
           w == Waited(f)
           led == IF w THEN b ELSE got
           i == page.pendingStep
<1>1. /\ down # <<>> /\ down \in Seq(Msgs) /\ m \in Msgs /\ down' = Tail(down)
      /\ m.type = "file_content" /\ OnlyIn({"file_content"}) /\ down' \in Seq(Msgs)
      /\ tours' = tours
  BY TakeIn DEF BoardInv, TypeOK
<1>2. /\ page' = GoToTourStep(led, i)
      /\ IF w THEN /\ saved' = None /\ roaming' = TRUE
                   /\ guided' = IF guided = g THEN guided ELSE None
              ELSE saved' = saved /\ roaming' = roaming /\ guided' = guided
  BY DEF Deliver, OnFileContent, Waited
<1>3. f \in Files /\ Fit(page)
  BY <1>1, PageTypes DEF Msgs
<1>4. w => g \in GuideStates /\ g.file = f
  BY PageTypes DEF PageType, Waited
<1>5. /\ Fit(got) /\ SameStep(got, page) /\ SameBar(got, page)
      /\ got.view = f /\ got.asked = page.asked /\ got.pendingStep = 0 /\ f \in got.has
  BY <1>3, NoSteps DEF Fit, PageType, SameStep, SameBar
<1> HIDE DEF m, f, got, w, g, i
<1>6. w => /\ Fit(a) /\ SameFiles(a, got) /\ a.pendingStep = 0 /\ a.asked = page.asked
           /\ a.view = f /\ TourAs(a, g)
  <2> SUFFICES ASSUME w
               PROVE  /\ Fit(a) /\ SameFiles(a, got) /\ a.pendingStep = 0 /\ a.asked = page.asked
                      /\ a.view = f /\ TourAs(a, g)
    OBVIOUS
  <2>1. g \in GuideStates /\ g.file = f /\ g.file \in got.has
    BY <1>4, <1>5
  <2>2. Fit(a)
    BY <1>5, <2>1, ApplyFit
  <2>3. /\ SameFiles(a, got) /\ a.pendingStep = got.pendingStep
        /\ a.asked = got.asked /\ a.view = g.file /\ TourAs(a, g)
    BY <1>5, <2>1, ApplyIs
  <2> QED
    BY <1>5, <2>1, <2>2, <2>3
<1> HIDE DEF a
<1>7. w => /\ Fit(b) /\ SameFiles(b, got) /\ b.pendingStep = 0 /\ b.asked = page.asked
           /\ b.view = f /\ TourAs(b, g)
  <2> SUFFICES ASSUME w
               PROVE  /\ Fit(b) /\ SameFiles(b, got) /\ b.pendingStep = 0 /\ b.asked = page.asked
                      /\ b.view = f /\ TourAs(b, g)
    OBVIOUS
  <2>1. /\ Fit(b) /\ SameFiles(b, a) /\ SameStep(b, a)
        /\ b.pendingStep = a.pendingStep /\ b.asked = a.asked /\ b.view = a.view
    BY <1>6 DEF Fit, PageType, SameFiles, SameStep
  <2>2. TourAs(b, g)
    BY <1>6, <2>1, SameTourAs
  <2> QED
    BY <1>6, <2>1, <2>2 DEF SameFiles
<1> HIDE DEF b
<1>8. /\ Fit(led) /\ SameFiles(led, got) /\ led.pendingStep = 0 /\ led.asked = page.asked
      /\ led.view = f /\ (~w => led = got)
  BY <1>5, <1>7 DEF SameFiles
<1>9. w => led = b
  OBVIOUS
<1> HIDE DEF led
<1>10. /\ SameFiles(page', led) /\ SameBar(page', led)
       /\ PendingOK(led, down') => PendingOK(page', down')
  BY <1>2, <1>8, GoToKeeps
<1>11. PendingPart'
  BY <1>8, <1>10 DEF PendingPart, PendingOK
<1>12. /\ ~Idle(page, down) /\ (Alone(page, down) => Idle(page, down'))
       /\ \A h : Only(page, down, h) => f = h
  BY <1>1, TakeWait DEF f, m
<1>13. Alone(page, down) => Idle(led, down')
  BY <1>8, <1>12 DEF Idle
<1>14. StepPart'
  <2> SUFFICES ASSUME ~roaming' PROVE StepOK(page', down')
    BY DEF StepPart
  <2>1. ~w /\ led = got /\ StepOK(page, down)
    BY <1>2, <1>8 DEF PageInv, Parts, NavParts, StepPart
  <2>2. Idle(got, down')
    BY <1>13, <2>1 DEF StepOK
  <2>3. CASE i \in DOMAIN ActiveSteps(got)
    BY <1>2, <1>5, <2>1, <2>2, <2>3, GoToShows
  <2>4. CASE i \notin DOMAIN ActiveSteps(got)
    <3>1. page' = got
      BY <1>2, <2>1, <2>4 DEF GoToTourStep
    <3>2. Shown(got) = Shown(page) /\ (InTour(got) <=> InTour(page))
      BY <1>5, SameShown
    <3>3. Shown(got) # None => got.view = Shown(got)
      BY <1>5, <1>12, <2>1, <3>2 DEF StepOK
    <3> QED
      BY <2>1, <2>2, <3>1, <3>2, <3>3, IdleAlone DEF StepOK
  <2> QED
    BY <2>3, <2>4
<1>15. GuidedPart'
  <2> SUFFICES ASSUME guided' # None PROVE GuidedOK(page', down', guided)
    BY <1>2 DEF GuidedPart
  <2>1. guided # None /\ GuidedOK(page, down, guided)
    BY <1>2 DEF PageInv, Parts, NavParts, GuidedPart
  <2>2. guided = g /\ f = g.file /\ i = 0 /\ Alone(page, down)
    BY <1>12, <2>1 DEF GuidedOK, g, i
  <2>3. w
    BY <2>1, <2>2 DEF Waited, w, g
  <2>4. Idle(led, down') /\ TourAs(led, g)
    BY <1>7, <1>9, <1>13, <2>2, <2>3
  <2>5. page' = led
    <3>1. 0 \notin DOMAIN ActiveSteps(led)
      BY <1>8, ActiveTyped
    <3> QED
      BY <1>2, <2>2, <3>1 DEF GoToTourStep
  <2> QED
    BY <1>8, <2>2, <2>4, <2>5, IdleAlone DEF GuidedOK
<1>16. SavedPart'
  <2>1. CASE w
    BY <1>2, <2>1 DEF SavedPart
  <2>2. CASE ~w
    <3>1. saved' = saved /\ SameBar(page', page)
      BY <1>2, <1>5, <1>8, <1>10, <2>2 DEF SameBar
    <3> QED
      BY <1>1, <3>1, SavedSame
  <2> QED
    BY <2>1, <2>2
<1> QED
  BY <1>11, <1>14, <1>15, <1>16 DEF Parts, NavParts

-----------------------------------------------------------------------------

LEMMA InitParts == Init => PageInv
<1> SUFFICES ASSUME Init PROVE Parts
  BY InitInv DEF PageInv
<1>1. /\ down = <<>> /\ saved = None /\ roaming = FALSE /\ guided = None
      /\ page.asked = {} /\ page.pendingStep = 0 /\ page.active = None
  BY DEF Init
<1>2. NoFiles(down)
  BY <1>1 DEF NoFiles
<1>3. Idle(page, down) /\ InTour(page) /\ Shown(page) = None
  BY <1>1, <1>2 DEF Idle, InTour, Shown, ActiveSteps
<1>4. NavParts
  BY <1>1, <1>3, IdleAlone DEF NavParts, PendingPart, PendingOK, StepPart, StepOK, GuidedPart
<1> QED
  BY <1>1, <1>4 DEF Parts, SavedPart

LEMMA PartsKept ==
  ASSUME PageInv, [Next]_vars
  PROVE  PageInv'
<1>0. BoardInv'
  BY NextKept DEF PageInv, BoardInv
<1> SUFFICES Parts'
  BY <1>0 DEF PageInv
<1>1. ASSUME NEW f \in Files, Roam(Open(page, f)), Silent PROVE Parts'
  BY <1>0, <1>1, RoamParts
<1>2. CASE TourStep
  <2>1. CASE \/ ToggleTourBar \/ \E t \in TourIds : SelectTour(t)
             \/ \E i \in 1 .. MaxSteps : TourTo(i)
    BY <1>0, <2>1, ToggleParts, SelectTourParts, TourToParts
  <2>2. CASE \/ StartTourCreation \/ EditCurrentTour \/ CancelCreation \/ DeleteCurrentTour
             \/ \E t \in TourIds : SaveTour(t)
    BY <1>0, <2>2, StartParts, EditParts, CancelParts, DeleteParts, SaveTourParts
  <2>3. ASSUME NEW i \in DOMAIN page.draft,
               RemoveStep(i) \/ MoveStep(i) \/ ReanchorStep(i) \/ GoToNewStep(i)
        PROVE  Parts'
    <3>1. CASE GoToNewStep(i)
      <4>1. Silent /\ Roam(Open(page, page.draft[i].file))
        BY <3>1 DEF GoToNewStep
      <4>2. page.draft \in Steps /\ page.draft[i] \in Step
        BY PageTypes, StepsAre DEF PageType
      <4>3. page.draft[i].file \in Files
        BY <4>2 DEF Step
      <4> QED
        BY <1>1, <4>1, <4>3
    <3> QED
      BY <1>0, <2>3, <3>1, RemoveStepParts, MoveStepParts, ReanchorStepParts
  <2>4. CASE \E i \in DOMAIN page.sending : SendTour(i)
    BY <1>0, <2>4, SendTourParts
  <2> QED
    BY <1>2, <2>1, <2>2, <2>3, <2>4 DEF TourStep
<1>3. CASE CommentStep
  <2>1. CASE JumpToComment
    <3>1. Silent /\ page.note # None /\ Roam(Open(page, page.note.file))
      BY <2>1 DEF JumpToComment
    <3>2. page.note.file \in Files
      BY <3>1, PageTypes DEF PageType, Note
    <3> QED
      BY <1>1, <3>1, <3>2
  <2> QED
    BY <1>0, <1>3, <2>1, GutterClickParts, AddCommentParts DEF CommentStep
<1>4. CASE Deliver
  <2>1. Head(down).type \in
          {"tour_list", "comment_list", "file_content", "file_changed", "guide_state"}
    BY <1>4 DEF Deliver
  <2> QED
    BY <1>0, <1>4, <2>1, TourListParts, CommentListParts, FileContentParts, FileChangedParts,
       GuideStateParts
<1>5. CASE \E f \in Files : OpenFile(f) \/ Answer(f) \/ Frame(f)
  BY <1>0, <1>1, <1>5, AnswerParts, FrameParts DEF OpenFile
<1>6. CASE \E f \in Files : FileChanges(f)
  BY <1>0, <1>6, FileChangesParts
<1>7. CASE \E t \in TourIds : OthersEdit(t)
  BY <1>0, <1>7, OthersEditParts
<1>8. CASE \E s \in GuideStates : GuideShows(s)
  BY <1>0, <1>8, GuideShowsParts
<1>9. CASE UNCHANGED vars
  <2>1. /\ page' = page /\ UNCHANGED histVars /\ Silent
    BY <1>9 DEF vars, histVars, Silent, Keep
  <2> QED
    BY <1>0, <2>1, PageItself, AsideParts
<1> QED
  BY <1>2, <1>3, <1>4, <1>5, <1>6, <1>7, <1>8, <1>9 DEF Next

(* The invariant with what the properties need of the messages.            *)
THEOREM PageInvariant == Spec => []PageInv
BY InitParts, PartsKept, PTL DEF Spec

LEMMA QuietIdle ==
  ASSUME PageInv, Quiet
  PROVE  Idle(page, down) /\ NoLists(down)
BY DEF Quiet, Idle, NoFiles, NoLists

(* Whatever comes late, and in whatever order it was asked for: a page     *)
(* that has got everything awaits no step, and shows the file of the step  *)
(* its tour bar counts (app.js, goToTourStep with pendingTourStep,         *)
(* handleFileContent and handleTourList), unless the user went elsewhere,  *)
(* picked the step while a file was to come, or others changed the step.   *)
THEOREM StepAlwaysShown == Spec => []StepShown
<1>1. PageInv => StepShown
  <2> SUFFICES ASSUME PageInv, Quiet PROVE
                 /\ page.pendingStep = 0
                 /\ page.active # None /\ page.step # 0 /\ ~roaming
                    => page.view = ActiveSteps(page)[page.step].file
    BY DEF StepShown
  <2>1. Idle(page, down) /\ Fit(page)
    BY QuietIdle, PageTypes
  <2>2. page.pendingStep = 0
    BY <2>1 DEF PageInv, Parts, NavParts, PendingPart, PendingOK
  <2>3. ASSUME page.active # None, page.step # 0, ~roaming
        PROVE  page.view = ActiveSteps(page)[page.step].file
    <3>1. StepOK(page, down)
      BY <2>3 DEF PageInv, Parts, NavParts, StepPart
    <3>2. page.step \in DOMAIN ActiveSteps(page)
      <4>1. page.step <= Len(ActiveSteps(page)) /\ page.step \in 0 .. MaxSteps
        BY <2>1, <2>3, <3>1 DEF StepOK, InTour, Fit, PageType
      <4> QED
        BY <2>1, <2>3, <4>1, ActiveTyped, NotNone
    <3>3. ActiveSteps(page)[page.step] \in Step
      BY <2>1, <3>2, ActiveTyped
    <3>4. Shown(page) = ActiveSteps(page)[page.step].file /\ Shown(page) # None
      BY <3>2, <3>3, NotNone DEF Shown, Step
    <3> QED
      BY <2>1, <3>1, <3>4 DEF StepOK
  <2> QED
    BY <2>2, <2>3
<1> QED
  BY PageInvariant, <1>1, PTL

(* A page that has got everything is where its guide last was: in that     *)
(* file, and at that step of that tour if it has the tour (app.js,         *)
(* applyGuideState with pendingGuideFollow), whatever lists, files and     *)
(* states came in the meantime, unless its user went elsewhere, it awaited *)
(* a file when it was told, or its list of tours has changed there.        *)
THEOREM TourAlwaysFollowsGuide == Spec => []TourFollowsGuide
<1>1. PageInv => TourFollowsGuide
  <2> SUFFICES ASSUME PageInv, Quiet, guided # None
               PROVE  page.view = guided.file /\ TourAs(page, guided)
    BY DEF TourFollowsGuide, TourAs
  <2>1. Idle(page, down) /\ GuidedOK(page, down, guided)
    BY QuietIdle DEF PageInv, Parts, NavParts, GuidedPart
  <2> QED
    BY <2>1 DEF GuidedOK
<1> QED
  BY PageInvariant, <1>1, PTL

(* The tour that was saved is the one selected when all lists have come,   *)
(* its own and those of others (app.js, saveTour and handleTourList with   *)
(* pendingTourSelect), if none was on its way when it was saved and it was *)
(* neither deleted nor left since.                                         *)
THEOREM SavedTourAlwaysShown == Spec => []SavedTourShown
<1>1. PageInv => SavedTourShown
  BY QuietIdle DEF SavedTourShown, PageInv, Parts, SavedPart
<1> QED
  BY PageInvariant, <1>1, PTL
=============================================================================
