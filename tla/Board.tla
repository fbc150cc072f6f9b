------------------------------- MODULE Board -------------------------------
(***************************************************************************)
(* Comments and tours in a page (web/app.js, web/symbols.js): the tour bar,*)
(* the panel in which a tour is written, comments, and the files that are  *)
(* opened to show all these.                                               *)
(*                                                                         *)
(* One page is modelled, with one comment; what other users do reaches the *)
(* rows of the relay and comes back in lists (Annotations has the handlers *)
(* and the order of the lists).  What the page sends is taken in the same  *)
(* step; what it is sent waits in `down`.  Of the page's copy of a file it *)
(* matters here that there is one (FileSync has what is in it).  A step    *)
(* stands for its title and description by the number of its author's      *)
(* action.  Steps count from 1 and 0 is none (from 0 and -1 in the code).  *)
(***************************************************************************)
EXTENDS Naturals, Sequences, SequencesExt

(* An operator whose comment says "Mutant" is no part of Spec: it is a     *)
(* slip the definition after it could have had, and a property refutes it. *)

CONSTANTS
    Files,
    Opened,     \* the files the page has a copy of at first
    TourIds,    \* the ids of tours: each is the slug of some title
    FirstTours, \* the tours there are at first
    MaxLine,    \* bound: lines of a file
    MaxSteps,   \* bound: steps of a tour
    MaxEvents,  \* bound: what users and the daemon do
    None

Lines == 1 .. MaxLine
Step == [file : Files, line : Lines, title : 0 .. MaxEvents]
Steps == UNION {[1 .. n -> Step] : n \in 0 .. MaxSteps}
Tours == [TourIds -> Steps \cup {None}]

ASSUME BoardAssumption ==
    /\ Opened \subseteq Files /\ FirstTours \in Tours
    /\ MaxLine \in Nat \ {0} /\ MaxSteps \in Nat \ {0} /\ MaxEvents \in Nat
    /\ None \notin Files \cup TourIds \cup Steps \cup Nat

VARIABLES
    tours, note,  \* the relay's rows: tours, and the comment or None
    down,         \* messages to the page
    page,
    saved,        \* history: the tour the page saved last, unless it was overtaken
    roaming,      \* history: the page may show another file than the step's
    guided,       \* history: what the guide showed last, unless something came between
    events

histVars == <<saved, roaming, guided>>
vars == <<tours, note, down, page, histVars, events>>

(* `sym` is the comment's symbol_path, None when it is empty, and `gone`   *)
(* its orphaned.                                                           *)
Note == [file : Files, line : Lines, sym : Files \cup {None}, gone : BOOLEAN]
Box == [file : Files, line : Lines]
GuideStates == [file : Files, tour : TourIds \cup {None}, step : 0 .. MaxSteps]

(* `has` are the paths in openFiles; step and pendingStep are              *)
(* activeTourStep and pendingTourStep; draft, editing, mark and select are *)
(* newTourSteps, editingTourId, reanchoringStepIdx and pendingTourSelect;  *)
(* `sending` are the tours that saveTour is about to send.                 *)
Sending == [tour : TourIds, steps : Steps]
PageType ==
    [tours : Tours, note : Note \cup {None}, has : SUBSET Files,
     view : Files \cup {None}, asked : SUBSET Files, frames : SUBSET Files,
     bar : BOOLEAN, active : TourIds \cup {None}, step : 0 .. MaxSteps,
     pendingStep : 0 .. MaxSteps, pendingGuide : GuideStates \cup {None},
     creating : BOOLEAN, editing : TourIds \cup {None}, draft : Steps, mark : 0 .. MaxSteps,
     select : TourIds \cup {None}, sending : Seq(Sending), box : Box \cup {None}]

TourList(list) == [type |-> "tour_list", list |-> list]
NoteList(n) == [type |-> "comment_list", note |-> n]
File(type, f) == [type |-> type, file |-> f]
GuideState(s) == [type |-> "guide_state", state |-> s]
Msgs == [type : {"tour_list"}, list : Tours]
        \cup [type : {"comment_list"}, note : Note \cup {None}]
        \cup [type : {"file_content", "file_changed"}, file : Files]
        \cup [type : {"guide_state"}, state : GuideStates]

(* getSymbolAtLine and findSymbol look in state.tree, and an EditorState   *)
(* of CodeMirror 6 has no such field: the one returns null whatever is on  *)
(* the line, the other that a symbol is not found.                         *)
SymbolAt(line) == None

(* The variables have their types, and the file in view is an open one.    *)
TypeOK ==
    /\ tours \in Tours /\ note \in Note \cup {None}
    /\ down \in Seq(Msgs) /\ page \in PageType /\ page.view \in page.has \cup {None}
    /\ saved \in TourIds \cup {None} /\ roaming \in BOOLEAN
    /\ guided \in GuideStates \cup {None}
    /\ events \in 0 .. MaxEvents

Init ==
    /\ tours = FirstTours
    /\ note \in {None} \cup {[file |-> f, line |-> 1, sym |-> SymbolAt(1), gone |-> FALSE] :
                            f \in Opened}
    /\ down = <<>>
    /\ \E f \in Opened :
         page = [tours |-> tours, note |-> note, has |-> Opened, view |-> f, asked |-> {},
                 frames |-> {},
                 bar |-> FALSE, active |-> None, step |-> 0, pendingStep |-> 0,
                 pendingGuide |-> None, creating |-> FALSE, editing |-> None, draft |-> <<>>,
                 mark |-> 0, select |-> None, sending |-> <<>>, box |-> None]
    /\ saved = None /\ roaming = FALSE /\ guided = None
    /\ events = 0

Event == events < MaxEvents /\ events' = events + 1
TwoEvents == events + 2 <= MaxEvents /\ events' = events + 2

-----------------------------------------------------------------------------
(* The page's operations.                                                  *)

(* openFile.                                                               *)
(* Mutant: the view goes to the file before it has come.                   *)
OpenAtOnce(pg, f) == IF f \in pg.has THEN [pg EXCEPT !.view = f]
                     ELSE [pg EXCEPT !.view = f, !.asked = @ \cup {f}]
Open(pg, f) == IF f \in pg.has THEN [pg EXCEPT !.view = f]
               ELSE [pg EXCEPT !.asked = @ \cup {f}]

ActiveSteps(pg) == IF pg.active = None THEN <<>> ELSE pg.tours[pg.active]

(* Mutant: only a file that has to be fetched is shown.                    *)
GoToTourStepStay(pg, i) ==
    IF i \notin DOMAIN ActiveSteps(pg) THEN pg
    ELSE LET f == ActiveSteps(pg)[i].file
             at == [pg EXCEPT !.step = i]
         IN  IF f \in pg.has THEN at ELSE [Open(at, f) EXCEPT !.pendingStep = i]
GoToTourStep(pg, i) ==
    IF i \notin DOMAIN ActiveSteps(pg) THEN pg
    ELSE LET f == ActiveSteps(pg)[i].file
             at == [pg EXCEPT !.step = i]
         IN  IF f \in pg.has THEN Open(at, f)
             ELSE [Open(at, f) EXCEPT !.pendingStep = i]

SelectTourById(pg, id) ==
    GoToTourStep([pg EXCEPT !.active = IF pg.tours[id] = None THEN None ELSE id, !.step = 0], 1)
CloseTour(pg) == [pg EXCEPT !.bar = FALSE, !.active = None, !.step = 0]

CancelTourCreation(pg) ==
    [pg EXCEPT !.creating = FALSE, !.editing = None, !.mark = 0, !.draft = <<>>]

(* Mutant: the step is not kept within the tour.                           *)
OnTourListKeepStep(pg, list) ==
    LET got == [pg EXCEPT !.tours = list]
        prev == IF pg.active # None THEN pg.active ELSE pg.select
    IN  IF ~pg.bar THEN got
        ELSE IF prev = None THEN [got EXCEPT !.select = None]
        ELSE [got EXCEPT !.select = None, !.active = IF list[prev] = None THEN None ELSE prev]
(* Mutant: the tour that was saved is not looked for.                      *)
OnTourListNoSelect(pg, list) ==
    LET got == [pg EXCEPT !.tours = list, !.select = None]
        kept == IF pg.active # None /\ list[pg.active] = None THEN [got EXCEPT !.active = None]
                ELSE got
        len == Len(ActiveSteps(kept))
    IN  IF kept.active = None \/ pg.step <= len THEN kept ELSE [kept EXCEPT !.step = len]
OnTourList(pg, list) ==
    LET kept == OnTourListKeepStep(pg, list)
        len == Len(ActiveSteps(kept))
    IN  IF kept.active = None \/ pg.step <= len THEN kept ELSE [kept EXCEPT !.step = len]

(* applyGuideState: the guide's tour and its step, then the file.  A step  *)
(* is not looked for in the tour that the page knows.                      *)
(* Mutant: the step is taken with a tour that is not yet shown only.       *)
GuidedTourOnce(pg, s) ==
    IF s.tour = None THEN IF pg.active = None THEN pg ELSE CloseTour(pg)
    ELSE IF pg.tours[s.tour] = None \/ pg.active = s.tour THEN pg
    ELSE [pg EXCEPT !.bar = TRUE, !.active = s.tour, !.step = IF s.step = 0 THEN @ ELSE s.step]
GuidedTour(pg, s) ==
    IF s.tour = None THEN IF pg.active = None THEN pg ELSE CloseTour(pg)
    ELSE IF pg.tours[s.tour] = None THEN pg
    ELSE [pg EXCEPT !.bar = TRUE, !.active = s.tour, !.step = IF s.step = 0 THEN @ ELSE s.step]
ApplyGuideState(pg, s) ==
    LET led == GuidedTour(pg, s)
    IN  IF pg.view # s.file /\ s.file \notin pg.has
        THEN [Open(led, s.file) EXCEPT !.pendingGuide = s] ELSE Open(led, s.file)

(* pendingTourStep is taken up whatever file it is that has arrived.       *)
OnFileContent(pg, f) ==
    LET got == [pg EXCEPT !.has = @ \cup {f}, !.view = f, !.pendingStep = 0]
        led == IF pg.pendingGuide # None /\ pg.pendingGuide.file = f
               THEN [ApplyGuideState(got, pg.pendingGuide) EXCEPT !.pendingGuide = None]
               ELSE got
    IN  GoToTourStep(led, pg.pendingStep)
(* With and without local edits the change is put into openFiles, and a    *)
(* frame asked for.                                                        *)
OnFileChanged(pg, f) ==
    [pg EXCEPT !.has = @ \cup {f}, !.frames = IF pg.view = f THEN @ \cup {f} ELSE @]

(* reanchorAnnotationsForFile skips a comment without a symbol, and would  *)
(* take another's for gone.  No step of a tour ever has a symbol either.   *)
Reanchored(n) == IF n.sym = None THEN n ELSE [n EXCEPT !.gone = TRUE]

-----------------------------------------------------------------------------
(* What is on its way.                                                     *)

Coming(types) == \E i \in DOMAIN down : down[i].type \in types
Unanswered == page.asked # {} \/ Coming({"file_content"})
Quiet == down = <<>> /\ page.asked = {} /\ page.frames = {}

Tell(m) == down' = Append(down, m)
SetTours(t) == tours' = t /\ Tell(TourList(t))
SetNote(n) == note' = n /\ Tell(NoteList(n))

Keep == UNCHANGED <<tours, note>>
Silent == Keep /\ UNCHANGED down

-----------------------------------------------------------------------------
(* The user and the tours.                                                 *)

(* The page is made to show a step.  An answer that has yet to come, or a  *)
(* step that waits for one, may still move it away.                        *)
ShowStep(pg) ==
    /\ page' = pg
    /\ roaming' = (Unanswered \/ pg.step = 0)
    /\ saved' = None /\ guided' = None

(* The tour that is selected when the bar opens is the oldest one.         *)
ToggleTourBar ==
    /\ Event
    /\ IF page.bar THEN ShowStep(CloseTour(page))
       ELSE LET open == [page EXCEPT !.bar = TRUE]
            IN  \/ /\ \A t \in TourIds : page.tours[t] = None
                   /\ ShowStep(open)
                \/ \E t \in TourIds : /\ page.tours[t] # None
                                      /\ ShowStep(SelectTourById(open, t))
    /\ Silent

SelectTour(t) ==
    /\ Event
    /\ page.bar /\ ~page.creating /\ page.tours[t] # None
    /\ ShowStep(SelectTourById(page, t))
    /\ Silent

(* tourPrev and tourNext.                                                  *)
TourTo(i) ==
    /\ Event
    /\ page.bar /\ ~page.creating
    /\ i \in DOMAIN ActiveSteps(page) /\ (i = page.step + 1 \/ i + 1 = page.step)
    /\ ShowStep(GoToTourStep(page, i))
    /\ Silent

Roam(pg) == page' = pg /\ roaming' = TRUE /\ guided' = None /\ UNCHANGED saved

OpenFile(f) ==
    /\ Event
    /\ page.view # f
    /\ Roam(Open(page, f)) /\ Silent

(* The buttons that start and change a tour are hidden while one is being  *)
(* written, until a list of the participants arrives, which shows them.    *)
StartTourCreation ==
    /\ Event
    /\ page.bar
    /\ page' = [page EXCEPT !.editing = None, !.creating = TRUE, !.draft = <<>>,
                            !.active = None, !.step = 0]
    /\ saved' = None /\ guided' = None /\ UNCHANGED roaming /\ Silent

EditCurrentTour ==
    /\ Event
    /\ page.bar /\ page.active # None
    /\ page' = [page EXCEPT !.editing = page.active, !.creating = TRUE,
                            !.draft = ActiveSteps(page), !.step = 0]
    /\ saved' = None /\ guided' = None /\ UNCHANGED roaming /\ Silent

Panel(pg) == page.creating /\ page' = pg /\ UNCHANGED histVars /\ Silent

(* addTourStepAtLine.  The index stays with the place in the draft when    *)
(* steps are moved or removed, and when another draft is begun.            *)
AddTourStepAtLine(line) ==
    LET step(title) == [file |-> page.view, line |-> line, title |-> title]
    IN  IF page.mark \in DOMAIN page.draft
        THEN Panel([page EXCEPT !.draft[page.mark] = step(page.draft[page.mark].title),
                                !.mark = 0])
        ELSE /\ Len(page.draft) < MaxSteps
             /\ Panel([page EXCEPT !.draft = Append(@, step(events'))])

RemoveStep(i) ==
    Event /\ Panel([page EXCEPT !.draft = RemoveAt(@, i), !.mark = IF @ = i THEN 0 ELSE @])
MoveStep(i) ==
    /\ Event
    /\ i + 1 \in DOMAIN page.draft
    /\ Panel([page EXCEPT !.draft[i] = page.draft[i + 1], !.draft[i + 1] = page.draft[i]])
ReanchorStep(i) == Event /\ Panel([page EXCEPT !.mark = IF @ = i THEN 0 ELSE i])
GoToNewStep(i) == Event /\ page.creating /\ Roam(Open(page, page.draft[i].file)) /\ Silent
CancelCreation == Event /\ Panel(CancelTourCreation(page))

(* A tour that is not being edited gets the slug of its title for its id.  *)
(* It is read from the panel, and encrypted; the panel stays open for that *)
(* time, and what is done in it then is thrown away in the end.            *)
SaveTour(t) ==
    /\ Event
    /\ page.draft # <<>>
    /\ page.editing \in {None, t}
    /\ Panel([page EXCEPT !.sending = Append(@, [tour |-> t, steps |-> page.draft])])

(* It replaces what has that id.                                           *)
SendTour(i) ==
    LET t == page.sending[i].tour
    IN  /\ page' = [CancelTourCreation(page) EXCEPT !.select = t, !.sending = RemoveAt(@, i)]
        /\ saved' = (IF page.bar /\ page.active \in {None, t} /\ ~Coming({"tour_list"}) THEN t
                     ELSE None)
        /\ SetTours([tours EXCEPT ![t] = page.sending[i].steps])
        /\ UNCHANGED <<note, roaming, guided, events>>

DeleteCurrentTour ==
    LET id == IF page.editing # None THEN page.editing ELSE page.active
    IN  /\ Event
        /\ id # None
        /\ page' = [CancelTourCreation(page) EXCEPT !.active = None, !.step = 0]
        /\ saved' = None /\ guided' = None
        /\ SetTours([tours EXCEPT ![id] = None])
        /\ UNCHANGED <<note, roaming>>

-----------------------------------------------------------------------------
(* The user and the comment.                                               *)

(* onGutterClick.                                                          *)
StepsAt(line) == {i \in DOMAIN ActiveSteps(page) : /\ ActiveSteps(page)[i].file = page.view
                                                   /\ ActiveSteps(page)[i].line = line}
Commented(line) == page.note # None /\ page.note.file = page.view /\ page.note.line = line

GutterClick(line) ==
    /\ Event
    /\ page.view # None
    /\ \/ page.creating /\ AddTourStepAtLine(line)
       \/ /\ ~page.creating
          /\ \E i \in StepsAt(line) : /\ \A j \in StepsAt(line) : i <= j
                                      /\ ShowStep(GoToTourStep(page, i))
          /\ Silent
       \/ /\ ~page.creating /\ StepsAt(line) = {} /\ ~Commented(line)
          /\ page' = [page EXCEPT !.box = [file |-> page.view, line |-> line]]
          /\ UNCHANGED histVars /\ Silent

(* The file and the line are those of the click.  What is awaited before   *)
(* the comment is sent changes neither.                                    *)
AddComment ==
    /\ Event
    /\ page.box # None /\ note = None
    /\ SetNote([file |-> page.box.file, line |-> page.box.line, sym |-> SymbolAt(page.box.line),
                gone |-> FALSE])
    /\ page' = [page EXCEPT !.box = None]
    /\ UNCHANGED <<tours, histVars>>

JumpToComment ==
    Event /\ page.note # None /\ Roam(Open(page, page.note.file)) /\ Silent

-----------------------------------------------------------------------------
(* Others, the daemon, and what the page does by itself.                   *)

(* Another page saves a tour with a step removed or the steps in another   *)
(* order, or deletes it.                                                   *)
OthersEdit(t) ==
    /\ Event
    /\ tours[t] # None
    /\ \E new \in {RemoveAt(tours[t], i) : i \in DOMAIN tours[t]} \cup {Reverse(tours[t]), None} :
         /\ new # <<>>
         /\ SetTours([tours EXCEPT ![t] = new])
         /\ saved' = IF saved = t /\ new = None THEN None ELSE saved
    /\ UNCHANGED <<note, page, roaming, guided>>

(* Somebody guides, and the page follows.  The list of tours that the      *)
(* guide goes by may be an older one or a newer one than the page's.       *)
GuideShows(s) ==
    /\ TwoEvents
    /\ s.tour = None => s.step = 0
    /\ Tell(GuideState(s))
    /\ UNCHANGED <<tours, note, page, histVars>>

FileChanges(f) ==
    /\ Event
    /\ Tell(File("file_changed", f))
    /\ UNCHANGED <<tours, note, page, histVars>>

(* The answer to open_file.                                                *)
Answer(f) ==
    /\ f \in page.asked
    /\ page' = [page EXCEPT !.asked = @ \ {f}]
    /\ Tell(File("file_content", f))
    /\ UNCHANGED <<tours, note, histVars, events>>

(* The frame after a file_changed of the file in view.  A reanchor is sent *)
(* for the comment as the page has it in its list.                         *)
Frame(f) ==
    /\ f \in page.frames
    /\ page' = [page EXCEPT !.frames = @ \ {f}]
    /\ LET n == page.note
       IN  IF n # None /\ note # None /\ n.file = f /\ Reanchored(n) # n
           THEN SetNote(Reanchored(n)) ELSE UNCHANGED <<note, down>>
    /\ UNCHANGED <<tours, histVars, events>>

(* handleMessage.                                                          *)
Shown(pg) ==
    IF pg.step \in DOMAIN ActiveSteps(pg) THEN ActiveSteps(pg)[pg.step].file ELSE None

(* The page has the tour that its guide shows.                             *)
HasGuided(pg) == guided # None /\ guided.tour # None /\ pg.tours[guided.tour] # None

(* A guide's state waits for this file.                                    *)
Waited(f) == page.pendingGuide # None /\ page.pendingGuide.file = f

Deliver ==
    /\ down # <<>>
    /\ LET m == Head(down)
       IN  \/ /\ m.type = "tour_list"
              /\ page' = OnTourList(page, m.list)
              /\ roaming' = (roaming \/ Shown(page') # Shown(page))
              /\ guided' = IF /\ page'.active = page.active /\ page'.step = page.step
                              /\ HasGuided(page') => HasGuided(page)
                           THEN guided ELSE None
              /\ UNCHANGED saved
           \/ /\ m.type = "comment_list"
              /\ page' = [page EXCEPT !.note = m.note]
              /\ UNCHANGED <<saved, roaming, guided>>
           \/ /\ m.type = "file_content"
              /\ page' = OnFileContent(page, m.file)
              /\ IF Waited(m.file)
                 THEN /\ saved' = None /\ roaming' = TRUE
                      /\ guided' = IF guided = page.pendingGuide THEN guided ELSE None
                 ELSE UNCHANGED <<saved, roaming, guided>>
           \/ /\ m.type = "file_changed"
              /\ page' = OnFileChanged(page, m.file)
              /\ UNCHANGED <<saved, roaming, guided>>
           \/ /\ m.type = "guide_state"
              /\ page' = ApplyGuideState(page, m.state)
              /\ guided' = IF Unanswered THEN None ELSE m.state
              /\ saved' = None /\ roaming' = TRUE
    /\ down' = Tail(down)
    /\ UNCHANGED <<tours, note, events>>

-----------------------------------------------------------------------------
TourStep ==
    \/ ToggleTourBar \/ \E t \in TourIds : SelectTour(t)
    \/ \E i \in 1 .. MaxSteps : TourTo(i)
    \/ StartTourCreation \/ EditCurrentTour \/ CancelCreation \/ DeleteCurrentTour
    \/ \E t \in TourIds : SaveTour(t)
    \/ \E i \in DOMAIN page.sending : SendTour(i)
    \/ \E i \in DOMAIN page.draft :
          RemoveStep(i) \/ MoveStep(i) \/ ReanchorStep(i) \/ GoToNewStep(i)

CommentStep ==
    \/ \E line \in Lines : GutterClick(line)
    \/ AddComment \/ JumpToComment

Next ==
    \/ TourStep \/ CommentStep \/ Deliver
    \/ \E f \in Files : OpenFile(f) \/ Answer(f) \/ Frame(f)
    \/ \E f \in Files : FileChanges(f)
    \/ \E t \in TourIds : OthersEdit(t)
    \/ \E s \in GuideStates : GuideShows(s)

Spec == Init /\ [][Next]_vars

-----------------------------------------------------------------------------
(* Properties.                                                             *)

(* The step that the panel counts is one of the tour's, whatever others    *)
(* make of the tour and whichever file arrives late (handleTourList,       *)
(* goToTourStep).  Only a guide with another version of the tour leads to  *)
(* a step that it does not have, until the next list comes: with a state,  *)
(* or with the file that an older state waits for.                         *)
InTour(pg) == pg.active # None => pg.step <= Len(ActiveSteps(pg))
Led(m) == m.type = "guide_state" \/ (m.type = "file_content" /\ Waited(m.file))
StepInTour ==
    [][InTour(page) \/ page'.tours # page.tours
       => InTour(page') \/ (down # <<>> /\ Led(Head(down)))]_vars

(* When all has arrived no step waits, and the page shows the file of the  *)
(* tour's step, unless the user opened another since, picked the step      *)
(* while a file was still to come, or others have changed the step.        *)
StepShown ==
    Quiet => /\ page.pendingStep = 0
             /\ page.active # None /\ page.step # 0 /\ ~roaming
                => page.view = ActiveSteps(page)[page.step].file

(* When all has arrived, a page that follows is where its guide last was:  *)
(* the file, the tour and the step (applyGuideState), unless its user went *)
(* elsewhere, it awaited a file when it was told, or the tour has changed: *)
(* it also did if the page had yet to get it when it was told.             *)
TourFollowsGuide ==
    Quiet /\ guided # None
    => /\ page.view = guided.file
       /\ guided.tour = None => page.active = None
       /\ guided.tour # None /\ page.tours[guided.tour] # None
          => page.active = guided.tour /\ (guided.step # 0 => page.step = guided.step)

(* A tour is selected in the page that saved it, also when lists of what   *)
(* others do come first, but not those that were on their way when it was  *)
(* saved: the first list takes pendingTourSelect, whatever it has.         *)
SavedTourShown == Quiet /\ page.bar /\ saved # None => page.active = saved
=============================================================================
