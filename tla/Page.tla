-------------------------------- MODULE Page --------------------------------
(***************************************************************************)
(* What a browser page holds of the project's files, and what each event   *)
(* does to it: the maps and handlers of web/app.js and web/editor.js.      *)
(*                                                                         *)
(* A content is a pair <<path, n>>: the n-th text that was written for the *)
(* path.  Blank is the empty text: the document of an editor that has not  *)
(* shown a file, and what os.WriteFile leaves until it has written.  A     *)
(* content stands for its SHA-256 too, so fileHashes maps to contents.     *)
(***************************************************************************)
EXTENDS Naturals, Sequences, FiniteSets, SequencesExt

CONSTANTS Paths, None

(* An operator whose comment says "Mutant" is no part of the model: it is  *)
(* a slip the definition after it could have had, and a property refutes   *)
(* it.                                                                     *)

(* A page knows a file by its path, until it is told that the file is      *)
(* deleted: the token is then out of pathMap, and fromPathToken makes of   *)
(* it the name of another file, the token itself.  toPathToken gives the   *)
(* same token for both.                                                    *)
Raw(p) == <<p>>
Names == Paths \cup {Raw(p) : p \in Paths}
FromPathToken(pg, p) == IF p \in pg.pathMap THEN p ELSE Raw(p)
ToPathToken(n) == IF n \in Paths THEN n ELSE n[1]

ASSUME NamesAssumption ==
    /\ IsFiniteSet(Paths) /\ None \notin Names
    /\ \A p \in Paths : Raw(p) \notin Paths

Blank == <<None, 0>>
NoBanner == [path |-> None, content |-> None]

(* pathMap, openFiles, fileHashes, activeFile and the open tabs of app.js;          *)
(* currentPath, the document of the view and fileStates (the documents of  *)
(* files not in the view) of editor.js; the file and the content of the    *)
(* conflict banner; and the content saveFile holds across its await.       *)
EmptyPage ==
    [pathMap |-> Paths,
     openFiles |-> [n \in Names |-> None], fileHashes |-> [n \in Names |-> None],
     activeFile |-> None, tabs |-> <<>>,
     currentPath |-> None, view |-> Blank, fileStates |-> [n \in Names |-> None],
     banner |-> NoBanner, saving |-> None]

PageType(Contents) ==
    [pathMap : SUBSET Paths,
     openFiles : [Names -> Contents \cup {None}], fileHashes : [Names -> Contents \cup {None}],
     activeFile : Names \cup {None},
     tabs : UNION {[1 .. k -> Names] : k \in 0 .. Cardinality(Names)},
     currentPath : Names \cup {None}, view : Contents,
     fileStates : [Names -> Contents \cup {None}],
     banner : [path : Names \cup {None}, content : Contents \cup {None}],
     saving : Contents \cup {None}]

-----------------------------------------------------------------------------
(* editor.js                                                               *)

(* A state that is put back into the view is out of date in fileStates,    *)
(* and written again before it is read: the model drops it.                *)
OpenFileInEditor(pg, p, c) ==
    LET stashed == IF pg.currentPath = None THEN pg.fileStates
                   ELSE [pg.fileStates EXCEPT ![pg.currentPath] = pg.view]
    IN  [pg EXCEPT !.currentPath = p,
                   !.view = IF stashed[p] # None THEN stashed[p] ELSE c,
                   !.fileStates = [stashed EXCEPT ![p] = None]]

UpdateFileContent(pg, p, c) ==
    IF p = pg.currentPath THEN [pg EXCEPT !.view = c]
    ELSE [pg EXCEPT !.fileStates[p] = None]

(* The view keeps showing the text of the file that was closed.            *)
CloseFileInEditor(pg, p) ==
    [pg EXCEPT !.fileStates[p] = None,
               !.currentPath = IF @ = p THEN None ELSE @]

-----------------------------------------------------------------------------
(* app.js: tabs and the file tree                                          *)

(* Mutant: a tab is added whether or not the file has one.                 *)
AddTabTwice(pg, p) == [pg EXCEPT !.tabs = Append(@, p), !.activeFile = p]
AddTab(pg, p) ==
    [pg EXCEPT !.tabs = IF \E i \in DOMAIN @ : @[i] = p THEN @ ELSE Append(@, p),
               !.activeFile = p]

SwitchToLastTab(pg) ==
    IF pg.tabs = <<>> THEN pg
    ELSE LET p == Head(pg.tabs)
             at == [pg EXCEPT !.activeFile = p]
         IN  IF pg.openFiles[p] # None THEN OpenFileInEditor(at, p, pg.openFiles[p]) ELSE at

CloseTab(pg, p) ==
    LET closed == CloseFileInEditor([pg EXCEPT !.tabs = RemoveFirst(@, p),
                                               !.openFiles[p] = None], p)
    IN  IF pg.activeFile = p THEN SwitchToLastTab([closed EXCEPT !.activeFile = None])
        ELSE closed

(* openFile: a file the page has no copy of is asked for, and the editor   *)
(* shows what it showed until the answer comes.                            *)
MustAsk(pg, p) == pg.openFiles[p] = None
OpenFile(pg, p) ==
    LET at == [pg EXCEPT !.activeFile = p]
    IN  IF MustAsk(pg, p) THEN at
        ELSE OpenFileInEditor(AddTab(at, p), p, pg.openFiles[p])

-----------------------------------------------------------------------------
(* app.js: handleMessage                                                   *)

OnFileContent(pg, p, c) ==
    OpenFileInEditor(AddTab([pg EXCEPT !.openFiles[p] = c, !.fileHashes[p] = c], p), p, c)

(* The text the page would lose if it took a change of the file in view.   *)
HasLocalEdits(pg, p) ==
    /\ p = pg.currentPath
    /\ pg.openFiles[p] # None
    /\ pg.view # pg.openFiles[p]

(* Mutant: a change always replaces the text.                              *)
OnFileChangedAlways(pg, p, c) ==
    UpdateFileContent([pg EXCEPT !.openFiles[p] = c, !.fileHashes[p] = c], p, c)
(* Mutant: the page's copy is left as it was.                              *)
OnFileChangedKeepCopy(pg, p, c) ==
    IF HasLocalEdits(pg, p) THEN pg
    ELSE UpdateFileContent([pg EXCEPT !.fileHashes[p] = c], p, c)
OnFileChanged(pg, p, c) ==
    IF HasLocalEdits(pg, p) THEN [pg EXCEPT !.openFiles[p] = c]
    ELSE UpdateFileContent([pg EXCEPT !.openFiles[p] = c, !.fileHashes[p] = c], p, c)

(* Mutant: the file created in the place of one the page has is not taken. *)
OnFileCreatedNew(pg, p, c) ==
    [pg EXCEPT !.pathMap = @ \cup {p}, !.openFiles[p] = IF @ = None THEN c ELSE @]
OnFileCreated(pg, p, c) ==
    [pg EXCEPT !.pathMap = @ \cup {p}, !.openFiles[p] = c]

OnFileDeleted(pg, p) ==
    CloseTab([pg EXCEPT !.pathMap = @ \ {p}], FromPathToken(pg, p))

OnSaveRejected(pg, p, c) == [pg EXCEPT !.banner = [path |-> p, content |-> c]]

-----------------------------------------------------------------------------
(* app.js: saving and the conflict banner                                  *)

(* saveFile up to its await: the text in the view is taken for the active  *)
(* file, whichever file the view shows.                                    *)
SaveFile(pg) ==
    IF pg.activeFile = None THEN pg
    ELSE [pg EXCEPT !.openFiles[pg.activeFile] = pg.view, !.saving = pg.view]

Overwrite(pg) ==
    SaveFile([pg EXCEPT !.banner = NoBanner, !.fileHashes[pg.banner.path] = pg.banner.content])

Reload(pg) ==
    LET p == pg.banner.path
        c == pg.banner.content
    IN  UpdateFileContent([pg EXCEPT !.banner = NoBanner, !.openFiles[p] = c,
                                     !.fileHashes[p] = c], p, c)
=============================================================================
