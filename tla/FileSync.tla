------------------------------ MODULE FileSync ------------------------------
(***************************************************************************)
(* Files, from the host's disk to the browsers' editors and back, while    *)
(* the daemon's connection and the browsers' connections stand: the pages  *)
(* (module Page), the relay's cache of contents and hashes, the daemon     *)
(* with its watcher, and the four kinds of message queue between them.     *)
(* Every browser has the role editor or host.                              *)
(*                                                                         *)
(* A message is a record; the contents of encrypted fields are the         *)
(* contents they decrypt to, and a path stands for its token.              *)
(***************************************************************************)
EXTENDS Page, FiniteSets

CONSTANTS
    Browsers,
    Opened,     \* [Browsers -> SUBSET Paths]: the files a page has open at first
    Wanted,     \* [Browsers -> SUBSET Paths]: the files its user clicks on
    Writers,    \* the browsers whose users type and save
    Edits,      \* environment: what other programs of the host do to files
    MaxTexts,   \* bound: texts written, by users and by other programs
    MaxSaves,   \* bound: saves sent by each browser
    MaxAsks     \* bound: open_file requests sent by each browser

ASSUME InputAssumption ==
    /\ None \notin Browsers
    /\ Opened \in [Browsers -> SUBSET Paths]
    /\ Wanted \in [Browsers -> SUBSET Paths]
    /\ Writers \subseteq Browsers
    /\ Edits \subseteq {"write", "replace", "delete"}
ASSUME BoundAssumption == MaxTexts \in Nat /\ MaxSaves \in Nat /\ MaxAsks \in Nat

Contents == (Paths \X (0 .. MaxTexts)) \cup {Blank}
ASSUME ContentsAssumption == None \notin Contents

VARIABLES
    disk,       \* the files of the project; None where there is none
    texts,      \* how many texts have been written
    events,     \* the watcher's channel
    job,        \* what the daemon's readLoop is in the middle of
    toDaemon, fromDaemon,   \* the daemon's connection
    cache,      \* session.fileCache and session.fileHashes, always set together
    pendingFiles,           \* session.pendingFiles
    up, down,   \* the browsers' connections
    page,       \* the browsers' pages
    saves, asks,            \* how many of them each browser has sent
    overtaken,  \* files whose content was sent after a newer one (see Overtakes)
    conflicted  \* browsers that were shown a conflict banner

daemonVars == <<disk, events, job>>
relayVars  == <<cache, pendingFiles>>
pageVars   == <<page, saves, asks>>
vars == <<daemonVars, texts, toDaemon, fromDaemon, relayVars, up, down, pageVars,
          overtaken, conflicted>>

Idle == [kind |-> "idle", path |-> None, content |-> None]
Msg(k, p, c) == [kind |-> k, path |-> p, content |-> c]
Save(p, c, h) == [kind |-> "save_file", path |-> p, content |-> c, base |-> h]

IsMsg(m, kinds) ==
    /\ m.kind \in kinds
    /\ m.path \in Paths
    /\ m.content \in Contents \cup {None}
AllOf(s, kinds) == \A i \in DOMAIN s : IsMsg(s[i], kinds)

(* The fields have the types of the code's, and each queue carries the     *)
(* messages its reader has a case for.                                     *)
TypeOK ==
    /\ disk \in [Paths -> Contents \cup {None}]
    /\ texts \in 0 .. MaxTexts
    /\ AllOf(events, {"file_created", "file_changed", "file_deleted"})
    /\ job = Idle \/ IsMsg(job, {"request_file", "write_file"})
    /\ AllOf(toDaemon, {"request_file", "write_file"})
    /\ AllOf(fromDaemon, {"file_content", "file_created", "file_changed", "file_deleted", "error"})
    /\ cache \in [Paths -> Contents \cup {None}]
    /\ pendingFiles \in [Paths -> Browsers \cup {None}]
    /\ DOMAIN up = Browsers /\ \A b \in Browsers : AllOf(up[b], {"open_file", "save_file"})
    /\ DOMAIN down = Browsers
    /\ \A b \in Browsers : AllOf(down[b], {"file_content", "file_created", "file_changed",
                                           "file_deleted", "save_rejected"})
    /\ \A b \in Browsers :
         /\ page[b] \in PageType(Contents)
         /\ \A i, j \in DOMAIN page[b].tabs : page[b].tabs[i] = page[b].tabs[j] => i = j
    /\ saves \in [Browsers -> 0 .. MaxSaves]
    /\ asks \in [Browsers -> 0 .. MaxAsks]
    /\ overtaken \subseteq Paths
    /\ conflicted \subseteq Browsers

(* The pages show the files they have open, as the daemon last read them.  *)
PageWith(S) ==
    [EmptyPage EXCEPT !.openFiles = [n \in Names |-> IF n \in S THEN <<n, 0>> ELSE None],
                      !.fileHashes = [n \in Names |-> IF n \in S THEN <<n, 0>> ELSE None]]

Showing(pg, p) == OpenFile(pg, p)

Init ==
    /\ disk = [p \in Paths |-> <<p, 0>>]
    /\ texts = 0
    /\ events = <<>>
    /\ job = Idle
    /\ toDaemon = <<>>
    /\ fromDaemon = <<>>
    /\ cache = [p \in Paths |-> IF \E b \in Browsers : p \in Opened[b] THEN <<p, 0>> ELSE None]
    /\ pendingFiles = [p \in Paths |-> None]
    /\ up = [b \in Browsers |-> <<>>]
    /\ down = [b \in Browsers |-> <<>>]
    /\ page \in [Browsers -> {EmptyPage} \cup UNION {{Showing(PageWith(Opened[b]), p) :
                                     p \in Opened[b]} : b \in Browsers}]
    /\ \A b \in Browsers : IF Opened[b] = {} THEN page[b] = EmptyPage
                           ELSE \E p \in Opened[b] : page[b] = Showing(PageWith(Opened[b]), p)
    /\ saves = [b \in Browsers |-> 0]
    /\ asks = [b \in Browsers |-> 0]
    /\ overtaken = {}
    /\ conflicted = {}

-----------------------------------------------------------------------------
(* The users, through their pages.                                         *)

(* In the file tree, which has the files of pathMap, or on a tab.          *)
Offered(pg) == pg.pathMap \cup {pg.tabs[i] : i \in DOMAIN pg.tabs}

Click(b, n) ==
    /\ ToPathToken(n) \in Wanted[b]
    /\ n \in Offered(page[b])
    /\ MustAsk(page[b], n) \/ OpenFile(page[b], n) # page[b]
    /\ page' = [page EXCEPT ![b] = OpenFile(@, n)]
    /\ IF MustAsk(page[b], n)
       THEN /\ asks[b] < MaxAsks
            /\ asks' = [asks EXCEPT ![b] = @ + 1]
            /\ up' = [up EXCEPT ![b] = Append(@, Msg("open_file", ToPathToken(n), None))]
       ELSE UNCHANGED <<asks, up>>
    /\ UNCHANGED <<daemonVars, texts, toDaemon, fromDaemon, relayVars, down, saves, overtaken,
                   conflicted>>

PageOnly == UNCHANGED <<daemonVars, texts, toDaemon, fromDaemon, relayVars, up, down, saves,
                        asks, overtaken, conflicted>>

Close(b, n) ==
    /\ ToPathToken(n) \in Wanted[b]
    /\ \E i \in DOMAIN page[b].tabs : page[b].tabs[i] = n
    /\ page' = [page EXCEPT ![b] = CloseTab(@, n)]
    /\ PageOnly

Type(b) ==
    /\ b \in Writers
    /\ page[b].currentPath # None
    /\ texts < MaxTexts
    /\ texts' = texts + 1
    /\ page' = [page EXCEPT ![b].view = <<ToPathToken(page[b].currentPath), texts'>>]
    /\ UNCHANGED <<daemonVars, toDaemon, fromDaemon, relayVars, up, down, saves, asks,
                   overtaken, conflicted>>

(* saveFile, Overwrite and Reload of the conflict banner.                  *)
PressSave(b) ==
    /\ b \in Writers
    /\ saves[b] < MaxSaves
    /\ page[b].saving = None
    /\ page[b].activeFile # None
    /\ page' = [page EXCEPT ![b] = SaveFile(@)]
    /\ PageOnly

PressOverwrite(b) ==
    /\ page[b].banner # NoBanner
    /\ saves[b] < MaxSaves
    /\ page[b].saving = None
    /\ page' = [page EXCEPT ![b] = Overwrite(@)]
    /\ PageOnly

PressReload(b) ==
    /\ page[b].banner # NoBanner
    /\ page' = [page EXCEPT ![b] = Reload(@)]
    /\ PageOnly

(* saveFile after its await: the path and the hash are read only now.      *)
SendSave(b) ==
    /\ page[b].saving # None
    /\ page' = [page EXCEPT ![b].saving = None]
    /\ LET n == page[b].activeFile
       IN  IF n = None THEN UNCHANGED <<up, saves>>
           ELSE /\ up' = [up EXCEPT ![b] = Append(@, Save(ToPathToken(n), page[b].saving,
                                                         page[b].fileHashes[n]))]
                /\ saves' = [saves EXCEPT ![b] = @ + 1]
    /\ UNCHANGED <<daemonVars, texts, toDaemon, fromDaemon, relayVars, down, asks, overtaken,
                   conflicted>>

(* processMessageQueue takes one message after the other.                  *)
Applied(pg, m) ==
    LET n == FromPathToken(pg, m.path)
    IN  CASE m.kind = "file_content"  -> OnFileContent(pg, n, m.content)
          [] m.kind = "file_changed"  -> OnFileChanged(pg, n, m.content)
          [] m.kind = "file_created"  -> OnFileCreated(pg, m.path, m.content)
          [] m.kind = "file_deleted"  -> OnFileDeleted(pg, m.path)
          [] m.kind = "save_rejected" -> OnSaveRejected(pg, n, m.content)

Receive(b) ==
    /\ down[b] # <<>>
    /\ down' = [down EXCEPT ![b] = Tail(@)]
    /\ page' = [page EXCEPT ![b] = Applied(@, Head(down[b]))]
    /\ conflicted' = IF Head(down[b]).kind = "save_rejected" THEN conflicted \cup {b}
                     ELSE conflicted
    /\ UNCHANGED <<daemonVars, texts, toDaemon, fromDaemon, relayVars, up, saves, asks, overtaken>>

-----------------------------------------------------------------------------
(* The relay: handleBrowser's loop.                                        *)

RelayOpen(b) ==
    /\ up[b] # <<>>
    /\ Head(up[b]).kind = "open_file"
    /\ up' = [up EXCEPT ![b] = Tail(@)]
    /\ LET p == Head(up[b]).path
       IN  /\ pendingFiles' = [pendingFiles EXCEPT ![p] = b]
           /\ toDaemon' = Append(toDaemon, Msg("request_file", p, None))
    /\ UNCHANGED <<daemonVars, texts, fromDaemon, cache, down, pageVars, overtaken, conflicted>>

Rejects(m) == m.base # None /\ cache[m.path] # None /\ cache[m.path] # m.base

RelaySave(b) ==
    /\ up[b] # <<>>
    /\ Head(up[b]).kind = "save_file"
    /\ up' = [up EXCEPT ![b] = Tail(@)]
    /\ LET m == Head(up[b])
       IN  IF Rejects(m)
           THEN /\ down' = [down EXCEPT ![b] = Append(@, Msg("save_rejected", m.path,
                                                             cache[m.path]))]
                /\ UNCHANGED toDaemon
           ELSE /\ toDaemon' = Append(toDaemon, Msg("write_file", m.path, m.content))
                /\ UNCHANGED down
    /\ UNCHANGED <<daemonVars, texts, fromDaemon, relayVars, pageVars, overtaken, conflicted>>

(* The relay: handleDaemon's loop.                                         *)
Broadcast(m) == down' = [b \in Browsers |-> Append(down[b], m)]

(* Mutant: the request is forgotten before its browser is looked up.       *)
RelayContentUnrouted(m) ==
    /\ m.kind = "file_content"
    /\ cache' = [cache EXCEPT ![m.path] = m.content]
    /\ pendingFiles' = [pendingFiles EXCEPT ![m.path] = None]
    /\ LET b == pendingFiles'[m.path]
       IN  down' = IF b = None THEN down ELSE [down EXCEPT ![b] = Append(@, m)]
RelayContent(m) ==
    /\ m.kind = "file_content"
    /\ cache' = [cache EXCEPT ![m.path] = m.content]
    /\ pendingFiles' = [pendingFiles EXCEPT ![m.path] = None]
    /\ LET b == pendingFiles[m.path]
       IN  down' = IF b = None THEN down ELSE [down EXCEPT ![b] = Append(@, m)]

(* Mutant: the hash and the content are kept only if there were none.      *)
CachedFirst(m) == [cache EXCEPT ![m.path] = IF @ = None THEN m.content ELSE @]
Cached(m) == [cache EXCEPT ![m.path] = m.content]

RelayChange(m) ==
    /\ m.kind \in {"file_changed", "file_created"}
    /\ cache' = Cached(m)
    /\ Broadcast(m)
    /\ UNCHANGED pendingFiles

RelayDelete(m) ==
    /\ m.kind = "file_deleted"
    /\ Broadcast(m)
    /\ UNCHANGED relayVars

(* An error is logged; who asked for the file is not told.                 *)
RelayError(m) ==
    /\ m.kind = "error"
    /\ UNCHANGED <<relayVars, down>>

RelayFromDaemon ==
    /\ fromDaemon # <<>>
    /\ fromDaemon' = Tail(fromDaemon)
    /\ LET m == Head(fromDaemon)
       IN  RelayContent(m) \/ RelayChange(m) \/ RelayDelete(m) \/ RelayError(m)
    /\ UNCHANGED <<daemonVars, texts, toDaemon, up, pageVars, overtaken, conflicted>>

-----------------------------------------------------------------------------
(* The daemon: readLoop takes the relay's requests one after the other.    *)

(* The file is read, and sent in a later step: encryption lies between.    *)
ReadFile ==
    /\ job = Idle
    /\ toDaemon # <<>>
    /\ Head(toDaemon).kind = "request_file"
    /\ toDaemon' = Tail(toDaemon)
    /\ LET p == Head(toDaemon).path
       IN  IF disk[p] = None
           THEN fromDaemon' = Append(fromDaemon, Msg("error", p, None)) /\ UNCHANGED job
           ELSE job' = Msg("request_file", p, disk[p]) /\ UNCHANGED fromDaemon
    /\ UNCHANGED <<disk, events, texts, relayVars, up, down, pageVars, overtaken, conflicted>>

SendContent ==
    /\ job.kind = "request_file"
    /\ job' = Idle
    /\ fromDaemon' = Append(fromDaemon, Msg("file_content", job.path, job.content))
    /\ UNCHANGED <<disk, events, texts, toDaemon, relayVars, up, down, pageVars, overtaken,
                   conflicted>>

(* os.WriteFile creates or truncates, and then writes: the watcher sees    *)
(* both.                                                                   *)
TruncateFile ==
    /\ job = Idle
    /\ toDaemon # <<>>
    /\ Head(toDaemon).kind = "write_file"
    /\ toDaemon' = Tail(toDaemon)
    /\ job' = Head(toDaemon)
    /\ LET p == Head(toDaemon).path
           kind == IF disk[p] = None THEN "file_created" ELSE "file_changed"
       IN  /\ disk' = [disk EXCEPT ![p] = Blank]
           /\ events' = Append(events, Msg(kind, p, None))
    /\ UNCHANGED <<texts, fromDaemon, relayVars, up, down, pageVars, overtaken, conflicted>>

(* Mutant: the watcher's second event is lost.                             *)
WriteFileSilently ==
    /\ job.kind = "write_file"
    /\ job' = Idle
    /\ disk' = [disk EXCEPT ![job.path] = job.content]
    /\ UNCHANGED <<events, texts, toDaemon, fromDaemon, relayVars, up, down, pageVars,
                   overtaken, conflicted>>
WriteFile ==
    /\ job.kind = "write_file"
    /\ job' = Idle
    /\ disk' = [disk EXCEPT ![job.path] = job.content]
    /\ events' = Append(events, Msg("file_changed", job.path, None))
    /\ UNCHANGED <<texts, toDaemon, fromDaemon, relayVars, up, down, pageVars, overtaken,
                   conflicted>>

(* The daemon's main loop, beside readLoop, sends what it reads of a file  *)
(* the watcher reported.  It may overtake what readLoop has read before.   *)
Overtakes(p) == job.kind = "request_file" /\ job.path = p /\ job.content # disk[p]

HandleFSEvent ==
    /\ events # <<>>
    /\ events' = Tail(events)
    /\ LET e == Head(events)
       IN  IF e.kind # "file_deleted" /\ disk[e.path] = None
           THEN UNCHANGED <<fromDaemon, overtaken>>
           ELSE /\ fromDaemon' = Append(fromDaemon, Msg(e.kind, e.path,
                                    IF e.kind = "file_deleted" THEN None ELSE disk[e.path]))
                /\ overtaken' = IF Overtakes(e.path) THEN overtaken \cup {e.path} ELSE overtaken
    /\ UNCHANGED <<disk, job, texts, toDaemon, relayVars, up, down, pageVars, conflicted>>

-----------------------------------------------------------------------------
(* Other programs on the host: in place, by renaming a new file over the   *)
(* old one, or removing it.  (Nobody removes one between the truncation    *)
(* and the write of a save: the write would go where the old file went.)   *)
Edit(p, kind) ==
    /\ kind \in Edits
    /\ kind = "write" \/ job.kind # "write_file" \/ job.path # p
    /\ disk[p] # None
    /\ texts < MaxTexts
    /\ texts' = texts + 1
    /\ disk' = [disk EXCEPT ![p] = IF kind = "delete" THEN None ELSE <<p, texts'>>]
    /\ events' = Append(events, Msg(CASE kind = "write" -> "file_changed"
                                      [] kind = "replace" -> "file_created"
                                      [] kind = "delete" -> "file_deleted", p, None))
    /\ UNCHANGED <<job, toDaemon, fromDaemon, relayVars, up, down, pageVars, overtaken,
                   conflicted>>

DaemonStep == ReadFile \/ SendContent \/ TruncateFile \/ WriteFile
RelayStep(b) == RelayOpen(b) \/ RelaySave(b)

Next ==
    \/ \E b \in Browsers :
         \/ \E n \in Names : Click(b, n) \/ Close(b, n)
         \/ Type(b) \/ PressSave(b) \/ PressOverwrite(b) \/ PressReload(b)
         \/ SendSave(b) \/ Receive(b) \/ RelayStep(b)
    \/ RelayFromDaemon \/ DaemonStep \/ HandleFSEvent
    \/ \E p \in Paths, kind \in Edits : Edit(p, kind)

Spec == Init /\ [][Next]_vars

(* The programs' own steps are taken: goroutines and the page's event loop *)
(* run, and connections that stand deliver.  Users and other programs may  *)
(* stop at any time.                                                       *)
FairSpec ==
    /\ Spec
    /\ WF_vars(RelayFromDaemon) /\ WF_vars(DaemonStep) /\ WF_vars(HandleFSEvent)
    /\ \A b \in Browsers : WF_vars(RelayStep(b)) /\ WF_vars(Receive(b)) /\ WF_vars(SendSave(b))

-----------------------------------------------------------------------------
(* Properties.                                                             *)

Concerns(m, p) == m.path = p
Free(s, p) == \A i \in DOMAIN s : ~Concerns(s[i], p)

(* Everything the daemon has to tell the relay of the file has arrived.    *)
Reported(p) == Free(events, p) /\ Free(fromDaemon, p) /\ job.path # p

(* ... and everything between the file and the page has.                   *)
Settled(b, p) ==
    /\ Reported(p) /\ Free(toDaemon, p)
    /\ Free(up[b], p) /\ Free(down[b], p) /\ page[b].saving = None

(* Once what happened to a file is reported, the hash that decides about   *)
(* saves is that of the file on disk: the watcher's events, the truncation *)
(* and the write of a save and the answers to requests end in this order,  *)
(* but for an answer that was overtaken (handleDaemon, handleFSEvent).     *)
RelayConverges ==
    \A p \in Paths :
        Reported(p) /\ p \notin overtaken /\ cache[p] # None /\ disk[p] # None
            => cache[p] = disk[p]

(* A page whose saves were never refused ends with the file on disk as its *)
(* copy, whatever it saved and whoever else did (openFiles of app.js).     *)
PageConverges ==
    \A b \in Browsers \ conflicted, p \in Paths :
        Settled(b, p) /\ p \notin overtaken /\ page[b].openFiles[p] # None /\ disk[p] # None
            => page[b].openFiles[p] = disk[p]

(* A page on which nobody types, and which never had to ask for a file,    *)
(* shows the file as it is on disk: none of the echoes of saves, nor the   *)
(* empty text in the middle of one, stays in its view.  (If the answer to  *)
(* a request comes when the file is in the view already, openFiles takes   *)
(* it and the view does not: the page then holds what it shows for local   *)
(* edits, and takes no change of the file any more.)                       *)
FollowerShowsDisk ==
    \A b \in Browsers \ Writers, p \in Paths :
        /\ asks[b] = 0 /\ Settled(b, p)
        /\ disk[p] # None /\ page[b].currentPath = p
        => page[b].view = disk[p]

(* The text of a file a page has, in the view or behind another tab.       *)
TextOf(pg, p) == IF pg.currentPath = p THEN pg.view ELSE pg.fileStates[p]
Unsaved(pg, p) ==
    pg.openFiles[p] # None /\ TextOf(pg, p) \notin {None, pg.openFiles[p]}

(* A message that arrives costs no unsaved text of the file in view, but   *)
(* for that of a file that is deleted.                                     *)
UnsavedInViewKept ==
    [][\A b \in Browsers : \A p \in Paths :
          Receive(b) /\ Unsaved(page[b], p) /\ page[b].currentPath = p
            => TextOf(page'[b], p) = TextOf(page[b], p) \/ Head(down[b]).kind = "file_deleted"]_vars

(* The same of every file the page has open: "If the editor has unsaved    *)
(* local edits for this file, don't overwrite" (app.js).                   *)
UnsavedKept ==
    [][\A b \in Browsers : \A p \in Paths :
          Receive(b) /\ Unsaved(page[b], p)
            => TextOf(page'[b], p) = TextOf(page[b], p) \/ Head(down[b]).kind = "file_deleted"]_vars

(* A save is refused only if somebody else wrote to the file (SaveRejected *)
(* is sent "due to a concurrent modification", messages.go).               *)
ConflictHasCause ==
    conflicted # {} => Cardinality(Writers) > 1 \/ Edits # {}

(* A page that waits for a file gets it, or is told that it is deleted, if *)
(* no other page asks for a file.  (pendingFiles has room for one: who asks *)
(* before the answer to another has come takes its place, and the daemon's *)
(* second answer goes to nobody.)                                          *)
Waiting(b, p) == page[b].activeFile = p /\ page[b].openFiles[p] = None
LoneRequestAnswered ==
    \A b \in Browsers, p \in Paths :
        Waiting(b, p) ~> ~Waiting(b, p) \/ \E c \in Browsers \ {b} : asks[c] > 0

(* A file only ever holds texts that were written for it.                  *)
TextsStayHome ==
    \A p \in Paths : disk[p] \in {None, Blank} \/ disk[p][1] = p
=============================================================================
