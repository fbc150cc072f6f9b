# Pairpad in TLA+

Pairpad lets several people work in the browser on the files of one host. A
*daemon* on the host's machine connects to a *relay*; *browsers* connect to the
relay and edit the host's files through it. This directory holds TLA+
specifications of the program in `src/`, TLC configurations that check them on
small instances, and proofs of the theorems that hold for every instance.

    tlc -config MCSession.cfg MCSession      # check one instance
    tlapm SessionProofs.tla                  # check the proofs of one module

`PROJECT.json` maps each definition to the lines it models and lists the runs,
the hazards and the findings. An operator whose comment says *Mutant* is no part
of a model: it is a slip the definition after it could have had. The file lists,
for each checked property, a mutant that it refutes, which shows that the
property says something about the code.

## Inventory

| Part | State | Operations | What is hard, and what makes it correct |
|---|---|---|---|
| Relay: sessions (`server.go`, `session.go`, `storage/sessions.go`) | map id → session object; `session.daemon`; participants; the SQLite row | daemon handshake (resume, restore, start, refuse), loss and 60 s grace timer, browser join and leave, restart | one goroutine per connection, objects that outlive the map entry, timers that fire in any order. The registered daemon's session stays findable; browsers show its tree and learn of losses; abandoned sessions go. |
| Relay: files (`server.go`, `session.go`) | content cache, hashes, `pendingFiles` | open, save with base hash, routing of the daemon's messages | copies lag behind the disk. The hash that decides about a save ends up that of the disk. |
| Browser: files, editor (`app.js`, `editor.js`) | `openFiles`, `fileHashes`, tabs, view, stashed documents, banner | open, type, save, close, five message handlers | `await` in the middle of a save, echoes of own saves. Copies end at the disk, no unsaved text is lost. |
| Daemon: files (`daemon.go`, `scanner.go`, `watcher.go`) | the disk, the watcher's channel, `tokenToPath` | answer, write, report, reconnect | `readLoop` beside the main loop, truncate-then-write. Reports arrive and are in order. |
| Relay: comments and tours (`server.go`, `storage/comments.go`, `tours.go`, `annotations.go`) | rows of SQLite | add, reply, resolve, delete, re-anchor, list | read-then-write across statements, lists broadcast out of order. |
| Relay and browser: joining (`server.go`, `session.go`, `app.js`) | participant fields, password attempts, the page's forms, prompt, timers, role | authenticate, identify, set and request a role, reconnect | prompts, losses and changes of the password interleave. A page that shows the IDE is in the session; the role it goes by is the relay's. |
| Relay and browser: guide mode | `guideActive`, `guideName`, `guideState`; the page's follow state | start, stop, report, follow, break away | several hosts, late messages, a state dropped with the daemon. All pages know the guide, followers see what it shows, who broke away is left alone. |
| Browser: comments and tours (`app.js`, `symbols.js`) | lists, the tour bar, the step, the panel's draft, pending files, steps and guide states | walk, write, edit, save, delete, comment, re-anchor, follow a guide's tour | lists and files arrive while the user goes on. The step is one of the tour's, and its file is shown; what was saved is selected. Comments should follow functions, and do not. |
| Relay: limits (`ratelimit.go`) | connections per address, token bucket | acquire, release, allow | every path out of a handler gives back what it took, once. |
| Anchors (`anchor/anchor.go`) | pure | find a line again in a changed file | called by its tests only. |
| Importer (`importer.go`) | a list of tours | authenticate, send, wait for confirmation | which `tour_list` confirms what. |
| Search, cursors, activity log, project store, ignore patterns, encryption, codec, command line, page rendering | – | – | no shared state others depend on, or string processing. |

Interactions: daemon ⇄ relay and browser ⇄ relay are WebSockets, ordered and
reliable while they stand; inside the relay one goroutine per connection shares
`Server.mu`, `session.mu` and SQLite; inside the daemon `readLoop` and the main
loop share the disk; in the page, message handlers, key strokes and clicks
interleave at every `await`.

## Modules

| Module | Models | Used by |
|---|---|---|
| `Session` | the life of a session in the relay | `MCSession`, `SessionProofs` |
| `Directory` | what the relay promises of its sessions: the abstract specification that `Session` implements | `Session`, `SessionDirectory` |
| `Page` | the handlers of a page for files and editor, as operators | `FileSync` |
| `FileSync` | a file from disk to editor and back: pages, relay, daemon | `MCFileSync`, `FileSyncProofs` |
| `Annotations` | the table of comments and tours, its handlers and lists | `MCAnnotations`, `AnnotationsProofs`, `AnnotationsPages` |
| `Guide` | guide mode: the relay's fields and the pages that guide and follow | `MCGuide`, `GuideProofs` |
| `Board` | comments and tours in a page | `MCBoard`, `BoardProofs` |
| `Join` | how a page gets into a session and stays there, roles, the limit per address | `MCJoin`, `JoinProofs` |

An `MC` module gives the constants of its model the values that a `.cfg` cannot
express. Each module has the part of the others that its properties need:
`Session` has joins without passwords, which `Join` has; `FileSync` and `Guide`
have connections of browsers already in; `Board` has one page, and what
`Annotations` and `Guide` do reaches it as messages.

## Session

`Session.tla` follows the goroutines of `internal/server`. An object is named by
the connection whose handler made it, since `newSession` is called at most once
per connection; a tree by the connection that sent it, since a daemon sends one,
when it connects. `sessions`, `daemonOf`, `tree`, `parts` are the fields
`Server.sessions`, `session.daemon`, `fileTree`, `participants`; `dpc`/`hsess` and
`bpc`/`bsess` are the places of the handlers and their local `sess`. What the daemon
sees of a connection (`link`) is apart from where the relay's handler is (`dpc`).

| Action | Code |
|---|---|
| `Dial`, `Lose` | `Run`, `connectAndServe` of `daemon.go`; a process dials when its last connection has ended |
| `HandshakeFails`, `Refuse`, `Resume`, `Start` | `handleDaemon`, lines 113–186, each one critical section of `Server.mu` |
| `Ready`, `SetTree`, `SendTreeOn`, `Loaded` | lines 214–231 and the loop's first case, 247–258: the tree is set under the object's lock, broadcast and followed by the status without it |
| `Evict`, `Notify` | the deferred function, lines 188–195 |
| `GraceEnds`, `Expel`, `Drop` | its goroutine, 196–211, with `closeAllBrowsers`: the list of browsers, each close, and the deletion. It keeps `Server.mu` throughout (`MuFree`), which `addBrowser` does not need |
| `Lookup`, `AddBrowser`, `Identify`, `ReadTree`, `SendTree`, `Leave` | `handleBrowser`, cut where it holds no lock |
| `RelayRestart` | the process ends; `sessions` is gone, `row` is left |

Run `session` (175 637 distinct states): two connections, from daemons of two tokens for one
id and a third for another id, a cap of one session, one browser, one restart.
Two connections are what it takes for a handler to be late for another; two
tokens and two ids make every refusal happen; one restart makes every handler be
cut at every place once. *Fairness* (`FairSpec`): the handlers' own steps and the
sends of a join are taken, since Go's scheduler runs whoever can run, a read from a dead
connection fails in the end, and a sleep ends. Nothing is assumed of daemons,
browsers and restarts.

- `HeldSessionFound`: no other timer, expiry or restore takes the session of the
  registered connection out of the map.
- `TreesAgree`: a joined browser shows the relay's tree once that was broadcast. Two orders
  leave another one, and are excepted: `getFileTree` lets the lock go before the join
  writes what it read; and a handler that set its tree before another did can
  broadcast it after the other, which the history `behind` records.
- `NobodyStranded`: a participant is in the session that its id finds, so that a daemon can
  come back to it, or it is being disconnected. An expiry closes those on the list it made (`Listed`), and
  a browser whose handshake goes on meanwhile is added all the same: `late` are
  those added when the session no longer stood (`Stands`). They stay in an object that
  no daemon will find, with an open connection and a page that shows no loss, which is what the code does; the
  property says that there is no other way to get there.
- `AbandonedExpires`, `LossIsTold`: what becomes of those who are left behind.
- `ImplementsDirectory`: `Session` with `host` for the token of the daemon that an
  id's object has, and `guests` for its participants whose connection stands, is
  `Directory!Spec`: an id has one host until the session ends, whichever daemon
  connects; there are no more sessions than the cap; a session
  of an id starts with no guest of the one before. A resumption, a loss and a timer that finds another daemon are no steps
  of the directory; an expired object that a browser is added to is none of its sessions.

Run `session_served` refutes "Sessions survive … brief daemon disconnects": if the
former connection's handshake is finished after the new one's, the session is
registered to the dead one and expires under the live one.

### Proofs

`SessionProofs.tla` proves, for any sets and any bounds, `TypeCorrect`,
`HeldSessionAlwaysFound`, `TreesAlwaysAgree` and `NobodyEverStranded`, from
the assumptions `HostsAssumption`, `NatAssumption` and `NoneAssumption` (hosts have
ids and tokens of the constants; the bounds are naturals; nil is none of the
values). `HeldSessionFound` is not inductive: a timer looks a session up by id,
and that the object it finds belongs to the timer's own session must be known.
`IdsAgree` says so: whatever the map finds for an id, and whatever a handler holds, was
made by a connection of that id. A timer that has decided to expire a session goes on for several
steps: `ExpiryInv` says that meanwhile the session is still that of its connection, and no other
timer has `Server.mu`. `SessionInv` is the conjunction of all three with `TypeOK`.
`TreesAgree` needs `TreeInv`: a participant is one of the object its handler holds (`PartsInv`);
a tree that is yet to be broadcast is the object's, or `behind` has it (`UnsentInv`); and a joiner in
the middle of its join shows what it got or has yet to write (`SendingInv`). `NobodyStranded` needs that whoever is in a session that is about to be dropped is
on the list, closed or late (`ListedInv`), and that an object with participants was made, so that its id does not change
(`MadeInv`). Each step lemma has one case per action; the
theorems are closed by PTL. `AbandonedExpires` and `LossIsTold` are liveness and
stay with TLC.

`SessionDirectory.tla` proves the refinement, `SessionImplementsDirectory`, from the
same assumptions. Its invariant `DirectoryInv` adds to `SessionInv` that the daemon an
object names has the token of the daemon it was made for (`HostInv`: a
registration compares the tokens before it changes `session.daemon`), and that a
participant is one of the one object its handler holds (`GuestInv`). `ObjectsApart`,
two ids never find one object, is why the end of one session takes no other's
guests; `FinitelyMany`, why the cap compares numbers. `StepSimulates` has one
case for each action: registration of a new object is `Open`, `addBrowser` is
`Join` if the id still finds the object, a timer that expires it makes its guests `Leave` and its deletion is `Close`, a restart
is `Crash`, and what remains leaves hosts and guests as they are.

## Page and FileSync

`Page.tla` holds what a page knows of files as one record and each handler as an
operator from page to page. A content is `<<path, n>>`, the n-th text written for a
path, and stands for its hash; `Blank` is the empty text, both of an editor that has
shown nothing and of a file that `os.WriteFile` has truncated. A page that was told
that a file is deleted has dropped its token: until the file is created again the
token itself is the name (`Raw`) under which messages about it are handled.

`FileSync.tla` puts pages, relay and daemon together, with four kinds of queue, on
connections that stand. Every browser may save (roles are `Join`'s). The daemon's
two goroutines are `ReadFile`/`SendContent`/`TruncateFile`/`WriteFile` (`readLoop`)
and `HandleFSEvent` (the main loop); `SaveFile` and `SendSave` are `saveFile` before
and after its `await`. Other awaits of the page only delay `fileHashes` by a
microtask after `openFiles` and are taken to end before the next message; since
`decryptContent` of every message is a longer await of the same kind, nothing can be
told apart but by a save pressed in that gap. `Edit` is external: another
program writes in place, renames over the file, or removes it.

| Run | Instance | Shows |
|---|---|---|
| `filesync_save` (721 353 states) | one writer, one follower, one file; 2 texts, 2 saves each; writes and deletions by others | `RelayConverges`, `PageConverges`, `FollowerShowsDisk`, `UnsavedInViewKept` |
| `filesync_open` (57 280) | the follower closes and asks once; one text or change; files also replaced | `TypeOK`, both convergences, `LoneRequestAnswered` |
| `filesync_tabs` | two files, one writer | refutes `UnsavedKept`: text behind another tab is dropped |
| `filesync_echo` | one writer and nobody else | refutes `ConflictHasCause`: a conflict with oneself |
| `filesync_home` | two files, one writer | refutes `TextsStayHome`: a text saved into another file |

Two texts and two saves are what it takes for a save to race its own echo, another
program's change and the banner's two buttons; a deletion followed by a save makes the
daemon create the file. Queues are not bounded, the bounds on texts, saves and
requests bound them. `filesync_open` has a single page that asks, because
two that ask at once lose an answer (see `LoneRequestAnswered` and the hazards).
*Fairness:* the relay's, the daemon's and the pages' own steps; users and other programs may
stop at any time.

Two exceptions are written into the properties because the code makes them
necessary: `overtaken` files, whose older content `readLoop` sent after a newer
one, and pages that were shown a conflict. What happens to them is among the hazards.

### Proofs

`FileSyncProofs.tla` proves all invariants and the action property of the passing runs, for any
files, browsers, writers and bounds. Its assumptions are `InputAssumption` (the constants have their types;
`None`, which `session.pendingFiles` holds for nobody, is no browser), `NamesAssumption` and `ContentsAssumption`
(finitely many paths, tokens differ from them, `None` from both and from any content).

`RelayAlwaysConverges`: `RelayConverges` says nothing before everything
has been reported; the strengthening `RelayInv` says what holds on the way, of each file of
which the watcher has no event left and no answer was overtaken (`Told`): the last
message about it that carries a content carries what is on disk (`LastCarries`); if there is none, the
cache has it already; and what `readLoop` is about to send is what is on disk. For the step that
takes the last event, it must be known that a file whose last event is a deletion is gone
(`DeletedIsGone`), and that events are of the watcher's kinds (`Shape`). The lemmas on queues
say what appending and taking a message does to these; each step that
changes disk, queues or cache has a lemma, and all others are one (`BrowserSteps`).

`TypeCorrect` strengthens `TypeOK` to `Typed`: which messages carry a content, that what shows or is written is never
`None`, that a save not sent yet is counted, and that no two tabs are of one file, which bounds their number.
`UnsavedInViewIsKept` follows from `Typed` by one lemma for each message.

`PagesAlwaysConverge` has the invariant `SyncInv`: a page in which no conflict was shown has
nothing left of a file it was told is deleted (`Known`); of each file, the last news on its way is what is on disk, or none is on its way and the relay
or the page has that already (`HeardOf`); the page's copy is what is on disk unless news is on its
way or a save of this page is (`CopyOf`, `Unwritten`). It has a hypothesis: `[][SaversStay]_vars`,
who has pressed save stays with the file until the save is sent. Without it the
proof fails for the reason `filesync_home` shows: `saveFile` takes the text before its `await` and
the path after it, a click in between sends the text to another file, and the copy the page then keeps of that file is
one that was never written. On the instances of `filesync_save` and `filesync_open` no page has two
files, and the hypothesis holds of each step.

`FollowersShowDisk` has `FollowInv`: a page on which nobody types has no text of its own and saves nothing
(`Reader`); unless it asks it gets no `file_content` (`Unasked`); its view mirrors its copy (`Mirrors`); and each `file_created`
finds the file gone (`CreatedOnce`: along the three queues, between two reports that a file is
created there is one that it was deleted). The last is why the theorem assumes that no
program puts a new file in the place of an old one (`"replace"`): `file_created` of a file that is open updates the
page's copy and leaves the view. `filesync_open`, which has replacements, does not check
`FollowerShowsDisk` for that reason.

One step is left out of the model: that another program removes or replaces a file between the
truncation and the write of a save (`Edit`); the daemon's write would then go to the file that is gone.
`LoneRequestAnswered` is liveness and stays with TLC.

## Annotations

`Annotations.tla` has the table (`rows`), the place of each browser's handler in the
message it has in hand (`job`), and the last list of each kind that each browser was
sent (`shown`). Every SQL statement and every write to a connection is one step, for
that is where the relay's goroutines interleave; no lock is held across them.

| Action | Code |
|---|---|
| `CommentAdd`, `CommentReply`, `CommentResolve`, `CommentDelete`, `TourSave`, `TourDelete`, `Reanchor` | the cases of `handleBrowser` (`server.go` 586–749, 812–888), up to what they read first |
| `ReadRows` | the second read, that of `reanchor` |
| `SaveRow`, `DeleteRow` | `UpsertAnnotation`, `DeleteAnnotation`, once for each row |
| `Busy` | a statement that fails with SQLITE_BUSY, which `storage.Open` sets no timeout for |
| `ReadList`, `SendList` | `broadcastComments`, `broadcastTours`, and `sendAnnotations` of a joiner |

A list is read without failing: `storage.Open` turns the write-ahead log on "for concurrent reads
during writes", so that a SELECT does not get the SQLITE_BUSY that a write gets. A read
that fails for the disk's sake would end the broadcast, and pages would keep the list they have.

A comment's author, color and body are one value, `text`; so are a tour's texts. The
fields that anchor it are `line`, 0 as written and 1 as re-anchored. The order of a
list and of the statements of one deletion is not modelled. Participants stay, and
have the role that the message asks for. A reply may be a reply to a reply, as in the code.

Run `annotations` (173 651 states): two handlers that join, a comment and a tour
in the table, room for one more comment, two messages, one statement that fails.
Two messages are one for each handler, or two of one while the other joins; both can
touch the one comment, so that each pair of a read and a write is interleaved with
each other. *Fairness* (`FairSpec`): a handler that has work goes on; Go schedules it, and a
statement or a write ends. No browser has to send anything.

- `ContentKept`: handlers that save a whole row as they read it earlier never mix
  up its author or its parent.
- `PagesCurrent`: when all handlers have done, all pages that did not get lists out of
  order show the table. It needs each path that may have written to end in a list,
  the paths on which a statement failed included.
- `CommentsReachAll`: nothing in the table escapes a page that joins meanwhile.

Run `annotations_replies` refutes "removes a comment and all its replies": a reply
whose handler has looked its parent up is saved after the deletion.

What the code leaves open is stated by no property: a toggle lost between two others,
a deleted comment saved again by a re-anchoring, a page that keeps an older list.

### Proofs

`AnnotationsProofs.tla` proves `TypeCorrect` and `ContentAlwaysKept` for any number of
handlers, comments, tours, messages and failures, from `AnnotationsAssumption` (the
bounds are naturals, and neither tour ids nor handlers are numbers, which is how the model
tells them from the ids of comments and the texts of tours). `ContentKept` is not inductive: what a
handler has read and is yet to save decides. `TodoAgrees` says that a comment that is about to be saved
again has the author and parent it was posted with; `NewIsOnes`, that a comment
which was never saved is in the hands of one handler, so that nobody else can save
another under its id. Steps that start a job are shown by `StartAgrees`, all others only
take from what is left to do (`ThenListLeaves`), and `SaveRow`, the one step that
changes `posted`, has a case of its own.

`AnnotationsPages.tla` proves `PagesAlwaysCurrent` from the same assumption. `PagesCurrent` speaks of
states in which all handlers have done; its strengthening `PagesInv` says of every browser and each
kind of list, as long as it got them in order, that it is covered (`Covers`): a handler will
send it a list that is yet to be read (`WillList`), or the newest list on its way is the
table's (`IsSent`), or the newest it got is, and whatever is on its way is older (`IsShown`). A
change of the table is made by a handler that will list it, and a handler that gives up when a
statement fails has changed nothing, since it had one row to save (`Apt`). Lists are
numbered in the order they are read (`Numbered`), and those of comments and of tours do
not disturb each other (`KindsApart`). `CommentsReachAll` stays with TLC.


## Guide

`Guide.tla` has the relay's guide fields, the place of each browser's handler, the
message it is broadcasting and who has yet to get it (`out`), the messages on their
way to each page (`down`) and the pages. A handler changes the fields under the
session's lock and writes to the others' connections afterwards, one after the other:
a joiner, a second host's broadcast or the loss of the daemon comes in between.

| Action | Code |
|---|---|
| `ToggleGuide`, `ToggleFollow`, `MoveCursor`, `OpenFile`, `ClickTab` | the user: `app.js` 1786–1812, 240–262, 1208–1226, 1286–1298 |
| `Frame` | the animation frame of `broadcastGuideState` |
| `GuideStart`, `GuideStop`, `GuideState`, `FollowStatus` | the cases of `handleBrowser`, in the step that sends the message |
| `Write` | one write of `broadcastToBrowsers` |
| `Connect`, `Greet`, `Drop` | `addBrowser`, the guide that a joiner is sent, `removeBrowser` |
| `Evict` | `evictCaches`, which tells nobody |
| `Deliver`, `FileArrives` | `handleMessage` and `applyGuideState` |

What a page sends is taken in the same step: nobody else can tell it from a page
that acts later. The viewport and the cursor go the way of the file in view and are left out.

Run `guide` (2.0 million distinct states): two browsers, each a host or not, two files of
which one is open in every page, and four events of users, connections and the daemon; a
toggle of the guide button costs two. Two hosts that start at once, a joiner between a
start and its broadcast, and a follower whose file is missing all fit into four. *No fairness:* the
properties speak of states in which nothing is on its way (`Quiet`).

- `PagesKnowGuide`, `FollowersShowState`, `FollowersCounted`: what all pages know when
  messages have settled. The code has orders in which they do not agree, and the
  history `behind` names exactly the pages they concern: one that was sent an older message
  after a newer one, one whose connection was down, all of them after `evictCaches`.
  Under `"count"` it has the guides that missed statuses while they were not connected.
  `stateBy` is whose place the relay has, if it was reported since that host began to guide.
  `strayed` names pages whose user, or a file asked for earlier, moved the view.
- `BreakAwayKept`: the view of a page that does not follow is moved by its user only,
  or by a file it has asked for.

Among what the model shows and no property demands: a state that arrives after the stop is
stored and sent to the next joiner; opening a file from the tree is not reported by a
guide, while a click on a tab is; a second host takes the guide over and the
first one's page goes on guiding; a guide that starts anew is taken, until its first
frame, to be where the last report was, which a joiner is sent; a guide that loses its
connection and joins again is sent its own `guide_start`, empties its count, and no follower sends its status again.

### Proofs

`GuideProofs.tla` proves all five properties of the run, `TypeCorrect`, `PagesAlwaysKnowGuide`,
`FollowersAlwaysShowState`, `FollowersAlwaysCounted` and `BreakAwayAlwaysKept`, for any
browsers, files and events, from `GuideAssumption`. `PagesKnowGuide` speaks of states in which
nothing is on its way. Its strengthening `GuideInv` says of each browser that is not `behind` where
the relay's guide can be found (`Covered`): whatever a handler has yet to write to it of
the kind names that guide; if no handler has, and no greeting is to come, the last such message on
its way does, and if there is none, the page (`Told`); one that has not been connected since the
session began has heard of no guide. A broadcast makes every page behind that another one
is still to be written to (`Overtaken`), which is why all that is left to write agrees.
That a message's type and the kind of its broadcast belong together is `KindsAgree`. Steps
that say nothing of the guide are one lemma (`SilentKeeps`), those of a host that starts or stops another
(`AnnounceKeeps`).

`ShowInv` adds what `FollowersShowState` needs. While the relay's place is one that its guide
reported (`Reported`), no start is still to be written to a page that is not `behind`, because a
handler that broadcasts takes no other message (`Begun`, from `OwnWords`: a start names the handler that
writes it); what is left to write of the kind `state` is the last report (`Latest`); and when none is
left, the last state in the page's queue is it and comes after every `guide_start`, or there is
none of either and the page shows it (`Led`, with `LastOf` and `Lacks` for the queue). `Unled` says that a
page which knows of no guide, and is to hear of none, does not follow. `CountInv` adds
`Counted`, for the guide g and a page b that has heard of it: nobody is about to write a start or stop to g, which
would empty its count, and what is about to be written to g of b, or else the last of b's statuses in g's
queue, or else g's count itself, is how b follows. It holds from the step in which b takes
the `guide_start` and answers it: that message was the last of all the broadcast wrote, or else
b's status was overtaken (`behind["follow"]`).

Both had been checked in a weaker form of the model with at most four events, and the attempt to prove
them showed that form to be false: with six events a place reported after the guide had stopped was still
taken for the guide's when it began again and lost its connection before its first frame, and with seven a guide that had
toggled off without a connection counted nobody after it joined again. Neither is
what the properties mean to promise; `stateBy` and `behind["count"]` now say so, and the
orders themselves are listed above as what the code does.

## Board

`Board.tla` is one page with the tour bar, the panel in which tours are written, one
comment and the files needed to show them. Of the page's copy of a file it has only whether there is one (`has`):
what is in it is `FileSync`'s. Files are neither deleted nor closed here. Other users change the relay's rows
(`OthersEdit`) and guide (`GuideShows`); the daemon answers and reports (`Answer`,
`FileChanges`); all of it arrives through `down`, in order. The page never finds the symbol of a line: `getSymbolAtLine` and `findSymbol` look in
`state.tree`, a field that an editor state of CodeMirror 6 does not have (`SymbolAt` is
`None`), so that every comment is sent without a symbol, and `reanchorAnnotationsForFile`
skips comments without one (`Reanchored`). The repository's README says of comments that "they follow functions when code
changes": with this code they stay on their line, and no property here says otherwise. No comment is ever orphaned, and the form that re-anchors an orphaned one
by hand (`app.js` 1491–1508) is never shown; the relay's side of `reanchor` is in `Annotations`, for any client.
A `file_changed` puts the text into `openFiles` and asks for a frame whether or not there are local
edits (`app.js` 458–482), and neither matters to a comment that has no symbol.

| Action | Code (`app.js`) |
|---|---|
| `ToggleTourBar`, `SelectTour`, `TourTo` | 2065–2122, with `selectTourById` and `goToTourStep` |
| `StartTourCreation`, `EditCurrentTour`, `CancelCreation`, `DeleteCurrentTour` | 2216–2287 |
| `SaveTour`, `SendTour` | `saveTour`, 2427–2483: what it reads from the panel, and what it does after its awaits; the panel stays in use meanwhile |
| `RemoveStep`, `MoveStep`, `ReanchorStep`, `GoToNewStep` | the buttons of `renderNewTourSteps` |
| `GutterClick` | `onGutterClick`: a step's line, a step of the tour, or the box of a comment |
| `AddComment`, `JumpToComment` | 1684–1718, 1610–1622 |
| `Frame` | `reanchorAnnotationsForFile`, a frame after `file_changed` |
| `Deliver` | `handleMessage`: lists, files, changes and guide states |

Run `board` (439 733 distinct states): two files, one of them open; two ids of tours, one
tour of two steps; two lines, at most two steps to a tour; five events, of which a guide's state costs two. Five
are enough for the user to start, write and save a tour, or to walk to a
step, while another changes the tour and a file is on its way. *No fairness*.

- `StepInTour` (a property of steps): no list, file or click leads to a step that the tour does not have.
  Only a guide's state does, which is taken with whichever version of the tour the
  page has, and the file that an older state waited for.
- `StepShown`, `TourFollowsGuide`, `SavedTourShown`: when all has arrived, the page shows the
  step's file, is where its guide was, has selected the tour it saved.

The histories `roaming`, `guided` and `saved` say since when a property no
longer applies; each names an
order of events in which the code does something else, and the comment of the property names it. Steps of tours never carry a
symbol in this page, so that what `reanchorAnnotationsForFile` would do with
tours does not happen. The index of the step that is being re-anchored stays
when steps are moved or another draft is begun, as in the code.

### Proofs

`BoardProofs.tla` proves all five properties of the run for any files, tours, lines,
steps and events, from `BoardAssumption` (a file has a line, a tour may have a step, `None`
is none of the values). `TypeOK` and `StepInTour` are not inductive without `Fit`: the tour that is
selected is one that the page's own list has, with the bar open, which gives the steps that a
click may count on; and a file in view is one the page has. Each operation of the page has a lemma
(`GoToFit`, `TourListFit`, ...) that says it keeps `Fit` and whether it may leave the tour; each
action has one that puts them together (`Allowed`), and `DeliverKept` has the two messages
that may lead elsewhere.

The three properties of settled states follow from `PageInv`, which says of every state how it
will settle:

- `PendingPart`, `StepPart`: a step that waits, waits for a file on its way; unless the user roams, at
  most one file is on its way (`Alone`), and it is the step's, or the page shows the
  step's already. With two files on their way the second would move the view after the
  step was shown: that is why `roaming` is set by a step picked while a file is to come.
- `GuidedPart`: the page has the guide's tour and step, if it has that tour, and shows the guide's file,
  or that file is the only one on its way and `pendingGuide` is the state that waits for it.
- `SavedPart`: every list on its way has the saved tour, which is selected, or will be
  when the first of them comes, the bar being open.

`Shifted` relates the queue before and after a step apart from the messages of given types, so that
one lemma for each part covers all the steps that it does not speak of (`NavSame`, `SavedSame`); `AwayParts` is for steps that
touch the page's files and rows only.
The proof needed a history to say more than the run's five events could show (with more events
TLC refutes `TourFollowsGuide` without it): a page that gets a guide's tour only after it was told of
it stays where it is until the next state (`HasGuided` in `Deliver`).

## Join

`Join.tla` is one user's page, its connections (`conn`: both ends and what is on its way), and
the relay's handler of each up to its main loop. Others are a host, who sets roles and
answers requests, and people who come and go: what they do is a list of participants.

| Action | Code |
|---|---|
| `SubmitSession`, `JoinSession`, `RightPassword`, `WrongPassword`, `RequestEditAccess` | the forms: `app.js` 151–263, 309–322, 1032–1038 |
| `TimerFires`, `Deliver` | `reconnect`, the socket's events, `handleMessage` |
| `Accept`, `NotFound`, `HandshakeFails` | `handleBrowser` up to the handshake, with `ipLimiter` |
| `Take` | the loop for the password, the one for the name, the main loop |
| `HandlerEnds` | the deferred functions: the slot and the participant go |
| `SendLate` | a list of participants that another one overtakes |
| `SetRole`, `Answer`, `HostComesOrGoes` | the host: `setRole`, the toast of a request |
| `Cut`, `PasswordChanges`, `SessionExpires`, `RelayRestarts`, `SessionResumes` | faults |

Run `join` (1.06 million distinct states): two connections at a time, so that an old one's handler can
be late; two passwords, or none at first; two slots, two attempts, one reconnection before the page gives up; four
events of users, host and faults. What has been sent and is lost with a connection goes at the
`Cut`, the two ends notice later. *Fairness:* what has arrived is handled,
timers fire, and a user who is asked for the password enters it in the
end; users' other acts, faults and the daemon's return are not assumed.

- `IdeIsLive`, `PromptIsLive`, `OneSelf`, `RoleShown`, `RequestPending`: what a page shows and what
  the relay has, when nothing is on its way. A page whose banner says that it gave up is
  excepted from the first two, and so is one that was refused (`refused`, see below).
- `SlotsCounted`: the count for an address is that of its connections, until one of them is
  turned away: then the slot of that one is never given back, or one is given back twice.
- `Settles`: with the right password a user ends in the session, at a form, or is told that it is no use,
  unless a reconnection is refused.

What the model shows and no property demands: a page refused when it reconnects. "Rate limited — show reason
without reconnect loop", says the comment of `joinSession`. The relay accepts a connection over the limit before it closes it with 1013. When the page joins for the first time,
the handler of the close shows the banner with the reason (`gaveUp`); when it reconnects, `onopen` has
just hidden the banner and the handler of the close only sets its text (`OnRefuse`, `refused`). The
page keeps the IDE over a dead connection, and connects no more; the status line alone says
"Connection refused".

Two histories are exceptions that the code makes necessary: `deadEnd`, a password
that was entered with no connection to send it on and none to come, which shows an IDE that is not
connected; and `doubled`, a user who presses Join twice and has two sockets.
A comment in `joinSession` says that the relay holds an `identify` sent before the password
is accepted; the relay drops it (`server.go` 379–425), and `submitPassword` sends it again.

### Proofs

`JoinProofs.tla` proves `TypeCorrect` and `SlotsAlwaysCounted` for any passwords, tokens,
connections, slots, attempts and events, from `JoinAssumption`. `TypeOK` is not inductive: that the count of
attempts ends at the limit depends on a connection that used them up being cut and
not read from again, which `Kept` says. `SlotsCounted` compares a number with the cardinality of the
served connections; `ServedIn` names them as a set, and each handler that begins or
ends adds or takes exactly one (`FS_AddElement`, `FS_RemoveElement`).

The five invariants of settled states, `IdeAlwaysLive`, `PromptAlwaysLive`, `AlwaysOneSelf`, `RoleAlwaysShown` and
`RequestAlwaysPending`, are proved from `TellInv`, which says how each gets settled:

- `OneChain`: a user who pressed Join once has one connection that is alive, or one timer for the
  next, or a form, or was told that the page gives up, or was refused, and never two of them.
- `Sound`: a connection that is not cut has both its ends, its page hears first that it is open, and a
  password on its way is followed by an `identify`.
- `AllGreeted`: what a relay in a loop waits for is on its way to it, or the message that
  makes the page ask the user is on its way back.
- `AllTold`: the last list on its way to a participant has its role, and if there is none the page shows that role.
- `Pending`: a request that the page shows is on its way, in front of the host, or a list or
  a denial that ends it is on its way back.

`Moves` and `Grows` say what the relay's steps do to a connection, so that each part is proved once for all
of them. `Settles` is liveness and stays with TLC.

## Not modelled

- `connLimiter` (`ratelimit.go`): tokens come with time, of which the models have none; any
  message of a burst could be dropped, and nothing makes up for it.
- The daemon's backoff and the limits of `fsnotify`'s and the watcher's queues: they are the
  kernel's, and what is lost in them is reported by nobody. That a directory's first files
  may be missed is of the same kind.
- The transport's buffers, and with them a writer that waits for a reader that
  does not read while it holds the session's lock (`writeToDaemon`).
- The importer: it sends what it was given once; the relay's side of it is `TourSave`.
- `FindAnchor`: called by its tests only.
- Search, cursors, the activity log and the project's name are broadcasts or writes of a
  last value that nothing depends on.
- Project detection, ignore patterns, codec and encryption are string processing and libraries;
  rendering is the DOM's. Changes by hand to the title, text and line of a step in the
  panel are left out of `Board`.

The provers reach no liveness and no `ENABLED`: `AbandonedExpires`, `LossIsTold`,
`LoneRequestAnswered`, `CommentsReachAll` and `Settles` are model-checked only. Every invariant and every
property of steps that a passing run checks is proved.
