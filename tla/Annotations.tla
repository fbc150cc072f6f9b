---------------------------- MODULE Annotations ----------------------------
(***************************************************************************)
(* Comments and tours in the relay: the table `annotations`, the handlers  *)
(* of the browsers' connections that read and write it, and the lists the  *)
(* browsers are sent.  A handler takes one message of its browser after    *)
(* the other; each SQL statement, and each write to a connection, is a     *)
(* step of its own, between which other handlers run.                      *)
(***************************************************************************)
EXTENDS Naturals

CONSTANTS
    Handlers,     \* the browsers of one project, all with the role editor
    MaxComments,  \* bound: comments and replies posted
    TourIds,      \* ids browsers give to tours
    MaxMessages,  \* bound: messages taken by all handlers together
    MaxBusy,      \* bound: statements that fail
    None          \* no parent, no row

ASSUME AnnotationsAssumption ==
    /\ MaxComments \in Nat /\ MaxMessages \in Nat /\ MaxBusy \in Nat
    /\ None \notin Handlers
    /\ (TourIds \cup Handlers \cup {None}) \cap Nat = {}

CommentIds == 1 .. MaxComments
Ids == CommentIds \cup TourIds
Kinds == {"comment", "tour"}

(* `text` stands for what the author wrote: for a comment its author, for  *)
(* a tour the number of the message that saved it, and 0 for what was      *)
(* written before.  `line` stands for the fields that anchor it.           *)
Rows == [kind : Kinds, parent : CommentIds \cup {None}, text : Handlers \cup Nat,
         resolved : BOOLEAN, line : 0 .. 1]
Comment(h, parent, line) ==
    [kind |-> "comment", parent |-> parent, text |-> h, resolved |-> FALSE, line |-> line]
Tour(n, line) ==
    [kind |-> "tour", parent |-> None, text |-> n, resolved |-> FALSE, line |-> line]

VARIABLES
    rows,      \* the table
    job,       \* what each handler is doing
    shown,     \* the last list of each kind a browser got, and its number
    newest,    \* the highest number of a list of each kind a browser got
    posted,    \* the comments as they were first saved
    messages, reads, busy   \* how many of them there have been

vars == <<rows, job, shown, newest, posted, messages, reads, busy>>

(* `op` is the message in hand; `todo` has the rows still to be saved or   *)
(* deleted; `moved` what a reanchor message asks for; `list`, `num` and    *)
(* `to` the list that is being sent, its number and who is yet to get it.  *)
Ops == {"join", "add", "resolve", "delete", "reanchor", "tour_save", "none"}
Pcs == {"idle", "read", "save", "remove", "list", "send"}
NoList == [x \in Ids |-> None]
At(pc, op, kind) ==
    [pc |-> pc, op |-> op, kind |-> kind, todo |-> {}, moved |-> {},
     list |-> NoList, num |-> 0, to |-> {}]
Idle == At("idle", "none", "comment")

(* The table has a comment, and tours, of an earlier session.              *)
Init ==
    /\ rows = [x \in Ids |-> IF x = 1 THEN Comment(0, None, 0)
                             ELSE IF x \in TourIds THEN Tour(0, 0) ELSE None]
    /\ posted = [x \in CommentIds |-> IF x = 1 THEN Comment(0, None, 0) ELSE None]
    /\ job = [h \in Handlers |-> At("list", "join", "comment")]
    /\ shown = [h \in Handlers |-> [k \in Kinds |-> [list |-> NoList, num |-> 0]]]
    /\ newest = [h \in Handlers |-> [k \in Kinds |-> 0]]
    /\ messages = 0
    /\ reads = [k \in Kinds |-> 0]
    /\ busy = 0

(* generateID makes an id nobody has: the next one in the model.           *)
Unused == {x \in CommentIds : /\ posted[x] = None
                              /\ \A h \in Handlers : \A t \in job[h].todo : t[1] # x}
Fresh == {x \in Unused : \A y \in Unused : x <= y}
OfKind(k) == [x \in Ids |-> IF rows[x] # None /\ rows[x].kind = k THEN rows[x] ELSE None]

-----------------------------------------------------------------------------
(* handleBrowser takes a message.                                          *)

Take(h) ==
    /\ job[h].pc = "idle"
    /\ messages < MaxMessages
    /\ messages' = messages + 1
    /\ UNCHANGED <<rows, shown, newest, posted, reads, busy>>
Start(h, j) == job' = [job EXCEPT ![h] = j]
SaveAll(op, kind, S) == [At("save", op, kind) EXCEPT !.todo = S]
Post(h, x, c) == Start(h, SaveAll("add", "comment", {<<x, c>>}))

CommentAdd(h) ==
    /\ Take(h)
    /\ \E x \in Fresh : Post(h, x, Comment(h, None, 0))

(* The parent is looked up among the comments now, and the reply saved     *)
(* later, with the parent's place.  A reply to a reply is possible.        *)
CommentReply(h) ==
    /\ Take(h)
    /\ \E x \in Fresh, p \in CommentIds :
         /\ rows[p] # None
         /\ Post(h, x, Comment(h, p, rows[p].line))

(* ResolveComment reads, and saves what it read with the state toggled;    *)
(* of a reply, or of a comment that is gone, it saves nothing.             *)
Toggled(c) == [c EXCEPT !.resolved = ~@]
CommentResolve(h) ==
    /\ Take(h)
    /\ \E x \in CommentIds :
         /\ posted[x] # None
         /\ Start(h, IF rows[x] # None /\ rows[x].parent = None
                     THEN SaveAll("resolve", "comment", {<<x, Toggled(rows[x])>>})
                     ELSE At("list", "resolve", "comment"))

(* DeleteComment reads, and deletes the comment and its replies one by one.*)
Thread(x) == {y \in CommentIds : rows[y] # None /\ (y = x \/ rows[y].parent = x)}
CommentDelete(h) ==
    /\ Take(h)
    /\ \E x \in CommentIds :
         /\ posted[x] # None
         /\ Start(h, IF Thread(x) = {} THEN At("list", "delete", "comment")
                     ELSE [At("remove", "delete", "comment") EXCEPT
                              !.todo = {<<y, rows[y]>> : y \in Thread(x)}])

TourSave(h) ==
    /\ Take(h)
    /\ \E t \in TourIds : Start(h, SaveAll("tour_save", "tour", {<<t, Tour(messages', 0)>>}))

(* One statement, without a list of what is there.                         *)
TourDelete(h) ==
    /\ Take(h)
    /\ \E t \in TourIds :
         Start(h, [At("remove", "delete", "tour") EXCEPT !.todo = {<<t, Tour(0, 0)>>}])

(* The browser has found other lines for comments and steps of tours.      *)
Reanchor(h) ==
    /\ Take(h)
    /\ \E S \in SUBSET Ids \ {{}} :
         /\ \A x \in S \cap CommentIds : posted[x] # None
         /\ Start(h, [At("read", "reanchor", "comment") EXCEPT !.moved = S])

-----------------------------------------------------------------------------
(* A handler goes on.                                                      *)

(* When the comments are done, a join and a reanchor go on to the tours.   *)
AfterKind(j) ==
    IF j.kind = "comment" /\ j.op = "join" THEN At("list", "join", "tour")
    ELSE IF j.kind = "comment" /\ j.op = "reanchor"
    THEN [At("read", "reanchor", "tour") EXCEPT !.moved = j.moved]
    ELSE Idle

(* Reanchor of the rows that are there: the place is taken from the        *)
(* message, the rest from the row as it is read now.                       *)
(* Mutant: all is taken from the message, which does not name the parent.  *)
CorrectedFromMessage(c) == [c EXCEPT !.line = 1, !.parent = None]
(* Mutant: the message's line is added to the row's.                       *)
CorrectedTwice(c) == [c EXCEPT !.line = @ + 1]
Corrected(c) == [c EXCEPT !.line = 1]

ReadRows(h) ==
    /\ job[h].pc = "read"
    /\ LET k == job[h].kind
           found == {x \in job[h].moved : OfKind(k)[x] # None}
       IN  Start(h, IF found = {} THEN AfterKind(job[h])
                    ELSE [job[h] EXCEPT !.pc = "save",
                             !.todo = {<<x, Corrected(rows[x])>> : x \in found}])
    /\ UNCHANGED <<rows, shown, newest, posted, messages, reads, busy>>

(* The statements that are left are done, or given up after one failed.    *)
(* Mutant: a handler that has deleted does not send the list.              *)
ThenListUnlessDelete(h, left) ==
    Start(h, IF left # {} THEN [job[h] EXCEPT !.todo = left]
             ELSE IF job[h].op = "delete" THEN Idle
             ELSE [job[h] EXCEPT !.pc = "list", !.todo = {}])
ThenList(h, left) ==
    Start(h, IF left # {} THEN [job[h] EXCEPT !.todo = left]
             ELSE [job[h] EXCEPT !.pc = "list", !.todo = {}])

SaveRow(h) ==
    /\ job[h].pc = "save"
    /\ \E x \in job[h].todo :
         /\ rows' = [rows EXCEPT ![x[1]] = x[2]]
         /\ posted' = IF x[1] \in CommentIds /\ posted[x[1]] = None
                      THEN [posted EXCEPT ![x[1]] = x[2]] ELSE posted
         /\ ThenList(h, job[h].todo \ {x})
    /\ UNCHANGED <<shown, newest, messages, reads, busy>>

DeleteRow(h) ==
    /\ job[h].pc = "remove"
    /\ \E x \in job[h].todo :
         /\ rows' = [rows EXCEPT ![x[1]] = None]
         /\ ThenList(h, job[h].todo \ {x})
    /\ UNCHANGED <<shown, newest, posted, messages, reads, busy>>

(* There is no busy timeout: a write fails while another handler writes.   *)
(* A post or a tour is then given up without a list, the rest of any other *)
(* message with one.                                                       *)
Busy(h) ==
    /\ job[h].pc \in {"save", "remove"}
    /\ \E g \in Handlers \ {h} : job[g].pc \in {"save", "remove"}
    /\ busy < MaxBusy
    /\ busy' = busy + 1
    /\ IF job[h].op \in {"add", "tour_save"} THEN Start(h, Idle) ELSE ThenList(h, {})
    /\ UNCHANGED <<rows, shown, newest, posted, messages, reads>>

(* Mutant: those who are still joining are left out.                       *)
AudienceJoined(h) ==
    IF job[h].op = "join" THEN {h} ELSE {g \in Handlers : g = h \/ job[g].op # "join"}
Audience(h) == IF job[h].op = "join" THEN {h} ELSE Handlers

ReadList(h) ==
    /\ job[h].pc = "list"
    /\ LET k == job[h].kind
       IN  /\ reads' = [reads EXCEPT ![k] = @ + 1]
           /\ Start(h, [job[h] EXCEPT !.pc = "send", !.list = OfKind(k), !.num = reads'[k],
                                      !.to = Audience(h)])
    /\ UNCHANGED <<rows, shown, newest, posted, messages, busy>>

SendList(h) ==
    /\ job[h].pc = "send"
    /\ LET j == job[h]
       IN  \E b \in j.to :
             /\ shown' = [shown EXCEPT ![b][j.kind] = [list |-> j.list, num |-> j.num]]
             /\ newest' = [newest EXCEPT ![b][j.kind] = IF @ > j.num THEN @ ELSE j.num]
             /\ Start(h, IF j.to = {b} THEN AfterKind(j) ELSE [j EXCEPT !.to = @ \ {b}])
    /\ UNCHANGED <<rows, posted, messages, reads, busy>>

TakeMessage(h) ==
    \/ CommentAdd(h) \/ CommentReply(h) \/ CommentResolve(h) \/ CommentDelete(h)
    \/ TourSave(h) \/ TourDelete(h) \/ Reanchor(h)
GoOn(h) ==
    ReadRows(h) \/ SaveRow(h) \/ DeleteRow(h) \/ Busy(h) \/ ReadList(h) \/ SendList(h)

Next == \E h \in Handlers : TakeMessage(h) \/ GoOn(h)
Spec == Init /\ [][Next]_vars
(* A handler that has something to do goes on: Go runs it, and its writes  *)
(* end.  A browser may stop sending messages at any time.                  *)
FairSpec == Spec /\ \A h \in Handlers : WF_vars(GoOn(h))

-----------------------------------------------------------------------------
(* Properties.                                                             *)

TypeOK ==
    /\ rows \in [Ids -> Rows \cup {None}]
    /\ job \in [Handlers -> [pc : Pcs, op : Ops, kind : Kinds, todo : SUBSET (Ids \X Rows),
                             moved : SUBSET Ids,
                             list : [Ids -> Rows \cup {None}], num : Nat,
                             to : SUBSET Handlers]]
    /\ shown \in [Handlers -> [Kinds -> [list : [Ids -> Rows \cup {None}], num : Nat]]]
    /\ newest \in [Handlers -> [Kinds -> Nat]]
    /\ posted \in [CommentIds -> Rows \cup {None}]
    /\ messages \in 0 .. MaxMessages
    /\ reads \in [Kinds -> Nat]
    /\ busy \in 0 .. MaxBusy

(* Whatever handlers do to a comment at the same time, its row has the     *)
(* author and the parent it was posted with: a re-anchoring "accepts only  *)
(* anchor-related fields", a toggle only toggles (server.go, TypeReanchor; *)
(* storage/comments.go).                                                   *)
ContentKept ==
    \A x \in CommentIds :
        rows[x] # None => posted[x] # None
                       /\ rows[x].parent = posted[x].parent /\ rows[x].text = posted[x].text

(* When all handlers have done with their messages, a browser that did not *)
(* get an older list after a newer one shows the table as it is: every     *)
(* path through a handler that writes ends in a list for all, those who    *)
(* were joining and those whose statement failed included.                 *)
Quiet == \A h \in Handlers : job[h].pc = "idle"
PagesCurrent ==
    Quiet => \A b \in Handlers, k \in Kinds :
        shown[b][k].num = newest[b][k] => shown[b][k].list = OfKind(k)

(* A comment in the table gets to be shown by every browser, unless it is  *)
(* deleted, or the browser gets an older list after a newer one.           *)
CommentsReachAll ==
    \A b \in Handlers, x \in CommentIds :
        rows[x] # None ~> \/ rows[x] = None
                          \/ shown[b]["comment"].list[x] # None
                          \/ shown[b]["comment"].num < newest[b]["comment"]

(* When all is done there is no reply whose comment is gone:               *)
(* "DeleteComment removes a comment and all its replies" (comments.go).    *)
RepliesHaveParent ==
    Quiet => \A x \in CommentIds :
        rows[x] # None /\ rows[x].parent # None => rows[rows[x].parent] # None
=============================================================================
