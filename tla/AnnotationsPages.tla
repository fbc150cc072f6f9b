-------------------------- MODULE AnnotationsPages --------------------------
(* A proof about Annotations: when all handlers have done, browsers show   *)
(* the table, for any number of handlers, comments, tours, messages and    *)
(* failed statements.                                                      *)
EXTENDS AnnotationsProofs

(* What a job will still do: write; read the list of kind k for all, which *)
(* a post or a tour not yet saved may give up; read it for a joiner.       *)
Writes(j) == j.pc \in {"save", "remove"}
Relists(j, k) ==
    /\ j.kind = k /\ j.op # "join"
    /\ j.pc = "list" \/ (Writes(j) /\ j.op \notin {"add", "tour_save"})
Joins(j, k) ==
    /\ j.op = "join"
    /\ \/ j.pc = "list" /\ j.kind = k
       \/ j.pc \in {"list", "send"} /\ j.kind = "comment" /\ k = "tour"
Sends(j, k, b) == j.pc = "send" /\ j.kind = k /\ b \in j.to

(* Browser b is going to be sent a list of kind k that is yet to be read,  *)
(* or the newest list on its way is the table's, or the newest it was sent *)
(* is, and what is on its way is older.                                    *)
WillList(b, k) == Joins(job[b], k) \/ \E h \in Handlers : Relists(job[h], k)
IsSent(b, k) ==
    \E h \in Handlers :
        /\ Sends(job[h], k, b) /\ job[h].list = OfKind(k) /\ newest[b][k] < job[h].num
        /\ \A g \in Handlers : Sends(job[g], k, b) => job[g].num <= job[h].num
IsShown(b, k) ==
    /\ shown[b][k].num = newest[b][k] => shown[b][k].list = OfKind(k)
    /\ \A g \in Handlers : Sends(job[g], k, b) => job[g].num < newest[b][k]
Covers(b, k) == WillList(b, k) \/ IsSent(b, k) \/ IsShown(b, k)

(* Comments and tours have ids of their own, a job saves and deletes rows  *)
(* of its own kind, and one that may give up has one row to save.  Only a  *)
(* reanchor reads before it saves.                                         *)
IdsOf(k) == IF k = "comment" THEN CommentIds ELSE TourIds
Apt(j) ==
    /\ \A t \in j.todo : t[1] \in IdsOf(j.kind) /\ t[2].kind = j.kind
    /\ Writes(j) => /\ j.op # "join"
                    /\ j.op \in {"add", "tour_save"} => \E x : j.todo = {x}
    /\ j.pc = "read" => j.op = "reanchor"
KindsApart == \A x \in Ids : rows[x] # None => x \in IdsOf(rows[x].kind)

(* Lists are numbered as they are read.                                    *)
Numbered ==
    /\ \A b \in Handlers, k \in Kinds : newest[b][k] <= reads[k]
    /\ \A h \in Handlers : job[h].pc = "send" => job[h].num <= reads[job[h].kind]
    /\ \A h, g \in Handlers :
          /\ job[h].pc = "send" /\ job[g].pc = "send"
          /\ job[h].kind = job[g].kind /\ job[h].num = job[g].num
          => h = g

PagesInv ==
    /\ TypeOK /\ KindsApart /\ Numbered
    /\ \A h \in Handlers : Apt(job[h])
    /\ \A b \in Handlers, k \in Kinds : Covers(b, k)

-----------------------------------------------------------------------------
(* A handler's step, as a browser sees it.                                 *)

(* Handler h goes on with job j.  What it sends to b is as it was; it      *)
(* gives up no list that it would have read; and where it writes, it will. *)
LEMMA CoversKept ==
  ASSUME TypeOK, NEW h \in Handlers, NEW j, Start(h, j), NEW b \in Handlers, NEW k \in Kinds,
         Covers(b, k),
         Sends(j, k, b) <=> Sends(job[h], k, b),
         Sends(j, k, b) => j.num = job[h].num /\ j.list = job[h].list,
         newest'[b][k] = newest[b][k], shown'[b][k] = shown[b][k],
         Relists(job[h], k) => Relists(j, k),
         h = b /\ Joins(job[h], k) => Joins(j, k),
         OfKind(k)' = OfKind(k) \/ Relists(j, k)
  PROVE  Covers(b, k)'
<1>1. \A g \in Handlers : job'[g] = IF g = h THEN j ELSE job[g]
  BY DEF Start, TypeOK
<1>2. \A g \in Handlers : /\ Sends(job'[g], k, b) <=> Sends(job[g], k, b)
                          /\ Sends(job[g], k, b) => job'[g].num = job[g].num
                                                 /\ job'[g].list = job[g].list
  BY <1>1
<1>3. CASE WillList(b, k)
  <2>1. WillList(b, k)'
    BY <1>1, <1>3 DEF WillList
  <2> QED
    BY <2>1 DEF Covers
<1>4. CASE Relists(j, k)
  <2>1. WillList(b, k)'
    BY <1>1, <1>4 DEF WillList
  <2> QED
    BY <2>1 DEF Covers
<1>5. CASE IsSent(b, k) /\ OfKind(k)' = OfKind(k)
  <2>1. PICK s \in Handlers :
          /\ Sends(job[s], k, b) /\ job[s].list = OfKind(k) /\ newest[b][k] < job[s].num
          /\ \A g \in Handlers : Sends(job[g], k, b) => job[g].num <= job[s].num
    BY <1>5 DEF IsSent
  <2>2. /\ Sends(job'[s], k, b) /\ job'[s].list = OfKind(k)' /\ newest'[b][k] < job'[s].num
        /\ \A g \in Handlers : Sends(job'[g], k, b) => job'[g].num <= job'[s].num
    BY <1>2, <1>5, <2>1
  <2>3. IsSent(b, k)'
    BY <2>2 DEF IsSent
  <2> QED
    BY <2>3 DEF Covers
<1>6. CASE IsShown(b, k) /\ OfKind(k)' = OfKind(k)
  <2>1. IsShown(b, k)'
    BY <1>2, <1>6 DEF IsShown
  <2> QED
    BY <2>1 DEF Covers
<1> QED
  BY <1>3, <1>4, <1>5, <1>6 DEF Covers

LEMMA AptKept ==
  ASSUME TypeOK, \A g \in Handlers : Apt(job[g]), NEW h \in Handlers, NEW j, Apt(j), Start(h, j)
  PROVE  \A g \in Handlers : Apt(job'[g])
BY DEF Start, TypeOK

(* A job that sends nothing numbers nothing.                               *)
LEMMA NumberedKept ==
  ASSUME TypeOK, Numbered, NEW h \in Handlers, NEW j, Start(h, j), j.pc # "send",
         newest' = newest, reads' = reads
  PROVE  Numbered'
<1>1. \A g \in Handlers : job'[g] = IF g = h THEN j ELSE job[g]
  BY DEF Start, TypeOK
<1> QED
  BY <1>1 DEF Numbered

(* Steps that change neither the table nor what browsers were sent.        *)
LEMMA QuietStep ==
  ASSUME PagesInv, TypeOK', NEW h \in Handlers, NEW j, Start(h, j), Apt(j),
         job[h].pc # "send", j.pc # "send",
         \A k \in Kinds : /\ Relists(job[h], k) => Relists(j, k)
                          /\ Joins(job[h], k) => Joins(j, k),
         UNCHANGED <<rows, shown, newest, reads>>
  PROVE  PagesInv'
<1>1. ASSUME NEW b \in Handlers, NEW k \in Kinds
      PROVE  Covers(b, k)'
  <2>1. OfKind(k)' = OfKind(k)
    BY DEF OfKind
  <2>2. ~Sends(j, k, b) /\ ~Sends(job[h], k, b)
    BY DEF Sends
  <2> QED
    BY <2>1, <2>2, CoversKept DEF PagesInv
<1>2. KindsApart'
  BY DEF PagesInv, KindsApart
<1>3. Numbered' /\ \A g \in Handlers : Apt(job'[g])
  BY NumberedKept, AptKept DEF PagesInv
<1> QED
  BY <1>1, <1>2, <1>3 DEF PagesInv

LEMMA AtApt ==
  ASSUME NEW pc, NEW op, NEW kind, pc \notin {"save", "remove", "read"}
  PROVE  Apt(At(pc, op, kind))
BY DEF Apt, At, Writes

(* Every message starts a job that is apt, and sends nothing at once.      *)
LEMMA TakeStarts ==
  ASSUME PagesInv, NEW h \in Handlers, TakeMessage(h)
  PROVE  \E j : Start(h, j) /\ Apt(j) /\ j.pc # "send"
<1>0. /\ CommentIds \subseteq Ids /\ TourIds \cap CommentIds = {} /\ TypeOK /\ KindsApart
      /\ Kinds = {"comment", "tour"}
  BY Disjoint DEF Ids, PagesInv, Kinds
<1>1. ASSUME NEW x \in CommentIds, NEW c, c.kind = "comment", NEW op, op # "join",
             Start(h, SaveAll(op, "comment", {<<x, c>>}))
      PROVE  \E j : Start(h, j) /\ Apt(j) /\ j.pc # "send"
  <2> DEFINE j == SaveAll(op, "comment", {<<x, c>>})
  <2>1. j.todo = {<<x, c>>} /\ j.pc = "save" /\ j.op = op /\ j.kind = "comment"
    BY DEF SaveAll, At
  <2>2. Start(h, j)
    BY <1>1
  <2> HIDE DEF j
  <2>3. \A t \in j.todo : t[1] \in CommentIds /\ t[2].kind = "comment"
    BY <1>1, <2>1
  <2>4. Apt(j)
    BY <1>1, <2>1, <2>3 DEF Apt, IdsOf
  <2> QED
    BY <2>1, <2>2, <2>4
<1>2. ASSUME NEW x, rows[x] # None, x \in CommentIds
      PROVE  rows[x].kind = "comment" /\ rows[x] \in Rows
  <2>1. rows[x] \in Rows /\ x \in IdsOf(rows[x].kind)
    BY <1>0, <1>2 DEF KindsApart, TypeOK
  <2> QED
    BY <1>0, <1>2, <2>1 DEF IdsOf
<1>3. CASE CommentAdd(h)
  <2>1. PICK x \in Fresh : Post(h, x, Comment(h, None, 0))
    BY <1>3 DEF CommentAdd
  <2>2. x \in CommentIds /\ Comment(h, None, 0).kind = "comment"
    BY DEF Fresh, Unused, Comment
  <2> QED
    BY <1>1, <2>1, <2>2 DEF Post
<1>4. CASE CommentReply(h)
  <2>1. PICK x \in Fresh, p \in CommentIds : Post(h, x, Comment(h, p, rows[p].line))
    BY <1>4 DEF CommentReply
  <2>2. x \in CommentIds /\ Comment(h, p, rows[p].line).kind = "comment"
    BY DEF Fresh, Unused, Comment
  <2> QED
    BY <1>1, <2>1, <2>2 DEF Post
<1>5. CASE CommentResolve(h)
  <2>1. PICK x \in CommentIds :
            Start(h, IF rows[x] # None /\ rows[x].parent = None
                     THEN SaveAll("resolve", "comment", {<<x, Toggled(rows[x])>>})
                     ELSE At("list", "resolve", "comment"))
    BY <1>5 DEF CommentResolve
  <2>2. CASE rows[x] # None /\ rows[x].parent = None
    <3>1. Toggled(rows[x]).kind = "comment"
      BY <1>2, <2>2 DEF Toggled, Rows
    <3> QED
      BY <1>1, <2>1, <2>2, <3>1
  <2>3. CASE ~(rows[x] # None /\ rows[x].parent = None)
    <3>1. Apt(At("list", "resolve", "comment")) /\ At("list", "resolve", "comment").pc = "list"
      BY AtApt DEF At
    <3> QED
      BY <2>1, <2>3, <3>1
  <2> QED
    BY <2>2, <2>3
<1>6. CASE CommentDelete(h)
  <2>1. PICK x \in CommentIds :
            Start(h, IF Thread(x) = {} THEN At("list", "delete", "comment")
                     ELSE [At("remove", "delete", "comment") EXCEPT
                              !.todo = {<<y, rows[y]>> : y \in Thread(x)}])
    BY <1>6 DEF CommentDelete
  <2> DEFINE S == {<<y, rows[y]>> : y \in Thread(x)}
             j == [At("remove", "delete", "comment") EXCEPT !.todo = S]
  <2>2. j.todo = S /\ j.pc = "remove" /\ j.op = "delete" /\ j.kind = "comment"
    BY DEF At
  <2>3. \A t \in S : t[1] \in CommentIds /\ t[2].kind = "comment"
    BY <1>2 DEF Thread
  <2>4. Start(h, IF Thread(x) = {} THEN At("list", "delete", "comment") ELSE j)
    BY <2>1
  <2> HIDE DEF S, j
  <2>5. Apt(j)
    BY <2>2, <2>3 DEF Apt, IdsOf
  <2>6. Apt(At("list", "delete", "comment")) /\ At("list", "delete", "comment").pc = "list"
    BY AtApt DEF At
  <2> QED
    BY <2>2, <2>4, <2>5, <2>6
<1>7. CASE TourSave(h)
  <2>1. PICK t \in TourIds :
            Start(h, SaveAll("tour_save", "tour", {<<t, Tour(messages', 0)>>}))
    BY <1>7 DEF TourSave
  <2> DEFINE j == SaveAll("tour_save", "tour", {<<t, Tour(messages', 0)>>})
  <2>2. j.todo = {<<t, Tour(messages', 0)>>} /\ j.pc = "save" /\ j.op = "tour_save"
        /\ j.kind = "tour" /\ Tour(messages', 0).kind = "tour"
    BY DEF SaveAll, At, Tour
  <2>3. Start(h, j)
    BY <2>1
  <2> HIDE DEF j
  <2>4. \A u \in j.todo : u[1] \in TourIds /\ u[2].kind = "tour"
    BY <2>2
  <2>5. Apt(j)
    BY <2>2, <2>4 DEF Apt, IdsOf
  <2> QED
    BY <2>2, <2>3, <2>5
<1>8. CASE TourDelete(h)
  <2>1. PICK t \in TourIds :
            Start(h, [At("remove", "delete", "tour") EXCEPT !.todo = {<<t, Tour(0, 0)>>}])
    BY <1>8 DEF TourDelete
  <2> DEFINE j == [At("remove", "delete", "tour") EXCEPT !.todo = {<<t, Tour(0, 0)>>}]
  <2>2. j.todo = {<<t, Tour(0, 0)>>} /\ j.pc = "remove" /\ j.op = "delete"
        /\ j.kind = "tour" /\ Tour(0, 0).kind = "tour"
    BY DEF At, Tour
  <2>3. Start(h, j)
    BY <2>1
  <2> HIDE DEF j
  <2>4. \A u \in j.todo : u[1] \in TourIds /\ u[2].kind = "tour"
    BY <2>2
  <2>5. Apt(j)
    BY <2>2, <2>4 DEF Apt, IdsOf
  <2> QED
    BY <2>2, <2>3, <2>5
<1>9. CASE Reanchor(h)
  <2>1. PICK S \in SUBSET Ids \ {{}} :
            Start(h, [At("read", "reanchor", "comment") EXCEPT !.moved = S])
    BY <1>9 DEF Reanchor
  <2> DEFINE j == [At("read", "reanchor", "comment") EXCEPT !.moved = S]
  <2>2. j.todo = {} /\ j.pc = "read" /\ j.op = "reanchor"
    BY DEF At
  <2>3. Start(h, j)
    BY <2>1
  <2> HIDE DEF j
  <2> QED
    BY <2>2, <2>3 DEF Apt, Writes
<1> QED
  BY <1>3, <1>4, <1>5, <1>6, <1>7, <1>8, <1>9 DEF TakeMessage

LEMMA TakePages ==
  ASSUME PagesInv, NEW h \in Handlers, TakeMessage(h)
  PROVE  PagesInv'
<1>1. PICK j : Start(h, j) /\ Apt(j) /\ j.pc # "send"
  BY TakeStarts
<1>2. job[h].pc = "idle" /\ UNCHANGED <<rows, shown, newest, reads>>
  BY DEF TakeMessage, Take, CommentAdd, CommentReply, CommentResolve, CommentDelete,
         TourSave, TourDelete, Reanchor
<1>3. \A k \in Kinds : ~Relists(job[h], k) /\ ~Joins(job[h], k)
  BY <1>2 DEF Relists, Joins, Writes
<1>4. TypeOK'
  BY TakeType DEF PagesInv
<1> QED
  BY <1>1, <1>2, <1>3, <1>4, QuietStep

-----------------------------------------------------------------------------
(* A handler goes on.                                                      *)

LEMMA AfterApt ==
  ASSUME NEW j
  PROVE  /\ Apt(AfterKind(j)) /\ AfterKind(j).pc # "send"
         /\ Apt(Idle) /\ Idle.pc = "idle"
<1>1. Apt(Idle) /\ Idle.pc = "idle"
  BY AtApt DEF Idle, At
<1>2. Apt(At("list", "join", "tour")) /\ At("list", "join", "tour").pc = "list"
  BY AtApt DEF At
<1> DEFINE r == [At("read", "reanchor", "tour") EXCEPT !.moved = j.moved]
<1>3. r.todo = {} /\ r.pc = "read" /\ r.op = "reanchor"
  BY DEF At
<1>4. Apt(r)
  BY <1>3 DEF Apt, Writes
<1>5. AfterKind(j) \in {At("list", "join", "tour"), r, Idle}
  BY DEF AfterKind
<1> HIDE DEF r
<1> QED
  BY <1>1, <1>2, <1>3, <1>4, <1>5

LEMMA ReadRowsPages ==
  ASSUME PagesInv, NEW h \in Handlers, ReadRows(h), TypeOK'
  PROVE  PagesInv'
<1>0. job[h] \in JobType /\ TypeOK /\ KindsApart
  BY JobTyped DEF PagesInv
<1> DEFINE k == job[h].kind
           found == {x \in job[h].moved : OfKind(k)[x] # None}
           S == {<<x, Corrected(rows[x])>> : x \in found}
           j == [job[h] EXCEPT !.pc = "save", !.todo = S]
<1>1. /\ Start(h, IF found = {} THEN AfterKind(job[h]) ELSE j)
      /\ job[h].pc = "read" /\ UNCHANGED <<rows, shown, newest, reads>>
  BY DEF ReadRows
<1>2. j.todo = S /\ j.pc = "save" /\ j.op = job[h].op /\ j.kind = k
  BY <1>0 DEF JobType
<1>3. \A t \in S : t[1] \in IdsOf(k) /\ t[2].kind = k
  <2>1. ASSUME NEW x \in found PROVE x \in IdsOf(k) /\ Corrected(rows[x]).kind = k
    <3>1. x \in Ids
      BY <1>0 DEF JobType
    <3>2. rows[x] # None /\ rows[x].kind = k /\ rows[x] \in Rows
      BY <1>0, <3>1 DEF OfKind, TypeOK
    <3>3. Corrected(rows[x]).kind = rows[x].kind
      BY <3>2 DEF Corrected, Rows
    <3> QED
      BY <1>0, <3>1, <3>2, <3>3 DEF KindsApart
  <2> QED
    BY <2>1
<1>4. \A i \in Kinds : ~Relists(job[h], i) /\ ~Joins(job[h], i)
  BY <1>1 DEF Relists, Joins, Writes
<1>5. job[h].op = "reanchor"
  BY <1>1 DEF PagesInv, Apt
<1>6. CASE found = {}
  BY <1>1, <1>4, <1>6, AfterApt, QuietStep
<1>7. CASE found # {}
  <2>1. Start(h, j)
    BY <1>1, <1>7
  <2> HIDE DEF j, S
  <2>2. Apt(j)
    BY <1>2, <1>3, <1>5 DEF Apt
  <2> QED
    BY <1>1, <1>2, <1>4, <2>1, <2>2, QuietStep
<1> QED
  BY <1>6, <1>7

(* What ThenList makes of a job.                                           *)
LEMMA ThenListStarts ==
  ASSUME NEW h \in Handlers, NEW left, ThenList(h, left), job[h] \in JobType
  PROVE  \E j : /\ Start(h, j) /\ j.kind = job[h].kind /\ j.op = job[h].op /\ j.todo = left
               /\ j.pc = IF left = {} THEN "list" ELSE job[h].pc
<1> DEFINE more == [job[h] EXCEPT !.todo = left]
           list == [job[h] EXCEPT !.pc = "list", !.todo = {}]
<1>1. /\ more.kind = job[h].kind /\ more.op = job[h].op /\ more.todo = left
      /\ more.pc = job[h].pc
      /\ list.kind = job[h].kind /\ list.op = job[h].op /\ list.todo = {} /\ list.pc = "list"
  BY DEF JobType
<1>2. Start(h, IF left # {} THEN more ELSE list)
  BY DEF ThenList
<1> HIDE DEF more, list
<1> QED
  BY <1>1, <1>2

LEMMA WritePages ==
  ASSUME PagesInv, NEW h \in Handlers, SaveRow(h) \/ DeleteRow(h), TypeOK'
  PROVE  PagesInv'
<1>0. job[h] \in JobType /\ TypeOK /\ KindsApart /\ Writes(job[h]) /\ Apt(job[h])
  BY JobTyped DEF PagesInv, SaveRow, DeleteRow, Writes
<1>x. PICK x \in job[h].todo :
        \E v \in {None, x[2]} : /\ rows' = [rows EXCEPT ![x[1]] = v]
                                /\ ThenList(h, job[h].todo \ {x})
  <2>1. CASE SaveRow(h)
    BY <2>1 DEF SaveRow
  <2>2. CASE DeleteRow(h)
    BY <2>2 DEF DeleteRow
  <2> QED
    BY <2>1, <2>2
<1>1. PICK v \in {None, x[2]} : /\ rows' = [rows EXCEPT ![x[1]] = v]
                                /\ ThenList(h, job[h].todo \ {x})
  BY <1>x
<1>2. UNCHANGED <<shown, newest, reads>>
  BY DEF SaveRow, DeleteRow
<1> DEFINE left == job[h].todo \ {x}
<1>3. PICK j : /\ Start(h, j) /\ j.kind = job[h].kind /\ j.op = job[h].op /\ j.todo = left
               /\ j.pc = IF left = {} THEN "list" ELSE job[h].pc
  BY <1>0, <1>1, ThenListStarts
<1>4. x[1] \in IdsOf(job[h].kind) /\ x[2].kind = job[h].kind /\ job[h].op # "join"
      /\ x[1] \in Ids /\ x[2] \in Rows
  <2>1. x[1] \in Ids /\ x[2] \in Rows
    BY <1>0 DEF JobType
  <2> QED
    BY <1>0, <2>1 DEF Apt
<1>5. left # {} => job[h].op \notin {"add", "tour_save"}
  BY <1>0 DEF Apt
<1>6. j.pc # "send" /\ Relists(j, job[h].kind) /\ Apt(j)
  <2>1. j.pc # "send" /\ Relists(j, job[h].kind)
    BY <1>0, <1>3, <1>4, <1>5 DEF Relists, Writes
  <2>2. Apt(j)
    BY <1>0, <1>3, <1>4, <1>5 DEF Apt, Writes
  <2> QED
    BY <2>1, <2>2
<1>7. ASSUME NEW k \in Kinds, k # job[h].kind
      PROVE  OfKind(k)' = OfKind(k)
  <2>1. \A y \in Ids : y # x[1] => rows'[y] = rows[y]
    BY <1>0, <1>1 DEF TypeOK
  <2>2. rows'[x[1]] = None \/ rows'[x[1]].kind # k
    BY <1>0, <1>1, <1>4, <1>7 DEF TypeOK
  <2>3. rows[x[1]] = None \/ rows[x[1]].kind # k
    <3>1. job[h].kind \in {"comment", "tour"} /\ k \in {"comment", "tour"}
      BY <1>0 DEF JobType, Kinds
    <3> QED
      BY <1>0, <1>4, <1>7, <3>1, Disjoint DEF KindsApart, IdsOf
  <2> QED
    BY <2>1, <2>2, <2>3 DEF OfKind
<1>8. ASSUME NEW b \in Handlers, NEW k \in Kinds PROVE Covers(b, k)'
  <2>1. ~Sends(j, k, b) /\ ~Sends(job[h], k, b)
    BY <1>0, <1>6 DEF Sends, Writes
  <2>2. ~Joins(job[h], k) /\ (Relists(job[h], k) => Relists(j, k))
    BY <1>4, <1>6 DEF Joins, Relists
  <2>3. OfKind(k)' = OfKind(k) \/ Relists(j, k)
    BY <1>6, <1>7
  <2> QED
    BY <1>0, <1>2, <1>3, <2>1, <2>2, <2>3, CoversKept DEF PagesInv
<1>9. KindsApart'
  BY <1>0, <1>1, <1>4 DEF KindsApart, TypeOK
<1>10. Numbered' /\ \A g \in Handlers : Apt(job'[g])
  BY <1>2, <1>3, <1>6, NumberedKept, AptKept DEF PagesInv
<1> QED
  BY <1>8, <1>9, <1>10 DEF PagesInv

LEMMA BusyPages ==
  ASSUME PagesInv, NEW h \in Handlers, Busy(h), TypeOK'
  PROVE  PagesInv'
<1>0. job[h] \in JobType /\ Writes(job[h]) /\ Apt(job[h])
      /\ UNCHANGED <<rows, shown, newest, reads>>
  BY JobTyped DEF PagesInv, Busy, Writes
<1>1. \A k \in Kinds : ~Joins(job[h], k)
  BY <1>0 DEF Apt, Joins
<1>2. CASE job[h].op \in {"add", "tour_save"}
  <2>1. Start(h, Idle) /\ \A k \in Kinds : ~Relists(job[h], k)
    BY <1>0, <1>2 DEF Busy, Relists, Writes
  <2> QED
    BY <1>0, <1>1, <2>1, AfterApt, QuietStep DEF Writes
<1>3. CASE job[h].op \notin {"add", "tour_save"}
  <2>1. PICK j : /\ Start(h, j) /\ j.kind = job[h].kind /\ j.op = job[h].op /\ j.todo = {}
                 /\ j.pc = "list"
    BY <1>0, <1>3, ThenListStarts DEF Busy
  <2>2. Apt(j) /\ \A k \in Kinds : Relists(job[h], k) => Relists(j, k)
    BY <2>1 DEF Apt, Relists, Writes
  <2> QED
    BY <1>0, <1>1, <2>1, <2>2, QuietStep DEF Writes
<1> QED
  BY <1>2, <1>3

LEMMA ReadListPages ==
  ASSUME PagesInv, NEW h \in Handlers, ReadList(h), TypeOK'
  PROVE  PagesInv'
<1>0. PICK k \in Kinds :
        k = job[h].kind /\ job[h] \in JobType /\ TypeOK /\ job[h].pc = "list" /\ Numbered
  BY JobTyped DEF PagesInv, ReadList, JobType
<1> DEFINE j == [job[h] EXCEPT !.pc = "send", !.list = OfKind(k), !.num = reads'[k],
                               !.to = Audience(h)]
<1>1. Start(h, j) /\ UNCHANGED <<rows, shown, newest>> /\ reads' = [reads EXCEPT ![k] = @ + 1]
  BY <1>0 DEF ReadList
<1>2. /\ j.pc = "send" /\ j.kind = k /\ j.op = job[h].op /\ j.todo = job[h].todo
      /\ j.list = OfKind(k) /\ j.num = reads[k] + 1 /\ j.to = Audience(h)
  BY <1>0, <1>1 DEF JobType, TypeOK
<1>3. reads[k] \in Nat /\ reads'[k] = reads[k] + 1 /\ \A i \in Kinds : i # k => reads'[i] = reads[i]
  BY <1>0, <1>1 DEF TypeOK
<1>4. \A g \in Handlers : job[g].num \in Nat /\ \A i \in Kinds : newest[g][i] \in Nat
  BY <1>0 DEF TypeOK
<1>5. \A i \in Kinds : OfKind(i)' = OfKind(i)
  BY <1>1 DEF OfKind
<1> HIDE DEF j
<1>6. \A g \in Handlers : job'[g] = IF g = h THEN j ELSE job[g]
  BY <1>0, <1>1 DEF Start, TypeOK
<1>7. Numbered'
  <2>1. \A b \in Handlers, i \in Kinds : newest'[b][i] <= reads'[i]
    BY <1>0, <1>1, <1>3, <1>4 DEF Numbered
  <2>2. \A g \in Handlers : job'[g].pc = "send" => job'[g].num <= reads'[job'[g].kind]
    <3> TAKE g \in Handlers
    <3>1. job[g].kind \in Kinds /\ reads[job[g].kind] \in Nat
      BY <1>0 DEF TypeOK
    <3> QED
      BY <1>0, <1>2, <1>3, <1>4, <1>6, <3>1 DEF Numbered
  <2>3. ASSUME NEW f \in Handlers, NEW g \in Handlers, job'[f].pc = "send", job'[g].pc = "send",
               job'[f].kind = job'[g].kind, job'[f].num = job'[g].num
        PROVE  f = g
    <3>1. ASSUME NEW i \in Handlers, i # h, job[i].pc = "send", job[i].kind = k
          PROVE  job[i].num # j.num
      BY <1>0, <1>2, <1>3, <1>4, <3>1 DEF Numbered
    <3> QED
      BY <1>0, <1>2, <1>6, <2>3, <3>1 DEF Numbered
  <2> QED
    BY <2>1, <2>2, <2>3 DEF Numbered
<1>8. ASSUME NEW b \in Handlers, NEW i \in Kinds PROVE Covers(b, i)'
  <2>1. CASE b \in Audience(h) /\ i = k
    <3>1. /\ Sends(job'[h], k, b) /\ job'[h].list = OfKind(k)' /\ newest'[b][k] < job'[h].num
          /\ \A g \in Handlers : Sends(job'[g], k, b) => job'[g].num <= job'[h].num
      <4>1. Sends(job'[h], k, b) /\ job'[h].list = OfKind(k)'
        BY <1>0, <1>2, <1>5, <1>6, <2>1 DEF Sends
      <4>2. newest'[b][k] < job'[h].num
        BY <1>0, <1>1, <1>2, <1>3, <1>4, <1>6 DEF Numbered
      <4>3. \A g \in Handlers : Sends(job'[g], k, b) => job'[g].num <= job'[h].num
        BY <1>0, <1>2, <1>3, <1>4, <1>6 DEF Numbered, Sends
      <4> QED
        BY <4>1, <4>2, <4>3
    <3>2. IsSent(b, k)'
      BY <3>1 DEF IsSent
    <3> QED
      BY <2>1, <3>2 DEF Covers
  <2>2. CASE ~(b \in Audience(h) /\ i = k)
    <3>1. ~Sends(j, i, b) /\ ~Sends(job[h], i, b)
      BY <1>0, <1>2, <2>2 DEF Sends
    <3>2. ~Relists(job[h], i)
      BY <1>0, <2>2 DEF Relists, Audience
    <3>3. h = b /\ Joins(job[h], i) => Joins(j, i)
      BY <1>0, <1>2, <2>2 DEF Joins, Audience
    <3> QED
      BY <1>0, <1>1, <1>5, <3>1, <3>2, <3>3, CoversKept DEF PagesInv
  <2> QED
    BY <2>1, <2>2
<1>9. Apt(j)
  BY <1>0, <1>2 DEF PagesInv, Apt, Writes
<1>10. KindsApart' /\ \A g \in Handlers : Apt(job'[g])
  <2>1. KindsApart'
    BY <1>1 DEF PagesInv, KindsApart
  <2> QED
    BY <1>0, <1>1, <1>9, <2>1, AptKept DEF PagesInv
<1> QED
  BY <1>7, <1>8, <1>10 DEF PagesInv

LEMMA SendListPages ==
  ASSUME PagesInv, NEW h \in Handlers, SendList(h), TypeOK'
  PROVE  PagesInv'
<1> DEFINE j == job[h]
           less(c) == [j EXCEPT !.to = @ \ {c}]
<1>0. PICK k \in Kinds : /\ k = j.kind /\ j \in JobType /\ TypeOK /\ j.pc = "send" /\ Numbered
                         /\ j.num \in Nat /\ Apt(j)
  BY JobTyped DEF PagesInv, SendList, JobType
<1>1. PICK c \in j.to :
        /\ shown' = [shown EXCEPT ![c][k] = [list |-> j.list, num |-> j.num]]
        /\ newest' = [newest EXCEPT ![c][k] = IF @ > j.num THEN @ ELSE j.num]
        /\ Start(h, IF j.to = {c} THEN AfterKind(j) ELSE less(c))
  BY <1>0 DEF SendList
<1>2. UNCHANGED <<rows, reads>> /\ c \in Handlers
  BY <1>0 DEF SendList, JobType
<1> DEFINE n == IF j.to = {c} THEN AfterKind(j) ELSE less(c)
<1>3. /\ less(c).pc = "send" /\ less(c).kind = k /\ less(c).op = j.op /\ less(c).todo = j.todo
      /\ less(c).num = j.num /\ less(c).list = j.list /\ less(c).to = j.to \ {c}
  BY <1>0 DEF JobType
<1> HIDE DEF less
<1>4. /\ n.pc = "send" => /\ j.to # {c} /\ n.kind = k /\ n.op = j.op /\ n.num = j.num
                          /\ n.list = j.list /\ n.to = j.to \ {c}
      /\ j.to # {c} => n.pc = "send"
      /\ Apt(n)
  <2>1. Apt(less(c))
    BY <1>0, <1>3 DEF Apt, Writes
  <2> QED
    BY <1>3, <2>1, AfterApt
<1>5. Joins(j, "tour") => Joins(n, "tour")
  <2>1. CASE j.to = {c}
    <3>1. /\ At("list", "join", "tour").op = "join" /\ At("list", "join", "tour").pc = "list"
          /\ At("list", "join", "tour").kind = "tour"
      BY DEF At
    <3>2. Joins(j, "tour") => AfterKind(j) = At("list", "join", "tour")
      BY <1>0 DEF Joins, AfterKind
    <3> QED
      BY <2>1, <3>1, <3>2 DEF Joins
  <2>2. CASE j.to # {c}
    BY <1>0, <1>4, <2>2 DEF Joins
  <2> QED
    BY <2>1, <2>2
<1>6. Start(h, n)
  BY <1>1
<1> HIDE DEF n
<1>7. \A g \in Handlers : job'[g] = IF g = h THEN n ELSE job[g]
  BY <1>0, <1>6 DEF Start, TypeOK
<1>8. \A g \in Handlers : job[g].num \in Nat /\ \A i \in Kinds : newest[g][i] \in Nat
  BY <1>0 DEF TypeOK
<1>9. /\ shown'[c][k] = [list |-> j.list, num |-> j.num]
      /\ newest'[c][k] = IF newest[c][k] > j.num THEN newest[c][k] ELSE j.num
      /\ \A b \in Handlers, i \in Kinds :
            b # c \/ i # k => shown'[b][i] = shown[b][i] /\ newest'[b][i] = newest[b][i]
  BY <1>0, <1>1, <1>2 DEF TypeOK
<1>10. \A i \in Kinds : OfKind(i)' = OfKind(i)
  BY <1>2 DEF OfKind
<1>11. Numbered'
  <2>1. \A b \in Handlers, i \in Kinds : newest'[b][i] <= reads'[i]
    BY <1>0, <1>2, <1>8, <1>9 DEF Numbered
  <2>2. \A g \in Handlers : job'[g].pc = "send" => job'[g].num <= reads'[job'[g].kind]
    BY <1>0, <1>2, <1>4, <1>7 DEF Numbered
  <2>3. ASSUME NEW f \in Handlers, NEW g \in Handlers, job'[f].pc = "send", job'[g].pc = "send",
               job'[f].kind = job'[g].kind, job'[f].num = job'[g].num
        PROVE  f = g
    BY <1>0, <1>4, <1>7, <2>3 DEF Numbered
  <2> QED
    BY <2>1, <2>2, <2>3 DEF Numbered
<1>12. ASSUME NEW b \in Handlers, NEW i \in Kinds, b # c \/ i # k PROVE Covers(b, i)'
  <2>1. Sends(n, i, b) <=> Sends(j, i, b)
    BY <1>0, <1>4, <1>12 DEF Sends
  <2>2. Sends(n, i, b) => n.num = j.num /\ n.list = j.list
    BY <1>4 DEF Sends
  <2>3. ~Relists(j, i) /\ (Joins(j, i) => Joins(n, i))
    <3>1. Joins(j, i) => i = "tour"
      BY <1>0 DEF Joins
    <3> QED
      BY <1>0, <1>5, <3>1 DEF Relists, Writes
  <2> HIDE DEF j
  <2> QED
    BY <1>0, <1>6, <1>9, <1>10, <1>12, <2>1, <2>2, <2>3, CoversKept DEF PagesInv, j
<1>13. Covers(c, k)'
  <2>1. \A g \in Handlers : Sends(job'[g], k, c) => g # h /\ Sends(job[g], k, c)
    BY <1>4, <1>7 DEF Sends
  <2>2. CASE WillList(c, k)
    <3>1. Joins(job[c], k) => c # h
      BY <1>0 DEF Joins
    <3>2. \A g \in Handlers : Relists(job[g], k) => g # h
      BY <1>0 DEF Relists, Writes
    <3>3. WillList(c, k)'
      BY <1>2, <1>7, <2>2, <3>1, <3>2 DEF WillList
    <3> QED
      BY <3>3 DEF Covers
  <2>3. CASE IsSent(c, k)
    <3>1. PICK s \in Handlers :
            /\ Sends(job[s], k, c) /\ job[s].list = OfKind(k) /\ newest[c][k] < job[s].num
            /\ \A g \in Handlers : Sends(job[g], k, c) => job[g].num <= job[s].num
      BY <2>3 DEF IsSent
    <3>2. \A g \in Handlers : Sends(job[g], k, c) /\ g # s => job[g].num < job[s].num
      BY <1>8, <3>1 DEF PagesInv, Numbered, Sends
    <3>3. CASE s = h
      <4>1. newest'[c][k] = j.num /\ shown'[c][k].list = OfKind(k)'
        BY <1>0, <1>2, <1>8, <1>9, <1>10, <3>1, <3>3
      <4>2. \A g \in Handlers : Sends(job'[g], k, c) => job'[g].num < newest'[c][k]
        BY <1>7, <2>1, <3>2, <3>3, <4>1
      <4>3. IsShown(c, k)'
        BY <4>1, <4>2 DEF IsShown
      <4> QED
        BY <4>3 DEF Covers
    <3>4. CASE s # h
      <4>1. Sends(j, k, c) /\ j.num < job[s].num
        BY <1>0, <3>2, <3>4 DEF Sends
      <4>2. newest'[c][k] < job[s].num
        BY <1>9, <3>1, <4>1
      <4>3. /\ Sends(job'[s], k, c) /\ job'[s].list = OfKind(k)' /\ newest'[c][k] < job'[s].num
            /\ \A g \in Handlers : Sends(job'[g], k, c) => job'[g].num <= job'[s].num
        BY <1>0, <1>7, <1>10, <2>1, <3>1, <3>4, <4>2
      <4>4. IsSent(c, k)'
        BY <4>3 DEF IsSent
      <4> QED
        BY <4>4 DEF Covers
    <3> QED
      BY <3>3, <3>4
  <2>4. CASE IsShown(c, k)
    <3>1. Sends(j, k, c)
      BY <1>0 DEF Sends
    <3>2. j.num < newest[c][k]
      BY <2>4, <3>1 DEF IsShown
    <3>3. newest'[c][k] = newest[c][k] /\ shown'[c][k].num # newest'[c][k]
      BY <1>0, <1>2, <1>8, <1>9, <3>2
    <3>4. \A g \in Handlers : Sends(job'[g], k, c) => job'[g].num < newest'[c][k]
      BY <1>7, <2>1, <2>4, <3>3 DEF IsShown
    <3>5. IsShown(c, k)'
      BY <3>3, <3>4 DEF IsShown
    <3> QED
      BY <3>5 DEF Covers
  <2> QED
    BY <1>0, <1>2, <2>2, <2>3, <2>4 DEF PagesInv, Covers
<1>14. KindsApart' /\ \A g \in Handlers : Apt(job'[g])
  <2>1. KindsApart'
    BY <1>2 DEF PagesInv, KindsApart
  <2> QED
    BY <1>0, <1>4, <1>6, <2>1, AptKept DEF PagesInv
<1> QED
  BY <1>11, <1>12, <1>13, <1>14 DEF PagesInv

-----------------------------------------------------------------------------
LEMMA PagesInit == Init => PagesInv
<1> SUFFICES ASSUME Init PROVE PagesInv
  OBVIOUS
<1>1. TypeOK
  BY TypeInit
<1>2. \A h \in Handlers : job[h] = At("list", "join", "comment")
  BY DEF Init
<1>3. /\ At("list", "join", "comment").pc = "list" /\ At("list", "join", "comment").op = "join"
      /\ At("list", "join", "comment").kind = "comment"
  BY DEF At
<1>4. \A h \in Handlers : Apt(job[h])
  BY <1>2, AtApt
<1>5. Numbered
  BY <1>2, <1>3 DEF Init, Numbered
<1>6. KindsApart
  <2>1. Comment(0, None, 0).kind = "comment" /\ Tour(0, 0).kind = "tour"
    BY DEF Comment, Tour
  <2>2. \A x \in Ids : rows[x] = IF x = 1 THEN Comment(0, None, 0)
                               ELSE IF x \in TourIds THEN Tour(0, 0) ELSE None
    BY DEF Init
  <2>3. \A x \in Ids : x = 1 => x \in CommentIds
    BY AnnotationsAssumption DEF AnnotationsAssumption, Ids, CommentIds
  <2> QED
    BY <2>1, <2>2, <2>3 DEF KindsApart, IdsOf
<1>7. ASSUME NEW b \in Handlers, NEW k \in Kinds PROVE Covers(b, k)
  <2>1. Joins(job[b], k)
    BY <1>2, <1>3 DEF Joins, Kinds
  <2> QED
    BY <2>1 DEF Covers, WillList
<1> QED
  BY <1>1, <1>4, <1>5, <1>6, <1>7 DEF PagesInv

LEMMA PagesStep == PagesInv /\ [Next]_vars => PagesInv'
<1> SUFFICES ASSUME PagesInv, [Next]_vars PROVE PagesInv'
  OBVIOUS
<1>1. TypeOK'
  BY TypeStep DEF PagesInv
<1>2. CASE UNCHANGED vars
  <2>1. KindsApart' /\ Numbered' /\ \A h \in Handlers : Apt(job'[h])
    BY <1>2 DEF vars, PagesInv, KindsApart, Numbered
  <2>2. ASSUME NEW b \in Handlers, NEW k \in Kinds PROVE Covers(b, k)'
    <3>1. Covers(b, k)
      BY DEF PagesInv
    <3> QED
      BY <1>2, <3>1 DEF vars, Covers, WillList, IsSent, IsShown, OfKind
  <2> QED
    BY <1>1, <2>1, <2>2 DEF PagesInv
<1>3. ASSUME NEW h \in Handlers, TakeMessage(h) \/ GoOn(h) PROVE PagesInv'
  BY <1>1, <1>3, TakePages, ReadRowsPages, WritePages, BusyPages, ReadListPages, SendListPages
     DEF GoOn
<1> QED
  BY <1>2, <1>3 DEF Next

(* However handlers interleave their statements and their writes to        *)
(* connections, and whichever statements fail: when all have done, each    *)
(* browser shows the table, but for one that got an older list after a     *)
(* newer one (server.go, handleBrowser: every path that writes ends in a   *)
(* list for all).                                                          *)
THEOREM PagesAlwaysCurrent == Spec => []PagesCurrent
<1>1. PagesInv => PagesCurrent
  <2> SUFFICES ASSUME PagesInv, Quiet, NEW b \in Handlers, NEW k \in Kinds,
                      shown[b][k].num = newest[b][k]
               PROVE  shown[b][k].list = OfKind(k)
    BY DEF PagesCurrent
  <2>1. ~WillList(b, k) /\ ~IsSent(b, k)
    BY DEF Quiet, WillList, IsSent, Joins, Relists, Sends, Writes
  <2>2. IsShown(b, k)
    BY <2>1 DEF PagesInv, Covers
  <2> QED
    BY <2>2 DEF IsShown
<1> QED
  BY <1>1, PagesInit, PagesStep, PTL DEF Spec
=============================================================================
