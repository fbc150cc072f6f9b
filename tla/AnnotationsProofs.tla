------------------------- MODULE AnnotationsProofs -------------------------
(* Proofs about Annotations, for any number of handlers, comments, tours,  *)
(* messages and failed statements.                                         *)
EXTENDS Annotations, TLAPS

JobType == [pc : Pcs, op : Ops, kind : Kinds, todo : SUBSET (Ids \X Rows),
            moved : SUBSET Ids, list : [Ids -> Rows \cup {None}], num : Nat,
            to : SUBSET Handlers]

(* What a row of comment x keeps of the one it was posted as.              *)
SamePost(x, c) == c.parent = posted[x].parent /\ c.text = posted[x].text

(* A handler that is about to save a comment which is in the table, or was,*)
(* saves it with its author and parent; a comment that was never saved is  *)
(* in the hands of the one handler that made its id.                       *)
TodoAgrees ==
    \A h \in Handlers : \A t \in job[h].todo :
        job[h].pc = "save" /\ t[1] \in CommentIds /\ posted[t[1]] # None
            => SamePost(t[1], t[2])
NewIsOnes ==
    \A h, g \in Handlers : \A t \in job[h].todo, u \in job[g].todo :
        t[1] = u[1] /\ t[1] \in CommentIds /\ posted[t[1]] = None => h = g /\ t = u

(* The inductive strengthening of ContentKept.                             *)
ContentInv == TypeOK /\ ContentKept /\ TodoAgrees /\ NewIsOnes

USE AnnotationsAssumption DEF AnnotationsAssumption

-----------------------------------------------------------------------------
(* The records of jobs.                                                    *)

LEMMA Disjoint == TourIds \cap CommentIds = {}
  BY DEF CommentIds

LEMMA AtType ==
  ASSUME NEW pc \in Pcs, NEW op \in Ops, NEW kind \in Kinds
  PROVE  At(pc, op, kind) \in JobType
  BY DEF At, JobType, NoList

LEMMA IdleType == Idle \in JobType
  BY AtType DEF Idle, Pcs, Ops, Kinds

LEMMA AfterType == ASSUME NEW j \in JobType PROVE AfterKind(j) \in JobType
<1>1. At("list", "join", "tour") \in JobType /\ At("read", "reanchor", "tour") \in JobType
  BY AtType DEF Pcs, Ops, Kinds
<1>2. [At("read", "reanchor", "tour") EXCEPT !.moved = j.moved] \in JobType
  BY <1>1 DEF JobType
<1> QED
  BY <1>1, <1>2, IdleType DEF AfterKind

LEMMA CommentType ==
  ASSUME NEW h \in Handlers \cup Nat, NEW p \in CommentIds \cup {None}, NEW l \in 0 .. 1
  PROVE  Comment(h, p, l) \in Rows
  BY DEF Comment, Rows, Kinds

LEMMA TourType == ASSUME NEW n \in Nat, NEW l \in 0 .. 1 PROVE Tour(n, l) \in Rows
  BY DEF Tour, Rows, Kinds

LEMMA CorrectedType == ASSUME NEW c \in Rows PROVE Corrected(c) \in Rows
  BY DEF Corrected, Rows

LEMMA SaveAllType ==
  ASSUME NEW op \in Ops, NEW kind \in Kinds, NEW S \in SUBSET (Ids \X Rows)
  PROVE  SaveAll(op, kind, S) \in JobType
<1>1. At("save", op, kind) \in JobType
  BY AtType DEF Pcs
<1> QED
  BY <1>1 DEF SaveAll, JobType

LEMMA RemoveType ==
  ASSUME NEW op \in Ops, NEW kind \in Kinds, NEW S \in SUBSET (Ids \X Rows)
  PROVE  [At("remove", op, kind) EXCEPT !.todo = S] \in JobType
<1>1. At("remove", op, kind) \in JobType
  BY AtType DEF Pcs
<1> QED
  BY <1>1 DEF JobType

LEMMA StartType ==
  ASSUME job \in [Handlers -> JobType], NEW h \in Handlers, NEW j \in JobType, Start(h, j)
  PROVE  job' \in [Handlers -> JobType]
  BY DEF Start

LEMMA ThenListType ==
  ASSUME job \in [Handlers -> JobType], NEW h \in Handlers,
         NEW left \in SUBSET (Ids \X Rows), ThenList(h, left)
  PROVE  job' \in [Handlers -> JobType]
<1>1. [job[h] EXCEPT !.todo = left] \in JobType
  BY DEF JobType
<1>2. [job[h] EXCEPT !.pc = "list", !.todo = {}] \in JobType
  <2>1. "list" \in Pcs /\ {} \in SUBSET (Ids \X Rows)
    BY DEF Pcs
  <2>2. ASSUME NEW j \in JobType PROVE [j EXCEPT !.pc = "list", !.todo = {}] \in JobType
    BY <2>1 DEF JobType
  <2> QED
    BY <2>2
<1> QED
  BY <1>1, <1>2, StartType DEF ThenList, Start

(* The variables keep their types.                                         *)
LEMMA TypeInit == Init => TypeOK
<1> SUFFICES ASSUME Init PROVE TypeOK
    OBVIOUS
<1>0. Comment(0, None, 0) \in Rows /\ Tour(0, 0) \in Rows
  BY CommentType, TourType
<1>1. rows \in [Ids -> Rows \cup {None}]
  BY <1>0 DEF Init
<1>2. posted \in [CommentIds -> Rows \cup {None}]
  BY <1>0 DEF Init
<1>3. At("list", "join", "comment") \in JobType
  BY AtType DEF Pcs, Ops, Kinds
<1>4. job \in [Handlers -> JobType]
  BY <1>3 DEF Init
<1> QED
  BY <1>1, <1>2, <1>4 DEF Init, TypeOK, JobType, NoList, Kinds

LEMMA TakeType ==
  ASSUME TypeOK, NEW h \in Handlers, TakeMessage(h)
  PROVE  TypeOK'
<1> USE DEF TypeOK
<1>0. /\ job \in [Handlers -> JobType]
      /\ {"comment", "tour"} \subseteq Kinds /\ CommentIds \subseteq Ids /\ TourIds \subseteq Ids
      /\ Ops = {"join", "add", "resolve", "delete", "reanchor", "tour_save", "none"}
  BY DEF JobType, Kinds, Ids, Ops
<1> SUFFICES Take(h) /\ job' \in [Handlers -> JobType]
  <2>1. SUFFICES ASSUME Take(h), job' \in [Handlers -> JobType] PROVE TypeOK'
    OBVIOUS
  <2>2. messages' \in 0 .. MaxMessages
    BY <2>1 DEF Take
  <2> QED
    BY <2>1, <2>2 DEF Take, JobType
<1>1. CASE CommentAdd(h)
  <2>1. PICK x \in Fresh : Post(h, x, Comment(h, None, 0))
    BY <1>1 DEF CommentAdd
  <2>2. {<<x, Comment(h, None, 0)>>} \in SUBSET (Ids \X Rows)
    BY <1>0, CommentType DEF Fresh, Unused
  <2> QED
    BY <1>0, <1>1, <2>1, <2>2, SaveAllType, StartType DEF CommentAdd, Post
<1>2. CASE CommentReply(h)
  <2>1. PICK x \in Fresh, p \in CommentIds :
            rows[p] # None /\ Post(h, x, Comment(h, p, rows[p].line))
    BY <1>2 DEF CommentReply
  <2>2. rows[p].line \in 0 .. 1
    BY <1>0, <2>1 DEF Rows
  <2>3. {<<x, Comment(h, p, rows[p].line)>>} \in SUBSET (Ids \X Rows)
    BY <1>0, <2>2, CommentType DEF Fresh, Unused
  <2> QED
    BY <1>0, <1>2, <2>1, <2>3, SaveAllType, StartType DEF CommentReply, Post
<1>3. CASE CommentResolve(h)
  <2>1. PICK x \in CommentIds :
            Start(h, IF rows[x] # None /\ rows[x].parent = None
                     THEN SaveAll("resolve", "comment", {<<x, Toggled(rows[x])>>})
                     ELSE At("list", "resolve", "comment"))
    BY <1>3 DEF CommentResolve
  <2>2. At("list", "resolve", "comment") \in JobType
    BY <1>0, AtType DEF Pcs
  <2>3. ASSUME rows[x] # None PROVE {<<x, Toggled(rows[x])>>} \in SUBSET (Ids \X Rows)
    <3>1. rows[x] \in Rows
      BY <1>0, <2>3
    <3>2. Toggled(rows[x]) \in Rows
      BY <3>1 DEF Toggled, Rows
    <3> QED
      BY <1>0, <3>2
  <2>4. rows[x] # None => SaveAll("resolve", "comment", {<<x, Toggled(rows[x])>>}) \in JobType
    BY <1>0, <2>3, SaveAllType
  <2> QED
    BY <1>0, <1>3, <2>1, <2>2, <2>4, StartType DEF CommentResolve
<1>4. CASE CommentDelete(h)
  <2>1. PICK x \in CommentIds :
            Start(h, IF Thread(x) = {} THEN At("list", "delete", "comment")
                     ELSE [At("remove", "delete", "comment") EXCEPT
                              !.todo = {<<y, rows[y]>> : y \in Thread(x)}])
    BY <1>4 DEF CommentDelete
  <2>2. At("list", "delete", "comment") \in JobType
    BY <1>0, AtType DEF Pcs
  <2>3. {<<y, rows[y]>> : y \in Thread(x)} \in SUBSET (Ids \X Rows)
    BY <1>0 DEF Thread
  <2>4. [At("remove", "delete", "comment") EXCEPT
             !.todo = {<<y, rows[y]>> : y \in Thread(x)}] \in JobType
    BY <1>0, <2>3, RemoveType
  <2> QED
    BY <1>0, <1>4, <2>1, <2>2, <2>4, StartType DEF CommentDelete
<1>5. CASE TourSave(h)
  <2>0. Take(h) /\ messages' \in Nat
    BY <1>5 DEF TourSave, Take
  <2>1. PICK t \in TourIds :
            Start(h, SaveAll("tour_save", "tour", {<<t, Tour(messages', 0)>>}))
    BY <1>5 DEF TourSave
  <2>2. Tour(messages', 0) \in Rows
    BY <2>0, TourType
  <2>3. {<<t, Tour(messages', 0)>>} \in SUBSET (Ids \X Rows)
    BY <1>0, <2>2
  <2> QED
    BY <1>0, <2>0, <2>1, <2>3, SaveAllType, StartType
<1>6. CASE TourDelete(h)
  <2>1. PICK t \in TourIds :
            Start(h, [At("remove", "delete", "tour") EXCEPT !.todo = {<<t, Tour(0, 0)>>}])
    BY <1>6 DEF TourDelete
  <2>2. Tour(0, 0) \in Rows
    BY TourType
  <2>3. {<<t, Tour(0, 0)>>} \in SUBSET (Ids \X Rows)
    BY <1>0, <2>2
  <2>4. [At("remove", "delete", "tour") EXCEPT !.todo = {<<t, Tour(0, 0)>>}] \in JobType
    BY <1>0, <2>3, RemoveType
  <2> QED
    BY <1>0, <1>6, <2>1, <2>4, StartType DEF TourDelete
<1>7. CASE Reanchor(h)
  <2>1. PICK S \in SUBSET Ids \ {{}} :
            Start(h, [At("read", "reanchor", "comment") EXCEPT !.moved = S])
    BY <1>7 DEF Reanchor
  <2>2. At("read", "reanchor", "comment") \in JobType
    BY <1>0, AtType DEF Pcs
  <2>3. [At("read", "reanchor", "comment") EXCEPT !.moved = S] \in JobType
    BY <2>2 DEF JobType
  <2> QED
    BY <1>0, <1>7, <2>1, <2>3, StartType DEF Reanchor
<1> QED
  BY <1>1, <1>2, <1>3, <1>4, <1>5, <1>6, <1>7 DEF TakeMessage

LEMMA GoOnType ==
  ASSUME TypeOK, NEW h \in Handlers, GoOn(h)
  PROVE  TypeOK'
<1> USE DEF TypeOK
<1>0. /\ job \in [Handlers -> JobType] /\ job[h] \in JobType
      /\ job[h].kind \in Kinds /\ job[h].todo \in SUBSET (Ids \X Rows)
      /\ AfterKind(job[h]) \in JobType /\ Idle \in JobType
  BY AfterType, IdleType DEF JobType
<1>1. CASE ReadRows(h)
  <2> DEFINE found == {x \in job[h].moved : OfKind(job[h].kind)[x] # None}
             next == IF found = {} THEN AfterKind(job[h])
                     ELSE [job[h] EXCEPT !.pc = "save",
                              !.todo = {<<x, Corrected(rows[x])>> : x \in found}]
  <2>1. Start(h, next)
    BY <1>1 DEF ReadRows
  <2>2. ASSUME NEW x \in found PROVE x \in Ids /\ rows[x] \in Rows
    BY <1>0 DEF OfKind, JobType
  <2>3. ASSUME NEW x \in found PROVE <<x, Corrected(rows[x])>> \in Ids \X Rows
    BY <2>2, CorrectedType
  <2>4. ASSUME NEW S \in SUBSET (Ids \X Rows)
        PROVE  [job[h] EXCEPT !.pc = "save", !.todo = S] \in JobType
    <3>1. "save" \in Pcs
      BY DEF Pcs
    <3> QED
      BY <1>0, <3>1 DEF JobType
  <2>5. {<<x, Corrected(rows[x])>> : x \in found} \in SUBSET (Ids \X Rows)
    BY <2>3
  <2>6. next \in JobType
    BY <1>0, <2>4, <2>5
  <2>7. job' \in [Handlers -> JobType]
    <3> HIDE DEF next
    <3> QED BY <1>0, <2>1, <2>6, StartType
  <2> QED
    BY <1>1, <2>7 DEF ReadRows, JobType
<1>2. CASE SaveRow(h)
  <2>1. PICK x \in job[h].todo :
            /\ rows' = [rows EXCEPT ![x[1]] = x[2]]
            /\ posted' = IF x[1] \in CommentIds /\ posted[x[1]] = None
                         THEN [posted EXCEPT ![x[1]] = x[2]] ELSE posted
            /\ ThenList(h, job[h].todo \ {x})
    BY <1>2 DEF SaveRow
  <2>2. x[1] \in Ids /\ x[2] \in Rows
    BY <1>0, <2>1
  <2>3. job' \in [Handlers -> JobType]
    BY <1>0, <2>1, ThenListType
  <2>4. rows' \in [Ids -> Rows \cup {None}] /\ posted' \in [CommentIds -> Rows \cup {None}]
    BY <2>1, <2>2
  <2> QED
    BY <1>2, <2>3, <2>4 DEF SaveRow, JobType
<1>3. CASE DeleteRow(h)
  <2>1. PICK x \in job[h].todo :
            rows' = [rows EXCEPT ![x[1]] = None] /\ ThenList(h, job[h].todo \ {x})
    BY <1>3 DEF DeleteRow
  <2>2. job' \in [Handlers -> JobType]
    BY <1>0, <2>1, ThenListType
  <2>3. rows' \in [Ids -> Rows \cup {None}]
    BY <2>1
  <2> QED
    BY <1>3, <2>2, <2>3 DEF DeleteRow, JobType
<1>4. CASE Busy(h)
  <2>1. job' \in [Handlers -> JobType]
    BY <1>0, <1>4, StartType, ThenListType DEF Busy
  <2>2. busy' \in 0 .. MaxBusy
    BY <1>4 DEF Busy
  <2> QED
    BY <1>4, <2>1, <2>2 DEF Busy, JobType
<1>5. CASE ReadList(h)
  <2> DEFINE k == job[h].kind
  <2>1. reads' \in [Kinds -> Nat] /\ reads'[k] \in Nat
    BY <1>0, <1>5 DEF ReadList
  <2>2. OfKind(k) \in [Ids -> Rows \cup {None}]
    BY DEF OfKind
  <2>3. Audience(h) \in SUBSET Handlers
    BY DEF Audience
  <2>4. "send" \in Pcs
    BY DEF Pcs
  <2>5. ASSUME NEW l \in [Ids -> Rows \cup {None}], NEW n \in Nat, NEW A \in SUBSET Handlers
        PROVE  [job[h] EXCEPT !.pc = "send", !.list = l, !.num = n, !.to = A] \in JobType
    BY <1>0, <2>4 DEF JobType
  <2>6. [job[h] EXCEPT !.pc = "send", !.list = OfKind(k), !.num = reads'[k],
                       !.to = Audience(h)] \in JobType
    BY <2>1, <2>2, <2>3, <2>5
  <2>7. job' \in [Handlers -> JobType]
    BY <1>0, <1>5, <2>6, StartType DEF ReadList
  <2> QED
    BY <1>5, <2>1, <2>7 DEF ReadList, JobType
<1>6. CASE SendList(h)
  <2> DEFINE j == job[h]
  <2>1. PICK b \in j.to :
            /\ shown' = [shown EXCEPT ![b][j.kind] = [list |-> j.list, num |-> j.num]]
            /\ newest' = [newest EXCEPT ![b][j.kind] = IF @ > j.num THEN @ ELSE j.num]
            /\ Start(h, IF j.to = {b} THEN AfterKind(j) ELSE [j EXCEPT !.to = @ \ {b}])
    BY <1>6 DEF SendList
  <2>2. /\ b \in Handlers /\ j.num \in Nat /\ j.list \in [Ids -> Rows \cup {None}]
        /\ j.kind \in Kinds
    BY <1>0, <2>1 DEF JobType
  <2>3. [j EXCEPT !.to = @ \ {b}] \in JobType
    BY <1>0 DEF JobType
  <2>4. job' \in [Handlers -> JobType]
    BY <1>0, <2>1, <2>3, StartType
  <2>5. newest' \in [Handlers -> [Kinds -> Nat]]
    BY <2>1, <2>2
  <2>6. shown' \in [Handlers -> [Kinds -> [list : [Ids -> Rows \cup {None}], num : Nat]]]
    BY <2>1, <2>2
  <2> QED
    BY <1>6, <2>4, <2>5, <2>6 DEF SendList, JobType
<1> QED
  BY <1>1, <1>2, <1>3, <1>4, <1>5, <1>6 DEF GoOn

LEMMA TypeStep == TypeOK /\ [Next]_vars => TypeOK'
<1> SUFFICES ASSUME TypeOK, [Next]_vars PROVE TypeOK'
    OBVIOUS
<1>1. CASE UNCHANGED vars
  BY <1>1 DEF vars, TypeOK
<1> QED
  BY <1>1, TakeType, GoOnType DEF Next

(* Every variable keeps its type: no handler makes a row of a field's      *)
(* wrong kind, and the bounds hold (server.go, handleBrowser).             *)
THEOREM TypeCorrect == Spec => []TypeOK
<1> QED
  BY TypeInit, TypeStep, PTL DEF Spec

-----------------------------------------------------------------------------
(* Author and parent.                                                      *)

LEMMA ContentInit == Init => ContentKept /\ TodoAgrees /\ NewIsOnes
<1> SUFFICES ASSUME Init PROVE ContentKept /\ TodoAgrees /\ NewIsOnes
    OBVIOUS
<1>1. \A h \in Handlers : job[h].todo = {}
  BY DEF Init, At
<1>2. \A x \in CommentIds : x \in Ids /\ x \notin TourIds
  BY Disjoint DEF Ids
<1>3. ContentKept
  BY <1>2 DEF Init, ContentKept
<1> QED
  BY <1>1, <1>3 DEF TodoAgrees, NewIsOnes

(* A handler starts a job: what the job saves agrees with what was posted, *)
(* and the ids that were not posted are in no other job.                   *)
LEMMA StartAgrees ==
  ASSUME TypeOK, TodoAgrees, NewIsOnes, NEW h \in Handlers, NEW j, Start(h, j),
         posted' = posted,
         \A t \in j.todo : j.pc = "save" /\ t[1] \in CommentIds /\ posted[t[1]] # None
                              => SamePost(t[1], t[2]),
         \A t \in j.todo : t[1] \in CommentIds /\ posted[t[1]] = None
             => /\ \A u \in j.todo : u[1] = t[1] => u = t
                /\ \A g \in Handlers \ {h} : \A u \in job[g].todo : u[1] # t[1]
  PROVE  TodoAgrees' /\ NewIsOnes'
<1>1. \A g \in Handlers : job'[g] = IF g = h THEN j ELSE job[g]
  BY DEF Start, TypeOK
<1>2. TodoAgrees'
  BY <1>1 DEF TodoAgrees, SamePost
<1>3. ASSUME NEW f \in Handlers, NEW g \in Handlers,
             NEW t \in job'[f].todo, NEW u \in job'[g].todo,
             t[1] = u[1], t[1] \in CommentIds, posted[t[1]] = None
      PROVE  f = g /\ t = u
  BY <1>1, <1>3 DEF NewIsOnes
<1> QED
  BY <1>2, <1>3 DEF NewIsOnes

LEMMA EmptyAgrees ==
  ASSUME TypeOK, TodoAgrees, NewIsOnes, NEW h \in Handlers, NEW j, Start(h, j),
         posted' = posted, j.todo = {}
  PROVE  TodoAgrees' /\ NewIsOnes'
  BY StartAgrees

(* A job of comments and tours that were posted, or not to be saved.       *)
LEMMA PostedAgrees ==
  ASSUME TypeOK, TodoAgrees, NewIsOnes, NEW h \in Handlers, NEW j, Start(h, j),
         posted' = posted,
         \A t \in j.todo : t[1] \in CommentIds
             => posted[t[1]] # None /\ (j.pc = "save" => SamePost(t[1], t[2]))
  PROVE  TodoAgrees' /\ NewIsOnes'
  BY StartAgrees

LEMMA TodoOf ==
  ASSUME NEW pc, NEW op, NEW kind
  PROVE  At(pc, op, kind).todo = {}
  BY DEF At

LEMMA TodoOfSaveAll ==
  ASSUME NEW op, NEW kind, NEW S
  PROVE  SaveAll(op, kind, S).todo = S /\ SaveAll(op, kind, S).pc = "save"
  BY DEF At, SaveAll

LEMMA NothingLeft == ASSUME NEW j PROVE AfterKind(j).todo = {} /\ Idle.todo = {}
  BY TodoOf DEF AfterKind, Idle, At

(* ThenList leaves a handler no more to do than it had.                    *)
LEMMA ThenListLeaves ==
  ASSUME job \in [Handlers -> JobType], NEW h \in Handlers, NEW left, ThenList(h, left)
  PROVE  \A g \in Handlers : /\ g # h => job'[g] = job[g]
                             /\ job'[g].pc = "save" => job[g].pc = "save"
                             /\ g = h => job'[g].todo = left
<1>1. job[h] \in JobType
  OBVIOUS
<1>2. /\ [job[h] EXCEPT !.todo = left].pc = job[h].pc
      /\ [job[h] EXCEPT !.todo = left].todo = left
      /\ [job[h] EXCEPT !.pc = "list", !.todo = {}].pc = "list"
      /\ [job[h] EXCEPT !.pc = "list", !.todo = {}].todo = {}
  BY <1>1 DEF JobType
<1> QED
  BY <1>2 DEF ThenList, Start

LEMMA JobTyped == TypeOK => job \in [Handlers -> JobType]
  BY DEF TypeOK, JobType

(* A new id is posted under by nobody, and is in nobody's hands.           *)
LEMMA FreshAgrees ==
  ASSUME TypeOK, TodoAgrees, NewIsOnes, NEW h \in Handlers, NEW x \in Fresh, NEW c,
         Post(h, x, c), posted' = posted
  PROVE  TodoAgrees' /\ NewIsOnes'
<1> DEFINE j == SaveAll("add", "comment", {<<x, c>>})
<1>1. j.todo = {<<x, c>>}
  BY TodoOfSaveAll
<1>2. x \in CommentIds /\ posted[x] = None
      /\ \A g \in Handlers : \A t \in job[g].todo : t[1] # x
  BY DEF Fresh, Unused
<1>3. Start(h, j)
  BY DEF Post
<1> HIDE DEF j
<1> QED
  BY <1>1, <1>2, <1>3, StartAgrees

LEMMA TakeContent ==
  ASSUME ContentInv, NEW h \in Handlers, TakeMessage(h)
  PROVE  (ContentKept /\ TodoAgrees /\ NewIsOnes)'
<1> USE DEF ContentInv
<1>0. rows' = rows /\ posted' = posted
  BY DEF TakeMessage, Take, CommentAdd, CommentReply, CommentResolve, CommentDelete,
         TourSave, TourDelete, Reanchor
<1>00. CommentIds \subseteq Ids /\ TourIds \cap CommentIds = {}
  BY Disjoint DEF Ids
<1> SUFFICES TodoAgrees' /\ NewIsOnes'
  BY <1>0 DEF ContentKept
<1>1. CASE CommentAdd(h)
  BY <1>0, <1>1, FreshAgrees DEF CommentAdd
<1>2. CASE CommentReply(h)
  BY <1>0, <1>2, FreshAgrees DEF CommentReply
<1>3. CASE CommentResolve(h)
  <2>1. PICK x \in CommentIds :
            /\ posted[x] # None
            /\ Start(h, IF rows[x] # None /\ rows[x].parent = None
                     THEN SaveAll("resolve", "comment", {<<x, Toggled(rows[x])>>})
                     ELSE At("list", "resolve", "comment"))
    BY <1>3 DEF CommentResolve
  <2>2. CASE rows[x] # None /\ rows[x].parent = None
    <3> DEFINE j == SaveAll("resolve", "comment", {<<x, Toggled(rows[x])>>})
    <3>1. Start(h, j) /\ j.todo = {<<x, Toggled(rows[x])>>}
      BY <2>1, <2>2, TodoOfSaveAll
    <3>2. rows[x] \in Rows
      BY <1>00, <2>2 DEF TypeOK
    <3>3. SamePost(x, Toggled(rows[x]))
      BY <2>2, <3>2 DEF ContentKept, SamePost, Toggled, Rows
    <3> HIDE DEF j
    <3> QED
      BY <1>0, <2>1, <3>1, <3>3, PostedAgrees
  <2>3. CASE ~(rows[x] # None /\ rows[x].parent = None)
    BY <1>0, <2>1, <2>3, TodoOf, EmptyAgrees
  <2> QED
    BY <2>2, <2>3
<1>4. CASE CommentDelete(h)
  <2>1. PICK x \in CommentIds :
            Start(h, IF Thread(x) = {} THEN At("list", "delete", "comment")
                     ELSE [At("remove", "delete", "comment") EXCEPT
                              !.todo = {<<y, rows[y]>> : y \in Thread(x)}])
    BY <1>4 DEF CommentDelete
  <2>2. CASE Thread(x) # {}
    <3> DEFINE S == {<<y, rows[y]>> : y \in Thread(x)}
               j == [At("remove", "delete", "comment") EXCEPT !.todo = S]
    <3>1. Start(h, j)
      BY <2>1, <2>2
    <3>2. j.todo = S /\ j.pc = "remove"
      BY DEF At
    <3>3. \A t \in S : posted[t[1]] # None
      BY DEF Thread, ContentKept
    <3> HIDE DEF j
    <3> QED
      BY <1>0, <3>1, <3>2, <3>3, PostedAgrees
  <2>3. CASE Thread(x) = {}
    BY <1>0, <2>1, <2>3, TodoOf, EmptyAgrees
  <2> QED
    BY <2>2, <2>3
<1>5. CASE TourSave(h)
  <2>1. PICK t \in TourIds :
            Start(h, SaveAll("tour_save", "tour", {<<t, Tour(messages', 0)>>}))
    BY <1>5 DEF TourSave
  <2> DEFINE j == SaveAll("tour_save", "tour", {<<t, Tour(messages', 0)>>})
  <2>2. j.todo = {<<t, Tour(messages', 0)>>}
    BY TodoOfSaveAll
  <2>3. Start(h, j)
    BY <2>1
  <2> HIDE DEF j
  <2> QED
    BY <1>0, <1>00, <2>2, <2>3, PostedAgrees
<1>6. CASE TourDelete(h)
  <2>1. PICK t \in TourIds :
            Start(h, [At("remove", "delete", "tour") EXCEPT !.todo = {<<t, Tour(0, 0)>>}])
    BY <1>6 DEF TourDelete
  <2> DEFINE j == [At("remove", "delete", "tour") EXCEPT !.todo = {<<t, Tour(0, 0)>>}]
  <2>2. j.todo = {<<t, Tour(0, 0)>>}
    BY DEF At
  <2>3. Start(h, j)
    BY <2>1
  <2> HIDE DEF j
  <2> QED
    BY <1>0, <1>00, <2>2, <2>3, PostedAgrees
<1>7. CASE Reanchor(h)
  <2>1. PICK S \in SUBSET Ids \ {{}} :
            Start(h, [At("read", "reanchor", "comment") EXCEPT !.moved = S])
    BY <1>7 DEF Reanchor
  <2>2. [At("read", "reanchor", "comment") EXCEPT !.moved = S].todo = {}
    BY DEF At
  <2> QED
    BY <1>0, <2>1, <2>2, EmptyAgrees
<1> QED
  BY <1>1, <1>2, <1>3, <1>4, <1>5, <1>6, <1>7 DEF TakeMessage

LEMMA GoOnContent ==
  ASSUME ContentInv, NEW h \in Handlers, GoOn(h)
  PROVE  (ContentKept /\ TodoAgrees /\ NewIsOnes)'
<1> USE DEF ContentInv
<1>0. CommentIds \subseteq Ids /\ job \in [Handlers -> JobType] /\ job[h] \in JobType
  BY JobTyped DEF Ids
<1>1. CASE ReadRows(h)
  <2>0. ContentKept'
    BY <1>1 DEF ReadRows, ContentKept
  <2> DEFINE found == {x \in job[h].moved : OfKind(job[h].kind)[x] # None}
             S == {<<x, Corrected(rows[x])>> : x \in found}
             j == [job[h] EXCEPT !.pc = "save", !.todo = S]
  <2>1. Start(h, IF found = {} THEN AfterKind(job[h]) ELSE j) /\ posted' = posted
    BY <1>1 DEF ReadRows
  <2>2. j.todo = S
    BY <1>0 DEF JobType
  <2>3. ASSUME NEW x \in found, x \in CommentIds
        PROVE  posted[x] # None /\ SamePost(x, Corrected(rows[x]))
    <3>1. rows[x] # None /\ rows[x] \in Rows
      BY <1>0, <2>3 DEF OfKind, TypeOK
    <3>2. Corrected(rows[x]).parent = rows[x].parent /\ Corrected(rows[x]).text = rows[x].text
      BY <3>1 DEF Corrected, Rows
    <3> QED
      BY <2>3, <3>1, <3>2 DEF ContentKept, SamePost
  <2>4. \A t \in S : t[1] \in CommentIds => posted[t[1]] # None /\ SamePost(t[1], t[2])
    BY <2>3
  <2>5. CASE found = {}
    BY <2>0, <2>1, <2>5, NothingLeft, EmptyAgrees
  <2>6. CASE found # {}
    <3>1. Start(h, j)
      BY <2>1, <2>6
    <3> HIDE DEF j, S
    <3> QED
      BY <2>0, <2>1, <2>2, <2>4, <3>1, PostedAgrees
  <2> QED
    BY <2>5, <2>6
<1>2. CASE SaveRow(h)
  <2>1. PICK x \in job[h].todo :
            /\ rows' = [rows EXCEPT ![x[1]] = x[2]]
            /\ posted' = IF x[1] \in CommentIds /\ posted[x[1]] = None
                         THEN [posted EXCEPT ![x[1]] = x[2]] ELSE posted
            /\ ThenList(h, job[h].todo \ {x})
    BY <1>2 DEF SaveRow
  <2>2. job[h].pc = "save"
    BY <1>2 DEF SaveRow
  <2>3. \A g \in Handlers : /\ job'[g].todo \subseteq job[g].todo
                            /\ job'[g].pc = "save" => job[g].pc = "save"
                            /\ g = h => x \notin job'[g].todo
    BY <1>0, <2>1, ThenListLeaves
  <2>4. \A y \in CommentIds : posted'[y] = None => posted[y] = None
    BY <2>1 DEF TypeOK
  <2>5. \A y \in CommentIds : y # x[1] \/ posted[y] # None => posted'[y] = posted[y]
    BY <2>1 DEF TypeOK
  <2>6. ContentKept'
    <3> SUFFICES ASSUME NEW y \in CommentIds, rows'[y] # None
                 PROVE  /\ posted'[y] # None
                        /\ rows'[y].parent = posted'[y].parent
                        /\ rows'[y].text = posted'[y].text
      BY DEF ContentKept
    <3>1. CASE y # x[1]
      BY <1>0, <2>1, <2>5, <3>1 DEF ContentKept, TypeOK
    <3>2. CASE y = x[1]
      <4>1. rows'[y] = x[2]
        BY <1>0, <2>1, <3>2 DEF TypeOK
      <4>2. CASE posted[y] = None
        BY <2>1, <3>2, <4>1, <4>2 DEF TypeOK
      <4>3. CASE posted[y] # None
        BY <2>1, <2>2, <2>5, <3>2, <4>1, <4>3 DEF TodoAgrees, SamePost
      <4> QED
        BY <4>2, <4>3
    <3> QED
      BY <3>1, <3>2
  <2>7. TodoAgrees'
    <3> SUFFICES ASSUME NEW g \in Handlers, NEW t \in job'[g].todo, job'[g].pc = "save",
                        t[1] \in CommentIds, posted'[t[1]] # None
                 PROVE  SamePost(t[1], t[2])'
      BY DEF TodoAgrees
    <3>1. t \in job[g].todo /\ job[g].pc = "save"
      BY <2>3
    <3>2. posted[t[1]] = None => t[1] # x[1]
      BY <2>1, <2>3, <3>1 DEF NewIsOnes
    <3>3. posted'[t[1]] = posted[t[1]] /\ posted[t[1]] # None
      BY <2>5, <3>2
    <3> QED
      BY <3>1, <3>3 DEF TodoAgrees, SamePost
  <2>8. NewIsOnes'
    BY <2>3, <2>4 DEF NewIsOnes
  <2> QED
    BY <2>6, <2>7, <2>8
<1>3. CASE DeleteRow(h)
  <2>1. PICK x \in job[h].todo :
            rows' = [rows EXCEPT ![x[1]] = None] /\ ThenList(h, job[h].todo \ {x})
    BY <1>3 DEF DeleteRow
  <2>2. posted' = posted
    BY <1>3 DEF DeleteRow
  <2>3. \A g \in Handlers : /\ job'[g].todo \subseteq job[g].todo
                            /\ job'[g].pc = "save" => job[g].pc = "save"
    BY <1>0, <2>1, ThenListLeaves
  <2>4. ContentKept'
    BY <1>0, <2>1, <2>2 DEF ContentKept, TypeOK
  <2> QED
    BY <2>2, <2>3, <2>4 DEF TodoAgrees, NewIsOnes, SamePost
<1>4. CASE Busy(h)
  <2>1. ContentKept' /\ posted' = posted
    BY <1>4 DEF Busy, ContentKept
  <2>2. CASE Start(h, Idle)
    BY <2>1, <2>2, NothingLeft, EmptyAgrees
  <2>3. CASE ThenList(h, {})
    <3>1. \A g \in Handlers : /\ job'[g].todo \subseteq job[g].todo
                              /\ job'[g].pc = "save" => job[g].pc = "save"
      BY <1>0, <2>3, ThenListLeaves
    <3> QED
      BY <2>1, <3>1 DEF TodoAgrees, NewIsOnes, SamePost
  <2> QED
    BY <1>4, <2>2, <2>3 DEF Busy
<1>5. CASE ReadList(h)
  <2>1. ContentKept' /\ posted' = posted
    BY <1>5 DEF ReadList, ContentKept
  <2>2. \A g \in Handlers : /\ job'[g].todo \subseteq job[g].todo
                            /\ job'[g].pc = "save" => job[g].pc = "save"
    BY <1>0, <1>5 DEF ReadList, Start, JobType
  <2> QED
    BY <2>1, <2>2 DEF TodoAgrees, NewIsOnes, SamePost
<1>6. CASE SendList(h)
  <2>1. ContentKept' /\ posted' = posted
    BY <1>6 DEF SendList, ContentKept
  <2>2. \A g \in Handlers : /\ job'[g].todo \subseteq job[g].todo
                            /\ job'[g].pc = "save" => job[g].pc = "save" \/ job'[g].todo = {}
    BY <1>0, <1>6, NothingLeft DEF SendList, Start, JobType
  <2> QED
    BY <2>1, <2>2 DEF TodoAgrees, NewIsOnes, SamePost
<1> QED
  BY <1>1, <1>2, <1>3, <1>4, <1>5, <1>6 DEF GoOn

LEMMA ContentStep == ContentInv /\ [Next]_vars => ContentInv'
<1> SUFFICES ASSUME ContentInv, [Next]_vars PROVE ContentInv'
    OBVIOUS
<1>1. TypeOK'
  BY TypeStep DEF ContentInv
<1>2. CASE UNCHANGED vars
  BY <1>1, <1>2 DEF vars, ContentInv, ContentKept, TodoAgrees, NewIsOnes, SamePost
<1> QED
  BY <1>1, <1>2, TakeContent, GoOnContent DEF ContentInv, Next

(* Whatever handlers do to a comment at the same time, it keeps the author *)
(* and the parent it was posted with (server.go, TypeReanchor;             *)
(* storage/comments.go, ResolveComment).                                   *)
THEOREM ContentAlwaysKept == Spec => []ContentKept
<1>1. Init => ContentInv
  BY TypeInit, ContentInit DEF ContentInv
<1>2. ContentInv => ContentKept
  BY DEF ContentInv
<1> QED
  BY <1>1, <1>2, ContentStep, PTL DEF Spec
=============================================================================
